------------------------ MODULE SpawnAdmission_proofs ------------------------
(***************************************************************************)
(* Proofs about SpawnAdmission for any requests, conversations, limits and *)
(* settings.                                                               *)
(*                                                                         *)
(* What carries the limits is the shape of the stack.  A spawn in progress *)
(* is either at the bottom, asked for from outside, or stands on the drain *)
(* that holds its request, so the spawns of a conversation are counted: at *)
(* most one unless a drain was nested, and it has a slot once it is        *)
(* admitted.                                                               *)
(*                                                                         *)
(* What carries the order and the use of the slots is where each request   *)
(* is: of two that drains hold, the one further up the stack is the newer, *)
(* both are older than what is queued, and the one asked for from outside  *)
(* is the newest of all.  So a full budget is met only at the bottom of    *)
(* the stack, where no drain could have been the one to find it so.        *)
(*                                                                         *)
(* That the calls end is a matter of weights: what a request, a monitor    *)
(* and a call may still set off, added up.                                 *)
(***************************************************************************)
EXTENDS SpawnAdmission, FiniteSetTheorems, SequenceTheorems, TLAPS

IsSpawn(f) == f.op \in SpawnOps
Reasons == {"waiting_for_prerequisite", "session closed"}

(* Frames by their kind.                                                   *)
LEMMA SpawnFrames ==
    /\ \A f \in Frames : IsSpawn(f) => f.sub \in Sub
    /\ \A o \in SpawnOps, r \in Sub :
          /\ SpawnCall(o, r) \in Frames /\ IsSpawn(SpawnCall(o, r))
          /\ SpawnCall(o, r).op = o /\ SpawnCall(o, r).sub = r
<1>1. \A f \in Frames : IsSpawn(f) => f.sub \in Sub
  BY DEF Frames, IsSpawn, SpawnOps
<1>2. \A o \in SpawnOps, r \in Sub :
          /\ SpawnCall(o, r) \in Frames /\ IsSpawn(SpawnCall(o, r))
          /\ SpawnCall(o, r).op = o /\ SpawnCall(o, r).sub = r
  BY DEF Frames, IsSpawn, SpawnCall
<1> QED BY <1>1, <1>2

LEMMA DrainFrames ==
    /\ \A f \in Frames : f.op = "drain" => f.conv \in Conv /\ f.held \in Sub \cup {NoSub}
    /\ \A c \in Conv, r \in Sub \cup {NoSub} :
          /\ DrainCall(c, r) \in Frames /\ ~IsSpawn(DrainCall(c, r))
          /\ DrainCall(c, r).op = "drain" /\ DrainCall(c, r).conv = c
<1>1. \A f \in Frames : f.op = "drain" => f.conv \in Conv /\ f.held \in Sub \cup {NoSub}
  BY DEF Frames, SpawnOps
<1>2. \A c \in Conv, r \in Sub \cup {NoSub} :
          /\ DrainCall(c, r) \in Frames /\ ~IsSpawn(DrainCall(c, r))
          /\ DrainCall(c, r).op = "drain" /\ DrainCall(c, r).conv = c
  BY DEF Frames, IsSpawn, SpawnOps, DrainCall
<1> QED BY <1>1, <1>2

LEMMA OtherFrames ==
    /\ \A f \in Frames : f.op = "dependents" => f.ticket \in Ticket
    /\ \A f \in Frames : f.op = "each" => f.why \in Reasons /\ f.left \in SUBSET Sub
    /\ \A t \in Ticket : CascadeCall(t) \in Frames /\ ~IsSpawn(CascadeCall(t))
    /\ \A w \in Reasons, S \in SUBSET Sub : EachCall(w, S) \in Frames /\ ~IsSpawn(EachCall(w, S))
<1>1. \A f \in Frames : f.op = "dependents" => f.ticket \in Ticket
  BY DEF Frames, SpawnOps
<1>2. \A f \in Frames : f.op = "each" => f.why \in Reasons /\ f.left \in SUBSET Sub
  BY DEF Frames, SpawnOps, Reasons
<1>3. \A t \in Ticket : CascadeCall(t) \in Frames /\ ~IsSpawn(CascadeCall(t))
  BY DEF Frames, IsSpawn, SpawnOps, CascadeCall
<1>4. \A w \in Reasons, S \in SUBSET Sub : EachCall(w, S) \in Frames /\ ~IsSpawn(EachCall(w, S))
  BY DEF Frames, IsSpawn, SpawnOps, EachCall, Reasons
<1> QED BY <1>1, <1>2, <1>3, <1>4

-----------------------------------------------------------------------------
(* The shape of a stack: a spawn that has called something waits in one of *)
(* two places, and what called a spawn is the drain of its conversation.   *)
Bears(st) == st # <<>> /\ IsSpawn(st[1]) => st[1].op \in {"capacity", "recheck"}
Plain(st) == st \in Seq(Frames) /\ \A i \in 1..Len(st) : ~IsSpawn(st[i])

Shape(st) ==
    /\ st \in Seq(Frames)
    /\ \A i \in 1..Len(st) : IsSpawn(st[i]) =>
          /\ i > 1 => st[i].op \in {"capacity", "recheck"}
          /\ i < Len(st) => st[i + 1] = DrainCall(OwnerOf[st[i].sub], st[i].sub)

(* The spawns of a conversation in a stack.                                *)
SpawnOf(c, f) == IsSpawn(f) /\ OwnerOf[f.sub] = c
AtMostOne(c, st) ==
    \A i, j \in 1..Len(st) : SpawnOf(c, st[i]) /\ SpawnOf(c, st[j]) => i = j
NoneOf(c, st) == \A i \in 1..Len(st) : ~SpawnOf(c, st[i])
Claims(c, st) == \E i \in 1..Len(st) : SpawnOf(c, st[i]) /\ st[i].op # "admit"

LEMMA PlainTop ==
    ASSUME NEW A, Plain(A), NEW B, Shape(B), Bears(B) \/ A = <<>>
    PROVE  Shape(A \o B)
<1> DEFINE C == A \o B
<1>1. A \in Seq(Frames) /\ B \in Seq(Frames)
  BY DEF Plain, Shape
<1>2. C \in Seq(Frames) /\ Len(A) \in Nat /\ Len(B) \in Nat /\ Len(C) = Len(A) + Len(B)
  BY <1>1
<1>3. \A i \in 1..Len(C) : i <= Len(A) => C[i] = A[i] /\ i \in 1..Len(A)
  BY <1>1
<1>4. \A i \in 1..Len(C) : i > Len(A) => i - Len(A) \in 1..Len(B) /\ C[i] = B[i - Len(A)]
  BY <1>1
<1> HIDE DEF C
<1>5. ASSUME NEW i \in 1..Len(C), IsSpawn(C[i])
      PROVE  /\ i > 1 => C[i].op \in {"capacity", "recheck"}
             /\ i < Len(C) => C[i + 1] = DrainCall(OwnerOf[C[i].sub], C[i].sub)
  <2>1. i > Len(A)
    BY <1>2, <1>3, <1>5 DEF Plain
  <2>2. PICK k \in 1..Len(B) : k = i - Len(A) /\ C[i] = B[k]
    BY <1>4, <2>1
  <2>3. /\ k > 1 => B[k].op \in {"capacity", "recheck"}
        /\ k < Len(B) => B[k + 1] = DrainCall(OwnerOf[B[k].sub], B[k].sub)
    BY <2>2, <1>5 DEF Shape
  <2>4. i < Len(C) => k < Len(B) /\ C[i + 1] = B[k + 1]
    <3> SUFFICES ASSUME i < Len(C) PROVE k < Len(B) /\ C[i + 1] = B[k + 1]
      OBVIOUS
    <3>1. i + 1 \in 1..Len(C) /\ i + 1 > Len(A) /\ i + 1 - Len(A) = k + 1
      BY <1>2, <2>1, <2>2
    <3> QED BY <3>1, <1>2, <1>4, <2>2
  <2>5. i > 1 /\ k = 1 => C[i].op \in {"capacity", "recheck"}
    <3>1. i > 1 /\ k = 1 => A # <<>> /\ B # <<>>
      BY <1>1, <1>2, <2>2
    <3> QED BY <3>1, <2>2, <1>5 DEF Bears
  <2> QED BY <2>2, <2>3, <2>4, <2>5, <1>2
<1>6. Shape(C)
  BY <1>2, <1>5 DEF Shape
<1> QED BY <1>6 DEF C

LEMMA PlainCounts ==
    ASSUME NEW A, Plain(A), NEW B \in Seq(Frames), NEW c
    PROVE  /\ AtMostOne(c, B) => AtMostOne(c, A \o B)
           /\ NoneOf(c, B) => NoneOf(c, A \o B)
           /\ Claims(c, A \o B) => Claims(c, B)
<1> DEFINE C == A \o B
<1>1. A \in Seq(Frames)
  BY DEF Plain
<1>2. Len(A) \in Nat /\ Len(B) \in Nat /\ Len(C) = Len(A) + Len(B)
  BY <1>1
<1>3. \A i \in 1..Len(C) : i <= Len(A) => C[i] = A[i] /\ i \in 1..Len(A)
  BY <1>1
<1>4. \A i \in 1..Len(C) : i > Len(A) => i - Len(A) \in 1..Len(B) /\ C[i] = B[i - Len(A)]
  BY <1>1
<1> HIDE DEF C
<1>5. \A i \in 1..Len(C) : IsSpawn(C[i]) => i - Len(A) \in 1..Len(B) /\ C[i] = B[i - Len(A)]
  BY <1>2, <1>3, <1>4 DEF Plain
<1>6. AtMostOne(c, B) => AtMostOne(c, C)
  <2> SUFFICES ASSUME AtMostOne(c, B), NEW i \in 1..Len(C), NEW j \in 1..Len(C),
                      SpawnOf(c, C[i]), SpawnOf(c, C[j])
               PROVE  i = j
    BY DEF AtMostOne
  <2>1. i - Len(A) \in 1..Len(B) /\ C[i] = B[i - Len(A)] /\ j - Len(A) \in 1..Len(B) /\ C[j] = B[j - Len(A)]
    BY <1>5 DEF SpawnOf
  <2>2. i - Len(A) = j - Len(A)
    BY <2>1 DEF AtMostOne
  <2> QED BY <2>2, <1>2
<1>7. NoneOf(c, B) => NoneOf(c, C)
  BY <1>5 DEF NoneOf, SpawnOf
<1>8. Claims(c, C) => Claims(c, B)
  BY <1>5 DEF Claims, SpawnOf
<1> QED BY <1>6, <1>7, <1>8 DEF C

LEMMA RestShape ==
    ASSUME NEW st, Shape(st), st # <<>>
    PROVE  /\ Head(st) \in Frames /\ Head(st) = st[1]
           /\ Shape(Tail(st)) /\ Bears(Tail(st)) /\ Tail(st) \in Seq(Frames)
           /\ IsSpawn(Head(st)) /\ Len(st) > 1 =>
                 /\ Tail(st) # <<>> /\ Head(Tail(st)) = DrainCall(OwnerOf[Head(st).sub], Head(st).sub)
           /\ ~(Len(st) > 1) => Tail(st) = <<>>
<1>1. st \in Seq(Frames)
  BY DEF Shape
<1>2. /\ Head(st) \in Frames /\ Head(st) = st[1] /\ Tail(st) \in Seq(Frames)
      /\ Len(st) \in Nat /\ Len(st) >= 1 /\ Len(Tail(st)) = Len(st) - 1
  BY <1>1
<1>3. \A i \in 1..Len(Tail(st)) : i + 1 \in 1..Len(st) /\ Tail(st)[i] = st[i + 1]
  BY <1>1
<1> DEFINE T == Tail(st)
<1>9. T \in Seq(Frames)
  BY <1>2
<1>4. ASSUME NEW i \in 1..Len(T), IsSpawn(T[i])
      PROVE  /\ T[i].op \in {"capacity", "recheck"}
             /\ i < Len(T) => T[i + 1] = DrainCall(OwnerOf[T[i].sub], T[i].sub)
  <2>1. i + 1 \in 1..Len(st) /\ T[i] = st[i + 1] /\ i + 1 > 1 /\ IsSpawn(st[i + 1])
    BY <1>3, <1>4
  <2>2. /\ st[i + 1].op \in {"capacity", "recheck"}
        /\ i + 1 < Len(st) => st[i + 1 + 1] = DrainCall(OwnerOf[st[i + 1].sub], st[i + 1].sub)
    BY <2>1 DEF Shape
  <2>3. i < Len(T) => i + 1 < Len(st) /\ T[i + 1] = st[i + 1 + 1]
    BY <1>2, <1>3
  <2> QED BY <2>1, <2>2, <2>3
<1>5. Shape(T)
  BY <1>2, <1>4 DEF Shape
<1>6. Bears(T)
  <2>1. T # <<>> => 1 \in 1..Len(T)
    BY <1>2
  <2> QED BY <1>4, <2>1 DEF Bears
<1>7. ASSUME IsSpawn(Head(st)), Len(st) > 1
      PROVE  T # <<>> /\ Head(T) = DrainCall(OwnerOf[Head(st).sub], Head(st).sub)
  <2>1. 1 \in 1..Len(st) /\ 1 < Len(st) /\ 1 \in 1..Len(T)
    BY <1>2, <1>7
  <2>2. st[1 + 1] = DrainCall(OwnerOf[st[1].sub], st[1].sub)
    BY <2>1, <1>2, <1>7 DEF Shape
  <2>3. T # <<>> /\ Head(T) = T[1]
    <3> HIDE DEF T
    <3> QED BY <1>9, <2>1
  <2>4. T[1] = st[1 + 1]
    BY <1>3, <2>1
  <2> QED BY <2>2, <2>3, <2>4, <1>2
<1>8. ~(Len(st) > 1) => T = <<>>
  BY <1>2
<1> QED BY <1>2, <1>5, <1>6, <1>7, <1>8

LEMMA RestCounts ==
    ASSUME NEW st \in Seq(Frames), st # <<>>, NEW c
    PROVE  /\ AtMostOne(c, st) => AtMostOne(c, Tail(st))
           /\ AtMostOne(c, st) /\ SpawnOf(c, Head(st)) => NoneOf(c, Tail(st))
           /\ NoneOf(c, st) => NoneOf(c, Tail(st))
           /\ Claims(c, Tail(st)) => Claims(c, st)
           /\ SpawnOf(c, Head(st)) /\ Head(st).op # "admit" => Claims(c, st)
<1>1. /\ Head(st) = st[1] /\ Len(st) \in Nat /\ Len(st) >= 1 /\ Len(Tail(st)) = Len(st) - 1
      /\ 1 \in 1..Len(st)
  OBVIOUS
<1>2. \A i \in 1..Len(Tail(st)) : i + 1 \in 1..Len(st) /\ Tail(st)[i] = st[i + 1]
  OBVIOUS
<1>3. AtMostOne(c, st) => AtMostOne(c, Tail(st))
  <2> SUFFICES ASSUME AtMostOne(c, st), NEW i \in 1..Len(Tail(st)), NEW j \in 1..Len(Tail(st)),
                      SpawnOf(c, Tail(st)[i]), SpawnOf(c, Tail(st)[j])
               PROVE  i = j
    BY DEF AtMostOne
  <2>1. i + 1 = j + 1
    BY <1>2 DEF AtMostOne
  <2> QED BY <2>1
<1>4. AtMostOne(c, st) /\ SpawnOf(c, Head(st)) => NoneOf(c, Tail(st))
  <2> SUFFICES ASSUME AtMostOne(c, st), SpawnOf(c, Head(st)), NEW i \in 1..Len(Tail(st)),
                      SpawnOf(c, Tail(st)[i])
               PROVE  FALSE
    BY DEF NoneOf
  <2>1. i + 1 = 1
    BY <1>1, <1>2 DEF AtMostOne
  <2> QED BY <2>1
<1>5. NoneOf(c, st) => NoneOf(c, Tail(st))
  BY <1>2 DEF NoneOf
<1>6. Claims(c, Tail(st)) => Claims(c, st)
  BY <1>2 DEF Claims
<1>7. SpawnOf(c, Head(st)) /\ Head(st).op # "admit" => Claims(c, st)
  BY <1>1 DEF Claims
<1> QED BY <1>3, <1>4, <1>5, <1>6, <1>7

(* One frame on top of a stack.                                            *)
LEMMA PushShape ==
    ASSUME NEW f \in Frames, NEW B, Shape(B), Bears(B),
           IsSpawn(f) /\ B # <<>> => Head(B) = DrainCall(OwnerOf[f.sub], f.sub)
    PROVE  /\ Shape(<<f>> \o B) /\ <<f>> \o B # <<>> /\ Head(<<f>> \o B) = f
           /\ (<<f>> \o B)[1] = f /\ Tail(<<f>> \o B) = B /\ <<f>> \o B \in Seq(Frames)
           /\ (IsSpawn(f) => f.op \in {"capacity", "recheck"}) => Bears(<<f>> \o B)
<1> DEFINE C == <<f>> \o B
<1>1. B \in Seq(Frames)
  BY DEF Shape
<1>2. C \in Seq(Frames) /\ C[1] = f /\ C # <<>> /\ Head(C) = f /\ Tail(C) = B /\ Len(B) \in Nat /\ Len(C) = Len(B) + 1
  BY <1>1
<1>3. \A i \in 1..Len(C) : i > 1 => i - 1 \in 1..Len(B) /\ C[i] = B[i - 1]
  BY <1>1
<1> HIDE DEF C
<1>4. ASSUME NEW i \in 1..Len(C), IsSpawn(C[i])
      PROVE  /\ i > 1 => C[i].op \in {"capacity", "recheck"}
             /\ i < Len(C) => C[i + 1] = DrainCall(OwnerOf[C[i].sub], C[i].sub)
  <2>1. CASE i = 1
    <3>1. i < Len(C) => B # <<>> /\ C[i + 1] = Head(B)
      <4> SUFFICES ASSUME i < Len(C) PROVE B # <<>> /\ C[i + 1] = Head(B)
        OBVIOUS
      <4>1. i + 1 \in 1..Len(C) /\ i + 1 > 1 /\ i + 1 - 1 = 1
        BY <2>1, <1>2
      <4> QED BY <4>1, <1>1, <1>2, <1>3
    <3> QED BY <3>1, <2>1, <1>2, <1>4
  <2>2. CASE i > 1
    <3>1. i - 1 \in 1..Len(B) /\ C[i] = B[i - 1]
      BY <1>3, <2>2
    <3>2. /\ i - 1 > 1 => B[i - 1].op \in {"capacity", "recheck"}
          /\ i - 1 < Len(B) => B[i - 1 + 1] = DrainCall(OwnerOf[B[i - 1].sub], B[i - 1].sub)
      BY <3>1, <1>4 DEF Shape
    <3>3. i < Len(C) => i - 1 < Len(B) /\ C[i + 1] = B[i - 1 + 1]
      <4> SUFFICES ASSUME i < Len(C) PROVE i - 1 < Len(B) /\ C[i + 1] = B[i - 1 + 1]
        OBVIOUS
      <4>1. i + 1 \in 1..Len(C) /\ i + 1 > 1 /\ i + 1 - 1 = i - 1 + 1
        BY <1>2
      <4> QED BY <4>1, <1>2, <1>3
    <3>4. i - 1 = 1 => B # <<>> /\ IsSpawn(B[1])
      BY <3>1, <1>1, <1>4
    <3> QED BY <3>1, <3>2, <3>3, <3>4 DEF Bears
  <2> QED BY <2>1, <2>2
<1>5. Shape(C)
  BY <1>2, <1>4 DEF Shape
<1>6. (IsSpawn(f) => f.op \in {"capacity", "recheck"}) => Bears(C)
  BY <1>2 DEF Bears
<1> QED BY <1>2, <1>5, <1>6 DEF C

LEMMA PushCounts ==
    ASSUME NEW f \in Frames, NEW B \in Seq(Frames), NEW c
    PROVE  /\ AtMostOne(c, B) /\ (NoneOf(c, B) \/ ~SpawnOf(c, f)) => AtMostOne(c, <<f>> \o B)
           /\ Claims(c, <<f>> \o B) => Claims(c, B) \/ (SpawnOf(c, f) /\ f.op # "admit")
           /\ NoneOf(c, B) /\ ~SpawnOf(c, f) => NoneOf(c, <<f>> \o B)
           /\ NoneOf(c, B) => AtMostOne(c, B) /\ ~Claims(c, B)
<1> DEFINE C == <<f>> \o B
<1>1. C[1] = f /\ Len(C) = Len(B) + 1 /\ Len(B) \in Nat
  OBVIOUS
<1>2. \A i \in 1..Len(C) : i > 1 => i - 1 \in 1..Len(B) /\ C[i] = B[i - 1]
  OBVIOUS
<1> HIDE DEF C
<1>3. ASSUME AtMostOne(c, B), NoneOf(c, B) \/ ~SpawnOf(c, f), NEW i \in 1..Len(C), NEW j \in 1..Len(C),
             SpawnOf(c, C[i]), SpawnOf(c, C[j])
      PROVE  i = j
  <2>1. CASE i = 1 \/ j = 1
    <3>1. SpawnOf(c, f) /\ NoneOf(c, B)
      BY <2>1, <1>1, <1>3
    <3>2. ASSUME NEW k \in 1..Len(C), k > 1 PROVE ~SpawnOf(c, C[k])
      <4>1. k - 1 \in 1..Len(B) /\ C[k] = B[k - 1]
        BY <1>2, <3>2
      <4>2. ~SpawnOf(c, B[k - 1])
        BY <3>1, <4>1 DEF NoneOf
      <4> QED BY <4>1, <4>2
    <3>3. ~(i > 1) /\ ~(j > 1)
      BY <1>3, <3>2
    <3> QED BY <1>1, <3>3
  <2>2. CASE i > 1 /\ j > 1
    <3>1. i - 1 = j - 1
      BY <2>2, <1>2, <1>3 DEF AtMostOne
    <3> QED BY <3>1
  <2> QED BY <2>1, <2>2
<1>4. Claims(c, C) => Claims(c, B) \/ (SpawnOf(c, f) /\ f.op # "admit")
  <2> SUFFICES ASSUME NEW i \in 1..Len(C), SpawnOf(c, C[i]), C[i].op # "admit"
               PROVE  Claims(c, B) \/ (SpawnOf(c, f) /\ f.op # "admit")
    BY DEF Claims
  <2>1. CASE i = 1
    BY <2>1, <1>1
  <2>2. CASE i > 1
    BY <2>2, <1>2 DEF Claims
  <2> QED BY <1>1, <2>1, <2>2
<1>5. NoneOf(c, B) /\ ~SpawnOf(c, f) => NoneOf(c, C)
  <2> SUFFICES ASSUME NoneOf(c, B), ~SpawnOf(c, f), NEW i \in 1..Len(C), SpawnOf(c, C[i])
               PROVE  FALSE
    BY DEF NoneOf
  <2>1. CASE i = 1
    BY <2>1, <1>1
  <2>2. CASE i > 1
    BY <2>2, <1>2 DEF NoneOf
  <2> QED BY <2>1, <2>2
<1>6. NoneOf(c, B) => AtMostOne(c, B) /\ ~Claims(c, B)
  BY DEF NoneOf, AtMostOne, Claims
<1> QED BY <1>3, <1>4, <1>5, <1>6 DEF C, AtMostOne

LEMMA PlainBasics ==
    /\ Plain(<<>>) /\ Shape(<<>>) /\ Bears(<<>>)
    /\ \A f \in Frames : ~IsSpawn(f) => Plain(<<f>>)
    /\ \A A, B : Plain(A) /\ Plain(B) => Plain(A \o B)
    /\ \A A : Plain(A) => Shape(A) /\ Bears(A) /\ \A c : NoneOf(c, A)
<1>1. Plain(<<>>) /\ Shape(<<>>) /\ Bears(<<>>)
  BY DEF Plain, Shape, Bears
<1>2. \A f \in Frames : ~IsSpawn(f) => Plain(<<f>>)
  BY DEF Plain
<1>3. ASSUME NEW A, NEW B, Plain(A), Plain(B) PROVE Plain(A \o B)
  <2>1. A \in Seq(Frames) /\ B \in Seq(Frames)
    BY <1>3 DEF Plain
  <2>2. \A i \in 1..Len(A \o B) : (A \o B)[i] = IF i <= Len(A) THEN A[i] ELSE B[i - Len(A)]
    BY <2>1
  <2>3. \A i \in 1..Len(A \o B) : ~(i <= Len(A)) => i - Len(A) \in 1..Len(B)
    BY <2>1
  <2>4. \A i \in 1..Len(A \o B) : i <= Len(A) => i \in 1..Len(A)
    BY <2>1
  <2>5. \A i \in 1..Len(A \o B) : ~IsSpawn((A \o B)[i])
    BY <2>2, <2>3, <2>4, <1>3 DEF Plain
  <2> QED BY <2>1, <2>5 DEF Plain
<1>4. ASSUME NEW A, Plain(A) PROVE Shape(A) /\ Bears(A) /\ \A c : NoneOf(c, A)
  <2>1. A # <<>> => 1 \in 1..Len(A)
    BY <1>4 DEF Plain
  <2> QED BY <2>1, <1>4 DEF Plain, Shape, Bears, NoneOf, SpawnOf
<1> QED BY <1>1, <1>2, <1>3, <1>4

-----------------------------------------------------------------------------
(* Types, the shape of the stack and whose requests a queue holds.         *)
Statuses == Requests \cup Records
Marks == {"nested", "refused", "resumed", "reopened"} \X Conv
QueuesFit(q) ==
    /\ q \in [Conv -> Seq(Sub)]
    /\ \A c \in Conv : \A i \in 1..Len(q[c]) : OwnerOf[q[c][i]] = c
TypeInv ==
    /\ status \in [Sub -> Statuses] /\ QueuesFit(queue) /\ Shape(stack)
    /\ settings \in Settings /\ upsets \in SUBSET Marks

Whys == {"slot_reclaimed", "stale_reclaimed", "session closed", "waiting_for_prerequisite",
         "given_up", "resolved"}

(* What a close does: r is closed, requests that are queued may be         *)
(* dropped, calls that are no spawns go on the stack.                      *)
LEMMA CloseDoes ==
    ASSUME TypeInv, NEW r \in Sub, NEW why \in Whys, NEW B, Close(r, why, B)
    PROVE  /\ status' \in [Sub -> Statuses] /\ QueuesFit(queue')
           /\ \A x \in Sub : \/ status'[x] = status[x]
                             \/ x = r /\ status'[x] \in {"waiting", "ended"}
                             \/ status[x] = "queued" /\ status'[x] = "dropped"
           /\ status'[r] \in {"waiting", "ended"}
           /\ \E A : Plain(A) /\ stack' = A \o B
<1> USE AdmissionConstants
<1>1. status' = [x \in Sub |->
                     IF x = r THEN IF why = "waiting_for_prerequisite" THEN "waiting" ELSE "ended"
                     ELSE IF x \in DiscardedBy(r, why) THEN "dropped" ELSE status[x]]
  BY DEF Close
<1>2. status' \in [Sub -> Statuses]
  BY <1>1 DEF TypeInv, Statuses, Requests, Records
<1>3. \A x \in DiscardedBy(r, why) : status[x] = "queued"
  BY DEF DiscardedBy
<1>4. /\ \A x \in Sub : \/ status'[x] = status[x]
                        \/ x = r /\ status'[x] \in {"waiting", "ended"}
                        \/ status[x] = "queued" /\ status'[x] = "dropped"
      /\ status'[r] \in {"waiting", "ended"}
  BY <1>1, <1>3
<1>5. QueuesFit(queue')
  <2>1. queue' = queue \/ queue' = [queue EXCEPT ![OwnerOf[r]] = <<>>]
    BY DEF Close
  <2>2. CASE queue' = queue
    BY <2>2 DEF TypeInv
  <2>3. CASE queue' = [queue EXCEPT ![OwnerOf[r]] = <<>>]
    BY <2>3 DEF TypeInv, QueuesFit
  <2> QED BY <2>1, <2>2, <2>3
<1>6. Plain(CallbackCalls(r, why))
  <2>1. DrainCall(OwnerOf[r], NoSub) \in Frames /\ ~IsSpawn(DrainCall(OwnerOf[r], NoSub))
    BY DrainFrames
  <2> QED BY <2>1, PlainBasics DEF CallbackCalls
<1>7. Plain(CascadeCalls(r, why))
  <2>1. TicketOf[r] # NoTicket => TicketOf[r] \in Ticket
    OBVIOUS
  <2>2. TicketOf[r] # NoTicket => CascadeCall(TicketOf[r]) \in Frames /\ ~IsSpawn(CascadeCall(TicketOf[r]))
    BY <2>1, OtherFrames
  <2> QED BY <2>2, PlainBasics DEF CascadeCalls
<1>8. stack' = (CallbackCalls(r, why) \o CascadeCalls(r, why)) \o B
  BY DEF Close
<1> QED BY <1>2, <1>4, <1>5, <1>6, <1>7, <1>8, PlainBasics

(* A stack with no more spawns in it than another.                         *)
Fewer(new, old) ==
    /\ Shape(new) /\ Bears(new)
    /\ \A c \in Conv : /\ AtMostOne(c, old) => AtMostOne(c, new)
                       /\ Claims(c, new) => Claims(c, old)

LEMMA RestFewer ==
    ASSUME NEW st, Shape(st), st # <<>>
    PROVE  /\ Fewer(Tail(st), st)
           /\ \A A : Plain(A) => Fewer(A \o Tail(st), st) /\ Fewer(A, st)
           /\ \A A, c : Plain(A) /\ NoneOf(c, Tail(st)) => NoneOf(c, A \o Tail(st))
<1>1. st \in Seq(Frames) /\ Tail(st) \in Seq(Frames) /\ Shape(Tail(st)) /\ Bears(Tail(st))
  BY RestShape DEF Shape
<1>2. Fewer(Tail(st), st)
  BY <1>1, RestCounts DEF Fewer
<1>3. ASSUME NEW A, Plain(A) PROVE Fewer(A \o Tail(st), st)
  <2>1. Shape(A \o Tail(st))
    BY <1>1, <1>3, PlainTop
  <2>2. Bears(A \o Tail(st))
    <3>1. CASE A = <<>>
      BY <3>1, <1>1
    <3>2. CASE A # <<>>
      <4>1. 1 \in 1..Len(A) /\ A \in Seq(Frames)
        BY <3>2, <1>3 DEF Plain
      <4>2. (A \o Tail(st))[1] = A[1]
        BY <4>1, <1>1
      <4> QED BY <4>1, <4>2, <1>3 DEF Bears, Plain
    <3> QED BY <3>1, <3>2
  <2>3. \A c \in Conv : /\ AtMostOne(c, st) => AtMostOne(c, A \o Tail(st))
                        /\ Claims(c, A \o Tail(st)) => Claims(c, st)
    BY <1>1, <1>3, RestCounts, PlainCounts
  <2> QED BY <2>1, <2>2, <2>3 DEF Fewer
<1>4. ASSUME NEW A, Plain(A) PROVE Fewer(A, st)
  <2>1. Shape(A) /\ Bears(A) /\ \A c : NoneOf(c, A)
    BY <1>4, PlainBasics
  <2>2. \A c : AtMostOne(c, A) /\ ~Claims(c, A)
    BY <2>1 DEF NoneOf, AtMostOne, Claims
  <2> QED BY <2>1, <2>2 DEF Fewer
<1>5. \A A, c : Plain(A) /\ NoneOf(c, Tail(st)) => NoneOf(c, A \o Tail(st))
  BY <1>1, PlainCounts
<1> QED BY <1>2, <1>3, <1>4, <1>5

LEMMA FewerTwice ==
    ASSUME NEW a, NEW b, NEW d, Fewer(a, b), Fewer(b, d) PROVE Fewer(a, d)
  BY DEF Fewer

(* Where a spawn leaves the stack when its call returns an id or raises.   *)
LEMMA ReturnsDoes ==
    ASSUME TypeInv, stack # <<>>, IsSpawn(Head(stack)), NEW st \in Statuses, Returns(st)
    PROVE  /\ Head(stack).sub \in Sub
           /\ status' = [status EXCEPT ![Head(stack).sub] = st] /\ status' \in [Sub -> Statuses]
           /\ QueuesFit(queue') /\ Fewer(stack', stack)
           /\ \A c : NoneOf(c, Rest) => NoneOf(c, stack')
<1> USE AdmissionConstants
<1>1. Shape(stack) /\ Head(stack) \in Frames /\ Shape(Rest)
  BY RestShape DEF TypeInv, Rest
<1>2. Head(stack).sub \in Sub
  BY <1>1, SpawnFrames
<1>3. status' = [status EXCEPT ![Head(stack).sub] = st] /\ status' \in [Sub -> Statuses]
  BY <1>2 DEF Returns, TypeInv
<1>4. QueuesFit(queue')
  BY DEF Returns, TypeInv
<1>5. CASE Drained
  <2>1. Rest # <<>> /\ Head(Rest) = DrainCall(OwnerOf[Head(stack).sub], Head(stack).sub)
    BY <1>1, <1>5, RestShape DEF Drained, Rest
  <2>2. Head(Rest).conv \in Conv
    BY <2>1, <1>2, DrainFrames
  <2>3. Plain(<<DrainCall(Head(Rest).conv, NoSub)>>)
    BY <2>2, DrainFrames, PlainBasics
  <2>4. stack' = <<DrainCall(Head(Rest).conv, NoSub)>> \o Tail(Rest)
    BY <1>5 DEF Returns
  <2>5. Fewer(stack', Rest) /\ Fewer(Rest, stack)
    BY <1>1, <2>1, <2>3, <2>4, RestFewer DEF Rest
  <2>6. \A c : NoneOf(c, Rest) => NoneOf(c, stack')
    BY <1>1, <2>1, <2>3, <2>4, RestCounts, RestFewer DEF Shape
  <2> QED BY <1>2, <1>3, <1>4, <2>5, <2>6, FewerTwice
<1>6. CASE ~Drained
  <2>1. stack' = <<>>
    BY <1>6 DEF Returns
  <2>2. Fewer(stack', stack) /\ \A c : NoneOf(c, stack')
    BY <2>1, <1>1, RestFewer, PlainBasics
  <2> QED BY <1>2, <1>3, <1>4, <2>2
<1> QED BY <1>5, <1>6

LEMMA GivesUp ==
    ASSUME TypeInv, stack # <<>>, IsSpawn(Head(stack)),
           stack' = IF Drained THEN Tail(Rest) ELSE <<>>
    PROVE  Fewer(stack', stack)
<1>1. Shape(stack) /\ Shape(Rest)
  BY RestShape DEF TypeInv, Rest
<1>2. CASE Drained
  <2>1. Rest # <<>>
    BY <1>1, <1>2, RestShape DEF Drained, Rest
  <2> QED BY <2>1, <1>1, <1>2, RestFewer, FewerTwice DEF Rest
<1>3. CASE ~Drained
  BY <1>3, <1>1, RestFewer, PlainBasics
<1> QED BY <1>2, <1>3

LEMMA QueueGrows ==
    ASSUME NEW q, QueuesFit(q), NEW r \in Sub
    PROVE  /\ QueuesFit([q EXCEPT ![OwnerOf[r]] = Append(@, r)])
           /\ QueuesFit([q EXCEPT ![OwnerOf[r]] = <<r>> \o @])
<1> USE AdmissionConstants
<1> DEFINE c == OwnerOf[r]
<1>1. c \in Conv /\ q[c] \in Seq(Sub)
  BY DEF QueuesFit
<1>2. \A i \in 1..Len(Append(q[c], r)) : OwnerOf[Append(q[c], r)[i]] = c
  <2>1. \A i \in 1..Len(Append(q[c], r)) : IF i = Len(q[c]) + 1 THEN Append(q[c], r)[i] = r
                                          ELSE i \in 1..Len(q[c]) /\ Append(q[c], r)[i] = q[c][i]
    BY <1>1
  <2> QED BY <2>1, <1>1 DEF QueuesFit
<1>3. \A i \in 1..Len(<<r>> \o q[c]) : OwnerOf[(<<r>> \o q[c])[i]] = c
  <2>1. \A i \in 1..Len(<<r>> \o q[c]) : IF i = 1 THEN (<<r>> \o q[c])[i] = r
                                        ELSE i - 1 \in 1..Len(q[c]) /\ (<<r>> \o q[c])[i] = q[c][i - 1]
    BY <1>1
  <2> QED BY <2>1, <1>1 DEF QueuesFit
<1>4. Append(q[c], r) \in Seq(Sub) /\ <<r>> \o q[c] \in Seq(Sub)
  BY <1>1
<1>5. QueuesFit([q EXCEPT ![c] = Append(@, r)])
  <2> DEFINE p == [q EXCEPT ![c] = Append(@, r)]
  <2>1. p \in [Conv -> Seq(Sub)] /\ p[c] = Append(q[c], r) /\ \A d \in Conv : d # c => p[d] = q[d]
    BY <1>1, <1>4 DEF QueuesFit
  <2> HIDE DEF p
  <2>2. QueuesFit(p)
    BY <2>1, <1>2 DEF QueuesFit
  <2> QED BY <2>2 DEF p
<1>6. QueuesFit([q EXCEPT ![c] = <<r>> \o @])
  <2> DEFINE p == [q EXCEPT ![c] = <<r>> \o @]
  <2>1. p \in [Conv -> Seq(Sub)] /\ p[c] = <<r>> \o q[c] /\ \A d \in Conv : d # c => p[d] = q[d]
    BY <1>1, <1>4 DEF QueuesFit
  <2> HIDE DEF p
  <2>2. QueuesFit(p)
    BY <2>1, <1>3 DEF QueuesFit
  <2> QED BY <2>2 DEF p
<1> QED BY <1>5, <1>6

LEMMA RaisesDoes ==
    ASSUME TypeInv, stack # <<>>, IsSpawn(Head(stack)), Raises
    PROVE  /\ Head(stack).sub \in Sub
           /\ \E st \in {"queued", "refused"} : status' = [status EXCEPT ![Head(stack).sub] = st]
           /\ status' \in [Sub -> Statuses] /\ QueuesFit(queue') /\ Fewer(stack', stack)
           /\ upsets' = upsets \cup {<<"refused", OwnerOf[Head(stack).sub]>>}
           /\ upsets' \in SUBSET Marks
<1> USE AdmissionConstants
<1> DEFINE r == Head(stack).sub
<1>1. r \in Sub
  BY RestShape, SpawnFrames DEF TypeInv
<1>2. \E st \in {"queued", "refused"} : status' = [status EXCEPT ![r] = st]
  BY DEF Raises, RaisesTo
<1>3. status' \in [Sub -> Statuses]
  BY <1>1, <1>2 DEF TypeInv, Statuses, Requests
<1>4. QueuesFit(queue')
  <2>1. queue' = queue \/ queue' = [queue EXCEPT ![OwnerOf[r]] = <<r>> \o @]
    BY DEF Raises, RaisesTo
  <2>2. QueuesFit([queue EXCEPT ![OwnerOf[r]] = <<r>> \o @])
    BY <1>1, QueueGrows DEF TypeInv
  <2> QED BY <2>1, <2>2 DEF TypeInv
<1>5. Fewer(stack', stack)
  <2>1. stack' = IF Drained THEN Tail(Rest) ELSE <<>>
    BY DEF Raises, RaisesTo
  <2> QED BY <2>1, GivesUp
<1>6. upsets' = upsets \cup {<<"refused", OwnerOf[r]>>}
  BY DEF Raises
<1>7. upsets' \in SUBSET Marks
  BY <1>1, <1>6 DEF TypeInv, Marks
<1> QED BY <1>1, <1>2, <1>3, <1>4, <1>5, <1>6, <1>7

-----------------------------------------------------------------------------
(* The limits.  A spawn that was admitted claims a slot that is free, so   *)
(* the record it creates does not exceed the budget; likewise for the cap  *)
(* of the process when it is about to create.                              *)
Marked(k, c) == <<k, c>> \in upsets
BudgetOf(c) ==
    /\ Occupied(c) <= Budget
    /\ AtMostOne(c, stack)
    /\ Claims(c, stack) => Occupied(c) < Budget
BudgetInv == \A c \in Conv : ~Marked("nested", c) /\ ~Marked("reopened", c) => BudgetOf(c)

Calm == \A c \in Conv : ~Marked("resumed", c) /\ ~Marked("reopened", c)
CapInv ==
    Calm => /\ Cardinality(Running) <= settings.maxActive
            /\ Top("create") => Cardinality(Running) < settings.maxActive

LimitInv == BudgetInv /\ CapInv /\ OneMonitorPerTicket

ActiveOf(c) == {r \in Sub : OwnerOf[r] = c /\ Active(r)}

LEMMA FiniteCounts ==
    ASSUME NEW c
    PROVE  /\ Occupied(c) = Cardinality(ActiveOf(c)) /\ Occupied(c)' = Cardinality(ActiveOf(c)')
           /\ IsFiniteSet(ActiveOf(c)) /\ IsFiniteSet(ActiveOf(c)')
           /\ IsFiniteSet(Running) /\ IsFiniteSet(Running')
           /\ Occupied(c) \in Nat /\ Occupied(c)' \in Nat
           /\ Cardinality(Running) \in Nat /\ Cardinality(Running') \in Nat
<1>1. IsFiniteSet(Sub)
  BY AdmissionConstants, FS_Interval DEF Sub
<1>2. /\ ActiveOf(c) \in SUBSET Sub /\ ActiveOf(c)' \in SUBSET Sub
      /\ Running \in SUBSET Sub /\ Running' \in SUBSET Sub
  BY DEF ActiveOf, Running
<1>3. Occupied(c) = Cardinality(ActiveOf(c)) /\ Occupied(c)' = Cardinality(ActiveOf(c)')
  BY DEF Occupied, ActiveOf
<1>4. /\ IsFiniteSet(ActiveOf(c)) /\ IsFiniteSet(ActiveOf(c)')
      /\ IsFiniteSet(Running) /\ IsFiniteSet(Running')
  BY <1>1, <1>2, FS_Subset
<1> QED BY <1>3, <1>4, FS_CardinalityType

(* Monitors leave their slots, or at most one is new.                      *)
LEMMA SlotsFreed ==
    ASSUME NEW c, \A x \in Sub : OwnerOf[x] = c /\ Active(x)' => Active(x)
    PROVE  /\ Occupied(c)' <= Occupied(c)
           /\ (\E p \in Sub : OwnerOf[p] = c /\ Active(p) /\ ~Active(p)') => Occupied(c)' < Occupied(c)
<1>1. ActiveOf(c)' \in SUBSET ActiveOf(c)
  BY DEF ActiveOf
<1>2. Occupied(c)' <= Occupied(c) /\ (Occupied(c)' = Occupied(c) => ActiveOf(c) = ActiveOf(c)')
  BY <1>1, FiniteCounts, FS_Subset
<1>3. (\E p \in Sub : OwnerOf[p] = c /\ Active(p) /\ ~Active(p)') => ActiveOf(c) # ActiveOf(c)'
  BY DEF ActiveOf
<1> QED BY <1>2, <1>3, FiniteCounts

LEMMA OneMore ==
    ASSUME NEW S, NEW x, IsFiniteSet(S)
    PROVE  IsFiniteSet(S \cup {x}) /\ Cardinality(S \cup {x}) <= Cardinality(S) + 1
<1>1. IsFiniteSet(S \cup {x}) /\ Cardinality(S \cup {x}) = IF x \in S THEN Cardinality(S) ELSE Cardinality(S) + 1
  BY FS_AddElement
<1>2. Cardinality(S) \in Nat
  BY FS_CardinalityType
<1> QED BY <1>1, <1>2

LEMMA OneSlotMore ==
    ASSUME NEW c, NEW r \in Sub, \A x \in Sub : x # r /\ OwnerOf[x] = c /\ Active(x)' => Active(x)
    PROVE  Occupied(c)' <= Occupied(c) + 1
<1>1. ActiveOf(c)' \in SUBSET (ActiveOf(c) \cup {r})
  BY DEF ActiveOf
<1>2. IsFiniteSet(ActiveOf(c) \cup {r}) /\ Cardinality(ActiveOf(c) \cup {r}) <= Occupied(c) + 1
  BY FiniteCounts, OneMore
<1>3. Cardinality(ActiveOf(c)') <= Cardinality(ActiveOf(c) \cup {r})
  BY <1>1, <1>2, FS_Subset
<1>4. Cardinality(ActiveOf(c) \cup {r}) \in Nat
  BY <1>2, FS_CardinalityType
<1> QED BY <1>2, <1>3, <1>4, FiniteCounts

LEMMA RunningCounts ==
    ASSUME NEW r \in Sub
    PROVE  /\ (\A x \in Sub : status'[x] = "running" => status[x] = "running")
                 => Cardinality(Running') <= Cardinality(Running)
           /\ (\A x \in Sub : x # r /\ status'[x] = "running" => status[x] = "running")
                 => Cardinality(Running') <= Cardinality(Running) + 1
<1>1. ASSUME \A x \in Sub : status'[x] = "running" => status[x] = "running"
      PROVE  Cardinality(Running') <= Cardinality(Running)
  <2>1. Running' \in SUBSET Running
    BY <1>1 DEF Running
  <2> QED BY <2>1, FiniteCounts, FS_Subset
<1>2. ASSUME \A x \in Sub : x # r /\ status'[x] = "running" => status[x] = "running"
      PROVE  Cardinality(Running') <= Cardinality(Running) + 1
  <2>1. Running' \in SUBSET (Running \cup {r})
    BY <1>2 DEF Running
  <2>2. IsFiniteSet(Running \cup {r}) /\ Cardinality(Running \cup {r}) <= Cardinality(Running) + 1
    BY FiniteCounts, OneMore
  <2>3. Cardinality(Running') <= Cardinality(Running \cup {r})
    BY <2>1, <2>2, FS_Subset
  <2>4. Cardinality(Running \cup {r}) \in Nat
    BY <2>2, FS_CardinalityType
  <2> QED BY <2>2, <2>3, <2>4, FiniteCounts
<1> QED BY <1>1, <1>2

(* No record becomes active or running in the step.                        *)
Eased == \A x \in Sub : /\ Active(x)' => Active(x)
                        /\ status'[x] = "running" => status[x] = "running"

LEMMA LimitsStay ==
    ASSUME TypeInv, LimitInv, settings' = settings, upsets \subseteq upsets', Eased,
           \A c \in Conv : /\ <<"nested", c>> \notin upsets' /\ AtMostOne(c, stack) => AtMostOne(c, stack')
                           /\ Claims(c, stack') => \/ Claims(c, stack)
                                                   \/ Occupied(c) <= Budget => Occupied(c)' < Budget,
           Top("create")' => Cardinality(Running) < settings.maxActive
    PROVE  LimitInv'
<1> USE AdmissionConstants
<1>1. ASSUME NEW c \in Conv, ~Marked("nested", c)', ~Marked("reopened", c)'
      PROVE  BudgetOf(c)'
  <2>1. BudgetOf(c)
    BY <1>1 DEF LimitInv, BudgetInv, Marked
  <2>2. Occupied(c)' <= Occupied(c) /\ Occupied(c) \in Nat /\ Occupied(c)' \in Nat
    BY SlotsFreed, FiniteCounts DEF Eased
  <2>3. Occupied(c)' <= Budget
    BY <2>1, <2>2 DEF BudgetOf
  <2>4. AtMostOne(c, stack')
    BY <1>1, <2>1 DEF BudgetOf, Marked
  <2>5. Claims(c, stack') => Occupied(c)' < Budget
    <3>1. Claims(c, stack') => Claims(c, stack) \/ (Occupied(c) <= Budget => Occupied(c)' < Budget)
      OBVIOUS
    <3>2. Occupied(c) <= Budget /\ (Claims(c, stack) => Occupied(c) < Budget)
      BY <2>1 DEF BudgetOf
    <3> HIDE DEF Claims
    <3> QED BY <3>1, <3>2, <2>2
  <2> QED BY <2>3, <2>4, <2>5 DEF BudgetOf
<1>2. CapInv'
  <2> SUFFICES ASSUME Calm'
               PROVE  /\ Cardinality(Running') <= settings'.maxActive
                      /\ Top("create")' => Cardinality(Running') < settings'.maxActive
    BY DEF CapInv
  <2>1. Calm
    BY DEF Calm, Marked
  <2>2. Cardinality(Running) <= settings.maxActive
    BY <2>1 DEF LimitInv, CapInv
  <2>3. Cardinality(Running') <= Cardinality(Running)
    <3>1. CASE Sub = {}
      <4>1. Running' = Running
        BY <3>1 DEF Running
      <4> QED BY <4>1, FiniteCounts
    <3>2. CASE Sub # {}
      BY <3>2, RunningCounts DEF Eased
    <3> QED BY <3>1, <3>2
  <2>4. settings.maxActive \in Nat
    BY DEF TypeInv
  <2> QED BY <2>2, <2>3, <2>4, FiniteCounts
<1>3. OneMonitorPerTicket'
  BY DEF LimitInv, OneMonitorPerTicket, Eased
<1> QED BY <1>1, <1>2, <1>3 DEF LimitInv, BudgetInv

-----------------------------------------------------------------------------
(* The steps.                                                              *)
SpawnTop(st, op, r) == <<SpawnCall(op, r)>> \o Tail(st)

(* The spawn at the head goes on, perhaps after calling something.         *)
LEMMA MovesDoes ==
    ASSUME NEW st, Shape(st), st # <<>>, IsSpawn(Head(st)), NEW op \in SpawnOps, NEW A, Plain(A),
           op \in {"capacity", "recheck"} \/ A = <<>>
    PROVE  /\ Head(st).sub \in Sub
           /\ Shape(A \o SpawnTop(st, op, Head(st).sub))
           /\ A \o SpawnTop(st, op, Head(st).sub) # <<>>
           /\ LET f == Head(A \o SpawnTop(st, op, Head(st).sub)) IN f.op = op \/ ~IsSpawn(f)
           /\ \A c \in Conv :
                 /\ AtMostOne(c, st) => AtMostOne(c, A \o SpawnTop(st, op, Head(st).sub))
                 /\ Claims(c, A \o SpawnTop(st, op, Head(st).sub)) =>
                       Claims(c, st) \/ (c = OwnerOf[Head(st).sub] /\ op # "admit")
<1> DEFINE r == Head(st).sub
           f == SpawnCall(op, r)
           S == SpawnTop(st, op, r)
           C == A \o S
<1>1. /\ Head(st) \in Frames /\ Shape(Tail(st)) /\ Bears(Tail(st)) /\ Tail(st) \in Seq(Frames)
      /\ (Tail(st) # <<>> => Head(Tail(st)) = DrainCall(OwnerOf[r], r))
      /\ st \in Seq(Frames)
  <2>1. st \in Seq(Frames)
    BY DEF Shape
  <2>2. Tail(st) # <<>> => Len(st) > 1
    BY <2>1
  <2> QED BY <2>1, <2>2, RestShape
<1>2. r \in Sub
  BY <1>1, SpawnFrames
<1>3. f \in Frames /\ IsSpawn(f) /\ f.op = op /\ f.sub = r
  BY <1>2, SpawnFrames
<1>4. /\ Shape(S) /\ S # <<>> /\ Head(S) = f /\ S[1] = f /\ Tail(S) = Tail(st) /\ S \in Seq(Frames)
      /\ (op \in {"capacity", "recheck"} => Bears(S))
  BY <1>1, <1>3, PushShape DEF SpawnTop
<1> HIDE DEF S, f
<1>5. Shape(C)
  BY <1>4, PlainTop
<1>6. A = <<>> => C = S
  BY <1>4
<1>7. A # <<>> => C # <<>> /\ Head(C) = A[1] /\ ~IsSpawn(A[1])
  <2> SUFFICES ASSUME A # <<>> PROVE C # <<>> /\ Head(C) = A[1] /\ ~IsSpawn(A[1])
    OBVIOUS
  <2>1. A \in Seq(Frames) /\ 1 \in 1..Len(A) /\ ~IsSpawn(A[1])
    BY DEF Plain
  <2> QED BY <2>1, <1>4
<1>8. C # <<>>
  BY <1>4, <1>6, <1>7
<1>9. Head(C).op = op \/ ~IsSpawn(Head(C))
  BY <1>3, <1>4, <1>6, <1>7
<1>10. ASSUME NEW c \in Conv
       PROVE  /\ AtMostOne(c, st) => AtMostOne(c, C)
              /\ Claims(c, C) => Claims(c, st) \/ (c = OwnerOf[r] /\ op # "admit")
  <2>1. SpawnOf(c, f) <=> SpawnOf(c, Head(st))
    BY <1>3 DEF SpawnOf
  <2>2. AtMostOne(c, st) => AtMostOne(c, Tail(st)) /\ (NoneOf(c, Tail(st)) \/ ~SpawnOf(c, f))
    BY <1>1, <2>1, RestCounts
  <2>3. AtMostOne(c, Tail(st)) /\ (NoneOf(c, Tail(st)) \/ ~SpawnOf(c, f)) => AtMostOne(c, S)
    BY <1>1, <1>3, PushCounts DEF S, SpawnTop, f
  <2>4. Claims(c, S) => Claims(c, Tail(st)) \/ (SpawnOf(c, f) /\ op # "admit")
    BY <1>1, <1>3, PushCounts DEF S, SpawnTop, f
  <2>5. Claims(c, Tail(st)) => Claims(c, st)
    BY <1>1, RestCounts
  <2>6. (AtMostOne(c, S) => AtMostOne(c, C)) /\ (Claims(c, C) => Claims(c, S))
    BY <1>4, PlainCounts
  <2>7. SpawnOf(c, f) => c = OwnerOf[r]
    BY <1>3 DEF SpawnOf
  <2> QED BY <2>2, <2>3, <2>4, <2>5, <2>6, <2>7
<1> QED BY <1>2, <1>5, <1>8, <1>9, <1>10 DEF S

(* What the steps preserve together.                                       *)
Held == TypeInv /\ LimitInv

LEMMA NoCreateTop ==
    ASSUME Bears(stack') PROVE ~Top("create")'
<1> SUFFICES ASSUME stack' # <<>>, Head(stack').op = "create" PROVE FALSE
  BY DEF Top
<1> QED BY DEF Bears, IsSpawn, SpawnOps

(* Steps that end calls or only make plain ones.                           *)
LEMMA FewerStays ==
    ASSUME Held, status' \in [Sub -> Statuses], QueuesFit(queue'), Fewer(stack', stack),
           settings' = settings, upsets \subseteq upsets', upsets' \in SUBSET Marks, Eased
    PROVE  Held'
<1>1. TypeInv'
  BY DEF Held, TypeInv, Fewer
<1>2. ~Top("create")'
  BY NoCreateTop DEF Fewer
<1>3. \A c \in Conv : (AtMostOne(c, stack) => AtMostOne(c, stack')) /\ (Claims(c, stack') => Claims(c, stack))
  BY DEF Fewer
<1>4. LimitInv'
  BY <1>2, <1>3, LimitsStay DEF Held
<1> QED BY <1>1, <1>4 DEF Held

LEMMA CloseEases ==
    ASSUME \A x \in Sub : \/ status'[x] = status[x]
                          \/ status'[x] \in {"waiting", "ended"}
                          \/ status'[x] = "dropped"
    PROVE  Eased
  BY DEF Eased, Active

LEMMA SetEases ==
    ASSUME status \in [Sub -> Statuses], NEW r \in Sub, NEW st,
           st \notin {"running", "paused"}, status' = [status EXCEPT ![r] = st]
    PROVE  Eased
  BY DEF Eased, Active

LEMMA SameEases ==
    ASSUME status' = status PROVE Eased
  BY DEF Eased, Active

LEMMA StartDependentsStays ==
    ASSUME Held, StartDependents PROVE Held'
<1> DEFINE S == {d \in Sub : DependsOn[d] = Head(stack).ticket /\ status[d] \in Records}
           f == EachCall("waiting_for_prerequisite", S)
<1>1. stack # <<>> /\ Shape(stack)
  BY DEF StartDependents, Top, Held, TypeInv
<1>2. f \in Frames /\ ~IsSpawn(f)
  BY OtherFrames DEF Reasons
<1>3. stack' = <<f>> \o Rest
  BY DEF StartDependents
<1>4. Fewer(stack', stack)
  BY <1>1, <1>2, <1>3, PlainBasics, RestFewer DEF Rest
<1>5. UNCHANGED <<status, queue, settings, upsets>>
  BY DEF StartDependents
<1> QED BY <1>4, <1>5, SameEases, FewerStays DEF Held, TypeInv

LEMMA CloseEachStays ==
    ASSUME Held, CloseEach PROVE Held'
<1> DEFINE f == Head(stack)
           todo == {d \in f.left : Closable(d, f.why)}
<1>1. stack # <<>> /\ Shape(stack) /\ f \in Frames /\ f.op = "each"
  BY RestShape DEF CloseEach, Top, Held, TypeInv
<1>2. f.why \in Reasons /\ f.left \in SUBSET Sub
  BY <1>1, OtherFrames
<1>3. UNCHANGED <<settings, upsets>>
  BY DEF CloseEach
<1>4. CASE stack' = Rest /\ UNCHANGED <<status, queue>>
  <2>1. Fewer(stack', stack)
    BY <1>1, <1>4, RestFewer DEF Rest
  <2> QED BY <2>1, <1>3, <1>4, SameEases, FewerStays DEF Held, TypeInv
<1>5. ASSUME NEW d \in todo, Close(d, f.why, <<EachCall(f.why, f.left \ {d})>> \o Rest)
      PROVE  Held'
  <2> DEFINE g == EachCall(f.why, f.left \ {d})
  <2>1. d \in Sub /\ f.why \in Whys
    BY <1>2 DEF Reasons, Whys
  <2>2. g \in Frames /\ ~IsSpawn(g)
    BY <1>2, OtherFrames
  <2> HIDE DEF g
  <2>3. /\ status' \in [Sub -> Statuses] /\ QueuesFit(queue')
        /\ \A x \in Sub : \/ status'[x] = status[x]
                          \/ x = d /\ status'[x] \in {"waiting", "ended"}
                          \/ status[x] = "queued" /\ status'[x] = "dropped"
        /\ \E A : Plain(A) /\ stack' = A \o (<<g>> \o Rest)
    BY <1>5, <2>1, CloseDoes DEF Held, g
  <2>4. PICK A : Plain(A) /\ stack' = A \o (<<g>> \o Rest)
    BY <2>3
  <2>5. stack' = (A \o <<g>>) \o Rest /\ Plain(A \o <<g>>)
    <3>1. A \in Seq(Frames) /\ Rest \in Seq(Frames) /\ <<g>> \in Seq(Frames)
      BY <2>2, <2>4, <1>1, RestShape DEF Plain, Rest
    <3>2. A \o (<<g>> \o Rest) = (A \o <<g>>) \o Rest
      BY <3>1
    <3> QED BY <3>2, <2>2, <2>4, PlainBasics
  <2>6. Fewer(stack', stack)
    BY <1>1, <2>5, RestFewer DEF Rest
  <2> QED BY <2>3, <2>6, <1>3, CloseEases, FewerStays DEF Held, TypeInv
<1> QED BY <1>4, <1>5 DEF CloseEach

(* A spawn at the head goes on: nothing is closed, or monitors were.       *)
LEMMA MovesStays ==
    ASSUME Held, stack # <<>>, IsSpawn(Head(stack)), NEW c, c = OwnerOf[Head(stack).sub],
           NEW op \in SpawnOps, NEW A, Plain(A), op \in {"capacity", "recheck"} \/ A = <<>>,
           stack' = A \o SpawnTop(stack, op, Head(stack).sub),
           status' \in [Sub -> Statuses], QueuesFit(queue'), Eased,
           settings' = settings, upsets' = upsets,
           \/ Claims(c, stack)
           \/ Occupied(c) <= Budget => Occupied(c)' < Budget,
           op = "create" => Cardinality(Running) < settings.maxActive
    PROVE  Held'
<1>1. Shape(stack)
  BY DEF Held, TypeInv
<1>2. /\ Shape(stack') /\ stack' # <<>>
      /\ Head(stack').op = op \/ ~IsSpawn(Head(stack'))
      /\ \A d \in Conv :
            /\ AtMostOne(d, stack) => AtMostOne(d, stack')
            /\ Claims(d, stack') => Claims(d, stack) \/ (d = c /\ op # "admit")
  BY <1>1, MovesDoes
<1>3. TypeInv'
  BY <1>2 DEF Held, TypeInv
<1>4. Top("create")' => Cardinality(Running) < settings.maxActive
  BY <1>2 DEF Top, IsSpawn, SpawnOps
<1>5. \A d \in Conv : /\ <<"nested", d>> \notin upsets' /\ AtMostOne(d, stack) => AtMostOne(d, stack')
                      /\ Claims(d, stack') => \/ Claims(d, stack)
                                              \/ Occupied(d) <= Budget => Occupied(d)' < Budget
  <2> SUFFICES ASSUME NEW d \in Conv, Claims(d, stack')
               PROVE  \/ Claims(d, stack)
                      \/ Occupied(d) <= Budget => Occupied(d)' < Budget
    BY <1>2
  <2>1. CASE Claims(d, stack)
    BY <2>1
  <2>2. CASE d = c
    BY <2>2
  <2> QED BY <1>2, <2>1, <2>2
<1>6. LimitInv'
  BY <1>4, <1>5, LimitsStay DEF Held
<1> QED BY <1>3, <1>6 DEF Held

LEMMA HeadSpawn ==
    ASSUME TypeInv, NEW op \in SpawnOps, Top(op)
    PROVE  /\ stack # <<>> /\ IsSpawn(Head(stack)) /\ Head(stack).sub \in Sub /\ Shape(stack)
           /\ stack \in Seq(Frames) /\ OwnerOf[Head(stack).sub] \in Conv
           /\ op # "admit" => Claims(OwnerOf[Head(stack).sub], stack)
           /\ SpawnOf(OwnerOf[Head(stack).sub], Head(stack))
<1>1. stack # <<>> /\ IsSpawn(Head(stack)) /\ Shape(stack) /\ stack \in Seq(Frames)
  BY DEF Top, IsSpawn, TypeInv, Shape
<1>2. Head(stack).sub \in Sub
  BY <1>1, RestShape, SpawnFrames
<1>3. SpawnOf(OwnerOf[Head(stack).sub], Head(stack))
  BY <1>1 DEF SpawnOf
<1>4. op # "admit" => Claims(OwnerOf[Head(stack).sub], stack)
  BY <1>1, <1>3, RestCounts DEF Top
<1>5. OwnerOf[Head(stack).sub] \in Conv
  BY <1>2, AdmissionConstants
<1> QED BY <1>1, <1>2, <1>3, <1>4, <1>5

LEMMA ProceedStays ==
    ASSUME Held, stack # <<>>, IsSpawn(Head(stack)), NEW c, c = OwnerOf[Head(stack).sub],
           NEW op \in SpawnOps, Proceed(op), settings' = settings,
           Claims(c, stack) \/ Occupied(c) < Budget,
           op = "create" => Cardinality(Running) < settings.maxActive
    PROVE  Held'
<1>1. Plain(<<>>)
  BY PlainBasics
<1>2. stack' = SpawnTop(stack, op, Head(stack).sub) /\ UNCHANGED <<status, queue, upsets>>
  BY DEF Proceed, SpawnTop, Rest
<1>3. <<>> \o SpawnTop(stack, op, Head(stack).sub) = SpawnTop(stack, op, Head(stack).sub)
  <2>1. Head(stack).sub \in Sub /\ Tail(stack) \in Seq(Frames)
    BY RestShape, SpawnFrames DEF Held, TypeInv
  <2>2. SpawnTop(stack, op, Head(stack).sub) \in Seq(Frames)
    BY <2>1, SpawnFrames DEF SpawnTop
  <2> QED BY <2>2
<1>4. Eased
  BY <1>2, SameEases
<1>5. Claims(c, stack) \/ (Occupied(c) <= Budget => Occupied(c)' < Budget)
  <2>1. Occupied(c)' = Occupied(c)
    BY <1>2 DEF Occupied, Active
  <2> QED BY <2>1
<1>6. stack' = <<>> \o SpawnTop(stack, op, Head(stack).sub)
  BY <1>2, <1>3
<1>7. status' \in [Sub -> Statuses] /\ QueuesFit(queue')
  BY <1>2 DEF Held, TypeInv
<1> QED BY <1>1, <1>2, <1>4, <1>5, <1>6, <1>7, MovesStays

(* A close makes room for the spawn at the head.                           *)
LEMMA MakesRoomStays ==
    ASSUME Held, stack # <<>>, IsSpawn(Head(stack)), NEW c, c = OwnerOf[Head(stack).sub],
           NEW op \in {"capacity", "recheck"},
           NEW p \in Sub, NEW why \in Whys, Close(p, why, <<SpawnCall(op, Head(stack).sub)>> \o Rest),
           UNCHANGED <<settings, upsets>>,
           \/ Claims(c, stack)
           \/ OwnerOf[p] = c /\ Active(p)
    PROVE  Held'
<1>1. op \in SpawnOps
  BY DEF SpawnOps
<1>2. /\ status' \in [Sub -> Statuses] /\ QueuesFit(queue')
      /\ \A x \in Sub : \/ status'[x] = status[x]
                        \/ x = p /\ status'[x] \in {"waiting", "ended"}
                        \/ status[x] = "queued" /\ status'[x] = "dropped"
      /\ status'[p] \in {"waiting", "ended"}
      /\ \E A : Plain(A) /\ stack' = A \o SpawnTop(stack, op, Head(stack).sub)
  BY CloseDoes DEF Held, SpawnTop, Rest
<1>3. PICK A : Plain(A) /\ stack' = A \o SpawnTop(stack, op, Head(stack).sub)
  BY <1>2
<1>4. Eased
  BY <1>2, CloseEases
<1>5. Claims(c, stack) \/ (Occupied(c) <= Budget => Occupied(c)' < Budget)
  <2> SUFFICES ASSUME OwnerOf[p] = c, Active(p), Occupied(c) <= Budget PROVE Occupied(c)' < Budget
    OBVIOUS
  <2>1. ~Active(p)'
    BY <1>2 DEF Active
  <2>2. Occupied(c)' < Occupied(c)
    BY <2>1, <1>4, SlotsFreed DEF Eased
  <2> QED BY <2>2, FiniteCounts, AdmissionConstants
<1>6. op # "create"
  OBVIOUS
<1> QED BY <1>1, <1>2, <1>3, <1>4, <1>5, <1>6, MovesStays

LEMMA RaisesStays ==
    ASSUME Held, stack # <<>>, IsSpawn(Head(stack)), Raises, settings' = settings PROVE Held'
<1>1. /\ Head(stack).sub \in Sub
      /\ \E st \in {"queued", "refused"} : status' = [status EXCEPT ![Head(stack).sub] = st]
      /\ status' \in [Sub -> Statuses] /\ QueuesFit(queue') /\ Fewer(stack', stack)
      /\ upsets' = upsets \cup {<<"refused", OwnerOf[Head(stack).sub]>>}
      /\ upsets' \in SUBSET Marks
  BY RaisesDoes DEF Held
<1>2. Eased
  BY <1>1, SetEases DEF Held, TypeInv
<1> QED BY <1>1, <1>2, FewerStays

LEMMA DedupStays ==
    ASSUME Held, stack # <<>>, IsSpawn(Head(stack)), Returns("deduped"),
           settings' = settings, upsets \subseteq upsets', upsets' \in SUBSET Marks
    PROVE  Held'
<1>1. "deduped" \in Statuses
  BY DEF Statuses, Requests
<1>2. /\ Head(stack).sub \in Sub
      /\ status' = [status EXCEPT ![Head(stack).sub] = "deduped"] /\ status' \in [Sub -> Statuses]
      /\ QueuesFit(queue') /\ Fewer(stack', stack)
  BY <1>1, ReturnsDoes DEF Held
<1>3. Eased
  <2>1. "deduped" \notin {"running", "paused"}
    OBVIOUS
  <2> QED BY <1>2, <2>1, SetEases DEF Held, TypeInv
<1> QED BY <1>2, <1>3, FewerStays

LEMMA AdmitStays ==
    ASSUME Held, Admit PROVE Held'
<1>0. PICK r, c : r = Head(stack).sub /\ c = OwnerOf[r]
  OBVIOUS
<1>1. stack # <<>> /\ IsSpawn(Head(stack)) /\ r \in Sub /\ c \in Conv /\ c = OwnerOf[Head(stack).sub]
  BY <1>0, HeadSpawn DEF Held, Admit, SpawnOps
<1>2. settings' = settings /\ TypeInv
  BY DEF Admit, Held
<1>3. CASE Returns("deduped") /\ UNCHANGED upsets
  BY <1>1, <1>2, <1>3, DedupStays DEF TypeInv
<1>4. CASE ~AtBudget(c) /\ Proceed("capacity")
  <2>1. Occupied(c) < Budget
    BY <1>4, FiniteCounts, AdmissionConstants DEF AtBudget
  <2> QED BY <1>1, <1>2, <1>4, <2>1, ProceedStays DEF SpawnOps
<1>5. ASSUME NEW p \in PausedOf(c), Close(p, "slot_reclaimed", <<SpawnCall("capacity", r)>> \o Rest),
             UNCHANGED upsets
      PROVE  Held'
  <2>1. p \in Sub /\ OwnerOf[p] = c /\ Active(p) /\ "slot_reclaimed" \in Whys
    BY DEF PausedOf, Active, Whys
  <2> QED BY <1>0, <1>1, <1>2, <1>5, <2>1, MakesRoomStays
<1>6. CASE Raises
  BY <1>1, <1>2, <1>6, RaisesStays
<1>7. CASE /\ queue' = [queue EXCEPT ![c] = Append(@, r)]
           /\ status' = [status EXCEPT ![r] = "queued"]
           /\ stack' = IF Drained THEN Tail(Rest) ELSE <<>>
           /\ UNCHANGED upsets
  <2>1. status' \in [Sub -> Statuses]
    BY <1>1, <1>2, <1>7 DEF TypeInv, Statuses, Requests
  <2>2. QueuesFit(queue')
    BY <1>0, <1>1, <1>2, <1>7, QueueGrows DEF TypeInv
  <2>3. Fewer(stack', stack)
    BY <1>1, <1>2, <1>7, GivesUp
  <2>4. Eased
    BY <1>1, <1>2, <1>7, SetEases DEF TypeInv
  <2> QED BY <1>2, <1>7, <2>1, <2>2, <2>3, <2>4, FewerStays DEF TypeInv
<1> QED BY <1>0, <1>3, <1>4, <1>5, <1>6, <1>7 DEF Admit

LEMMA CheckCapacityStays ==
    ASSUME Held, CheckCapacity PROVE Held'
<1>0. PICK r, c : r = Head(stack).sub /\ c = OwnerOf[r]
  OBVIOUS
<1>1. /\ stack # <<>> /\ IsSpawn(Head(stack)) /\ r \in Sub /\ c \in Conv /\ Claims(c, stack)
      /\ c = OwnerOf[Head(stack).sub]
  BY <1>0, HeadSpawn DEF Held, CheckCapacity, SpawnOps
<1>2. settings' = settings
  BY DEF CheckCapacity
<1>3. CASE Raises
  BY <1>1, <1>2, <1>3, RaisesStays
<1>4. CASE Cardinality(Running) < settings.maxActive /\ Proceed("create")
  BY <1>1, <1>2, <1>4, ProceedStays DEF SpawnOps
<1>5. ASSUME NEW x \in Sub, Close(x, "stale_reclaimed", <<SpawnCall("recheck", r)>> \o Rest),
             UNCHANGED upsets
      PROVE  Held'
  <2>1. "stale_reclaimed" \in Whys
    BY DEF Whys
  <2> QED BY <1>0, <1>1, <1>2, <1>5, <2>1, MakesRoomStays
<1> QED BY <1>0, <1>3, <1>4, <1>5 DEF CheckCapacity

LEMMA RecheckStays ==
    ASSUME Held, Recheck PROVE Held'
<1>0. PICK c : c = OwnerOf[Head(stack).sub]
  OBVIOUS
<1>1. stack # <<>> /\ IsSpawn(Head(stack)) /\ Claims(c, stack) /\ c = OwnerOf[Head(stack).sub]
  BY <1>0, HeadSpawn DEF Held, Recheck, SpawnOps
<1>2. settings' = settings
  BY DEF Recheck
<1>3. CASE Raises
  BY <1>1, <1>2, <1>3, RaisesStays
<1>4. CASE RoomAfterReclaim /\ Proceed("create")
  BY <1>1, <1>2, <1>4, ProceedStays DEF SpawnOps, RoomAfterReclaim
<1> QED BY <1>3, <1>4 DEF Recheck

LEMMA CreateRecordStays ==
    ASSUME Held, CreateRecord PROVE Held'
<1>0. PICK r, c : r = Head(stack).sub /\ c = OwnerOf[r]
  OBVIOUS
<1>1. /\ stack # <<>> /\ IsSpawn(Head(stack)) /\ r \in Sub /\ c \in Conv /\ Claims(c, stack)
      /\ SpawnOf(c, Head(stack)) /\ stack \in Seq(Frames) /\ Top("create") /\ TypeInv
  BY <1>0, HeadSpawn DEF Held, CreateRecord, SpawnOps
<1>2. settings' = settings
  BY DEF CreateRecord
<1>3. CASE Raises
  BY <1>1, <1>2, <1>3, RaisesStays
<1>4. CASE Returns("deduped") /\ upsets' = upsets \cup {<<"refused", c>>}
  <2>1. upsets \subseteq upsets' /\ upsets' \in SUBSET Marks
    BY <1>1, <1>4 DEF TypeInv, Marks
  <2> QED BY <1>1, <1>2, <1>4, <2>1, DedupStays
<1>5. CASE ~TakenMeanwhile(r) /\ Returns("running") /\ UNCHANGED upsets
  <2>1. "running" \in Statuses
    BY DEF Statuses, Records
  <2>2. /\ status' = [status EXCEPT ![r] = "running"] /\ status' \in [Sub -> Statuses]
        /\ QueuesFit(queue') /\ Fewer(stack', stack)
        /\ NoneOf(c, Rest) => NoneOf(c, stack')
    BY <1>0, <1>1, <1>5, <2>1, ReturnsDoes
  <2>3. TypeInv'
    BY <1>1, <1>2, <1>5, <2>2 DEF TypeInv, Fewer
  <2>4. \A x \in Sub : x # r => status'[x] = status[x]
    BY <1>1, <2>2 DEF TypeInv
  <2>5. \A d : /\ Occupied(d)' <= Occupied(d) + 1
               /\ d # c => Occupied(d)' <= Occupied(d)
    <3>1. ASSUME NEW d PROVE Occupied(d)' <= Occupied(d) + 1
      BY <1>1, <2>4, OneSlotMore DEF Active
    <3>2. ASSUME NEW d, d # c PROVE Occupied(d)' <= Occupied(d)
      <4>1. \A x \in Sub : OwnerOf[x] = d /\ Active(x)' => Active(x)
        BY <1>0, <2>4, <3>2 DEF Active
      <4> QED BY <4>1, SlotsFreed
    <3> QED BY <3>1, <3>2
  <2>6. BudgetInv'
    <3> SUFFICES ASSUME NEW d \in Conv, ~Marked("nested", d)', ~Marked("reopened", d)'
                 PROVE  BudgetOf(d)'
      BY DEF BudgetInv
    <3>1. BudgetOf(d)
      BY <1>5 DEF Held, LimitInv, BudgetInv, Marked
    <3>2. Occupied(d) \in Nat /\ Occupied(d)' \in Nat
      BY FiniteCounts
    <3>3. CASE d = c
      <4>1. NoneOf(c, stack')
        <5>1. AtMostOne(c, stack)
          BY <3>1, <3>3 DEF BudgetOf
        <5>2. NoneOf(c, Rest)
          BY <1>1, <5>1, RestCounts DEF Rest
        <5> QED BY <2>2, <5>2
      <4>2. AtMostOne(c, stack') /\ ~Claims(c, stack')
        BY <4>1 DEF NoneOf, AtMostOne, Claims
      <4>3. Occupied(d) < Budget
        BY <1>1, <3>1, <3>3 DEF BudgetOf
      <4> QED BY <2>5, <3>2, <3>3, <4>2, <4>3, AdmissionConstants DEF BudgetOf
    <3>4. CASE d # c
      <4>1. AtMostOne(d, stack') /\ (Claims(d, stack') => Claims(d, stack))
        BY <2>2, <3>1 DEF Fewer, BudgetOf
      <4>2. Occupied(d)' <= Occupied(d)
        BY <2>5, <3>4
      <4> QED BY <3>1, <3>2, <4>1, <4>2, AdmissionConstants DEF BudgetOf
    <3> QED BY <3>3, <3>4
  <2>7. CapInv'
    <3> SUFFICES ASSUME Calm'
                 PROVE  /\ Cardinality(Running') <= settings'.maxActive
                        /\ Top("create")' => Cardinality(Running') < settings'.maxActive
      BY DEF CapInv
    <3>1. Cardinality(Running) < settings.maxActive
      BY <1>1, <1>5 DEF Held, LimitInv, CapInv, Calm, Marked
    <3>2. Cardinality(Running') <= Cardinality(Running) + 1
      BY <1>1, <2>4, RunningCounts
    <3>3. ~Top("create")'
      BY <2>2, NoCreateTop DEF Fewer
    <3>4. settings.maxActive \in Nat
      BY <1>1, AdmissionConstants DEF TypeInv
    <3> QED BY <1>2, <3>1, <3>2, <3>3, <3>4, FiniteCounts
  <2>8. OneMonitorPerTicket'
    <3> SUFFICES ASSUME NEW a \in Sub, NEW b \in Sub, Active(a)', Active(b)',
                        TicketOf[a] = TicketOf[b], TicketOf[a] # NoTicket,
                        \A d \in Conv : <<"reopened", d>> \notin upsets'
                 PROVE  a = b
      BY DEF OneMonitorPerTicket
    <3>1. \A x \in Sub : x # r => Active(x)' = Active(x)
      BY <2>4 DEF Active
    <3>2. \A x \in Sub : Active(x) /\ TicketOf[x] = TicketOf[r] => TicketOf[r] = NoTicket
      BY <1>5 DEF TakenMeanwhile, HasMonitor
    <3>3. a # r /\ b # r => a = b
      BY <1>5, <3>1 DEF Held, LimitInv, OneMonitorPerTicket
    <3>4. a = r /\ b # r => FALSE
      BY <3>1, <3>2
    <3>5. a # r /\ b = r => FALSE
      BY <3>1, <3>2
    <3> QED BY <3>3, <3>4, <3>5
  <2> QED BY <2>3, <2>6, <2>7, <2>8 DEF Held, LimitInv
<1> QED BY <1>0, <1>3, <1>4, <1>5 DEF CreateRecord

LEMMA TwoCalls ==
    ASSUME NEW f \in Frames, NEW g \in Frames PROVE <<f, g>> = <<f>> \o <<g>>
<1>2. <<f>> \in Seq(Frames) /\ <<g>> \in Seq(Frames) /\ <<f, g>> \in Seq(Frames)
  OBVIOUS
<1>1. Len(<<f, g>>) = 2 /\ <<f, g>>[1] = f /\ <<f, g>>[2] = g
  OBVIOUS
<1>3. /\ <<f>> \o <<g>> \in Seq(Frames) /\ Len(<<f>> \o <<g>>) = 2
      /\ (<<f>> \o <<g>>)[1] = f /\ (<<f>> \o <<g>>)[2] = g
  BY <1>2
<1> DEFINE X == <<f, g>>
           Y == <<f>> \o <<g>>
<1>4. /\ X \in Seq(Frames) /\ Len(X) = 2 /\ X[1] = f /\ X[2] = g
      /\ Y \in Seq(Frames) /\ Len(Y) = 2 /\ Y[1] = f /\ Y[2] = g
  BY <1>1, <1>2, <1>3
<1> HIDE DEF X, Y
<1>5. \A i \in 1..Len(X) : X[i] = Y[i]
  <2>1. \A i \in 1..Len(X) : i = 1 \/ i = 2
    BY <1>4
  <2> QED BY <2>1, <1>4
<1>6. X = Y
  BY <1>4, <1>5, SeqEqual
<1> QED BY <1>6 DEF X, Y

LEMMA DrainStays ==
    ASSUME Held, Drain PROVE Held'
<1>0. PICK c : c = Head(stack).conv
  OBVIOUS
<1>1. stack # <<>> /\ Shape(stack) /\ stack \in Seq(Frames) /\ c \in Conv /\ TypeInv /\ ~IsSpawn(Head(stack))
  <2>1. stack # <<>> /\ Shape(stack) /\ stack \in Seq(Frames) /\ Head(stack).op = "drain" /\ TypeInv
    BY DEF Drain, Top, Held, TypeInv, Shape
  <2> QED BY <1>0, <2>1, RestShape, DrainFrames DEF IsSpawn, SpawnOps
<1>2. settings' = settings
  BY DEF Drain
<1>3. CASE stack' = Rest /\ UNCHANGED <<status, queue, upsets>>
  <2>1. Fewer(stack', stack)
    BY <1>1, <1>3, RestFewer DEF Rest
  <2> QED BY <1>1, <1>2, <1>3, <2>1, SameEases, FewerStays DEF TypeInv
<1>4. ASSUME NEW r, r = Head(queue[c]), queue[c] # <<>>,
             queue' = [queue EXCEPT ![c] = Tail(@)],
             status' = [status EXCEPT ![r] = "held"],
             stack' = <<SpawnCall("admit", r), DrainCall(c, r)>> \o Rest,
             upsets' = IF SpawnsOf(c, Rest) # {} THEN upsets \cup {<<"nested", c>>} ELSE upsets
      PROVE  Held'
  <2>1. queue[c] \in Seq(Sub) /\ 1 \in 1..Len(queue[c]) /\ r = queue[c][1]
    <3>1. queue[c] \in Seq(Sub)
      BY <1>1 DEF TypeInv, QueuesFit
    <3> QED BY <3>1, <1>4
  <2>2. r \in Sub /\ OwnerOf[r] = c
    BY <1>1, <2>1 DEF TypeInv, QueuesFit
  <2>3. QueuesFit(queue')
    <3>1. Tail(queue[c]) \in Seq(Sub) /\ \A i \in 1..Len(Tail(queue[c])) :
              i + 1 \in 1..Len(queue[c]) /\ Tail(queue[c])[i] = queue[c][i + 1]
      BY <2>1
    <3>2. queue' \in [Conv -> Seq(Sub)] /\ queue'[c] = Tail(queue[c])
          /\ \A d \in Conv : d # c => queue'[d] = queue[d]
      BY <1>1, <1>4, <3>1 DEF TypeInv, QueuesFit
    <3>3. \A i \in 1..Len(queue'[c]) : OwnerOf[queue'[c][i]] = c
      BY <1>1, <3>1, <3>2 DEF TypeInv, QueuesFit
    <3>4. \A d \in Conv : \A i \in 1..Len(queue'[d]) : OwnerOf[queue'[d][i]] = d
      BY <1>1, <3>2, <3>3 DEF TypeInv, QueuesFit
    <3> QED BY <3>2, <3>4 DEF QueuesFit
  <2>4. status' \in [Sub -> Statuses] /\ Eased
    <3>1. "held" \in Statuses /\ "held" \notin {"running", "paused"}
      BY DEF Statuses, Requests
    <3> QED BY <1>1, <1>4, <2>2, <3>1, SetEases DEF TypeInv
  <2> DEFINE f == SpawnCall("admit", r)
             g == DrainCall(c, r)
             B == <<g>> \o Rest
  <2>5. /\ f \in Frames /\ IsSpawn(f) /\ f.op = "admit" /\ f.sub = r
        /\ g \in Frames /\ ~IsSpawn(g)
    BY <1>1, <2>2, SpawnFrames, DrainFrames DEF SpawnOps
  <2>6. Shape(Rest) /\ Bears(Rest) /\ Rest \in Seq(Frames)
    BY <1>1, RestShape DEF Rest
  <2>7. stack' = <<f>> \o B
    <3> HIDE DEF f, g
    <3>2. <<f>> \in Seq(Frames) /\ <<g>> \in Seq(Frames) /\ <<f, g>> \in Seq(Frames)
      BY <2>5
    <3>1. <<f, g>> = <<f>> \o <<g>>
      BY <2>5, TwoCalls
    <3>3. (<<f>> \o <<g>>) \o Rest = <<f>> \o (<<g>> \o Rest)
      BY <2>6, <3>2
    <3>4. stack' = <<f, g>> \o Rest
      BY <1>4 DEF f, g
    <3> QED BY <3>1, <3>3, <3>4
  <2>8. Shape(B) /\ Bears(B) /\ B # <<>> /\ Head(B) = g /\ B \in Seq(Frames)
    <3> HIDE DEF g
    <3> QED BY <2>5, <2>6, PushShape
  <2>9. Shape(stack') /\ stack' # <<>> /\ Head(stack') = f
    <3>1. Head(B) = DrainCall(OwnerOf[f.sub], f.sub)
      BY <2>2, <2>5, <2>8
    <3> HIDE DEF f, B
    <3> QED BY <2>5, <2>7, <2>8, <3>1, PushShape
  <2>10. TypeInv'
    <3>1. upsets' \in SUBSET Marks
      BY <1>1, <1>4 DEF TypeInv, Marks
    <3> QED BY <1>1, <1>2, <2>3, <2>4, <2>9, <3>1 DEF TypeInv
  <2>11. ~Top("create")'
    BY <2>5, <2>9 DEF Top
  <2>12. ASSUME NEW d \in Conv
         PROVE  /\ <<"nested", d>> \notin upsets' /\ AtMostOne(d, stack) => AtMostOne(d, stack')
                /\ Claims(d, stack') => Claims(d, stack)
    <3> HIDE DEF f, g, B
    <3>1. /\ AtMostOne(d, stack) => AtMostOne(d, Rest)
          /\ Claims(d, Rest) => Claims(d, stack)
      BY <1>1, RestCounts DEF Rest
    <3>2. /\ AtMostOne(d, Rest) => AtMostOne(d, B)
          /\ NoneOf(d, Rest) => NoneOf(d, B)
          /\ Claims(d, B) => Claims(d, Rest)
      BY <2>5, <2>6, PushCounts DEF B, SpawnOf
    <3>3. d = c /\ <<"nested", d>> \notin upsets' => NoneOf(d, Rest)
      <4> SUFFICES ASSUME d = c, <<"nested", c>> \notin upsets' PROVE NoneOf(c, Rest)
        OBVIOUS
      <4>1. SpawnsOf(c, Rest) = {}
        BY <1>4
      <4>2. DOMAIN Rest = 1..Len(Rest)
        BY <2>6
      <4> QED BY <4>1, <4>2 DEF SpawnsOf, NoneOf, SpawnOf, IsSpawn
    <3>4. SpawnOf(d, f) => d = c
      BY <2>2, <2>5 DEF SpawnOf
    <3>5. /\ AtMostOne(d, B) /\ (NoneOf(d, B) \/ ~SpawnOf(d, f)) => AtMostOne(d, stack')
          /\ Claims(d, stack') => Claims(d, B)
      BY <2>5, <2>7, <2>8, PushCounts
    <3> QED BY <3>1, <3>2, <3>3, <3>4, <3>5
  <2>13. upsets \subseteq upsets'
    BY <1>4
  <2>14. LimitInv'
    BY <1>1, <1>2, <2>4, <2>11, <2>12, <2>13, LimitsStay DEF Held
  <2> QED BY <2>10, <2>14 DEF Held
<1> QED BY <1>0, <1>3, <1>4 DEF Drain

(* The rest of the process runs when no call is in progress.               *)
LEMMA IdleStays ==
    ASSUME Held, Idle, status' \in [Sub -> Statuses], QueuesFit(queue'), Plain(stack'),
           settings' = settings, upsets' = upsets, Eased
    PROVE  Held'
<1>1. Shape(stack') /\ Bears(stack') /\ \A c : NoneOf(c, stack')
  BY PlainBasics
<1>2. TypeInv'
  BY <1>1 DEF Held, TypeInv
<1>3. ~Top("create")'
  BY <1>1, NoCreateTop
<1>4. \A c \in Conv : AtMostOne(c, stack') /\ ~Claims(c, stack')
  BY <1>1 DEF NoneOf, AtMostOne, Claims
<1>5. LimitInv'
  BY <1>3, <1>4, LimitsStay DEF Held
<1> QED BY <1>2, <1>5 DEF Held

LEMMA AskStays ==
    ASSUME Held, NEW r \in Sub, Ask(r) PROVE Held'
<1>1. status' \in [Sub -> Statuses] /\ Eased
  <2>1. "asking" \in Statuses /\ "asking" \notin {"running", "paused"}
    BY DEF Statuses, Requests
  <2> QED BY <2>1, SetEases DEF Held, TypeInv, Ask
<1>2. SpawnCall("admit", r) \in Frames /\ SpawnCall("admit", r).op = "admit"
  BY SpawnFrames DEF SpawnOps
<1>3. stack' = <<SpawnCall("admit", r)>>
  BY DEF Ask
<1> DEFINE f == SpawnCall("admit", r)
<1> HIDE DEF f
<1>4. /\ stack' \in Seq(Frames) /\ stack' # <<>> /\ Head(stack') = f
      /\ Len(stack') = 1 /\ stack'[1] = f
  BY <1>2, <1>3 DEF f
<1>5. Shape(stack')
  BY <1>4 DEF Shape
<1>6. ~Top("create")'
  BY <1>2, <1>4 DEF Top, f
<1>7. \A c : AtMostOne(c, stack') /\ ~Claims(c, stack')
  BY <1>2, <1>4 DEF AtMostOne, Claims, f
<1>8. TypeInv'
  BY <1>1, <1>5 DEF Held, TypeInv, Ask
<1>9. LimitInv'
  BY <1>1, <1>6, <1>7, LimitsStay DEF Held, Ask
<1> QED BY <1>8, <1>9 DEF Held

LEMMA MarkPausedStays ==
    ASSUME Held, NEW r \in Sub, MarkPaused(r) PROVE Held'
<1>1. status' \in [Sub -> Statuses] /\ Eased
  <2>1. "paused" \in Statuses
    BY DEF Statuses, Records
  <2> QED BY <2>1 DEF Held, TypeInv, MarkPaused, Eased, Active
<1>2. Plain(stack')
  BY PlainBasics DEF MarkPaused, Idle
<1> QED BY <1>1, <1>2, IdleStays DEF MarkPaused, Held, TypeInv

(* Resume and reopen are marked; the first takes no slot.                  *)
LEMMA RestartStays ==
    ASSUME Held, NEW r \in Sub, Idle, status' = [status EXCEPT ![r] = "running"],
           UNCHANGED <<queue, stack, settings>>,
           \/ Active(r) /\ upsets' = upsets \cup {<<"resumed", OwnerOf[r]>>}
           \/ upsets' = upsets \cup {<<"reopened", OwnerOf[r]>>}
    PROVE  Held'
<1>1. status' \in [Sub -> Statuses] /\ \A x \in Sub : x # r => status'[x] = status[x]
  BY DEF Held, TypeInv, Statuses, Records
<1>2. OwnerOf[r] \in Conv
  BY AdmissionConstants
<1>3. upsets' \in SUBSET Marks /\ upsets \subseteq upsets'
  BY <1>2 DEF Held, TypeInv, Marks
<1>4. TypeInv'
  BY <1>1, <1>3 DEF Held, TypeInv
<1>5. ~Calm'
  BY <1>2 DEF Calm, Marked
<1>6. \A d \in Conv : ~Claims(d, stack') /\ AtMostOne(d, stack')
  BY DEF Idle, Claims, AtMostOne
<1>7. BudgetInv'
  <2> SUFFICES ASSUME NEW d \in Conv, ~Marked("nested", d)', ~Marked("reopened", d)'
               PROVE  BudgetOf(d)'
    BY DEF BudgetInv
  <2>1. BudgetOf(d)
    BY <1>3 DEF Held, LimitInv, BudgetInv, Marked
  <2>2. \A x \in Sub : OwnerOf[x] = d /\ Active(x)' => Active(x)
    <3>1. Active(r) \/ OwnerOf[r] # d
      BY DEF Marked
    <3> QED BY <1>1, <3>1 DEF Active
  <2>3. Occupied(d)' <= Occupied(d) /\ Occupied(d) \in Nat /\ Occupied(d)' \in Nat
    BY <2>2, SlotsFreed, FiniteCounts
  <2> QED BY <2>1, <2>3, <1>6, AdmissionConstants DEF BudgetOf
<1>8. OneMonitorPerTicket'
  <2> SUFFICES ASSUME \A d \in Conv : <<"reopened", d>> \notin upsets'
               PROVE  OneMonitorPerTicket'
    BY DEF OneMonitorPerTicket
  <2>1. Active(r) /\ \A d \in Conv : <<"reopened", d>> \notin upsets
    BY <1>2, <1>3
  <2>2. \A x \in Sub : Active(x)' => Active(x)
    BY <1>1, <2>1 DEF Active
  <2> QED BY <2>1, <2>2 DEF Held, LimitInv, OneMonitorPerTicket
<1> QED BY <1>4, <1>5, <1>7, <1>8 DEF Held, LimitInv, CapInv

LEMMA CloseOneStays ==
    ASSUME Held, NEW r \in Sub, NEW why \in {"given_up", "resolved"}, CloseOne(r, why) PROVE Held'
<1>1. why \in Whys /\ Close(r, why, <<>>) /\ UNCHANGED <<settings, upsets>> /\ Idle
  BY DEF Whys, CloseOne
<1>2. /\ status' \in [Sub -> Statuses] /\ QueuesFit(queue')
      /\ \A x \in Sub : \/ status'[x] = status[x]
                        \/ x = r /\ status'[x] \in {"waiting", "ended"}
                        \/ status[x] = "queued" /\ status'[x] = "dropped"
      /\ \E A : Plain(A) /\ stack' = A \o <<>>
  BY <1>1, CloseDoes DEF Held
<1>3. Plain(stack')
  BY <1>2, PlainBasics
<1>4. Eased
  BY <1>2, CloseEases
<1> QED BY <1>1, <1>2, <1>3, <1>4, IdleStays

LEMMA CallFromIdleStays ==
    ASSUME Held, NEW c \in Conv, TaskCloses(c) \/ CloseAllForOwner(c) PROVE Held'
<1> DEFINE S == {r \in Sub : OwnerOf[r] = c /\ status[r] \in Records}
<1>1. Plain(<<DrainCall(c, NoSub)>>) /\ Plain(<<EachCall("session closed", S)>>)
  <2>1. DrainCall(c, NoSub) \in Frames /\ ~IsSpawn(DrainCall(c, NoSub))
    BY DrainFrames
  <2>2. EachCall("session closed", S) \in Frames /\ ~IsSpawn(EachCall("session closed", S))
    BY OtherFrames DEF Reasons
  <2> QED BY <2>1, <2>2, PlainBasics
<1>2. Plain(stack') /\ Idle /\ UNCHANGED <<status, queue, settings, upsets>>
  BY <1>1 DEF TaskCloses, CloseAllForOwner
<1> QED BY <1>2, SameEases, IdleStays DEF Held, TypeInv

-----------------------------------------------------------------------------
LEMMA HeldInit ==
    ASSUME Init PROVE Held
<1>1. TypeInv
  <2>1. Shape(stack)
    BY PlainBasics DEF Init
  <2>2. QueuesFit(queue)
    BY DEF Init, QueuesFit
  <2>3. status \in [Sub -> Statuses] /\ settings \in Settings /\ upsets \in SUBSET Marks
    BY DEF Init, Statuses, Requests
  <2> QED BY <2>1, <2>2, <2>3 DEF TypeInv
<1>2. \A r \in Sub : ~Active(r) /\ status[r] # "running"
  BY DEF Init, Active
<1>3. BudgetInv
  <2> SUFFICES ASSUME NEW c \in Conv PROVE BudgetOf(c)
    BY DEF BudgetInv
  <2>1. ActiveOf(c) = {}
    BY <1>2 DEF ActiveOf
  <2>2. Occupied(c) = 0
    BY <2>1, FiniteCounts, FS_EmptySet
  <2> QED BY <2>2, AdmissionConstants DEF BudgetOf, Init, AtMostOne, Claims
<1>4. CapInv
  <2>1. Running = {}
    BY <1>2 DEF Running
  <2>2. Cardinality(Running) = 0
    BY <2>1, FS_EmptySet
  <2>3. settings.maxActive \in Nat
    BY <1>1, AdmissionConstants DEF TypeInv
  <2> QED BY <2>2, <2>3 DEF CapInv, Init, Top
<1>5. OneMonitorPerTicket
  BY <1>2 DEF OneMonitorPerTicket
<1> QED BY <1>1, <1>3, <1>4, <1>5 DEF Held, LimitInv

LEMMA HeldNext ==
    ASSUME Held, [Next]_vars PROVE Held'
<1>1. CASE UNCHANGED vars
  BY <1>1 DEF vars, Held, TypeInv, LimitInv, BudgetInv, BudgetOf, CapInv, Calm, Marked,
              OneMonitorPerTicket, Occupied, Active, Running, Top
<1>2. CASE CallStep
  BY <1>2, StartDependentsStays, CloseEachStays, AdmitStays, CheckCapacityStays, RecheckStays,
     CreateRecordStays, DrainStays DEF CallStep
<1>3. ASSUME NEW r \in Sub, Resume(r) PROVE Held'
  BY <1>3, RestartStays DEF Resume, Active
<1>4. ASSUME NEW r \in Sub, Reopen(r) PROVE Held'
  BY <1>4, RestartStays DEF Reopen
<1>5. CASE Elsewhere
  BY <1>3, <1>4, <1>5, AskStays, MarkPausedStays, CloseOneStays, CallFromIdleStays DEF Elsewhere
<1> QED BY <1>1, <1>2, <1>5 DEF Next

(* The inductive invariant of the limits: the stack has its shape, and the *)
(* limits hold with the slots that the spawns in progress have claimed.    *)
THEOREM AdmissionInvariant == Spec => []Held
<1>1. Init => Held
  BY HeldInit
<1>2. Held /\ [Next]_vars => Held'
  BY HeldNext
<1> QED BY <1>1, <1>2, PTL DEF Spec

(* The variables have their types: what is on the stack is a call in       *)
(* progress, what is in a queue is a request.                              *)
THEOREM AdmissionTypes == Spec => []TypeOK
<1>1. Held => TypeOK
  BY DEF Held, TypeInv, TypeOK, Shape, QueuesFit, Statuses, Marks
<1> QED BY <1>1, AdmissionInvariant, PTL

(* The slot budget of a conversation and the cap of the process hold,      *)
(* whatever a spawn closes to make room and whatever that starts.          *)
THEOREM SpawnsKeepLimits == Spec => []WithinLimits
<1>1. Held => WithinBudget
  <2> SUFFICES ASSUME Held, NEW c \in Conv, Occupied(c) > Budget,
                      {<<"nested", c>>, <<"reopened", c>>} \cap upsets = {}
               PROVE  FALSE
    BY DEF WithinBudget
  <2>1. ~Marked("nested", c) /\ ~Marked("reopened", c)
    BY DEF Marked
  <2>2. Occupied(c) <= Budget
    BY <2>1 DEF Held, LimitInv, BudgetInv, BudgetOf
  <2> QED BY <2>2, FiniteCounts, AdmissionConstants
<1>2. Held => WithinCap
  <2> SUFFICES ASSUME Held, Cardinality(Running) > settings.maxActive,
                      \A c \in Conv : {<<"resumed", c>>, <<"reopened", c>>} \cap upsets = {}
               PROVE  FALSE
    BY DEF WithinCap
  <2>1. Calm
    BY DEF Calm, Marked
  <2>2. Cardinality(Running) <= settings.maxActive
    BY <2>1 DEF Held, LimitInv, CapInv
  <2>3. settings.maxActive \in Nat
    BY AdmissionConstants DEF Held, TypeInv
  <2> QED BY <2>2, <2>3, FiniteCounts
<1>3. Held => WithinLimits
  BY <1>1, <1>2 DEF WithinLimits
<1> QED BY <1>3, AdmissionInvariant, PTL

(* No dedup key has two monitors, though a drain may spawn one between the *)
(* guards of another spawn.                                                *)
THEOREM KeysHaveOneMonitor == Spec => []OneMonitorPerTicket
<1>1. Held => OneMonitorPerTicket
  BY DEF Held, LimitInv
<1> QED BY <1>1, AdmissionInvariant, PTL

-----------------------------------------------------------------------------
(* Who is where.  A spawn is known by its depth from the bottom of the     *)
(* stack, which calls above it do not change.                              *)
In(st, d, x) == \E i \in 1..Len(st) : IsSpawn(st[i]) /\ d = Len(st) - i /\ x = st[i].sub
DrainIn(c, st) == \E i \in 1..Len(st) : st[i].op = "drain" /\ st[i].conv = c

LEMMA InFacts ==
    ASSUME NEW st \in Seq(Frames), NEW d, NEW x, In(st, d, x)
    PROVE  d \in Nat /\ d < Len(st) /\ x \in Sub
  BY SpawnFrames DEF In

LEMMA TailCalls ==
    ASSUME NEW st \in Seq(Frames), st # <<>>
    PROVE  /\ \A d, x : In(st, d, x) <=>
                 In(Tail(st), d, x) \/ (IsSpawn(Head(st)) /\ d = Len(st) - 1 /\ x = Head(st).sub)
           /\ \A c : DrainIn(c, st) <=>
                 DrainIn(c, Tail(st)) \/ (Head(st).op = "drain" /\ Head(st).conv = c)
           /\ Len(Tail(st)) = Len(st) - 1 /\ Tail(st) \in Seq(Frames)
<1>1. /\ Head(st) = st[1] /\ Len(st) \in Nat /\ Len(st) >= 1 /\ Len(Tail(st)) = Len(st) - 1
      /\ Tail(st) \in Seq(Frames)
  OBVIOUS
<1>2. \A i \in 1..Len(Tail(st)) : i + 1 \in 1..Len(st) /\ Tail(st)[i] = st[i + 1]
  OBVIOUS
<1>3. \A i \in 1..Len(st) : i > 1 => i - 1 \in 1..Len(Tail(st)) /\ Tail(st)[i - 1] = st[i]
  OBVIOUS
<1>4. ASSUME NEW d, NEW x, In(st, d, x)
      PROVE  In(Tail(st), d, x) \/ (IsSpawn(Head(st)) /\ d = Len(st) - 1 /\ x = Head(st).sub)
  <2>1. PICK i \in 1..Len(st) : IsSpawn(st[i]) /\ d = Len(st) - i /\ x = st[i].sub
    BY <1>4 DEF In
  <2>2. CASE i = 1
    BY <1>1, <2>1, <2>2
  <2>3. CASE i > 1
    <3>1. /\ i - 1 \in 1..Len(Tail(st)) /\ IsSpawn(Tail(st)[i - 1]) /\ x = Tail(st)[i - 1].sub
          /\ d = Len(Tail(st)) - (i - 1)
      BY <1>1, <1>3, <2>1, <2>3
    <3> QED BY <3>1 DEF In
  <2> QED BY <2>2, <2>3
<1>5. ASSUME NEW d, NEW x, In(Tail(st), d, x) PROVE In(st, d, x)
  <2>1. PICK i \in 1..Len(Tail(st)) : IsSpawn(Tail(st)[i]) /\ d = Len(Tail(st)) - i /\ x = Tail(st)[i].sub
    BY <1>5 DEF In
  <2>2. i + 1 \in 1..Len(st) /\ IsSpawn(st[i + 1]) /\ d = Len(st) - (i + 1) /\ x = st[i + 1].sub
    BY <1>1, <1>2, <2>1
  <2> QED BY <2>2 DEF In
<1>6. ASSUME NEW d, NEW x, IsSpawn(Head(st)), d = Len(st) - 1, x = Head(st).sub PROVE In(st, d, x)
  BY <1>1, <1>6 DEF In
<1>7. ASSUME NEW c, DrainIn(c, st)
      PROVE  DrainIn(c, Tail(st)) \/ (Head(st).op = "drain" /\ Head(st).conv = c)
  <2>1. PICK i \in 1..Len(st) : st[i].op = "drain" /\ st[i].conv = c
    BY <1>7 DEF DrainIn
  <2>2. CASE i = 1
    BY <1>1, <2>1, <2>2
  <2>3. CASE i > 1
    BY <1>3, <2>1, <2>3 DEF DrainIn
  <2> QED BY <2>2, <2>3
<1>8. ASSUME NEW c, DrainIn(c, Tail(st)) PROVE DrainIn(c, st)
  BY <1>2, <1>8 DEF DrainIn
<1>9. ASSUME NEW c, Head(st).op = "drain" /\ Head(st).conv = c PROVE DrainIn(c, st)
  BY <1>1, <1>9 DEF DrainIn
<1> QED BY <1>1, <1>4, <1>5, <1>6, <1>7, <1>8, <1>9

LEMMA PlainCalls ==
    ASSUME NEW A, Plain(A), NEW B \in Seq(Frames)
    PROVE  /\ \A d, x : In(A \o B, d, x) <=> In(B, d, x)
           /\ \A c : DrainIn(c, A \o B) <=> DrainIn(c, A) \/ DrainIn(c, B)
<1> DEFINE C == A \o B
<1>1. A \in Seq(Frames)
  BY DEF Plain
<1>2. Len(A) \in Nat /\ Len(B) \in Nat /\ Len(C) = Len(A) + Len(B)
  BY <1>1
<1>3. \A i \in 1..Len(C) : i <= Len(A) => C[i] = A[i] /\ i \in 1..Len(A)
  BY <1>1
<1>4. \A i \in 1..Len(C) : i > Len(A) => i - Len(A) \in 1..Len(B) /\ C[i] = B[i - Len(A)]
  BY <1>1
<1>5. \A i \in 1..Len(B) : Len(A) + i \in 1..Len(C) /\ C[Len(A) + i] = B[i]
  BY <1>1
<1>6. \A i \in 1..Len(A) : i \in 1..Len(C) /\ C[i] = A[i]
  BY <1>1
<1> HIDE DEF C
<1>7. ASSUME NEW d, NEW x, In(C, d, x) PROVE In(B, d, x)
  <2>1. PICK i \in 1..Len(C) : IsSpawn(C[i]) /\ d = Len(C) - i /\ x = C[i].sub
    BY <1>7 DEF In
  <2>2. i > Len(A)
    BY <1>2, <1>3, <2>1 DEF Plain
  <2>3. /\ i - Len(A) \in 1..Len(B) /\ IsSpawn(B[i - Len(A)]) /\ x = B[i - Len(A)].sub
        /\ d = Len(B) - (i - Len(A))
    BY <1>2, <1>4, <2>1, <2>2
  <2> QED BY <2>3 DEF In
<1>8. ASSUME NEW d, NEW x, In(B, d, x) PROVE In(C, d, x)
  <2>1. PICK i \in 1..Len(B) : IsSpawn(B[i]) /\ d = Len(B) - i /\ x = B[i].sub
    BY <1>8 DEF In
  <2>2. /\ Len(A) + i \in 1..Len(C) /\ IsSpawn(C[Len(A) + i]) /\ x = C[Len(A) + i].sub
        /\ d = Len(C) - (Len(A) + i)
    BY <1>2, <1>5, <2>1
  <2> QED BY <2>2 DEF In
<1>9. ASSUME NEW c, DrainIn(c, C) PROVE DrainIn(c, A) \/ DrainIn(c, B)
  <2>1. PICK i \in 1..Len(C) : C[i].op = "drain" /\ C[i].conv = c
    BY <1>9 DEF DrainIn
  <2>2. CASE i <= Len(A)
    BY <1>3, <2>1, <2>2 DEF DrainIn
  <2>3. CASE i > Len(A)
    BY <1>4, <2>1, <2>3 DEF DrainIn
  <2> QED BY <1>2, <2>2, <2>3
<1>10. ASSUME NEW c, DrainIn(c, A) \/ DrainIn(c, B) PROVE DrainIn(c, C)
  BY <1>5, <1>6, <1>10 DEF DrainIn
<1> QED BY <1>7, <1>8, <1>9, <1>10 DEF C

-----------------------------------------------------------------------------
(* A request is in one place.  The one whose spawn is at the bottom was    *)
(* asked for from outside, the others in calls are held by a drain; the    *)
(* deeper of two held ones of a conversation is the older; the queues are  *)
(* in order, behind what is held; and a drain holds a request only while   *)
(* there is a slot for it.                                                 *)
CallInv ==
    /\ \A d \in Nat, x \in Sub : In(stack, d, x) => status[x] = IF d = 0 THEN "asking" ELSE "held"
    /\ \A d, e \in Nat, x, y \in Sub : In(stack, d, x) /\ In(stack, e, y) /\ d # e =>
          /\ x # y
          /\ d > e /\ e > 0 /\ OwnerOf[x] = OwnerOf[y] => y < x
    /\ \A x \in Sub : status[x] = "asking" => In(stack, 0, x)

LineInv ==
    /\ \A c \in Conv : \A i, j \in 1..Len(queue[c]) : i < j => queue[c][i] < queue[c][j]
    /\ \A c \in Conv : \A i \in 1..Len(queue[c]) : status[queue[c][i]] = "queued"
    /\ \A x \in Sub : status[x] = "queued" =>
          \E i \in 1..Len(queue[OwnerOf[x]]) : queue[OwnerOf[x]][i] = x

AheadInv ==
    \A d \in Nat, x \in Sub : In(stack, d, x) /\ d > 0 =>
        \A i \in 1..Len(queue[OwnerOf[x]]) : x < queue[OwnerOf[x]][i]

NewInv ==
    \A x, y \in Sub :
        x < y /\ OwnerOf[x] = OwnerOf[y] /\ status[x] \in {"new", "asking"} => status[y] = "new"

AdmitInv ==
    Top("admit") /\ Len(stack) > 1 => ~AtBudget(OwnerOf[Head(stack).sub])

PlaceInv == CallInv /\ LineInv /\ AheadInv

(* Calls end or go on, and no request is queued or taken from a queue,     *)
(* except that a queue may be discarded.                                   *)
LEMMA PlaceStays ==
    ASSUME TypeInv, PlaceInv,
           \A d \in Nat, x \in Sub : In(stack', d, x) => In(stack, d, x) /\ status'[x] = status[x],
           \A x \in Sub : status'[x] = "asking" =>
                             status[x] = "asking" /\ (In(stack, 0, x) => In(stack', 0, x)),
           \A c \in Conv : queue'[c] = queue[c] \/ queue'[c] = <<>>,
           \A x \in Sub : status'[x] = "queued" <=>
                             status[x] = "queued" /\ queue'[OwnerOf[x]] = queue[OwnerOf[x]]
    PROVE  PlaceInv'
<1> USE AdmissionConstants
<1>1. CallInv'
  <2>1. ASSUME NEW d \in Nat, NEW x \in Sub, In(stack', d, x)
        PROVE  status'[x] = IF d = 0 THEN "asking" ELSE "held"
    BY <2>1 DEF PlaceInv, CallInv
  <2>2. ASSUME NEW d \in Nat, NEW e \in Nat, NEW x \in Sub, NEW y \in Sub,
               In(stack', d, x), In(stack', e, y), d # e
        PROVE  x # y /\ (d > e /\ e > 0 /\ OwnerOf[x] = OwnerOf[y] => y < x)
    <3>1. In(stack, d, x) /\ In(stack, e, y)
      BY <2>2
    <3> QED BY <2>2, <3>1 DEF PlaceInv, CallInv
  <2>3. ASSUME NEW x \in Sub, status'[x] = "asking" PROVE In(stack', 0, x)
    BY <2>3 DEF PlaceInv, CallInv
  <2> QED BY <2>1, <2>2, <2>3 DEF CallInv
<1>2. LineInv'
  <2>1. ASSUME NEW c \in Conv
        PROVE  /\ \A i, j \in 1..Len(queue'[c]) : i < j => queue'[c][i] < queue'[c][j]
               /\ \A i \in 1..Len(queue'[c]) : status'[queue'[c][i]] = "queued"
    <3>1. CASE queue'[c] = queue[c]
      <4>1. \A i \in 1..Len(queue[c]) : queue[c][i] \in Sub /\ OwnerOf[queue[c][i]] = c
        BY DEF TypeInv, QueuesFit
      <4> QED BY <3>1, <4>1 DEF PlaceInv, LineInv
    <3>2. CASE queue'[c] = <<>>
      BY <3>2
    <3> QED BY <3>1, <3>2
  <2>2. ASSUME NEW x \in Sub, status'[x] = "queued"
        PROVE  \E i \in 1..Len(queue'[OwnerOf[x]]) : queue'[OwnerOf[x]][i] = x
    BY <2>2 DEF PlaceInv, LineInv
  <2> QED BY <2>1, <2>2 DEF LineInv
<1>3. AheadInv'
  <2> SUFFICES ASSUME NEW d \in Nat, NEW x \in Sub, In(stack', d, x), d > 0,
                      NEW i \in 1..Len(queue'[OwnerOf[x]])
               PROVE  x < queue'[OwnerOf[x]][i]
    BY DEF AheadInv
  <2>1. queue'[OwnerOf[x]] = queue[OwnerOf[x]]
    OBVIOUS
  <2> QED BY <2>1 DEF PlaceInv, AheadInv
<1> QED BY <1>1, <1>2, <1>3 DEF PlaceInv

(* Records change among themselves, and a queue may be discarded.          *)
RecordsMove ==
    /\ \A x \in Sub : \/ status'[x] = status[x]
                      \/ status[x] \in Records /\ status'[x] \in Records
                      \/ status[x] = "queued" /\ status'[x] = "dropped" /\ queue'[OwnerOf[x]] = <<>>
    /\ \A c \in Conv : \/ queue'[c] = queue[c]
                       \/ /\ queue'[c] = <<>>
                          /\ \A x \in Sub : OwnerOf[x] = c => status'[x] # "queued"

LEMMA NewStays ==
    ASSUME NewInv,
           \A x \in Sub : /\ status'[x] \in {"new", "asking"} => status[x] \in {"new", "asking"}
                          /\ status[x] = "new" => status'[x] = "new"
    PROVE  NewInv'
  BY DEF NewInv

LEMMA RecordsMovePlaces ==
    ASSUME TypeInv, PlaceInv, NewInv, RecordsMove, ~Top("admit")',
           \A d, x : In(stack', d, x) <=> In(stack, d, x)
    PROVE  PlaceInv' /\ NewInv' /\ AdmitInv'
<1> USE AdmissionConstants
<1>1. \A d \in Nat, x \in Sub : In(stack', d, x) => In(stack, d, x) /\ status'[x] = status[x]
  BY DEF PlaceInv, CallInv, RecordsMove, Records
<1>2. ASSUME NEW x \in Sub
      PROVE  status'[x] = "queued" <=> status[x] = "queued" /\ queue'[OwnerOf[x]] = queue[OwnerOf[x]]
  <2>1. OwnerOf[x] \in Conv
    OBVIOUS
  <2>2. ASSUME status'[x] = "queued" PROVE status[x] = "queued" /\ queue'[OwnerOf[x]] = queue[OwnerOf[x]]
    BY <2>1, <2>2 DEF RecordsMove, Records
  <2>3. ASSUME status[x] = "queued", queue'[OwnerOf[x]] = queue[OwnerOf[x]] PROVE status'[x] = "queued"
    <3>1. queue[OwnerOf[x]] # <<>>
      BY <2>3 DEF PlaceInv, LineInv
    <3> QED BY <2>3, <3>1 DEF RecordsMove, Records
  <2> QED BY <2>2, <2>3
<1>3. \A c \in Conv : queue'[c] = queue[c] \/ queue'[c] = <<>>
  BY DEF RecordsMove
<1>4. PlaceInv'
  <2>1. \A x \in Sub : status'[x] = "asking" =>
                           status[x] = "asking" /\ (In(stack, 0, x) => In(stack', 0, x))
    BY DEF RecordsMove, Records
  <2> QED BY <1>1, <1>2, <1>3, <2>1, PlaceStays
<1>5. NewInv'
  BY NewStays DEF RecordsMove, Records
<1>6. AdmitInv'
  BY DEF AdmitInv
<1> QED BY <1>4, <1>5, <1>6

(* A close moves records so.                                               *)
LEMMA CloseMoves ==
    ASSUME TypeInv, NEW r \in Sub, Active(r), NEW why \in Whys, NEW B, Close(r, why, B)
    PROVE  RecordsMove
<1> USE AdmissionConstants
<1>1. status' = [x \in Sub |->
                     IF x = r THEN IF why = "waiting_for_prerequisite" THEN "waiting" ELSE "ended"
                     ELSE IF x \in DiscardedBy(r, why) THEN "dropped" ELSE status[x]]
  BY DEF Close
<1>2. queue' = IF why = "session closed" THEN [queue EXCEPT ![OwnerOf[r]] = <<>>] ELSE queue
  BY DEF Close
<1>3. OwnerOf[r] \in Conv /\ queue \in [Conv -> Seq(Sub)]
  BY DEF TypeInv, QueuesFit
<1>4. ASSUME NEW x \in Sub
      PROVE  \/ status'[x] = status[x]
             \/ status[x] \in Records /\ status'[x] \in Records
             \/ status[x] = "queued" /\ status'[x] = "dropped" /\ queue'[OwnerOf[x]] = <<>>
  <2>1. CASE x = r
    BY <1>1, <2>1 DEF Active, Records
  <2>2. CASE x # r /\ x \in DiscardedBy(r, why)
    <3>1. status[x] = "queued" /\ OwnerOf[x] = OwnerOf[r] /\ why = "session closed"
      BY <2>2 DEF DiscardedBy
    <3> QED BY <1>1, <1>2, <1>3, <2>2, <3>1
  <2>3. CASE x # r /\ x \notin DiscardedBy(r, why)
    BY <1>1, <2>3
  <2> QED BY <2>1, <2>2, <2>3
<1>5. ASSUME NEW c \in Conv
      PROVE  \/ queue'[c] = queue[c]
             \/ queue'[c] = <<>> /\ \A x \in Sub : OwnerOf[x] = c => status'[x] # "queued"
  <2>1. CASE why # "session closed" \/ c # OwnerOf[r]
    BY <1>2, <1>3, <2>1
  <2>2. CASE why = "session closed" /\ c = OwnerOf[r]
    <3>1. queue'[c] = <<>>
      BY <1>2, <1>3, <2>2
    <3>2. ASSUME NEW x \in Sub, OwnerOf[x] = c PROVE status'[x] # "queued"
      BY <1>1, <2>2, <3>2 DEF DiscardedBy
    <3> QED BY <3>1, <3>2
  <2> QED BY <2>1, <2>2
<1> QED BY <1>4, <1>5 DEF RecordsMove

LEMMA CloseDrains ==
    ASSUME TypeInv, NEW r \in Sub, NEW why \in Whys, NEW B \in Seq(Frames), Close(r, why, B)
    PROVE  /\ \A d, x : In(stack', d, x) <=> In(B, d, x)
           /\ \A c : DrainIn(c, B) => DrainIn(c, stack')
           /\ \/ why = "slot_reclaimed"
              \/ queue'[OwnerOf[r]] = <<>>
              \/ DrainIn(OwnerOf[r], stack')
           /\ \A c \in Conv : c # OwnerOf[r] => queue'[c] = queue[c]
           /\ \A x \in Sub : x # r => (Active(x)' <=> Active(x))
<1> USE AdmissionConstants
<1> DEFINE g == DrainCall(OwnerOf[r], NoSub)
           P == CallbackCalls(r, why)
           Q == CascadeCalls(r, why)
<1>1. g \in Frames /\ ~IsSpawn(g) /\ g.op = "drain" /\ g.conv = OwnerOf[r]
  BY DrainFrames
<1>2. P = IF why \in {"slot_reclaimed", "session closed"} THEN <<>> ELSE <<g>>
  BY DEF CallbackCalls
<1> HIDE DEF g, P, Q
<1>3. Plain(P)
  BY <1>1, <1>2, PlainBasics
<1>4. Plain(Q)
  <2>1. TicketOf[r] # NoTicket => TicketOf[r] \in Ticket
    OBVIOUS
  <2>2. TicketOf[r] # NoTicket => CascadeCall(TicketOf[r]) \in Frames /\ ~IsSpawn(CascadeCall(TicketOf[r]))
    BY <2>1, OtherFrames
  <2> QED BY <2>2, PlainBasics DEF CascadeCalls, Q
<1>5. Plain(P \o Q) /\ stack' = (P \o Q) \o B /\ Q \in Seq(Frames)
  BY <1>3, <1>4, PlainBasics DEF Close, P, Q, Plain
<1>6. \A d, x : In(stack', d, x) <=> In(B, d, x)
  BY <1>5, PlainCalls
<1>7. \A c : DrainIn(c, B) => DrainIn(c, stack')
  BY <1>5, PlainCalls
<1>8. why \notin {"slot_reclaimed", "session closed"} => DrainIn(OwnerOf[r], stack')
  <2> SUFFICES ASSUME P = <<g>> PROVE DrainIn(OwnerOf[r], stack')
    BY <1>2
  <2>1. DrainIn(OwnerOf[r], P)
    BY <1>1 DEF DrainIn
  <2>2. DrainIn(OwnerOf[r], P \o Q)
    BY <1>3, <1>5, <2>1, PlainCalls
  <2> QED BY <1>5, <2>2, PlainCalls
<1>9. /\ why = "session closed" => queue'[OwnerOf[r]] = <<>>
      /\ \A c \in Conv : c # OwnerOf[r] => queue'[c] = queue[c]
  BY DEF Close, TypeInv, QueuesFit
<1>10. \A x \in Sub : x # r => (Active(x)' <=> Active(x))
  BY DEF Close, Active, DiscardedBy
<1> QED BY <1>6, <1>7, <1>8, <1>9, <1>10

(* A spawn at the head leaves the stack, and with it the hold of the drain *)
(* below it.                                                               *)
LEMMA SpawnLeaves ==
    ASSUME TypeInv, stack # <<>>, IsSpawn(Head(stack)), NEW c, c = OwnerOf[Head(stack).sub],
           \/ stack' = IF Drained THEN Tail(Rest) ELSE <<>>
           \/ stack' = IF Drained THEN <<DrainCall(Head(Rest).conv, NoSub)>> \o Tail(Rest) ELSE <<>>
    PROVE  /\ \A d, x : In(stack', d, x) <=> In(stack, d, x) /\ d # Len(stack) - 1
           /\ \A e : e # c /\ DrainIn(e, stack) => DrainIn(e, stack')
           /\ Drained /\ stack' = <<DrainCall(Head(Rest).conv, NoSub)>> \o Tail(Rest)
                 => DrainIn(c, stack')
           /\ Fewer(stack', stack)
<1> USE AdmissionConstants
<1>1. stack \in Seq(Frames) /\ Shape(stack) /\ Head(stack).sub \in Sub /\ c \in Conv /\ Len(stack) \in Nat
      /\ Len(stack) > 0
  BY RestShape, SpawnFrames DEF TypeInv, Shape
<1>2. /\ \A d, x : In(stack, d, x) <=> In(Rest, d, x) \/ (d = Len(stack) - 1 /\ x = Head(stack).sub)
      /\ \A e : DrainIn(e, stack) <=> DrainIn(e, Rest)
      /\ Len(Rest) = Len(stack) - 1 /\ Rest \in Seq(Frames)
  BY <1>1, TailCalls DEF Rest, IsSpawn, SpawnOps
<1>3. \A d, x : In(Rest, d, x) => d < Len(stack) - 1 /\ d \in Nat
  BY <1>2, InFacts
<1>4. CASE Drained
  <2>1. Rest # <<>> /\ Head(Rest) = DrainCall(c, Head(stack).sub) /\ Shape(Rest)
    BY <1>1, <1>4, RestShape DEF Drained, Rest
  <2>2. ~IsSpawn(Head(Rest)) /\ Head(Rest).op = "drain" /\ Head(Rest).conv = c
    BY <1>1, <2>1, DrainFrames
  <2>3. /\ \A d, x : In(Rest, d, x) <=> In(Tail(Rest), d, x)
        /\ \A e : DrainIn(e, Rest) <=> DrainIn(e, Tail(Rest)) \/ e = c
        /\ Tail(Rest) \in Seq(Frames)
    BY <1>2, <2>1, <2>2, TailCalls
  <2> DEFINE g == DrainCall(c, NoSub)
  <2>4. g \in Frames /\ ~IsSpawn(g) /\ g.op = "drain" /\ g.conv = c
    BY <1>1, DrainFrames
  <2> HIDE DEF g
  <2>5. Plain(<<g>>) /\ Plain(<<>>) /\ DrainIn(c, <<g>>)
    <3>1. DrainIn(c, <<g>>)
      BY <2>4 DEF DrainIn
    <3> QED BY <2>4, <3>1, PlainBasics
  <2>6. \/ stack' = Tail(Rest)
        \/ stack' = <<g>> \o Tail(Rest)
    BY <1>4, <2>2 DEF g
  <2>7. /\ \A d, x : In(stack', d, x) <=> In(Tail(Rest), d, x)
        /\ \A e : DrainIn(e, Tail(Rest)) => DrainIn(e, stack')
        /\ stack' = <<g>> \o Tail(Rest) => DrainIn(c, stack')
    <3>1. CASE stack' = <<g>> \o Tail(Rest)
      BY <2>3, <2>5, <3>1, PlainCalls
    <3>2. CASE stack' = Tail(Rest) /\ stack' # <<g>> \o Tail(Rest)
      BY <3>2
    <3> QED BY <2>6, <3>1, <3>2
  <2>8. Fewer(stack', Rest) /\ Fewer(Rest, stack)
    <3>1. Fewer(<<g>> \o Tail(Rest), Rest) /\ Fewer(Tail(Rest), Rest)
      BY <2>1, <2>5, RestFewer
    <3>2. Fewer(Rest, stack)
      BY <1>1, RestFewer DEF Rest
    <3> QED BY <2>6, <3>1, <3>2
  <2>9. Fewer(stack', stack)
    BY <2>8, FewerTwice
  <2>10. \A d, x : In(stack', d, x) <=> In(stack, d, x) /\ d # Len(stack) - 1
    BY <1>1, <1>2, <1>3, <2>3, <2>7
  <2>11. \A e : e # c /\ DrainIn(e, stack) => DrainIn(e, stack')
    BY <1>2, <2>3, <2>7
  <2>12. stack' = <<DrainCall(Head(Rest).conv, NoSub)>> \o Tail(Rest) => DrainIn(c, stack')
    BY <2>2, <2>7 DEF g
  <2> QED BY <2>9, <2>10, <2>11, <2>12
<1>5. CASE ~Drained
  <2>1. stack' = <<>> /\ Rest = <<>>
    BY <1>1, <1>5, RestShape DEF Drained, Rest
  <2>2. \A d, x : ~In(<<>>, d, x)
    BY DEF In
  <2>3. \A e : ~DrainIn(e, <<>>)
    BY DEF DrainIn
  <2>4. Fewer(stack', stack)
    BY <1>1, <2>1, RestFewer, PlainBasics
  <2> QED BY <1>2, <1>5, <2>1, <2>2, <2>3, <2>4
<1> QED BY <1>4, <1>5

LEMMA MovesCalls ==
    ASSUME TypeInv, stack # <<>>, IsSpawn(Head(stack)), NEW op \in SpawnOps, NEW A, Plain(A),
           stack' = A \o SpawnTop(stack, op, Head(stack).sub)
    PROVE  /\ \A d, x : In(stack', d, x) <=> In(stack, d, x)
           /\ \A c : DrainIn(c, stack) => DrainIn(c, stack')
<1> DEFINE f == SpawnCall(op, Head(stack).sub)
           B == <<f>> \o Rest
<1>1. stack \in Seq(Frames) /\ Shape(Rest) /\ Bears(Rest) /\ Head(stack).sub \in Sub /\ Rest \in Seq(Frames)
  BY RestShape, SpawnFrames DEF TypeInv, Shape, Rest
<1>2. f \in Frames /\ IsSpawn(f) /\ f.sub = Head(stack).sub
  BY <1>1, SpawnFrames
<1> HIDE DEF f
<1>3. /\ B \in Seq(Frames) /\ B # <<>> /\ Head(B) = f /\ Tail(B) = Rest /\ Len(B) = Len(Rest) + 1
  BY <1>1, <1>2
<1>4. Len(Rest) = Len(stack) - 1 /\ Len(stack) \in Nat /\ Len(Rest) \in Nat
  BY <1>1, TailCalls DEF Rest
<1>5. stack' = A \o B
  BY DEF SpawnTop, f, Rest
<1> HIDE DEF B
<1>12. B \in Seq(Frames)
  BY <1>3
<1>13. /\ \A d, x : In(A \o B, d, x) <=> In(B, d, x)
       /\ \A c : DrainIn(c, A \o B) <=> DrainIn(c, A) \/ DrainIn(c, B)
  BY <1>12, PlainCalls
<1>6. \A d, x : In(stack', d, x) <=> In(B, d, x)
  BY <1>5, <1>13
<1>7. \A d, x : In(B, d, x) <=> In(Rest, d, x) \/ (d = Len(Rest) /\ x = f.sub)
  BY <1>2, <1>3, <1>4, TailCalls
<1>8. \A d, x : In(stack, d, x) <=> In(Rest, d, x) \/ (d = Len(Rest) /\ x = Head(stack).sub)
  BY <1>1, <1>4, TailCalls DEF Rest
<1>9. \A c : DrainIn(c, stack) => DrainIn(c, Rest)
  BY <1>1, TailCalls DEF Rest, IsSpawn, SpawnOps
<1>10. \A c : DrainIn(c, Rest) => DrainIn(c, B)
  BY <1>3, TailCalls
<1>11. \A c : DrainIn(c, B) => DrainIn(c, stack')
  BY <1>5, <1>13
<1> QED BY <1>2, <1>6, <1>7, <1>8, <1>9, <1>10, <1>11

-----------------------------------------------------------------------------
(* A slot that is free while a request waits: a drain will be back, or the *)
(* spawn at the bottom, which has closed a monitor for it, takes the slot. *)
BottomClaims(c) ==
    /\ \E x \in Sub : In(stack, 0, x) /\ OwnerOf[x] = c
    /\ ~(Top("admit") /\ Len(stack) = 1)
SlotOf(c) ==
    queue[c] # <<>> /\ ~Marked("refused", c) =>
        AtBudget(c) \/ DrainIn(c, stack) \/ (Occupied(c) + 1 >= Budget /\ BottomClaims(c))
SlotInv == \A c \in Conv : SlotOf(c)

LEMMA SlotsKept ==
    ASSUME NEW c, \A x \in Sub : OwnerOf[x] = c /\ Active(x) => Active(x)'
    PROVE  /\ Occupied(c) <= Occupied(c)'
           /\ (\E p \in Sub : OwnerOf[p] = c /\ ~Active(p) /\ Active(p)') => Occupied(c) < Occupied(c)'
<1>1. ActiveOf(c) \in SUBSET ActiveOf(c)'
  BY DEF ActiveOf
<1>2. Occupied(c) <= Occupied(c)' /\ (Occupied(c)' = Occupied(c) => ActiveOf(c) = ActiveOf(c)')
  BY <1>1, FiniteCounts, FS_Subset
<1>3. (\E p \in Sub : OwnerOf[p] = c /\ ~Active(p) /\ Active(p)') => ActiveOf(c) # ActiveOf(c)'
  BY DEF ActiveOf
<1> QED BY <1>2, <1>3, FiniteCounts

LEMMA OneSlotLess ==
    ASSUME NEW c, NEW r, \A x \in Sub : x # r /\ OwnerOf[x] = c /\ Active(x) => Active(x)'
    PROVE  Occupied(c) <= Occupied(c)' + 1
<1>1. ActiveOf(c) \in SUBSET (ActiveOf(c)' \cup {r})
  BY DEF ActiveOf
<1>2. IsFiniteSet(ActiveOf(c)' \cup {r}) /\ Cardinality(ActiveOf(c)' \cup {r}) <= Occupied(c)' + 1
  BY FiniteCounts, OneMore
<1>3. Cardinality(ActiveOf(c)) <= Cardinality(ActiveOf(c)' \cup {r})
  BY <1>1, <1>2, FS_Subset
<1>4. Cardinality(ActiveOf(c)' \cup {r}) \in Nat
  BY <1>2, FS_CardinalityType
<1> QED BY <1>2, <1>3, <1>4, FiniteCounts

LEMMA SlotStays ==
    ASSUME NEW c, SlotOf(c), queue'[c] = queue[c] \/ queue'[c] = <<>>,
           \A x \in Sub : OwnerOf[x] = c /\ Active(x) => Active(x)', upsets \subseteq upsets',
           DrainIn(c, stack) => DrainIn(c, stack'), BottomClaims(c) => BottomClaims(c)'
    PROVE  SlotOf(c)'
<1>1. Occupied(c) <= Occupied(c)' /\ Occupied(c) \in Nat /\ Occupied(c)' \in Nat
  BY SlotsKept, FiniteCounts
<1>2. AtBudget(c) => AtBudget(c)'
  BY <1>1, AdmissionConstants DEF AtBudget
<1>3. Occupied(c) + 1 >= Budget => Occupied(c)' + 1 >= Budget
  BY <1>1, AdmissionConstants
<1>4. Marked("refused", c) => Marked("refused", c)'
  BY DEF Marked
<1> QED BY <1>2, <1>3, <1>4 DEF SlotOf

(* The claims of the other conversations, and of none at the bottom.       *)
LEMMA ClaimsStay ==
    ASSUME NEW c, \A x : In(stack, 0, x) /\ OwnerOf[x] = c => In(stack', 0, x), ~Top("admit")'
    PROVE  BottomClaims(c) => BottomClaims(c)'
  BY DEF BottomClaims

Placed == PlaceInv /\ NewInv /\ AdmitInv /\ SlotInv

LEMMA NotAdmitting ==
    ASSUME Bears(stack') PROVE ~Top("admit")'
<1> SUFFICES ASSUME stack' # <<>>, Head(stack').op = "admit" PROVE FALSE
  BY DEF Top
<1> QED BY DEF Bears, IsSpawn, SpawnOps

(* Steps that call or end what is no spawn and no drain.                   *)
LEMMA CallsPlaced ==
    ASSUME TypeInv, Placed, UNCHANGED <<status, queue>>, upsets \subseteq upsets', ~Top("admit")',
           \A d, x : In(stack', d, x) <=> In(stack, d, x),
           \A c \in Conv : SlotOf(c) /\ DrainIn(c, stack) => DrainIn(c, stack') \/ AtBudget(c) \/ queue[c] = <<>>
    PROVE  Placed'
<1>1. RecordsMove
  BY DEF RecordsMove
<1>2. PlaceInv' /\ NewInv' /\ AdmitInv'
  BY <1>1, RecordsMovePlaces DEF Placed
<1>3. ASSUME NEW c \in Conv PROVE SlotOf(c)'
  <2>1. SlotOf(c)
    BY DEF Placed, SlotInv
  <2>2. BottomClaims(c) => BottomClaims(c)'
    BY ClaimsStay
  <2>3. Occupied(c)' = Occupied(c)
    BY DEF Occupied, Active
  <2>4. AtBudget(c)' = AtBudget(c)
    BY <2>3 DEF AtBudget
  <2> QED BY <2>1, <2>2, <2>3, <2>4 DEF SlotOf, Marked
<1> QED BY <1>2, <1>3 DEF Placed, SlotInv

(* Closes on top of what keeps the calls in progress.                      *)
LEMMA ClosePlaced ==
    ASSUME TypeInv, Placed, NEW r \in Sub, Active(r), NEW why \in Whys, NEW B \in Seq(Frames),
           Close(r, why, B), UNCHANGED <<settings, upsets>>, ~Top("admit")',
           \A d, x : In(B, d, x) <=> In(stack, d, x),
           \A c : DrainIn(c, stack) => DrainIn(c, B),
           why = "slot_reclaimed" => SlotOf(OwnerOf[r])'
    PROVE  Placed'
<1>1. RecordsMove
  BY CloseMoves
<1>2. /\ \A d, x : In(stack', d, x) <=> In(B, d, x)
      /\ \A c : DrainIn(c, B) => DrainIn(c, stack')
      /\ \/ why = "slot_reclaimed"
         \/ queue'[OwnerOf[r]] = <<>>
         \/ DrainIn(OwnerOf[r], stack')
      /\ \A c \in Conv : c # OwnerOf[r] => queue'[c] = queue[c]
      /\ \A x \in Sub : x # r => (Active(x)' <=> Active(x))
  BY CloseDrains
<1>3. PlaceInv' /\ NewInv' /\ AdmitInv'
  BY <1>1, <1>2, RecordsMovePlaces DEF Placed
<1>4. ASSUME NEW c \in Conv PROVE SlotOf(c)'
  <2>1. CASE c = OwnerOf[r]
    BY <1>2, <2>1 DEF SlotOf
  <2>2. CASE c # OwnerOf[r]
    <3>1. SlotOf(c)
      BY DEF Placed, SlotInv
    <3>2. BottomClaims(c) => BottomClaims(c)'
      BY <1>2, ClaimsStay
    <3>3. \A x \in Sub : OwnerOf[x] = c /\ Active(x) => Active(x)'
      BY <1>2, <2>2
    <3>4. DrainIn(c, stack) => DrainIn(c, stack')
      BY <1>2
    <3>5. queue'[c] = queue[c] /\ upsets \subseteq upsets'
      BY <1>2, <2>2
    <3> QED BY <3>1, <3>2, <3>3, <3>4, <3>5, SlotStays
  <2> QED BY <2>1, <2>2
<1> QED BY <1>3, <1>4 DEF Placed, SlotInv

LEMMA EndsCallPlaced ==
    ASSUME TypeInv, Placed, stack # <<>>, Shape(stack), ~IsSpawn(Head(stack)), NEW A, Plain(A),
           stack' = A \o Rest, UNCHANGED <<status, queue, upsets>>,
           \A c \in Conv : SlotOf(c) /\ Head(stack).op = "drain" /\ Head(stack).conv = c =>
                               AtBudget(c) \/ queue[c] = <<>>
    PROVE  Placed'
<1>1. stack \in Seq(Frames) /\ Rest \in Seq(Frames)
  BY RestShape DEF Shape, Rest
<1>2. /\ \A d, x : In(stack, d, x) <=> In(Rest, d, x)
      /\ \A c : DrainIn(c, stack) <=> DrainIn(c, Rest) \/ (Head(stack).op = "drain" /\ Head(stack).conv = c)
  BY <1>1, TailCalls DEF Rest
<1>3. /\ \A d, x : In(stack', d, x) <=> In(Rest, d, x)
      /\ \A c : DrainIn(c, Rest) => DrainIn(c, stack')
  <2>1. /\ \A d, x : In(A \o Rest, d, x) <=> In(Rest, d, x)
        /\ \A c : DrainIn(c, A \o Rest) <=> DrainIn(c, A) \/ DrainIn(c, Rest)
    BY <1>1, PlainCalls
  <2> QED BY <2>1
<1>4. Fewer(stack', stack)
  BY RestFewer DEF Rest
<1>5. ~Top("admit")'
  BY <1>4, NotAdmitting DEF Fewer
<1>6. \A d, x : In(stack', d, x) <=> In(stack, d, x)
  BY <1>2, <1>3
<1>7. \A c \in Conv : SlotOf(c) /\ DrainIn(c, stack) => DrainIn(c, stack') \/ AtBudget(c) \/ queue[c] = <<>>
  BY <1>2, <1>3
<1> QED BY <1>5, <1>6, <1>7, CallsPlaced

LEMMA StartDependentsPlaced ==
    ASSUME TypeInv, Placed, StartDependents PROVE Placed'
<1> DEFINE S == {d \in Sub : DependsOn[d] = Head(stack).ticket /\ status[d] \in Records}
           f == EachCall("waiting_for_prerequisite", S)
<1>1. stack # <<>> /\ Shape(stack) /\ Head(stack).op = "dependents" /\ ~IsSpawn(Head(stack))
  BY DEF StartDependents, Top, TypeInv, IsSpawn, SpawnOps
<1>2. Plain(<<f>>)
  BY OtherFrames, PlainBasics DEF Reasons
<1>3. stack' = <<f>> \o Rest /\ UNCHANGED <<status, queue, upsets>>
  BY DEF StartDependents
<1> QED BY <1>1, <1>2, <1>3, EndsCallPlaced

LEMMA CloseEachPlaced ==
    ASSUME TypeInv, Placed, CloseEach PROVE Placed'
<1>0. PICK f : f = Head(stack)
  OBVIOUS
<1>1. stack # <<>> /\ Shape(stack) /\ f \in Frames /\ f.op = "each" /\ ~IsSpawn(f) /\ stack \in Seq(Frames)
  <2>1. stack # <<>> /\ Shape(stack) /\ f.op = "each" /\ ~IsSpawn(f) /\ stack \in Seq(Frames)
    BY <1>0 DEF CloseEach, Top, TypeInv, IsSpawn, SpawnOps, Shape
  <2> QED BY <1>0, <2>1, RestShape
<1>2. f.why \in Reasons /\ f.left \in SUBSET Sub
  BY <1>1, OtherFrames
<1>3. UNCHANGED <<settings, upsets>>
  BY DEF CloseEach
<1>4. CASE stack' = Rest /\ UNCHANGED <<status, queue>>
  <2>1. <<>> \o Rest = Rest /\ Plain(<<>>)
    <3>1. Rest \in Seq(Frames)
      BY <1>1, RestShape DEF Rest
    <3> QED BY <3>1, PlainBasics
  <2> QED BY <1>0, <1>1, <1>3, <1>4, <2>1, EndsCallPlaced
<1>5. ASSUME NEW d \in f.left, Closable(d, f.why), Close(d, f.why, <<EachCall(f.why, f.left \ {d})>> \o Rest)
      PROVE  Placed'
  <2> DEFINE g == EachCall(f.why, f.left \ {d})
             B == <<g>> \o Rest
  <2>1. d \in Sub /\ f.why \in Whys /\ Active(d) /\ f.why # "slot_reclaimed"
    BY <1>2, <1>5 DEF Reasons, Whys, Closable, Active
  <2>2. Plain(<<g>>)
    BY <1>2, OtherFrames, PlainBasics
  <2>3. Rest \in Seq(Frames) /\ B \in Seq(Frames)
    <3>1. Rest \in Seq(Frames)
      BY <1>1, RestShape DEF Rest
    <3>2. <<g>> \in Seq(Frames)
      BY <2>2 DEF Plain
    <3> HIDE DEF g
    <3> QED BY <3>1, <3>2
  <2>4. /\ \A e, x : In(stack, e, x) <=> In(Rest, e, x)
        /\ \A c : DrainIn(c, stack) <=> DrainIn(c, Rest)
    BY <1>0, <1>1, TailCalls DEF Rest
  <2> HIDE DEF g
  <2>5. /\ \A e, x : In(B, e, x) <=> In(Rest, e, x)
        /\ \A c : DrainIn(c, B) <=> DrainIn(c, <<g>>) \/ DrainIn(c, Rest)
    BY <2>2, <2>3, PlainCalls
  <2> HIDE DEF B
  <2>6. Close(d, f.why, B)
    BY <1>5 DEF B, g
  <2>7. PICK A : Plain(A) /\ stack' = A \o B
    BY <2>1, <2>6, CloseDoes
  <2>8. ~Top("admit")'
    <3>1. stack' = (A \o <<g>>) \o Rest /\ Plain(A \o <<g>>)
      <4>1. A \in Seq(Frames) /\ <<g>> \in Seq(Frames)
        BY <2>2, <2>7 DEF Plain
      <4>2. A \o (<<g>> \o Rest) = (A \o <<g>>) \o Rest
        BY <2>3, <4>1
      <4> QED BY <4>2, <2>2, <2>7, PlainBasics DEF B
    <3>2. Fewer(stack', stack)
      BY <1>1, <3>1, RestFewer DEF Rest
    <3> QED BY <3>2, NotAdmitting DEF Fewer
  <2>9. /\ \A e, x : In(B, e, x) <=> In(stack, e, x)
        /\ \A c : DrainIn(c, stack) => DrainIn(c, B)
    BY <2>4, <2>5
  <2> QED BY <1>3, <2>1, <2>3, <2>6, <2>8, <2>9, ClosePlaced
<1> QED BY <1>0, <1>4, <1>5 DEF CloseEach

(* What is known of the request whose spawn is at the head.                *)
LEMMA HeadPlaced ==
    ASSUME TypeInv, Placed, NEW op \in SpawnOps, Top(op), NEW r, r = Head(stack).sub
    PROVE  /\ In(stack, Len(stack) - 1, r) /\ Len(stack) - 1 \in Nat
           /\ Drained <=> Len(stack) - 1 > 0
           /\ status[r] = IF Drained THEN "held" ELSE "asking"
           /\ \A d, x : In(stack, d, x) /\ d # Len(stack) - 1 => x # r /\ status[x] \in {"asking", "held"}
           /\ ~Drained => /\ \A d, x : In(stack, d, x) => d = 0 /\ x = r
                          /\ \A c : ~DrainIn(c, stack)
           /\ Drained => DrainIn(OwnerOf[r], stack)
<1>1. stack # <<>> /\ IsSpawn(Head(stack)) /\ r \in Sub /\ Shape(stack) /\ stack \in Seq(Frames)
  BY HeadSpawn
<1>2. Len(stack) - 1 \in Nat /\ (Drained <=> Len(stack) - 1 > 0)
  BY <1>1 DEF Drained
<1>3. /\ \A d, x : In(stack, d, x) <=> In(Rest, d, x) \/ (d = Len(stack) - 1 /\ x = r)
      /\ \A c : DrainIn(c, stack) <=> DrainIn(c, Rest)
      /\ Rest \in Seq(Frames)
  BY <1>1, TailCalls DEF Rest, IsSpawn, SpawnOps
<1>4. In(stack, Len(stack) - 1, r)
  BY <1>3
<1>5. status[r] = IF Drained THEN "held" ELSE "asking"
  BY <1>1, <1>2, <1>4 DEF Placed, PlaceInv, CallInv
<1>6. ASSUME NEW d, NEW x, In(stack, d, x), d # Len(stack) - 1
      PROVE  x # r /\ status[x] \in {"asking", "held"}
  <2>1. d \in Nat /\ x \in Sub
    BY <1>1, <1>6, InFacts
  <2> QED BY <1>1, <1>2, <1>4, <1>6, <2>1 DEF Placed, PlaceInv, CallInv
<1>7. ASSUME ~Drained
      PROVE  /\ \A d, x : In(stack, d, x) => d = 0 /\ x = r
             /\ \A c : ~DrainIn(c, stack)
  <2>1. Rest = <<>> /\ Len(stack) - 1 = 0
    <3>1. ~(Len(stack) > 1)
      BY <1>7 DEF Drained
    <3>2. Tail(stack) = <<>>
      BY <1>1, <3>1, RestShape
    <3>3. Len(Tail(stack)) = Len(stack) - 1
      BY <1>1, TailCalls
    <3>4. Len(Tail(stack)) = 0
      <4>1. Len(<<>>) = 0
        OBVIOUS
      <4> QED BY <3>2, <4>1, Zenon
    <3>5. Rest = <<>>
      BY <3>2 DEF Rest
    <3>6. Len(stack) - 1 = 0
      BY <3>3, <3>4
    <3> QED BY <3>5, <3>6
  <2>2. (\A d, x : ~In(Rest, d, x)) /\ (\A c : ~DrainIn(c, Rest))
    BY <2>1 DEF In, DrainIn
  <2> QED BY <1>3, <2>1, <2>2
<1>8. ASSUME Drained PROVE DrainIn(OwnerOf[r], stack)
  <2>1. Rest # <<>> /\ Head(Rest) = DrainCall(OwnerOf[r], r) /\ OwnerOf[r] \in Conv
    BY <1>1, <1>8, RestShape, AdmissionConstants DEF Drained, Rest
  <2>2. Head(Rest).op = "drain" /\ Head(Rest).conv = OwnerOf[r]
    BY <1>1, <2>1, DrainFrames
  <2>3. DrainIn(OwnerOf[r], Rest)
    BY <1>3, <2>1, <2>2, TailCalls
  <2> QED BY <1>3, <2>3
<1> QED BY <1>2, <1>4, <1>5, <1>6, <1>7, <1>8

(* A spawn at the head goes on.                                            *)
LEMMA ProceedPlaced ==
    ASSUME TypeInv, Placed, NEW op0 \in SpawnOps, Top(op0), NEW op \in SpawnOps, op # "admit", Proceed(op)
    PROVE  Placed'
<1>0. PICK r : r = Head(stack).sub
  OBVIOUS
<1>1. stack # <<>> /\ IsSpawn(Head(stack)) /\ Shape(stack) /\ r \in Sub
  BY <1>0, HeadSpawn
<1>2. stack' = <<>> \o SpawnTop(stack, op, Head(stack).sub) /\ Plain(<<>>)
  <2>1. Tail(stack) \in Seq(Frames) /\ Head(stack).sub \in Sub
    BY <1>0, <1>1, RestShape
  <2>2. SpawnTop(stack, op, Head(stack).sub) \in Seq(Frames)
    BY <2>1, SpawnFrames DEF SpawnTop
  <2>3. stack' = SpawnTop(stack, op, Head(stack).sub)
    BY DEF Proceed, SpawnTop, Rest
  <2> HIDE DEF SpawnTop
  <2> QED BY <2>2, <2>3, PlainBasics
<1>3. /\ \A d, x : In(stack', d, x) <=> In(stack, d, x)
      /\ \A d : DrainIn(d, stack) => DrainIn(d, stack')
  BY <1>1, <1>2, MovesCalls
<1>4. ~Top("admit")'
  <2>1. LET f == Head(stack') IN f.op = op \/ ~IsSpawn(f)
    BY <1>1, <1>2, MovesDoes
  <2> QED BY <2>1 DEF Top, IsSpawn, SpawnOps
<1>5. UNCHANGED <<status, queue, upsets>>
  BY DEF Proceed
<1> QED BY <1>3, <1>4, <1>5, CallsPlaced

(* The spawn at the head ends and its request is not queued again.         *)
LEMMA NotLast ==
    ASSUME NEW n, n > 0 PROVE 0 # n
  OBVIOUS

LEMMA AtBottom ==
    ASSUME NEW n \in Nat, n - 1 \in Nat, ~(n - 1 > 0) PROVE n = 1
  OBVIOUS

LEMMA SpawnEndsPlaced ==
    ASSUME TypeInv, Placed, NEW op \in SpawnOps, Top(op), NEW r, r = Head(stack).sub,
           NEW c, c = OwnerOf[r], NEW st \in {"deduped", "running", "refused"},
           status' = [status EXCEPT ![r] = st], queue' = queue, upsets \subseteq upsets',
           \/ stack' = IF Drained THEN Tail(Rest) ELSE <<>>
           \/ stack' = IF Drained THEN <<DrainCall(Head(Rest).conv, NoSub)>> \o Tail(Rest) ELSE <<>>,
           SlotOf(c)'
    PROVE  Placed'
<1>1. stack # <<>> /\ IsSpawn(Head(stack)) /\ r \in Sub /\ stack \in Seq(Frames)
  BY HeadSpawn
<1>2. /\ \A d, x : In(stack', d, x) <=> In(stack, d, x) /\ d # Len(stack) - 1
      /\ \A e : e # c /\ DrainIn(e, stack) => DrainIn(e, stack')
      /\ Fewer(stack', stack)
  BY <1>1, SpawnLeaves
<1>3. /\ In(stack, Len(stack) - 1, r) /\ Len(stack) - 1 \in Nat
      /\ Drained <=> Len(stack) - 1 > 0
      /\ status[r] \in {"held", "asking"}
      /\ \A d, x : In(stack, d, x) /\ d # Len(stack) - 1 => x # r /\ status[x] \in {"asking", "held"}
      /\ ~Drained => \A d, x : In(stack, d, x) => d = 0 /\ x = r
  BY HeadPlaced
<1>4. status'[r] = st /\ \A x \in Sub : x # r => status'[x] = status[x]
  BY <1>1 DEF TypeInv
<1>5. PlaceInv'
  <2>1. \A d \in Nat, x \in Sub : In(stack', d, x) => In(stack, d, x) /\ status'[x] = status[x]
    BY <1>2, <1>3, <1>4
  <2>2. ASSUME NEW x \in Sub, status'[x] = "asking"
        PROVE  status[x] = "asking" /\ (In(stack, 0, x) => In(stack', 0, x))
    <3>1. x # r /\ status[x] = "asking"
      BY <1>4, <2>2
    <3>2. In(stack, 0, x) => Drained
      BY <1>3, <3>1
    <3>3. Drained => 0 # Len(stack) - 1
      BY <1>3, NotLast
    <3> QED BY <1>2, <3>1, <3>2, <3>3
  <2>3. \A x \in Sub : status'[x] = "queued" <=>
                          status[x] = "queued" /\ queue'[OwnerOf[x]] = queue[OwnerOf[x]]
    BY <1>3, <1>4
  <2>4. \A d \in Conv : queue'[d] = queue[d] \/ queue'[d] = <<>>
    OBVIOUS
  <2> QED BY <2>1, <2>2, <2>3, <2>4, PlaceStays DEF Placed
<1>6. NewInv'
  BY <1>3, <1>4, NewStays DEF Placed
<1>7. ~Top("admit")'
  BY <1>2, NotAdmitting DEF Fewer
<1>8. ASSUME NEW e \in Conv, e # c PROVE SlotOf(e)'
  <2>1. SlotOf(e)
    BY DEF Placed, SlotInv
  <2>2. \A x \in Sub : OwnerOf[x] = e /\ Active(x) => Active(x)'
    BY <1>4, <1>8 DEF Active
  <2>3. \A x : In(stack, 0, x) /\ OwnerOf[x] = e => In(stack', 0, x)
    <3> SUFFICES ASSUME NEW x, In(stack, 0, x), OwnerOf[x] = e PROVE 0 # Len(stack) - 1
      BY <1>2
    <3>1. Drained
      BY <1>3, <1>8
    <3>2. Len(stack) - 1 > 0
      BY <1>3, <3>1
    <3> QED BY <3>2, NotLast
  <2>4. BottomClaims(e) => BottomClaims(e)'
    BY <1>7, <2>3, ClaimsStay
  <2> QED BY <1>2, <1>8, <2>1, <2>2, <2>4, SlotStays
<1> QED BY <1>5, <1>6, <1>7, <1>8 DEF Placed, SlotInv, AdmitInv

LEMMA PrependFacts ==
    ASSUME NEW S, NEW s \in Seq(S), NEW x \in S, NEW t, t = <<x>> \o s
    PROVE  /\ Len(s) \in Nat /\ Len(t) = Len(s) + 1
           /\ \A i \in 1..Len(t) : /\ i = 1 => t[i] = x
                                 /\ i > 1 => i - 1 \in 1..Len(s) /\ t[i] = s[i - 1]
           /\ \A i \in 1..Len(s) : i + 1 \in 1..Len(t) /\ t[i + 1] = s[i]
           /\ 1 \in 1..Len(t) /\ t[1] = x
<1>1. Len(s) \in Nat /\ Len(t) = Len(s) + 1 /\ t[1] = x
  OBVIOUS
<1>2. \A i \in 1..Len(s) : t[i + 1] = s[i]
  OBVIOUS
<1>3. \A i \in 1..Len(t) : i > 1 => i - 1 \in 1..Len(s) /\ t[i] = s[i - 1]
  OBVIOUS
<1> QED BY <1>1, <1>2, <1>3

(* The request goes back in front of its queue.                            *)
LEMMA PutBackPlaced ==
    ASSUME TypeInv, Placed, NEW op \in SpawnOps, Top(op), NEW r, r = Head(stack).sub,
           NEW c, c = OwnerOf[r], Drained, status' = [status EXCEPT ![r] = "queued"],
           queue' = [queue EXCEPT ![c] = <<r>> \o @], stack' = Tail(Rest),
           upsets' = upsets \cup {<<"refused", c>>}
    PROVE  Placed'
<1> USE AdmissionConstants
<1>1. stack # <<>> /\ IsSpawn(Head(stack)) /\ r \in Sub /\ stack \in Seq(Frames) /\ c \in Conv
  BY HeadSpawn
<1>2. /\ \A d, x : In(stack', d, x) <=> In(stack, d, x) /\ d # Len(stack) - 1
      /\ \A e : e # c /\ DrainIn(e, stack) => DrainIn(e, stack')
      /\ Fewer(stack', stack)
  <2>1. stack' = IF Drained THEN Tail(Rest) ELSE <<>>
    OBVIOUS
  <2> QED BY <1>1, <2>1, SpawnLeaves
<1>3. /\ In(stack, Len(stack) - 1, r) /\ Len(stack) - 1 \in Nat /\ Len(stack) - 1 > 0
      /\ status[r] = "held"
      /\ \A d, x : In(stack, d, x) /\ d # Len(stack) - 1 => x # r /\ status[x] \in {"asking", "held"}
  BY HeadPlaced
<1>4. status'[r] = "queued" /\ \A x \in Sub : x # r => status'[x] = status[x]
  BY <1>1 DEF TypeInv
<1>5. queue[c] \in Seq(Sub) /\ queue' \in [Conv -> Seq(Sub)]
      /\ queue'[c] = <<r>> \o queue[c] /\ \A e \in Conv : e # c => queue'[e] = queue[e]
  <2>1. queue[c] \in Seq(Sub) /\ queue \in [Conv -> Seq(Sub)]
    BY <1>1 DEF TypeInv, QueuesFit
  <2>2. <<r>> \o queue[c] \in Seq(Sub)
    BY <1>1, <2>1
  <2> QED BY <1>1, <2>1, <2>2
<1>16. /\ Len(queue[c]) \in Nat /\ Len(queue'[c]) \in Nat /\ Len(queue'[c]) = Len(queue[c]) + 1
  <2> DEFINE q == queue[c]
             t == queue'[c]
  <2>1. q \in Seq(Sub) /\ r \in Sub /\ t = <<r>> \o q
    BY <1>1, <1>5
  <2> HIDE DEF q, t
  <2>2. Len(q) \in Nat /\ Len(t) = Len(q) + 1
    BY <2>1, PrependFacts
  <2>3. Len(t) \in Nat
    BY <2>2
  <2> QED BY <2>2, <2>3 DEF q, t
<1>6. /\ \A i \in 1..Len(queue'[c]) : /\ i = 1 => queue'[c][i] = r
                                     /\ i > 1 => i - 1 \in 1..Len(queue[c]) /\ queue'[c][i] = queue[c][i - 1]
      /\ \A i \in 1..Len(queue[c]) : i + 1 \in 1..Len(queue'[c]) /\ queue'[c][i + 1] = queue[c][i]
      /\ 1 \in 1..Len(queue'[c]) /\ queue'[c][1] = r
  <2> DEFINE q == queue[c]
             t == queue'[c]
  <2>1. q \in Seq(Sub) /\ t = <<r>> \o q
    BY <1>5
  <2> HIDE DEF q, t
  <2>2. /\ \A i \in 1..Len(t) : /\ i = 1 => t[i] = r
                               /\ i > 1 => i - 1 \in 1..Len(q) /\ t[i] = q[i - 1]
        /\ \A i \in 1..Len(q) : i + 1 \in 1..Len(t) /\ t[i + 1] = q[i]
        /\ 1 \in 1..Len(t) /\ t[1] = r
    BY <1>1, <2>1, PrependFacts
  <2> QED BY <2>2 DEF q, t
<1>7. \A i \in 1..Len(queue[c]) : r < queue[c][i]
  BY <1>1, <1>3 DEF Placed, PlaceInv, AheadInv
<1>8. \A e \in Conv : \A i \in 1..Len(queue[e]) : queue[e][i] \in Sub /\ OwnerOf[queue[e][i]] = e
  BY DEF TypeInv, QueuesFit
<1>9. CallInv'
  <2>1. \A d \in Nat, x \in Sub : In(stack', d, x) => In(stack, d, x) /\ status'[x] = status[x]
    BY <1>2, <1>3, <1>4
  <2>2. \A x \in Sub : status'[x] = "asking" => In(stack', 0, x)
    <3> SUFFICES ASSUME NEW x \in Sub, status'[x] = "asking" PROVE In(stack', 0, x)
      OBVIOUS
    <3>1. status[x] = "asking"
      BY <1>4
    <3>2. In(stack, 0, x)
      BY <3>1 DEF Placed, PlaceInv, CallInv
    <3> QED BY <1>2, <1>3, <3>2
  <2> QED BY <2>1, <2>2 DEF Placed, PlaceInv, CallInv
<1>10. LineInv'
  <2>1. ASSUME NEW e \in Conv, NEW i \in 1..Len(queue'[e]), NEW j \in 1..Len(queue'[e]), i < j
        PROVE  queue'[e][i] < queue'[e][j]
    <3>1. CASE e = c
      <4>0. i \in 1..Len(queue'[c]) /\ j \in 1..Len(queue'[c]) /\ i < j
        BY <2>1, <3>1
      <4>5. j > 1
        BY <1>16, <4>0
      <4>1. j > 1 /\ j - 1 \in 1..Len(queue[c]) /\ queue'[c][j] = queue[c][j - 1]
        BY <1>6, <4>0, <4>5
      <4>2. CASE i = 1
        <5>1. queue'[c][i] = r
          BY <1>6, <4>0, <4>2
        <5>2. r < queue[c][j - 1]
          BY <1>7, <4>1
        <5> QED BY <3>1, <4>1, <5>1, <5>2
      <4>3. CASE i > 1
        <5>1. i - 1 \in 1..Len(queue[c]) /\ queue'[c][i] = queue[c][i - 1]
          BY <1>6, <4>0, <4>3
        <5>2. i - 1 < j - 1
          BY <1>16, <4>0
        <5>3. queue[c][i - 1] < queue[c][j - 1]
          BY <1>1, <4>1, <5>1, <5>2 DEF Placed, PlaceInv, LineInv
        <5> QED BY <3>1, <4>1, <5>1, <5>3
      <4>4. i = 1 \/ i > 1
        BY <1>16, <4>0
      <4> QED BY <4>2, <4>3, <4>4
    <3>2. CASE e # c
      BY <1>5, <2>1, <3>2 DEF Placed, PlaceInv, LineInv
    <3> QED BY <3>1, <3>2
  <2>2. ASSUME NEW e \in Conv, NEW i \in 1..Len(queue'[e]) PROVE status'[queue'[e][i]] = "queued"
    <3>1. \A k \in 1..Len(queue[e]) : status[queue[e][k]] = "queued" /\ queue[e][k] # r
      BY <1>3 DEF Placed, PlaceInv, LineInv
    <3>2. \A k \in 1..Len(queue[e]) : status'[queue[e][k]] = "queued"
      BY <1>4, <1>8, <3>1
    <3>3. CASE e = c
      <4>1. i \in 1..Len(queue'[c])
        BY <2>2, <3>3
      <4>2. CASE i = 1
        BY <1>4, <1>6, <3>3, <4>1, <4>2
      <4>3. CASE i > 1
        <5>1. i - 1 \in 1..Len(queue[c]) /\ queue'[c][i] = queue[c][i - 1]
          BY <1>6, <4>1, <4>3
        <5>2. status'[queue[c][i - 1]] = "queued"
          BY <3>2, <3>3, <5>1
        <5> QED BY <3>3, <5>1, <5>2
      <4>4. i = 1 \/ i > 1
        BY <1>16, <4>1
      <4> QED BY <4>2, <4>3, <4>4
    <3>4. CASE e # c
      BY <1>5, <2>2, <3>2, <3>4
    <3> QED BY <3>3, <3>4
  <2>3. ASSUME NEW x \in Sub, status'[x] = "queued"
        PROVE  \E i \in 1..Len(queue'[OwnerOf[x]]) : queue'[OwnerOf[x]][i] = x
    <3>1. CASE x = r
      BY <1>6, <3>1
    <3>2. CASE x # r
      <4>1. PICK i \in 1..Len(queue[OwnerOf[x]]) : queue[OwnerOf[x]][i] = x
        BY <1>4, <2>3, <3>2 DEF Placed, PlaceInv, LineInv
      <4>2. CASE OwnerOf[x] = c
        <5>1. i \in 1..Len(queue[c]) /\ queue[c][i] = x
          BY <4>1, <4>2
        <5>2. i + 1 \in 1..Len(queue'[c]) /\ queue'[c][i + 1] = x
          BY <1>6, <5>1
        <5> QED BY <4>2, <5>2
      <4>3. CASE OwnerOf[x] # c
        BY <1>5, <4>1, <4>3
      <4> QED BY <4>2, <4>3
    <3> QED BY <3>1, <3>2
  <2> QED BY <2>1, <2>2, <2>3 DEF LineInv
<1>11. AheadInv'
  <2> SUFFICES ASSUME NEW d \in Nat, NEW x \in Sub, In(stack', d, x), d > 0,
                      NEW i \in 1..Len(queue'[OwnerOf[x]])
               PROVE  x < queue'[OwnerOf[x]][i]
    BY DEF AheadInv
  <2>1. In(stack, d, x) /\ d # Len(stack) - 1
    BY <1>2
  <2>2. \A k \in 1..Len(queue[OwnerOf[x]]) : x < queue[OwnerOf[x]][k]
    BY <2>1 DEF Placed, PlaceInv, AheadInv
  <2>3. CASE OwnerOf[x] = c
    <3>1. d < Len(stack) - 1
      <4>1. d < Len(stack)
        BY <1>1, <2>1, InFacts
      <4> QED BY <1>1, <2>1, <4>1
    <3>2. x < r
      <4>1. \A k, e \in Nat, a, b \in Sub : In(stack, k, a) /\ In(stack, e, b) /\ k # e =>
               (k > e /\ e > 0 /\ OwnerOf[a] = OwnerOf[b] => b < a)
        BY DEF Placed, PlaceInv, CallInv
      <4>2. PICK n \in Nat : n = Len(stack) - 1
        BY <1>3
      <4>3. In(stack, n, r) /\ In(stack, d, x) /\ r \in Sub /\ OwnerOf[r] = OwnerOf[x]
        BY <1>1, <1>3, <2>1, <2>3, <4>2
      <4>4. n > d /\ n # d
        BY <3>1, <4>2
      <4> QED BY <4>1, <4>3, <4>4
    <3>3. i \in 1..Len(queue'[c])
      BY <2>3
    <3>4. CASE i = 1
      <4>1. queue'[c][i] = r
        BY <1>6, <3>4
      <4> QED BY <2>3, <3>2, <4>1
    <3>5. CASE i > 1
      <4>1. i - 1 \in 1..Len(queue[c]) /\ queue'[c][i] = queue[c][i - 1]
        BY <1>6, <3>3, <3>5
      <4> QED BY <2>2, <2>3, <4>1
    <3>6. i = 1 \/ i > 1
      BY <1>16, <3>3
    <3> QED BY <3>4, <3>5, <3>6
  <2>4. CASE OwnerOf[x] # c
    BY <1>5, <2>2, <2>4
  <2> QED BY <2>3, <2>4
<1>12. NewInv'
  BY <1>3, <1>4, NewStays DEF Placed
<1>13. ~Top("admit")'
  BY <1>2, NotAdmitting DEF Fewer
<1>14. ASSUME NEW e \in Conv, e # c PROVE SlotOf(e)'
  <2>1. SlotOf(e)
    BY DEF Placed, SlotInv
  <2>2. \A x \in Sub : OwnerOf[x] = e /\ Active(x) => Active(x)'
    BY <1>4, <1>14 DEF Active
  <2>3. BottomClaims(e) => BottomClaims(e)'
    BY <1>2, <1>3, <1>13, ClaimsStay
  <2> QED BY <1>2, <1>5, <1>14, <2>1, <2>2, <2>3, SlotStays
<1>15. SlotOf(c)'
  BY DEF SlotOf, Marked
<1> QED BY <1>9, <1>10, <1>11, <1>12, <1>13, <1>14, <1>15 DEF Placed, PlaceInv, SlotInv, AdmitInv

LEMMA SlotsSame ==
    ASSUME NEW c, \A x \in Sub : Active(x)' <=> Active(x)
    PROVE  Occupied(c)' = Occupied(c) /\ (AtBudget(c)' <=> AtBudget(c))
<1>1. {x \in Sub : OwnerOf[x] = c /\ Active(x)}' = {x \in Sub : OwnerOf[x] = c /\ Active(x)}
  OBVIOUS
<1>2. Occupied(c)' = Occupied(c)
  BY <1>1 DEF Occupied
<1> QED BY <1>2 DEF AtBudget

LEMMA AppendFacts ==
    ASSUME NEW S, NEW s \in Seq(S), NEW x \in S, NEW t, t = Append(s, x)
    PROVE  /\ Len(s) \in Nat /\ Len(t) = Len(s) + 1
           /\ \A i \in 1..Len(s) : i \in 1..Len(t) /\ t[i] = s[i] /\ s[i] \in S
           /\ Len(s) + 1 \in 1..Len(t) /\ t[Len(s) + 1] = x
<1>1. Len(s) \in Nat /\ Len(t) = Len(s) + 1
  OBVIOUS
<1>2. \A i \in 1..Len(s) : t[i] = s[i] /\ s[i] \in S
  OBVIOUS
<1>3. t[Len(s) + 1] = x
  OBVIOUS
<1> QED BY <1>1, <1>2, <1>3

(* A spawn that finds its budget full was asked for from outside, so its   *)
(* request is newer than all that is queued.                               *)
LEMMA QueuedPlaced ==
    ASSUME TypeInv, Placed, Top("admit"), NEW r, r = Head(stack).sub, NEW c, c = OwnerOf[r], AtBudget(c),
           queue' = [queue EXCEPT ![c] = Append(@, r)], status' = [status EXCEPT ![r] = "queued"],
           stack' = IF Drained THEN Tail(Rest) ELSE <<>>, UNCHANGED upsets
    PROVE  Placed'
<1> USE AdmissionConstants
<1>0. "admit" \in SpawnOps
  BY DEF SpawnOps
<1>1. stack # <<>> /\ IsSpawn(Head(stack)) /\ r \in Sub /\ stack \in Seq(Frames) /\ c \in Conv
  BY <1>0, HeadSpawn
<1>2. ~Drained /\ stack' = <<>>
  <2>1. ~Drained
    BY DEF Placed, AdmitInv, Drained
  <2> QED BY <2>1
<1>3. /\ In(stack, Len(stack) - 1, r) /\ status[r] = "asking"
      /\ \A d, x : In(stack, d, x) => d = 0 /\ x = r
      /\ \A e : ~DrainIn(e, stack)
  BY <1>0, <1>2, HeadPlaced
<1>4. status'[r] = "queued" /\ \A x \in Sub : x # r => status'[x] = status[x]
  BY <1>1 DEF TypeInv
<1>5. queue[c] \in Seq(Sub) /\ queue'[c] = Append(queue[c], r) /\ \A e \in Conv : e # c => queue'[e] = queue[e]
  BY <1>1 DEF TypeInv, QueuesFit
<1>6. /\ Len(queue[c]) \in Nat /\ Len(queue'[c]) = Len(queue[c]) + 1
      /\ \A i \in 1..Len(queue[c]) : i \in 1..Len(queue'[c]) /\ queue'[c][i] = queue[c][i] /\ queue[c][i] \in Sub
      /\ Len(queue[c]) + 1 \in 1..Len(queue'[c]) /\ queue'[c][Len(queue[c]) + 1] = r
  <2> DEFINE q == queue[c]
             t == queue'[c]
  <2>1. q \in Seq(Sub) /\ t = Append(q, r)
    BY <1>5
  <2> HIDE DEF q, t
  <2>2. /\ Len(q) \in Nat /\ Len(t) = Len(q) + 1
        /\ \A i \in 1..Len(q) : i \in 1..Len(t) /\ t[i] = q[i] /\ q[i] \in Sub
        /\ Len(q) + 1 \in 1..Len(t) /\ t[Len(q) + 1] = r
    BY <1>1, <2>1, AppendFacts
  <2> QED BY <2>2 DEF q, t
<1>7. \A i \in 1..Len(queue'[c]) : i = Len(queue[c]) + 1 \/ i \in 1..Len(queue[c])
  <2>1. Len(queue[c]) \in Nat /\ Len(queue'[c]) = Len(queue[c]) + 1
    BY <1>6
  <2> QED BY <2>1
<1>8. \A e \in Conv : \A i \in 1..Len(queue[e]) :
          queue[e][i] \in Sub /\ OwnerOf[queue[e][i]] = e /\ status[queue[e][i]] = "queued"
  BY DEF TypeInv, QueuesFit, Placed, PlaceInv, LineInv
<1>9. ASSUME NEW i \in 1..Len(queue[c]) PROVE queue[c][i] < r
  <2> DEFINE y == queue[c][i]
  <2>1. y \in Sub /\ OwnerOf[y] = c /\ status[y] = "queued"
    BY <1>1, <1>8
  <2> HIDE DEF y
  <2>2. y # r /\ ~(r < y)
    BY <1>1, <1>3, <2>1 DEF Placed, NewInv
  <2>3. y \in Int /\ r \in Int
    BY <1>1, <2>1 DEF Sub
  <2>4. y < r
    BY <2>2, <2>3
  <2> QED BY <2>4 DEF y
<1>10. \A d, x : ~In(stack', d, x)
  BY <1>2 DEF In
<1>11. CallInv' /\ AheadInv'
  BY <1>1, <1>3, <1>4, <1>10 DEF Placed, PlaceInv, CallInv, AheadInv
<1>12. LineInv'
  <2>1. ASSUME NEW e \in Conv, NEW i \in 1..Len(queue'[e]), NEW j \in 1..Len(queue'[e]), i < j
        PROVE  queue'[e][i] < queue'[e][j]
    <3>1. CASE e = c
      <4>0. i \in 1..Len(queue'[c]) /\ j \in 1..Len(queue'[c])
        BY <3>1
      <4>1. i \in 1..Len(queue[c]) /\ queue'[c][i] = queue[c][i]
        <5>1. i # Len(queue[c]) + 1
          <6>1. Len(queue[c]) \in Nat /\ Len(queue'[c]) = Len(queue[c]) + 1
            BY <1>6
          <6> QED BY <2>1, <4>0, <6>1
        <5>2. i \in 1..Len(queue[c])
          BY <1>7, <4>0, <5>1
        <5> QED BY <1>6, <5>2
      <4>2. CASE j = Len(queue[c]) + 1
        <5>1. queue'[c][j] = r
          BY <1>6, <4>2
        <5> QED BY <1>9, <3>1, <4>1, <5>1
      <4>3. CASE j \in 1..Len(queue[c])
        <5>1. queue'[c][j] = queue[c][j]
          BY <1>6, <4>3
        <5>2. queue[c][i] < queue[c][j]
          BY <1>1, <2>1, <4>1, <4>3 DEF Placed, PlaceInv, LineInv
        <5> QED BY <3>1, <4>1, <5>1, <5>2
      <4> QED BY <1>7, <4>0, <4>2, <4>3
    <3>2. CASE e # c
      BY <1>5, <2>1, <3>2 DEF Placed, PlaceInv, LineInv
    <3> QED BY <3>1, <3>2
  <2>2. ASSUME NEW e \in Conv, NEW i \in 1..Len(queue'[e]) PROVE status'[queue'[e][i]] = "queued"
    <3>1. \A k \in 1..Len(queue[e]) : status'[queue[e][k]] = "queued"
      BY <1>4, <1>8
    <3>2. CASE e = c
      <4>1. CASE i = Len(queue[c]) + 1
        BY <1>4, <1>6, <3>2, <4>1
      <4>2. CASE i \in 1..Len(queue[c])
        <5>1. queue'[c][i] = queue[c][i]
          BY <1>6, <4>2
        <5> QED BY <3>1, <3>2, <4>2, <5>1
      <4> QED BY <1>7, <2>2, <3>2, <4>1, <4>2
    <3>3. CASE e # c
      BY <1>5, <2>2, <3>1, <3>3
    <3> QED BY <3>2, <3>3
  <2>3. ASSUME NEW x \in Sub, status'[x] = "queued"
        PROVE  \E i \in 1..Len(queue'[OwnerOf[x]]) : queue'[OwnerOf[x]][i] = x
    <3>1. CASE x = r
      BY <1>6, <3>1
    <3>2. CASE x # r
      <4>1. PICK i \in 1..Len(queue[OwnerOf[x]]) : queue[OwnerOf[x]][i] = x
        BY <1>4, <2>3, <3>2 DEF Placed, PlaceInv, LineInv
      <4>2. CASE OwnerOf[x] = c
        BY <1>6, <4>1, <4>2
      <4>3. CASE OwnerOf[x] # c
        BY <1>5, <4>1, <4>3
      <4> QED BY <4>2, <4>3
    <3> QED BY <3>1, <3>2
  <2> QED BY <2>1, <2>2, <2>3 DEF LineInv
<1>13. NewInv'
  BY <1>3, <1>4, NewStays DEF Placed
<1>14. AdmitInv'
  BY <1>2 DEF AdmitInv, Top
<1>15. ASSUME NEW e \in Conv PROVE SlotOf(e)'
  <2>1. \A x \in Sub : Active(x)' <=> Active(x)
    BY <1>3, <1>4 DEF Active
  <2>2. AtBudget(e)' <=> AtBudget(e)
    BY <2>1, SlotsSame
  <2>3. CASE e = c
    BY <2>2, <2>3 DEF SlotOf
  <2>4. CASE e # c
    <3>1. SlotOf(e) /\ ~DrainIn(e, stack) /\ ~BottomClaims(e)
      BY <1>3, <2>4 DEF Placed, SlotInv, BottomClaims
    <3>2. queue'[e] = queue[e]
      BY <1>5, <2>4
    <3> QED BY <2>2, <3>1, <3>2 DEF SlotOf, Marked
  <2> QED BY <2>3, <2>4
<1> QED BY <1>11, <1>12, <1>13, <1>14, <1>15 DEF Placed, PlaceInv, SlotInv

LEMMA ReturnsPlaced ==
    ASSUME TypeInv, Placed, NEW op \in SpawnOps, Top(op), NEW st \in {"deduped", "running"}, Returns(st),
           NEW c, c = OwnerOf[Head(stack).sub], upsets \subseteq upsets', ~Drained => SlotOf(c)'
    PROVE  Placed'
<1>0. PICK r : r = Head(stack).sub
  OBVIOUS
<1>1. stack # <<>> /\ IsSpawn(Head(stack))
  BY HeadSpawn
<1>2. /\ status' = [status EXCEPT ![r] = st] /\ queue' = queue
      /\ stack' = IF Drained THEN <<DrainCall(Head(Rest).conv, NoSub)>> \o Tail(Rest) ELSE <<>>
  BY <1>0 DEF Returns
<1>3. SlotOf(c)'
  <2>1. ASSUME Drained PROVE DrainIn(c, stack')
    BY <1>1, <1>2, <2>1, SpawnLeaves
  <2> QED BY <2>1 DEF SlotOf
<1> QED BY <1>0, <1>2, <1>3, SpawnEndsPlaced

LEMMA RaisesPlaced ==
    ASSUME TypeInv, Placed, NEW op \in SpawnOps, Top(op), Raises PROVE Placed'
<1>0. PICK r, c : r = Head(stack).sub /\ c = OwnerOf[r]
  OBVIOUS
<1>1. /\ status' = [status EXCEPT ![r] = IF Drained THEN "queued" ELSE "refused"]
      /\ queue' = IF Drained THEN [queue EXCEPT ![c] = <<r>> \o @] ELSE queue
      /\ stack' = IF Drained THEN Tail(Rest) ELSE <<>>
      /\ upsets' = upsets \cup {<<"refused", c>>}
  BY <1>0 DEF Raises, RaisesTo
<1>2. CASE Drained
  BY <1>0, <1>1, <1>2, PutBackPlaced
<1>3. CASE ~Drained
  <2>1. status' = [status EXCEPT ![r] = "refused"] /\ queue' = queue /\ upsets \subseteq upsets'
    BY <1>1, <1>3
  <2>2. SlotOf(c)'
    BY <1>1 DEF SlotOf, Marked
  <2> QED BY <1>0, <1>1, <2>1, <2>2, SpawnEndsPlaced
<1> QED BY <1>2, <1>3

(* A spawn at the head goes on above the close of a record.                *)
LEMMA MakesRoomPlaced ==
    ASSUME TypeInv, Placed, NEW op0 \in SpawnOps, Top(op0), NEW op \in {"capacity", "recheck"},
           NEW p \in Sub, Active(p), NEW why \in Whys, Close(p, why, SpawnTop(stack, op, Head(stack).sub)),
           UNCHANGED <<settings, upsets>>,
           why = "slot_reclaimed" =>
               ~Drained /\ AtBudget(OwnerOf[p]) /\ OwnerOf[p] = OwnerOf[Head(stack).sub]
    PROVE  Placed'
<1>0. PICK r : r = Head(stack).sub
  OBVIOUS
<1> DEFINE B == SpawnTop(stack, op, r)
<1>1. stack # <<>> /\ IsSpawn(Head(stack)) /\ Shape(stack) /\ r \in Sub
  BY <1>0, HeadSpawn
<1>2. op \in SpawnOps
  BY DEF SpawnOps
<1>3. B \in Seq(Frames) /\ <<>> \o B = B /\ Plain(<<>>)
  <2>1. Tail(stack) \in Seq(Frames)
    BY <1>1, RestShape
  <2>2. B \in Seq(Frames)
    BY <1>1, <1>2, <2>1, SpawnFrames DEF SpawnTop
  <2> HIDE DEF B
  <2> QED BY <2>2, PlainBasics
<1>4. Close(p, why, B)
  BY <1>0
<1> HIDE DEF B
<1>5. PICK A : Plain(A) /\ stack' = A \o B
  BY <1>4, CloseDoes
<1>6. /\ \A d, x : In(stack', d, x) <=> In(stack, d, x)
      /\ \A c : DrainIn(c, stack) => DrainIn(c, stack')
  BY <1>0, <1>1, <1>2, <1>5, MovesCalls DEF B
<1>7. /\ \A d, x : In(stack', d, x) <=> In(B, d, x)
  BY <1>3, <1>4, CloseDrains
<1>8. ~Top("admit")'
  <2>1. LET f == Head(A \o B) IN f.op = op \/ ~IsSpawn(f)
    BY <1>0, <1>1, <1>2, <1>5, MovesDoes DEF B
  <2> QED BY <1>5, <2>1 DEF Top, IsSpawn, SpawnOps
<1>9. \A x \in Sub : x # p => (Active(x)' <=> Active(x))
  BY <1>3, <1>4, CloseDrains
<1>10. \A c : DrainIn(c, stack) => DrainIn(c, B)
  <2> SUFFICES ASSUME NEW c, DrainIn(c, stack) PROVE DrainIn(c, B)
    OBVIOUS
  <2>1. DrainIn(c, Rest)
    BY <1>1, TailCalls DEF Rest, IsSpawn, SpawnOps, Shape
  <2>2. /\ B # <<>> /\ Tail(B) = Rest
    <3>1. Tail(stack) \in Seq(Frames) /\ SpawnCall(op, r) \in Frames
      BY <1>1, <1>2, RestShape, SpawnFrames
    <3> QED BY <3>1 DEF B, SpawnTop, Rest
  <2> QED BY <1>3, <2>1, <2>2, TailCalls
<1>11. ASSUME why = "slot_reclaimed" PROVE SlotOf(OwnerOf[p])'
  <2>0. PICK c : c = OwnerOf[p]
    OBVIOUS
  <2>1. ~Drained /\ AtBudget(c) /\ c = OwnerOf[r]
    BY <1>0, <1>11, <2>0
  <2>2. Occupied(c) <= Occupied(c)' + 1
    BY <1>9, OneSlotLess
  <2>3. Occupied(c)' + 1 >= Budget
    BY <2>1, <2>2, FiniteCounts, AdmissionConstants DEF AtBudget
  <2>4. In(stack', 0, r)
    <3>1. In(stack, Len(stack) - 1, r) /\ \A d, x : In(stack, d, x) => d = 0 /\ x = r
      BY <1>0, <2>1, HeadPlaced
    <3> QED BY <1>6, <3>1
  <2>5. BottomClaims(c)'
    BY <1>1, <1>8, <2>1, <2>4 DEF BottomClaims
  <2>6. SlotOf(c)'
    BY <2>3, <2>5 DEF SlotOf
  <2> QED BY <2>0, <2>6
<1>12. \A d, x : In(B, d, x) <=> In(stack, d, x)
  BY <1>6, <1>7
<1> QED BY <1>3, <1>4, <1>8, <1>10, <1>11, <1>12, ClosePlaced

LEMMA AdmitPlaced ==
    ASSUME TypeInv, Placed, Admit PROVE Placed'
<1>0. PICK r, c : r = Head(stack).sub /\ c = OwnerOf[r]
  OBVIOUS
<1>1. "admit" \in SpawnOps /\ "capacity" \in SpawnOps /\ Top("admit") /\ settings' = settings
  BY DEF SpawnOps, Admit
<1>2. CASE Returns("deduped") /\ UNCHANGED upsets
  <2>1. ASSUME ~Drained PROVE SlotOf(c)'
    <3>1. c \in Conv /\ ~DrainIn(c, stack) /\ status[r] = "asking" /\ r \in Sub /\ stack # <<>>
      BY <1>0, <1>1, <2>1, HeadSpawn, HeadPlaced
    <3>2. SlotOf(c) /\ ~BottomClaims(c)
      <4>1. Len(stack) = 1
        <5>1. Len(stack) - 1 \in Nat /\ ~(Len(stack) - 1 > 0)
          BY <1>1, <2>1, HeadPlaced
        <5>2. Len(stack) \in Nat
          BY <1>1, HeadSpawn
        <5> QED BY <5>1, <5>2, AtBottom
      <4> QED BY <1>1, <3>1, <4>1 DEF Placed, SlotInv, BottomClaims
    <3>3. \A x \in Sub : Active(x)' <=> Active(x)
      <4>1. status' = [status EXCEPT ![r] = "deduped"]
        BY <1>0, <1>2 DEF Returns
      <4> QED BY <3>1, <4>1 DEF Active, TypeInv
    <3>4. AtBudget(c)' <=> AtBudget(c)
      BY <3>3, SlotsSame
    <3> QED BY <1>2, <3>1, <3>2, <3>4 DEF SlotOf, Marked, Returns
  <2> QED BY <1>0, <1>1, <1>2, <2>1, ReturnsPlaced
<1>3. CASE Proceed("capacity")
  BY <1>1, <1>3, ProceedPlaced
<1>4. ASSUME NEW p \in PausedOf(c), AtBudget(c),
             Close(p, "slot_reclaimed", <<SpawnCall("capacity", r)>> \o Rest), UNCHANGED upsets
      PROVE  Placed'
  <2>1. p \in Sub /\ OwnerOf[p] = c /\ Active(p) /\ "slot_reclaimed" \in Whys
    BY DEF PausedOf, Active, Whys
  <2>2. Close(p, "slot_reclaimed", SpawnTop(stack, "capacity", Head(stack).sub))
    BY <1>0, <1>4 DEF SpawnTop, Rest
  <2>3. ~Drained
    BY <1>0, <1>1, <1>4 DEF Placed, AdmitInv, Drained
  <2> QED BY <1>0, <1>1, <1>4, <2>1, <2>2, <2>3, MakesRoomPlaced
<1>5. CASE Raises
  BY <1>1, <1>5, RaisesPlaced
<1>6. CASE /\ AtBudget(c)
           /\ queue' = [queue EXCEPT ![c] = Append(@, r)]
           /\ status' = [status EXCEPT ![r] = "queued"]
           /\ stack' = IF Drained THEN Tail(Rest) ELSE <<>>
           /\ UNCHANGED upsets
  BY <1>0, <1>1, <1>6, QueuedPlaced
<1> QED BY <1>0, <1>2, <1>3, <1>4, <1>5, <1>6 DEF Admit

LEMMA CheckCapacityPlaced ==
    ASSUME TypeInv, Placed, CheckCapacity PROVE Placed'
<1>0. PICK r, c : r = Head(stack).sub /\ c = OwnerOf[r]
  OBVIOUS
<1>1. {"capacity", "create"} \subseteq SpawnOps /\ Top("capacity") /\ settings' = settings
  BY DEF SpawnOps, CheckCapacity
<1>2. CASE Raises
  BY <1>1, <1>2, RaisesPlaced
<1>3. CASE Proceed("create")
  BY <1>1, <1>3, ProceedPlaced
<1>4. ASSUME NEW x \in Sub, Active(x), Close(x, "stale_reclaimed", <<SpawnCall("recheck", r)>> \o Rest),
             UNCHANGED upsets
      PROVE  Placed'
  <2>1. "stale_reclaimed" \in Whys
    BY DEF Whys
  <2>2. Close(x, "stale_reclaimed", SpawnTop(stack, "recheck", Head(stack).sub))
    BY <1>0, <1>4 DEF SpawnTop, Rest
  <2> QED BY <1>1, <1>4, <2>1, <2>2, MakesRoomPlaced
<1> QED BY <1>0, <1>2, <1>3, <1>4 DEF CheckCapacity

LEMMA RecheckPlaced ==
    ASSUME TypeInv, Placed, Recheck PROVE Placed'
<1>1. {"recheck", "create"} \subseteq SpawnOps /\ Top("recheck")
  BY DEF SpawnOps, Recheck
<1>2. CASE Raises
  BY <1>1, <1>2, RaisesPlaced
<1>3. CASE Proceed("create")
  BY <1>1, <1>3, ProceedPlaced
<1> QED BY <1>2, <1>3 DEF Recheck

(* A spawn at the bottom that starts its record takes the slot it claims.  *)
LEMMA CreateRecordPlaced ==
    ASSUME TypeInv, Placed, CreateRecord PROVE Placed'
<1>0. PICK r, c : r = Head(stack).sub /\ c = OwnerOf[r]
  OBVIOUS
<1>1. "create" \in SpawnOps /\ Top("create")
  BY DEF SpawnOps, CreateRecord
<1>2. CASE Raises
  BY <1>1, <1>2, RaisesPlaced
<1>3. CASE Returns("deduped") /\ upsets' = upsets \cup {<<"refused", c>>}
  <2>1. SlotOf(c)'
    BY <1>3 DEF SlotOf, Marked
  <2> QED BY <1>0, <1>1, <1>3, <2>1, ReturnsPlaced
<1>4. CASE Returns("running") /\ UNCHANGED upsets
  <2>1. ASSUME ~Drained PROVE SlotOf(c)'
    <3>1. c \in Conv /\ ~DrainIn(c, stack) /\ status[r] = "asking" /\ r \in Sub
      BY <1>0, <1>1, <2>1, HeadSpawn, HeadPlaced
    <3>2. status' = [status EXCEPT ![r] = "running"]
      BY <1>0, <1>4 DEF Returns
    <3>3. /\ \A x \in Sub : OwnerOf[x] = c /\ Active(x) => Active(x)'
          /\ OwnerOf[r] = c /\ ~Active(r) /\ Active(r)'
      BY <1>0, <3>1, <3>2 DEF Active, TypeInv
    <3>4. Occupied(c) < Occupied(c)'
      BY <3>1, <3>3, SlotsKept
    <3>5. AtBudget(c) \/ Occupied(c) + 1 >= Budget => AtBudget(c)'
      BY <3>4, FiniteCounts, AdmissionConstants DEF AtBudget
    <3>6. SlotOf(c) /\ queue'[c] = queue[c]
      BY <1>4, <3>1 DEF Placed, SlotInv, Returns
    <3> QED BY <1>4, <3>1, <3>5, <3>6 DEF SlotOf, Marked
  <2> QED BY <1>0, <1>1, <1>4, <2>1, ReturnsPlaced
<1> QED BY <1>0, <1>2, <1>3, <1>4 DEF CreateRecord

-----------------------------------------------------------------------------
(* A drain takes the request at the head of the queue.                     *)
LEMMA TailFacts ==
    ASSUME NEW S, NEW s \in Seq(S), s # <<>>, NEW t, t = Tail(s)
    PROVE  /\ Head(s) = s[1] /\ Head(s) \in S /\ 1 \in 1..Len(s) /\ t \in Seq(S)
           /\ \A i \in 1..Len(t) : i + 1 \in 1..Len(s) /\ i + 1 > 1 /\ t[i] = s[i + 1]
           /\ \A i \in 1..Len(s) : i # 1 => i - 1 \in 1..Len(t) /\ t[i - 1] = s[i]
<1>1. Len(s) \in Nat /\ Len(s) > 0 /\ Len(t) = Len(s) - 1
  OBVIOUS
<1>2. Head(s) = s[1] /\ Head(s) \in S /\ t \in Seq(S)
  OBVIOUS
<1>3. \A i \in 1..Len(t) : t[i] = s[i + 1]
  OBVIOUS
<1>4. \A i \in 1..Len(s) : i # 1 => i - 1 \in 1..Len(t)
  BY <1>1
<1>5. \A i \in 1..Len(s) : i # 1 => t[i - 1] = s[i]
  BY <1>1, <1>3, <1>4
<1> QED BY <1>1, <1>2, <1>3, <1>4, <1>5

LEMMA TakenCalls ==
    ASSUME TypeInv, stack # <<>>, ~IsSpawn(Head(stack)), NEW c \in Conv, NEW r \in Sub,
           Head(stack).op = "drain" /\ Head(stack).conv = c,
           stack' = <<SpawnCall("admit", r), DrainCall(c, r)>> \o Rest
    PROVE  /\ \A d, x : In(stack', d, x) <=> In(stack, d, x) \/ (d = Len(stack) /\ x = r)
           /\ \A e : DrainIn(e, stack) => DrainIn(e, stack')
           /\ DrainIn(c, stack')
           /\ Len(stack) \in Nat /\ Len(stack) > 0 /\ Len(stack') = Len(stack) + 1
           /\ Head(stack').sub = r
<1> DEFINE f == SpawnCall("admit", r)
           g == DrainCall(c, r)
           B == <<g>> \o Rest
<1>1. /\ f \in Frames /\ IsSpawn(f) /\ f.op = "admit" /\ f.sub = r
      /\ g \in Frames /\ ~IsSpawn(g) /\ g.op = "drain" /\ g.conv = c
  BY SpawnFrames, DrainFrames DEF SpawnOps
<1>2. stack \in Seq(Frames) /\ Rest \in Seq(Frames) /\ Len(stack) \in Nat /\ Len(stack) > 0
      /\ Len(Rest) = Len(stack) - 1
  BY RestShape DEF TypeInv, Shape, Rest
<1> HIDE DEF f, g
<1>3. stack' = <<f>> \o B /\ B \in Seq(Frames)
  <2>1. <<f>> \in Seq(Frames) /\ <<g>> \in Seq(Frames)
    BY <1>1
  <2>2. <<f, g>> = <<f>> \o <<g>>
    BY <1>1, TwoCalls
  <2>3. (<<f>> \o <<g>>) \o Rest = <<f>> \o (<<g>> \o Rest)
    BY <1>2, <2>1
  <2>4. stack' = <<f, g>> \o Rest
    BY DEF f, g
  <2> QED BY <1>2, <2>1, <2>2, <2>3, <2>4
<1>4. B # <<>> /\ Head(B) = g /\ Tail(B) = Rest /\ Len(B) = Len(stack)
  BY <1>1, <1>2
<1> HIDE DEF B
<1>5. stack' \in Seq(Frames) /\ stack' # <<>> /\ Head(stack') = f /\ Tail(stack') = B
      /\ Len(stack') = Len(stack) + 1
  BY <1>1, <1>2, <1>3, <1>4
<1>6. /\ \A d, x : In(stack', d, x) <=> In(B, d, x) \/ (d = Len(stack') - 1 /\ x = r)
      /\ \A e : DrainIn(e, stack') <=> DrainIn(e, B)
  <2> PICK s : s = stack'
    OBVIOUS
  <2>1. s \in Seq(Frames) /\ s # <<>> /\ Head(s) = f /\ Tail(s) = B
    BY <1>5
  <2>2. f.op # "drain"
    BY <1>1
  <2>3. /\ \A d, x : In(s, d, x) <=> In(B, d, x) \/ (d = Len(s) - 1 /\ x = r)
        /\ \A e : DrainIn(e, s) <=> DrainIn(e, B)
    <3>1. /\ \A d, x : In(s, d, x) <=> In(Tail(s), d, x) \/ (IsSpawn(Head(s)) /\ d = Len(s) - 1 /\ x = Head(s).sub)
          /\ \A e : DrainIn(e, s) <=> DrainIn(e, Tail(s)) \/ (Head(s).op = "drain" /\ Head(s).conv = e)
      BY <2>1, TailCalls
    <3> QED BY <1>1, <2>1, <2>2, <3>1
  <2> QED BY <2>3
<1>7. /\ \A d, x : In(B, d, x) <=> In(Rest, d, x)
      /\ \A e : DrainIn(e, B) <=> DrainIn(e, Rest) \/ e = c
  <2>1. /\ \A d, x : In(B, d, x) <=> In(Tail(B), d, x) \/ (IsSpawn(Head(B)) /\ d = Len(B) - 1 /\ x = Head(B).sub)
        /\ \A e : DrainIn(e, B) <=> DrainIn(e, Tail(B)) \/ (Head(B).op = "drain" /\ Head(B).conv = e)
    BY <1>3, <1>4, TailCalls
  <2> QED BY <1>1, <1>4, <2>1
<1>8. /\ \A d, x : In(stack, d, x) <=> In(Rest, d, x)
      /\ \A e : DrainIn(e, stack) <=> DrainIn(e, Rest) \/ e = c
  BY <1>2, TailCalls DEF Rest
<1>9. Len(stack') - 1 = Len(stack)
  BY <1>2, <1>5
<1> QED BY <1>1, <1>2, <1>5, <1>6, <1>7, <1>8, <1>9

LEMMA TakenPlaced ==
    ASSUME TypeInv, Placed, stack # <<>>, ~IsSpawn(Head(stack)), NEW c \in Conv, NEW r, queue[c] # <<>>,
           Head(stack).op = "drain" /\ Head(stack).conv = c, ~AtBudget(c), r = Head(queue[c]),
           queue' = [queue EXCEPT ![c] = Tail(@)], status' = [status EXCEPT ![r] = "held"],
           stack' = <<SpawnCall("admit", r), DrainCall(c, r)>> \o Rest, upsets \subseteq upsets'
    PROVE  Placed'
<1> USE AdmissionConstants
<1> DEFINE q == queue[c]
           t == queue'[c]
<1>1. q \in Seq(Sub) /\ q # <<>> /\ t = Tail(q) /\ \A e \in Conv : e # c => queue'[e] = queue[e]
  BY DEF TypeInv, QueuesFit
<1> HIDE DEF q, t
<1>2. /\ r = q[1] /\ r \in Sub /\ 1 \in 1..Len(q) /\ t \in Seq(Sub)
      /\ \A i \in 1..Len(t) : i + 1 \in 1..Len(q) /\ i + 1 > 1 /\ t[i] = q[i + 1]
      /\ \A i \in 1..Len(q) : i # 1 => i - 1 \in 1..Len(t) /\ t[i - 1] = q[i]
  BY <1>1, TailFacts DEF q
<1>3. /\ OwnerOf[r] = c /\ status[r] = "queued"
      /\ \A i, j \in 1..Len(q) : i < j => q[i] < q[j]
      /\ \A i \in 1..Len(q) : status[q[i]] = "queued" /\ q[i] \in Sub /\ OwnerOf[q[i]] = c
  BY <1>2 DEF TypeInv, QueuesFit, Placed, PlaceInv, LineInv, q
<1>4. \A i \in 1..Len(t) : r < t[i] /\ r # t[i] /\ t[i] \in Sub
  <2> SUFFICES ASSUME NEW i \in 1..Len(t) PROVE r < t[i] /\ r # t[i] /\ t[i] \in Sub
    OBVIOUS
  <2>1. i + 1 \in 1..Len(q) /\ 1 < i + 1 /\ t[i] = q[i + 1] /\ 1 \in 1..Len(q) /\ r = q[1]
    BY <1>2
  <2>2. r < t[i] /\ t[i] \in Sub
    BY <1>3, <2>1
  <2>3. r \in Int /\ t[i] \in Int
    BY <1>2, <2>2 DEF Sub
  <2> QED BY <2>2, <2>3
<1>5. status'[r] = "held" /\ \A x \in Sub : x # r => status'[x] = status[x]
  BY <1>2 DEF TypeInv
<1>6. /\ \A d, x : In(stack', d, x) <=> In(stack, d, x) \/ (d = Len(stack) /\ x = r)
      /\ \A e : DrainIn(e, stack) => DrainIn(e, stack')
      /\ DrainIn(c, stack')
      /\ Len(stack) \in Nat /\ Len(stack) > 0 /\ Len(stack') = Len(stack) + 1
      /\ Head(stack').sub = r
  BY <1>2, TakenCalls
<1>7. \A d, x : In(stack, d, x) => d \in Nat /\ d < Len(stack) /\ x \in Sub /\ x # r
  <2>1. stack \in Seq(Frames)
    BY DEF TypeInv, Shape
  <2> SUFFICES ASSUME NEW d, NEW x, In(stack, d, x) PROVE d \in Nat /\ d < Len(stack) /\ x \in Sub /\ x # r
    OBVIOUS
  <2>2. d \in Nat /\ d < Len(stack) /\ x \in Sub
    BY <2>1, InFacts
  <2>3. status[x] # "queued"
    BY <2>2 DEF Placed, PlaceInv, CallInv
  <2> QED BY <1>3, <2>2, <2>3
<1>8. CallInv'
  <2>1. ASSUME NEW d \in Nat, NEW x \in Sub, In(stack', d, x)
        PROVE  status'[x] = IF d = 0 THEN "asking" ELSE "held"
    <3>1. CASE In(stack, d, x)
      BY <1>5, <1>7, <3>1 DEF Placed, PlaceInv, CallInv
    <3>2. CASE d = Len(stack) /\ x = r
      BY <1>5, <1>6, <3>2
    <3> QED BY <1>6, <2>1, <3>1, <3>2
  <2>2. ASSUME NEW d \in Nat, NEW e \in Nat, NEW x \in Sub, NEW y \in Sub,
               In(stack', d, x), In(stack', e, y), d # e
        PROVE  x # y /\ (d > e /\ e > 0 /\ OwnerOf[x] = OwnerOf[y] => y < x)
    <3>1. CASE In(stack, d, x) /\ In(stack, e, y)
      BY <2>2, <3>1 DEF Placed, PlaceInv, CallInv
    <3>2. CASE In(stack, d, x) /\ e = Len(stack) /\ y = r
      <4>1. d < e /\ x # r
        BY <1>7, <3>2
      <4>2. ~(d > e)
        BY <4>1
      <4> QED BY <3>2, <4>1, <4>2
    <3>3. CASE In(stack, e, y) /\ d = Len(stack) /\ x = r
      <4>1. x # y
        BY <1>7, <3>3
      <4>2. ASSUME e > 0, OwnerOf[y] = c PROVE y < r
        <5>1. \A i \in 1..Len(q) : y < q[i]
          BY <3>3, <4>2 DEF Placed, PlaceInv, AheadInv, q
        <5> QED BY <1>2, <5>1
      <4> QED BY <1>3, <3>3, <4>1, <4>2
    <3>4. /\ In(stack, d, x) \/ (d = Len(stack) /\ x = r)
          /\ In(stack, e, y) \/ (e = Len(stack) /\ y = r)
      BY <1>6, <2>2
    <3>5. ~(d = Len(stack) /\ e = Len(stack))
      BY <2>2
    <3> QED BY <3>1, <3>2, <3>3, <3>4, <3>5, Zenon
  <2>3. \A x \in Sub : status'[x] = "asking" => In(stack', 0, x)
    BY <1>5, <1>6 DEF Placed, PlaceInv, CallInv
  <2> QED BY <2>1, <2>2, <2>3 DEF CallInv
<1>9. LineInv'
  <2>1. ASSUME NEW e \in Conv
        PROVE  /\ \A i, j \in 1..Len(queue'[e]) : i < j => queue'[e][i] < queue'[e][j]
               /\ \A i \in 1..Len(queue'[e]) : status'[queue'[e][i]] = "queued"
    <3>1. CASE e = c
      <4>1. ASSUME NEW i \in 1..Len(t), NEW j \in 1..Len(t), i < j PROVE t[i] < t[j]
        BY <1>2, <1>3, <4>1
      <4>2. \A i \in 1..Len(t) : status'[t[i]] = "queued"
        <5> SUFFICES ASSUME NEW i \in 1..Len(t) PROVE status'[t[i]] = "queued"
          OBVIOUS
        <5>1. status[t[i]] = "queued"
          BY <1>2, <1>3
        <5> QED BY <1>4, <1>5, <5>1
      <4> QED BY <3>1, <4>1, <4>2 DEF t
    <3>2. CASE e # c
      <4>1. queue'[e] = queue[e]
        BY <1>1, <3>2
      <4>2. \A i \in 1..Len(queue[e]) :
                status[queue[e][i]] = "queued" /\ queue[e][i] \in Sub /\ queue[e][i] # r
        BY SMTT(30), ZenonT(60), <1>3, <3>2 DEF TypeInv, QueuesFit, Placed, PlaceInv, LineInv
      <4> QED BY <1>5, <4>1, <4>2 DEF Placed, PlaceInv, LineInv
    <3> QED BY <3>1, <3>2
  <2>2. ASSUME NEW x \in Sub, status'[x] = "queued"
        PROVE  \E i \in 1..Len(queue'[OwnerOf[x]]) : queue'[OwnerOf[x]][i] = x
    <3>1. x # r /\ status[x] = "queued"
      BY <1>5, <2>2
    <3>2. PICK i \in 1..Len(queue[OwnerOf[x]]) : queue[OwnerOf[x]][i] = x
      BY <3>1 DEF Placed, PlaceInv, LineInv
    <3>3. CASE OwnerOf[x] = c
      <4>1. i \in 1..Len(q) /\ q[i] = x /\ i # 1
        BY <1>2, <3>1, <3>2, <3>3 DEF q
      <4>2. i - 1 \in 1..Len(t) /\ t[i - 1] = x
        BY <1>2, <4>1
      <4> QED BY <3>3, <4>2 DEF t
    <3>4. CASE OwnerOf[x] # c
      BY <1>1, <3>2, <3>4
    <3> QED BY <3>3, <3>4
  <2> QED BY <2>1, <2>2 DEF LineInv
<1>10. AheadInv'
  <2> SUFFICES ASSUME NEW d \in Nat, NEW x \in Sub, In(stack', d, x), d > 0,
                      NEW i \in 1..Len(queue'[OwnerOf[x]])
               PROVE  x < queue'[OwnerOf[x]][i]
    BY DEF AheadInv
  <2>1. CASE In(stack, d, x) /\ OwnerOf[x] = c
    <3>1. \A k \in 1..Len(q) : x < q[k]
      BY <2>1 DEF Placed, PlaceInv, AheadInv, q
    <3>2. i \in 1..Len(t)
      BY <2>1 DEF t
    <3>3. x < t[i]
      BY <1>2, <3>1, <3>2
    <3> QED BY <2>1, <3>3 DEF t
  <2>2. CASE In(stack, d, x) /\ OwnerOf[x] # c
    BY <1>1, <2>2 DEF Placed, PlaceInv, AheadInv
  <2>3. CASE x = r
    BY <1>3, <1>4, <2>3 DEF t
  <2> QED BY <1>6, <2>1, <2>2, <2>3
<1>11. NewInv'
  BY <1>3, <1>5, NewStays DEF Placed
<1>12. \A e \in Conv : AtBudget(e)' <=> AtBudget(e)
  <2>1. \A x \in Sub : Active(x)' <=> Active(x)
    BY <1>3, <1>5 DEF Active
  <2> QED BY <2>1, SlotsSame
<1>13. AdmitInv'
  BY <1>3, <1>6, <1>12 DEF AdmitInv
<1>14. ASSUME NEW e \in Conv PROVE SlotOf(e)'
  <2>1. CASE e = c
    BY <1>6, <2>1 DEF SlotOf
  <2>2. CASE e # c
    <3>1. SlotOf(e) /\ queue'[e] = queue[e]
      BY <1>1, <2>2 DEF Placed, SlotInv
    <3>2. \A x \in Sub : OwnerOf[x] = e /\ Active(x) => Active(x)'
      BY <1>3, <1>5 DEF Active
    <3>3. Len(stack') # 1
      BY <1>6
    <3>4. BottomClaims(e) => BottomClaims(e)'
      BY <1>6, <3>3 DEF BottomClaims
    <3> QED BY <1>6, <3>1, <3>2, <3>4, SlotStays
  <2> QED BY <2>1, <2>2
<1> QED BY <1>8, <1>9, <1>10, <1>11, <1>13, <1>14 DEF Placed, PlaceInv, SlotInv

LEMMA DrainPlaced ==
    ASSUME TypeInv, Placed, Drain PROVE Placed'
<1>0. PICK c : c = Head(stack).conv
  OBVIOUS
<1>1. /\ stack # <<>> /\ Shape(stack) /\ Head(stack).op = "drain" /\ ~IsSpawn(Head(stack))
      /\ Rest \in Seq(Frames) /\ c \in Conv
  <2>1. stack # <<>> /\ Shape(stack) /\ Head(stack).op = "drain"
    BY DEF Drain, Top, TypeInv
  <2> QED BY <1>0, <2>1, RestShape, DrainFrames DEF IsSpawn, SpawnOps, Rest
<1>2. CASE (AtBudget(c) \/ queue[c] = <<>>) /\ stack' = Rest /\ UNCHANGED <<status, queue, upsets>>
  <2>1. Plain(<<>>) /\ <<>> \o Rest = Rest
    BY <1>1, PlainBasics
  <2> QED BY <1>0, <1>1, <1>2, <2>1, EndsCallPlaced
<1>3. ASSUME NEW r, r = Head(queue[c]), ~AtBudget(c), queue[c] # <<>>,
             queue' = [queue EXCEPT ![c] = Tail(@)],
             status' = [status EXCEPT ![r] = "held"],
             stack' = <<SpawnCall("admit", r), DrainCall(c, r)>> \o Rest,
             upsets' = IF SpawnsOf(c, Rest) # {} THEN upsets \cup {<<"nested", c>>} ELSE upsets
      PROVE  Placed'
  BY <1>0, <1>1, <1>3, TakenPlaced
<1> QED BY <1>0, <1>2, <1>3 DEF Drain

-----------------------------------------------------------------------------
(* Between calls: nothing is claimed and nobody drains.                    *)
LEMMA IdlePlaces ==
    ASSUME Placed, Idle
    PROVE  /\ \A d, x : ~In(stack, d, x)
           /\ \A c : ~DrainIn(c, stack)
           /\ \A x \in Sub : status[x] # "asking"
           /\ \A c \in Conv : queue[c] # <<>> /\ ~Marked("refused", c) => AtBudget(c)
<1>1. (\A d, x : ~In(stack, d, x)) /\ (\A c : ~DrainIn(c, stack))
  BY DEF Idle, In, DrainIn
<1>2. \A x \in Sub : status[x] # "asking"
  BY <1>1 DEF Placed, PlaceInv, CallInv
<1>3. \A c \in Conv : queue[c] # <<>> /\ ~Marked("refused", c) => AtBudget(c)
  BY <1>1 DEF Placed, SlotInv, SlotOf, BottomClaims
<1> QED BY <1>1, <1>2, <1>3

LEMMA AskPlaced ==
    ASSUME TypeInv, Placed, NEW r \in Sub, Ask(r) PROVE Placed'
<1> USE AdmissionConstants
<1>1. /\ Idle /\ status[r] = "new" /\ queue' = queue /\ upsets' = upsets
      /\ \A q \in 1..(r - 1) : OwnerOf[q] = OwnerOf[r] => status[q] # "new"
      /\ stack' = <<SpawnCall("admit", r)>>
  BY DEF Ask
<1>2. status'[r] = "asking" /\ \A x \in Sub : x # r => status'[x] = status[x]
  BY DEF Ask, TypeInv
<1>3. /\ \A d, x : ~In(stack, d, x)
      /\ \A c : ~DrainIn(c, stack)
      /\ \A x \in Sub : status[x] # "asking"
      /\ \A c \in Conv : queue[c] # <<>> /\ ~Marked("refused", c) => AtBudget(c)
  BY <1>1, IdlePlaces
<1> DEFINE f == SpawnCall("admit", r)
<1>4. f \in Frames /\ IsSpawn(f) /\ f.op = "admit" /\ f.sub = r
  BY SpawnFrames DEF SpawnOps
<1>5. stack' = <<f>>
  BY <1>1
<1> HIDE DEF f
<1>6. stack' \in Seq(Frames) /\ Len(stack') = 1 /\ stack'[1] = f
  BY <1>4, <1>5
<1>7. \A d, x : In(stack', d, x) <=> d = 0 /\ x = r
  BY <1>4, <1>6 DEF In
<1>8. CallInv'
  BY <1>2, <1>3, <1>7 DEF CallInv
<1>9. LineInv'
  <2>1. \A c \in Conv : \A i \in 1..Len(queue[c]) :
            status[queue[c][i]] = "queued" /\ queue[c][i] \in Sub /\ queue[c][i] # r
    BY <1>1 DEF TypeInv, QueuesFit, Placed, PlaceInv, LineInv
  <2> QED BY <1>1, <1>2, <2>1 DEF Placed, PlaceInv, LineInv
<1>10. AheadInv'
  <2>1. \A d \in Nat : \A x : ~(In(stack', d, x) /\ d > 0)
    BY <1>7
  <2> QED BY <2>1 DEF AheadInv
<1>11. NewInv'
  <2> SUFFICES ASSUME NEW x \in Sub, NEW y \in Sub, x < y, OwnerOf[x] = OwnerOf[y],
                      status'[x] \in {"new", "asking"}
               PROVE  status'[y] = "new"
    BY DEF NewInv
  <2>1. status[x] = "new"
    BY <1>1, <1>2, <1>3
  <2>2. status[y] = "new"
    BY <2>1 DEF Placed, NewInv
  <2>3. y # r
    <3> SUFFICES ASSUME y = r PROVE FALSE
      OBVIOUS
    <3>1. x \in 1..(r - 1)
      BY DEF Sub
    <3> QED BY <1>1, <2>1, <3>1
  <2> QED BY <1>2, <2>2, <2>3
<1>12. AdmitInv'
  BY <1>6 DEF AdmitInv
<1>13. ASSUME NEW c \in Conv PROVE SlotOf(c)'
  <2>1. \A x \in Sub : Active(x)' <=> Active(x)
    BY <1>1, <1>2 DEF Active
  <2>2. AtBudget(c)' <=> AtBudget(c)
    BY <2>1, SlotsSame
  <2> QED BY <1>1, <1>3, <2>2 DEF SlotOf, Marked
<1> QED BY <1>8, <1>9, <1>10, <1>11, <1>12, <1>13 DEF Placed, PlaceInv, SlotInv

(* A record is paused, resumed or reopened.                                *)
LEMMA RecordPlaced ==
    ASSUME TypeInv, Placed, Idle, NEW r \in Sub, status[r] \in Records, NEW st \in {"running", "paused"},
           status' = [status EXCEPT ![r] = st], UNCHANGED <<queue, stack>>, upsets \subseteq upsets'
    PROVE  Placed'
<1>1. status'[r] = st /\ \A x \in Sub : x # r => status'[x] = status[x]
  BY DEF TypeInv
<1>2. RecordsMove
  BY <1>1 DEF RecordsMove, Records
<1>3. ~Top("admit")'
  BY DEF Top, Idle
<1>4. \A d, x : In(stack', d, x) <=> In(stack, d, x)
  OBVIOUS
<1>5. PlaceInv' /\ NewInv' /\ AdmitInv'
  BY <1>2, <1>3, <1>4, RecordsMovePlaces DEF Placed
<1>6. ASSUME NEW c \in Conv PROVE SlotOf(c)'
  <2>1. \A x \in Sub : OwnerOf[x] = c /\ Active(x) => Active(x)'
    BY <1>1 DEF Active
  <2>2. BottomClaims(c) => BottomClaims(c)'
    BY <1>3, <1>4, ClaimsStay
  <2>3. SlotOf(c) /\ (DrainIn(c, stack) => DrainIn(c, stack'))
    BY DEF Placed, SlotInv
  <2> QED BY <2>1, <2>2, <2>3, SlotStays
<1> QED BY <1>5, <1>6 DEF Placed, SlotInv

LEMMA CloseOnePlaced ==
    ASSUME TypeInv, Placed, NEW r \in Sub, NEW why \in {"given_up", "resolved"}, CloseOne(r, why)
    PROVE  Placed'
<1>1. stack = <<>> /\ Active(r) /\ Close(r, why, <<>>) /\ UNCHANGED <<settings, upsets>>
  BY DEF CloseOne, Idle
<1>2. why \in Whys /\ why # "slot_reclaimed" /\ <<>> \in Seq(Frames)
  <2>1. why \in Whys /\ why # "slot_reclaimed"
    BY DEF Whys
  <2>2. <<>> \in Seq(Frames)
    BY PlainBasics DEF Plain
  <2> QED BY <2>1, <2>2
<1>3. ~Top("admit")'
  <2>1. PICK A : Plain(A) /\ stack' = A \o <<>>
    BY <1>1, <1>2, CloseDoes
  <2>2. A \o <<>> = A
    BY <2>1 DEF Plain
  <2>3. Bears(stack')
    BY <2>1, <2>2, PlainBasics
  <2> QED BY <2>3, NotAdmitting
<1> QED BY <1>1, <1>2, <1>3, ClosePlaced

(* A call that is no spawn begins.                                         *)
LEMMA CallPlaced ==
    ASSUME TypeInv, Placed, Idle, NEW f, Plain(<<f>>), stack' = <<f>>, UNCHANGED <<status, queue, upsets>>
    PROVE  Placed'
<1>1. (\A d, x : ~In(stack, d, x)) /\ (\A c : ~DrainIn(c, stack))
  BY IdlePlaces
<1>2. \A d, x : ~In(stack', d, x)
  BY DEF Plain, In
<1>3. Bears(stack')
  BY PlainBasics
<1>4. ~Top("admit")'
  BY <1>3, NotAdmitting
<1> QED BY <1>1, <1>2, <1>4, CallsPlaced

LEMMA PlacedInit ==
    ASSUME Init PROVE Placed
<1> USE AdmissionConstants
<1>1. /\ status = [x \in Sub |-> "new"] /\ queue = [c \in Conv |-> <<>>] /\ stack = <<>>
  BY DEF Init
<1>2. (\A d, x : ~In(stack, d, x)) /\ ~Top("admit")
  BY <1>1 DEF In, Top
<1>3. PlaceInv
  BY <1>1, <1>2 DEF PlaceInv, CallInv, LineInv, AheadInv
<1>4. NewInv /\ AdmitInv /\ SlotInv
  BY <1>1, <1>2 DEF NewInv, AdmitInv, SlotInv, SlotOf
<1> QED BY <1>3, <1>4 DEF Placed

LEMMA PlacedNext ==
    ASSUME Held, Placed, [Next]_vars PROVE Placed'
<1> USE DEF Held
<1>1. CASE UNCHANGED vars
  BY <1>1 DEF vars, Placed, PlaceInv, CallInv, LineInv, AheadInv, NewInv, AdmitInv, SlotInv, SlotOf,
              BottomClaims, Marked, AtBudget, Occupied, Active, Top
<1>2. CASE CallStep
  BY <1>2, StartDependentsPlaced, CloseEachPlaced, AdmitPlaced, CheckCapacityPlaced, RecheckPlaced,
     CreateRecordPlaced, DrainPlaced DEF CallStep
<1>3. ASSUME NEW r \in Sub, Ask(r) PROVE Placed'
  BY <1>3, AskPlaced
<1>4. ASSUME NEW r \in Sub, MarkPaused(r) PROVE Placed'
  BY <1>4, RecordPlaced DEF MarkPaused, Records
<1>5. ASSUME NEW r \in Sub, Resume(r) PROVE Placed'
  BY <1>5, RecordPlaced DEF Resume, Records
<1>6. ASSUME NEW r \in Sub, Reopen(r) PROVE Placed'
  BY <1>6, RecordPlaced DEF Reopen, Records
<1>7. ASSUME NEW r \in Sub, NEW why \in {"given_up", "resolved"}, CloseOne(r, why) PROVE Placed'
  BY <1>7, CloseOnePlaced
<1>8. ASSUME NEW c \in Conv, TaskCloses(c) PROVE Placed'
  <2> DEFINE f == DrainCall(c, NoSub)
  <2>1. Plain(<<f>>)
    BY DrainFrames, PlainBasics
  <2>2. Idle /\ stack' = <<f>> /\ UNCHANGED <<status, queue, upsets>>
    BY <1>8 DEF TaskCloses
  <2> HIDE DEF f
  <2> QED BY <2>1, <2>2, CallPlaced
<1>9. ASSUME NEW c \in Conv, CloseAllForOwner(c) PROVE Placed'
  <2> DEFINE f == EachCall("session closed", {r \in Sub : OwnerOf[r] = c /\ status[r] \in Records})
  <2>1. Plain(<<f>>)
    BY OtherFrames, PlainBasics DEF Reasons
  <2>2. Idle /\ stack' = <<f>> /\ UNCHANGED <<status, queue, upsets>>
    BY <1>9 DEF CloseAllForOwner
  <2> HIDE DEF f
  <2> QED BY <2>1, <2>2, CallPlaced
<1>10. CASE Elsewhere
  BY <1>3, <1>4, <1>5, <1>6, <1>7, <1>8, <1>9, <1>10 DEF Elsewhere
<1> QED BY <1>1, <1>2, <1>10 DEF Next

(* Where every request is, and who has a claim on a free slot.             *)
THEOREM PlacesInvariant == Spec => [](Held /\ Placed)
<1>1. Init => Held /\ Placed
  BY HeldInit, PlacedInit
<1>2. Held /\ Placed /\ [Next]_vars => (Held /\ Placed)'
  BY HeldNext, PlacedNext
<1> QED BY <1>1, <1>2, PTL DEF Spec

(* Between calls no slot is free while a request of the conversation       *)
(* waits, unless a spawn of it was refused or deduplicated at the end.     *)
THEOREM SlotsAreTaken == Spec => []NoIdleSlot
<1>1. Held /\ Placed => NoIdleSlot
  BY IdlePlaces DEF NoIdleSlot, Marked
<1> QED BY <1>1, PlacesInvariant, PTL

(* Only create makes a monitor of a request that a drain holds.            *)
LEMMA OnlyCreateStarts ==
    ASSUME Held, Next, ~CreateRecord, NEW x \in Sub, status[x] = "held"
    PROVE  status'[x] # "running"
<1>1. TypeInv
  BY DEF Held
<1>2. ASSUME NEW p \in Sub, NEW why \in Whys, NEW B, Close(p, why, B) PROVE status'[x] # "running"
  BY <1>1, <1>2, CloseDoes
<1>3. CASE StartDependents
  BY <1>3 DEF StartDependents
<1>4. CASE CloseEach
  <2>1. PICK f : f = Head(stack)
    OBVIOUS
  <2>2. CASE status' = status
    BY <2>2
  <2>3. ASSUME NEW d \in f.left, Close(d, f.why, <<EachCall(f.why, f.left \ {d})>> \o Rest)
        PROVE  status'[x] # "running"
    <3>1. f \in Frames /\ f.op = "each"
      BY <1>1, <1>4, <2>1, RestShape DEF CloseEach, Top, TypeInv
    <3>2. d \in Sub /\ f.why \in Whys
      BY <3>1, OtherFrames DEF Reasons, Whys
    <3> QED BY <1>2, <2>3, <3>2
  <2> QED BY <1>4, <2>1, <2>2, <2>3 DEF CloseEach
<1>5. ASSUME NEW op, Proceed(op) PROVE status'[x] # "running"
  BY <1>5 DEF Proceed
<1>6. ASSUME Raises PROVE status'[x] # "running"
  BY <1>1, <1>6 DEF Raises, RaisesTo, TypeInv
<1>7. ASSUME NEW r, NEW st, st # "running", status' = [status EXCEPT ![r] = st]
      PROVE  status'[x] # "running"
  BY <1>1, <1>7 DEF TypeInv
<1>8. CASE Admit
  <2>1. PICK r, c : r = Head(stack).sub /\ c = OwnerOf[r]
    OBVIOUS
  <2>2. CASE Returns("deduped")
    BY <1>7, <2>2 DEF Returns
  <2>3. ASSUME NEW p \in PausedOf(c), Close(p, "slot_reclaimed", <<SpawnCall("capacity", r)>> \o Rest)
        PROVE  status'[x] # "running"
    BY <1>2, <2>3 DEF PausedOf, Whys
  <2>4. CASE status' = [status EXCEPT ![r] = "queued"]
    BY <1>7, <2>4
  <2> QED BY <1>5, <1>6, <1>8, <2>1, <2>2, <2>3, <2>4 DEF Admit
<1>9. CASE CheckCapacity
  <2>1. PICK r, c : r = Head(stack).sub /\ c = OwnerOf[r]
    OBVIOUS
  <2>2. ASSUME NEW y \in Sub, Close(y, "stale_reclaimed", <<SpawnCall("recheck", r)>> \o Rest)
        PROVE  status'[x] # "running"
    BY <1>2, <2>2 DEF Whys
  <2> QED BY <1>5, <1>6, <1>9, <2>1, <2>2 DEF CheckCapacity
<1>10. CASE Recheck
  BY <1>5, <1>6, <1>10 DEF Recheck
<1>11. CASE Drain
  BY <1>7, <1>11 DEF Drain
<1>12. CASE Elsewhere
  <2>1. ASSUME NEW r \in Sub, Ask(r) PROVE status'[x] # "running"
    BY <1>7, <2>1 DEF Ask
  <2>2. ASSUME NEW r \in Sub, MarkPaused(r) PROVE status'[x] # "running"
    BY <1>7, <2>2 DEF MarkPaused
  <2>3. ASSUME NEW r \in Sub, Resume(r) PROVE status'[x] # "running"
    BY <1>1, <2>3 DEF Resume, TypeInv
  <2>4. ASSUME NEW r \in Sub, Reopen(r) PROVE status'[x] # "running"
    BY <1>1, <2>4 DEF Reopen, TypeInv
  <2>5. ASSUME NEW r \in Sub, NEW why \in {"given_up", "resolved"}, CloseOne(r, why)
        PROVE  status'[x] # "running"
    BY <1>2, <2>5 DEF CloseOne, Whys
  <2>6. ASSUME NEW c, TaskCloses(c) \/ CloseAllForOwner(c) PROVE status'[x] # "running"
    BY <2>6 DEF TaskCloses, CloseAllForOwner
  <2> QED BY <1>12, <2>1, <2>2, <2>3, <2>4, <2>5, <2>6 DEF Elsewhere
<1> QED BY <1>3, <1>4, <1>8, <1>9, <1>10, <1>11, <1>12 DEF Next, CallStep

(* What a drain starts is older than everything of its conversation that   *)
(* stays queued, through drains inside drains and requests put back.       *)
THEOREM QueuesAreServedInOrder == Spec => ServedInOrder
<1> DEFINE Older == \A r, q \in Sub :
               /\ status[r] = "held" /\ status'[r] = "running"
               /\ status'[q] = "queued" /\ OwnerOf[q] = OwnerOf[r]
               => r < q
<1>1. ASSUME Held, Placed, [Next]_vars PROVE Older
  <2> SUFFICES ASSUME NEW r \in Sub, NEW q \in Sub, status[r] = "held", status'[r] = "running",
                      status'[q] = "queued", OwnerOf[q] = OwnerOf[r]
               PROVE  r < q
    BY DEF Older
  <2>1. TypeInv /\ Next
    BY <1>1 DEF Held, vars
  <2>2. CreateRecord
    BY <1>1, <2>1, OnlyCreateStarts
  <2>3. PICK h : h = Head(stack).sub
    OBVIOUS
  <2>4. "create" \in SpawnOps /\ Top("create")
    BY <2>2 DEF CreateRecord, SpawnOps
  <2>5. PICK st : st \in Statuses /\ status' = [status EXCEPT ![h] = st]
    BY <2>2, <2>3 DEF CreateRecord, Raises, RaisesTo, Returns, Statuses, Requests, Records
  <2>6. r = h
    BY <2>1, <2>5 DEF TypeInv
  <2>7. In(stack, Len(stack) - 1, r) /\ Len(stack) - 1 \in Nat /\ Len(stack) - 1 > 0
    BY <1>1, <2>1, <2>3, <2>4, <2>6, HeadPlaced
  <2>8. \A i \in 1..Len(queue[OwnerOf[r]]) : r < queue[OwnerOf[r]][i]
    BY <1>1, <2>7 DEF Placed, PlaceInv, AheadInv
  <2>9. status[q] = "queued"
    BY <2>1, <2>5, <2>6 DEF TypeInv
  <2>10. PICK i \in 1..Len(queue[OwnerOf[q]]) : queue[OwnerOf[q]][i] = q
    BY <1>1, <2>9 DEF Placed, PlaceInv, LineInv
  <2> QED BY <2>8, <2>10
<1>2. Spec => [][Older]_vars
  BY <1>1, PlacesInvariant, PTL DEF Spec
<1> QED BY <1>2 DEF ServedInOrder
-----------------------------------------------------------------------------
(* The calls end.  A request weighs what its admission may still set off,  *)
(* an active monitor what its close may, and a call in progress what is    *)
(* left of it; every step of a call takes more away than it adds.  A       *)
(* weight is counted in tokens, so that a total is a cardinality.          *)
StatusWeight(st) ==
    IF st \in {"asking", "queued"} THEN N + 13
    ELSE IF st \in {"held", "running", "paused"} THEN N + 8 ELSE 0
CallWeight(f) ==
    CASE f.op = "admit" -> 4
      [] f.op = "capacity" -> 3
      [] f.op = "recheck" -> 2
      [] f.op = "create" -> 1
      [] f.op = "drain" -> 5
      [] f.op = "dependents" -> N + 2
      [] f.op = "each" -> 1 + Cardinality(f.left)

Tokens(w) == {t \in (DOMAIN w) \X (1..(N + 13)) : t[2] <= w[t[1]]}
Total(w) == Cardinality(Tokens(w))
Without(w, x) == [y \in DOMAIN w \ {x} |-> w[y]]
Weighing(w) == IsFiniteSet(DOMAIN w) /\ w \in [DOMAIN w -> 0..(N + 13)]

RequestWeights(s) == [r \in Sub |-> StatusWeight(s[r])]
StackWeights(st) == [d \in 1..Len(st) |-> CallWeight(st[Len(st) + 1 - d])]
RequestWork(s) == Total(RequestWeights(s))
StackWork(st) == Total(StackWeights(st))
Work == RequestWork(status) + StackWork(stack)

LEMMA TotalFacts ==
    ASSUME NEW w, Weighing(w)
    PROVE  /\ IsFiniteSet(Tokens(w)) /\ Total(w) \in Nat
           /\ \A v : /\ Weighing(v) /\ DOMAIN v = DOMAIN w
                     /\ \A x \in DOMAIN w : v[x] <= w[x]
                     => Total(v) <= Total(w)
<1> USE AdmissionConstants
<1>1. ASSUME NEW v, Weighing(v) PROVE IsFiniteSet(Tokens(v)) /\ Total(v) \in Nat
  <2> DEFINE T == 1..(N + 13)
             P == (DOMAIN v) \X T
  <2>1. IsFiniteSet(T)
    BY FS_Interval
  <2> HIDE DEF T
  <2>2. IsFiniteSet(P)
    BY <1>1, <2>1, FS_Product DEF Weighing
  <2>3. Tokens(v) \in SUBSET P
    BY DEF Tokens, T
  <2> HIDE DEF P
  <2> QED BY <2>2, <2>3, FS_Subset, FS_CardinalityType DEF Total
<1>2. ASSUME NEW v, Weighing(v), DOMAIN v = DOMAIN w, \A x \in DOMAIN w : v[x] <= w[x]
      PROVE  Total(v) <= Total(w)
  <2>1. Tokens(v) \in SUBSET Tokens(w)
    <3> SUFFICES ASSUME NEW x \in DOMAIN w, NEW i \in 1..(N + 13), i <= v[x] PROVE i <= w[x]
      BY <1>2 DEF Tokens
    <3>1. v[x] \in Nat /\ w[x] \in Nat /\ i \in Nat
      BY <1>2 DEF Weighing
    <3> QED BY <1>2, <3>1
  <2> QED BY <1>1, <2>1, FS_Subset DEF Total
<1> QED BY <1>1, <1>2

(* A total without one weight.                                             *)
LEMMA TotalSplits ==
    ASSUME NEW w, Weighing(w), NEW x \in DOMAIN w
    PROVE  Weighing(Without(w, x)) /\ Total(w) = Total(Without(w, x)) + w[x]
<1> USE AdmissionConstants
<1> DEFINE v == Without(w, x)
           I == 1..w[x]
           O == {x} \X I
<1>1. w[x] \in Nat /\ w[x] <= N + 13
  BY DEF Weighing
<1>2. Weighing(v)
  <2>1. IsFiniteSet(DOMAIN w \ {x})
    BY FS_RemoveElement DEF Weighing
  <2> QED BY <2>1 DEF Weighing, Without
<1>3. IsFiniteSet(I) /\ Cardinality(I) = w[x]
  BY <1>1, FS_Interval
<1>4. IsFiniteSet(O) /\ Cardinality(O) = w[x]
  <2>1. IsFiniteSet({x}) /\ Cardinality({x}) = 1
    BY FS_Singleton
  <2> HIDE DEF I
  <2>2. IsFiniteSet(O) /\ Cardinality(O) = Cardinality({x}) * Cardinality(I)
    BY <1>3, <2>1, FS_Product
  <2> HIDE DEF O
  <2> QED BY <1>1, <1>3, <2>1, <2>2
<1>5. Tokens(w) = Tokens(v) \cup O
  <2>1. ASSUME NEW t, t \in Tokens(w) PROVE t \in Tokens(v) \cup O
    <3>1. PICK y \in DOMAIN w, i \in 1..(N + 13) : t = <<y, i>> /\ i <= w[y]
      BY <2>1 DEF Tokens, Without
    <3>2. y = x => i \in 1..w[x]
      BY <1>1, <3>1
    <3> QED BY <3>1, <3>2 DEF Tokens, Without
  <2>2. ASSUME NEW t, t \in Tokens(v) PROVE t \in Tokens(w)
    BY <2>2 DEF Tokens, Without
  <2>3. ASSUME NEW t, t \in O PROVE t \in Tokens(w)
    <3>1. PICK i \in 1..w[x] : t = <<x, i>>
      BY <2>3
    <3>2. i \in 1..(N + 13) /\ i <= w[x]
      BY <1>1
    <3> QED BY <3>1, <3>2 DEF Tokens, Without
  <2> QED BY <2>1, <2>2, <2>3
<1>6. Tokens(v) \cap O = {}
  BY DEF Tokens, Without
<1>7. IsFiniteSet(Tokens(v)) /\ Total(v) \in Nat
  BY <1>2, TotalFacts
<1> HIDE DEF v, O
<1>8. Cardinality(Tokens(v) \cup O) = Cardinality(Tokens(v)) + Cardinality(O) - Cardinality(Tokens(v) \cap O)
  BY <1>4, <1>7, FS_Union
<1>9. Total(w) = Total(v) + w[x]
  <2>1. Cardinality(Tokens(v) \cap O) = 0
    BY <1>6, FS_EmptySet, Zenon
  <2>2. Total(w) = Cardinality(Tokens(v) \cup O)
    BY <1>5, Zenon DEF Total
  <2>3. Total(v) = Cardinality(Tokens(v))
    BY Zenon DEF Total
  <2> QED BY <1>1, <1>4, <1>7, <1>8, <2>1, <2>2, <2>3
<1> QED BY <1>2, <1>9 DEF v

(* The weights are in range.                                               *)
LEMMA StatusWeights ==
    ASSUME NEW s \in [Sub -> Statuses]
    PROVE  /\ Weighing(RequestWeights(s)) /\ DOMAIN RequestWeights(s) = Sub /\ RequestWork(s) \in Nat
           /\ \A x \in Sub : RequestWeights(s)[x] = StatusWeight(s[x])
<1> USE AdmissionConstants
<1>1. \A x \in Sub : StatusWeight(s[x]) \in 0..(N + 13)
  BY DEF StatusWeight
<1>2. IsFiniteSet(Sub)
  BY FS_Interval DEF Sub
<1>3. Weighing(RequestWeights(s))
  BY <1>1, <1>2 DEF Weighing, RequestWeights
<1> QED BY <1>3, TotalFacts DEF RequestWeights, RequestWork

LEMMA CallWeights ==
    /\ \A f \in Frames : CallWeight(f) \in 1..(N + 13)
    /\ \A f \in Frames : f.op = "each" => IsFiniteSet(f.left) /\ CallWeight(f) = 1 + Cardinality(f.left)
<1> USE AdmissionConstants
<1>1. IsFiniteSet(Sub) /\ Cardinality(Sub) = N
  BY FS_Interval DEF Sub
<1>2. ASSUME NEW f \in Frames, f.op = "each"
      PROVE  /\ IsFiniteSet(f.left) /\ CallWeight(f) = 1 + Cardinality(f.left)
             /\ CallWeight(f) \in 1..(N + 13)
  <2>1. f.left \in SUBSET Sub
    BY <1>2, OtherFrames
  <2>2. IsFiniteSet(f.left) /\ Cardinality(f.left) <= N /\ Cardinality(f.left) \in Nat
    BY <1>1, <2>1, FS_Subset, FS_CardinalityType
  <2>3. CallWeight(f) = 1 + Cardinality(f.left)
    BY <1>2 DEF CallWeight
  <2> QED BY <2>2, <2>3
<1>3. ASSUME NEW f \in Frames, f.op # "each" PROVE CallWeight(f) \in 1..(N + 13)
  <2>1. f.op \in {"admit", "capacity", "recheck", "create", "drain", "dependents"}
    BY <1>3 DEF Frames, SpawnOps
  <2> QED BY <1>3, <2>1 DEF CallWeight
<1> QED BY <1>2, <1>3

LEMMA StackWorks ==
    ASSUME NEW st \in Seq(Frames)
    PROVE  Weighing(StackWeights(st)) /\ DOMAIN StackWeights(st) = 1..Len(st) /\ StackWork(st) \in Nat
<1> USE AdmissionConstants
<1>1. ASSUME NEW d \in 1..Len(st) PROVE CallWeight(st[Len(st) + 1 - d]) \in 0..(N + 13)
  <2>1. Len(st) + 1 - d \in 1..Len(st)
    OBVIOUS
  <2>2. CallWeight(st[Len(st) + 1 - d]) \in 1..(N + 13)
    BY <2>1, CallWeights
  <2> QED BY <2>2
<1>2. IsFiniteSet(1..Len(st))
  BY FS_Interval
<1>3. Weighing(StackWeights(st))
  BY <1>1, <1>2 DEF Weighing, StackWeights
<1> QED BY <1>3, TotalFacts DEF StackWork, StackWeights

(* A call on top of a stack adds its weight.                               *)
LEMMA PushWork ==
    ASSUME NEW f \in Frames, NEW B \in Seq(Frames)
    PROVE  <<f>> \o B \in Seq(Frames) /\ StackWork(<<f>> \o B) = CallWeight(f) + StackWork(B)
<1> DEFINE C == <<f>> \o B
           w == StackWeights(C)
           n == Len(B) + 1
<1>1. /\ C \in Seq(Frames) /\ Len(C) = n /\ Len(B) \in Nat /\ C[1] = f
      /\ \A i \in 2..n : C[i] = B[i - 1]
  OBVIOUS
<1> HIDE DEF C
<1>2. Weighing(w) /\ DOMAIN w = 1..n
  BY <1>1, StackWorks
<1>3. w[n] = CallWeight(f)
  <2>1. n \in 1..Len(C) /\ Len(C) + 1 - n = 1
    BY <1>1
  <2> QED BY <1>1, <2>1 DEF StackWeights
<1>4. Without(w, n) = StackWeights(B)
  <2>1. (1..n) \ {n} = 1..Len(B)
    BY <1>1
  <2>2. ASSUME NEW d \in 1..Len(B) PROVE w[d] = CallWeight(B[Len(B) + 1 - d])
    <3>1. d \in 1..Len(C) /\ Len(C) + 1 - d \in 2..n /\ Len(C) + 1 - d - 1 = Len(B) + 1 - d
      BY <1>1
    <3>2. C[Len(C) + 1 - d] = B[Len(B) + 1 - d]
      BY <1>1, <3>1
    <3> QED BY <3>1, <3>2 DEF StackWeights
  <2>3. Without(w, n) = [d \in 1..Len(B) |-> w[d]]
    BY <1>2, <2>1 DEF Without
  <2> HIDE DEF w
  <2> QED BY <2>2, <2>3 DEF StackWeights
<1>5. n \in DOMAIN w
  BY <1>1, <1>2
<1>6. Total(w) = Total(Without(w, n)) + w[n]
  BY <1>2, <1>5, TotalSplits
<1>7. StackWork(C) = CallWeight(f) + StackWork(B)
  <2>1. StackWork(B) \in Nat /\ CallWeight(f) \in Nat
    BY StackWorks, CallWeights
  <2> QED BY <1>3, <1>4, <1>6, <2>1 DEF StackWork
<1> QED BY <1>1, <1>7 DEF C

LEMMA PopWork ==
    ASSUME NEW st \in Seq(Frames), st # <<>>
    PROVE  /\ Head(st) \in Frames /\ Tail(st) \in Seq(Frames)
           /\ StackWork(st) = CallWeight(Head(st)) + StackWork(Tail(st))
<1>1. Head(st) \in Frames /\ Tail(st) \in Seq(Frames) /\ st = <<Head(st)>> \o Tail(st)
  OBVIOUS
<1> QED BY <1>1, PushWork

(* What the requests weigh when one of them changes and the others weigh   *)
(* no more.                                                                *)
LEMMA RequestsChange ==
    ASSUME NEW s \in [Sub -> Statuses], NEW t \in [Sub -> Statuses], NEW r \in Sub,
           \A x \in Sub : x # r => StatusWeight(t[x]) <= StatusWeight(s[x])
    PROVE  RequestWork(t) + StatusWeight(s[r]) <= RequestWork(s) + StatusWeight(t[r])
<1> DEFINE v == RequestWeights(s)
           w == RequestWeights(t)
<1>1. /\ Weighing(v) /\ DOMAIN v = Sub /\ \A x \in Sub : v[x] = StatusWeight(s[x])
      /\ Weighing(w) /\ DOMAIN w = Sub /\ \A x \in Sub : w[x] = StatusWeight(t[x])
      /\ RequestWork(s) = Total(v) /\ RequestWork(t) = Total(w)
  BY StatusWeights DEF RequestWork
<1> HIDE DEF v, w
<1>2. /\ Weighing(Without(v, r)) /\ Total(v) = Total(Without(v, r)) + v[r]
      /\ Weighing(Without(w, r)) /\ Total(w) = Total(Without(w, r)) + w[r]
  BY <1>1, TotalSplits
<1>3. /\ DOMAIN Without(v, r) = Sub \ {r} /\ DOMAIN Without(w, r) = Sub \ {r}
      /\ \A x \in Sub \ {r} : Without(w, r)[x] <= Without(v, r)[x]
  BY <1>1 DEF Without
<1>4. Total(Without(w, r)) <= Total(Without(v, r))
  BY <1>2, <1>3, TotalFacts
<1>5. v[r] \in Nat /\ w[r] \in Nat
  BY <1>1, AdmissionConstants DEF Weighing
<1>6. Total(Without(w, r)) \in Nat /\ Total(Without(v, r)) \in Nat
  BY <1>2, TotalFacts
<1> QED BY <1>1, <1>2, <1>4, <1>5, <1>6

-----------------------------------------------------------------------------
(* What each kind of step takes away.                                      *)
LEMMA WeightsOfCalls ==
    /\ \A o \in SpawnOps, r \in Sub :
          CallWeight(SpawnCall(o, r)) = CASE o = "admit" -> 4 [] o = "capacity" -> 3
                                          [] o = "recheck" -> 2 [] o = "create" -> 1
    /\ \A c \in Conv, h \in Sub \cup {NoSub} : CallWeight(DrainCall(c, h)) = 5
    /\ \A t \in Ticket : CallWeight(CascadeCall(t)) = N + 2
    /\ \A why, S : CallWeight(EachCall(why, S)) = 1 + Cardinality(S)
  BY DEF CallWeight, SpawnOps, SpawnCall, DrainCall, CascadeCall, EachCall

LEMMA CallsJoin ==
    ASSUME NEW A \in Seq(Frames), NEW B \in Seq(Frames), NEW K \in Seq(Frames)
    PROVE  (A \o B) \o K = A \o (B \o K) /\ (<<>> \o B) \o K = B \o K
  OBVIOUS

(* A close costs less than the monitor it ends.                            *)
LEMMA CloseWork ==
    ASSUME TypeInv, NEW r \in Sub, Active(r), NEW why \in Whys, NEW B \in Seq(Frames), Close(r, why, B)
    PROVE  Work' < RequestWork(status) + StackWork(B)
<1> USE AdmissionConstants
<1>1. status \in [Sub -> Statuses] /\ status' \in [Sub -> Statuses] /\ OwnerOf[r] \in Conv
  BY CloseDoes DEF TypeInv
<1>2. StatusWeight(status[r]) = N + 8 /\ StatusWeight(status'[r]) = 0
  BY CloseDoes DEF Active, StatusWeight
<1>3. \A x \in Sub : x # r => StatusWeight(status'[x]) <= StatusWeight(status[x])
  <2> SUFFICES ASSUME NEW x \in Sub, x # r PROVE StatusWeight(status'[x]) <= StatusWeight(status[x])
    OBVIOUS
  <2>1. status'[x] = status[x] \/ (status[x] = "queued" /\ status'[x] = "dropped")
    BY CloseDoes
  <2>2. StatusWeight(status[x]) \in Nat
    BY DEF StatusWeight
  <2> QED BY <2>1, <2>2 DEF StatusWeight
<1>4. RequestWork(status') + (N + 8) <= RequestWork(status)
  <2>1. RequestWork(status') + StatusWeight(status[r]) <= RequestWork(status) + StatusWeight(status'[r])
    BY <1>1, <1>3, RequestsChange
  <2> QED BY <1>1, <1>2, <2>1, StatusWeights
<1> DEFINE d == DrainCall(OwnerOf[r], NoSub)
           k == CascadeCall(TicketOf[r])
<1>5. d \in Frames /\ CallWeight(d) = 5
  BY <1>1, DrainFrames, WeightsOfCalls
<1> DEFINE X == CascadeCalls(r, why)
           K == X \o B
<1>6. X \in Seq(Frames) /\ K \in Seq(Frames) /\ StackWork(K) <= N + 2 + StackWork(B)
  <2>1. StackWork(B) \in Nat
    BY StackWorks
  <2>2. CASE X = <<>>
    <3>1. X \in Seq(Frames) /\ X \o B = B
      BY <2>2
    <3> QED BY <2>1, <3>1
  <2>3. CASE X = <<k>> /\ TicketOf[r] # NoTicket
    <3>1. TicketOf[r] \in Ticket
      BY <2>3
    <3>2. k \in Frames /\ CallWeight(k) = N + 2
      BY <3>1, OtherFrames, WeightsOfCalls
    <3> HIDE DEF k
    <3>3. <<k>> \o B \in Seq(Frames) /\ StackWork(<<k>> \o B) = N + 2 + StackWork(B)
      BY <3>2, PushWork
    <3>4. <<k>> \in Seq(Frames)
      BY <3>2
    <3>5. X \in Seq(Frames) /\ K = <<k>> \o B
      BY <2>3, <3>4, Zenon
    <3> QED BY <2>1, <3>3, <3>5
  <2> QED BY <2>2, <2>3 DEF CascadeCalls
<1> HIDE DEF X
<1>7. StackWork(stack') <= 5 + StackWork(K) /\ StackWork(stack') \in Nat
  <2>0. StackWork(K) \in Nat
    BY <1>6, StackWorks
  <2>1. stack' = (CallbackCalls(r, why) \o X) \o B
    BY DEF Close, X
  <2>2. CASE CallbackCalls(r, why) = <<>>
    <3>1. (<<>> \o X) \o B = X \o B
      BY <1>6, CallsJoin
    <3> QED BY <1>6, <2>0, <2>1, <2>2, <3>1
  <2>3. CASE CallbackCalls(r, why) = <<d>>
    <3> HIDE DEF d
    <3>0. <<d>> \in Seq(Frames)
      BY <1>5
    <3>1. (<<d>> \o X) \o B = <<d>> \o (X \o B)
      BY <1>6, <3>0, CallsJoin
    <3>2. stack' = <<d>> \o K
      BY <1>6, <2>1, <2>3, <3>1
    <3>3. StackWork(<<d>> \o K) = 5 + StackWork(K)
      BY <1>5, <1>6, PushWork
    <3> QED BY <2>0, <3>2, <3>3
  <2> QED BY <2>2, <2>3 DEF CallbackCalls
<1>8. RequestWork(status') \in Nat /\ RequestWork(status) \in Nat /\ StackWork(B) \in Nat /\ StackWork(K) \in Nat
  BY <1>1, <1>6, StatusWeights, StackWorks
<1>9. Work' = RequestWork(status') + StackWork(stack')
  BY DEF Work, RequestWork, RequestWeights, StackWork, StackWeights
<1> QED BY SMTT(30), ZenonT(60), <1>4, <1>6, <1>7, <1>8, <1>9

(* What the spawn at the head and what is below it weigh.                  *)
LEMMA SpawnWeighs ==
    ASSUME Held, Placed, NEW op \in SpawnOps, Top(op), NEW r, r = Head(stack).sub
    PROVE  /\ r \in Sub /\ status \in [Sub -> Statuses] /\ RequestWork(status) \in Nat
           /\ StatusWeight(status[r]) = IF Drained THEN N + 8 ELSE N + 13
           /\ Rest \in Seq(Frames) /\ StackWork(Rest) \in Nat
           /\ StackWork(stack) = CallWeight(SpawnCall(op, r)) + StackWork(Rest)
           /\ Drained => /\ Head(Rest).conv \in Conv /\ Tail(Rest) \in Seq(Frames)
                         /\ StackWork(Tail(Rest)) \in Nat /\ StackWork(Rest) = 5 + StackWork(Tail(Rest))
           /\ ~Drained => Rest = <<>>
<1> USE AdmissionConstants
<1>1. /\ stack # <<>> /\ r \in Sub /\ Shape(stack) /\ stack \in Seq(Frames) /\ TypeInv
      /\ IsSpawn(Head(stack)) /\ OwnerOf[r] \in Conv
  BY HeadSpawn DEF Held
<1>2. StatusWeight(status[r]) = IF Drained THEN N + 8 ELSE N + 13
  <2>1. status[r] = IF Drained THEN "held" ELSE "asking"
    BY <1>1, HeadPlaced
  <2> QED BY <2>1 DEF StatusWeight
<1>3. /\ Rest \in Seq(Frames) /\ StackWork(Rest) \in Nat
      /\ StackWork(stack) = CallWeight(Head(stack)) + StackWork(Rest)
  BY <1>1, PopWork, StackWorks DEF Rest
<1>4. CallWeight(Head(stack)) = CallWeight(SpawnCall(op, r))
  <2>1. Head(stack).op = op
    BY DEF Top
  <2> QED BY <2>1 DEF CallWeight, SpawnCall, SpawnOps
<1>5. ASSUME Drained
      PROVE  /\ Head(Rest).conv \in Conv /\ Tail(Rest) \in Seq(Frames)
             /\ StackWork(Tail(Rest)) \in Nat /\ StackWork(Rest) = 5 + StackWork(Tail(Rest))
  <2>1. Rest # <<>> /\ Head(Rest) = DrainCall(OwnerOf[r], r)
    BY <1>1, <1>5, RestShape DEF Rest, Drained
  <2>2. CallWeight(Head(Rest)) = 5 /\ Head(Rest).conv \in Conv
    BY <1>1, <2>1, DrainFrames, WeightsOfCalls
  <2> QED BY <1>3, <2>1, <2>2, PopWork, StackWorks
<1>6. status \in [Sub -> Statuses] /\ RequestWork(status) \in Nat
  BY <1>1, StatusWeights DEF TypeInv
<1>7. ~Drained => Rest = <<>>
  BY <1>1, RestShape DEF Rest, Drained
<1> QED BY <1>1, <1>2, <1>3, <1>4, <1>5, <1>6, <1>7

LEMMA SpawnWeightsPositive ==
    ASSUME NEW op \in SpawnOps, NEW r \in Sub
    PROVE  CallWeight(SpawnCall(op, r)) \in 1..4
  BY WeightsOfCalls DEF SpawnOps

(* One request changes.                                                    *)
LEMMA OneRequestChanges ==
    ASSUME NEW s \in [Sub -> Statuses], NEW r \in Sub, NEW st \in Statuses
    PROVE  /\ [s EXCEPT ![r] = st] \in [Sub -> Statuses] /\ RequestWork([s EXCEPT ![r] = st]) \in Nat
           /\ RequestWork([s EXCEPT ![r] = st]) + StatusWeight(s[r]) <= RequestWork(s) + StatusWeight(st)
<1> USE AdmissionConstants
<1> DEFINE t == [s EXCEPT ![r] = st]
<1>1. t \in [Sub -> Statuses] /\ t[r] = st /\ \A x \in Sub : x # r => t[x] = s[x]
  OBVIOUS
<1> HIDE DEF t
<1>2. \A x \in Sub : x # r => StatusWeight(t[x]) <= StatusWeight(s[x])
  <2>1. \A x \in Sub : StatusWeight(s[x]) \in Nat
    BY DEF StatusWeight
  <2> QED BY <1>1, <2>1
<1>3. RequestWork(t) + StatusWeight(s[r]) <= RequestWork(s) + StatusWeight(st)
  BY <1>1, <1>2, RequestsChange
<1> QED BY <1>1, <1>3, StatusWeights DEF t

LEMMA WorkAfter == Work' = RequestWork(status') + StackWork(stack')
  BY DEF Work, RequestWork, RequestWeights, StackWork, StackWeights

(* A spawn that ends, and gives the request up, queues it or answers it.   *)
LEMMA GivesUpWork ==
    ASSUME Held, Placed, NEW op \in SpawnOps, Top(op), NEW r, r = Head(stack).sub,
           NEW st \in Statuses, status' = [status EXCEPT ![r] = st], StatusWeight(st) <= N + 13,
           stack' = IF Drained THEN Tail(Rest) ELSE <<>>
    PROVE  Work' < Work
<1> USE AdmissionConstants
<1>1. /\ r \in Sub /\ status \in [Sub -> Statuses] /\ RequestWork(status) \in Nat
      /\ StatusWeight(status[r]) = IF Drained THEN N + 8 ELSE N + 13
      /\ Rest \in Seq(Frames) /\ StackWork(Rest) \in Nat
      /\ StackWork(stack) = CallWeight(SpawnCall(op, r)) + StackWork(Rest)
      /\ Drained => /\ Tail(Rest) \in Seq(Frames)
                    /\ StackWork(Tail(Rest)) \in Nat /\ StackWork(Rest) = 5 + StackWork(Tail(Rest))
      /\ ~Drained => Rest = <<>>
  BY SpawnWeighs
<1>2. /\ RequestWork(status') \in Nat
      /\ RequestWork(status') + StatusWeight(status[r]) <= RequestWork(status) + StatusWeight(st)
  BY <1>1, OneRequestChanges
<1>3. CallWeight(SpawnCall(op, r)) \in 1..4
  BY <1>1, SpawnWeightsPositive
<1>4. StatusWeight(st) \in Nat
  BY DEF StatusWeight
<1>5. RequestWork(status) \in Nat /\ StackWork(Rest) \in Nat
  BY <1>1
<1>6. Work' = RequestWork(status') + StackWork(stack') /\ Work = RequestWork(status) + StackWork(stack)
  BY WorkAfter DEF Work
<1>7. CASE Drained
  <2>1. StatusWeight(status[r]) = N + 8
    BY <1>1, <1>7
  <2>2. /\ StackWork(stack') = StackWork(Tail(Rest)) /\ StackWork(Tail(Rest)) \in Nat
        /\ StackWork(stack) = CallWeight(SpawnCall(op, r)) + (5 + StackWork(Tail(Rest)))
    BY <1>1, <1>7
  <2>3. PICK a, b, v : /\ a = RequestWork(status') /\ b = RequestWork(status) /\ v = StatusWeight(st)
                       /\ a \in Nat /\ b \in Nat /\ v \in Nat /\ v <= N + 13 /\ a + (N + 8) <= b + v
    BY <1>2, <1>4, <1>5, <2>1
  <2>4. a <= b + 5
    BY <2>3
  <2>5. PICK k, t : /\ k = CallWeight(SpawnCall(op, r)) /\ t = StackWork(Tail(Rest))
                    /\ k \in 1..4 /\ t \in Nat
    BY <1>3, <2>2
  <2>6. Work' = a + t /\ Work = b + (k + (5 + t))
    BY <1>6, <2>2, <2>3, <2>5, Zenon
  <2>7. a + t < b + (k + (5 + t))
    <3>1. a \in Nat /\ b \in Nat
      BY <2>3
    <3>2. k \in 1..4 /\ t \in Nat
      BY <2>5
    <3> QED BY <2>4, <3>1, <3>2
  <2> QED BY <2>6, <2>7, Zenon
<1>8. CASE ~Drained
  <2>1. StatusWeight(status[r]) = N + 13
    BY <1>1, <1>8
  <2>2. StackWork(stack') = StackWork(Rest) /\ StackWork(stack) = CallWeight(SpawnCall(op, r)) + StackWork(Rest)
    BY <1>1, <1>8
  <2>3. PICK a, b, v : /\ a = RequestWork(status') /\ b = RequestWork(status) /\ v = StatusWeight(st)
                       /\ a \in Nat /\ b \in Nat /\ v \in Nat /\ v <= N + 13 /\ a + (N + 13) <= b + v
    BY <1>2, <1>4, <1>5, <2>1
  <2>4. a <= b
    BY <2>3
  <2>5. PICK k, t : /\ k = CallWeight(SpawnCall(op, r)) /\ t = StackWork(Rest)
                    /\ k \in 1..4 /\ t \in Nat
    BY <1>3, <1>5
  <2>6. Work' = a + t /\ Work = b + (k + t)
    BY <1>6, <2>2, <2>3, <2>5, Zenon
  <2>7. a + t < b + (k + t)
    <3>1. a \in Nat /\ b \in Nat
      BY <2>3
    <3>2. k \in 1..4 /\ t \in Nat
      BY <2>5
    <3> QED BY <2>4, <3>1, <3>2
  <2> QED BY <2>6, <2>7, Zenon
<1> QED BY <1>7, <1>8

(* A spawn that returns an id: the drain below it goes on.                 *)
LEMMA ReturnsWork ==
    ASSUME Held, Placed, NEW op \in SpawnOps, Top(op), NEW st \in Statuses, Returns(st),
           StatusWeight(st) <= N + 8
    PROVE  Work' < Work
<1> USE AdmissionConstants
<1> DEFINE r == Head(stack).sub
           c == Head(Rest).conv
<1>1. /\ r \in Sub /\ status \in [Sub -> Statuses] /\ RequestWork(status) \in Nat
      /\ StatusWeight(status[r]) = IF Drained THEN N + 8 ELSE N + 13
      /\ Rest \in Seq(Frames) /\ StackWork(Rest) \in Nat
      /\ StackWork(stack) = CallWeight(SpawnCall(op, r)) + StackWork(Rest)
      /\ Drained => /\ c \in Conv /\ Tail(Rest) \in Seq(Frames)
                    /\ StackWork(Tail(Rest)) \in Nat /\ StackWork(Rest) = 5 + StackWork(Tail(Rest))
      /\ ~Drained => Rest = <<>>
  BY SpawnWeighs
<1>2. /\ status' = [status EXCEPT ![r] = st]
      /\ stack' = IF Drained THEN <<DrainCall(c, NoSub)>> \o Tail(Rest) ELSE <<>>
  BY DEF Returns
<1> HIDE DEF r, c
<1>3. /\ RequestWork(status') \in Nat
      /\ RequestWork(status') + StatusWeight(status[r]) <= RequestWork(status) + StatusWeight(st)
  BY <1>1, <1>2, OneRequestChanges
<1>4. CallWeight(SpawnCall(op, r)) \in 1..4
  BY <1>1, SpawnWeightsPositive
<1>5. StatusWeight(st) \in Nat /\ RequestWork(status) \in Nat /\ StackWork(Rest) \in Nat
  BY <1>1 DEF StatusWeight
<1>6. StackWork(stack') = StackWork(Rest)
  <2>1. CASE Drained
    <3>1. DrainCall(c, NoSub) \in Frames /\ CallWeight(DrainCall(c, NoSub)) = 5
      BY <1>1, <2>1, DrainFrames, WeightsOfCalls
    <3> QED BY <1>1, <1>2, <2>1, <3>1, PushWork
  <2>2. CASE ~Drained
    BY <1>1, <1>2, <2>2
  <2> QED BY <2>1, <2>2
<1>7. RequestWork(status') <= RequestWork(status)
  <2>1. StatusWeight(status[r]) >= N + 8 /\ StatusWeight(status[r]) \in Nat
    BY <1>1
  <2> QED BY <1>3, <1>5, <2>1
<1>8. StackWork(stack) = CallWeight(SpawnCall(op, r)) + StackWork(Rest)
  BY <1>1
<1> QED BY <1>3, <1>4, <1>5, <1>6, <1>7, <1>8, WorkAfter DEF Work

(* A spawn that goes on.                                                   *)
LEMMA ProceedWork ==
    ASSUME Held, Placed, NEW op \in SpawnOps, Top(op), NEW o \in SpawnOps, Proceed(o),
           CallWeight(SpawnCall(o, Head(stack).sub)) < CallWeight(SpawnCall(op, Head(stack).sub))
    PROVE  Work' < Work
<1> DEFINE r == Head(stack).sub
           f == SpawnCall(o, r)
<1>1. /\ r \in Sub /\ RequestWork(status) \in Nat /\ Rest \in Seq(Frames) /\ StackWork(Rest) \in Nat
      /\ StackWork(stack) = CallWeight(SpawnCall(op, r)) + StackWork(Rest)
  BY SpawnWeighs
<1>2. stack' = <<f>> \o Rest /\ status' = status
  BY DEF Proceed
<1>3. f \in Frames /\ CallWeight(f) \in 1..4 /\ CallWeight(SpawnCall(op, r)) \in 1..4
      /\ CallWeight(f) < CallWeight(SpawnCall(op, r))
  BY <1>1, SpawnFrames, SpawnWeightsPositive
<1> HIDE DEF r, f
<1>4. StackWork(stack') = CallWeight(f) + StackWork(Rest)
  BY <1>1, <1>2, <1>3, PushWork
<1> QED BY <1>1, <1>2, <1>3, <1>4, WorkAfter DEF Work

(* A spawn that raises.                                                    *)
LEMMA RaisesWork ==
    ASSUME Held, Placed, NEW op \in SpawnOps, Top(op), Raises PROVE Work' < Work
<1> USE AdmissionConstants
<1>1. PICK r : r = Head(stack).sub
  OBVIOUS
<1>2. PICK st : st \in {"queued", "refused"} /\ status' = [status EXCEPT ![r] = st]
  BY <1>1 DEF Raises, RaisesTo
<1>3. st \in Statuses /\ StatusWeight(st) <= N + 13
  BY <1>2 DEF Statuses, Requests, StatusWeight
<1>4. stack' = IF Drained THEN Tail(Rest) ELSE <<>>
  BY DEF Raises, RaisesTo
<1> QED BY <1>1, <1>2, <1>3, <1>4, GivesUpWork

LEMMA WorkStaysNumber ==
    ASSUME TypeInv, NEW r \in Sub, NEW why \in Whys, NEW B \in Seq(Frames), Close(r, why, B)
    PROVE  Work' \in Int
<1>1. status' \in [Sub -> Statuses]
  BY CloseDoes
<1>2. stack' \in Seq(Frames)
  <2>1. PICK A : Plain(A) /\ stack' = A \o B
    BY CloseDoes
  <2>2. A \in Seq(Frames)
    BY <2>1 DEF Plain
  <2> QED BY <2>1, <2>2
<1> QED BY <1>1, <1>2, StatusWeights, StackWorks, WorkAfter

(* A spawn that closes a monitor to make room.                             *)
LEMMA MakesRoomWork ==
    ASSUME Held, Placed, NEW op \in SpawnOps, Top(op), NEW o \in SpawnOps,
           NEW p \in Sub, Active(p), NEW why \in Whys, Close(p, why, <<SpawnCall(o, Head(stack).sub)>> \o Rest),
           CallWeight(SpawnCall(o, Head(stack).sub)) < CallWeight(SpawnCall(op, Head(stack).sub))
    PROVE  Work' < Work
<1> DEFINE r == Head(stack).sub
           f == SpawnCall(o, r)
<1>1. /\ r \in Sub /\ RequestWork(status) \in Nat /\ Rest \in Seq(Frames) /\ StackWork(Rest) \in Nat
      /\ StackWork(stack) = CallWeight(SpawnCall(op, r)) + StackWork(Rest)
  BY SpawnWeighs
<1>2. Close(p, why, <<f>> \o Rest)
  OBVIOUS
<1>3. f \in Frames /\ CallWeight(f) \in 1..4 /\ CallWeight(SpawnCall(op, r)) \in 1..4
      /\ CallWeight(f) < CallWeight(SpawnCall(op, r))
  BY <1>1, SpawnFrames, SpawnWeightsPositive
<1> HIDE DEF r, f
<1>4. <<f>> \o Rest \in Seq(Frames) /\ StackWork(<<f>> \o Rest) = CallWeight(f) + StackWork(Rest)
  BY <1>1, <1>3, PushWork
<1>5. Work' < RequestWork(status) + StackWork(<<f>> \o Rest)
  BY <1>2, <1>4, CloseWork DEF Held
<1>6. Work' \in Int
  BY <1>2, <1>4, WorkStaysNumber DEF Held
<1> QED BY <1>1, <1>3, <1>4, <1>5, <1>6 DEF Work

LEMMA StartDependentsWork ==
    ASSUME Held, StartDependents PROVE Work' < Work
<1> USE AdmissionConstants
<1> DEFINE S == {d \in Sub : DependsOn[d] = Head(stack).ticket /\ status[d] \in Records}
           f == EachCall("waiting_for_prerequisite", S)
<1>1. stack \in Seq(Frames) /\ stack # <<>> /\ Head(stack).op = "dependents" /\ status \in [Sub -> Statuses]
  BY DEF StartDependents, Top, Held, TypeInv, Shape
<1>2. /\ Rest \in Seq(Frames) /\ StackWork(Rest) \in Nat
      /\ StackWork(stack) = CallWeight(Head(stack)) + StackWork(Rest) /\ CallWeight(Head(stack)) = N + 2
  BY <1>1, PopWork, StackWorks DEF Rest, CallWeight
<1>3. f \in Frames /\ CallWeight(f) <= N + 1 /\ CallWeight(f) \in Nat
  <2>1. IsFiniteSet(Sub) /\ Cardinality(Sub) = N
    BY FS_Interval DEF Sub
  <2>2. S \in SUBSET Sub
    OBVIOUS
  <2> HIDE DEF S
  <2>3. Cardinality(S) <= N /\ Cardinality(S) \in Nat
    BY <2>1, <2>2, FS_Subset, FS_CardinalityType
  <2>4. f \in Frames /\ CallWeight(f) = 1 + Cardinality(S)
    BY <2>2, OtherFrames, WeightsOfCalls DEF Reasons
  <2> QED BY <2>3, <2>4
<1>4. stack' = <<f>> \o Rest /\ status' = status
  BY DEF StartDependents
<1> HIDE DEF f
<1>5. StackWork(stack') = CallWeight(f) + StackWork(Rest)
  BY <1>2, <1>3, <1>4, PushWork
<1>6. RequestWork(status) \in Nat
  BY <1>1, StatusWeights
<1>7. RequestWork(status') = RequestWork(status)
  BY <1>4
<1>8. StackWork(stack) = N + 2 + StackWork(Rest)
  BY <1>2
<1>9. Work = RequestWork(status) + StackWork(stack) /\ Work' = RequestWork(status) + StackWork(stack')
  BY <1>7, WorkAfter, Zenon DEF Work
<1>10. CallWeight(f) <= N + 1 /\ CallWeight(f) \in Nat /\ StackWork(Rest) \in Nat
  BY <1>2, <1>3
<1> QED BY <1>5, <1>6, <1>8, <1>9, <1>10

LEMMA CloseEachWork ==
    ASSUME Held, CloseEach PROVE Work' < Work
<1> USE AdmissionConstants
<1>0. PICK f : f = Head(stack)
  OBVIOUS
<1>1. /\ stack \in Seq(Frames) /\ stack # <<>> /\ f.op = "each" /\ status \in [Sub -> Statuses] /\ TypeInv
      /\ f \in Frames
  <2>1. stack \in Seq(Frames) /\ stack # <<>> /\ f.op = "each" /\ status \in [Sub -> Statuses] /\ TypeInv
    BY <1>0 DEF CloseEach, Top, Held, TypeInv, Shape
  <2> QED BY <1>0, <2>1, PopWork
<1>2. /\ Rest \in Seq(Frames) /\ StackWork(Rest) \in Nat /\ RequestWork(status) \in Nat
      /\ StackWork(stack) = CallWeight(f) + StackWork(Rest)
  BY <1>0, <1>1, PopWork, StackWorks, StatusWeights DEF Rest
<1>3. /\ f.why \in Reasons /\ f.left \in SUBSET Sub /\ IsFiniteSet(f.left)
      /\ CallWeight(f) = 1 + Cardinality(f.left) /\ Cardinality(f.left) \in Nat
  BY <1>1, OtherFrames, CallWeights, FS_CardinalityType
<1>4. CASE stack' = Rest /\ status' = status
  BY <1>2, <1>3, <1>4, WorkAfter DEF Work
<1>5. ASSUME NEW d \in f.left, Closable(d, f.why), Close(d, f.why, <<EachCall(f.why, f.left \ {d})>> \o Rest)
      PROVE  Work' < Work
  <2> DEFINE L == f.left \ {d}
             g == EachCall(f.why, L)
  <2>1. d \in Sub /\ f.why \in Whys /\ Active(d)
    BY <1>3, <1>5 DEF Reasons, Whys, Closable, Active
  <2>2. L \in SUBSET Sub /\ Cardinality(L) = Cardinality(f.left) - 1
    BY <1>3, FS_RemoveElement
  <2>3. Close(d, f.why, <<g>> \o Rest)
    BY <1>5
  <2> HIDE DEF L
  <2>4. g \in Frames /\ CallWeight(g) = CallWeight(f) - 1
    BY <1>3, <2>2, OtherFrames, WeightsOfCalls
  <2> HIDE DEF g
  <2>5. <<g>> \o Rest \in Seq(Frames) /\ StackWork(<<g>> \o Rest) = CallWeight(g) + StackWork(Rest)
    BY <1>2, <2>4, PushWork
  <2>6. Work' < RequestWork(status) + StackWork(<<g>> \o Rest)
    BY <1>1, <2>1, <2>3, <2>5, CloseWork
  <2>7. Work' \in Int
    BY <1>1, <2>1, <2>3, <2>5, WorkStaysNumber
  <2> QED BY <1>2, <1>3, <2>4, <2>5, <2>6, <2>7 DEF Work
<1> QED BY <1>0, <1>4, <1>5 DEF CloseEach

LEMMA AdmitWork ==
    ASSUME Held, Placed, Admit PROVE Work' < Work
<1> USE AdmissionConstants
<1>0. PICK r, c : r = Head(stack).sub /\ c = OwnerOf[r]
  OBVIOUS
<1>1. "admit" \in SpawnOps /\ "capacity" \in SpawnOps /\ Top("admit") /\ r \in Sub
  <2>1. "admit" \in SpawnOps /\ "capacity" \in SpawnOps /\ Top("admit")
    BY DEF Admit, SpawnOps
  <2> QED BY <1>0, <2>1, SpawnWeighs
<1>2. CallWeight(SpawnCall("capacity", r)) = 3 /\ CallWeight(SpawnCall("admit", r)) = 4
  BY <1>1, WeightsOfCalls
<1>3. CASE Returns("deduped")
  BY <1>1, <1>3, ReturnsWork DEF StatusWeight, Statuses, Requests
<1>4. CASE Proceed("capacity")
  BY <1>0, <1>1, <1>2, <1>4, ProceedWork
<1>5. ASSUME NEW p \in PausedOf(c), Close(p, "slot_reclaimed", <<SpawnCall("capacity", r)>> \o Rest)
      PROVE  Work' < Work
  <2>1. p \in Sub /\ Active(p) /\ "slot_reclaimed" \in Whys
    BY DEF PausedOf, Active, Whys
  <2> QED BY <1>0, <1>1, <1>2, <1>5, <2>1, MakesRoomWork
<1>6. CASE Raises
  BY <1>1, <1>6, RaisesWork
<1>7. CASE status' = [status EXCEPT ![r] = "queued"] /\ stack' = IF Drained THEN Tail(Rest) ELSE <<>>
  <2>1. "queued" \in Statuses /\ StatusWeight("queued") <= N + 13
    BY DEF StatusWeight, Statuses, Requests
  <2> QED BY <1>0, <1>1, <1>7, <2>1, GivesUpWork
<1> QED BY <1>0, <1>3, <1>4, <1>5, <1>6, <1>7 DEF Admit

LEMMA CheckCapacityWork ==
    ASSUME Held, Placed, CheckCapacity PROVE Work' < Work
<1>0. PICK r : r = Head(stack).sub
  OBVIOUS
<1>1. {"capacity", "recheck", "create"} \subseteq SpawnOps /\ Top("capacity") /\ r \in Sub
  <2>1. {"capacity", "recheck", "create"} \subseteq SpawnOps /\ Top("capacity")
    BY DEF CheckCapacity, SpawnOps
  <2> QED BY <1>0, <2>1, SpawnWeighs
<1>2. /\ CallWeight(SpawnCall("capacity", r)) = 3 /\ CallWeight(SpawnCall("recheck", r)) = 2
      /\ CallWeight(SpawnCall("create", r)) = 1
  BY <1>1, WeightsOfCalls
<1>3. CASE Raises
  BY <1>1, <1>3, RaisesWork
<1>4. CASE Proceed("create")
  BY <1>0, <1>1, <1>2, <1>4, ProceedWork
<1>5. ASSUME NEW x \in Sub, Active(x), Close(x, "stale_reclaimed", <<SpawnCall("recheck", r)>> \o Rest)
      PROVE  Work' < Work
  <2>1. "stale_reclaimed" \in Whys
    BY DEF Whys
  <2> QED BY <1>0, <1>1, <1>2, <1>5, <2>1, MakesRoomWork
<1> QED BY <1>0, <1>3, <1>4, <1>5 DEF CheckCapacity

LEMMA RecheckWork ==
    ASSUME Held, Placed, Recheck PROVE Work' < Work
<1>0. PICK r : r = Head(stack).sub
  OBVIOUS
<1>1. {"recheck", "create"} \subseteq SpawnOps /\ Top("recheck") /\ r \in Sub
  <2>1. {"recheck", "create"} \subseteq SpawnOps /\ Top("recheck")
    BY DEF Recheck, SpawnOps
  <2> QED BY <1>0, <2>1, SpawnWeighs
<1>2. CallWeight(SpawnCall("recheck", r)) = 2 /\ CallWeight(SpawnCall("create", r)) = 1
  BY <1>1, WeightsOfCalls
<1>3. CASE Raises
  BY <1>1, <1>3, RaisesWork
<1>4. CASE Proceed("create")
  BY <1>0, <1>1, <1>2, <1>4, ProceedWork
<1> QED BY <1>3, <1>4 DEF Recheck

LEMMA CreateRecordWork ==
    ASSUME Held, Placed, CreateRecord PROVE Work' < Work
<1> USE AdmissionConstants
<1>1. "create" \in SpawnOps /\ Top("create")
  BY DEF CreateRecord, SpawnOps
<1>2. CASE Raises
  BY <1>1, <1>2, RaisesWork
<1>3. ASSUME NEW st \in {"deduped", "running"}, Returns(st) PROVE Work' < Work
  <2>1. st \in Statuses /\ StatusWeight(st) <= N + 8
    BY DEF Statuses, Requests, Records, StatusWeight
  <2> QED BY <1>1, <1>3, <2>1, ReturnsWork
<1> QED BY <1>2, <1>3 DEF CreateRecord

(* A drain that takes a request from its queue.                            *)
LEMMA DrainWork ==
    ASSUME Held, Placed, Drain PROVE Work' < Work
<1> USE AdmissionConstants
<1>0. PICK c : c = Head(stack).conv
  OBVIOUS
<1>1. /\ stack \in Seq(Frames) /\ stack # <<>> /\ Head(stack).op = "drain" /\ c \in Conv
      /\ status \in [Sub -> Statuses]
  <2>1. stack \in Seq(Frames) /\ stack # <<>> /\ Head(stack).op = "drain" /\ status \in [Sub -> Statuses]
    BY DEF Drain, Top, Held, TypeInv, Shape
  <2> QED BY <1>0, <2>1, PopWork, DrainFrames
<1>2. /\ Rest \in Seq(Frames) /\ StackWork(Rest) \in Nat /\ RequestWork(status) \in Nat
      /\ StackWork(stack) = 5 + StackWork(Rest)
  <2>1. CallWeight(Head(stack)) = 5
    BY <1>1 DEF CallWeight
  <2> QED BY <1>1, <2>1, PopWork, StackWorks, StatusWeights DEF Rest
<1>3. CASE stack' = Rest /\ status' = status
  BY <1>2, <1>3, WorkAfter DEF Work
<1>4. ASSUME NEW r, r = Head(queue[c]), queue[c] # <<>>, status' = [status EXCEPT ![r] = "held"],
             stack' = <<SpawnCall("admit", r), DrainCall(c, r)>> \o Rest
      PROVE  Work' < Work
  <2>1. r \in Sub /\ status[r] = "queued"
    <3>1. queue[c] \in Seq(Sub)
      BY <1>1 DEF Held, TypeInv, QueuesFit
    <3>2. r \in Sub /\ r = queue[c][1] /\ 1 \in 1..Len(queue[c])
      BY <1>4, <3>1
    <3> QED BY <1>1, <3>2 DEF Placed, PlaceInv, LineInv
  <2> DEFINE f == SpawnCall("admit", r)
             d == DrainCall(c, r)
  <2>2. f \in Frames /\ d \in Frames /\ CallWeight(f) = 4 /\ CallWeight(d) = 5
    BY <1>1, <2>1, SpawnFrames, DrainFrames, WeightsOfCalls DEF SpawnOps
  <2>3. stack' = <<f, d>> \o Rest
    BY <1>4
  <2> HIDE DEF f, d
  <2>4. stack' = <<f>> \o (<<d>> \o Rest)
    <3>1. <<f>> \in Seq(Frames) /\ <<d>> \in Seq(Frames)
      BY <2>2
    <3> QED BY <1>2, <2>2, <2>3, <3>1, CallsJoin, TwoCalls
  <2>5. StackWork(stack') = 9 + StackWork(Rest)
    <3>1. <<d>> \o Rest \in Seq(Frames) /\ StackWork(<<d>> \o Rest) = 5 + StackWork(Rest)
      BY <1>2, <2>2, PushWork
    <3>2. StackWork(stack') = 4 + StackWork(<<d>> \o Rest)
      BY <2>2, <2>4, <3>1, PushWork
    <3> QED BY <1>2, <3>1, <3>2
  <2>6. RequestWork(status') \in Nat /\ RequestWork(status') + (N + 13) <= RequestWork(status) + (N + 8)
    <3>1. "held" \in Statuses /\ StatusWeight("held") = N + 8 /\ StatusWeight(status[r]) = N + 13
      BY <2>1 DEF Statuses, Requests, StatusWeight
    <3> QED BY <1>1, <1>4, <2>1, <3>1, OneRequestChanges
  <2> QED BY <1>2, <2>5, <2>6, WorkAfter DEF Work
<1> QED BY <1>0, <1>3, <1>4 DEF Drain

(* The work left in the calls of the process.  It is a number, and every   *)
(* step of a call in progress lowers it: the spawns, closes and drains     *)
(* that call each other cannot do so for ever, whatever dependents,        *)
(* queues and reclaims there are.                                          *)
CallsShorten == [][CallStep => Work' < Work]_vars

THEOREM CallsRunOut == Spec => [](Work \in Nat) /\ CallsShorten
<1>1. ASSUME Held PROVE Work \in Nat
  <2>1. stack \in Seq(Frames) /\ status \in [Sub -> Statuses]
    BY <1>1 DEF Held, TypeInv, Shape
  <2> QED BY <2>1, StackWorks, StatusWeights DEF Work
<1>2. Held /\ Placed /\ [Next]_vars => [CallStep => Work' < Work]_vars
  BY StartDependentsWork, CloseEachWork, AdmitWork, CheckCapacityWork, RecheckWork, CreateRecordWork,
     DrainWork DEF CallStep
<1> QED BY <1>1, <1>2, PlacesInvariant, PTL DEF Spec, CallsShorten
=============================================================================
