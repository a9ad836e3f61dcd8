---------------------- MODULE ConversationStore_proofs ----------------------
(***************************************************************************)
(* Proofs about ConversationStore for every window, cap, number of         *)
(* sessions and set of owners.                                             *)
(*                                                                         *)
(* A step is characterised by what it does to each session (same fields, a *)
(* turn recorded, gone) or as the end of a summary or a restart; the rest  *)
(* of the argument is about records.                                       *)
(***************************************************************************)
EXTENDS ConversationStore, SequenceTheorems, TLAPS

-----------------------------------------------------------------------------
(* Sessions.                                                               *)

Session ==
    {r \in [turns : Seq(Nat), comp : Nat, sum : SUBSET Nat, count : Int, mark : Int,
            closed : BOOLEAN] :
        /\ Len(r.turns) <= cast.window /\ r.comp <= Len(r.turns)
        /\ r.count >= 0 \/ r = Gone}

SameFields(a, b) == a.turns = b.turns /\ a.comp = b.comp /\ a.sum = b.sum

(* L is what the summaries are known to have left out.                     *)
Whole(r, L) == r.sum # {} => Hidden(r) \subseteq r.sum \cup L

LEMMA NewIsSession ==
    ASSUME cast \in Casts
    PROVE  /\ New \in Session /\ Gone \in Session /\ New # Gone
           /\ SameFields(New, Gone) /\ Gone.sum = {} /\ Gone.turns = <<>> /\ Gone.comp = 0
           /\ Gone.count = -1
           /\ cast.window \in Nat \ {0} /\ cast.keep \in Nat \ {0}
<1>1. cast.window \in Nat \ {0} /\ cast.keep \in Nat \ {0}
  BY StoreConstants
<1>2. <<>> \in Seq(Nat) /\ Len(<<>>) = 0
  OBVIOUS
<1> DEFINE Rec == [turns : Seq(Nat), comp : Nat, sum : SUBSET Nat, count : Int, mark : Int,
                   closed : BOOLEAN]
<1>3. /\ New \in Rec /\ New.turns = <<>> /\ New.comp = 0 /\ New.sum = {} /\ New.count = 0
  BY <1>2 DEF New
<1> HIDE DEF Rec
<1>4. /\ Gone.turns = New.turns /\ Gone.comp = New.comp /\ Gone.sum = New.sum
      /\ Gone.count = -1
  BY DEF Gone, New
<1>5. Gone \in Rec
  BY <1>3 DEF Gone, Rec
<1> QED
  BY <1>1, <1>2, <1>3, <1>4, <1>5 DEF Session, SameFields, Rec

(* A turn more, and perhaps one less at the other end: what was hidden is  *)
(* what is hidden, or more of it; a window with room moves nothing.        *)
LEMMA RecordedHides ==
    ASSUME cast \in Casts, last \in Nat, NEW r \in Session, r # Gone
    PROVE  /\ Recorded(r) \in Session /\ Recorded(r) # Gone
           /\ Hidden(Recorded(r)) \subseteq Hidden(r) /\ Recorded(r).sum = r.sum
           /\ Len(r.turns) # cast.window =>
                 /\ Len(Recorded(r).turns) = Len(r.turns) + 1 /\ Recorded(r).comp = r.comp
                 /\ \A i \in 1..Len(r.turns) : Recorded(r).turns[i] = r.turns[i]
<1> DEFINE all == Append(r.turns, last + 1)
           out == IF Len(all) > cast.window THEN Len(all) - cast.window ELSE 0
           new == SubSeq(all, out + 1, Len(all))
           comp == IF r.comp > out THEN r.comp - out ELSE 0
<1>1. /\ r.turns \in Seq(Nat) /\ r.comp \in Nat /\ r.comp <= Len(r.turns) /\ r.count \in Nat
      /\ Len(r.turns) <= cast.window /\ cast.window \in Nat \ {0} /\ Len(r.turns) \in Nat
  BY NewIsSession DEF Session
<1>2. /\ all \in Seq(Nat) /\ Len(all) = Len(r.turns) + 1
      /\ \A i \in 1..Len(r.turns) : all[i] = r.turns[i]
  BY <1>1
<1>3. out \in Nat /\ out <= Len(r.turns) /\ Len(all) - out <= cast.window
  BY <1>1, <1>2
<1> HIDE DEF all, out
<1>4. /\ new \in Seq(Nat) /\ Len(new) = Len(all) - out
      /\ \A i \in 1..Len(new) : new[i] = all[out + i]
  <2>1. /\ out + 1 \in Int /\ Len(all) \in Int /\ out + 1 <= Len(all)
        /\ \A i \in (out + 1)..Len(all) : all[i] \in Nat
    <3>1. out \in Nat /\ Len(all) \in Nat /\ Len(r.turns) \in Nat
      BY <1>1, <1>2, <1>3
    <3>2. out + 1 <= Len(all)
      BY <1>2, <1>3, <3>1
    <3>3. \A i \in 1..Len(all) : all[i] \in Nat
      BY <1>2
    <3>4. ASSUME NEW i \in (out + 1)..Len(all) PROVE i \in 1..Len(all)
      BY <3>1
    <3> QED
      BY <3>1, <3>2, <3>3, <3>4
  <2>2. /\ new \in Seq(Nat) /\ Len(new) = Len(all) - (out + 1) + 1
        /\ \A i \in 1..(Len(all) - (out + 1) + 1) : new[i] = all[(out + 1) + i - 1]
    BY <2>1, SubSeqProperties
  <2> HIDE DEF new
  <2>3. Len(all) - (out + 1) + 1 = Len(all) - out
    BY <1>3, <2>1
  <2>4. ASSUME NEW i \in 1..Len(new)
        PROVE  new[i] = all[out + i]
    <3>1. (out + 1) + i - 1 = out + i
      BY <1>3
    <3> QED
      BY <2>2, <3>1
  <2> QED
    BY <2>2, <2>3, <2>4
<1>5. /\ Recorded(r) = [r EXCEPT !.turns = new, !.comp = comp, !.count = @ + 1]
  BY DEF Recorded, all, out
<1>6. /\ Recorded(r).turns = new /\ Recorded(r).comp = comp /\ Recorded(r).sum = r.sum
      /\ Recorded(r).count = r.count + 1
  BY <1>5 DEF Session
<1> HIDE DEF new, comp
<1>7. comp \in Nat /\ comp <= Len(new) /\ comp + out <= Len(r.turns) /\ (comp > 0 => comp + out = r.comp)
  <2>1. Len(new) = Len(r.turns) + 1 - out
    BY <1>1, <1>2, <1>3, <1>4
  <2>2. CASE r.comp > out
    <3>1. comp = r.comp - out
      BY <2>2 DEF comp
    <3>2. r.comp \in Nat /\ out \in Nat /\ Len(r.turns) \in Nat /\ r.comp <= Len(r.turns)
      BY <1>1, <1>3
    <3> QED
      BY <2>1, <2>2, <3>1, <3>2
  <2>3. CASE ~(r.comp > out)
    BY <1>1, <1>3, <2>1, <2>3 DEF comp
  <2> QED
    BY <2>2, <2>3
<1>8. Recorded(r) \in Session /\ Recorded(r) # Gone
  <2>1. Recorded(r) \in [turns : Seq(Nat), comp : Nat, sum : SUBSET Nat, count : Int, mark : Int,
                          closed : BOOLEAN]
    <3>1. r \in [turns : Seq(Nat), comp : Nat, sum : SUBSET Nat, count : Int, mark : Int,
                 closed : BOOLEAN]
      BY DEF Session
    <3>2. Recorded(r) = [r EXCEPT !.turns = new, !.comp = comp, !.count = r.count + 1]
      BY <1>5
    <3>3. r.count + 1 \in Int
      BY <1>1
    <3> QED
      BY <1>4, <1>7, <3>1, <3>2, <3>3
  <2>2. Len(new) <= cast.window
    BY <1>1, <1>2, <1>3, <1>4
  <2> QED
    BY SMTT(30), ZenonT(60), <1>1, <1>6, <1>7, <2>1, <2>2, NewIsSession DEF Session
<1>9. Hidden(Recorded(r)) \subseteq Hidden(r)
  <2> SUFFICES ASSUME NEW i \in 1..comp
               PROVE  new[i] \in {r.turns[j] : j \in 1..r.comp}
    BY <1>6 DEF Hidden
  <2>1. out + i \in 1..r.comp /\ i \in 1..Len(new)
    <3>1. comp \in Nat /\ comp <= Len(new) /\ Len(new) \in Nat /\ out \in Nat
      BY <1>3, <1>4, <1>7
    <3>2. comp + out = r.comp
      BY <1>7
    <3> QED
      BY <3>1, <3>2
  <2>2. new[i] = r.turns[out + i]
    <3>1. out + i \in 1..Len(r.turns)
      BY <1>1, <1>3, <2>1
    <3> QED
      BY <1>2, <1>4, <2>1, <3>1
  <2> QED
    BY <2>1, <2>2
<1>10. ASSUME Len(r.turns) # cast.window
       PROVE  /\ Len(Recorded(r).turns) = Len(r.turns) + 1 /\ Recorded(r).comp = r.comp
              /\ \A i \in 1..Len(r.turns) : Recorded(r).turns[i] = r.turns[i]
  <2>1. out = 0
    BY <1>1, <1>2, <1>10 DEF out
  <2> QED
    BY <1>1, <1>2, <1>4, <1>6, <2>1 DEF comp
<1> QED
  BY <1>6, <1>8, <1>9, <1>10

-----------------------------------------------------------------------------
(* The inductive invariant.  A summary that is being made knows all it     *)
(* will cover, as long as the session is not torn.                         *)

Data == [Ids -> Session]
Lists == [known : BOOLEAN, active : Ids \cup {None}, ids : SUBSET Ids]

Typed ==
    /\ cast \in Casts /\ last \in Nat /\ held \in Session
    /\ data \in Data /\ file.data \in Data
    /\ owners \in [Owners -> Lists] /\ file.owners \in [Owners -> Lists]

View == \A s \in Ids : s \in torn \/ (Whole(data[s], lost) /\ Whole(file.data[s], lost))

(* A summary in the file is the one in memory, or a later one.             *)
SumSaved ==
    \A s \in Ids : data[s] = Gone \/ file.data[s] = Gone \/ data[s].sum \subseteq file.data[s].sum

FoldKnows ==
    pass.pc = "fold" /\ pass.s \notin torn =>
        LET r == data[pass.s] IN
        /\ pass.s \in Ids /\ pass.cover \in Nat /\ pass.cover <= Len(r.turns)
        /\ r.comp <= pass.cover /\ r.sum \subseteq pass.of
        /\ \A i \in (r.comp + 1)..pass.cover : r.turns[i] \in pass.of

RepairKnows ==
    pass.pc = "repair" /\ pass.s \notin torn =>
        pass.s \in Ids /\ Hidden(data[pass.s]) \subseteq pass.of

PassTyped == pass.pc # "idle" => pass.s \in Ids /\ pass.of \in SUBSET Nat /\ pass.cover \in Nat

HeldTorn == held # Gone => pass.pc = "repair" /\ pass.s \in torn

Used == \A s \in Ids : data[s] # Gone \/ file.data[s] # Gone => s \in used

ViewInv == Typed /\ View /\ SumSaved /\ FoldKnows /\ RepairKnows /\ PassTyped /\ HeldTorn /\ Used

(* What the owners list, in memory and in the file, is there.              *)
ListInv ==
    /\ \A w \in Owners : owners[w].ids \subseteq Present(data)
    /\ \A w \in Owners : file.owners[w].ids \subseteq Present(file.data)
    /\ ListedIsSaved /\ ActiveIsListed /\ DeletedStaysDeleted /\ deleted \subseteq Ids

-----------------------------------------------------------------------------
(* What a persist writes.                                                  *)
LEMMA SavedIs ==
    ASSUME NEW d \in Data, NEW o \in [Owners -> Lists], Gone \in Session
    PROVE  /\ Saved(d, o).data \in Data /\ Saved(d, o).owners \in [Owners -> Lists]
           /\ \A s \in Ids : Saved(d, o).data[s] \in {d[s], Gone}
           /\ \A s \in Ids : s \notin Listed(o) => Saved(d, o).data[s] = Gone
           /\ \A w \in Owners : Saved(d, o).owners[w].ids \subseteq Present(Saved(d, o).data)
           /\ \A w \in Owners : o[w].ids \subseteq Present(d) =>
                 \A s \in o[w].ids : Saved(d, o).data[s] = d[s] /\ s \in Saved(d, o).owners[w].ids
<1> DEFINE f == Saved(d, o).data
           g == Saved(d, o).owners
<1>1. /\ f = [s \in Ids |-> IF s \in Listed(o) THEN d[s] ELSE Gone]
      /\ g = [w \in Owners |-> IF o[w].ids \cap Present(d) = {} THEN Unknown
                              ELSE [o[w] EXCEPT !.ids = @ \cap Present(d)]]
  BY DEF Saved
<1> HIDE DEF f, g
<1>2. f \in Data /\ \A s \in Ids : f[s] \in {d[s], Gone} /\ (s \notin Listed(o) => f[s] = Gone)
  BY <1>1 DEF Data
<1>3. Unknown \in Lists /\ Unknown.ids = {}
  BY DEF Unknown, Lists
<1>4. ASSUME NEW w \in Owners
      PROVE  /\ g[w] \in Lists /\ g[w].ids = o[w].ids \cap Present(d)
             /\ g[w].ids \subseteq Present(f)
  <2>1. o[w] \in Lists /\ o[w].ids \subseteq Listed(o)
    BY DEF Listed
  <2>2. g[w] \in Lists /\ g[w].ids = o[w].ids \cap Present(d)
    <3>1. CASE o[w].ids \cap Present(d) = {}
      BY <1>1, <1>3, <3>1
    <3>2. CASE o[w].ids \cap Present(d) # {}
      <4>1. g[w] = [o[w] EXCEPT !.ids = o[w].ids \cap Present(d)]
        BY <1>1, <3>2
      <4> QED
        BY <2>1, <4>1 DEF Lists
    <3> QED
      BY <3>1, <3>2
  <2>3. ASSUME NEW s \in o[w].ids \cap Present(d)
        PROVE  s \in Present(f)
    BY <1>1, <2>1 DEF Present
  <2> QED
    BY <2>2, <2>3
<1>5. g \in [Owners -> Lists]
  BY <1>1, <1>4
<1>6. ASSUME NEW w \in Owners, o[w].ids \subseteq Present(d), NEW s \in o[w].ids
      PROVE  f[s] = d[s] /\ s \in g[w].ids
  <2>1. s \in Ids /\ s \in Listed(o)
    BY <1>6 DEF Listed, Present
  <2> QED
    BY <1>1, <1>4, <1>6, <2>1
<1> QED
  BY <1>2, <1>4, <1>5, <1>6 DEF f, g

-----------------------------------------------------------------------------
(* What the steps do, summaries and restarts apart.                        *)

(* In d session s has its fields, one more turn, or nothing; T is torn     *)
(* afterwards.                                                             *)
MoreTurn(d, s, T) ==
    /\ \E v \in Session \ {Gone} : SameFields(v, data[s]) /\ d[s] = Recorded(v)
    /\ pass.pc = "fold" /\ pass.s = s /\ Len(data[s].turns) = cast.window => s \in T
Lost(d, s, T) == d[s] = Gone /\ (pass.s = s => s \in T)
KeptOrLost(d, T) == \A s \in Ids : SameFields(d[s], data[s]) \/ Lost(d, s, T)
Changed(d, T) == \A s \in Ids : SameFields(d[s], data[s]) \/ MoreTurn(d, s, T) \/ Lost(d, s, T)

Plain ==
    /\ cast' = cast /\ pass' = pass /\ last' \in Nat /\ lost' = lost
    /\ held' \in Session /\ (held' # Gone => held # Gone \/ (pass.pc = "repair" /\ pass.s \in torn'))
    /\ torn \subseteq torn' /\ used \subseteq used'
    /\ data' \in Data /\ owners' \in [Owners -> Lists]
    /\ Changed(data', torn')
    /\ \A s \in Ids : data'[s] # Gone => s \in used'
    /\ file' = Saved(data', owners') \/ (file' = file /\ KeptOrLost(data', torn'))

Remembered ==
    \A s \in Ids : data[s] # Gone /\ data'[s] # Gone /\ s \notin torn'
        => data[s].sum \ lost' \subseteq data'[s].sum

LEMMA PlainKeepsView ==
    ASSUME ViewInv, Plain
    PROVE  ViewInv' /\ Remembered
<1>1. /\ New \in Session /\ Gone \in Session /\ Gone.sum = {} /\ Gone.comp = 0
      /\ cast \in Casts /\ last \in Nat
  BY NewIsSession DEF ViewInv, Typed
<1>2. Session' = Session /\ Data' = Data /\ cast' = cast
  BY DEF Plain, Session, Data
<1>3. /\ file'.data \in Data /\ file'.owners \in [Owners -> Lists]
      /\ file' = file \/ \A s \in Ids : file'.data[s] \in {data'[s], Gone}
  BY <1>1, SavedIs DEF Plain, ViewInv, Typed
<1>4. Typed'
  BY <1>1, <1>2, <1>3 DEF Plain, Typed
<1>5. \A s \in Ids : data[s] \in Session /\ data'[s] \in Session
  BY DEF Plain, ViewInv, Typed, Data
<1>6. ASSUME NEW s \in Ids, MoreTurn(data', s, torn')
      PROVE  /\ data'[s].sum = data[s].sum /\ Hidden(data'[s]) \subseteq Hidden(data[s])
             /\ Len(data[s].turns) # cast.window =>
                  /\ Len(data'[s].turns) = Len(data[s].turns) + 1 /\ data'[s].comp = data[s].comp
                  /\ \A i \in 1..Len(data[s].turns) : data'[s].turns[i] = data[s].turns[i]
  <2>1. PICK v \in Session \ {Gone} : SameFields(v, data[s]) /\ data'[s] = Recorded(v)
    BY <1>6 DEF MoreTurn
  <2>2. Hidden(v) = Hidden(data[s])
    BY <2>1 DEF SameFields, Hidden
  <2> QED
    BY <1>1, <2>1, <2>2, RecordedHides DEF SameFields
<1>7. ASSUME NEW s \in Ids
      PROVE  /\ data'[s] = Gone \/ data'[s].sum = data[s].sum
             /\ Hidden(data'[s]) \subseteq Hidden(data[s])
  <2>1. Hidden(Gone) = {}
    BY <1>1 DEF Hidden
  <2>2. SameFields(data'[s], data[s]) => Hidden(data'[s]) = Hidden(data[s])
    BY DEF SameFields, Hidden
  <2> QED
    BY <1>6, <2>1, <2>2 DEF Plain, Changed, Lost, SameFields
<1>8. View'
  <2> SUFFICES ASSUME NEW s \in Ids, s \notin torn'
               PROVE  Whole(data'[s], lost') /\ Whole(file'.data[s], lost')
    BY DEF View, Whole, Hidden
  <2>1. Whole(data[s], lost') /\ Whole(file.data[s], lost')
    BY DEF Plain, ViewInv, View
  <2>2. Whole(Gone, lost')
    BY <1>1 DEF Whole
  <2>3. Whole(data'[s], lost')
    BY <1>7, <2>1, <2>2 DEF Whole
  <2> QED
    BY <1>3, <2>1, <2>2, <2>3
<1>9. SumSaved'
  <2> SUFFICES ASSUME NEW s \in Ids, data'[s] # Gone, file'.data[s] # Gone
               PROVE  data'[s].sum \subseteq file'.data[s].sum
    BY DEF SumSaved
  <2>1. data[s] = Gone => data[s].sum = {}
    BY <1>1
  <2> QED
    BY <1>3, <1>7, <2>1 DEF ViewInv, SumSaved
<1>10. PassTyped' /\ HeldTorn' /\ Used'
  BY <1>3 DEF Plain, ViewInv, PassTyped, HeldTorn, Used
<1>11. RepairKnows'
  BY <1>7 DEF Plain, ViewInv, RepairKnows, Hidden
<1>12. FoldKnows'
  <2> DEFINE s == pass.s
  <2> SUFFICES ASSUME pass.pc = "fold", s \notin torn'
               PROVE  /\ s \in Ids /\ pass.cover \in Nat /\ pass.cover <= Len(data'[s].turns)
                      /\ data'[s].comp <= pass.cover /\ data'[s].sum \subseteq pass.of
                      /\ \A i \in (data'[s].comp + 1)..pass.cover : data'[s].turns[i] \in pass.of
    BY DEF Plain, FoldKnows
  <2>1. /\ s \in Ids /\ pass.cover \in Nat /\ pass.cover <= Len(data[s].turns)
        /\ data[s].comp <= pass.cover /\ data[s].sum \subseteq pass.of
        /\ \A i \in (data[s].comp + 1)..pass.cover : data[s].turns[i] \in pass.of
        /\ Len(data[s].turns) \in Nat /\ data[s].comp \in Nat
    BY <1>5 DEF Plain, ViewInv, FoldKnows, Session
  <2>2. ~Lost(data', s, torn')
    BY DEF Lost
  <2>3. CASE SameFields(data'[s], data[s])
    BY <2>1, <2>3 DEF SameFields
  <2>4. CASE MoreTurn(data', s, torn')
    <3>1. Len(data[s].turns) # cast.window
      BY <2>4 DEF MoreTurn
    <3>2. \A i \in (data[s].comp + 1)..pass.cover : i \in 1..Len(data[s].turns)
      BY <2>1
    <3>3. /\ Len(data'[s].turns) = Len(data[s].turns) + 1 /\ data'[s].comp = data[s].comp
          /\ \A i \in 1..Len(data[s].turns) : data'[s].turns[i] = data[s].turns[i]
          /\ data'[s].sum = data[s].sum
      BY <1>6, <2>1, <2>4, <3>1
    <3>4. pass.cover <= Len(data'[s].turns)
      BY <2>1, <3>3
    <3> QED
      BY <2>1, <3>2, <3>3, <3>4
  <2> QED
    BY <2>1, <2>2, <2>3, <2>4 DEF Plain, Changed
<1>13. Remembered
  BY <1>7 DEF Remembered
<1> QED
  BY <1>4, <1>8, <1>9, <1>10, <1>11, <1>12, <1>13 DEF ViewInv

(* The lists: the step persists, or lists and changes nothing more.        *)
ListStep ==
    /\ \A w \in Owners : owners'[w].ids \subseteq Present(data')
    /\ \A s \in deleted' : data'[s] = Gone
    /\ deleted' \subseteq Ids /\ ActiveIsListed'
    /\ \/ file' = Saved(data', owners')
       \/ /\ file' = file /\ deleted' \subseteq deleted
          /\ \A w \in Owners : /\ owners'[w].ids \subseteq owners[w].ids
                              /\ \A s \in owners'[w].ids : data'[s] = data[s]

LEMMA ListStepKeeps ==
    ASSUME ListInv, ListStep, Typed, data' \in Data, owners' \in [Owners -> Lists]
    PROVE  ListInv'
<1>1. Gone \in Session
  BY NewIsSession DEF Typed
<1>2. \A s \in deleted' : s \notin Listed(owners')
  BY DEF ListStep, Listed, Present
<1>3. CASE file' = Saved(data', owners')
  <2>1. /\ \A w \in Owners : file'.owners[w].ids \subseteq Present(file'.data)
        /\ \A s \in Ids : s \notin Listed(owners') => file'.data[s] = Gone
        /\ \A w \in Owners : \A s \in owners'[w].ids :
              file'.data[s] = data'[s] /\ s \in file'.owners[w].ids
    BY <1>1, <1>3, SavedIs DEF ListStep
  <2> QED
    BY <1>2, <2>1 DEF ListInv, ListStep, ListedIsSaved, DeletedStaysDeleted, Present
<1>4. CASE file' # Saved(data', owners')
  BY <1>2, <1>4 DEF ListInv, ListStep, ListedIsSaved, DeletedStaysDeleted, Present
<1> QED
  BY <1>3, <1>4

(* The step evicts: what is to show of its sessions and lists before the   *)
(* eviction.                                                               *)
LEMMA EvictKeeps ==
    ASSUME ViewInv, ListInv, NEW l, NEW d \in Data, NEW o \in [Owners -> Lists], NEW moved,
           Evict(l, d, o, moved), cast' = cast, pass' = pass, last' \in Nat, lost' = lost,
           Changed(d, moved),
           \A s \in Ids : d[s] = Gone => data[s] = Gone \/ Lost(d, s, moved),
           \A w \in Owners : o[w].ids \subseteq Present(d),
           \A w \in Owners : o[w].active \in o[w].ids \cup evicted \cup {None},
           \/ file' = Saved(data', owners')
           \/ /\ file' = file /\ KeptOrLost(d, moved) /\ Present(data) \subseteq Present(d)
              /\ \A w \in Owners : /\ o[w].ids \subseteq owners[w].ids
                                  /\ \A s \in o[w].ids : d[s] = data[s]
    PROVE  Plain /\ ListStep
<1> DEFINE gone == {l[i] : i \in 1..Overflow(l)}
<1>1. /\ data' = [q \in Ids |-> IF q \in gone THEN Gone ELSE d[q]]
      /\ owners' = [w \in Owners |-> [o[w] EXCEPT !.ids = @ \ gone]]
      /\ evicted' = evicted \cup gone
      /\ torn' = torn \cup moved \cup {s \in gone : pass.s = s}
  BY DEF Evict
<1> HIDE DEF gone
<1>2. /\ deleted' = (deleted \cup Present(data)) \ Present(d)
      /\ used' = used \cup Present(d)
  BY DEF Evict
<1>3. Gone \in Session
  BY NewIsSession DEF ViewInv, Typed
<1>4. /\ data' \in Data
      /\ \A s \in Ids : \/ data'[s] = d[s] /\ s \notin gone
                        \/ Lost(data', s, torn')
  BY <1>1, <1>3 DEF Data, Lost
<1>5. ASSUME NEW w \in Owners
      PROVE  /\ owners'[w] \in Lists /\ owners'[w].ids = o[w].ids \ gone
             /\ owners'[w].active = o[w].active
  <2>1. o[w] \in Lists /\ owners'[w] = [o[w] EXCEPT !.ids = o[w].ids \ gone]
    BY <1>1
  <2> QED
    BY <2>1 DEF Lists
<1>6. owners' \in [Owners -> Lists]
  BY <1>1, <1>5
<1>7. Changed(data', torn') /\ (KeptOrLost(d, moved) => KeptOrLost(data', torn'))
  BY <1>1, <1>4 DEF Changed, KeptOrLost, MoreTurn, Lost
<1>8. \A s \in Ids : data'[s] # Gone => s \in used'
  BY <1>2, <1>4 DEF Present, Lost
<1>14. held' \in Session /\ (held' # Gone => held # Gone \/ (pass.pc = "repair" /\ pass.s \in torn'))
  <2>1. held' = IF pass.pc = "repair" /\ held = Gone /\ data'[pass.s] = Gone
                THEN data[pass.s] ELSE held
    BY DEF Evict
  <2>2. CASE held' = held
    BY <2>2 DEF ViewInv, Typed
  <2>3. CASE held' # held
    <3>1. pass.s \in Ids /\ held' = data[pass.s] /\ data'[pass.s] = Gone
      BY <2>1, <2>3 DEF ViewInv, PassTyped
    <3>2. held' \in Session
      BY <3>1 DEF ViewInv, Typed, Data
    <3>3. data[pass.s] = Gone \/ pass.s \in torn'
      BY <1>1, <1>4, <3>1 DEF Lost
    <3> QED
      BY <2>1, <2>3, <3>1, <3>2, <3>3
  <2> QED
    BY <2>2, <2>3
<1>9. Plain
  BY <1>1, <1>2, <1>4, <1>6, <1>7, <1>8, <1>14 DEF Plain
<1>10. ASSUME NEW w \in Owners, NEW s \in owners'[w].ids
       PROVE  s \in Present(data') /\ s \in o[w].ids /\ data'[s] = d[s]
  <2>1. s \in o[w].ids /\ s \notin gone /\ s \in Present(d)
    BY <1>5
  <2> QED
    BY <1>1, <2>1 DEF Present
<1>11. \A s \in deleted' : s \in Ids /\ d[s] = Gone /\ data'[s] = Gone
  BY <1>1, <1>2 DEF ListInv, Present
<1>12. ActiveIsListed'
  <2> SUFFICES ASSUME NEW w \in Owners
               PROVE  owners'[w].active \in owners'[w].ids \cup evicted' \cup {None}
    BY DEF ActiveIsListed
  <2>1. o[w].active \in o[w].ids \cup evicted \cup {None}
    OBVIOUS
  <2>2. evicted' = evicted \cup gone
    BY <1>1
  <2> QED
    BY <1>5, <2>1, <2>2
<1>13. file' = file /\ Present(data) \subseteq Present(d) => deleted' \subseteq deleted
  BY <1>2
<1> QED
  BY <1>5, <1>9, <1>10, <1>11, <1>12, <1>13 DEF ListStep

-----------------------------------------------------------------------------
(* The steps.                                                              *)

LEMMA ClosedFlag ==
    ASSUME cast \in Casts, NEW v \in Session, v # Gone, NEW b \in BOOLEAN
    PROVE  LET u == [v EXCEPT !.closed = b] IN
           u \in Session /\ u # Gone /\ SameFields(u, v) /\ (v.closed = b => u = v)
<1> DEFINE u == [v EXCEPT !.closed = b]
<1>1. v.count \in Int /\ v.count >= 0
  BY DEF Session
<1>2. u.turns = v.turns /\ u.comp = v.comp /\ u.sum = v.sum /\ u.count = v.count
  BY DEF Session
<1>4. u \in [turns : Seq(Nat), comp : Nat, sum : SUBSET Nat, count : Int, mark : Int, closed : BOOLEAN]
  BY DEF Session
<1>5. v.closed = b => u = v
  BY DEF Session
<1> HIDE DEF u
<1>6. u.count # Gone.count
  BY <1>1, <1>2, NewIsSession
<1>3. u # Gone
  BY <1>6
<1> QED
  BY <1>1, <1>2, <1>3, <1>4, <1>5 DEF Session, SameFields, u

LEMMA ValueIs ==
    ASSUME ViewInv, NEW s \in Ids
    PROVE  /\ data[s] \in Session /\ ValueOf(s) \in Session /\ ValueOf(s) # Gone
           /\ SameFields(ValueOf(s), data[s]) /\ (data[s] # Gone => ValueOf(s) = data[s])
           /\ cast \in Casts /\ last \in Nat
  BY NewIsSession DEF ViewInv, Typed, Data, ValueOf, SameFields

LEMMA TurnSteps ==
    ASSUME ViewInv, ListInv, NEW s \in Ids, NEW w \in Owners,
           BeginTurn(s, w) \/ BeginBlank(s, w) \/ CloseSession(w, s)
    PROVE  Plain /\ ListStep
<1>1. /\ cast \in Casts /\ last \in Nat /\ data \in Data /\ owners \in [Owners -> Lists]
      /\ \A v \in Owners : owners[v].ids \subseteq Present(data)
      /\ \A v \in Owners : owners[v].active \in owners[v].ids \cup evicted \cup {None}
  BY DEF ViewInv, Typed, ListInv, ActiveIsListed
<1>2. CASE BeginTurn(s, w)
  <2> DEFINE v == ValueOf(s)
             u == [v EXCEPT !.closed = FALSE]
             d == [data EXCEPT ![s] = u]
  <2>1. /\ u \in Session /\ u # Gone /\ SameFields(u, data[s])
        /\ (data[s] # Gone /\ ~v.closed => u = data[s])
    <3>1. /\ v \in Session /\ v # Gone /\ SameFields(v, data[s])
          /\ (data[s] # Gone => v = data[s]) /\ v.closed \in BOOLEAN
      BY ValueIs DEF Session
    <3>2. u \in Session /\ u # Gone /\ SameFields(u, v) /\ (v.closed = FALSE => u = v)
      BY <1>1, <3>1, ClosedFlag
    <3> QED
      BY <3>1, <3>2 DEF SameFields
  <2>2. d \in Data /\ d[s] = u /\ \A q \in Ids \ {s} : d[q] = data[q]
    BY <1>1, <2>1 DEF Data
  <2>3. Evict(Touched(s), d, owners, {}) /\ cast' = cast /\ pass' = pass /\ last' = last /\ lost' = lost
    BY <1>2 DEF BeginTurn
  <2>4. file' = Saved(data', owners') \/ (file' = file /\ ~v.closed)
    BY <1>2, ValueIs DEF BeginTurn, Persist, Session
  <2> HIDE DEF d, u, v
  <2>5. /\ KeptOrLost(d, {}) /\ Changed(d, {})
        /\ \A q \in Ids : d[q] = Gone => data[q] = Gone
    BY <2>1, <2>2 DEF KeptOrLost, Changed, SameFields
  <2>6. Present(data) \subseteq Present(d)
    BY <2>1, <2>2 DEF Present
  <2>7. ~v.closed => \A x \in Owners : \A q \in owners[x].ids : d[q] = data[q]
    BY <1>1, <2>1, <2>2 DEF Present
  <2>8. \A x \in Owners : owners[x].ids \subseteq Present(d)
    BY <1>1, <2>6
  <2> QED
    BY <1>1, <2>2, <2>3, <2>4, <2>5, <2>6, <2>7, <2>8, EvictKeeps
<1>3. CASE BeginBlank(s, w)
  BY <1>1, <1>3 DEF BeginBlank, Plain, Changed, KeptOrLost, SameFields, ListStep, ListInv, ViewInv,
                    Typed, Used, ActiveIsListed, DeletedStaysDeleted
<1>4. CASE CloseSession(w, s)
  <2> DEFINE u == [data[s] EXCEPT !.closed = TRUE]
  <2>1. u \in Session /\ u # Gone /\ SameFields(u, data[s]) /\ data[s] # Gone
    BY <1>4, ValueIs, ClosedFlag DEF CloseSession
  <2>2. data' = [data EXCEPT ![s] = u]
    BY <1>4 DEF CloseSession
  <2>3. /\ cast' = cast /\ pass' = pass /\ last' = last /\ owners' = owners /\ torn' = torn
        /\ held' = held /\ lost' = lost
        /\ used' = used /\ evicted' = evicted /\ deleted' = deleted /\ file' = Saved(data', owners')
    BY <1>4 DEF CloseSession, Persist
  <2> HIDE DEF u
  <2>4. data' \in Data /\ data'[s] = u /\ \A q \in Ids \ {s} : data'[q] = data[q]
    BY <1>1, <2>1, <2>2 DEF Data
  <2>5. Plain
    BY <1>1, <2>1, <2>3, <2>4 DEF Plain, Changed, SameFields, ViewInv, Typed, Used
  <2>6. ListStep
    BY <1>1, <2>1, <2>3, <2>4 DEF ListStep, ListInv, ActiveIsListed, DeletedStaysDeleted, Present
  <2> QED
    BY <2>5, <2>6
<1> QED
  BY <1>2, <1>3, <1>4

LEMMA RecordSteps ==
    ASSUME ViewInv, ListInv, NEW s \in Ids, Record(s) \/ RecordReaction(s)
    PROVE  Plain /\ ListStep
<1> DEFINE v == ValueOf(s)
           u == Recorded(v)
           d == [data EXCEPT ![s] = u]
<1>1. /\ cast \in Casts /\ last \in Nat /\ data \in Data /\ owners \in [Owners -> Lists]
      /\ \A x \in Owners : owners[x].ids \subseteq Present(data)
      /\ \A x \in Owners : owners[x].active \in owners[x].ids \cup evicted \cup {None}
  BY DEF ViewInv, Typed, ListInv, ActiveIsListed
<1>2. /\ v \in Session /\ v # Gone /\ SameFields(v, data[s]) /\ (data[s] # Gone => v = data[s])
  BY ValueIs
<1> HIDE DEF v
<1>3. u \in Session /\ u # Gone
  BY <1>1, <1>2, RecordedHides
<1>4. d \in Data /\ d[s] = u /\ \A q \in Ids \ {s} : d[q] = data[q]
  BY <1>1, <1>3 DEF Data
<1>5. ASSUME NEW T, Slid(s) \subseteq T
      PROVE  Changed(d, T)
  <2>1. pass.pc = "fold" /\ pass.s = s /\ Len(data[s].turns) = cast.window => s \in T
    BY <1>2, <1>5 DEF Slid, SameFields, v
  <2>2. MoreTurn(d, s, T)
    BY <1>2, <1>4, <2>1 DEF MoreTurn
  <2> QED
    BY <1>4, <2>2 DEF Changed, SameFields
<1>6. /\ Present(data) \subseteq Present(d) /\ s \in Present(d)
      /\ \A q \in Ids : d[q] = Gone => data[q] = Gone
  BY <1>3, <1>4 DEF Present
<1> HIDE DEF u, d
<1>7. CASE RecordReaction(s)
  <2>1. /\ Evict(Touched(s), d, owners, Slid(s)) /\ cast' = cast /\ pass' = pass
        /\ last' \in Nat /\ lost' = lost /\ file' = Saved(data', owners')
    BY <1>1, <1>7 DEF RecordReaction, Persist, d, u, v
  <2>2. Changed(d, Slid(s))
    BY <1>5
  <2>3. \A x \in Owners : owners[x].ids \subseteq Present(d)
    BY <1>1, <1>6
  <2> QED
    BY <1>1, <1>4, <1>6, <2>1, <2>2, <2>3, EvictKeeps
<1>8. CASE Record(s)
  <2> DEFINE w == turn[s]
  <2>1. /\ cast' = cast /\ pass' = pass /\ used' = used /\ evicted' = evicted
        /\ deleted' = deleted /\ lost' = lost /\ held' = held /\ held \in Session
    BY <1>8 DEF Record, ViewInv, Typed
  <2>2. CASE data[s] = Gone
    <3>1. data' = data /\ last' = last /\ owners' = owners /\ torn' = torn /\ file' = file
      BY <1>8, <2>2 DEF Record
    <3> QED
      BY <1>1, <2>1, <3>1
         DEF Plain, Changed, KeptOrLost, SameFields, ListStep, ListInv, ViewInv, Used,
             ActiveIsListed, DeletedStaysDeleted
  <2>3. CASE data[s] # Gone
    <3>1. /\ data' = [data EXCEPT ![s] = Recorded(data[s])] /\ last' = last + 1
          /\ torn' = torn \cup Slid(s) /\ file' = Saved(data', owners')
          /\ \/ owners' = owners
             \/ owners' = [owners EXCEPT ![w].active = s, ![w].ids = @ \cup {s}]
      BY <1>8, <2>3 DEF Record, Persist
    <3>2. data' = d
      BY <1>2, <2>3, <3>1 DEF d, u
    <3>3. Changed(data', torn') /\ torn \subseteq torn' /\ last' \in Nat
      <4>1. Slid(s) \subseteq torn' /\ torn \subseteq torn' /\ last' \in Nat
        BY <1>1, <3>1
      <4>2. Changed(d, torn')
        BY <1>5, <4>1
      <4> QED
        BY <3>2, <4>1, <4>2
    <3>4. /\ owners' \in [Owners -> Lists]
          /\ \A x \in Owners :
                owners'[x] = owners[x] \/ (owners'[x].ids = owners[x].ids \cup {s} /\ owners'[x].active = s)
      <4>1. CASE owners' = owners
        BY <1>1, <4>1
      <4>2. CASE owners' = [owners EXCEPT ![w].active = s, ![w].ids = @ \cup {s}]
        <5>1. ASSUME NEW x \in Owners
              PROVE  /\ owners'[x] \in Lists
                     /\ owners'[x] = owners[x]
                           \/ (owners'[x].ids = owners[x].ids \cup {s} /\ owners'[x].active = s)
          <6>0. owners[x] \in Lists
            BY <1>1
          <6>1. CASE x # w
            BY <1>1, <4>2, <6>0, <6>1
          <6>2. CASE x = w
            <7>1. owners'[x] = [owners[x] EXCEPT !.active = s, !.ids = owners[x].ids \cup {s}]
              BY <1>1, <4>2, <6>2
            <7> QED
              BY <6>0, <7>1 DEF Lists
          <6> QED
            BY <6>1, <6>2
        <5>2. owners' = [x \in Owners |-> owners'[x]]
          BY <1>1, <4>2
        <5> QED
          BY <5>1, <5>2
      <4> QED
        BY <3>1, <4>1, <4>2
    <3>5. \A x \in Ids : data'[x] # Gone => x \in used'
      BY <2>1, <2>3, <1>4, <3>2 DEF ViewInv, Used
    <3>6. Plain
      BY <1>4, <2>1, <3>1, <3>2, <3>3, <3>4, <3>5 DEF Plain
    <3>7. \A x \in Owners : owners'[x].ids \subseteq Present(data')
      BY <1>1, <1>6, <3>2, <3>4
    <3>8. \A q \in deleted : data'[q] = Gone /\ q \in Ids
      BY <1>4, <2>3, <3>2 DEF ListInv, DeletedStaysDeleted
    <3>9. ActiveIsListed'
      BY <1>1, <2>1, <3>4 DEF ActiveIsListed
    <3> QED
      BY <2>1, <3>1, <3>6, <3>7, <3>8, <3>9 DEF ListStep
  <2> QED
    BY <2>2, <2>3
<1> QED
  BY <1>7, <1>8

LEMMA CreateStep ==
    ASSUME ViewInv, ListInv, NEW s \in Ids, NEW w \in Owners, Create(w, s)
    PROVE  Plain /\ ListStep
<1> DEFINE d == [data EXCEPT ![s] = New]
           o == [owners EXCEPT ![w] = [known |-> TRUE, active |-> s, ids |-> @.ids \cup {s}]]
<1>1. /\ cast \in Casts /\ last \in Nat /\ data \in Data /\ owners \in [Owners -> Lists]
      /\ \A x \in Owners : owners[x].ids \subseteq Present(data)
      /\ \A x \in Owners : owners[x].active \in owners[x].ids \cup evicted \cup {None}
  BY DEF ViewInv, Typed, ListInv, ActiveIsListed
<1>2. data[s] = Gone /\ New \in Session /\ New # Gone /\ SameFields(New, Gone)
  BY <1>1, NewIsSession DEF Create, Fresh, ViewInv, Used
<1>3. d \in Data /\ d[s] = New /\ \A q \in Ids \ {s} : d[q] = data[q]
  BY <1>1, <1>2 DEF Data
<1>4. ASSUME NEW x \in Owners
      PROVE  /\ o[x] \in Lists
             /\ o[x] = owners[x] \/ (o[x].ids = owners[x].ids \cup {s} /\ o[x].active = s)
  BY <1>1 DEF Lists
<1>5. o \in [Owners -> Lists]
  BY <1>1, <1>4
<1>6. /\ Evict(Touched(s), d, o, {}) /\ cast' = cast /\ pass' = pass
      /\ last' \in Nat /\ lost' = lost /\ file' = Saved(data', owners')
  BY <1>1 DEF Create, Persist
<1> HIDE DEF d, o
<1>7. Changed(d, {}) /\ \A q \in Ids : d[q] = Gone => data[q] = Gone
  BY <1>2, <1>3 DEF Changed, SameFields
<1>8. \A x \in Owners : o[x].ids \subseteq Present(d)
  BY <1>1, <1>2, <1>3, <1>4 DEF Present
<1>9. \A x \in Owners : o[x].active \in o[x].ids \cup evicted \cup {None}
  BY <1>1, <1>4
<1> QED
  BY <1>3, <1>5, <1>6, <1>7, <1>8, <1>9, EvictKeeps

LEMMA DeleteStep ==
    ASSUME ViewInv, ListInv, NEW s \in Ids, NEW w \in Owners, Delete(w, s)
    PROVE  Plain /\ ListStep
<1> DEFINE gone == IF Shared(w, s) THEN {} ELSE {s}
<1>1. /\ cast \in Casts /\ last \in Nat /\ data \in Data /\ owners \in [Owners -> Lists]
      /\ \A x \in Owners : owners[x].ids \subseteq Present(data)
      /\ \A x \in Owners : owners[x].active \in owners[x].ids \cup evicted \cup {None}
      /\ New \in Session /\ Gone \in Session /\ New # Gone /\ SameFields(New, Gone)
  BY NewIsSession DEF ViewInv, Typed, ListInv, ActiveIsListed
<1>2. PICK a \in ActiveAfter(w, s) :
          LET fresh == {f \in {a} \ {None} : Fresh(f)} IN
          Evict(SelectSeq(lru, LAMBDA q : q \notin gone) \o SetToSeq(fresh),
                [q \in Ids |-> IF q \in gone THEN Gone ELSE IF q \in fresh THEN New ELSE data[q]],
                [owners EXCEPT ![w].ids = (@ \ {s}) \cup fresh, ![w].active = a],
                {q \in gone : pass.s = q})
  BY DEF Delete
<1> DEFINE fresh == {f \in {a} \ {None} : Fresh(f)}
           d == [q \in Ids |-> IF q \in gone THEN Gone ELSE IF q \in fresh THEN New ELSE data[q]]
           o == [owners EXCEPT ![w].ids = (@ \ {s}) \cup fresh, ![w].active = a]
           moved == {q \in gone : pass.s = q}
<1>3. /\ cast' = cast /\ pass' = pass /\ last' \in Nat /\ lost' = lost
      /\ file' = Saved(data', owners')
      /\ s \in owners[w].ids
  BY <1>1 DEF Delete, Persist
<1>4. \E l : Evict(l, d, o, moved)
  BY <1>2, Zenon
<1>5. /\ a \in Ids \cup {None} /\ fresh \subseteq {a} /\ fresh \subseteq Ids
      /\ a \in (owners[w].ids \ {s}) \cup fresh \cup evicted \cup {None}
  <2>1. owners[w] \in Lists
    BY <1>1
  <2>2. CASE owners[w].active # s
    BY <1>1, <1>2, <2>1, <2>2 DEF ActiveAfter, Lists, Fresh, StoreConstants
  <2>3. CASE owners[w].active = s /\ (owners[w].ids \ {s}) \cap Present(data) # {}
    BY <1>2, <2>1, <2>3 DEF ActiveAfter, Lists, Fresh
  <2>4. CASE owners[w].active = s /\ (owners[w].ids \ {s}) \cap Present(data) = {}
    BY <1>2, <2>4, StoreConstants DEF ActiveAfter
  <2> QED
    BY <2>2, <2>3, <2>4
<1>6. \A q \in fresh : data[q] = Gone /\ q \notin owners[w].ids /\ q # s
  BY <1>1, <1>3, <1>5 DEF Fresh, ViewInv, Used, Present
<1>7. d \in Data
  BY <1>1 DEF Data
<1>8. ASSUME NEW x \in Owners
      PROVE  /\ o[x] \in Lists
             /\ x # w => o[x] = owners[x]
             /\ x = w => o[x].ids = (owners[w].ids \ {s}) \cup fresh /\ o[x].active = a
  <2>1. owners[x] \in Lists
    BY <1>1
  <2>2. CASE x # w
    BY <1>1, <2>1, <2>2
  <2>3. CASE x = w
    <3> DEFINE e == [owners[w] EXCEPT !.ids = (owners[w].ids \ {s}) \cup fresh, !.active = a]
    <3>1. o[x] = e
      BY <1>1, <2>3
    <3>2. owners[w].ids \subseteq Ids /\ owners[w].known \in BOOLEAN
      BY <2>1, <2>3 DEF Lists
    <3>3. e.ids = (owners[w].ids \ {s}) \cup fresh /\ e.active = a /\ e \in Lists
      BY <1>5, <2>1, <2>3, <3>2 DEF Lists
    <3> HIDE DEF e, o
    <3> QED
      BY <2>3, <3>1, <3>3
  <2> QED
    BY <2>2, <2>3
<1>9. o \in [Owners -> Lists]
  BY <1>1, <1>8
<1>10. /\ Changed(d, moved)
       /\ \A q \in Ids : d[q] = Gone => data[q] = Gone \/ Lost(d, q, moved)
  BY <1>1, <1>6 DEF Changed, SameFields, Lost
<1> HIDE DEF o
<1>11. \A x \in Owners : o[x].ids \subseteq Present(d)
  <2> SUFFICES ASSUME NEW x \in Owners, NEW q \in o[x].ids
               PROVE  q \in Present(d)
    OBVIOUS
  <2>1. CASE x # w
    <3>1. q \in owners[x].ids /\ q \in Present(data)
      BY <1>1, <1>8, <2>1
    <3>2. q = s => gone = {}
      BY <2>1, <3>1 DEF Shared
    <3> QED
      BY <1>1, <3>1, <3>2 DEF Present
  <2>2. CASE x = w
    <3>1. q \in fresh \/ (q \in Present(data) /\ q # s)
      BY <1>1, <1>8, <2>2
    <3>2. q \in fresh => q # s
      BY <1>6
    <3> QED
      BY <1>1, <1>5, <3>1, <3>2 DEF Present
  <2> QED
    BY <2>1, <2>2
<1> HIDE DEF d, moved
<1>12. \A x \in Owners : o[x].active \in o[x].ids \cup evicted \cup {None}
  BY <1>1, <1>5, <1>8
<1> QED
  BY <1>3, <1>4, <1>7, <1>9, <1>10, <1>11, <1>12, EvictKeeps

(* The fold that a visit comes to: with the session it began with, what it *)
(* covers is hidden already or among what the summary is made from.        *)
LEMMA FoldIs ==
    ASSUME cast \in Casts, NEW s \in Ids, NEW o \in Session, NEW r \in Session,
           FoldOf(s, o, r) # Idle
    PROVE  LET p == FoldOf(s, o, r) IN
           /\ p.pc = "fold" /\ p.s = s /\ p.of \in SUBSET Nat /\ p.cover \in Nat
           /\ o = r => /\ p.cover <= Len(r.turns) /\ r.comp <= p.cover /\ r.sum \subseteq p.of
                       /\ \A i \in (r.comp + 1)..p.cover : r.turns[i] \in p.of
<1> DEFINE cover == Len(o.turns) - cast.keep
<1>1. /\ FoldOf(s, o, r) = [pc |-> "fold", s |-> s, cover |-> cover, of |-> Folded(r)]
      /\ Len(o.turns) - o.comp > cast.keep
  BY DEF FoldOf
<1>2. /\ r.turns \in Seq(Nat) /\ r.comp \in Nat /\ r.sum \subseteq Nat /\ Len(r.turns) \in Nat
      /\ o.comp \in Nat /\ Len(o.turns) \in Nat /\ cast.keep \in Nat \ {0}
  <2>1. cast.keep \in Nat \ {0}
    BY NewIsSession
  <2> QED
    BY <2>1 DEF Session
<1>3. cover \in Nat /\ cover <= Len(o.turns) /\ o.comp <= cover
  <2>1. ASSUME NEW n \in Nat, NEW c \in Nat, NEW k \in Nat \ {0}, n - c > k
        PROVE  n - k \in Nat /\ n - k <= n /\ c <= n - k
    BY <2>1
  <2>2. Len(o.turns) \in Nat /\ o.comp \in Nat /\ cast.keep \in Nat \ {0} /\ Len(o.turns) - o.comp > cast.keep
    BY <1>1, <1>2
  <2>3. Len(o.turns) - cast.keep \in Nat /\ Len(o.turns) - cast.keep <= Len(o.turns)
        /\ o.comp <= Len(o.turns) - cast.keep
    BY <2>1, <2>2
  <2> QED
    BY <2>3
<1>4. /\ r.sum \subseteq Folded(r)
      /\ \A i \in (r.comp + 1)..(Len(r.turns) - cast.keep) : r.turns[i] \in Folded(r)
  BY DEF Folded
<1>5. \A i \in (r.comp + 1)..(Len(r.turns) - cast.keep) : r.turns[i] \in Nat
  <2> TAKE i \in (r.comp + 1)..(Len(r.turns) - cast.keep)
  <2>1. ASSUME NEW n \in Nat, NEW c \in Nat, NEW k \in Nat \ {0}, NEW j \in (c + 1)..(n - k)
        PROVE  j \in 1..n
    OBVIOUS
  <2>2. i \in 1..Len(r.turns)
    BY <1>2, <2>1
  <2> QED
    BY <1>2, <2>2, ElementOfSeq
<1>6. Folded(r) \subseteq Nat
  BY <1>2, <1>5 DEF Folded
<1> QED
  BY <1>1, <1>3, <1>4, <1>6

LEMMA FoldStarts ==
    ASSUME cast \in Casts, cast' = cast, NEW s \in Ids, NEW o \in Session,
           data' \in Data, pass' = FoldOf(s, o, data'[s]), held' = Gone,
           s \notin torn' => o = data'[s]
    PROVE  FoldKnows' /\ RepairKnows' /\ PassTyped' /\ HeldTorn'
<1>1. CASE pass' = Idle
  BY <1>1 DEF Idle, FoldKnows, RepairKnows, PassTyped, HeldTorn
<1>2. CASE pass' # Idle
  <2>1. data'[s] \in Session
    BY DEF Data
  <2>2. /\ pass'.pc = "fold" /\ pass'.s = s /\ pass'.of \in SUBSET Nat /\ pass'.cover \in Nat
        /\ o = data'[s] =>
              /\ pass'.cover <= Len(data'[s].turns) /\ data'[s].comp <= pass'.cover
              /\ data'[s].sum \subseteq pass'.of
              /\ \A i \in (data'[s].comp + 1)..pass'.cover : data'[s].turns[i] \in pass'.of
    BY <1>2, <2>1, FoldIs
  <2> QED
    BY <2>2 DEF FoldKnows, RepairKnows, PassTyped, HeldTorn
<1> QED
  BY <1>1, <1>2

(* A summary is asked for, or there is none after all.                     *)
LEMMA SummaryStarts ==
    ASSUME ViewInv, ListInv,
           FoldFails \/ (\E s \in Ids : StartFold(s) \/ StartRepair(s)) \/ UNCHANGED vars
    PROVE  ViewInv' /\ Remembered /\ ListInv'
<1>1. /\ cast' = cast /\ data' = data /\ owners' = owners /\ file' = file /\ last' = last
      /\ torn' = torn /\ used' = used /\ evicted' = evicted /\ deleted' = deleted
      /\ held' = held /\ lost' = lost
  BY DEF FoldFails, StartFold, StartRepair, vars
<1>2. ListInv' /\ Remembered
  BY <1>1 DEF ListInv, ListedIsSaved, ActiveIsListed, DeletedStaysDeleted, Present, Listed, Remembered
<1>3. Typed' /\ View' /\ SumSaved' /\ Used'
  <2>1. Session' = Session /\ Data' = Data
    BY <1>1 DEF Session, Data
  <2> QED
    BY <1>1, <2>1 DEF ViewInv, Typed, View, Whole, Hidden, SumSaved, Used
<1>4. FoldKnows' /\ RepairKnows' /\ PassTyped' /\ HeldTorn'
  <2>1. CASE FoldFails
    <3>1. held = Gone
      BY <2>1 DEF ViewInv, HeldTorn, FoldFails
    <3> QED
      BY <1>1, <2>1, <3>1 DEF FoldFails, Idle, FoldKnows, RepairKnows, PassTyped, HeldTorn
  <2>2. CASE UNCHANGED vars
    BY <2>2 DEF vars, ViewInv, FoldKnows, RepairKnows, PassTyped, HeldTorn, Hidden
  <2>3. ASSUME NEW s \in Ids, StartFold(s)
        PROVE  FoldKnows' /\ RepairKnows' /\ PassTyped' /\ HeldTorn'
    <3>1. pass' = FoldOf(s, data'[s], data'[s]) /\ held' = Gone /\ data' \in Data
      BY <1>1, <2>3 DEF StartFold, ViewInv, Typed, HeldTorn
    <3>2. cast \in Casts /\ data'[s] \in Session
      BY <1>1, ValueIs
    <3> QED
      BY <1>1, <3>1, <3>2, FoldStarts
  <2>4. ASSUME NEW s \in Ids, StartRepair(s)
        PROVE  FoldKnows' /\ RepairKnows' /\ PassTyped' /\ HeldTorn'
    <3> DEFINE r == data[s]
    <3>1. /\ pass' = [pc |-> "repair", s |-> s, cover |-> r.comp, of |-> Hidden(r)]
          /\ held = Gone
      BY <2>4 DEF StartRepair, ViewInv, HeldTorn
    <3>2. r.turns \in Seq(Nat) /\ r.comp \in Nat /\ r.comp <= Len(r.turns)
      BY ValueIs DEF Session
    <3>3. Hidden(r) \subseteq Nat
      BY <3>2 DEF Hidden
    <3> QED
      BY <1>1, <3>1, <3>2, <3>3 DEF FoldKnows, RepairKnows, PassTyped, HeldTorn, Hidden
  <2> QED
    BY <2>1, <2>2, <2>3, <2>4
<1> QED
  BY <1>2, <1>3, <1>4 DEF ViewInv

(* A summary is put over the session it was made for; what it leaves out   *)
(* is lost.                                                                *)
Summarised(u) ==
    LET r == data[pass.s] IN
    /\ r # Gone /\ data' = [data EXCEPT ![pass.s] = u] /\ file' = Saved(data', owners)
    /\ u \in Session /\ u # Gone /\ lost \subseteq lost'
    /\ pass.s \notin torn => Whole(u, lost') /\ r.sum \ lost' \subseteq u.sum

LEMMA SummaryEnds ==
    ASSUME ViewInv, ListInv, FinishFold \/ FinishRepair \/ RepairFails
    PROVE  (data' = data /\ file' = file /\ lost' = lost) \/ (\E u : Summarised(u))
<1> DEFINE s == pass.s
           r == data[s]
<1>1. s \in Ids /\ pass.of \in SUBSET Nat /\ pass.cover \in Nat
  BY DEF ViewInv, PassTyped, FinishFold, FinishRepair, RepairFails
<1>2. /\ r \in Session /\ r.turns \in Seq(Nat) /\ r.comp \in Nat /\ r.comp <= Len(r.turns)
      /\ Len(r.turns) \in Nat /\ r.count \in Int /\ (r # Gone => r.count >= 0)
      /\ data \in Data /\ Gone.count = -1
  <2>1. r \in Session /\ data \in Data /\ cast \in Casts
    BY <1>1, ValueIs DEF ViewInv, Typed
  <2>2. Gone.count = -1
    BY <2>1, NewIsSession
  <2> HIDE DEF r
  <2> QED
    BY <2>1, <2>2 DEF Session
<1>3. CASE FinishFold /\ r # Gone
  <2>0. PICK text \in Texts : /\ data' = [data EXCEPT ![s] = Compacted(data[s], text)]
                              /\ lost' = lost \cup LeftOut(data[s], text)
                              /\ file' = Saved(data', owners)
    BY <1>3 DEF FinishFold
  <2> DEFINE u == Compacted(r, text)
             comp == IF Boundary(r) > r.comp THEN Boundary(r) ELSE r.comp
  <2>1. /\ data' = [data EXCEPT ![s] = u] /\ file' = Saved(data', owners)
        /\ lost' = lost \cup (pass.of \ text) \cup (IF r.sum = {} THEN Hidden(r) ELSE {})
        /\ text \subseteq pass.of
    BY <2>0 DEF Texts, LeftOut
  <2>2. Boundary(r) \in Nat /\ Boundary(r) <= Len(r.turns)
    BY <1>1, <1>2 DEF Boundary
  <2>3. u = [r EXCEPT !.sum = text, !.comp = comp, !.mark = r.count]
    BY DEF Compacted
  <2>4. comp \in Nat /\ comp <= Len(r.turns)
    BY <1>2, <2>2
  <2>5. /\ u.sum = text /\ u.comp = comp /\ u.turns = r.turns /\ u.count = r.count
        /\ u \in [turns : Seq(Nat), comp : Nat, sum : SUBSET Nat, count : Int, mark : Int,
                 closed : BOOLEAN]
    BY <1>1, <1>2, <2>1, <2>3, <2>4 DEF Session
  <2> HIDE DEF u
  <2>6. u \in Session /\ u # Gone
    BY <1>2, <1>3, <2>4, <2>5 DEF Session
  <2>7. ASSUME s \notin torn
        PROVE  Whole(u, lost') /\ r.sum \ lost' \subseteq u.sum
    <3>1. /\ pass.cover <= Len(r.turns) /\ r.comp <= pass.cover /\ r.sum \subseteq pass.of
          /\ \A i \in (r.comp + 1)..pass.cover : r.turns[i] \in pass.of
      BY <1>3, <2>7 DEF FinishFold, ViewInv, FoldKnows
    <3>2. comp = pass.cover
      BY <1>1, <1>2, <3>1 DEF Boundary
    <3>3. pass.of \subseteq text \cup lost' /\ lost \subseteq lost'
      BY <2>1
    <3>4. Hidden(r) \subseteq text \cup lost'
      <4>1. CASE r.sum = {}
        BY <2>1, <4>1
      <4>2. CASE r.sum # {}
        <5>1. Hidden(r) \subseteq r.sum \cup lost
          BY <1>1, <2>7, <4>2 DEF ViewInv, View, Whole
        <5> QED
          BY <3>1, <3>3, <5>1
      <4> QED
        BY <4>1, <4>2
    <3>5. ASSUME NEW i \in 1..comp
          PROVE  r.turns[i] \in text \cup lost'
      <4>1. CASE i <= r.comp
        <5>1. r.turns[i] \in Hidden(r)
          BY <1>2, <4>1 DEF Hidden
        <5> QED
          BY <3>4, <5>1
      <4>2. CASE ~(i <= r.comp)
        <5>1. i \in (r.comp + 1)..pass.cover
          BY <1>1, <1>2, <2>4, <3>2, <4>2
        <5> QED
          BY <3>1, <3>3, <5>1
      <4> QED
        BY <4>1, <4>2
    <3>6. Whole(u, lost')
      BY <2>5, <3>5 DEF Whole, Hidden
    <3> QED
      BY <2>5, <3>1, <3>3, <3>6
  <2> QED
    BY <1>3, <2>1, <2>6, <2>7 DEF Summarised
<1>4. CASE FinishRepair /\ ~(r = Gone \/ ~Unrepaired(r))
  <2>0. PICK text \in Texts : /\ data' = [data EXCEPT ![s].sum = text]
                              /\ lost' = lost \cup (pass.of \ text)
                              /\ file' = Saved(data', owners)
    BY <1>4 DEF FinishRepair
  <2> DEFINE u == [r EXCEPT !.sum = text]
  <2>1. file' = Saved(data', owners) /\ text \subseteq pass.of
    BY <2>0 DEF Texts
  <2>2. data' = [data EXCEPT ![s] = u]
    BY <1>1, <1>2, <2>0
  <2>3. /\ u.sum = text /\ u.comp = r.comp /\ u.turns = r.turns /\ u.count = r.count
        /\ u \in [turns : Seq(Nat), comp : Nat, sum : SUBSET Nat, count : Int, mark : Int,
                 closed : BOOLEAN]
    BY <1>1, <1>2, <2>1 DEF Session
  <2> HIDE DEF u
  <2>4. u \in Session /\ u # Gone
    BY <1>2, <1>4, <2>3 DEF Session
  <2>5. ASSUME s \notin torn
        PROVE  Whole(u, lost') /\ r.sum \ lost' \subseteq u.sum
    <3>1. Hidden(r) \subseteq pass.of
      BY <1>4, <2>5 DEF FinishRepair, ViewInv, RepairKnows
    <3>2. pass.of \subseteq text \cup lost' /\ r.sum = {}
      BY <1>4, <2>0, <2>1 DEF Unrepaired
    <3>3. Hidden(u) = Hidden(r)
      BY <2>3 DEF Hidden
    <3> QED
      BY <2>3, <3>1, <3>2, <3>3 DEF Whole
  <2> QED
    BY <1>4, <2>0, <2>1, <2>2, <2>4, <2>5 DEF Summarised
<1>5. CASE \/ FinishFold /\ r = Gone
           \/ FinishRepair /\ (r = Gone \/ ~Unrepaired(r))
           \/ RepairFails
  BY <1>5 DEF FinishFold, FinishRepair, RepairFails
<1> QED
  BY <1>3, <1>4, <1>5

LEMMA SummaryEndKeeps ==
    ASSUME ViewInv, ListInv, FinishFold \/ FinishRepair \/ RepairFails
    PROVE  ViewInv' /\ Remembered /\ ListInv'
<1>1. /\ cast' = cast /\ owners' = owners /\ last' = last
      /\ torn' = torn /\ used' = used /\ evicted' = evicted /\ deleted' = deleted
  BY DEF FinishFold, FinishRepair, RepairFails, GoOn
<1>3. /\ Session' = Session /\ Data' = Data /\ Gone \in Session /\ Gone.sum = {}
      /\ data \in Data /\ owners \in [Owners -> Lists] /\ held \in Session /\ cast \in Casts
  BY <1>1, NewIsSession DEF Session, Data, ViewInv, Typed
<1>2. ASSUME data' \in Data
      PROVE  FoldKnows' /\ RepairKnows' /\ PassTyped' /\ HeldTorn' /\ held' \in Session
  <2>1. CASE FinishFold
    <3>1. held = Gone /\ held' = Gone /\ pass' = Idle
      BY <2>1 DEF FinishFold, ViewInv, HeldTorn
    <3> QED
      BY <1>3, <3>1 DEF Idle, FoldKnows, RepairKnows, PassTyped, HeldTorn
  <2>2. CASE FinishRepair \/ RepairFails
    <3> DEFINE o == IF held = Gone THEN data'[pass.s] ELSE held
    <3>1. /\ pass.s \in Ids /\ pass' = FoldOf(pass.s, o, data'[pass.s]) /\ held' = Gone
      BY <2>2 DEF FinishRepair, RepairFails, GoOn, ViewInv, PassTyped
    <3>2. o \in Session /\ (pass.s \notin torn' => o = data'[pass.s])
      BY <1>1, <1>2, <1>3, <3>1 DEF Data, ViewInv, HeldTorn
    <3> HIDE DEF o
    <3> QED
      BY <1>1, <1>2, <1>3, <3>1, <3>2, FoldStarts
  <2> QED
    BY <2>1, <2>2
<1>4. CASE data' = data /\ file' = file /\ lost' = lost
  <2>1. ListInv' /\ Remembered
    BY <1>1, <1>4 DEF ListInv, ListedIsSaved, ActiveIsListed, DeletedStaysDeleted, Present, Listed, Remembered
  <2>2. Typed' /\ View' /\ SumSaved' /\ Used'
    BY <1>1, <1>2, <1>3, <1>4 DEF ViewInv, Typed, View, Whole, Hidden, SumSaved, Used
  <2> QED
    BY <1>2, <1>3, <1>4, <2>1, <2>2 DEF ViewInv
<1>5. ASSUME NEW u, Summarised(u)
      PROVE  ViewInv' /\ Remembered /\ ListInv'
  <2> DEFINE s == pass.s
  <2>1. s \in Ids
    BY DEF ViewInv, PassTyped, FinishFold, FinishRepair, RepairFails
  <2>2. /\ data' \in Data /\ data'[s] = u /\ data[s] # Gone /\ u # Gone
        /\ \A q \in Ids \ {s} : data'[q] = data[q]
        /\ file' = Saved(data', owners') /\ lost \subseteq lost'
        /\ s \notin torn => Whole(u, lost') /\ data[s].sum \ lost' \subseteq u.sum
    BY <1>1, <1>3, <1>5, <2>1 DEF Summarised, Data
  <2>3. /\ file'.data \in Data /\ file'.owners \in [Owners -> Lists]
        /\ \A q \in Ids : file'.data[q] \in {data'[q], Gone}
    BY <1>1, <1>3, <2>2, SavedIs
  <2>4. Typed' /\ SumSaved' /\ Used'
    BY <1>1, <1>2, <1>3, <2>1, <2>2, <2>3 DEF ViewInv, Typed, SumSaved, Used
  <2>5. View'
    <3> SUFFICES ASSUME NEW q \in Ids, q \notin torn
                 PROVE  Whole(data'[q], lost') /\ Whole(file'.data[q], lost')
      BY <1>1 DEF View, Whole, Hidden
    <3>1. Whole(Gone, lost')
      BY <1>3 DEF Whole
    <3>2. Whole(data'[q], lost')
      <4>1. CASE q = s
        BY <2>2, <4>1
      <4>2. CASE q # s
        <5>1. Whole(data[q], lost) /\ data'[q] = data[q]
          BY <2>2, <4>2 DEF ViewInv, View
        <5> QED
          BY <2>2, <5>1 DEF Whole
      <4> QED
        BY <4>1, <4>2
    <3> QED
      BY <2>3, <3>1, <3>2
  <2>6. Remembered
    BY <1>1, <2>1, <2>2 DEF Remembered
  <2>7. ListStep
    <3>1. Present(data') = Present(data)
      BY <2>1, <2>2 DEF Present
    <3>2. \A q \in deleted : q \in Ids /\ data'[q] = Gone
      BY <2>2 DEF ListInv, DeletedStaysDeleted
    <3> QED
      BY <1>1, <2>2, <3>1, <3>2 DEF ListStep, ListInv, ActiveIsListed
  <2>8. ListInv'
    BY <1>1, <1>3, <2>2, <2>7, ListStepKeeps DEF ViewInv
  <2> QED
    BY <1>2, <2>2, <2>4, <2>5, <2>6, <2>8 DEF ViewInv
<1> QED
  BY <1>4, <1>5, SummaryEnds

(* A restart: what is loaded is what the last persist wrote.               *)
LEMMA RestartKeeps ==
    ASSUME ViewInv, ListInv, Restart
    PROVE  ViewInv' /\ Remembered /\ ListInv'
<1>1. /\ cast' = cast /\ data' = file.data /\ file' = file /\ last' = last /\ pass' = Idle
      /\ torn' = torn /\ used' = used /\ evicted' = evicted /\ deleted' = deleted
      /\ lost' = lost /\ held' = Gone /\ Gone \in Session
  BY NewIsSession DEF Restart, ViewInv, Typed
<1>2. PICK a \in [Owners -> Ids \cup {None}] :
          /\ \A w \in Owners : a[w] \in ActiveLoaded(file.owners[w])
          /\ owners' = [w \in Owners |-> [file.owners[w] EXCEPT !.active = a[w]]]
  BY DEF Restart
<1>3. ASSUME NEW w \in Owners
      PROVE  /\ owners'[w] \in Lists /\ owners'[w].ids = file.owners[w].ids
             /\ owners'[w].active \in owners'[w].ids \cup {None}
  <2>1. file.owners[w] \in Lists /\ owners'[w] = [file.owners[w] EXCEPT !.active = a[w]]
    BY <1>2 DEF ViewInv, Typed
  <2>2. owners'[w] \in Lists /\ owners'[w].ids = file.owners[w].ids /\ owners'[w].active = a[w]
    BY <1>2, <2>1 DEF Lists
  <2>3. a[w] \in file.owners[w].ids \cup {None}
    BY <1>2 DEF ActiveLoaded
  <2> QED
    BY <2>2, <2>3
<1>4. owners' \in [Owners -> Lists]
  BY <1>2, <1>3
<1>5. Session' = Session /\ Data' = Data
  BY <1>1 DEF Session, Data
<1>6. Typed' /\ View' /\ SumSaved' /\ Used'
  BY <1>1, <1>4, <1>5 DEF ViewInv, Typed, View, Whole, Hidden, SumSaved, Used
<1>7. FoldKnows' /\ RepairKnows' /\ PassTyped' /\ HeldTorn'
  BY <1>1 DEF Idle, FoldKnows, RepairKnows, PassTyped, HeldTorn
<1>8. Remembered
  BY <1>1 DEF ViewInv, SumSaved, Remembered
<1>9. ListInv'
  <2>1. \A s \in deleted : file.data[s] = Gone /\ s \in Ids
    BY DEF ListInv, DeletedStaysDeleted
  <2>2. \A w \in Owners : owners'[w].ids \subseteq Present(data') /\ file'.owners[w] = file.owners[w]
    BY <1>1, <1>3 DEF ListInv
  <2>3. ListedIsSaved' /\ ActiveIsListed'
    BY <1>1, <1>3 DEF ListedIsSaved, ActiveIsListed
  <2>4. DeletedStaysDeleted'
    BY <1>1, <2>1, <2>2 DEF DeletedStaysDeleted, Listed, Present
  <2> QED
    BY <1>1, <2>1, <2>2, <2>3, <2>4 DEF ListInv
<1> QED
  BY <1>6, <1>7, <1>8, <1>9 DEF ViewInv

-----------------------------------------------------------------------------
(* The invariant.                                                          *)

LEMMA InitKeeps == Init => ViewInv /\ ListInv
<1> SUFFICES ASSUME Init PROVE ViewInv /\ ListInv
  OBVIOUS
<1>1. /\ cast \in Casts /\ New \in Session /\ Gone \in Session /\ New # Gone /\ Gone.sum = {}
      /\ None \notin Ids /\ None \notin Owners
  BY NewIsSession, StoreConstants DEF Init
<1>2. cast.legacy => Legacy \in Session /\ Legacy # Gone /\ Legacy.sum = {}
  <2> SUFFICES ASSUME cast.legacy
               PROVE  Legacy \in Session /\ Legacy # Gone /\ Legacy.sum = {}
    OBVIOUS
  <2>1. cast.window >= 2 /\ cast.window \in Nat
    BY <1>1, StoreConstants
  <2>2. <<1, 2>> \in Seq(Nat) /\ Len(<<1, 2>>) = 2
    OBVIOUS
  <2>3. Legacy.comp = 1 /\ Legacy.count = 2 /\ Legacy.sum = {}
    BY DEF Legacy
  <2>4. Legacy \in [turns : Seq(Nat), comp : Nat, sum : SUBSET Nat, count : Int, mark : Int,
                   closed : BOOLEAN]
    BY <2>2 DEF Legacy
  <2>5. Legacy.count # Gone.count
    BY <1>1, <2>3, NewIsSession
  <2>6. Len(Legacy.turns) = 2
    BY <2>2 DEF Legacy
  <2>7. Len(Legacy.turns) <= cast.window
    BY <2>1, <2>6
  <2>8. Legacy.comp <= Len(Legacy.turns) /\ Legacy.count >= 0
    BY <2>3, <2>6
  <2>9. Legacy # Gone
    BY <2>5
  <2> QED
    BY <2>3, <2>4, <2>7, <2>8, <2>9 DEF Session
<1>3. /\ data = [s \in Ids |-> IF cast.legacy /\ s = 1 THEN Legacy ELSE Gone]
      /\ owners = [w \in Owners |-> IF cast.legacy /\ w # Periodic
                                   THEN [known |-> TRUE, active |-> 1, ids |-> {1}] ELSE Unknown]
      /\ file = Saved(data, owners) /\ pass = Idle /\ held = Gone /\ last \in Nat
      /\ used = Present(data) /\ evicted = {} /\ deleted = {}
  BY DEF Init
<1>4. data \in Data /\ \A s \in Ids : data[s].sum = {}
  BY <1>1, <1>2, <1>3 DEF Data
<1>5. cast.legacy => 1 \in Ids
  BY <1>1, StoreConstants
<1>6. owners \in [Owners -> Lists]
  BY <1>3, <1>5 DEF Lists, Unknown
<1>7. \A w \in Owners : owners[w].ids \subseteq Present(data)
  BY <1>2, <1>3, <1>5 DEF Unknown, Present
<1>8. /\ file.data \in Data /\ file.owners \in [Owners -> Lists]
      /\ \A s \in Ids : file.data[s] \in {data[s], Gone}
      /\ \A w \in Owners : file.owners[w].ids \subseteq Present(file.data)
      /\ \A w \in Owners : \A s \in owners[w].ids :
            file.data[s] = data[s] /\ s \in file.owners[w].ids
  <2>1. file = Saved(data, owners) /\ Gone \in Session
    BY <1>1, <1>3
  <2> QED
    BY <1>4, <1>6, <1>7, <2>1, SavedIs
<1>9. \A s \in Ids : file.data[s].sum = {}
  BY <1>1, <1>4, <1>8
<1>10. ViewInv
  BY SMTT(30), ZenonT(60), <1>1, <1>3, <1>4, <1>6, <1>8, <1>9
     DEF ViewInv, Typed, View, Whole, SumSaved, FoldKnows, RepairKnows, PassTyped, HeldTorn, Used, Present, Idle
<1>11. ListInv
  BY <1>3, <1>7, <1>8 DEF ListInv, ListedIsSaved, ActiveIsListed, DeletedStaysDeleted, Unknown
<1> QED
  BY <1>10, <1>11

LEMMA StepKeeps ==
    ASSUME ViewInv, ListInv, [Next]_vars
    PROVE  ViewInv' /\ Remembered /\ ListInv'
<1>1. ASSUME Plain /\ ListStep
      PROVE  ViewInv' /\ Remembered /\ ListInv'
  BY <1>1, PlainKeepsView, ListStepKeeps DEF Plain, ViewInv
<1>2. CASE \E s \in Ids, w \in Owners : BeginTurn(s, w) \/ BeginBlank(s, w) \/ CloseSession(w, s)
  BY <1>1, <1>2, TurnSteps
<1>3. CASE \E s \in Ids : Record(s) \/ RecordReaction(s)
  BY <1>1, <1>3, RecordSteps
<1>4. CASE \E s \in Ids, w \in Owners : Create(w, s) \/ Delete(w, s)
  BY <1>1, <1>4, CreateStep, DeleteStep
<1>5. CASE FoldFails \/ (\E s \in Ids : StartFold(s) \/ StartRepair(s)) \/ UNCHANGED vars
  BY <1>5, SummaryStarts
<1>6. CASE FinishFold \/ FinishRepair \/ RepairFails
  BY <1>6, SummaryEndKeeps
<1>7. CASE Restart
  BY <1>7, RestartKeeps
<1> QED
  BY <1>2, <1>3, <1>4, <1>5, <1>6, <1>7 DEF Next

THEOREM Invariant == Spec => [](ViewInv /\ ListInv)
<1>1. (ViewInv /\ ListInv) /\ [Next]_vars => (ViewInv /\ ListInv)'
  BY StepKeeps
<1> QED
  BY InitKeeps, <1>1, PTL DEF Spec

-----------------------------------------------------------------------------
(* What the store promises.                                                *)

(* What the agent no longer sees is in the summary, however many turns are *)
(* recorded while the summary is made and whatever repairs failed before - *)
(* but for the turns the summariser left out, those a failed repair left   *)
(* behind, and a full window that moved while the summary was made.        *)
THEOREM ViewStaysWhole == Spec => []ViewIsWhole
<1>1. ViewInv => ViewIsWhole
  BY DEF ViewInv, View, ViewIsWhole, Whole, Present
<1> QED
  BY <1>1, Invariant, PTL

(* A turn that a summary tells of stays in the summaries after it, unless  *)
(* the summariser leaves it out.                                           *)
THEOREM SummariesKeepTurns == Spec => NothingForgotten
<1>1. ViewInv /\ ListInv /\ [Next]_vars =>
        [\A s \in Ids : data[s] # Gone /\ data'[s] # Gone /\ s \notin torn'
            => data[s].sum \ lost' \subseteq data'[s].sum]_vars
  BY StepKeeps DEF Remembered
<1> QED
  BY <1>1, Invariant, PTL DEF Spec, NothingForgotten

(* The active session of an owner is one it lists, unless it was evicted,  *)
(* and a session that an owner lists is on disk as it is in memory.        *)
THEOREM SessionListsAgree == Spec => []ListsAgree
<1>1. ListInv => ListsAgree
  BY DEF ListInv, ListsAgree
<1> QED
  BY <1>1, Invariant, PTL

(* A deleted session does not come back by itself.                         *)
THEOREM DeletionsLast == Spec => []DeletedStaysDeleted
<1>1. ListInv => DeletedStaysDeleted
  BY DEF ListInv
<1> QED
  BY <1>1, Invariant, PTL
=============================================================================
