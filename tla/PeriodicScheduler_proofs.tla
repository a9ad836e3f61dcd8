----------------------- MODULE PeriodicScheduler_proofs -----------------------
(***************************************************************************)
(* Proofs about PeriodicScheduler for any presets, sessions, intervals and *)
(* bounds.                                                                 *)
(***************************************************************************)
EXTENDS PeriodicScheduler, FiniteSetTheorems, SequenceTheorems, TLAPS

(* Presets have distinct places, and there are finitely many of them.      *)
LEMMA PresetsFinite == IsFiniteSet(Presets)
<1> USE PeriodicConstants
<1> DEFINE f == [i \in 1..Len(Order) |-> Order[i]]
<1>1. Len(Order) \in Nat /\ DOMAIN Order = 1..Len(Order)
  OBVIOUS
<1>2. f \in Surjection(1..Len(Order), Presets)
  BY <1>1 DEF Surjection, Presets, ToSet
<1> HIDE DEF f
<1>3. IsFiniteSet(1..Len(Order))
  <2>1. \A n \in Nat : IsFiniteSet(1..n)
    BY FS_Interval
  <2> QED BY <1>1, <2>1
<1> QED BY <1>2, <1>3, FS_Surjection

LEMMA Places ==
    /\ \A p \in Presets : Place(p) \in Nat /\ Order[Place(p)] = p
    /\ \A p, q \in Presets : Place(p) = Place(q) => p = q
<1>1. \A p \in Presets : \E i \in 1..Len(Order) : Order[i] = p
  BY PeriodicConstants DEF Presets, ToSet
<1>2. \A p \in Presets : Place(p) \in 1..Len(Order) /\ Order[Place(p)] = p
  BY <1>1 DEF Place
<1> QED BY <1>2

-----------------------------------------------------------------------------
(* The numbers of new sessions: those after all that exist.                *)
Packed == Created \subseteq 1..Cardinality(Created)

LEMMA CreatedFinite ==
    /\ IsFiniteSet(Created) /\ Cardinality(Created) \in Nat /\ Created \subseteq Ids
<1>1. IsFiniteSet(Ids) /\ Created \in SUBSET Ids
  <2>1. \A n \in Nat : IsFiniteSet(1..n)
    BY FS_Interval
  <2> QED BY <2>1, PeriodicConstants DEF Ids, Created
<1> QED BY <1>1, FS_Subset, FS_CardinalityType

LEMMA NewNumbers ==
    ASSUME Packed, NEW P \in SUBSET Presets, Room(P)
    PROVE  /\ \A p \in P : NewOf(p, P) \in Ids \ Created
           /\ \A p, q \in P : NewOf(p, P) = NewOf(q, P) => p = q
           /\ \A k : k = Cardinality(Created \cup News(P)) => (Created \cup News(P)) \subseteq 1..k
<1> USE PeriodicConstants
<1> DEFINE n == Cardinality(Created)
           B(p) == {q \in P : Place(q) <= Place(p)}
<1>1. n \in Nat /\ IsFiniteSet(P) /\ Cardinality(P) \in Nat /\ n + Cardinality(P) <= N
  BY CreatedFinite, PresetsFinite, FS_Subset, FS_CardinalityType DEF Room
<1>2. \A p \in P : IsFiniteSet(B(p)) /\ Cardinality(B(p)) \in Nat /\ Cardinality(B(p)) <= Cardinality(P)
  <2> SUFFICES ASSUME NEW p \in P
               PROVE  IsFiniteSet(B(p)) /\ Cardinality(B(p)) \in Nat /\ Cardinality(B(p)) <= Cardinality(P)
    OBVIOUS
  <2>1. B(p) \in SUBSET P
    OBVIOUS
  <2> HIDE DEF B
  <2> QED BY <1>1, <2>1, FS_Subset, FS_CardinalityType
<1>3. \A p \in P : Cardinality(B(p)) # 0
  <2> SUFFICES ASSUME NEW p \in P, Cardinality(B(p)) = 0 PROVE FALSE
    OBVIOUS
  <2>1. p \in B(p)
    BY Places
  <2> HIDE DEF B
  <2> QED BY <1>2, <2>1, FS_EmptySet
<1>4. ASSUME NEW p \in P, NEW q \in P, Place(p) < Place(q) PROVE Cardinality(B(p)) # Cardinality(B(q))
  <2>1. B(p) \in SUBSET B(q) /\ q \in B(q) /\ q \notin B(p)
    BY <1>4, Places
  <2> HIDE DEF B
  <2>2. B(p) # B(q)
    BY <2>1
  <2> QED BY <1>2, <2>1, <2>2, FS_Subset
<1>5. \A p \in P : NewOf(p, P) = n + Cardinality(B(p))
  BY DEF NewOf
<1> HIDE DEF B
<1>6. \A p \in P : NewOf(p, P) \in Int /\ n < NewOf(p, P) /\ NewOf(p, P) <= n + Cardinality(P)
  BY <1>1, <1>2, <1>3, <1>5
<1>7. \A p \in P : NewOf(p, P) \in Ids \ Created
  BY <1>1, <1>6 DEF Ids, Packed
<1>8. \A p, q \in P : NewOf(p, P) = NewOf(q, P) => p = q
  <2> SUFFICES ASSUME NEW p \in P, NEW q \in P, NewOf(p, P) = NewOf(q, P), p # q PROVE FALSE
    OBVIOUS
  <2>1. Cardinality(B(p)) = Cardinality(B(q))
    BY <1>1, <1>2, <1>5
  <2>2. Place(p) < Place(q) \/ Place(q) < Place(p)
    BY Places
  <2> QED BY <1>4, <2>1, <2>2
<1>9. IsFiniteSet(News(P)) /\ Cardinality(News(P)) = Cardinality(P)
  <2> DEFINE f == [p \in P |-> NewOf(p, P)]
  <2>3. \A p \in P : f[p] = NewOf(p, P)
    OBVIOUS
  <2>4. f \in [P -> News(P)] /\ \A s \in News(P) : \E p \in P : f[p] = s
    BY DEF News
  <2> HIDE DEF f
  <2>5. \A p, q \in P : f[p] = f[q] => p = q
    BY <1>8, <2>3
  <2>1. f \in Bijection(P, News(P))
    BY <2>4, <2>5 DEF Bijection, Injection, Surjection, IsInjective
  <2>2. ExistsBijection(P, News(P))
    BY <2>1 DEF ExistsBijection
  <2> QED BY <1>1, <2>2, FS_Bijection
<1>10. Cardinality(Created \cup News(P)) = n + Cardinality(P)
  <2>1. Created \cap News(P) = {}
    BY <1>7 DEF News
  <2>2. Cardinality(Created \cap News(P)) = 0
    BY <2>1, FS_EmptySet
  <2>3. Cardinality(Created \cup News(P)) = n + Cardinality(News(P)) - Cardinality(Created \cap News(P))
    BY <1>9, CreatedFinite, FS_Union
  <2> QED BY <1>1, <1>9, <2>2, <2>3
<1>11. (Created \cup News(P)) \subseteq 1..(n + Cardinality(P))
  <2>1. \A s \in Created : s \in 1..(n + Cardinality(P))
    BY <1>1 DEF Packed
  <2>2. \A s \in News(P) : s \in 1..(n + Cardinality(P))
    BY <1>1, <1>6 DEF News
  <2> QED BY <2>1, <2>2
<1> QED BY <1>7, <1>8, <1>10, <1>11

-----------------------------------------------------------------------------
(* The invariant.  The last sessions of the presets exist and differ, so   *)
(* that closing the one of a preset closes the run of no other; and what   *)
(* a decision belongs to, or a turn of the operator runs in, is not closed *)
(* but by the operator, unless it is one of those that are lost.           *)
Statuses == {"new", "open", "closed", "deleted"}
Task == [p : Presets, s : Ids, pc : {"new", "turn"}]
EntryOK(e) ==
    /\ e.fired \in Nat \cup {None} /\ e.last \in Ids \cup {None} /\ e.recent \in Seq(Ids)
    /\ Len(e.recent) <= cast.retained
    /\ IF e.recent = <<>> THEN e = Blank ELSE e.last = Last(e.recent)

TypeInv ==
    /\ cast \in Casts /\ clock \in Nat /\ since \in 0..TickEvery /\ defs \in SUBSET Presets
    /\ \A p \in Presets : EntryOK(entry[p])
    /\ disk = entry
    /\ sess \in [Ids -> Statuses] /\ owner \in [Subs -> Ids \cup {None, 0}]
    /\ tasks \in SUBSET Task
    /\ turns \in SUBSET Ids /\ queued \in SUBSET turns /\ mark \in SUBSET Ids /\ shut \in SUBSET Ids /\ lost \in SUBSET Ids
    /\ acts \in 0..cast.acts

NumberInv ==
    /\ Packed
    /\ \A p \in Presets : entry[p].last # None => entry[p].last \in Created
    /\ \A p, q \in Presets : entry[p].last # None /\ entry[p].last = entry[q].last => p = q

Alive(s) == sess[s] = "closed" => s \in shut \cup lost
HomeInv ==
    /\ \A x \in Chats : owner[x] \in Ids => Alive(owner[x])
    /\ \A s \in Running : Alive(s)
    /\ DecisionsSurvive

FiredInv == \A p \in Presets : entry[p].fired = fires[p]

Inv == TypeInv /\ NumberInv /\ OneRunAtATime /\ HomeInv /\ FiredInv

LEMMA CastFacts ==
    ASSUME TypeInv
    PROVE  /\ cast.retained \in Nat \ {0} /\ cast.acts \in Nat /\ cast.horizon \in Nat
           /\ \A p \in Presets : cast.interval[p] \in Nat \ {0} /\ cast.anchor[p] \in Nat \cup {None}
  BY PeriodicConstants DEF TypeInv

(* The ids that an entry keeps.                                            *)
LEMMA LastKept ==
    ASSUME TypeInv, NEW q \in Seq(Ids), NEW s \in Ids
    PROVE  LET r == LastOf(Append(q, s)) IN
           r \in Seq(Ids) /\ Len(r) <= cast.retained /\ r # <<>> /\ Last(r) = s
<1> DEFINE a == Append(q, s)
           k == cast.retained
           n == Len(a)
<1>1. k \in Nat \ {0}
  BY CastFacts
<1>2. a \in Seq(Ids) /\ n \in Nat /\ n > 0 /\ a[n] = s
  OBVIOUS
<1>3. LastOf(a) = IF n > k THEN SubSeq(a, n - k + 1, n) ELSE a
  BY DEF LastOf
<1> HIDE DEF a, k
<1>4. CASE n > k
  <2> DEFINE m == n - k + 1
             r == SubSeq(a, m, n)
  <2>1. m \in Nat /\ 1 <= m /\ m <= n /\ n - m + 1 = k
    BY <1>1, <1>2, <1>4
  <2>2. r \in Seq(Ids) /\ Len(r) = n - m + 1 /\ \A i \in 1..(n - m + 1) : r[i] = a[m + i - 1]
    <3> HIDE DEF m
    <3>1. \A i \in m..n : a[i] \in Ids
      BY <1>2, <2>1
    <3>2. /\ r \in Seq(Ids)
          /\ Len(r) = IF m <= n THEN n - m + 1 ELSE 0
          /\ \A i \in 1..(n - m + 1) : r[i] = a[m + i - 1]
      BY <1>2, <2>1, <3>1, SubSeqProperties
    <3> QED BY <2>1, <3>2
  <2>3. Len(r) = k /\ r[k] = a[m + k - 1] /\ m + k - 1 = n
    BY <1>1, <1>2, <2>1, <2>2
  <2> HIDE DEF m, r
  <2>4. r # <<>>
    BY <1>1, <2>3
  <2>5. r \in Seq(Ids) /\ Len(r) <= k /\ Last(r) = s
    BY <1>1, <1>2, <2>2, <2>3 DEF Last
  <2>6. LastOf(a) = r
    BY <1>3, <1>4 DEF r, m
  <2> QED BY <2>4, <2>5, <2>6 DEF a, k
<1>5. CASE ~(n > k)
  <2>1. LastOf(a) = a /\ n <= k
    BY <1>1, <1>2, <1>3, <1>5
  <2>2. a # <<>> /\ Last(a) = s
    BY <1>2 DEF Last
  <2> QED BY <1>2, <2>1, <2>2 DEF a, k
<1> QED BY <1>4, <1>5

-----------------------------------------------------------------------------
(* What firings do to the file, the sessions and the decisions.            *)
LEMMA FiringsEntries ==
    ASSUME TypeInv, NumberInv, FiredInv, UNCHANGED <<cast, clock>>, NEW P \in SUBSET Presets, Room(P),
           NEW E \in SUBSET P, NEW C, NEW X, Firings(P, E, C, X)
    PROVE  /\ \A p \in Presets : EntryOK(entry[p])'
           /\ disk' = entry'
           /\ FiredInv'
           /\ \A p \in E : entry'[p].last = NewOf(p, P) /\ fires'[p] = clock
           /\ \A p \in Presets \ E : entry'[p] = entry[p] /\ fires'[p] = fires[p]
<1>1. /\ entry' = [p \in Presets |-> IF p \in E THEN Entry(p, NewOf(p, P)) ELSE entry[p]]
      /\ disk' = entry'
      /\ fires' = [p \in Presets |-> IF p \in E THEN clock ELSE fires[p]]
  BY DEF Firings, Saved
<1>2. \A p \in E : entry'[p] = Entry(p, NewOf(p, P)) /\ fires'[p] = clock
  BY <1>1
<1>3. \A p \in Presets \ E : entry'[p] = entry[p] /\ fires'[p] = fires[p]
  BY <1>1
<1>4. ASSUME NEW p \in E
      PROVE  /\ entry'[p].fired = clock /\ entry'[p].last = NewOf(p, P)
             /\ EntryOK(entry[p])'
  <2> DEFINE s == NewOf(p, P)
             r == LastOf(Append(entry[p].recent, s))
  <2>1. s \in Ids /\ entry[p].recent \in Seq(Ids)
    BY NewNumbers DEF NumberInv, TypeInv, EntryOK
  <2> HIDE DEF s
  <2>2. r \in Seq(Ids) /\ Len(r) <= cast.retained /\ r # <<>> /\ Last(r) = s
    BY <2>1, LastKept
  <2>3. Entry(p, s) = [fired |-> clock, last |-> s, recent |-> r]
    BY DEF Entry
  <2> HIDE DEF r
  <2>4. entry'[p].fired = clock /\ entry'[p].last = s /\ entry'[p].recent = r
    BY <1>2, <2>3 DEF s
  <2> QED BY <2>1, <2>2, <2>4 DEF EntryOK, TypeInv, s
<1>5. \A p \in Presets \ E : EntryOK(entry[p])'
  BY <1>3 DEF EntryOK, TypeInv
<1>6. FiredInv'
  BY <1>2, <1>3, <1>4 DEF FiredInv
<1> QED BY <1>1, <1>2, <1>3, <1>4, <1>5, <1>6

(* The old sessions are pruned, which closes what is in them.              *)
Gone(old, P, C, X) ==
    /\ \A s \in old : s \notin News(P) /\ (s \in Olds(X) \/ sess[s] = "closed")
    /\ SubsClosed([x \in Subs |-> Carried(x, C, P)], Olds(X) \cup old)

LEMMA FiringsSessions ==
    ASSUME TypeInv, NumberInv, NEW P \in SUBSET Presets, Room(P), NEW E, NEW C, NEW X \in SUBSET Presets,
           Firings(P, E, C, X)
    PROVE  /\ sess' \in [Ids -> Statuses]
           /\ Created' = Created \cup News(P)
           /\ \A s \in News(P) : sess'[s] = "open"
           /\ \A s \in Ids \ Olds(X) : sess[s] = "open" => sess'[s] = "open"
           /\ \A s \in Ids \ Olds(X) : sess'[s] = "closed" => sess[s] = "closed"
           /\ \E old \in SUBSET Ids : Gone(old, P, C, X)
<1> DEFINE st == [s \in Ids |-> IF s \in News(P) THEN "open"
                                ELSE IF s \in Olds(X) /\ sess[s] # "deleted" THEN "closed" ELSE sess[s]]
<1>1. PICK old : /\ old = Prunable(st, entry')
                 /\ sess' = [s \in Ids |-> IF s \in old THEN "deleted" ELSE st[s]]
                 /\ SubsClosed([x \in Subs |-> Carried(x, C, P)], Olds(X) \cup old)
  BY DEF Firings
<1>2. old \in SUBSET Ids /\ \A s \in old : st[s] = "closed"
  BY <1>1 DEF Prunable
<1>3. \A s \in Ids : st[s] = IF s \in News(P) THEN "open"
                             ELSE IF s \in Olds(X) /\ sess[s] # "deleted" THEN "closed" ELSE sess[s]
  OBVIOUS
<1> HIDE DEF st
<1>4. News(P) \subseteq Ids \ Created
  BY NewNumbers DEF News, NumberInv
<1>5. Olds(X) \subseteq Created
  BY DEF Olds, NumberInv
<1>6. \A s \in old : s \notin News(P) /\ (s \in Olds(X) \/ sess[s] = "closed")
  BY <1>2, <1>3
<1>7. \A s \in Ids : sess'[s] = IF s \in old THEN "deleted" ELSE st[s]
  BY <1>1
<1>8. \A s \in News(P) : sess'[s] = "open"
  BY <1>3, <1>4, <1>6, <1>7
<1>9. \A s \in Ids \ Olds(X) : sess[s] = "open" => sess'[s] = "open"
  BY <1>3, <1>6, <1>7
<1>10. \A s \in Ids : sess[s] \in Statuses
  BY DEF TypeInv
<1>11. sess' \in [Ids -> Statuses]
  <2>1. \A s \in Ids : (IF s \in old THEN "deleted" ELSE st[s]) \in Statuses
    BY <1>3, <1>10 DEF Statuses
  <2> QED BY <1>1, <2>1
<1>12. \A s \in Ids : sess'[s] # "new" <=> s \in News(P) \/ sess[s] # "new"
  <2> SUFFICES ASSUME NEW s \in Ids PROVE sess'[s] # "new" <=> s \in News(P) \/ sess[s] # "new"
    OBVIOUS
  <2>1. CASE s \in News(P)
    BY <1>8, <2>1
  <2>2. CASE s \notin News(P) /\ s \in Olds(X)
    <3>1. sess[s] # "new"
      BY <1>5, <2>2 DEF Created
    <3> QED BY <1>3, <1>7, <2>2, <3>1
  <2>3. CASE s \notin News(P) /\ s \notin Olds(X)
    BY <1>3, <1>6, <1>7, <2>3
  <2> QED BY <2>1, <2>2, <2>3
<1>13. Created' = Created \cup News(P)
  BY <1>4, <1>12 DEF Created
<1>14. \E x \in SUBSET Ids : Gone(x, P, C, X)
  <2>1. Gone(old, P, C, X)
    BY <1>1, <1>6 DEF Gone
  <2> QED BY <1>2, <2>1
<1>15. \A s \in Ids \ Olds(X) : sess'[s] = "closed" => sess[s] = "closed"
  BY <1>3, <1>7
<1> QED BY <1>8, <1>9, <1>11, <1>13, <1>14, <1>15

LEMMA FiringsNumbers ==
    ASSUME TypeInv, NumberInv, FiredInv, UNCHANGED <<cast, clock>>, NEW P \in SUBSET Presets, Room(P),
           NEW E \in SUBSET P, NEW C, NEW X \in SUBSET Presets, Firings(P, E, C, X)
    PROVE  NumberInv'
<1>1. Created' = Created \cup News(P)
  BY FiringsSessions
<1>2. /\ \A p \in P : NewOf(p, P) \in Ids \ Created
      /\ \A p, q \in P : NewOf(p, P) = NewOf(q, P) => p = q
      /\ \A k : k = Cardinality(Created \cup News(P)) => (Created \cup News(P)) \subseteq 1..k
  BY NewNumbers DEF NumberInv
<1>3. /\ \A p \in E : entry'[p].last = NewOf(p, P)
      /\ \A p \in Presets \ E : entry'[p].last = entry[p].last
  BY FiringsEntries
<1>4. Packed'
  BY <1>1, <1>2 DEF Packed
<1>5. \A p \in Presets : entry'[p].last # None => entry'[p].last \in Created'
  BY <1>1, <1>3 DEF NumberInv, News
<1>6. ASSUME NEW p \in Presets, NEW q \in Presets, entry'[p].last # None, entry'[p].last = entry'[q].last
      PROVE  p = q
  <2>1. CASE p \in E /\ q \in E
    BY <1>2, <1>3, <1>6, <2>1
  <2>2. CASE p \in E /\ q \notin E
    BY <1>2, <1>3, <1>6, <2>2 DEF NumberInv
  <2>3. CASE p \notin E /\ q \in E
    BY <1>2, <1>3, <1>6, <2>3 DEF NumberInv
  <2>4. CASE p \notin E /\ q \notin E
    BY <1>3, <1>6, <2>4 DEF NumberInv
  <2> QED BY <2>1, <2>2, <2>3, <2>4
<1> QED BY <1>4, <1>5, <1>6 DEF NumberInv

(* A decision goes to the new session of its preset before the session it  *)
(* was in is closed.                                                       *)
LEMMA FiringsHomes ==
    ASSUME TypeInv, NumberInv, HomeInv, NEW P \in SUBSET Presets, Room(P), NEW E, NEW C \in SUBSET P,
           NEW X \in SUBSET C, Firings(P, E, C, X), shut \subseteq shut', lost \subseteq lost'
    PROVE  /\ owner' \in [Subs -> Ids \cup {None, 0}]
           /\ \A x \in Chats : owner'[x] \in Ids => Alive(owner[x])'
           /\ DecisionsSurvive'
<1> USE PeriodicConstants
<1>1. X \in SUBSET Presets
  OBVIOUS
<1>14. \E old \in SUBSET Ids : Gone(old, P, C, X)
  BY <1>1, FiringsSessions
<1>15. PICK old \in SUBSET Ids : Gone(old, P, C, X)
  BY <1>14
<1>2. /\ \A s \in old : s \notin News(P) /\ (s \in Olds(X) \/ sess[s] = "closed")
      /\ SubsClosed([x \in Subs |-> Carried(x, C, P)], Olds(X) \cup old)
  BY <1>15 DEF Gone
<1>3. /\ \A s \in News(P) : sess'[s] = "open"
      /\ \A s \in Ids \ Olds(X) : sess'[s] = "closed" => sess[s] = "closed"
  BY <1>1, FiringsSessions
<1>4. News(P) \subseteq Ids \ Created
  BY NewNumbers DEF News, NumberInv
<1>5. Olds(X) \subseteq Created /\ Olds(X) \subseteq Olds(C)
  BY DEF Olds, NumberInv
<1>6. \A x \in Subs : \/ Carried(x, C, P) = owner[x] /\ (x \in Chats => owner[x] \notin Olds(C))
                      \/ Carried(x, C, P) \in News(P)
  <2> SUFFICES ASSUME NEW x \in Subs, x \in Chats, owner[x] \in Olds(C)
               PROVE  Carried(x, C, P) \in News(P)
    BY DEF Carried
  <2>1. \E p \in C : entry[p].last = owner[x]
    BY DEF Olds
  <2> DEFINE p == CHOOSE p \in C : entry[p].last = owner[x]
  <2>2. p \in C
    BY <2>1
  <2>3. Carried(x, C, P) = NewOf(p, P)
    BY DEF Carried
  <2> QED BY <2>2, <2>3 DEF News
<1> DEFINE o == [x \in Subs |-> Carried(x, C, P)]
           S == Olds(X) \cup old
<1>7. \A x \in Subs : o[x] = Carried(x, C, P)
  OBVIOUS
<1>8. /\ owner' = [x \in Subs |-> IF o[x] \in S THEN 0 ELSE o[x]]
      /\ cut' = cut \cup {x \in Subs : o[x] \in S \ (shut' \cup lost')}
  BY <1>2 DEF SubsClosed
<1> HIDE DEF o, S
<1>9. \A x \in Subs : o[x] \in Ids \cup {None, 0}
  BY <1>4, <1>6, <1>7 DEF TypeInv
<1>10. owner' \in [Subs -> Ids \cup {None, 0}]
  <2>1. \A x \in Subs : (IF o[x] \in S THEN 0 ELSE o[x]) \in Ids \cup {None, 0}
    BY <1>9
  <2> QED BY <1>8, <2>1
<1>11. ASSUME NEW x \in Chats, o[x] \in S PROVE o[x] \in shut \cup lost
  <2>1. x \in Subs
    BY DEF Subs
  <2>2. o[x] \notin News(P)
    BY <1>2, <1>4, <1>5, <1>11 DEF S
  <2>3. o[x] = owner[x] /\ owner[x] \notin Olds(X)
    BY <1>5, <1>6, <1>7, <2>1, <2>2
  <2>4. owner[x] \in Ids /\ sess[owner[x]] = "closed"
    BY <1>2, <1>11, <2>3 DEF S
  <2> QED BY <2>3, <2>4 DEF HomeInv, Alive
<1>12. DecisionsSurvive'
  BY <1>8, <1>11 DEF DecisionsSurvive, HomeInv
<1>13. ASSUME NEW x \in Chats, owner'[x] \in Ids PROVE Alive(owner[x])'
  <2>1. x \in Subs /\ owner'[x] = IF o[x] \in S THEN 0 ELSE o[x]
    BY <1>8 DEF Subs
  <2>2. owner'[x] = o[x] /\ o[x] \notin S
    BY <1>13, <2>1 DEF Ids
  <2>3. CASE o[x] \in News(P)
    BY <1>3, <2>2, <2>3 DEF Alive
  <2>4. CASE o[x] = owner[x] /\ owner[x] \notin Olds(C)
    <3>1. Alive(owner[x]) /\ owner[x] \in Ids \ Olds(X)
      BY <1>5, <1>13, <2>2, <2>4 DEF HomeInv
    <3>2. sess'[owner[x]] = "closed" => sess[owner[x]] = "closed"
      BY <1>3, <3>1
    <3> QED BY <2>2, <2>4, <3>1, <3>2 DEF Alive
  <2> QED BY <1>6, <1>7, <2>1, <2>3, <2>4
<1> QED BY <1>10, <1>12, <1>13

-----------------------------------------------------------------------------
(* The invariant stays.                                                    *)
LEMMA NumbersAre == 0 \notin Ids /\ None \notin Ids
  BY PeriodicConstants DEF Ids

(* A run of a preset that does not fire is in a session that stays.        *)
LEMMA OthersStay ==
    ASSUME TypeInv, NumberInv, OneRunAtATime, NEW P \in SUBSET Presets, \A p \in P : ~Busy(p),
           NEW t \in tasks
    PROVE  t \in Task /\ t.p \in Presets \ P /\ t.s \in Ids \ Olds(P)
<1>1. t \in Task
  BY DEF TypeInv
<1>2. t.p \in Presets /\ t.s \in Ids /\ entry[t.p].last = t.s
  BY <1>1 DEF Task, OneRunAtATime
<1>3. t.p \notin P
  BY DEF Busy
<1>4. ASSUME t.s \in Olds(P) PROVE FALSE
  <2>1. PICK p \in P : entry[p].last = t.s
    BY <1>4 DEF Olds
  <2>2. p = t.p
    BY <1>2, <2>1, NumbersAre DEF NumberInv
  <2> QED BY <1>3, <2>2
<1> QED BY <1>1, <1>2, <1>3, <1>4

LEMMA FireStays ==
    ASSUME Inv, UNCHANGED <<cast, clock, turns, queued, mark>>, since' \in 0..TickEvery, defs' \in SUBSET Presets,
           acts' \in 0..cast.acts, NEW P \in SUBSET Presets, \A p \in P : ~Busy(p), Fire(P)
    PROVE  Inv'
<1> USE DEF Inv
<1>1. /\ Room(P) /\ tasks' = tasks \cup Runs(P) /\ lost' = lost \cup (Olds(P) \cap Running)
      /\ shut' = shut /\ Firings(P, P, P, P)
  BY DEF Fire
<1>2. /\ \A p \in Presets : EntryOK(entry[p])'
      /\ disk' = entry'
      /\ FiredInv'
      /\ \A p \in P : entry'[p].last = NewOf(p, P)
      /\ \A p \in Presets \ P : entry'[p] = entry[p]
  BY <1>1, FiringsEntries
<1>3. /\ sess' \in [Ids -> Statuses]
      /\ \A s \in News(P) : sess'[s] = "open"
      /\ \A s \in Ids \ Olds(P) : sess[s] = "open" => sess'[s] = "open"
      /\ \A s \in Ids \ Olds(P) : sess'[s] = "closed" => sess[s] = "closed"
  BY <1>1, FiringsSessions
<1>4. NumberInv'
  BY <1>1, FiringsNumbers
<1>5. shut \subseteq shut' /\ lost \subseteq lost' /\ lost' \in SUBSET Ids /\ shut' \in SUBSET Ids
  BY <1>1 DEF TypeInv, Running
<1>6. /\ owner' \in [Subs -> Ids \cup {None, 0}]
      /\ \A x \in Chats : owner'[x] \in Ids => Alive(owner[x])'
      /\ DecisionsSurvive'
  BY <1>1, <1>5, FiringsHomes
<1>7. \A s \in Running' : Alive(s)'
  <2> SUFFICES ASSUME NEW s \in Running PROVE Alive(s)'
    BY DEF Running
  <2>1. s \in Ids /\ Alive(s)
    BY DEF TypeInv, HomeInv, Running
  <2>2. CASE s \in Olds(P)
    BY <1>1, <2>2 DEF Alive
  <2>3. CASE s \notin Olds(P)
    BY <1>3, <1>5, <2>1, <2>3 DEF Alive
  <2> QED BY <2>2, <2>3
<1>8. HomeInv'
  BY <1>6, <1>7 DEF HomeInv
<1>9. \A p \in P : NewOf(p, P) \in Ids
  BY <1>1, NewNumbers DEF NumberInv
<1>10. \A t \in Runs(P) : t \in Task /\ t.p \in P /\ t.s = NewOf(t.p, P) /\ t.pc = "new"
  BY <1>9 DEF Runs, Task
<1>11. \A t \in tasks : t \in Task /\ t.p \in Presets \ P /\ t.s \in Ids \ Olds(P)
  BY OthersStay
<1>12. \A t, u \in Runs(P) : t.p = u.p => t = u
  BY DEF Runs
<1>13. tasks' \in SUBSET Task
  BY <1>1, <1>10, <1>11
<1>14. TypeInv'
  <2>1. clock \in Nat /\ cast \in Casts /\ turns \in SUBSET Ids /\ queued \in SUBSET turns /\ mark \in SUBSET Ids
    BY DEF TypeInv
  <2> QED BY <1>2, <1>3, <1>5, <1>6, <1>13, <2>1 DEF TypeInv
<1>15. ASSUME NEW t \in tasks'
       PROVE  /\ \A u \in tasks' : u.p = t.p => u = t
              /\ entry'[t.p].last = t.s
              /\ sess'[t.s] = "open" \/ t.s \in shut'
  <2>1. CASE t \in tasks
    <3>1. \A u \in tasks' : u.p = t.p => u \in tasks
      BY <1>1, <1>10, <1>11, <2>1
    <3>2. \A u \in tasks' : u.p = t.p => u = t
      BY <2>1, <3>1 DEF OneRunAtATime
    <3>3. entry'[t.p].last = t.s
      BY <1>2, <1>11, <2>1 DEF OneRunAtATime
    <3>4. sess'[t.s] = "open" \/ t.s \in shut'
      BY <1>3, <1>5, <1>11, <2>1 DEF OneRunAtATime
    <3> QED BY <3>2, <3>3, <3>4
  <2>2. CASE t \in Runs(P)
    <3>1. \A u \in tasks' : u.p = t.p => u \in Runs(P)
      BY <1>1, <1>10, <1>11, <2>2
    <3>2. \A u \in tasks' : u.p = t.p => u = t
      BY <1>12, <2>2, <3>1
    <3>3. t.s \in News(P) /\ entry'[t.p].last = t.s
      BY <1>2, <1>10, <2>2 DEF News
    <3> QED BY <1>3, <3>2, <3>3
  <2> QED BY <1>1, <2>1, <2>2
<1>16. OneRunAtATime'
  BY <1>15 DEF OneRunAtATime
<1> QED BY <1>2, <1>4, <1>8, <1>14, <1>16

(* A kill, between two steps of the scheduler and in the middle of one.    *)
LEMMA RestartStays ==
    ASSUME Inv, Restart, lost \subseteq lost', lost' \in SUBSET Ids, NumberInv', FiredInv',
           \A p \in Presets : EntryOK(entry[p])', disk' = entry',
           sess' \in [Ids -> Statuses], owner' \in [Subs -> Ids \cup {None, 0}],
           \A x \in Chats : owner'[x] \in Ids => Alive(owner[x])', DecisionsSurvive'
    PROVE  Inv'
<1> USE DEF Inv
<1>1. /\ tasks' = {} /\ turns' = {} /\ queued' = {} /\ mark' = {} /\ since' = TickEvery /\ acts < cast.acts /\ acts' = acts + 1
      /\ UNCHANGED <<cast, clock, defs, shut>>
  BY DEF Restart, Act
<1>2. HomeInv' /\ OneRunAtATime'
  BY <1>1 DEF HomeInv, OneRunAtATime, Running
<1>3. cast.acts \in Nat /\ TickEvery \in Nat
  BY CastFacts, PeriodicConstants
<1>4. acts' \in 0..cast.acts /\ since' \in 0..TickEvery
  BY <1>1, <1>3 DEF TypeInv
<1>5. TypeInv'
  BY <1>1, <1>4 DEF TypeInv
<1> QED BY <1>2, <1>5

LEMMA KillStays ==
    ASSUME Inv, Kill
    PROVE  Inv'
<1> USE DEF Inv
<1> DEFINE old == Prunable(sess, disk)
<1>1. /\ Restart /\ disk' = disk /\ fires' = fires /\ lost' = lost /\ entry' = disk /\ SubsClosed(owner, old)
      /\ sess' = [s \in Ids |-> IF s \in old THEN "deleted" ELSE sess[s]]
  BY DEF Kill
<1>2. cast' = cast /\ shut' = shut
  BY <1>1 DEF Restart
<1>3. old \in SUBSET Ids /\ \A s \in old : sess[s] = "closed"
  BY DEF Prunable
<1> HIDE DEF old
<1>4. disk = entry /\ \A s \in Ids : sess[s] \in Statuses
  BY DEF TypeInv
<1>5. sess' \in [Ids -> Statuses]
  <2>1. \A s \in Ids : (IF s \in old THEN "deleted" ELSE sess[s]) \in Statuses
    BY <1>4 DEF Statuses
  <2> QED BY <1>1, <2>1
<1>6. \A s \in Ids : sess'[s] = IF s \in old THEN "deleted" ELSE sess[s]
  BY <1>1
<1>7. Created' = Created
  BY <1>3, <1>6 DEF Created
<1>8. NumberInv' /\ FiredInv'
  BY <1>1, <1>4, <1>7 DEF NumberInv, FiredInv, Packed
<1>9. \A p \in Presets : EntryOK(entry[p])'
  BY <1>1, <1>2, <1>4 DEF TypeInv, EntryOK
<1>10. /\ owner' = [x \in Subs |-> IF owner[x] \in old THEN 0 ELSE owner[x]]
       /\ cut' = cut \cup {x \in Subs : owner[x] \in old \ (shut' \cup lost')}
  BY <1>1 DEF SubsClosed
<1>11. owner' \in [Subs -> Ids \cup {None, 0}]
  <2>1. \A x \in Subs : (IF owner[x] \in old THEN 0 ELSE owner[x]) \in Ids \cup {None, 0}
    BY DEF TypeInv
  <2> QED BY <1>10, <2>1
<1>12. \A x \in Chats : owner[x] \in old => owner[x] \in shut \cup lost
  BY <1>3 DEF HomeInv, Alive
<1>13. DecisionsSurvive'
  BY <1>1, <1>2, <1>10, <1>12 DEF DecisionsSurvive, HomeInv
<1>14. ASSUME NEW x \in Chats, owner'[x] \in Ids PROVE Alive(owner[x])'
  <2>1. owner'[x] = IF owner[x] \in old THEN 0 ELSE owner[x]
    BY <1>10 DEF Subs
  <2>2. owner'[x] = owner[x] /\ owner[x] \notin old
    BY <1>14, <2>1, NumbersAre
  <2> QED BY <1>1, <1>2, <1>6, <1>14, <2>2 DEF Alive, HomeInv
<1>15. lost \subseteq lost' /\ lost' \in SUBSET Ids /\ disk' = entry'
  BY <1>1 DEF TypeInv
<1> QED BY <1>1, <1>5, <1>8, <1>9, <1>11, <1>13, <1>14, <1>15, RestartStays

LEMMA KillInFireStays ==
    ASSUME Inv, NEW p \in Presets, NEW k \in Steps, KillInFire(p, k)
    PROVE  Inv'
<1> USE DEF Inv
<1> DEFINE done == {q \in ToFire : Place(q) < Place(p)}
           P == done \cup {p}
           E == IF k \in {"session"} THEN done ELSE P
           C == IF k \in {"session", "file"} THEN done ELSE P
           X == IF k \in {"session", "file", "handover"} THEN done ELSE P
<1>1. /\ Room(P) /\ Restart /\ Firings(P, E, C, X)
      /\ lost' = lost \cup (IF k = "session" THEN {NewOf(p, P)} ELSE IF k = "close" THEN {} ELSE Olds({p}))
  BY DEF KillInFire
<1>2. P \in SUBSET Presets
  BY DEF TypeInv, ToFire
<1>3. E \in SUBSET P /\ C \in SUBSET P /\ X \in SUBSET C
  OBVIOUS
<1>4. p \in P
  OBVIOUS
<1> HIDE DEF P, E, C, X
<1>5. cast' = cast /\ clock' = clock /\ shut' = shut
  BY <1>1 DEF Restart
<1>6. NewOf(p, P) \in Ids
  BY <1>1, <1>2, <1>4, NewNumbers DEF NumberInv
<1>7. Olds({p}) \subseteq Ids
  BY DEF Olds, NumberInv, Created
<1>8. shut \subseteq shut' /\ lost \subseteq lost' /\ lost' \in SUBSET Ids
  BY <1>1, <1>5, <1>6, <1>7 DEF TypeInv
<1>9. X \in SUBSET Presets
  BY <1>2, <1>3
<1>10. (\A q \in Presets : EntryOK(entry[q])') /\ disk' = entry' /\ FiredInv'
  BY <1>1, <1>2, <1>3, <1>5, FiringsEntries
<1>11. sess' \in [Ids -> Statuses]
  BY <1>1, <1>2, <1>9, FiringsSessions
<1>12. NumberInv'
  BY <1>1, <1>2, <1>3, <1>5, <1>9, FiringsNumbers
<1>13. /\ owner' \in [Subs -> Ids \cup {None, 0}]
       /\ \A x \in Chats : owner'[x] \in Ids => Alive(owner[x])'
       /\ DecisionsSurvive'
  BY <1>1, <1>2, <1>3, <1>8, FiringsHomes
<1> QED BY <1>1, <1>8, <1>10, <1>11, <1>12, <1>13, RestartStays

-----------------------------------------------------------------------------
(* Steps that fire nothing.                                                *)
LEMMA QuietStays ==
    ASSUME Inv, UNCHANGED <<cast, entry, disk, fires>>, clock' \in Nat, since' \in 0..TickEvery,
           defs' \in SUBSET Presets, acts' \in 0..cast.acts, tasks' \in SUBSET Task,
           sess' \in [Ids -> Statuses], \A s \in Ids : sess'[s] = "new" <=> sess[s] = "new",
           owner' \in [Subs -> Ids \cup {None, 0}],
           turns' \in SUBSET Ids, queued' \in SUBSET turns', mark' \in SUBSET Ids, shut' \in SUBSET Ids, lost' \in SUBSET Ids,
           OneRunAtATime', HomeInv'
    PROVE  Inv'
<1> USE DEF Inv
<1>1. Created' = Created
  BY DEF Created
<1>2. NumberInv' /\ FiredInv'
  BY <1>1 DEF NumberInv, FiredInv, Packed
<1>3. \A p \in Presets : EntryOK(entry[p])'
  BY DEF TypeInv, EntryOK
<1>4. TypeInv'
  BY <1>3 DEF TypeInv
<1> QED BY <1>2, <1>4

LEMMA TimeStays ==
    ASSUME Inv, Time
    PROVE  Inv'
<1> USE DEF Inv
<1>1. /\ clock' = clock + 1 /\ since < TickEvery /\ since' = since + 1
      /\ UNCHANGED <<cast, defs, entry, disk, sess, owner, tasks, fires, cut, turns, queued, mark, acts, shut, lost>>
  BY DEF Time, world, waits, histories
<1>2. clock' \in Nat /\ since' \in 0..TickEvery
  BY <1>1, PeriodicConstants DEF TypeInv
<1>3. OneRunAtATime' /\ HomeInv'
  BY <1>1 DEF OneRunAtATime, HomeInv, Alive, DecisionsSurvive, Running
<1> QED BY <1>1, <1>2, <1>3, QuietStays DEF TypeInv

LEMMA ReloadStays ==
    ASSUME Inv, NEW p \in Presets, Reload(p)
    PROVE  Inv'
<1> USE DEF Inv
<1>1. /\ acts < cast.acts /\ acts' = acts + 1 /\ defs' = IF p \in defs THEN defs \ {p} ELSE defs \cup {p}
      /\ UNCHANGED <<cast, clock, since, entry, disk, sess, owner, tasks, fires, cut, turns, queued, mark, shut, lost>>
  BY DEF Reload, Act, world, waits, histories
<1>2. acts' \in 0..cast.acts
  BY <1>1, CastFacts DEF TypeInv
<1>3. OneRunAtATime' /\ HomeInv'
  BY <1>1 DEF OneRunAtATime, HomeInv, Alive, DecisionsSurvive, Running
<1>4. defs' \in SUBSET Presets
  BY <1>1 DEF TypeInv
<1> QED BY <1>1, <1>2, <1>3, <1>4, QuietStays DEF TypeInv

LEMMA MarkStays ==
    ASSUME TypeInv, NEW s, NEW b, mark' \in MarkAfter(s, b)
    PROVE  mark' \in SUBSET Ids
  BY DEF MarkAfter, TypeInv

LEMMA StartRunStays ==
    ASSUME Inv, NEW t \in tasks, StartRun(t)
    PROVE  Inv'
<1> USE DEF Inv
<1> DEFINE t1 == [t EXCEPT !.pc = "turn"]
<1>1. /\ tasks' = (tasks \ {t}) \cup {t1} /\ mark' = mark \cup {t.s}
      /\ sess' = IF sess[t.s] = "closed" THEN [sess EXCEPT ![t.s] = "open"] ELSE sess
      /\ UNCHANGED <<cast, clock, since, defs, entry, disk, owner, fires, cut, turns, queued, acts, shut, lost>>
  BY DEF StartRun, Begun, waits, histories
<1>2. t \in Task /\ t.s \in Ids /\ sess \in [Ids -> Statuses]
  BY DEF TypeInv, Task
<1>3. t1 \in Task /\ t1.p = t.p /\ t1.s = t.s
  BY <1>2 DEF Task
<1> HIDE DEF t1
<1>4. sess' \in [Ids -> Statuses] /\ \A s \in Ids : sess'[s] = IF s = t.s /\ sess[s] = "closed" THEN "open" ELSE sess[s]
  BY <1>1, <1>2 DEF Statuses
<1>5. tasks' \in SUBSET Task /\ mark' \in SUBSET Ids
  BY <1>1, <1>2, <1>3 DEF TypeInv
<1>6. HomeInv'
  <2>1. \A s \in Ids : Alive(s) => Alive(s)'
    BY <1>1, <1>4 DEF Alive
  <2> QED BY <1>1, <2>1 DEF HomeInv, TypeInv, DecisionsSurvive, Running
<1>7. OneRunAtATime'
  <2>1. \A u \in tasks' : \E v \in tasks : u.p = v.p /\ u.s = v.s /\ (v = t => u = t1) /\ (v # t => u = v)
    BY <1>1, <1>3
  <2>2. \A u, w \in tasks' : u.p = w.p => u = w
    BY <2>1 DEF OneRunAtATime
  <2>3. \A v \in tasks : v.s \in Ids
    BY DEF TypeInv, Task
  <2>4. \A v \in tasks : entry'[v.p].last = v.s /\ (sess'[v.s] = "open" \/ v.s \in shut')
    BY <1>1, <1>4, <2>3 DEF OneRunAtATime
  <2> QED BY <2>1, <2>2, <2>4 DEF OneRunAtATime
<1> QED BY <1>1, <1>4, <1>5, <1>6, <1>7, QuietStays DEF TypeInv

LEMMA RunFailsStays ==
    ASSUME Inv, NEW t \in tasks, RunFails(t)
    PROVE  Inv'
<1> USE DEF Inv
<1>1. /\ tasks' = tasks \ {t} /\ mark' \in MarkAfter(t.s, t.s \in turns)
      /\ UNCHANGED <<cast, clock, since, defs, entry, disk, sess, owner, fires, cut, turns, queued, acts, shut, lost>>
  BY DEF RunFails, waits, histories
<1>2. tasks' \in SUBSET Task /\ mark' \in SUBSET Ids
  BY <1>1, MarkStays DEF TypeInv
<1>3. OneRunAtATime' /\ HomeInv'
  BY <1>1 DEF OneRunAtATime, HomeInv, Alive, DecisionsSurvive, Running
<1> QED BY <1>1, <1>2, <1>3, QuietStays DEF TypeInv

(* A run that ends closes its session when no decision waits there.        *)
LEMMA RunEndsStays ==
    ASSUME Inv, NEW t \in tasks, RunEnds(t)
    PROVE  Inv'
<1> USE DEF Inv
<1>1. /\ tasks' = tasks \ {t} /\ mark' \in MarkAfter(t.s, t.s \in turns)
      /\ lost' = lost \cup (IF Live(t.s) = {} THEN {t.s} \cap Running ELSE {})
      /\ UNCHANGED <<cast, clock, since, defs, entry, disk, fires, turns, queued, acts, shut>>
      /\ IF Live(t.s) = {} THEN ClosedFully(t.s) ELSE UNCHANGED <<sess, owner, cut>>
  BY DEF RunEnds, waits
<1>2. t.s \in Ids /\ sess \in [Ids -> Statuses] /\ entry[t.p].last = t.s /\ t.p \in Presets
  BY DEF TypeInv, Task, OneRunAtATime
<1>3. tasks' \in SUBSET Task /\ mark' \in SUBSET Ids /\ lost' \in SUBSET Ids
  BY <1>1, <1>2, MarkStays DEF TypeInv
<1>4. CASE Live(t.s) # {}
  <2>1. UNCHANGED <<sess, owner, cut, lost>>
    BY <1>1, <1>4
  <2>2. OneRunAtATime' /\ HomeInv'
    BY <1>1, <2>1 DEF OneRunAtATime, HomeInv, Alive, DecisionsSurvive, Running
  <2> QED BY <1>1, <1>3, <2>1, <2>2, QuietStays DEF TypeInv
<1>5. CASE Live(t.s) = {}
  <2>1. /\ sess' = [sess EXCEPT ![t.s] = IF @ = "deleted" THEN @ ELSE "closed"]
        /\ owner' = [x \in Subs |-> IF owner[x] \in {t.s} THEN 0 ELSE owner[x]]
        /\ cut' = cut \cup {x \in Subs : owner[x] \in {t.s} \ (shut' \cup lost')}
        /\ lost' = lost \cup ({t.s} \cap Running)
    BY <1>1, <1>5 DEF ClosedFully, SubsClosed
  <2>2. \A x \in Subs : owner[x] # t.s
    BY <1>5 DEF Live
  <2>3. owner' = owner /\ cut' = cut
    <3>1. owner' = [x \in Subs |-> owner[x]]
      BY <2>1, <2>2
    <3> QED BY <2>1, <2>2, <3>1 DEF TypeInv
  <2>4. /\ sess' \in [Ids -> Statuses]
        /\ \A s \in Ids \ {t.s} : sess'[s] = sess[s]
        /\ sess'[t.s] # "new"
    BY <1>2, <2>1 DEF Statuses
  <2>5. sess[t.s] # "new"
    BY <1>2, NumbersAre DEF NumberInv, Created
  <2>6. \A s \in Ids : Alive(s) /\ s # t.s => Alive(s)'
    BY <1>1, <2>1, <2>4 DEF Alive
  <2>7. HomeInv'
    <3>1. \A s \in Running' : Alive(s)'
      <4> SUFFICES ASSUME NEW s \in Running PROVE Alive(s)'
        BY <1>1 DEF Running
      <4>1. CASE s = t.s
        BY <2>1, <4>1 DEF Alive
      <4>2. CASE s # t.s
        BY <2>6, <4>2 DEF HomeInv, TypeInv, Running
      <4> QED BY <4>1, <4>2
    <3>2. \A x \in Chats : owner'[x] \in Ids => Alive(owner[x])'
      <4> SUFFICES ASSUME NEW x \in Chats, owner'[x] \in Ids PROVE Alive(owner[x])'
        OBVIOUS
      <4>1. owner'[x] = owner[x] /\ owner[x] # t.s /\ Alive(owner[x])
        BY <2>2, <2>3 DEF HomeInv, Subs
      <4> QED BY <2>3, <2>6, <4>1 DEF Alive
    <3> QED BY <1>1, <2>3, <3>1, <3>2 DEF HomeInv, DecisionsSurvive
  <2>8. OneRunAtATime'
    <3>1. \A u \in tasks' : u.s # t.s /\ u.s \in Ids
      <4> SUFFICES ASSUME NEW u \in tasks' PROVE u.s # t.s /\ u.s \in Ids
        OBVIOUS
      <4>1. u \in tasks /\ u # t
        BY <1>1
      <4>2. u.p \in Presets /\ u.s \in Ids /\ entry[u.p].last = u.s
        BY <4>1 DEF TypeInv, Task, OneRunAtATime
      <4>3. ASSUME u.s = t.s PROVE FALSE
        <5>1. u.p = t.p
          BY <1>2, <4>2, <4>3, NumbersAre DEF NumberInv
        <5> QED BY <4>1, <5>1 DEF OneRunAtATime
      <4> QED BY <4>2, <4>3
    <3> QED BY <1>1, <2>4, <3>1 DEF OneRunAtATime
  <2> QED BY <1>1, <1>3, <2>3, <2>4, <2>5, <2>7, <2>8, QuietStays DEF TypeInv
<1> QED BY <1>4, <1>5

(* What is in a session where a turn runs has a place to be.               *)
LEMMA StartStays ==
    ASSUME Inv, NEW x \in Subs, NEW s \in Ids, Start(x, s)
    PROVE  Inv'
<1> USE DEF Inv
<1>1. /\ InTurn(s) /\ owner' = [owner EXCEPT ![x] = s]
      /\ UNCHANGED <<cast, clock, since, defs, entry, disk, sess, tasks, fires, cut, turns, queued, mark, acts, shut, lost>>
  BY DEF Start, waits, histories
<1>2. Alive(s)
  BY <1>1 DEF InTurn, Alive, HomeInv, OneRunAtATime
<1>3. owner' \in [Subs -> Ids \cup {None, 0}] /\ \A y \in Subs : owner'[y] = IF y = x THEN s ELSE owner[y]
  BY <1>1 DEF TypeInv
<1>4. HomeInv'
  <2>1. \A y \in Chats : owner'[y] \in Ids => Alive(owner'[y])
    BY <1>2, <1>3 DEF HomeInv, Subs
  <2> QED BY <1>1, <2>1 DEF HomeInv, Alive, DecisionsSurvive, Running
<1>5. OneRunAtATime'
  BY <1>1 DEF OneRunAtATime
<1> QED BY <1>1, <1>3, <1>4, <1>5, QuietStays DEF TypeInv

LEMMA EndStays ==
    ASSUME Inv, NEW x \in Subs, End(x)
    PROVE  Inv'
<1> USE DEF Inv
<1>1. /\ owner' = [owner EXCEPT ![x] = 0]
      /\ UNCHANGED <<cast, clock, since, defs, entry, disk, sess, tasks, fires, cut, turns, queued, mark, acts, shut, lost>>
  BY DEF End, waits, histories
<1>3. owner' \in [Subs -> Ids \cup {None, 0}] /\ \A y \in Subs : owner'[y] = IF y = x THEN 0 ELSE owner[y]
  BY <1>1 DEF TypeInv
<1>4. HomeInv'
  <2>1. \A y \in Chats : owner'[y] \in Ids => Alive(owner'[y])
    BY <1>3, NumbersAre DEF HomeInv, Subs
  <2> QED BY <1>1, <2>1 DEF HomeInv, Alive, DecisionsSurvive, Running
<1>5. OneRunAtATime'
  BY <1>1 DEF OneRunAtATime
<1> QED BY <1>1, <1>3, <1>4, <1>5, QuietStays DEF TypeInv

LEMMA OperatorTurnStays ==
    ASSUME Inv, NEW s \in Ids, OperatorTurn(s)
    PROVE  Inv'
<1> USE DEF Inv
<1>1. /\ acts < cast.acts /\ acts' = acts + 1
      /\ turns' = turns \cup {s} /\ queued' = queued \cup {s} /\ mark' = mark \cup {s}
      /\ UNCHANGED <<cast, clock, since, defs, entry, disk, sess, owner, tasks, fires, cut, shut, lost>>
  BY DEF OperatorTurn, Act, world, histories
<1>2. acts' \in 0..cast.acts
  BY <1>1, CastFacts DEF TypeInv
<1>3. Running' \subseteq Running
  BY <1>1 DEF Running
<1>4. OneRunAtATime' /\ HomeInv'
  BY <1>1, <1>3 DEF OneRunAtATime, HomeInv, Alive, DecisionsSurvive
<1> QED BY <1>1, <1>2, <1>4, QuietStays DEF TypeInv

(* The session is open when the turn runs.                                 *)
LEMMA OperatorTurnBeginsStays ==
    ASSUME Inv, NEW s \in Ids, OperatorTurnBegins(s)
    PROVE  Inv'
<1> USE DEF Inv
<1>1. /\ s \in queued /\ queued' = queued \ {s} /\ sess' = Begun(s)
      /\ UNCHANGED <<cast, clock, since, defs, entry, disk, owner, tasks, fires, cut, turns, mark, acts, shut, lost>>
  BY DEF OperatorTurnBegins, histories
<1>2. sess' \in [Ids -> Statuses] /\ \A r \in Ids : sess'[r] = IF r = s /\ sess[r] = "closed" THEN "open" ELSE sess[r]
  BY <1>1 DEF TypeInv, Statuses, Begun
<1>3. \A r \in Ids : Alive(r) => Alive(r)'
  BY <1>1, <1>2 DEF Alive
<1>4. HomeInv'
  <2>1. Running' = Running \cup {s} /\ Running \in SUBSET Ids
    BY <1>1 DEF Running, TypeInv
  <2>2. Alive(s)'
    BY <1>1, <1>2 DEF Alive, TypeInv
  <2> QED BY <1>1, <1>3, <2>1, <2>2 DEF HomeInv, TypeInv, DecisionsSurvive
<1>5. OneRunAtATime'
  <2>1. \A t \in tasks : t.s \in Ids
    BY DEF TypeInv, Task
  <2> QED BY <1>1, <1>2, <2>1 DEF OneRunAtATime
<1> QED BY <1>1, <1>2, <1>4, <1>5, QuietStays DEF TypeInv

LEMMA OperatorTurnEndsStays ==
    ASSUME Inv, NEW s \in Ids, OperatorTurnEnds(s)
    PROVE  Inv'
<1> USE DEF Inv
<1>1. /\ s \in Running /\ turns' = turns \ {s} /\ \E b \in BOOLEAN : mark' \in MarkAfter(s, b)
      /\ UNCHANGED <<cast, clock, since, defs, entry, disk, sess, owner, tasks, fires, cut, queued, acts, shut, lost>>
  BY DEF OperatorTurnEnds, world, histories
<1>2. mark' \in SUBSET Ids
  BY <1>1, MarkStays
<1>3. Running' \subseteq Running /\ queued' \in SUBSET turns'
  BY <1>1 DEF Running, TypeInv
<1>4. OneRunAtATime' /\ HomeInv'
  BY <1>1, <1>3 DEF OneRunAtATime, HomeInv, Alive, DecisionsSurvive
<1> QED BY <1>1, <1>2, <1>3, <1>4, QuietStays DEF TypeInv

(* What the operator closes is his to close.                               *)
LEMMA GoneStays ==
    ASSUME Inv, NEW s \in Ids, NEW st \in {"closed", "deleted"}, sess[s] # "new", Act, GoneBy(s, st)
    PROVE  Inv'
<1> USE DEF Inv
<1>1. /\ acts < cast.acts /\ acts' = acts + 1
      /\ sess' = [sess EXCEPT ![s] = st] /\ shut' = shut \cup {s}
      /\ owner' = [x \in Subs |-> IF owner[x] = s THEN 0 ELSE owner[x]]
      /\ UNCHANGED <<cast, clock, since, defs, entry, disk, tasks, fires, cut, turns, queued, mark, lost>>
  BY DEF GoneBy, Act, waits
<1>2. acts' \in 0..cast.acts
  BY <1>1, CastFacts DEF TypeInv
<1>3. sess' \in [Ids -> Statuses] /\ \A r \in Ids : sess'[r] = IF r = s THEN st ELSE sess[r]
  BY <1>1 DEF TypeInv, Statuses
<1>4. \A r \in Ids : Alive(r) => Alive(r)'
  BY <1>1, <1>3 DEF Alive
<1>5. owner' \in [Subs -> Ids \cup {None, 0}]
  <2>1. \A x \in Subs : (IF owner[x] = s THEN 0 ELSE owner[x]) \in Ids \cup {None, 0}
    BY DEF TypeInv
  <2> QED BY <1>1, <2>1
<1>6. HomeInv'
  <2>1. \A x \in Chats : owner'[x] = IF owner[x] = s THEN 0 ELSE owner[x]
    BY <1>1 DEF Subs
  <2>2. \A x \in Chats : owner'[x] \in Ids => Alive(owner[x]) /\ owner'[x] = owner[x]
    BY <2>1, NumbersAre DEF HomeInv
  <2>3. \A x \in Chats : owner'[x] \in Ids => Alive(owner[x])'
    BY <1>4, <2>2 DEF Alive
  <2>4. \A r \in Running : Alive(r)'
    BY <1>4 DEF HomeInv, TypeInv, Running
  <2> QED BY <1>1, <2>3, <2>4 DEF HomeInv, DecisionsSurvive, Running
<1>7. OneRunAtATime'
  <2>1. \A t \in tasks : t.s \in Ids
    BY DEF TypeInv, Task
  <2> QED BY <1>1, <1>3, <2>1 DEF OneRunAtATime
<1>8. shut' \in SUBSET Ids
  BY <1>1 DEF TypeInv
<1> QED BY <1>1, <1>2, <1>3, <1>5, <1>6, <1>7, <1>8, QuietStays DEF TypeInv

-----------------------------------------------------------------------------
LEMMA InitInv == Init => Inv
<1> SUFFICES ASSUME Init PROVE Inv
  OBVIOUS
<1> USE PeriodicConstants DEF Init
<1>1. Created = {}
  BY DEF Created
<1>2. Packed
  BY <1>1 DEF Packed
<1>3. \A p \in Presets : entry[p] = Blank
  OBVIOUS
<1>4. Blank.fired = None /\ Blank.last = None /\ Blank.recent = <<>>
  BY DEF Blank
<1>5. cast.retained \in Nat \ {0} /\ cast.acts \in Nat /\ cast.defs \subseteq Presets
  OBVIOUS
<1>6. \A p \in Presets : EntryOK(entry[p])
  <2>1. <<>> \in Seq(Ids) /\ Len(<<>>) = 0
    OBVIOUS
  <2>2. Len(<<>>) <= cast.retained
    BY <1>5, <2>1
  <2>3. EntryOK(Blank)
    BY <1>4, <2>1, <2>2, Zenon DEF EntryOK
  <2> QED BY <1>3, <2>3
<1>7. TypeInv
  BY <1>5, <1>6 DEF TypeInv, Statuses
<1>8. NumberInv /\ FiredInv
  BY <1>2, <1>3, <1>4 DEF NumberInv, FiredInv
<1>9. HomeInv /\ OneRunAtATime
  <2>1. \A x \in Chats : owner[x] = None
    BY DEF Subs
  <2> QED BY <2>1, NumbersAre DEF HomeInv, OneRunAtATime, DecisionsSurvive, Running
<1> QED BY <1>7, <1>8, <1>9 DEF Inv

LEMMA TickStays ==
    ASSUME Inv, Tick
    PROVE  Inv'
<1>1. UNCHANGED <<cast, clock, defs, turns, queued, mark, acts>> /\ Fire(ToFire) /\ since' = 0
  BY DEF Tick, waits
<1>2. ToFire \in SUBSET Presets /\ \A p \in ToFire : ~Busy(p)
  BY DEF ToFire, Inv, TypeInv
<1>3. since' \in 0..TickEvery /\ defs' \in SUBSET Presets /\ acts' \in 0..cast.acts
  BY <1>1, PeriodicConstants DEF Inv, TypeInv
<1> QED BY <1>1, <1>2, <1>3, FireStays

LEMMA FireRouteStays ==
    ASSUME Inv, NEW p \in Presets, FireRoute(p)
    PROVE  Inv'
<1>1. /\ acts < cast.acts /\ acts' = acts + 1 /\ ~Busy(p)
      /\ UNCHANGED <<cast, clock, since, defs, turns, queued, mark>> /\ Fire({p})
  BY DEF FireRoute, Act, waits
<1>2. since' \in 0..TickEvery /\ defs' \in SUBSET Presets /\ acts' \in 0..cast.acts
  BY <1>1, CastFacts DEF Inv, TypeInv
<1> QED BY <1>1, <1>2, FireStays

LEMMA NextInv ==
    ASSUME Inv, [Next]_vars
    PROVE  Inv'
<1>1. CASE Tick
  BY <1>1, TickStays
<1>2. CASE Time
  BY <1>2, TimeStays
<1>3. CASE RunSteps
  BY <1>3, StartRunStays, RunFailsStays, RunEndsStays DEF RunSteps
<1>4. ASSUME NEW s \in Ids, OperatorTurn(s) \/ CloseRoute(s) \/ DeleteRoute(s) PROVE Inv'
  BY <1>4, OperatorTurnStays, GoneStays DEF CloseRoute, DeleteRoute
<1>5. ASSUME NEW p \in Presets, FireRoute(p) \/ Reload(p) PROVE Inv'
  BY <1>5, FireRouteStays, ReloadStays
<1>6. CASE TurnSteps
  BY <1>6, OperatorTurnBeginsStays, OperatorTurnEndsStays DEF TurnSteps
<1>7. ASSUME NEW x \in Subs, End(x) PROVE Inv'
  BY <1>7, EndStays
<1>8. ASSUME NEW x \in Subs, NEW s \in Ids, Start(x, s) PROVE Inv'
  BY <1>8, StartStays
<1>9. CASE Kill
  BY <1>9, KillStays
<1>10. ASSUME NEW p \in Presets, NEW k \in Steps, KillInFire(p, k) PROVE Inv'
  BY <1>10, KillInFireStays
<1>11. CASE UNCHANGED vars
  <2> USE DEF Inv
  <2>1. UNCHANGED <<cast, clock, since, defs, entry, disk, sess, owner, tasks, fires, cut, turns, queued, mark, acts, shut, lost>>
    BY <1>11 DEF vars, world, waits, histories
  <2>2. OneRunAtATime' /\ HomeInv'
    BY <2>1 DEF OneRunAtATime, HomeInv, Alive, DecisionsSurvive, Running
  <2> QED BY <2>1, <2>2, QuietStays DEF TypeInv
<1> QED BY <1>1, <1>2, <1>3, <1>4, <1>5, <1>6, <1>7, <1>8, <1>9, <1>10, <1>11 DEF Next, OperatorSteps

LEMMA SpecInv == Spec => []Inv
  BY InitInv, NextInv, PTL DEF Spec

-----------------------------------------------------------------------------
(* A quotient is above k once its dividend reaches the next multiple.      *)
LEMMA Quotient ==
    ASSUME NEW x \in Int, NEW k \in Int, NEW i \in Nat \ {0}, x >= (k + 1) * i
    PROVE  x \div i > k
<1> DEFINE q == x \div i
           r == x % i
<1>1. q \in Int /\ r \in 0..(i - 1) /\ x = i * q + r
  OBVIOUS
<1> HIDE DEF q, r
<1>2. ASSUME q <= k PROVE FALSE
  <2>1. x < i * q + i
    BY <1>1
  <2>2. i * q <= i * k
    BY <1>1, <1>2
  <2>3. (k + 1) * i = i * k + i
    OBVIOUS
  <2> QED BY <1>1, <2>1, <2>2, <2>3
<1>3. q > k
  BY <1>1, <1>2
<1> QED BY <1>3 DEF q

(* A preset that fires by a tick is due.                                   *)
LEMMA FiredIsDue ==
    ASSUME Inv, Tick, NEW p \in Presets, fires'[p] # fires[p]
    PROVE  fires'[p] = clock /\ clock >= NextRun(p, fires[p])
<1>1. fires' = [q \in Presets |-> IF q \in ToFire THEN clock ELSE fires[q]]
  BY DEF Tick, Fire, Firings
<1>2. p \in ToFire /\ fires'[p] = clock
  BY <1>1
<1> QED BY <1>2 DEF ToFire, Due, Inv, FiredInv

LEMMA FiringIsSpaced ==
    ASSUME Inv, Tick, NEW p \in Presets, fires[p] # None, fires'[p] # fires[p]
    PROVE  Spaced(p, fires[p], fires'[p])
<1> DEFINE i == cast.interval[p]
           a == cast.anchor[p]
           f == fires[p]
<1>1. i \in Nat \ {0} /\ a \in Nat \cup {None} /\ clock \in Nat
  BY CastFacts DEF Inv, TypeInv
<1>2. f \in Nat
  BY DEF Inv, TypeInv, EntryOK, FiredInv
<1>3. fires'[p] = clock /\ clock >= NextRun(p, f)
  BY FiredIsDue
<1>4. NextRun(p, f) = IF a = None THEN f + i ELSE a + ((f - a) \div i + 1) * i
  BY <1>2, PeriodicConstants DEF NextRun
<1> HIDE DEF i, a, f
<1>5. CASE a = None
  <2>1. clock - f >= i
    BY <1>1, <1>2, <1>3, <1>4, <1>5
  <2> QED BY <1>3, <1>5, <2>1 DEF Spaced, i, a, f
<1>6. CASE a # None
  <2> DEFINE k == (f - a) \div i
             m == (k + 1) * i
  <2>1. k \in Int /\ f - a \in Int /\ clock - a \in Int /\ a \in Int
    BY <1>1, <1>2, <1>6
  <2>2. clock >= a + m
    BY <1>3, <1>4, <1>6
  <2> HIDE DEF k
  <2>3. m \in Int
    BY <1>1, <2>1
  <2> HIDE DEF m
  <2>4. clock - a >= m
    BY <1>1, <2>1, <2>2, <2>3
  <2>5. (clock - a) \div i > k
    BY <1>1, <2>1, <2>4, Quotient DEF m
  <2> QED BY <1>3, <1>6, <2>5 DEF Spaced, i, a, f, k
<1> QED BY <1>5, <1>6

-----------------------------------------------------------------------------
(* The variables keep their types, and an entry of the file names as the   *)
(* last session of a preset the last of those it retains, at most          *)
(* _retained_runs.                                                         *)
THEOREM PeriodicTypes == Spec => []TypeOK
<1>1. TypeInv => TypeOK
  <2> SUFFICES ASSUME TypeInv PROVE TypeOK
    OBVIOUS
  <2>1. \A p \in Presets : EntryOK(entry[p])
    BY DEF TypeInv
  <2>2. \A t \in tasks : t.p \in Presets /\ t.s \in Ids /\ t.pc \in {"new", "turn"}
    BY DEF TypeInv, Task
  <2> QED BY <2>1, <2>2 DEF TypeInv, TypeOK, EntryOK, Statuses
<1>2. Inv => TypeOK
  BY <1>1 DEF Inv
<1> QED BY <1>2, SpecInv, PTL

(* A preset has one run at a time, fired by a tick or by hand, whatever    *)
(* the operator writes to its session, and the run is in the last session  *)
(* of its preset, open unless the operator closed it.                      *)
THEOREM RunsDoNotOverlap == Spec => []OneRunAtATime
<1>1. Inv => OneRunAtATime
  BY DEF Inv
<1> QED BY <1>1, SpecInv, PTL

(* No completed run, later firing, prune or restart, in the middle of a    *)
(* firing too, closes a decision that waits for the operator.              *)
THEOREM DecisionsAreKept == Spec => []DecisionsSurvive
<1>1. Inv => DecisionsSurvive
  BY DEF Inv, HomeInv
<1> QED BY <1>1, SpecInv, PTL

(* A tick fires a preset an interval after its last firing, or after the   *)
(* next point of the grid of its anchor, whatever was fired by hand,       *)
(* reloaded or restarted between.                                          *)
THEOREM FiringsAreSpaced == Spec => Cadence
<1> DEFINE A == \A p \in Presets : Tick /\ fires[p] # None /\ fires'[p] # fires[p]
                   => Spaced(p, fires[p], fires'[p])
<1>1. Inv /\ [Next]_vars => [A]_vars
  BY FiringIsSpaced
<1>2. Cadence <=> [][A]_vars
  BY DEF Cadence
<1> HIDE DEF A
<1> QED BY <1>1, <1>2, SpecInv, PTL DEF Spec
=============================================================================
