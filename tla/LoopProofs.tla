----------------------------- MODULE LoopProofs ------------------------------
(***************************************************************************)
(* What the loops of the listing, the quota choice and the streams compute,*)
(* for data of any length.  A loop over a slice is a fold in the models;   *)
(* it is unrolled into a table of its intermediate values, over which the  *)
(* proofs run by induction.                                                *)
(***************************************************************************)
EXTENDS ModelListing, ChatStream, AntigravityStream, QuotaRouting,
        WellFoundedInduction, FiniteSetTheorems, SequenceTheorems, TLAPS
-----------------------------------------------------------------------------
(* Induction over numbers, and folds.                                      *)

\* A set of numbers has a least one.
LEMMA LeastNumber ==
    ASSUME NEW T \in SUBSET Nat, T # {}
    PROVE  \E n \in T : \A m \in T : n <= m
<1>1. PICK n \in T : \A m \in T : <<m, n>> \notin OpToRel(<, Nat)
  BY WFMin, NatLessThanWellFounded, Zenon
<1>2. \A m \in T : ~(m < n)
  BY <1>1, Zenon DEF OpToRel
<1> QED
  BY <1>2

\* Induction up to N, with the property as the set of numbers that have it.
LEMMA NumberInduction ==
    ASSUME NEW N \in Nat, NEW G, 0 \in G, \A n \in 0..(N - 1) : n \in G => n + 1 \in G
    PROVE  \A n \in 0..N : n \in G
<1> DEFINE T == {n \in 0..N : n \notin G}
<1> SUFFICES ASSUME T # {} PROVE FALSE
  OBVIOUS
<1>1. T \in SUBSET Nat
  OBVIOUS
<1>2. PICK n \in T : \A m \in T : n <= m
  BY <1>1, LeastNumber, Zenon
<1>3. n # 0 /\ n - 1 \in 0..(N - 1) /\ n - 1 \notin T
  BY <1>2
<1>4. n - 1 \in G
  BY <1>3
<1> QED
  BY <1>2, <1>3, <1>4

\* The function behind a fold over 1..n: the turn for the largest number is
\* taken last.  h is the table of what a turn makes of a value.
Iterates(it, n, base, h) ==
    it = [s \in SUBSET (1..n) |-> IF s = {} THEN base ELSE h[<<Max(s), it[s \ {Max(s)}]>>]]

\* There is such a function, so that the CHOOSE of a fold finds it.
LEMMA IterateExists ==
    ASSUME NEW N \in Nat, NEW V, NEW base \in V, NEW h \in [(1..N) \X V -> V]
    PROVE  \E it \in [SUBSET (1..N) -> V] : Iterates(it, N, base, h)
<1> DEFINE G == {n \in 0..N : \E it \in [SUBSET (1..n) -> V] : Iterates(it, n, base, h)}
<1>1. 0 \in G
  <2> DEFINE it == [s \in SUBSET (1..0) |-> base]
  <2>1. 1..0 = {}
    OBVIOUS
  <2>2. SUBSET (1..0) = {{}}
    BY <2>1
  <2>3. it = [s \in SUBSET (1..0) |-> IF s = {} THEN base ELSE h[<<Max(s), it[s \ {Max(s)}]>>]]
    BY <2>2
  <2>4. it \in [SUBSET (1..0) -> V]
    OBVIOUS
  <2> HIDE DEF it
  <2>5. Iterates(it, 0, base, h)
    BY <2>3 DEF Iterates
  <2>6. 0 \in 0..N
    OBVIOUS
  <2> QED
    BY <2>4, <2>5, <2>6
<1>2. ASSUME NEW n \in 0..(N - 1), n \in G
      PROVE  n + 1 \in G
  <2>1. PICK it \in [SUBSET (1..n) -> V] : Iterates(it, n, base, h)
    BY <1>2
  <2> DEFINE next == [s \in SUBSET (1..(n + 1)) |-> IF n + 1 \in s THEN h[<<n + 1, it[s \ {n + 1}]>>] ELSE it[s]]
  <2>2. ASSUME NEW s \in SUBSET (1..(n + 1)), n + 1 \in s
        PROVE  s \ {n + 1} \in SUBSET (1..n) /\ Max(s) = n + 1
    <3>1. s \ {n + 1} \in SUBSET (1..n)
      OBVIOUS
    <3>2. \A y \in s : n + 1 >= y
      OBVIOUS
    <3>3. Max(s) \in s /\ \A y \in s : Max(s) >= y
      BY <2>2, <3>2, Zenon DEF Max
    <3>4. Max(s) \in 1..(n + 1) /\ Max(s) >= n + 1
      BY <2>2, <3>3
    <3> QED
      BY <3>1, <3>4
  <2>3. ASSUME NEW s \in SUBSET (1..(n + 1)), n + 1 \notin s
        PROVE  s \in SUBSET (1..n)
    BY <2>3
  <2>4. next \in [SUBSET (1..(n + 1)) -> V]
    <3> SUFFICES ASSUME NEW s \in SUBSET (1..(n + 1))
                 PROVE  (IF n + 1 \in s THEN h[<<n + 1, it[s \ {n + 1}]>>] ELSE it[s]) \in V
      OBVIOUS
    <3> QED
      BY <2>2, <2>3
  <2>5. ASSUME NEW s \in SUBSET (1..(n + 1))
        PROVE  next[s] = IF s = {} THEN base ELSE h[<<Max(s), next[s \ {Max(s)}]>>]
    <3>1. CASE n + 1 \in s
      <4>1. s \ {n + 1} \in SUBSET (1..(n + 1)) /\ n + 1 \notin s \ {n + 1}
        OBVIOUS
      <4>2. next[s \ {n + 1}] = it[s \ {n + 1}] /\ next[s] = h[<<n + 1, it[s \ {n + 1}]>>]
        BY <3>1, <4>1
      <4> QED
        BY <2>2, <3>1, <4>2
    <3>2. CASE n + 1 \notin s
      <4>1. s \in SUBSET (1..n)
        BY <2>3, <3>2
      <4>2. next[s] = it[s]
        BY <3>2
      <4>3. it[s] = IF s = {} THEN base ELSE h[<<Max(s), it[s \ {Max(s)}]>>]
        BY <2>1, <4>1 DEF Iterates
      <4>4. n + 1 \notin s \ {Max(s)} /\ s \ {Max(s)} \in SUBSET (1..(n + 1))
        BY <3>2
      <4>5. next[s \ {Max(s)}] = it[s \ {Max(s)}]
        BY <4>4
      <4> QED
        BY <4>2, <4>3, <4>5
    <3> QED
      BY <3>1, <3>2
  <2>6. next = [s \in SUBSET (1..(n + 1)) |-> next[s]]
    OBVIOUS
  <2> HIDE DEF next
  <2>7. next = [s \in SUBSET (1..(n + 1)) |-> IF s = {} THEN base ELSE h[<<Max(s), next[s \ {Max(s)}]>>]]
    BY <2>5, <2>6
  <2>8. Iterates(next, n + 1, base, h)
    BY <2>7 DEF Iterates
  <2> QED
    BY <2>4, <2>8
<1> HIDE DEF G
<1>3. N \in G
  BY <1>1, <1>2, NumberInduction
<1> QED
  BY <1>3 DEF G

\* The largest element of a set of numbers up to N.
LEMMA LargestOf ==
    ASSUME NEW N \in Nat, NEW s \in SUBSET (1..N), s # {}
    PROVE  Max(s) \in s
<1> DEFINE T == {m \in 0..N : \E x \in s : m = N - x}
<1>1. T \in SUBSET Nat /\ T # {}
  <2>1. T \in SUBSET (0..N)
    OBVIOUS
  <2>2. PICK x \in s : TRUE
    OBVIOUS
  <2>3. N - x \in T
    OBVIOUS
  <2> HIDE DEF T
  <2> QED
    BY <2>1, <2>3
<1>2. PICK m \in T : \A k \in T : m <= k
  BY <1>1, LeastNumber, Zenon
<1>3. PICK x \in s : m = N - x
  BY <1>2
<1>4. ASSUME NEW y \in s
      PROVE  x >= y
  <2>1. N - y \in T
    OBVIOUS
  <2> QED
    BY <1>2, <1>3, <2>1
<1> QED
  BY <1>4, Zenon DEF Max

\* The largest element of 1..n, and what is left without it.
LEMMA LastOf ==
    ASSUME NEW n \in Nat \ {0}
    PROVE  Max(1..n) = n /\ (1..n) \ {n} = 1..(n - 1)
<1>1. n \in 1..n /\ \A y \in 1..n : n >= y
  OBVIOUS
<1>2. Max(1..n) \in 1..n /\ \A y \in 1..n : Max(1..n) >= y
  BY <1>1, Zenon DEF Max
<1> QED
  BY <1>1, <1>2

-----------------------------------------------------------------------------
(* The list of the models of a pool: merging the lists one after the other *)
(* gives what Owner says of all of them at once.                           *)

Merged(from) == [m \in UNION {ModelsOf[s] : s \in from} |-> Owner(from, m)]
Lists == {NoList} \cup {[models |-> Merged(from), from |-> from, fresh |-> TRUE] : from \in (SUBSET Sources) \ {{}}}

ListingInv ==
    /\ lister \in [Listers -> [at : {"new", "discover", "set", "done"},
                               task : [Sources -> {"none", "queued", "listing", "over"}],
                               results : Seq(Sources), answer : Lists]]
    /\ listed \in Lists

\* The owners of a model among some accounts.
Owners(from, m) == {OwnerOf[s] : s \in {t \in from : m \in ModelsOf[t]}}

\* A model has the owner of the accounts that list it if they agree.
LEMMA OwnerIs ==
    ASSUME NEW from, IsFiniteSet(from), NEW m
    PROVE  /\ \A o : Owners(from, m) = {o} => Owner(from, m) = o
           /\ (\A o : Owners(from, m) # {o}) => Owner(from, m) = "subpool"
<1> DEFINE owners == Owners(from, m)
<1>1. IsFiniteSet(owners)
  <2>1. IsFiniteSet({t \in from : m \in ModelsOf[t]})
    BY FS_Subset
  <2> DEFINE listing == {t \in from : m \in ModelsOf[t]}
             f == [t \in listing |-> OwnerOf[t]]
  <2>2. f \in Surjection(listing, owners)
    BY DEF Owners, Surjection
  <2> QED
    BY <2>1, <2>2, FS_Surjection
<1>2. Owner(from, m) = IF Cardinality(owners) = 1 THEN CHOOSE o \in owners : TRUE ELSE "subpool"
  BY DEF Owner, Owners
<1> HIDE DEF owners
<1>3. Cardinality(owners) = 1 <=> \E o : owners = {o}
  BY <1>1, FS_Singleton, Zenon
<1> QED
  BY <1>2, <1>3 DEF owners

\* One turn of the merging.
LEMMA AddsOne ==
    ASSUME NEW from, IsFiniteSet(from), NEW s
    PROVE  AddModels(Merged(from), s) = Merged(from \cup {s})
<1> DEFINE all == from \cup {s}
           byID == Merged(from)
<1>1. IsFiniteSet(all)
  BY FS_AddElement
<1>2. DOMAIN byID \cup ModelsOf[s] = UNION {ModelsOf[t] : t \in all}
  BY DEF Merged
<1>3. ASSUME NEW m \in UNION {ModelsOf[t] : t \in all}
      PROVE  Owner(all, m) = IF m \notin ModelsOf[s] THEN byID[m]
                             ELSE IF m \in DOMAIN byID /\ byID[m] # OwnerOf[s] THEN "subpool" ELSE OwnerOf[s]
  <2>1. m \in DOMAIN byID <=> \E t \in from : m \in ModelsOf[t]
    BY DEF Merged
  <2>2. m \in DOMAIN byID => byID[m] = Owner(from, m)
    BY DEF Merged
  <2>3. CASE m \notin ModelsOf[s]
    <3>1. Owners(all, m) = Owners(from, m)
      BY <2>3 DEF Owners
    <3>2. m \in DOMAIN byID
      BY <2>1, <2>3
    <3>3. Owner(all, m) = Owner(from, m)
      BY <1>1, <3>1, OwnerIs, Zenon
    <3> QED
      BY <2>2, <2>3, <3>2, <3>3
  <2>4. CASE m \in ModelsOf[s] /\ m \notin DOMAIN byID
    <3>1. Owners(all, m) = {OwnerOf[s]}
      BY <2>1, <2>4 DEF Owners
    <3> QED
      BY <1>1, <2>4, <3>1, OwnerIs
  <2>5. CASE m \in ModelsOf[s] /\ m \in DOMAIN byID
    <3>1. Owners(all, m) = Owners(from, m) \cup {OwnerOf[s]} /\ Owners(from, m) # {}
      BY <2>1, <2>5 DEF Owners
    <3>2. CASE \E o : Owners(from, m) = {o}
      <4>1. PICK o : Owners(from, m) = {o}
        BY <3>2
      <4>2. byID[m] = o
        BY <2>2, <2>5, <4>1, OwnerIs
      <4>3. CASE o = OwnerOf[s]
        <5>1. Owners(all, m) = {OwnerOf[s]}
          BY <3>1, <4>1, <4>3
        <5> QED
          BY <1>1, <2>5, <4>2, <4>3, <5>1, OwnerIs
      <4>4. CASE o # OwnerOf[s]
        <5>1. \A p : Owners(all, m) # {p}
          BY <3>1, <4>1, <4>4
        <5>2. Owner(all, m) = "subpool"
          BY <1>1, <5>1, OwnerIs
        <5> QED
          BY <2>5, <4>2, <4>4, <5>2
      <4> QED
        BY <4>3, <4>4
    <3>3. CASE \A o : Owners(from, m) # {o}
      <4>1. \A p : Owners(all, m) # {p}
        BY <3>1, <3>3
      <4>2. Owner(all, m) = "subpool" /\ byID[m] = "subpool"
        BY <1>1, <2>2, <2>5, <3>3, <4>1, OwnerIs
      <4> QED
        BY <2>5, <4>2
    <3> QED
      BY <3>2, <3>3
  <2> QED
    BY <2>3, <2>4, <2>5
<1>4. Merged(all) = [m \in UNION {ModelsOf[t] : t \in all} |-> Owner(all, m)]
  BY DEF Merged
<1>5. AddModels(byID, s) = [m \in DOMAIN byID \cup ModelsOf[s] |->
        IF m \notin ModelsOf[s] THEN byID[m]
        ELSE IF m \in DOMAIN byID /\ byID[m] # OwnerOf[s] THEN "subpool" ELSE OwnerOf[s]]
  BY Zenon DEF AddModels
<1> HIDE DEF all, byID
<1>6. Merged(all) = AddModels(byID, s)
  BY <1>2, <1>3, <1>4, <1>5
<1> QED
  BY <1>6 DEF all, byID

\* The lists are merged as if they had come all at once.
LEMMA MergesAll ==
    ASSUME NEW q \in Seq(Sources)
    PROVE  FoldLeft(AddModels, <<>>, q) = Merged(ToSet(q)) /\ ToSet(q) \in SUBSET Sources
<1> DEFINE N == Len(q)
           Of(n) == {q[i] : i \in 1..n}
           V == {Merged(from) : from \in {F \in SUBSET Sources : IsFiniteSet(F)}}
           h == [x \in (1..N) \X V |-> AddModels(x[2], q[x[1]])]
           IsIter(it) == it = [s \in SUBSET (1..N) |-> IF s = {} THEN <<>> ELSE AddModels(it[s \ {Max(s)}], q[Max(s)])]
<1>1. N \in Nat /\ DOMAIN q = 1..N /\ \A i \in 1..N : q[i] \in Sources
  OBVIOUS
<1>2. FoldLeft(AddModels, <<>>, q) = (CHOOSE it : IsIter(it))[1..N]
  BY <1>1 DEF FoldLeft, MapThenFoldSet
<1>3. ASSUME NEW v \in V, NEW s \in Sources
      PROVE  AddModels(v, s) \in V
  <2>1. PICK F \in SUBSET Sources : IsFiniteSet(F) /\ v = Merged(F)
    OBVIOUS
  <2>2. AddModels(v, s) = Merged(F \cup {s}) /\ IsFiniteSet(F \cup {s})
    BY <2>1, AddsOne, FS_AddElement
  <2> QED
    BY <2>2
<1>4. Merged({}) = <<>> /\ <<>> \in V
  <2>1. Merged({}) = <<>>
    BY DEF Merged
  <2>2. IsFiniteSet({})
    BY FS_EmptySet
  <2> QED
    BY <2>1, <2>2
<1> HIDE DEF V
<1>5. h \in [(1..N) \X V -> V]
  BY <1>1, <1>3
<1>6. PICK it \in [SUBSET (1..N) -> V] : Iterates(it, N, <<>>, h)
  BY <1>1, <1>4, <1>5, IterateExists
<1>7. ASSUME NEW s \in SUBSET (1..N), s # {}
      PROVE  h[<<Max(s), it[s \ {Max(s)}]>>] = AddModels(it[s \ {Max(s)}], q[Max(s)])
  <2>1. Max(s) \in 1..N
    BY <1>1, <1>7, LargestOf
  <2> QED
    BY <2>1
<1>8. IsIter(it)
  BY <1>6, <1>7, Zenon DEF Iterates
<1> DEFINE g == CHOOSE f : IsIter(f)
<1>9. IsIter(g)
  BY <1>8, Zenon
<1> HIDE DEF g
<1>10. g[{}] = <<>>
  <2>1. {} \in SUBSET (1..N)
    OBVIOUS
  <2> QED
    BY <1>9, <2>1
<1>11. ASSUME NEW n \in 1..N
       PROVE  g[1..n] = AddModels(g[1..(n - 1)], q[n])
  <2>1. 1..n \in SUBSET (1..N) /\ 1..n # {} /\ n \in Nat \ {0}
    BY <1>1, SMTT(40)
  <2>2. g[1..n] = AddModels(g[(1..n) \ {Max(1..n)}], q[Max(1..n)])
    BY <1>9, <2>1
  <2> QED
    BY <2>1, <2>2, LastOf
<1> HIDE DEF IsIter
<1> DEFINE G == {n \in 0..N : g[1..n] = Merged(Of(n)) /\ IsFiniteSet(Of(n))}
<1>12. 0 \in G
  <2>1. Of(0) = {} /\ 1..0 = {} /\ IsFiniteSet({}) /\ 0 \in 0..N
    BY <1>1, FS_EmptySet
  <2> QED
    BY <1>4, <1>10, <2>1
<1>13. ASSUME NEW n \in 0..(N - 1), n \in G
       PROVE  n + 1 \in G
  <2>1. n + 1 \in 1..N /\ (n + 1) - 1 = n /\ n + 1 \in 0..N
    BY <1>1
  <2>2. Of(n + 1) = Of(n) \cup {q[n + 1]}
    BY <1>1
  <2>3. IsFiniteSet(Of(n)) /\ g[1..n] = Merged(Of(n))
    BY <1>13
  <2> HIDE DEF Of
  <2>4. g[1..(n + 1)] = AddModels(Merged(Of(n)), q[n + 1])
    BY <1>11, <2>1, <2>3
  <2>5. AddModels(Merged(Of(n)), q[n + 1]) = Merged(Of(n) \cup {q[n + 1]})
    BY <2>3, AddsOne, Zenon
  <2>6. IsFiniteSet(Of(n) \cup {q[n + 1]})
    BY <2>3, FS_AddElement, Zenon
  <2> QED
    BY <2>1, <2>2, <2>4, <2>5, <2>6
<1> HIDE DEF G
<1>14. N \in G
  <2>1. \A n \in 0..N : n \in G
    <3> HIDE DEF N
    <3> QED
      BY <1>1, <1>12, <1>13, NumberInduction
  <2> QED
    BY <1>1, <2>1
<1>15. Of(N) = ToSet(q) /\ ToSet(q) \in SUBSET Sources
  BY <1>1 DEF ToSet
<1> QED
  BY <1>2, <1>14, <1>15 DEF G, g

\* Initially nothing is listed.
LEMMA ListingInitially == ListingInit => ListingInv
  BY DEF ListingInit, ListingInv, NewLister, Lists

\* What a request keeps in hand is what it had, one more result, or the lists
\* merged; the cache takes only what a request has.
LEMMA ListingPreserved == ListingInv /\ [ListingNext]_listingVars => ListingInv'
<1> SUFFICES ASSUME ListingInv, [ListingNext]_listingVars
             PROVE  ListingInv'
  OBVIOUS
<1> DEFINE Request == [at : {"new", "discover", "set", "done"}, task : [Sources -> {"none", "queued", "listing", "over"}],
                       results : Seq(Sources), answer : Lists]
<1>1. lister \in [Listers -> Request] /\ listed \in Lists
  BY DEF ListingInv
<1>2. ASSUME NEW h \in Listers, NEW f \in Request, Now(h, f)
      PROVE  lister' \in [Listers -> Request]
  BY <1>1, <1>2 DEF Now
<1>3. NewLister \in Request /\ NoList \in Lists
  BY DEF NewLister, Lists
<1>4. ASSUME NEW h \in Listers, HandleModels(h)
      PROVE  ListingInv'
  <2>1. [NewLister EXCEPT !.at = "done", !.answer = listed] \in Request
    BY <1>1, <1>3 DEF NewLister
  <2>2. [NewLister EXCEPT !.at = "discover", !.task = [s \in Sources |-> "queued"]] \in Request
    BY <1>3 DEF NewLister
  <2>3. [NewLister EXCEPT !.at = "done"] \in Request
    BY <1>3 DEF NewLister
  <2> HIDE DEF Request
  <2>4. lister' \in [Listers -> Request] /\ listed' \in Lists
    BY <1>1, <1>2, <1>4, <2>1, <2>2, <2>3 DEF HandleModels
  <2> QED
    BY <2>4 DEF ListingInv, Request
<1>5. ASSUME NEW h \in Listers, NEW s \in Sources, AcquireSlot(h, s) \/ ListAccount(h, s)
      PROVE  ListingInv'
  <2>1. ASSUME NEW place \in {"none", "queued", "listing", "over"}
        PROVE  /\ [lister[h] EXCEPT !.task[s] = place] \in Request
               /\ [lister[h] EXCEPT !.task[s] = place, !.results = Append(@, s)] \in Request
    <3>1. lister[h] \in Request /\ Append(lister[h].results, s) \in Seq(Sources)
      BY <1>1
    <3>2. [lister[h].task EXCEPT ![s] = place] \in [Sources -> {"none", "queued", "listing", "over"}]
      BY <1>1
    <3> QED
      BY <3>1, <3>2
  <2> HIDE DEF Request
  <2>2. lister' \in [Listers -> Request] /\ listed' \in Lists
    BY <1>1, <1>2, <1>5, <2>1 DEF AcquireSlot, ListAccount
  <2> QED
    BY <2>2 DEF ListingInv, Request
<1>6. ASSUME NEW h \in Listers, MergeModels(h)
      PROVE  ListingInv'
  <2> DEFINE q == lister[h].results
             all == [models |-> FoldLeft(AddModels, <<>>, q), from |-> ToSet(q), fresh |-> TRUE]
  <2>1. q \in Seq(Sources)
    BY <1>1
  <2>2. [NewLister EXCEPT !.at = "done"] \in Request
    BY <1>3 DEF NewLister
  <2>3. ASSUME q # <<>>
        PROVE  [NewLister EXCEPT !.at = "set", !.answer = all] \in Request
    <3>1. ToSet(q) # {}
      <4>1. Len(q) \in Nat \ {0} /\ DOMAIN q = 1..Len(q)
        BY <2>1, <2>3
      <4>2. q[1] \in ToSet(q)
        BY <4>1 DEF ToSet
      <4> QED
        BY <4>2
    <3>2. all \in Lists
      BY <2>1, <3>1, MergesAll DEF Lists
    <3> HIDE DEF all
    <3> QED
      BY <1>3, <3>2 DEF NewLister
  <2> HIDE DEF Request
  <2>4. lister' \in [Listers -> Request] /\ listed' \in Lists
    BY <1>1, <1>2, <1>6, <2>2, <2>3 DEF MergeModels
  <2> QED
    BY <2>4 DEF ListingInv, Request
<1>7. ASSUME NEW h \in Listers, SetModels(h)
      PROVE  ListingInv'
  <2>1. [lister[h] EXCEPT !.at = "done"] \in Request /\ lister[h].answer \in Lists
    BY <1>1
  <2> HIDE DEF Request
  <2>2. lister' \in [Listers -> Request] /\ listed' \in Lists
    BY <1>2, <1>7, <2>1 DEF SetModels
  <2> QED
    BY <2>2 DEF ListingInv, Request
<1>8. ASSUME ListExpires \/ UNCHANGED listingVars \/ \E h \in Listers : ListerOverdue(h)
      PROVE  ListingInv'
  BY <1>1, <1>3, <1>8 DEF ListExpires, ListerOverdue, listingVars, ListingInv
<1> QED
  BY <1>4, <1>5, <1>6, <1>7, <1>8 DEF ListingNext, ListerStep

\* The list answered or cached names every model of the accounts that answered
\* and for each the same owner, in whatever order the accounts did.
THEOREM ListingIsIndependentOfOrder == ListingSpec => []OwnersIndependentOfOrder
<1>1. ListingInv => OwnersIndependentOfOrder
  <2> SUFFICES ASSUME ListingInv, NEW l \in {listed} \cup {lister[h].answer : h \in Listers}, l.fresh
               PROVE  /\ l.from # {}
                      /\ DOMAIN l.models = UNION {ModelsOf[s] : s \in l.from}
                      /\ \A m \in DOMAIN l.models : l.models[m] = Owner(l.from, m)
    BY DEF OwnersIndependentOfOrder
  <2>1. l \in Lists
    BY DEF ListingInv
  <2>2. PICK from \in (SUBSET Sources) \ {{}} : l = [models |-> Merged(from), from |-> from, fresh |-> TRUE]
    BY <2>1 DEF Lists, NoList
  <2> QED
    BY <2>2 DEF Merged
<1> QED
  BY <1>1, ListingInitially, ListingPreserved, PTL DEF ListingSpec

-----------------------------------------------------------------------------
(* Concatenation.                                                          *)

\* The values of a loop, given by what each turn makes of them.
Table(f, N, base, h) == f[0] = base /\ \A n \in 1..N : f[n] = h[<<n, f[n - 1]>>]

LEMMA TableExists ==
    ASSUME NEW N \in Nat, NEW V, NEW base \in V, NEW h \in [(1..N) \X V -> V]
    PROVE  \E f \in [0..N -> V] : Table(f, N, base, h)
<1>1. PICK it \in [SUBSET (1..N) -> V] : Iterates(it, N, base, h)
  BY IterateExists
<1>2. it[{}] = base
  <2>1. {} \in SUBSET (1..N)
    OBVIOUS
  <2> QED
    BY <1>1, <2>1 DEF Iterates
<1>3. ASSUME NEW n \in 1..N
      PROVE  it[1..n] = h[<<n, it[1..(n - 1)]>>]
  <2>1. 1..n \in SUBSET (1..N) /\ 1..n # {} /\ n \in Nat \ {0}
    OBVIOUS
  <2>2. it[1..n] = h[<<Max(1..n), it[(1..n) \ {Max(1..n)}]>>]
    BY <1>1, <2>1 DEF Iterates
  <2> QED
    BY <2>1, <2>2, LastOf
<1> DEFINE f == [n \in 0..N |-> it[1..n]]
<1>4. f \in [0..N -> V]
  <2>1. \A n \in 0..N : 1..n \in SUBSET (1..N)
    OBVIOUS
  <2> QED
    BY <2>1
<1>5. f[0] = base
  <2>1. 0 \in 0..N /\ 1..0 = {}
    OBVIOUS
  <2> QED
    BY <1>2, <2>1
<1>6. ASSUME NEW n \in 1..N
      PROVE  f[n] = h[<<n, f[n - 1]>>]
  <2>1. n \in 0..N /\ n - 1 \in 0..N
    OBVIOUS
  <2> QED
    BY <1>3, <2>1
<1> HIDE DEF f
<1> QED
  BY <1>4, <1>5, <1>6 DEF Table

\* FlattenSeq goes through the sequences one by one.
LEMMA FlattenTable ==
    ASSUME NEW S, NEW q \in Seq(Seq(S))
    PROVE  \E f \in [0..Len(q) -> Seq(S)] :
              /\ f[0] = <<>> /\ FlattenSeq(q) = f[Len(q)]
              /\ \A n \in 1..Len(q) : f[n] = f[n - 1] \o q[n]
<1> DEFINE N == Len(q)
           h == [x \in (1..N) \X Seq(S) |-> x[2] \o q[x[1]]]
           IsFlat(it) == it = [i \in 1..N |-> IF i = 1 THEN q[i] ELSE it[i - 1] \o q[i]]
<1>1. N \in Nat /\ \A n \in 1..N : q[n] \in Seq(S)
  OBVIOUS
<1>2. <<>> \in Seq(S)
  OBVIOUS
<1>3. h \in [(1..N) \X Seq(S) -> Seq(S)]
  BY <1>1
<1>4. PICK f \in [0..N -> Seq(S)] : Table(f, N, <<>>, h)
  BY <1>1, <1>2, <1>3, TableExists
<1>5. ASSUME NEW n \in 1..N
      PROVE  f[n] = f[n - 1] \o q[n] /\ f[n - 1] \in Seq(S) /\ f[n] \in Seq(S)
  <2>1. n - 1 \in 0..N /\ n \in 0..N
    BY <1>1
  <2> QED
    BY <1>4, <2>1 DEF Table
<1> HIDE DEF h
<1> HIDE DEF N
<1>6. IsFlat([i \in 1..N |-> f[i]])
  <2> DEFINE it == [i \in 1..N |-> f[i]]
  <2>1. ASSUME NEW i \in 1..N
        PROVE  it[i] = IF i = 1 THEN q[i] ELSE it[i - 1] \o q[i]
    <3>1. CASE i = 1
      <4>1. f[1] = <<>> \o q[1] /\ q[1] \in Seq(S)
        <5>1. q[1] \in Seq(S) /\ f[1] = f[0] \o q[1]
          <6>1. 1 \in 1..N /\ 1 - 1 = 0
            BY <3>1
          <6> QED
            BY <1>1, <1>5, <6>1
        <5> QED
          BY <1>4, <5>1 DEF Table
      <4> QED
        BY <3>1, <4>1, ConcatEmptySeq
    <3>2. CASE i # 1
      <4>1. i - 1 \in 1..N
        BY <1>1, <3>2
      <4> QED
        BY <1>5, <3>2, <4>1
    <3> QED
      BY <3>1, <3>2
  <2> QED
    BY <2>1
<1> DEFINE g == CHOOSE it : IsFlat(it)
<1>7. IsFlat(g)
  BY <1>6, Zenon
<1> HIDE DEF g
<1>8. FlattenSeq(q) = IF N = 0 THEN q ELSE g[N]
  BY DEF FlattenSeq, g, N
<1> DEFINE G == {n \in 0..N : n # 0 => g[n] = f[n]}
<1>9. 0 \in G
  BY <1>1
<1>10. ASSUME NEW n \in 0..(N - 1), n \in G
       PROVE  n + 1 \in G
  <2>1. n + 1 \in 1..N /\ n + 1 \in 0..N /\ (n + 1) - 1 = n
    BY <1>1
  <2>2. g[n + 1] = IF n + 1 = 1 THEN q[n + 1] ELSE g[n] \o q[n + 1]
    BY <1>7, <2>1
  <2>3. f[n + 1] = f[n] \o q[n + 1] /\ q[n + 1] \in Seq(S)
    BY <1>1, <1>5, <2>1
  <2>4. CASE n = 0
    <3>1. f[n + 1] = q[n + 1]
      BY <1>4, <2>3, <2>4, ConcatEmptySeq DEF Table
    <3> QED
      BY <2>1, <2>2, <2>4, <3>1
  <2>5. CASE n # 0
    <3>1. g[n] = f[n]
      BY <1>10, <2>5
    <3> QED
      <4>1. n + 1 # 1
        BY <2>5
      <4>2. g[n + 1] = f[n + 1]
        BY <2>2, <2>3, <3>1, <4>1
      <4> QED
        BY <2>1, <4>2
  <2> QED
    BY <2>4, <2>5
<1> HIDE DEF G
<1>11. \A n \in 0..N : n \in G
  BY <1>1, <1>9, <1>10, NumberInduction
<1>12. FlattenSeq(q) = f[N]
  <2>1. CASE N = 0
    <3>1. q = <<>>
      BY <2>1 DEF N
    <3> QED
      BY <1>4, <1>8, <2>1, <3>1 DEF Table
  <2>2. CASE N # 0
    <3>1. N \in 0..N
      BY <1>1
    <3> QED
      BY <1>8, <1>11, <2>2, <3>1 DEF G
  <2> QED
    BY <2>1, <2>2
<1> QED
  BY <1>4, <1>5, <1>12 DEF N, Table

\* One sequence more at the end.
LEMMA FlattenAppend ==
    ASSUME NEW S, NEW q \in Seq(Seq(S)), NEW s \in Seq(S)
    PROVE  /\ FlattenSeq(q) \in Seq(S)
           /\ FlattenSeq(Append(q, s)) = FlattenSeq(q) \o s
<1> DEFINE N == Len(q)
           r == Append(q, s)
<1>1. N \in Nat /\ r \in Seq(Seq(S)) /\ Len(r) = N + 1 /\ r[N + 1] = s /\ \A n \in 1..N : r[n] = q[n]
  OBVIOUS
<1>2. PICK f \in [0..N -> Seq(S)] :
          /\ f[0] = <<>> /\ FlattenSeq(q) = f[N]
          /\ \A n \in 1..N : f[n] = f[n - 1] \o q[n]
  BY FlattenTable
<1> HIDE DEF r
<1>3. PICK g \in [0..Len(r) -> Seq(S)] :
          /\ g[0] = <<>> /\ FlattenSeq(r) = g[Len(r)]
          /\ \A n \in 1..Len(r) : g[n] = g[n - 1] \o r[n]
  BY <1>1, FlattenTable
<1> HIDE DEF N
<1> DEFINE G == {n \in 0..N : g[n] = f[n]}
<1>4. 0 \in G
  BY <1>1, <1>2, <1>3
<1>5. ASSUME NEW n \in 0..(N - 1), n \in G
      PROVE  n + 1 \in G
  <2>1. n + 1 \in 1..N /\ n + 1 \in 0..N /\ n + 1 \in 1..Len(r) /\ (n + 1) - 1 = n
    BY <1>1
  <2>2. g[n + 1] = g[n] \o r[n + 1] /\ f[n + 1] = f[n] \o q[n + 1]
    BY <1>2, <1>3, <2>1
  <2> QED
    BY <1>1, <1>5, <2>1, <2>2
<1> HIDE DEF G
<1>6. \A n \in 0..N : n \in G
  BY <1>1, <1>4, <1>5, NumberInduction
<1>7. g[N] = f[N] /\ f[N] \in Seq(S)
  BY <1>1, <1>6 DEF G
<1>8. g[N + 1] = g[N] \o s
  <2>1. N + 1 \in 1..Len(r) /\ (N + 1) - 1 = N
    BY <1>1
  <2> QED
    BY <1>1, <1>3, <2>1
<1> QED
  BY <1>1, <1>2, <1>3, <1>7, <1>8 DEF r

LEMMA FlattenNothing == FlattenSeq(<<>>) = <<>>
  BY DEF FlattenSeq

-----------------------------------------------------------------------------
(* The chat client of a Responses stream.  What State.tools keeps of a     *)
(* call, what the provider has made of its text and what the client has    *)
(* are the same at every moment, so that what the next event repeats is    *)
(* known and only the rest is sent.                                        *)

\* The text a client has under a number.
TextUnder(s, x) == FlattenSeq([k \in 1..Len(s) |-> IF s[k].index = x THEN s[k].text ELSE <<>>])

ChatChunks == [index : Nat, text : Seq(Nat), finish : {"new", "no", "tool_calls", "stop", "length", "error"}, role : BOOLEAN]
Known == {i \in Items : tool[i].known}
Endings == {"stop", "tool_calls", "length"}

ChatTypeOK ==
    /\ upstream \in [Items -> [at : {"none", "open", "whole", "done"}, made : Nat]]
    /\ tool \in [Items -> [index : Nat, text : Seq(Nat), known : BOOLEAN]]
    /\ terminal \in BOOLEAN /\ charged \in BOOLEAN
    /\ reader \in {"open", "failed", "done", "cut"}
    /\ chunks \in Seq(ChatChunks)

\* What is kept of a call is what the provider has made and the client has.
CallsOK ==
    /\ \A i \in Items : upstream[i].at = "none" => ~tool[i].known /\ upstream[i].made = 0
    /\ \A i \in Known : /\ tool[i].text = TextOf(upstream[i].made)
                        /\ TextUnder(chunks, tool[i].index) = tool[i].text

\* The calls are numbered in the order in which they became known, and no
\* text has been sent under a number that is still free.
NumbersOK ==
    /\ {tool[i].index : i \in Known} = {k \in Nat : k < Cardinality(Known)}
    /\ \A i, j \in Known : tool[i].index = tool[j].index => i = j
    /\ \A x \in Nat : x >= Cardinality(Known) => TextUnder(chunks, x) = <<>>

\* The end of the answer is the last chunk, unless a failure follows it.
EndOK ==
    /\ terminal /\ reader # "failed" => chunks # <<>> /\ chunks[Len(chunks)].finish \in Endings
    /\ charged => terminal /\ reader = "done"
    /\ sentRole \in BOOLEAN /\ (reader # "failed" => (sentRole <=> chunks # <<>>))
    /\ \A k \in 1..Len(chunks) :
         /\ chunks[k].role <=> k = 1 /\ chunks[k].finish # "error"
         /\ chunks[k].finish = "error" => reader = "failed" /\ k = Len(chunks)
         /\ chunks[k].finish = "tool_calls" => terminal /\ \A i \in Known : upstream[i].at = "done"

ChatInv == ChatTypeOK /\ CallsOK /\ NumbersOK /\ EndOK

\* A text with one fragment more, and what is left of it after a beginning.
LEMMA TextGrows ==
    ASSUME NEW n \in Nat
    PROVE  /\ TextOf(n) \in Seq(Nat) /\ Len(TextOf(n)) = n
           /\ Append(TextOf(n), n + 1) = TextOf(n + 1) /\ TextOf(n) \o <<n + 1>> = TextOf(n + 1)
<1>1. TextOf(n) \in Seq(Nat) /\ Len(TextOf(n)) = n /\ TextOf(n + 1) \in Seq(Nat) /\ Len(TextOf(n + 1)) = n + 1
  BY DEF TextOf
<1>2. \A k \in 1..(n + 1) : Append(TextOf(n), n + 1)[k] = TextOf(n + 1)[k]
  BY DEF TextOf
<1>3. Append(TextOf(n), n + 1) = TextOf(n + 1)
  BY <1>1, <1>2, SeqEqual
<1>4. TextOf(n) \o <<n + 1>> = Append(TextOf(n), n + 1)
  BY <1>1, SMT
<1> QED
  BY <1>1, <1>3, <1>4

LEMMA RestOfText ==
    ASSUME NEW m \in Nat, NEW n \in Nat, m <= n
    PROVE  /\ IsPrefix(TextOf(m), TextOf(n))
           /\ SubSeq(TextOf(n), m + 1, n) \in Seq(Nat)
           /\ TextOf(m) \o SubSeq(TextOf(n), m + 1, n) = TextOf(n)
<1> DEFINE rest == SubSeq(TextOf(n), m + 1, n)
<1>1. /\ TextOf(n) \in Seq(Nat) /\ Len(TextOf(n)) = n /\ DOMAIN TextOf(n) = 1..n
      /\ TextOf(m) \in Seq(Nat) /\ Len(TextOf(m)) = m
      /\ \A k \in 1..n : TextOf(n)[k] = k
      /\ \A k \in 1..m : TextOf(m)[k] = k
  BY DEF TextOf
<1>2. rest \in Seq(Nat) /\ Len(rest) = n - m /\ \A k \in 1..(n - m) : rest[k] = m + k
  BY <1>1
<1>3. IsPrefix(TextOf(m), TextOf(n))
  <2>1. SubSeq(TextOf(m), 1, m) = TextOf(m) /\ SubSeq(TextOf(n), 1, m) = TextOf(m)
    BY <1>1 DEF TextOf
  <2> QED
    BY <1>1, <2>1 DEF IsPrefix
<1> HIDE DEF rest
<1>4. TextOf(m) \o rest = TextOf(n)
  <2>1. TextOf(m) \o rest \in Seq(Nat) /\ Len(TextOf(m) \o rest) = n
    BY <1>1, <1>2
  <2>2. ASSUME NEW k \in 1..n
        PROVE  (TextOf(m) \o rest)[k] = TextOf(n)[k]
    <3>1. CASE k <= m
      BY <1>1, <1>2, <3>1
    <3>2. CASE ~(k <= m)
      <4>1. (TextOf(m) \o rest)[k] = rest[k - m] /\ k - m \in 1..(n - m)
        BY <1>1, <1>2, <3>2
      <4> QED
        BY <1>1, <1>2, <4>1
    <3> QED
      BY <3>1, <3>2
  <2> QED
    BY <1>1, <2>1, <2>2, SeqEqual
<1> QED
  BY <1>2, <1>3, <1>4 DEF rest

\* A chunk adds its text to what the client has under its number.
LEMMA ChunkSent ==
    ASSUME chunks \in Seq(ChatChunks), NEW x \in Nat, NEW text \in Seq(Nat),
           NEW finish \in {"new", "no", "tool_calls", "stop", "length", "error"}, NEW role \in BOOLEAN,
           WriteSSE(x, text, finish, role)
    PROVE  /\ chunks' \in Seq(ChatChunks) /\ Len(chunks') = Len(chunks) + 1 /\ chunks' # <<>>
           /\ \A k \in 1..Len(chunks) : chunks'[k] = chunks[k]
           /\ chunks'[Len(chunks')].finish = finish
           /\ chunks'[Len(chunks')].role = role
           /\ \A y \in Nat : TextUnder(chunks', y) = IF y = x THEN TextUnder(chunks, y) \o text ELSE TextUnder(chunks, y)
<1> DEFINE c == [index |-> x, text |-> text, finish |-> finish, role |-> role]
           Under(y, s) == [k \in 1..Len(s) |-> IF s[k].index = y THEN s[k].text ELSE <<>>]
<1>1. chunks' = Append(chunks, c)
  BY DEF WriteSSE
<1>2. c \in ChatChunks
  BY Zenon DEF ChatChunks
<1>3. c.index = x /\ c.text = text /\ c.finish = finish /\ c.role = role
  BY Zenon
<1> HIDE DEF c
<1>4. /\ chunks' \in Seq(ChatChunks) /\ Len(chunks') = Len(chunks) + 1 /\ chunks'[Len(chunks')] = c
      /\ \A k \in 1..Len(chunks) : chunks'[k] = chunks[k]
  BY <1>1, <1>2
<1>5. ASSUME NEW y \in Nat
      PROVE  TextUnder(chunks', y) = IF y = x THEN TextUnder(chunks, y) \o text ELSE TextUnder(chunks, y)
  <2> DEFINE more == IF y = x THEN text ELSE <<>>
  <2>1. \A k \in 1..Len(chunks) : chunks[k].text \in Seq(Nat)
    <3>1. \A k \in 1..Len(chunks) : chunks[k] \in ChatChunks
      OBVIOUS
    <3> QED
      BY <3>1 DEF ChatChunks
  <2>2. Under(y, chunks) \in Seq(Seq(Nat)) /\ more \in Seq(Nat)
    BY <2>1
  <2>3. Under(y, chunks') = Append(Under(y, chunks), more)
    <3>1. Under(y, chunks') \in Seq(Seq(Nat)) /\ Len(Under(y, chunks')) = Len(chunks) + 1
      <4>1. \A k \in 1..Len(chunks') : chunks'[k] \in ChatChunks
        BY <1>4
      <4>2. \A k \in 1..Len(chunks') : chunks'[k].text \in Seq(Nat)
        BY <4>1 DEF ChatChunks
      <4> QED
        BY <1>4, <4>2
    <3>2. ASSUME NEW k \in 1..(Len(chunks) + 1)
          PROVE  Under(y, chunks')[k] = Append(Under(y, chunks), more)[k]
      BY <1>3, <1>4, <2>2
    <3>3. Append(Under(y, chunks), more) \in Seq(Seq(Nat)) /\ Len(Append(Under(y, chunks), more)) = Len(chunks) + 1
      BY <2>2
    <3> HIDE DEF Under, more
    <3> QED
      BY <3>1, <3>2, <3>3, SeqEqual
  <2>4. TextUnder(chunks, y) = FlattenSeq(Under(y, chunks)) /\ TextUnder(chunks', y) = FlattenSeq(Under(y, chunks'))
    BY DEF TextUnder
  <2> HIDE DEF Under, more
  <2>5. TextUnder(chunks, y) \in Seq(Nat) /\ TextUnder(chunks', y) = TextUnder(chunks, y) \o more
    BY <2>2, <2>3, <2>4, FlattenAppend
  <2> QED
    BY <2>5, ConcatEmptySeq DEF more
<1>6. chunks' # <<>>
  BY <1>4
<1> QED
  BY <1>3, <1>4, <1>5, <1>6

LEMMA KnownIsFinite == IsFiniteSet(Known) /\ Cardinality(Known) \in Nat /\ Cardinality(Known) <= Cardinality(Items)
<1>1. Known \in SUBSET Items /\ IsFiniteSet(Items)
  BY ChatAssumption DEF Known
<1> QED
  BY <1>1, FS_Subset, FS_CardinalityType

\* An event of a call of which nothing is sent.
LEMMA NothingSent ==
    ASSUME ChatInv, NEW i \in Items, NEW at \in {"open", "whole", "done"}, NEW n \in Nat,
           Provider(i, at, n), UNCHANGED <<tool, chunks, sentRole>>, tool[i].known => n = upstream[i].made
    PROVE  ChatInv'
<1>1. /\ upstream' = [upstream EXCEPT ![i] = [at |-> at, made |-> n]]
      /\ UNCHANGED <<tool, chunks, sentRole, terminal, reader, charged>> /\ ~terminal /\ reader = "open"
  BY DEF Provider
<1>2. ChatTypeOK'
  BY <1>1 DEF ChatInv, ChatTypeOK
<1>3. Known' = Known /\ chunks' = chunks
  BY <1>1 DEF Known
<1>4. /\ \A j \in Known : upstream'[j].made = upstream[j].made
      /\ \A j \in Items : upstream'[j].at = "none" => upstream'[j] = upstream[j]
  BY <1>1 DEF ChatInv, ChatTypeOK, Known
<1>5. CallsOK'
  BY <1>1, <1>3, <1>4 DEF ChatInv, CallsOK
<1>6. NumbersOK'
  BY <1>1, <1>3 DEF ChatInv, NumbersOK
<1>7. EndOK'
  BY <1>1 DEF ChatInv, EndOK
<1> QED
  BY <1>2, <1>5, <1>6, <1>7 DEF ChatInv

\* The rest of the text of a known call is sent.
LEMMA RestSent ==
    ASSUME ChatInv, NEW i \in Items, NEW at \in {"open", "whole", "done"}, NEW n \in Nat, NEW rest \in Seq(Nat),
           Provider(i, at, n), tool[i].known, TextOf(upstream[i].made) \o rest = TextOf(n),
           tool' = [tool EXCEPT ![i].text = TextOf(n)], SendChunk(tool[i].index, rest, "no")
    PROVE  ChatInv'
<1>1. /\ upstream' = [upstream EXCEPT ![i] = [at |-> at, made |-> n]]
      /\ UNCHANGED <<terminal, reader, charged>> /\ ~terminal /\ reader = "open"
  BY DEF Provider
<1>2. /\ tool[i].index \in Nat /\ TextOf(n) \in Seq(Nat) /\ chunks \in Seq(ChatChunks) /\ Len(chunks) \in Nat
      /\ chunks = <<>> <=> Len(chunks) = 0
  <2>1. tool[i].index \in Nat /\ chunks \in Seq(ChatChunks)
    BY DEF ChatInv, ChatTypeOK
  <2>2. Len(chunks) \in Nat /\ (chunks = <<>> <=> Len(chunks) = 0)
    BY <2>1
  <2>3. TextOf(n) \in Seq(Nat)
    BY TextGrows
  <2> QED
    BY <2>1, <2>2, <2>3
<1>3. /\ chunks' \in Seq(ChatChunks) /\ Len(chunks') = Len(chunks) + 1 /\ chunks' # <<>>
      /\ \A k \in 1..Len(chunks) : chunks'[k] = chunks[k]
      /\ chunks'[Len(chunks')].finish = "no"
      /\ chunks'[Len(chunks')].role = ~sentRole /\ sentRole' = TRUE
      /\ \A y \in Nat : TextUnder(chunks', y) = IF y = tool[i].index THEN TextUnder(chunks, y) \o rest ELSE TextUnder(chunks, y)
  BY <1>2, ChunkSent DEF SendChunk, ChatInv, EndOK
<1>4. ChatTypeOK'
  BY <1>1, <1>2, <1>3 DEF ChatInv, ChatTypeOK
<1>5. /\ Known' = Known /\ i \in Known
      /\ \A j \in Items : tool'[j].index = tool[j].index /\ tool'[j].known = tool[j].known
      /\ \A j \in Items \ {i} : tool'[j] = tool[j] /\ upstream'[j] = upstream[j]
      /\ tool'[i].text = TextOf(n) /\ upstream'[i].made = n /\ upstream'[i].at # "none"
  BY <1>1 DEF ChatInv, ChatTypeOK, Known
<1>6. CallsOK'
  <2>1. ASSUME NEW j \in Known
        PROVE  tool'[j].text = TextOf(upstream'[j].made) /\ TextUnder(chunks', tool'[j].index) = tool'[j].text
    <3>1. CASE j = i
      <4>1. TextUnder(chunks', tool[i].index) = TextUnder(chunks, tool[i].index) \o rest
        BY <1>2, <1>3
      <4>2. TextUnder(chunks, tool[i].index) = TextOf(upstream[i].made)
        BY <1>5 DEF ChatInv, CallsOK
      <4> QED
        BY <1>5, <3>1, <4>1, <4>2, ZenonT(60)
    <3>2. CASE j # i
      <4>1. tool[j].index \in Nat /\ tool[j].index # tool[i].index
        BY <1>5, <3>2 DEF ChatInv, NumbersOK, ChatTypeOK, Known
      <4>2. TextUnder(chunks', tool[j].index) = TextUnder(chunks, tool[j].index)
        BY <1>3, <4>1
      <4>3. tool'[j] = tool[j] /\ upstream'[j] = upstream[j]
        BY <1>5, <3>2 DEF Known
      <4> QED
        BY <4>2, <4>3 DEF ChatInv, CallsOK
    <3> QED
      BY <3>1, <3>2
  <2>2. \A j \in Items : upstream'[j].at = "none" => ~tool'[j].known /\ upstream'[j].made = 0
    BY <1>5 DEF ChatInv, CallsOK
  <2> QED
    BY <1>5, <2>1, <2>2 DEF CallsOK
<1>7. NumbersOK'
  <2>1. tool[i].index < Cardinality(Known)
    BY <1>5 DEF ChatInv, NumbersOK
  <2>2. \A x \in Nat : x >= Cardinality(Known) => TextUnder(chunks', x) = TextUnder(chunks, x)
    BY <1>2, <1>3, <2>1, KnownIsFinite
  <2>3. {tool'[j].index : j \in Known} = {tool[j].index : j \in Known}
    BY <1>5 DEF Known
  <2>4. \A j, k \in Known : tool'[j].index = tool'[k].index => j = k
    BY <1>5 DEF ChatInv, NumbersOK, Known
  <2> QED
    BY <1>5, <2>2, <2>3, <2>4 DEF ChatInv, NumbersOK
<1>8. EndOK'
  <2>1. /\ ~charged /\ (sentRole <=> chunks # <<>>)
        /\ \A k \in 1..Len(chunks) : (chunks[k].role <=> k = 1) /\ chunks[k].finish \notin {"tool_calls", "error"}
    BY <1>1 DEF ChatInv, EndOK
  <2>2. ASSUME NEW k \in 1..Len(chunks')
        PROVE  (chunks'[k].role <=> k = 1) /\ chunks'[k].finish \notin {"tool_calls", "error"}
    <3>1. CASE k <= Len(chunks)
      <4>1. k \in 1..Len(chunks)
        BY <1>2, <1>3, <3>1
      <4> QED
        BY <1>3, <2>1, <4>1
    <3>2. CASE ~(k <= Len(chunks))
      <4>1. k = Len(chunks')
        BY <1>2, <1>3, <3>2
      <4> QED
        <5>1. k = 1 <=> chunks = <<>>
          BY <1>2, <1>3, <4>1
        <5>2. chunks'[k].role <=> chunks = <<>>
          BY <1>3, <2>1, <4>1, Zenon
        <5>3. chunks'[k].finish \notin {"tool_calls", "error"}
          BY <1>3, <4>1
        <5> QED
          BY <5>1, <5>2, <5>3, Zenon
    <3> QED
      BY <3>1, <3>2
  <2> QED
    BY <1>1, <1>3, <2>1, <2>2 DEF EndOK
<1> QED
  BY <1>4, <1>6, <1>7, <1>8 DEF ChatInv

\* A call the client learns of takes the next number, under which nothing has
\* been sent.
LEMMA CallSent ==
    ASSUME ChatInv, NEW i \in Items, NEW at \in {"open", "whole", "done"}, NEW n \in Nat,
           Provider(i, at, n), ~tool[i].known,
           tool' = [tool EXCEPT ![i] = [index |-> Cardinality(Known), text |-> TextOf(n), known |-> TRUE]],
           SendChunk(Cardinality(Known), TextOf(n), "new")
    PROVE  ChatInv'
<1> DEFINE m == Cardinality(Known)
<1>1. /\ upstream' = [upstream EXCEPT ![i] = [at |-> at, made |-> n]]
      /\ UNCHANGED <<terminal, reader, charged>> /\ ~terminal /\ reader = "open"
  BY DEF Provider
<1>2. /\ m \in Nat /\ TextOf(n) \in Seq(Nat) /\ chunks \in Seq(ChatChunks) /\ Len(chunks) \in Nat
      /\ chunks = <<>> <=> Len(chunks) = 0
  <2>1. chunks \in Seq(ChatChunks)
    BY DEF ChatInv, ChatTypeOK
  <2>2. Len(chunks) \in Nat /\ (chunks = <<>> <=> Len(chunks) = 0)
    BY <2>1
  <2>3. TextOf(n) \in Seq(Nat)
    BY TextGrows
  <2> QED
    BY <2>1, <2>2, <2>3, KnownIsFinite
<1>3. /\ chunks' \in Seq(ChatChunks) /\ Len(chunks') = Len(chunks) + 1 /\ chunks' # <<>>
      /\ \A k \in 1..Len(chunks) : chunks'[k] = chunks[k]
      /\ chunks'[Len(chunks')].finish = "new"
      /\ chunks'[Len(chunks')].role = ~sentRole /\ sentRole' = TRUE
      /\ \A y \in Nat : TextUnder(chunks', y) = IF y = m THEN TextUnder(chunks, y) \o TextOf(n) ELSE TextUnder(chunks, y)
  BY <1>2, ChunkSent DEF SendChunk, ChatInv, EndOK
<1>4. ChatTypeOK'
  BY <1>1, <1>2, <1>3 DEF ChatInv, ChatTypeOK
<1>5. /\ Known' = Known \cup {i} /\ i \notin Known
      /\ \A j \in Items \ {i} : tool'[j] = tool[j] /\ upstream'[j] = upstream[j]
      /\ tool'[i].text = TextOf(n) /\ tool'[i].index = m /\ upstream'[i].made = n /\ upstream'[i].at # "none"
  BY <1>1 DEF ChatInv, ChatTypeOK, Known
<1>6. Cardinality(Known') = m + 1
  BY <1>5, KnownIsFinite, FS_AddElement
<1>7. /\ {tool[j].index : j \in Known} = {k \in Nat : k < m}
      /\ \A j, k \in Known : tool[j].index = tool[k].index => j = k
      /\ \A x \in Nat : x >= m => TextUnder(chunks, x) = <<>>
  BY DEF ChatInv, NumbersOK
<1> HIDE DEF m
<1>11. ASSUME NEW j \in Known
       PROVE  tool[j].index \in Nat /\ tool[j].index < m
  BY <1>7
<1>8. CallsOK'
  <2>1. ASSUME NEW j \in Known'
        PROVE  tool'[j].text = TextOf(upstream'[j].made) /\ TextUnder(chunks', tool'[j].index) = tool'[j].text
    <3>1. CASE j = i
      <4>1. TextUnder(chunks', m) = TextUnder(chunks, m) \o TextOf(n) /\ TextUnder(chunks, m) = <<>>
        BY <1>2, <1>3, <1>7
      <4>2. TextUnder(chunks', m) = TextOf(n)
        BY <1>2, <4>1, ConcatEmptySeq
      <4> QED
        BY <1>5, <3>1, <4>2
    <3>2. CASE j # i
      <4>1. j \in Known /\ tool'[j] = tool[j] /\ upstream'[j] = upstream[j]
        BY <1>5, <3>2 DEF Known
      <4>2. TextUnder(chunks', tool[j].index) = TextUnder(chunks, tool[j].index)
        BY <1>2, <1>3, <1>11, <4>1
      <4> QED
        BY <4>1, <4>2 DEF ChatInv, CallsOK
    <3> QED
      BY <3>1, <3>2
  <2>2. \A j \in Items : upstream'[j].at = "none" => ~tool'[j].known /\ upstream'[j].made = 0
    BY <1>5 DEF ChatInv, CallsOK
  <2> QED
    BY <2>1, <2>2 DEF CallsOK
<1>9. NumbersOK'
  <2>1. {tool'[j].index : j \in Known'} = {tool[j].index : j \in Known} \cup {m}
    <3>1. \A j \in Known : j # i /\ tool'[j].index = tool[j].index
      BY <1>5 DEF Known
    <3> QED
      BY <1>5, <3>1
  <2>2. {tool[j].index : j \in Known} = {k \in Nat : k < m}
    BY <1>7
  <2>3. {k \in Nat : k < m} \cup {m} = {k \in Nat : k < m + 1}
    BY <1>2
  <2>4. \A j, k \in Known' : tool'[j].index = tool'[k].index => j = k
    <3> SUFFICES ASSUME NEW j \in Known', NEW k \in Known', tool'[j].index = tool'[k].index
                 PROVE  j = k
      OBVIOUS
    <3>1. \A l \in Known : tool'[l].index = tool[l].index /\ tool[l].index # m
      <4>1. \A l \in Known : l \in Items \ {i}
        BY <1>5 DEF Known
      <4> QED
        BY <1>2, <1>5, <1>11, <4>1
    <3>2. CASE j = i \/ k = i
      BY <1>5, <3>1, <3>2
    <3>3. CASE j # i /\ k # i
      BY <1>5, <1>7, <3>1, <3>3
    <3> QED
      BY <3>2, <3>3
  <2>5. \A x \in Nat : x >= m + 1 => TextUnder(chunks', x) = <<>>
    BY <1>2, <1>3, <1>7
  <2> QED
    BY <1>6, <2>1, <2>2, <2>3, <2>4, <2>5 DEF NumbersOK
<1>10. EndOK'
  <2>1. /\ ~charged /\ (sentRole <=> chunks # <<>>)
        /\ \A k \in 1..Len(chunks) : (chunks[k].role <=> k = 1) /\ chunks[k].finish \notin {"tool_calls", "error"}
    BY <1>1 DEF ChatInv, EndOK
  <2>2. ASSUME NEW k \in 1..Len(chunks')
        PROVE  (chunks'[k].role <=> k = 1) /\ chunks'[k].finish \notin {"tool_calls", "error"}
    <3>1. CASE k <= Len(chunks)
      <4>1. k \in 1..Len(chunks)
        BY <1>2, <1>3, <3>1
      <4> QED
        BY <1>3, <2>1, <4>1
    <3>2. CASE ~(k <= Len(chunks))
      <4>1. k = Len(chunks')
        BY <1>2, <1>3, <3>2
      <4> QED
        <5>1. k = 1 <=> chunks = <<>>
          BY <1>2, <1>3, <4>1
        <5>2. chunks'[k].role <=> chunks = <<>>
          BY <1>3, <2>1, <4>1, Zenon
        <5>3. chunks'[k].finish \notin {"tool_calls", "error"}
          BY <1>3, <4>1
        <5> QED
          BY <5>1, <5>2, <5>3, Zenon
    <3> QED
      BY <3>1, <3>2
  <2> QED
    BY <1>1, <1>3, <2>1, <2>2 DEF EndOK
<1> QED
  BY <1>4, <1>8, <1>9, <1>10 DEF ChatInv

\* The text of a call as one of its events repeats it.
LEMMA TextCompleted ==
    ASSUME ChatInv, NEW i \in Items, NEW at \in {"open", "whole", "done"}, NEW n \in Nat, Provider(i, at, n),
           tool[i].known, upstream[i].made <= n, CompleteTool(i, TextOf(n))
    PROVE  ChatInv'
<1> DEFINE m == upstream[i].made
           rest == SubSeq(TextOf(n), m + 1, n)
<1>1. tool[i].text = TextOf(m) /\ m \in Nat
  BY DEF ChatInv, CallsOK, ChatTypeOK, Known
<1>2. Len(TextOf(m)) = m /\ Len(TextOf(n)) = n /\ IsPrefix(TextOf(m), TextOf(n)) /\ rest \in Seq(Nat) /\ TextOf(m) \o rest = TextOf(n)
  BY <1>1, TextGrows, RestOfText
<1>3. CASE TextOf(n) = TextOf(m)
  <2>1. UNCHANGED <<tool, chunks, sentRole>> /\ n = m
    BY <1>1, <1>2, <1>3 DEF CompleteTool
  <2> QED
    BY <2>1, NothingSent
<1>4. CASE TextOf(n) # TextOf(m)
  <2>1. tool' = [tool EXCEPT ![i].text = TextOf(n)] /\ SendChunk(tool[i].index, rest, "no")
    BY <1>1, <1>2, <1>4 DEF CompleteTool
  <2> HIDE DEF rest
  <2> QED
    BY <1>2, <2>1, RestSent
<1> QED
  BY <1>3, <1>4

LEMMA ItemConsumed ==
    ASSUME ChatInv, NEW i \in Items, NEW at \in {"open", "whole", "done"}, NEW n \in Nat, Provider(i, at, n),
           upstream[i].made <= n, ConsumeItem(i, TextOf(n))
    PROVE  ChatInv'
<1>1. CASE tool[i].known
  <2>1. CompleteTool(i, TextOf(n))
    BY <1>1 DEF ConsumeItem
  <2> QED
    BY <1>1, <2>1, TextCompleted
<1>2. CASE ~tool[i].known
  <2>1. /\ tool' = [tool EXCEPT ![i] = [index |-> Cardinality(Known), text |-> TextOf(n), known |-> TRUE]]
        /\ SendChunk(Cardinality(Known), TextOf(n), "new")
    BY <1>2 DEF ConsumeItem, Known
  <2> QED
    BY <1>2, <2>1, CallSent
<1> QED
  BY <1>1, <1>2

LEMMA DeltaConsumed ==
    ASSUME ChatInv, NEW i \in Items, NEW n \in Nat, n = upstream[i].made + 1, Provider(i, "open", n), ConsumeDelta(i, n)
    PROVE  ChatInv'
<1>1. CASE tool[i].known
  <2> DEFINE m == upstream[i].made
  <2>1. tool[i].text = TextOf(m) /\ m \in Nat
    BY <1>1 DEF ChatInv, CallsOK, ChatTypeOK, Known
  <2>2. TextOf(m) \o <<n>> = TextOf(n) /\ Append(TextOf(m), n) = TextOf(n) /\ <<n>> \in Seq(Nat)
    <3>1. n = m + 1 /\ n \in Nat
      OBVIOUS
    <3>2. <<n>> \in Seq(Nat)
      BY <3>1
    <3> HIDE DEF m
    <3> QED
      BY <2>1, <3>1, <3>2, TextGrows
  <2>3. tool' = [tool EXCEPT ![i].text = TextOf(n)] /\ SendChunk(tool[i].index, <<n>>, "no")
    BY <1>1, <2>1, <2>2 DEF ConsumeDelta
  <2> QED
    BY <1>1, <2>2, <2>3, RestSent
<1>2. CASE ~tool[i].known
  <2>1. UNCHANGED <<tool, chunks, sentRole>>
    BY <1>2 DEF ConsumeDelta
  <2> QED
    BY <1>2, <2>1, NothingSent
<1> QED
  BY <1>1, <1>2

\* A chunk without text leaves the calls as the client has them.
LEMMA EmptyChunkSent ==
    ASSUME ChatInv, NEW x \in Nat, NEW finish \in {"no", "tool_calls", "stop", "length", "error"},
           NEW role \in BOOLEAN, WriteSSE(x, <<>>, finish, role), UNCHANGED <<upstream, tool>>
    PROVE  /\ CallsOK' /\ NumbersOK' /\ Known' = Known
           /\ chunks' \in Seq(ChatChunks) /\ chunks' # <<>> /\ chunks'[Len(chunks')].finish = finish
           /\ Len(chunks') = Len(chunks) + 1 /\ Len(chunks) \in Nat
           /\ \A k \in 1..Len(chunks') :
                /\ chunks'[k].role = IF k = Len(chunks') THEN role ELSE chunks[k].role
                /\ chunks'[k].finish = IF k = Len(chunks') THEN finish ELSE chunks[k].finish
<1>1. chunks \in Seq(ChatChunks) /\ <<>> \in Seq(Nat)
  BY DEF ChatInv, ChatTypeOK
<1>2. Len(chunks) \in Nat /\ (chunks = <<>> <=> Len(chunks) = 0)
  BY <1>1
<1>3. /\ chunks' \in Seq(ChatChunks) /\ Len(chunks') = Len(chunks) + 1 /\ chunks' # <<>>
      /\ \A k \in 1..Len(chunks) : chunks'[k] = chunks[k]
      /\ chunks'[Len(chunks')].finish = finish
      /\ chunks'[Len(chunks')].role = role
      /\ \A y \in Nat : TextUnder(chunks', y) = IF y = x THEN TextUnder(chunks, y) \o <<>> ELSE TextUnder(chunks, y)
  BY <1>1, ChunkSent
<1>4. ASSUME NEW y \in Nat
      PROVE  TextUnder(chunks', y) = TextUnder(chunks, y)
  <2> DEFINE q == [k \in 1..Len(chunks) |-> IF chunks[k].index = y THEN chunks[k].text ELSE <<>>]
  <2>1. \A k \in 1..Len(chunks) : chunks[k] \in ChatChunks
    BY <1>1
  <2>2. q \in Seq(Seq(Nat))
    BY <1>1, <1>2, <2>1 DEF ChatChunks
  <2> HIDE DEF q
  <2>3. FlattenSeq(q) \in Seq(Nat)
    BY <1>1, <2>2, FlattenAppend
  <2>4. TextUnder(chunks, y) \in Seq(Nat)
    BY <2>3 DEF TextUnder, q
  <2> QED
    BY <1>3, <2>4, ConcatEmptySeq
<1>5. Known' = Known
  BY DEF Known
<1>6. \A j \in Known : tool[j].index \in Nat
  BY DEF ChatInv, ChatTypeOK, Known
<1>7. CallsOK'
  BY <1>4, <1>5, <1>6 DEF ChatInv, CallsOK
<1>8. NumbersOK'
  BY <1>4, <1>5 DEF ChatInv, NumbersOK
<1>9. ASSUME NEW k \in 1..Len(chunks')
      PROVE  /\ chunks'[k].role = IF k = Len(chunks') THEN role ELSE chunks[k].role
             /\ chunks'[k].finish = IF k = Len(chunks') THEN finish ELSE chunks[k].finish
  <2>2. CASE k = Len(chunks')
    BY <1>2, <1>3, <2>2
  <2>3. CASE k # Len(chunks')
    <3>1. k \in 1..Len(chunks)
      BY <1>2, <1>3, <2>3
    <3> QED
      BY <1>3, <2>3, <3>1
  <2> QED
    BY <2>2, <2>3
<1> QED
  BY <1>2, <1>3, <1>5, <1>7, <1>8, <1>9

LEMMA ChatInitially == ChatInit => ChatInv
<1> SUFFICES ASSUME ChatInit
             PROVE  ChatInv
  OBVIOUS
<1>1. Known = {}
  BY DEF ChatInit, Known, UnknownTool
<1>2. Cardinality(Known) = 0
  BY <1>1, FS_EmptySet
<1>3. ASSUME NEW x
      PROVE  TextUnder(chunks, x) = <<>>
  <2>1. Len(chunks) = 0
    BY DEF ChatInit
  <2>2. [k \in 1..Len(chunks) |-> IF chunks[k].index = x THEN chunks[k].text ELSE <<>>] = <<>>
    BY <2>1
  <2> QED
    BY <2>2, FlattenNothing DEF TextUnder
<1>4. ChatTypeOK
  <2>1. UnknownTool \in [index : Nat, text : Seq(Nat), known : BOOLEAN] /\ <<>> \in Seq(ChatChunks)
    BY DEF UnknownTool
  <2> QED
    BY <2>1 DEF ChatInit, ChatTypeOK
<1>5. CallsOK
  BY <1>1 DEF ChatInit, CallsOK, UnknownTool
<1>6. NumbersOK
  BY <1>1, <1>2, <1>3 DEF NumbersOK
<1>7. EndOK
  <2>1. sentRole = FALSE /\ chunks = <<>> /\ terminal = FALSE /\ charged = FALSE
    BY DEF ChatInit
  <2>2. 1..Len(chunks) = {}
    BY <2>1
  <2> QED
    BY <2>1, <2>2, Zenon DEF EndOK
<1> QED
  BY <1>4, <1>5, <1>6, <1>7 DEF ChatInv

LEMMA ItemSteps ==
    ASSUME ChatInv, NEW i \in Items, ItemAdded(i) \/ ItemDelta(i) \/ ArgumentsDone(i) \/ ItemDone(i)
    PROVE  ChatInv'
<1>1. upstream[i].made \in Nat /\ MaxText \in Nat
  BY ChatAssumption DEF ChatInv, ChatTypeOK
<1>2. CASE ItemAdded(i)
  <2>1. upstream[i].made = 0
    BY <1>2 DEF ItemAdded, ChatInv, CallsOK
  <2>2. PICK n \in 0..MaxText : Provider(i, "open", n) /\ ConsumeItem(i, TextOf(n))
    BY <1>2 DEF ItemAdded
  <2>3. n \in Nat /\ upstream[i].made <= n
    BY <1>1, <2>1
  <2> QED
    BY <2>2, <2>3, ItemConsumed
<1>3. CASE ItemDelta(i)
  BY <1>1, <1>3, DeltaConsumed DEF ItemDelta
<1>4. CASE ArgumentsDone(i)
  <2>1. PICK n \in upstream[i].made..MaxText : Provider(i, "whole", n) /\ ConsumeArguments(i, TextOf(n))
    BY <1>4 DEF ArgumentsDone
  <2>2. n \in Nat /\ upstream[i].made <= n
    BY <1>1
  <2>3. CASE tool[i].known
    <3>1. CompleteTool(i, TextOf(n))
      BY <2>1, <2>3 DEF ConsumeArguments
    <3> QED
      BY <2>1, <2>2, <2>3, <3>1, TextCompleted
  <2>4. CASE ~tool[i].known
    <3>1. UNCHANGED <<tool, chunks, sentRole>>
      BY <2>1, <2>4 DEF ConsumeArguments
    <3> QED
      BY <2>1, <2>2, <2>4, <3>1, NothingSent
  <2> QED
    BY <2>3, <2>4
<1>5. CASE ItemDone(i)
  <2>1. PICK n \in (IF upstream[i].at = "whole" THEN {upstream[i].made} ELSE upstream[i].made..MaxText) :
               Provider(i, "done", n) /\ ConsumeItem(i, TextOf(n))
    BY <1>5 DEF ItemDone
  <2>2. n \in Nat /\ upstream[i].made <= n
    BY <1>1
  <2> QED
    BY <2>1, <2>2, ItemConsumed
<1> QED
  BY <1>2, <1>3, <1>4, <1>5

\* While the stream is read, the role has been sent with the first chunk.
LEMMA RoleIsFirst ==
    ASSUME ChatInv, reader = "open", chunks' \in Seq(ChatChunks), Len(chunks') = Len(chunks) + 1,
           \A k \in 1..Len(chunks') : chunks'[k].role = IF k = Len(chunks') THEN ~sentRole ELSE chunks[k].role
    PROVE  \A k \in 1..Len(chunks') : chunks'[k].role <=> k = 1
<1>1. Len(chunks) \in Nat /\ (chunks = <<>> <=> Len(chunks) = 0)
  BY DEF ChatInv, ChatTypeOK
<1>2. /\ sentRole \in BOOLEAN /\ (sentRole <=> chunks # <<>>)
      /\ \A k \in 1..Len(chunks) : chunks[k].role <=> k = 1
  BY DEF ChatInv, EndOK
<1> SUFFICES ASSUME NEW k \in 1..Len(chunks')
             PROVE  chunks'[k].role <=> k = 1
  OBVIOUS
<1>3. CASE k = Len(chunks')
  <2>1. k = 1 <=> chunks = <<>>
    BY <1>1, <1>3
  <2>2. chunks'[k].role = ~sentRole
    BY <1>3
  <2> QED
    BY <1>2, <2>1, <2>2, Zenon
<1>4. CASE k # Len(chunks')
  <2>1. k \in 1..Len(chunks) /\ chunks'[k].role = chunks[k].role
    BY <1>1, <1>4
  <2> QED
    BY <1>2, <2>1, Zenon
<1> QED
  BY <1>3, <1>4

LEMMA ChatPreserved == ChatInv /\ [ChatNext]_chatVars => ChatInv'
<1> SUFFICES ASSUME ChatInv, [ChatNext]_chatVars
             PROVE  ChatInv'
  OBVIOUS
<1> DEFINE role == ~sentRole
<1>1. 0 \in Nat /\ 99 \in Nat /\ role \in BOOLEAN /\ FALSE \in BOOLEAN
  <2>1. CASE sentRole = TRUE
    BY <2>1
  <2>2. CASE sentRole = FALSE
    BY <2>2
  <2> QED
    BY <2>1, <2>2 DEF ChatInv, EndOK
<1>2. CASE TextDelta
  <2>1. WriteSSE(99, <<>>, "no", ~sentRole) /\ sentRole' = TRUE /\ UNCHANGED <<upstream, tool, terminal, reader, charged>> /\ ~terminal /\ reader = "open"
    BY <1>2 DEF TextDelta, SendChunk
  <2>2. /\ CallsOK' /\ NumbersOK' /\ Known' = Known
        /\ chunks' \in Seq(ChatChunks) /\ Len(chunks') = Len(chunks) + 1 /\ Len(chunks) \in Nat
        /\ \A k \in 1..Len(chunks') :
             /\ chunks'[k].role = IF k = Len(chunks') THEN ~sentRole ELSE chunks[k].role
             /\ chunks'[k].finish = IF k = Len(chunks') THEN "no" ELSE chunks[k].finish
    BY <1>1, <2>1, EmptyChunkSent
  <2>3. ChatTypeOK'
    BY <2>1, <2>2 DEF ChatInv, ChatTypeOK
  <2>4. EndOK'
    <3>1. \A k \in 1..Len(chunks') : k # Len(chunks') => k \in 1..Len(chunks)
      BY <2>2
    <3>2. \A k \in 1..Len(chunks') : chunks'[k].finish \notin {"tool_calls", "error"}
      BY <2>1, <2>2, <3>1 DEF ChatInv, EndOK
    <3>3. \A k \in 1..Len(chunks') : chunks'[k].role <=> k = 1
      BY <2>1, <2>2, <3>1, RoleIsFirst DEF ChatInv, ChatTypeOK
    <3> QED
      BY <2>1, <2>2, <3>2, <3>3 DEF ChatInv, EndOK
  <2> QED
    BY <2>2, <2>3, <2>4 DEF ChatInv
<1>3. CASE ResponseEnds
  <2>1. PICK finish \in {"tool_calls", "stop", "length"} :
               /\ WriteSSE(0, <<>>, finish, ~sentRole) /\ sentRole' = TRUE
               /\ finish = "tool_calls" => \A i \in Items : upstream[i].at \in {"none", "done"}
    BY <1>3 DEF ResponseEnds, SendChunk
  <2>2. UNCHANGED <<upstream, tool, reader, charged>> /\ ~terminal /\ terminal' = TRUE /\ reader = "open"
    BY <1>3 DEF ResponseEnds
  <2>3. /\ CallsOK' /\ NumbersOK' /\ Known' = Known
        /\ chunks' \in Seq(ChatChunks) /\ chunks' # <<>> /\ chunks'[Len(chunks')].finish = finish
        /\ Len(chunks') = Len(chunks) + 1 /\ Len(chunks) \in Nat
        /\ \A k \in 1..Len(chunks') :
             /\ chunks'[k].role = IF k = Len(chunks') THEN ~sentRole ELSE chunks[k].role
             /\ chunks'[k].finish = IF k = Len(chunks') THEN finish ELSE chunks[k].finish
    BY <1>1, <2>1, <2>2, EmptyChunkSent
  <2>4. ChatTypeOK'
    BY <2>2, <2>3 DEF ChatInv, ChatTypeOK
  <2>5. EndOK'
    <3>1. \A k \in 1..Len(chunks') : k # Len(chunks') => k \in 1..Len(chunks)
      BY <2>3
    <3>2. \A k \in 1..Len(chunks') : chunks'[k].finish = "tool_calls" => finish = "tool_calls"
      BY <2>2, <2>3, <3>1 DEF ChatInv, EndOK
    <3>3. finish = "tool_calls" => \A i \in Known : upstream[i].at = "done"
      BY <2>1 DEF ChatInv, CallsOK, Known
    <3>4. finish \in Endings
      BY DEF Endings
    <3>5. \A k \in 1..Len(chunks') : chunks'[k].finish # "error"
      BY <2>2, <2>3, <3>1 DEF ChatInv, EndOK
    <3>6. \A k \in 1..Len(chunks') : chunks'[k].role <=> k = 1
      BY <2>1, <2>2, <2>3, <3>1, RoleIsFirst DEF ChatInv, ChatTypeOK
    <3> QED
      BY <2>1, <2>2, <2>3, <3>2, <3>3, <3>4, <3>5, <3>6 DEF ChatInv, EndOK
  <2> QED
    BY <2>3, <2>4, <2>5 DEF ChatInv
<1>4. CASE ResponseFails
  <2>1. /\ WriteSSE(0, <<>>, "error", FALSE) /\ reader = "open" /\ reader' = "failed"
        /\ UNCHANGED <<upstream, tool, terminal, sentRole, charged>>
    BY <1>4 DEF ResponseFails
  <2>2. /\ CallsOK' /\ NumbersOK' /\ Known' = Known
        /\ chunks' \in Seq(ChatChunks) /\ Len(chunks') = Len(chunks) + 1 /\ Len(chunks) \in Nat
        /\ \A k \in 1..Len(chunks') :
             /\ chunks'[k].role = IF k = Len(chunks') THEN FALSE ELSE chunks[k].role
             /\ chunks'[k].finish = IF k = Len(chunks') THEN "error" ELSE chunks[k].finish
    BY <1>1, <2>1, EmptyChunkSent
  <2>3. ChatTypeOK'
    BY <2>1, <2>2 DEF ChatInv, ChatTypeOK
  <2>4. EndOK'
    <3>1. \A k \in 1..Len(chunks') : k # Len(chunks') => k \in 1..Len(chunks)
      BY <2>2
    <3>2. ~charged
      BY <2>1 DEF ChatInv, EndOK
    <3>3. ASSUME NEW k \in 1..Len(chunks'), chunks'[k].finish = "tool_calls"
          PROVE  k \in 1..Len(chunks) /\ chunks[k].finish = "tool_calls"
      BY <2>2, <3>1, <3>3
    <3>4. \A k \in 1..Len(chunks') : /\ chunks'[k].role <=> k = 1 /\ chunks'[k].finish # "error"
                                     /\ chunks'[k].finish = "error" => k = Len(chunks')
      BY <2>1, <2>2, <3>1 DEF ChatInv, EndOK
    <3>5. \A k \in 1..Len(chunks') : chunks'[k].finish = "tool_calls" => terminal' /\ \A i \in Known' : upstream'[i].at = "done"
      BY <2>1, <2>2, <3>3 DEF ChatInv, EndOK
    <3>6. sentRole' \in BOOLEAN /\ charged' = charged /\ reader' = "failed"
      BY <2>1 DEF ChatInv, EndOK
    <3>7. /\ terminal' /\ reader' # "failed" => chunks' # <<>> /\ chunks'[Len(chunks')].finish \in Endings
          /\ charged' => terminal' /\ reader' = "done"
          /\ reader' # "failed" => (sentRole' <=> chunks' # <<>>)
      BY <3>2, <3>6
    <3>8. \A k \in 1..Len(chunks') :
            /\ chunks'[k].role <=> k = 1 /\ chunks'[k].finish # "error"
            /\ chunks'[k].finish = "error" => reader' = "failed" /\ k = Len(chunks')
            /\ chunks'[k].finish = "tool_calls" => terminal' /\ \A i \in Known' : upstream'[i].at = "done"
      <4> TAKE k \in 1..Len(chunks')
      <4>1. /\ chunks'[k].role <=> k = 1 /\ chunks'[k].finish # "error"
            /\ chunks'[k].finish = "error" => reader' = "failed" /\ k = Len(chunks')
        BY <3>4, <3>6
      <4>2. chunks'[k].finish = "tool_calls" => terminal' /\ \A i \in Known' : upstream'[i].at = "done"
        BY <3>5
      <4> QED
        BY <4>1, <4>2
    <3> QED
      BY <3>6, <3>7, <3>8, Zenon DEF EndOK
  <2> QED
    BY <2>2, <2>3, <2>4 DEF ChatInv
<1>5. CASE StreamStops
  <2>1. UNCHANGED <<upstream, tool, terminal, chunks, sentRole>> /\ Known' = Known
    BY <1>5 DEF StreamStops, Known
  <2>2. reader = "open" /\ (reader' = "done" \/ reader' = "cut") /\ (charged' => terminal /\ reader' = "done")
        /\ charged' \in BOOLEAN
    <3>1. charged \in BOOLEAN /\ (charged => reader = "done")
      BY DEF ChatInv, EndOK, ChatTypeOK
    <3>2. CASE terminal /\ reader' = "done" /\ charged' = TRUE
      BY <1>5, <3>2 DEF StreamStops
    <3>3. CASE reader' = "cut" /\ UNCHANGED charged
      BY <1>5, <3>1, <3>3 DEF StreamStops
    <3> QED
      BY <1>5, <3>2, <3>3 DEF StreamStops
  <2>3. ChatTypeOK'
    BY <2>1, <2>2 DEF ChatInv, ChatTypeOK
  <2>4. CallsOK' /\ NumbersOK'
    BY <2>1 DEF ChatInv, CallsOK, NumbersOK
  <2>5. EndOK'
    BY <2>1, <2>2 DEF ChatInv, EndOK
  <2> QED
    BY <2>3, <2>4, <2>5 DEF ChatInv
<1>6. CASE UNCHANGED chatVars
  <2>1. UNCHANGED <<upstream, tool, terminal, chunks, sentRole, reader, charged>> /\ Known' = Known
    BY <1>6 DEF chatVars, Known
  <2>2. ChatTypeOK' /\ EndOK'
    BY <2>1 DEF ChatInv, ChatTypeOK, EndOK
  <2>3. CallsOK' /\ NumbersOK'
    BY <2>1 DEF ChatInv, CallsOK, NumbersOK
  <2> QED
    BY <2>2, <2>3 DEF ChatInv
<1> QED
  BY <1>2, <1>3, <1>4, <1>5, <1>6, ItemSteps DEF ChatNext

\* The client of a chat stream has of every call exactly what the provider has
\* made of it, under consecutive numbers, and is charged only for an answer it
\* was told the end of.
THEOREM ChatIsFaithful == ChatSpec => []ChatFaithful
<1>1. ChatInv => ChatFaithful
  <2> SUFFICES ASSUME ChatInv
               PROVE  ChatFaithful
    OBVIOUS
  <2>1. \A x : Received(x) = TextUnder(chunks, x)
    BY DEF Received, TextUnder
  <2>2. TextArrivesOnce
    <3> SUFFICES ASSUME NEW i \in Items, tool[i].known
                 PROVE  /\ IsPrefix(Received(tool[i].index), TextOf(upstream[i].made))
                        /\ Received(tool[i].index) = TextOf(upstream[i].made)
      BY DEF TextArrivesOnce
    <3>1. Received(tool[i].index) = TextOf(upstream[i].made) /\ upstream[i].made \in Nat
      BY <2>1 DEF ChatInv, CallsOK, ChatTypeOK, Known
    <3>2. IsPrefix(TextOf(upstream[i].made), TextOf(upstream[i].made))
      BY <3>1, RestOfText
    <3> QED
      BY <3>1, <3>2
  <2>3. CallsNumbered
    <3>1. {tool[i].index : i \in Known} = {k \in 0..Cardinality(Items) : k < Cardinality(Known)}
      <4>1. Cardinality(Known) \in Nat /\ Cardinality(Items) \in Nat /\ Cardinality(Known) <= Cardinality(Items)
        BY KnownIsFinite, ChatAssumption, FS_CardinalityType
      <4>2. {tool[i].index : i \in Known} = {k \in Nat : k < Cardinality(Known)}
        BY DEF ChatInv, NumbersOK
      <4> QED
        BY <4>1, <4>2
    <3>2. \A k \in 1..Len(chunks) : chunks[k].finish = "tool_calls" => \A i \in Items : tool[i].known => upstream[i].at = "done"
      BY DEF ChatInv, EndOK, Known
    <3> QED
      BY <3>1, <3>2 DEF CallsNumbered, Known
  <2>4. ChargedWhenTold
    BY DEF ChatInv, EndOK, Endings, ChargedWhenTold
  <2> QED
    BY <2>2, <2>3, <2>4 DEF ChatFaithful
<1> QED
  BY <1>1, ChatInitially, ChatPreserved, PTL DEF ChatSpec

-----------------------------------------------------------------------------
(* The choice by quota.  After each turn of the loop the best account so   *)
(* far is the one the key has, if nothing acceptable has been seen, or     *)
(* else the best acceptable one among those seen.                          *)

Score(p, k) == QuotaRoutingScore(p[k]).score

\* No account of the set is to be preferred to b.
IsBest(p, b, good) ==
    \A j \in good : \/ p[b].priority < p[j].priority
                    \/ /\ p[b].priority = p[j].priority
                       /\ Score(p, b) > Score(p, j) \/ (Score(p, b) = Score(p, j) /\ ~Lighter(p[j], p[b]))

\* What the loop knows after the accounts up to n.
BestSoFar(p, current, n, best) ==
    LET good == {k \in Acceptable(p, current) : k <= n}
        now == CurrentOf(p, current)
    IN IF good = {} THEN best = [selected |-> current, score |-> now.q.score, priority |-> now.priority]
       ELSE /\ best.selected \in good /\ IsBest(p, best.selected, good)
            /\ best = [selected |-> best.selected, score |-> Score(p, best.selected), priority |-> p[best.selected].priority]

\* The smaller load per weight is smaller than whatever the other one is not
\* larger than.
LEMMA LighterThanRest ==
    ASSUME NEW a, NEW b, NEW c, a.keys \in Nat, b.keys \in Nat, c.keys \in Nat,
           a.weight \in Nat \ {0}, b.weight \in Nat \ {0}, c.weight \in Nat \ {0},
           Lighter(a, b), ~Lighter(c, b)
    PROVE  ~Lighter(c, a)
<1> SUFFICES ASSUME NEW ak \in Nat, NEW bk \in Nat, NEW ck \in Nat,
                    NEW aw \in Nat \ {0}, NEW bw \in Nat \ {0}, NEW cw \in Nat \ {0},
                    ak * bw < bk * aw, ck * bw >= bk * cw, ck * aw < ak * cw
             PROVE  FALSE
  BY DEF Lighter
<1>1. (ck * aw) * bw < (ak * cw) * bw
  OBVIOUS
<1>2. (ak * bw) * cw < (bk * aw) * cw
  OBVIOUS
<1>3. (ck * bw) * aw >= (bk * cw) * aw
  OBVIOUS
<1>4. (ck * aw) * bw = (ck * bw) * aw /\ (ak * cw) * bw = (ak * bw) * cw /\ (bk * aw) * cw = (bk * cw) * aw
  OBVIOUS
<1> QED
  BY <1>1, <1>2, <1>3, <1>4

LEMMA InvalidIs == Invalid.score = 0
  BY Zenon DEF Invalid

LEMMA NotLighterThanItself ==
    ASSUME NEW a, a.keys \in Nat, a.weight \in Nat \ {0}
    PROVE  ~Lighter(a, a)
<1>1. a.keys * a.weight \in Nat
  OBVIOUS
<1> QED
  BY <1>1 DEF Lighter

\* A score is a number.
LEMMA ScoreIsNumber ==
    ASSUME NEW c
    PROVE  QuotaRoutingScore(c).score \in Int
<1> DEFINE windows == {w \in {c.fiveHour, c.weekly} : w # Absent}
           left == {100} \cup {100 - w.used : w \in windows}
           min == CHOOSE l \in left : \A m \in left : l <= m
           whole == [score |-> min, plan |-> c.plan, valid |-> TRUE]
<1>1. CASE \A w \in windows : w.used \in 0..99
  <2>1. left \in SUBSET Nat /\ left # {}
    BY <1>1
  <2> HIDE DEF left
  <2>2. \E l \in left : \A m \in left : l <= m
    BY <2>1, LeastNumber
  <2>3. min \in left
    BY <2>2, Zenon
  <2> HIDE DEF min
  <2>4. min \in Int
    BY <2>1, <2>3
  <2>5. QuotaRoutingScore(c) = Invalid \/ QuotaRoutingScore(c) = whole
    BY Zenon DEF QuotaRoutingScore, min, left
  <2>6. whole.score = min
    BY Zenon
  <2> HIDE DEF whole
  <2> QED
    BY <2>4, <2>5, <2>6, InvalidIs
<1>2. CASE ~\A w \in windows : w.used \in 0..99
  <2>1. QuotaRoutingScore(c) = Invalid
    BY <1>2, Zenon DEF QuotaRoutingScore
  <2> QED
    BY <2>1, InvalidIs
<1> QED
  BY <1>1, <1>2

LEMMA PoolNumbers ==
    ASSUME NEW p \in Seq(Candidates), NEW k \in 1..Len(p)
    PROVE  /\ p[k].priority \in Int /\ p[k].keys \in Nat /\ p[k].weight \in Nat \ {0}
           /\ Score(p, k) \in Int /\ QuotaRoutingScore(p[k]).score = Score(p, k)
<1>1. p[k] \in Candidates
  OBVIOUS
<1> QED
  BY <1>1, QuotaAssumption, ScoreIsNumber DEF Score

LEMMA CurrentNumbers ==
    ASSUME NEW p \in Seq(Candidates), NEW current \in 0..Len(p)
    PROVE  CurrentOf(p, current).q.score \in Int /\ CurrentOf(p, current).priority \in Int
<1>1. CASE current = 0
  BY <1>1, InvalidIs DEF CurrentOf
<1>2. CASE current # 0
  <2>1. current \in 1..Len(p)
    BY <1>2
  <2> QED
    BY <1>2, <2>1, PoolNumbers DEF CurrentOf
<1> QED
  BY <1>1, <1>2

\* One turn of the loop as a choice between what it had and the account.
Chosen(p, k) == [selected |-> k, score |-> Score(p, k), priority |-> p[k].priority]

LEMMA TurnOfLoop ==
    ASSUME NEW p \in Seq(Candidates), NEW current \in 0..Len(p), NEW k \in 1..Len(p), NEW best,
           best.priority \in Int, best.score \in Int, best.priority <= CurrentOf(p, current).priority
    PROVE  /\ k \notin Acceptable(p, current) \/ p[k].priority > best.priority => Consider(p, current, best, k) = best
           /\ k \in Acceptable(p, current) /\ p[k].priority <= best.priority =>
                Consider(p, current, best, k) =
                  IF \/ p[k].priority < best.priority \/ best.selected = current \/ Score(p, k) > best.score
                     \/ (Score(p, k) = best.score /\ Lighter(p[k], p[best.selected]))
                  THEN Chosen(p, k) ELSE best
<1> DEFINE now == CurrentOf(p, current)
           q == QuotaRoutingScore(p[k])
           skipped == \/ k = current \/ ~q.valid \/ p[k].priority > best.priority
                      \/ (p[k].priority = now.priority /\ (~now.q.valid \/ q.plan # now.q.plan \/ q.score <= now.q.score + Margin))
                      \/ ~p[k].capacity
           better == \/ p[k].priority < best.priority \/ best.selected = current \/ q.score > best.score
                     \/ (q.score = best.score /\ Lighter(p[k], p[best.selected]))
<1>1. /\ q.score \in Int /\ now.q.score \in Int /\ p[k].priority \in Int /\ now.priority \in Int /\ Margin \in Int
      /\ best.priority <= now.priority
  BY PoolNumbers, CurrentNumbers, QuotaAssumption DEF Score
<1>2. Consider(p, current, best, k) = IF skipped THEN best ELSE IF better THEN [selected |-> k, score |-> q.score, priority |-> p[k].priority] ELSE best
  BY Zenon DEF Consider
<1>3. k \in Acceptable(p, current) <=>
        /\ k # current /\ q.valid /\ p[k].capacity
        /\ \/ p[k].priority < now.priority
           \/ p[k].priority = now.priority /\ now.q.valid /\ q.plan = now.q.plan /\ q.score > now.q.score + Margin
  BY Zenon DEF Acceptable
<1>4. q.score = Score(p, k)
  BY DEF Score
<1> HIDE DEF now, q
<1>5. skipped <=> k \notin Acceptable(p, current) \/ p[k].priority > best.priority
  <2>1. /\ p[k].priority < now.priority \/ p[k].priority = now.priority \/ p[k].priority > best.priority
        /\ ~(p[k].priority < now.priority /\ p[k].priority = now.priority)
    BY <1>1
  <2>2. q.score <= now.q.score + Margin <=> ~(q.score > now.q.score + Margin)
    BY <1>1
  <2> QED
    BY <1>3, <2>1, <2>2, Zenon
<1>6. p[k].priority <= best.priority <=> ~(p[k].priority > best.priority)
  BY <1>1
<1> HIDE DEF skipped
<1> QED
  BY <1>2, <1>4, <1>5, <1>6, Zenon DEF Chosen

LEMMA BestStep ==
    ASSUME NEW p \in Seq(Candidates), NEW current \in 0..Len(p), NEW n \in 0..(Len(p) - 1), NEW best,
           BestSoFar(p, current, n, best)
    PROVE  BestSoFar(p, current, n + 1, Consider(p, current, best, n + 1))
<1> DEFINE good == {k \in Acceptable(p, current) : k <= n}
           more == {k \in Acceptable(p, current) : k <= n + 1}
           now == CurrentOf(p, current)
           start == [selected |-> current, score |-> now.q.score, priority |-> now.priority]
           l == n + 1
           next == Consider(p, current, best, l)
<1>1. l \in 1..Len(p) /\ now.priority \in Int /\ now.q.score \in Int
  BY CurrentNumbers
<1>2. ASSUME NEW k \in Acceptable(p, current)
      PROVE  k \in 1..Len(p) /\ k # current /\ p[k].priority \in Int /\ p[k].priority <= now.priority
  <2>1. k \in 1..Len(p) /\ k # current /\ (p[k].priority < now.priority \/ p[k].priority = now.priority)
    BY Zenon DEF Acceptable
  <2> QED
    BY <1>1, <2>1, PoolNumbers
<1>3. more = IF l \in Acceptable(p, current) THEN good \cup {l} ELSE good
  BY <1>2
<1>4. good = {} => best = start
  BY DEF BestSoFar
<1>5. good # {} => /\ best.selected \in good /\ IsBest(p, best.selected, good)
                   /\ best = Chosen(p, best.selected)
  BY DEF BestSoFar, Chosen
<1>6. /\ more = {} => next = start
      /\ more # {} => /\ next.selected \in more /\ IsBest(p, next.selected, more)
                      /\ next = Chosen(p, next.selected)
      => BestSoFar(p, current, n + 1, next)
  BY DEF BestSoFar, Chosen
<1>7. start.selected = current /\ start.score = now.q.score /\ start.priority = now.priority
  OBVIOUS
<1>8. \A k : Chosen(p, k).selected = k /\ Chosen(p, k).score = Score(p, k) /\ Chosen(p, k).priority = p[k].priority
  BY DEF Chosen
<1>9. good \in SUBSET Acceptable(p, current)
  OBVIOUS
<1> HIDE DEF good, more, start
<1>10. best.priority \in Int /\ best.score \in Int /\ best.priority <= now.priority
  <2>1. CASE good = {}
    BY <1>1, <1>4, <1>7, <2>1
  <2>2. CASE good # {}
    BY <1>2, <1>5, <1>8, <1>9, <2>2, PoolNumbers, SMTT(40)
  <2> QED
    BY <2>1, <2>2
<1>11. /\ l \notin Acceptable(p, current) \/ p[l].priority > best.priority => next = best
       /\ l \in Acceptable(p, current) /\ p[l].priority <= best.priority =>
            next = IF \/ p[l].priority < best.priority \/ best.selected = current \/ Score(p, l) > best.score
                      \/ (Score(p, l) = best.score /\ Lighter(p[l], p[best.selected]))
                   THEN Chosen(p, l) ELSE best
  BY <1>1, <1>10, TurnOfLoop
<1> HIDE DEF next
<1> SUFFICES /\ more = {} => next = start
             /\ more # {} => /\ next.selected \in more /\ IsBest(p, next.selected, more)
                             /\ next = Chosen(p, next.selected)
  BY <1>6 DEF next
<1>12. CASE l \notin Acceptable(p, current)
  BY <1>3, <1>4, <1>5, <1>11, <1>12
<1>13. CASE l \in Acceptable(p, current) /\ good = {}
  <2>1. best.selected = current /\ best.priority = now.priority
    BY <1>4, <1>7, <1>13
  <2>2. next = Chosen(p, l) /\ more = {l}
    BY <1>2, <1>3, <1>11, <1>13, <2>1
  <2>3. IsBest(p, l, {l})
    BY <1>1, PoolNumbers DEF IsBest, Lighter
  <2> QED
    BY <1>8, <2>2, <2>3
<1>14. CASE l \in Acceptable(p, current) /\ good # {}
  <2> DEFINE b == best.selected
  <2>1. b \in good /\ b \in Acceptable(p, current) /\ b # current /\ b \in 1..Len(p) /\ best = Chosen(p, b) /\ IsBest(p, b, good)
    BY <1>2, <1>5, <1>9, <1>14
  <2>2. best.priority = p[b].priority /\ best.score = Score(p, b)
    BY <1>8, <2>1
  <2>3. more = good \cup {l}
    BY <1>3, <1>14
  <2> HIDE DEF b
  <2>4. /\ p[b].priority \in Int /\ Score(p, b) \in Int /\ p[b].keys \in Nat /\ p[b].weight \in Nat \ {0}
        /\ p[l].priority \in Int /\ Score(p, l) \in Int /\ p[l].keys \in Nat /\ p[l].weight \in Nat \ {0}
    BY <1>1, <2>1, PoolNumbers
  <2>5. \A j \in good : /\ p[j].priority \in Int /\ Score(p, j) \in Int
                        /\ p[j].keys \in Nat /\ p[j].weight \in Nat \ {0}
    BY <1>2, <1>9, PoolNumbers
  <2>6. CASE next = Chosen(p, l)
    <3>1. \/ p[l].priority < p[b].priority
          \/ /\ p[l].priority = p[b].priority
             /\ Score(p, l) > Score(p, b) \/ (Score(p, l) = Score(p, b) /\ Lighter(p[l], p[b]))
          \/ l = b
      BY <1>11, <1>14, <2>1, <2>2, <2>4, <2>6, <1>8, SMTT(40) DEF b
    <3>2. ASSUME NEW j \in good, ~Lighter(p[j], p[b]), Lighter(p[l], p[b])
          PROVE  ~Lighter(p[j], p[l])
      BY <2>4, <2>5, <3>2, LighterThanRest
    <3>3. ASSUME NEW j \in good
          PROVE  \/ p[l].priority < p[j].priority
                 \/ /\ p[l].priority = p[j].priority
                    /\ Score(p, l) > Score(p, j) \/ (Score(p, l) = Score(p, j) /\ ~Lighter(p[j], p[l]))
      <4>1. \/ p[b].priority < p[j].priority
            \/ /\ p[b].priority = p[j].priority
               /\ Score(p, b) > Score(p, j) \/ (Score(p, b) = Score(p, j) /\ ~Lighter(p[j], p[b]))
        BY <2>1 DEF IsBest
      <4>2. CASE l = b
        BY <4>1, <4>2
      <4>3. CASE p[l].priority < p[b].priority
        <5>1. p[b].priority \in Int /\ p[l].priority \in Int
          BY <2>4
        <5>2. p[j].priority \in Int
          BY <2>5
        <5>3. p[b].priority <= p[j].priority
          BY <4>1, <5>1, <5>2
        <5> QED
          BY <4>3, <5>1, <5>2, <5>3
      <4>4. CASE p[l].priority = p[b].priority /\ Score(p, l) > Score(p, b)
        BY <2>4, <2>5, <4>1, <4>4
      <4>5. CASE p[l].priority = p[b].priority /\ Score(p, l) = Score(p, b) /\ Lighter(p[l], p[b])
        BY <2>4, <2>5, <3>2, <4>1, <4>5
      <4> QED
        BY <3>1, <4>2, <4>3, <4>4, <4>5
    <3>4. ~Lighter(p[l], p[l])
      BY <2>4, NotLighterThanItself
    <3>5. IsBest(p, l, more)
      BY <2>3, <3>3, <3>4 DEF IsBest
    <3> QED
      BY <1>8, <2>3, <2>6, <3>5
  <2>7. CASE next = best
    <3>1. \/ p[b].priority < p[l].priority
          \/ /\ p[b].priority = p[l].priority
             /\ Score(p, b) > Score(p, l) \/ (Score(p, b) = Score(p, l) /\ ~Lighter(p[l], p[b]))
          \/ l = b
      BY <1>8, <1>11, <1>14, <2>1, <2>2, <2>4, <2>7, SMTT(40) DEF b
    <3>2. ~Lighter(p[l], p[l])
      BY <2>4, NotLighterThanItself
    <3>3. IsBest(p, b, more)
      BY <2>1, <2>3, <3>1, <3>2 DEF IsBest
    <3> QED
      BY <1>8, <2>1, <2>3, <2>7, <3>3 DEF b
  <2>8. next = best \/ next = Chosen(p, l)
    <3>1. p[l].priority > best.priority \/ p[l].priority <= best.priority
      <4> HIDE DEF l
      <4> QED
        BY <1>10, <2>4, SMTT(40)
    <3> QED
      BY <1>11, <1>14, <3>1
  <2> QED
    BY <2>6, <2>7, <2>8
<1> QED
  BY <1>12, <1>13, <1>14

LEMMA BestAtStart ==
    ASSUME NEW p \in Seq(Candidates), NEW current \in 0..Len(p)
    PROVE  LET now == CurrentOf(p, current)
           IN BestSoFar(p, current, 0, [selected |-> current, score |-> now.q.score, priority |-> now.priority])
<1>1. \A k \in Acceptable(p, current) : k \in 1..Len(p)
  BY Zenon DEF Acceptable
<1>2. {k \in Acceptable(p, current) : k <= 0} = {}
  <2>1. \A k \in Acceptable(p, current) : ~(k <= 0)
    <3> SUFFICES ASSUME NEW k \in Acceptable(p, current)
                 PROVE  ~(k <= 0)
      OBVIOUS
    <3>1. k \in 1..Len(p)
      BY <1>1
    <3> QED
      BY <3>1
  <2> QED
    BY <2>1, Zenon
<1> QED
  BY <1>2 DEF BestSoFar

\* The whole loop.
LEMMA PreferIsBest ==
    ASSUME NEW p \in Seq(Candidates), NEW current \in 0..Len(p)
    PROVE  \E best : best.selected = Prefer(p, current) /\ BestSoFar(p, current, Len(p), best)
<1> DEFINE N == Len(p)
           q == [k \in 1..N |-> k]
           now == CurrentOf(p, current)
           start == [selected |-> current, score |-> now.q.score, priority |-> now.priority]
           V == {start} \cup {Chosen(p, k) : k \in 1..N}
           h == [x \in (1..N) \X V |-> Consider(p, current, x[2], x[1])]
           IsIter(it) == it = [s \in SUBSET (1..N) |-> IF s = {} THEN start ELSE Consider(p, current, it[s \ {Max(s)}], q[Max(s)])]
<1>1. N \in Nat /\ DOMAIN q = 1..N
  OBVIOUS
<1>2. Prefer(p, current) = (CHOOSE it : IsIter(it))[1..N].selected
  BY <1>1 DEF Prefer, FoldLeft, MapThenFoldSet
<1>3. ASSUME NEW v \in V, NEW k \in 1..N
      PROVE  Consider(p, current, v, k) \in V
  <2>1. Consider(p, current, v, k) = v \/ Consider(p, current, v, k) = [selected |-> k, score |-> QuotaRoutingScore(p[k]).score, priority |-> p[k].priority]
    BY Zenon DEF Consider
  <2>2. [selected |-> k, score |-> QuotaRoutingScore(p[k]).score, priority |-> p[k].priority] = Chosen(p, k)
    BY DEF Chosen, Score
  <2> HIDE DEF start
  <2> QED
    BY <2>1, <2>2
<1> HIDE DEF V
<1>4. start \in V
  BY DEF V
<1>5. h \in [(1..N) \X V -> V]
  BY <1>3
<1> HIDE DEF start
<1>6. PICK it \in [SUBSET (1..N) -> V] : Iterates(it, N, start, h)
  BY <1>1, <1>4, <1>5, IterateExists
<1>7. ASSUME NEW s \in SUBSET (1..N), s # {}
      PROVE  h[<<Max(s), it[s \ {Max(s)}]>>] = Consider(p, current, it[s \ {Max(s)}], q[Max(s)])
  <2>1. Max(s) \in 1..N
    BY <1>1, <1>7, LargestOf
  <2> QED
    BY <2>1
<1>8. IsIter(it)
  BY <1>6, <1>7, Zenon DEF Iterates
<1> DEFINE g == CHOOSE f : IsIter(f)
<1>9. IsIter(g)
  BY <1>8, Zenon
<1> HIDE DEF g
<1>10. g[{}] = start
  <2>1. {} \in SUBSET (1..N)
    OBVIOUS
  <2> QED
    BY <1>9, <2>1
<1>11. ASSUME NEW n \in 1..N
       PROVE  g[1..n] = Consider(p, current, g[1..(n - 1)], n)
  <2>1. 1..n \in SUBSET (1..N) /\ 1..n # {} /\ n \in Nat \ {0}
    <3> HIDE DEF N
    <3> QED
      BY <1>1
  <2>2. g[1..n] = Consider(p, current, g[(1..n) \ {Max(1..n)}], q[Max(1..n)])
    BY <1>9, <2>1
  <2> QED
    BY <2>1, <2>2, LastOf
<1> HIDE DEF IsIter
<1> DEFINE G == {n \in 0..N : BestSoFar(p, current, n, g[1..n])}
<1>12. 0 \in G
  <2>1. 1..0 = {} /\ 0 \in 0..N
    BY <1>1
  <2>2. BestSoFar(p, current, 0, start)
    BY BestAtStart DEF start
  <2>3. g[1..0] = start
    BY <1>10, <2>1
  <2> QED
    BY <2>1, <2>2, <2>3
<1>13. ASSUME NEW n \in 0..(N - 1), n \in G
       PROVE  n + 1 \in G
  <2>1. n + 1 \in 1..N /\ (n + 1) - 1 = n /\ n + 1 \in 0..N
    BY <1>1
  <2>2. g[1..(n + 1)] = Consider(p, current, g[1..n], n + 1)
    BY <1>11, <2>1
  <2>3. BestSoFar(p, current, n, g[1..n])
    BY <1>13
  <2>4. BestSoFar(p, current, n + 1, Consider(p, current, g[1..n], n + 1))
    BY <2>3, BestStep
  <2> QED
    BY <2>1, <2>2, <2>4
<1> HIDE DEF G
<1>14. N \in G
  <2>1. \A n \in 0..N : n \in G
    <3> HIDE DEF N
    <3> QED
      BY <1>1, <1>12, <1>13, NumberInduction
  <2> QED
    BY <1>1, <2>1
<1>15. BestSoFar(p, current, N, g[1..N])
  BY <1>14 DEF G
<1>16. Prefer(p, current) = g[1..N].selected
  BY <1>2 DEF g
<1> QED
  BY <1>15, <1>16

\* A key is bound to what it had, or to the best account there is.
LEMMA PreferMoves ==
    ASSUME NEW p \in Seq(Candidates), NEW current \in 0..Len(p)
    PROVE  LET good == Acceptable(p, current) to == Prefer(p, current) IN
           IF good = {} THEN to = current ELSE to \in good /\ IsBest(p, to, good)
<1> DEFINE good == Acceptable(p, current)
<1>1. PICK best : best.selected = Prefer(p, current) /\ BestSoFar(p, current, Len(p), best)
  BY PreferIsBest
<1>2. \A k \in good : k \in 1..Len(p)
  BY Zenon DEF Acceptable
<1>3. {k \in good : k <= Len(p)} = good
  BY <1>2
<1> HIDE DEF good
<1>4. IF good = {} THEN best = [selected |-> current, score |-> CurrentOf(p, current).q.score, priority |-> CurrentOf(p, current).priority]
      ELSE best.selected \in good /\ IsBest(p, best.selected, good)
  BY <1>1, <1>3 DEF BestSoFar, good
<1> QED
  BY <1>1, <1>4 DEF good

\* From the account it has moved to a key cannot move on: what would be
\* acceptable now was acceptable before, and better.
LEMMA NowhereToGo ==
    ASSUME NEW p \in Seq(Candidates), NEW current \in 0..Len(p),
           NEW to \in Acceptable(p, current), IsBest(p, to, Acceptable(p, current))
    PROVE  Acceptable(p, to) = {}
<1> DEFINE good == Acceptable(p, current)
           now == CurrentOf(p, current)
<1>1. \A k \in good : /\ k \in 1..Len(p) /\ k # current /\ QuotaRoutingScore(p[k]).valid /\ p[k].capacity
                      /\ \/ p[k].priority < now.priority
                         \/ p[k].priority = now.priority /\ now.q.valid /\ QuotaRoutingScore(p[k]).plan = now.q.plan /\ Score(p, k) > now.q.score + Margin
  BY Zenon DEF Acceptable, Score
<1>2. to \in 1..Len(p) /\ to # 0 /\ Margin \in Nat /\ now.priority \in Int /\ now.q.score \in Int
  BY <1>1, QuotaAssumption, CurrentNumbers
<1>3. CurrentOf(p, to).priority = p[to].priority /\ CurrentOf(p, to).q = QuotaRoutingScore(p[to])
  BY <1>2 DEF CurrentOf
<1> SUFFICES ASSUME NEW k \in Acceptable(p, to)
             PROVE  FALSE
  OBVIOUS
<1>4. /\ k \in 1..Len(p) /\ k # to /\ QuotaRoutingScore(p[k]).valid /\ p[k].capacity
      /\ \/ p[k].priority < p[to].priority
         \/ /\ p[k].priority = p[to].priority
            /\ QuotaRoutingScore(p[k]).plan = QuotaRoutingScore(p[to]).plan /\ Score(p, k) > Score(p, to) + Margin
  <2>1. /\ k \in 1..Len(p) /\ k # to /\ QuotaRoutingScore(p[k]).valid /\ p[k].capacity
        /\ \/ p[k].priority < CurrentOf(p, to).priority
           \/ /\ p[k].priority = CurrentOf(p, to).priority
              /\ QuotaRoutingScore(p[k]).plan = CurrentOf(p, to).q.plan /\ QuotaRoutingScore(p[k]).score > CurrentOf(p, to).q.score + Margin
    BY Zenon DEF Acceptable
  <2> QED
    BY <1>3, <2>1, Zenon DEF Score
<1>5. p[k].priority \in Int /\ p[to].priority \in Int /\ Score(p, k) \in Int /\ Score(p, to) \in Int
  BY <1>2, <1>4, PoolNumbers
<1>6. \/ p[to].priority < now.priority
      \/ /\ p[to].priority = now.priority /\ now.q.valid /\ QuotaRoutingScore(p[to]).plan = now.q.plan
         /\ Score(p, to) > now.q.score + Margin
  BY <1>1
<1> HIDE DEF now
<1>7. CASE k = current
  <2>1. current # 0 /\ now.priority = p[k].priority /\ now.q.score = Score(p, k)
    BY <1>4, <1>7 DEF now, CurrentOf, Score
  <2> QED
    BY <1>2, <1>4, <1>5, <1>6, <2>1
<1>8. CASE k # current
  <2>1. p[k].priority < now.priority \/ (p[k].priority = now.priority /\ p[to].priority = now.priority)
    BY <1>2, <1>4, <1>5, <1>6
  <2>2. p[k].priority = now.priority /\ p[to].priority = now.priority =>
          now.q.valid /\ QuotaRoutingScore(p[k]).plan = now.q.plan /\ Score(p, k) > now.q.score + Margin
    BY <1>2, <1>4, <1>5, <1>6
  <2>3. k \in good
    <3>1. k \in 1..Len(p) \ {current}
      BY <1>4, <1>8
    <3>2. \/ p[k].priority < now.priority
          \/ p[k].priority = now.priority /\ now.q.valid /\ QuotaRoutingScore(p[k]).plan = now.q.plan /\ QuotaRoutingScore(p[k]).score > now.q.score + Margin
      BY <2>1, <2>2, Zenon DEF Score
    <3> QED
      BY <1>4, <3>1, <3>2, Zenon DEF Acceptable, now
  <2>4. \/ p[to].priority < p[k].priority
        \/ p[to].priority = p[k].priority /\ Score(p, to) >= Score(p, k)
    BY <1>5, <2>3 DEF IsBest
  <2> QED
    BY <1>2, <1>4, <1>5, <2>4
<1> QED
  BY <1>7, <1>8

QuotaInv ==
    /\ pool \in Seq(Candidates) /\ choice \in 0..Len(pool) /\ rounds \in Nat
    /\ rounds # 0 => Acceptable(pool, choice) = {}

LEMMA QuotaPreserved == QuotaInv /\ [QuotaNext]_quotaVars => QuotaInv'
<1> SUFFICES ASSUME QuotaInv, [QuotaNext]_quotaVars
             PROVE  QuotaInv'
  OBVIOUS
<1>1. CASE AskQuota
  <2> DEFINE good == Acceptable(pool, choice)
  <2>1. pool \in Seq(Candidates) /\ choice \in 0..Len(pool) /\ rounds \in Nat
    BY DEF QuotaInv
  <2>2. IF good = {} THEN Prefer(pool, choice) = choice
        ELSE Prefer(pool, choice) \in good /\ IsBest(pool, Prefer(pool, choice), good)
    BY <2>1, PreferMoves
  <2>3. choice' = Prefer(pool, choice) /\ pool' = pool /\ rounds' = rounds + 1
    BY <1>1 DEF AskQuota
  <2>4. \A k \in good : k \in 1..Len(pool)
    BY Zenon DEF Acceptable
  <2>5. choice' \in 0..Len(pool) /\ Acceptable(pool, choice') = {}
    <3>1. CASE good = {}
      BY <2>1, <2>2, <2>3, <3>1
    <3>2. CASE good # {}
      <4>1. choice' \in good /\ IsBest(pool, choice', good)
        BY <2>2, <2>3, <3>2
      <4> QED
        BY <2>1, <2>4, <4>1, NowhereToGo
    <3> QED
      BY <3>1, <3>2
  <2> QED
    BY <2>1, <2>3, <2>5 DEF QuotaInv
<1>2. CASE UNCHANGED quotaVars
  BY <1>2 DEF quotaVars, QuotaInv
<1> QED
  BY <1>1, <1>2 DEF QuotaNext

\* Whatever the accounts of a pool look like and in whatever order they come, a
\* key is moved exactly if there is an acceptable account, to the best of them,
\* and stays there while the quotas do not change.
THEOREM QuotaMovesAreFinal == QuotaSpec => QuotaMovesPay
<1>1. QuotaInit => QuotaInv
  <2> SUFFICES ASSUME QuotaInit
               PROVE  QuotaInv
    OBVIOUS
  <2>1. PICK n \in 1..MaxCandidates : pool \in [1..n -> Candidates]
    BY DEF QuotaInit
  <2>2. n \in Nat
    BY QuotaAssumption
  <2>3. pool \in Seq(Candidates)
    BY <2>1, <2>2
  <2> QED
    BY <2>3 DEF QuotaInit, QuotaInv
<1>2. QuotaInv /\ [QuotaNext]_quotaVars =>
        [LET good == Acceptable(pool, choice) IN
         IF good = {} THEN choice' = choice
         ELSE /\ choice' \in good
              /\ \A k \in good :
                   LET mine == QuotaRoutingScore(pool[choice']).score yours == QuotaRoutingScore(pool[k]).score IN
                   \/ pool[choice'].priority < pool[k].priority
                   \/ /\ pool[choice'].priority = pool[k].priority
                      /\ mine > yours \/ (mine = yours /\ ~Lighter(pool[k], pool[choice']))]_quotaVars
  <2> SUFFICES ASSUME QuotaInv, AskQuota
               PROVE  LET good == Acceptable(pool, choice) IN
                      IF good = {} THEN choice' = choice
                      ELSE choice' \in good /\ IsBest(pool, choice', good)
    BY Zenon DEF QuotaNext, IsBest, Score
  <2> QED
    BY PreferMoves DEF QuotaInv, AskQuota
<1>3. QuotaInv /\ [QuotaNext]_quotaVars => [rounds = 1 => choice' = choice]_quotaVars
  <2> SUFFICES ASSUME QuotaInv, AskQuota, rounds = 1
               PROVE  choice' = choice
    BY DEF QuotaNext
  <2>1. pool \in Seq(Candidates) /\ choice \in 0..Len(pool) /\ Acceptable(pool, choice) = {}
    BY DEF QuotaInv
  <2> QED
    BY <2>1, PreferMoves DEF AskQuota
<1> QED
  BY <1>1, <1>2, <1>3, QuotaPreserved, PTL DEF QuotaSpec, QuotaMovesPay, MovedToTheBest, NoOscillation
-----------------------------------------------------------------------------
(* The events of a Responses stream, read from chat chunks.  First the log *)
(* of events by itself: what of it matters to the events to come, and when *)
(* one more event leaves it sound.                                         *)

EventTypes == {"created", "in_progress", "item_added", "item_done", "part_added", "part_done", "delta", "done"} \cup Terminal
Events == [type : EventTypes, item : Int, part : Int, text : Seq(Nat)]
Once == {"item_added", "item_done", "part_added", "part_done"}

\* Among the first n events, and in all of them.
Seen(out, n, type, item, part) ==
    \E a \in 1..n : out[a].type = type /\ out[a].item = item /\ out[a].part = part
OverBy(out, n) == \E a \in 1..n : out[a].type \in Terminal
Has(out, type, item, part) == Seen(out, Len(out), type, item, part)
Over(out) == OverBy(out, Len(out))

\* What the deltas among the first n events have said of a part.
SaidBy(out, n, item, part) ==
    FlattenSeq([k \in 1..n |-> IF out[k].type = "delta" /\ out[k].item = item /\ out[k].part = part
                               THEN out[k].text ELSE <<>>])
Said(out, item, part) == SaidBy(out, Len(out), item, part)

\* Event e may follow the first n events of the log.
Follows(out, n, e) ==
    /\ ~OverBy(out, n)
    /\ e.item >= 0 => /\ ~Seen(out, n, "item_done", e.item, -1)
                      /\ e.type # "item_added" => Seen(out, n, "item_added", e.item, -1)
    /\ e.part >= 0 => /\ ~Seen(out, n, "part_done", e.item, e.part)
                      /\ e.type # "part_added" => Seen(out, n, "part_added", e.item, e.part)
    /\ e.type \in Once => ~Seen(out, n, e.type, e.item, e.part)
    /\ e.type = "done" => e.text = SaidBy(out, n, e.item, e.part)

Fits(out, e) == Follows(out, Len(out), e)
Sound(out) == \A n \in 1..Len(out) : Follows(out, n - 1, out[n])

LEMMA SaidIsText ==
    ASSUME NEW out \in Seq(Events), NEW n \in 0..Len(out), NEW item, NEW part
    PROVE  SaidBy(out, n, item, part) \in Seq(Nat)
<1> DEFINE q == [k \in 1..n |-> IF out[k].type = "delta" /\ out[k].item = item /\ out[k].part = part THEN out[k].text ELSE <<>>]
<1>1. \A k \in 1..n : out[k] \in Events
  OBVIOUS
<1>2. \A k \in 1..n : out[k].text \in Seq(Nat)
  BY <1>1 DEF Events
<1>3. q \in Seq(Seq(Nat)) /\ <<>> \in Seq(Nat)
  BY <1>2
<1> HIDE DEF q
<1>4. FlattenSeq(q) \in Seq(Nat)
  BY <1>3, FlattenAppend
<1> QED
  BY <1>4 DEF SaidBy, q

\* The log has one event more.
Grew(old, new, type, item, part, text) ==
    /\ new \in Seq(Events)
    /\ \A t, i, p : Has(new, t, i, p) <=> Has(old, t, i, p) \/ (type = t /\ item = i /\ part = p)
    /\ Over(new) <=> Over(old) \/ type \in Terminal
    /\ \A i, p : Said(new, i, p) = IF type = "delta" /\ item = i /\ part = p THEN Said(old, i, p) \o text ELSE Said(old, i, p)

\* A log with one event more.
LEMMA LogGrows ==
    ASSUME NEW out \in Seq(Events), NEW e \in Events
    PROVE  LET more == Append(out, e) IN
           /\ more \in Seq(Events) /\ Len(more) = Len(out) + 1 /\ more[Len(out) + 1] = e
           /\ \A n \in 1..Len(out) : more[n] = out[n]
           /\ \A n \in 0..Len(out) : OverBy(more, n) <=> OverBy(out, n)
           /\ \A n \in 0..Len(out) : \A type, item, part : Seen(more, n, type, item, part) <=> Seen(out, n, type, item, part)
           /\ \A n \in 0..Len(out) : \A item, part : SaidBy(more, n, item, part) = SaidBy(out, n, item, part)
           /\ Grew(out, more, e.type, e.item, e.part, e.text)
<1> DEFINE more == Append(out, e)
           N == Len(out)
<1>1. /\ more \in Seq(Events) /\ Len(more) = N + 1 /\ more[N + 1] = e /\ N \in Nat
      /\ \A n \in 1..N : more[n] = out[n]
  OBVIOUS
<1> HIDE DEF more
<1>2. \A n \in 1..(N + 1) : n \in 1..N \/ n = N + 1
  BY <1>1
<1>3. \A n \in 1..N : n \in 1..(N + 1)
  BY <1>1
<1>4. N + 1 \in 1..(N + 1)
  BY <1>1
<1>5. ASSUME NEW type, NEW item, NEW part
      PROVE  Has(more, type, item, part) <=> Has(out, type, item, part) \/ (e.type = type /\ e.item = item /\ e.part = part)
  BY <1>1, <1>2, <1>3, <1>4, Zenon DEF Has, Seen
<1>6. Over(more) <=> Over(out) \/ e.type \in Terminal
  BY <1>1, <1>2, <1>3, <1>4, Zenon DEF Over, OverBy
<1>10. ASSUME NEW n \in 0..N
       PROVE  /\ OverBy(more, n) <=> OverBy(out, n)
              /\ \A type, item, part : Seen(more, n, type, item, part) <=> Seen(out, n, type, item, part)
  <2>1. \A k \in 1..n : more[k] = out[k]
    BY <1>1
  <2> QED
    BY <2>1, Zenon DEF OverBy, Seen
<1>7. ASSUME NEW n \in 0..N, NEW item, NEW part
      PROVE  SaidBy(more, n, item, part) = SaidBy(out, n, item, part)
  <2>1. \A k \in 1..n : more[k] = out[k]
    BY <1>1
  <2> QED
    BY <2>1 DEF SaidBy
<1>8. ASSUME NEW item, NEW part
      PROVE  Said(more, item, part) = IF e.type = "delta" /\ e.item = item /\ e.part = part
                                      THEN Said(out, item, part) \o e.text ELSE Said(out, item, part)
  <2> DEFINE of(o) == [k \in 1..Len(o) |-> IF o[k].type = "delta" /\ o[k].item = item /\ o[k].part = part THEN o[k].text ELSE <<>>]
             last == IF e.type = "delta" /\ e.item = item /\ e.part = part THEN e.text ELSE <<>>
             p == of(out)
             q == of(more)
  <2>1. \A k \in 1..N : out[k] \in Events
    BY <1>1
  <2>2. p \in Seq(Seq(Nat)) /\ Len(p) = N
    <3>1. \A k \in 1..N : out[k].text \in Seq(Nat)
      BY <2>1 DEF Events
    <3>2. \A k \in 1..N : p[k] \in Seq(Nat)
      BY <3>1
    <3>3. p = [k \in 1..N |-> p[k]]
      OBVIOUS
    <3> HIDE DEF p
    <3> QED
      BY <1>1, <3>2, <3>3
  <2>3. last \in Seq(Nat)
    BY DEF Events
  <2>4. DOMAIN q = 1..(N + 1) /\ q[N + 1] = last /\ \A k \in 1..N : q[k] = p[k]
    BY <1>1, <1>3, <1>4
  <2>5. q \in Seq(Seq(Nat)) /\ Len(q) = N + 1
    <3>1. \A k \in 1..(N + 1) : q[k] \in Seq(Nat)
      <4>1. \A k \in 1..N : p[k] \in Seq(Nat)
        BY <2>2
      <4> QED
        BY <1>2, <2>3, <2>4, <4>1
    <3>2. q = [k \in 1..(N + 1) |-> q[k]]
      BY <1>1
    <3> HIDE DEF q
    <3> QED
      BY <1>1, <3>1, <3>2
  <2>6. Said(more, item, part) = FlattenSeq(q) /\ Said(out, item, part) = FlattenSeq(p)
    BY DEF Said, SaidBy
  <2> HIDE DEF p, q, last
  <2>7. q = Append(p, last)
    <3>1. Append(p, last) \in Seq(Seq(Nat)) /\ Len(Append(p, last)) = N + 1
      BY <2>2, <2>3
    <3>2. \A k \in 1..(N + 1) : q[k] = Append(p, last)[k]
      BY <1>2, <2>2, <2>3, <2>4
    <3> QED
      BY <2>5, <3>1, <3>2, SeqEqual
  <2>8. Said(more, item, part) = Said(out, item, part) \o last /\ Said(out, item, part) \in Seq(Nat)
    BY <2>2, <2>3, <2>6, <2>7, FlattenAppend
  <2> QED
    BY <2>8, ConcatEmptySeq DEF last
<1> QED
  BY <1>1, <1>5, <1>6, <1>7, <1>8, <1>10 DEF more, Grew

\* An event that fits leaves the log sound.
LEMMA SoundGrows ==
    ASSUME NEW out \in Seq(Events), NEW e \in Events, Sound(out), Fits(out, e)
    PROVE  Sound(Append(out, e))
<1> DEFINE more == Append(out, e)
           N == Len(out)
<1>1. /\ Len(more) = N + 1 /\ more[N + 1] = e /\ N \in Nat
      /\ \A n \in 1..N : more[n] = out[n]
      /\ \A n \in 0..N : OverBy(more, n) <=> OverBy(out, n)
      /\ \A n \in 0..N : \A type, item, part : Seen(more, n, type, item, part) <=> Seen(out, n, type, item, part)
      /\ \A n \in 0..N : \A item, part : SaidBy(more, n, item, part) = SaidBy(out, n, item, part)
  BY LogGrows
<1> HIDE DEF more
<1>2. ASSUME NEW n \in 0..N, NEW x
      PROVE  Follows(more, n, x) <=> Follows(out, n, x)
  BY <1>1, ZenonT(60) DEF Follows
<1>3. ASSUME NEW n \in 1..N
      PROVE  Follows(more, n - 1, more[n])
  <2>1. n - 1 \in 0..N /\ more[n] = out[n]
    BY <1>1
  <2> QED
    BY <1>2, <2>1 DEF Sound
<1>4. Follows(more, (N + 1) - 1, more[N + 1])
  BY <1>1, <1>2 DEF Fits
<1>5. \A n \in 1..(N + 1) : n \in 1..N \/ n = N + 1
  BY <1>1
<1> QED
  BY <1>1, <1>3, <1>4, <1>5 DEF Sound, more
-----------------------------------------------------------------------------
(* The state of the renderer, as the log shows it.                         *)

Messages == [index : Int, text : Seq(Nat), refusal : Seq(Nat), textIndex : Int, refusalIndex : Int, nextContent : Nat]
Calls == [index : Int, name : Nat, args : Seq(Nat), added : BOOLEAN, custom : BOOLEAN]
Reasons == {"none", "stop", "tool_calls", "length", "content_filter"}
Streams == [started : BOOLEAN, failed : BOOLEAN, finish : Reasons, nextOutput : Nat, message : Messages,
            tools : [ToolIndexes -> Calls], usage : BOOLEAN, limit : {"none", "quota"}, out : Seq(Events)]
Chunks == [kind : {"error", "usage", "empty", "text", "refusal", "tool", "finish"}, i : ToolIndexes \cup {0}, names : Nat,
           f : Nat, reason : Reasons, limit : {"none", "quota"}]

\* Nothing has been said of an item or a part.
Fresh(out, item, part) == Said(out, item, part) = <<>> /\ \A type \in Once : ~Has(out, type, item, part)

\* An item that is begun, or may be, and not done.
ItemOpen(out, item, added) ==
    (Has(out, "item_added", item, -1) <=> added) /\ ~Has(out, "item_done", item, -1)

\* A part of the message that has its text so far.
PartOpen(out, item, part, text) ==
    IF part < 0 THEN text = <<>>
    ELSE Has(out, "part_added", item, part) /\ ~Has(out, "part_done", item, part) /\ Said(out, item, part) = text

InMessage(out, m) ==
    /\ ItemOpen(out, m.index, TRUE)
    /\ PartOpen(out, m.index, m.textIndex, m.text) /\ PartOpen(out, m.index, m.refusalIndex, m.refusal)
    /\ m.textIndex < m.nextContent /\ m.refusalIndex < m.nextContent
    /\ m.textIndex >= 0 => m.textIndex # m.refusalIndex
    /\ \A part \in Nat : part >= m.nextContent => Fresh(out, m.index, part)
MessageOpen(out, m) == IF m.index < 0 THEN m = NoMessage ELSE InMessage(out, m)

CallOpen(out, t) ==
    /\ ~t.added => t.args = <<>> /\ ~t.custom
    /\ IF t.index < 0 THEN ~t.added
       ELSE ItemOpen(out, t.index, t.added) /\ Said(out, t.index, -1) = IF t.custom THEN <<>> ELSE t.args

\* The output indexes are dealt once, and in order.
Numbered(s) ==
    /\ s.message.index < s.nextOutput /\ \A i \in ToolIndexes : s.tools[i].index < s.nextOutput
    /\ \A i \in ToolIndexes : s.tools[i].index >= 0 =>
         s.tools[i].index # s.message.index /\ \A j \in ToolIndexes \ {i} : s.tools[j].index # s.tools[i].index
    /\ \A k \in 0..(s.nextOutput - 1) : s.message.index = k \/ \E i \in ToolIndexes : s.tools[i].index = k

Live(s) ==
    /\ Sound(s.out) /\ ~Over(s.out) /\ Numbered(s)
    /\ MessageOpen(s.out, s.message) /\ \A i \in ToolIndexes : CallOpen(s.out, s.tools[i])
    /\ \A item \in Nat, part \in Int : item >= s.nextOutput => Fresh(s.out, item, part)

\* When an event may be written.
Allowed(out, type, item, part, text) ==
    /\ Sound(out) /\ ~Over(out)
    /\ item >= 0 => ~Has(out, "item_done", item, -1) /\ (type # "item_added" => Has(out, "item_added", item, -1))
    /\ part >= 0 => ~Has(out, "part_done", item, part) /\ (type # "part_added" => Has(out, "part_added", item, part))
    /\ type \in Once => ~Has(out, type, item, part)
    /\ type = "done" => text = Said(out, item, part)

\* The stream n is s with one event more.
Wrote(s, n, type, item, part, text) ==
    n \in Streams /\ Sound(n.out) /\ n = [s EXCEPT !.out = n.out] /\ Grew(s.out, n.out, type, item, part, text)

\* An event is written.
LEMMA EmitsOne ==
    ASSUME NEW s \in Streams, NEW type \in EventTypes, NEW item \in Int, NEW part \in Int, NEW text \in Seq(Nat),
           Allowed(s.out, type, item, part, text)
    PROVE  Wrote(s, Emit(s, type, item, part, text), type, item, part, text)
<1> DEFINE e == [type |-> type, item |-> item, part |-> part, text |-> text]
           n == Emit(s, type, item, part, text)
<1>1. e \in Events /\ e.type = type /\ e.item = item /\ e.part = part /\ e.text = text
  BY DEF Events
<1>2. s.out \in Seq(Events)
  BY DEF Streams
<1>3. n = [s EXCEPT !.out = Append(s.out, e)]
  BY DEF Emit
<1> HIDE DEF e
<1>4. Fits(s.out, e)
  BY <1>1 DEF Fits, Follows, Has, Over, Said, Allowed
<1>5. Sound(Append(s.out, e)) /\ Append(s.out, e) \in Seq(Events)
  BY <1>1, <1>2, <1>4, SoundGrows DEF Allowed
<1>6. Grew(s.out, Append(s.out, e), type, item, part, text)
  <2>1. Grew(s.out, Append(s.out, e), e.type, e.item, e.part, e.text)
    BY <1>1, <1>2, LogGrows
  <2> QED
    BY <1>1, <2>1
<1>7. n \in Streams /\ n.out = Append(s.out, e) /\ n = [s EXCEPT !.out = n.out]
  BY <1>3, <1>5 DEF Streams
<1> QED
  BY <1>5, <1>6, <1>7 DEF Wrote

\* What an event leaves as it was.
LEMMA OthersStay ==
    ASSUME NEW old, NEW new, NEW type, NEW item, NEW part, NEW text, Grew(old, new, type, item, part, text)
    PROVE  /\ \A i, p : (i # item \/ p # part) /\ Fresh(old, i, p) => Fresh(new, i, p)
           /\ \A i, added : i # item /\ ItemOpen(old, i, added) => ItemOpen(new, i, added)
           /\ \A i, p, x : (i # item \/ p # part) /\ PartOpen(old, i, p, x) => PartOpen(new, i, p, x)
           /\ \A t : (t.index < 0 \/ t.index # item) /\ CallOpen(old, t) => CallOpen(new, t)
           /\ \A m : (m.index < 0 \/ m.index # item) /\ MessageOpen(old, m) => MessageOpen(new, m)
<1>1. /\ \A t, i, p : (i # item \/ p # part) => (Has(new, t, i, p) <=> Has(old, t, i, p))
      /\ \A i, p : (i # item \/ p # part) => Said(new, i, p) = Said(old, i, p)
  BY Zenon DEF Grew
<1>2. \A i, p : (i # item \/ p # part) /\ Fresh(old, i, p) => Fresh(new, i, p)
  BY <1>1, Zenon DEF Fresh
<1>3. \A i, added : i # item /\ ItemOpen(old, i, added) => ItemOpen(new, i, added)
  BY <1>1, Zenon DEF ItemOpen
<1>4. \A i, p, x : (i # item \/ p # part) /\ PartOpen(old, i, p, x) => PartOpen(new, i, p, x)
  BY <1>1, Zenon DEF PartOpen
<1>5. ASSUME NEW t, t.index < 0 \/ t.index # item, CallOpen(old, t)
      PROVE  CallOpen(new, t)
  BY <1>1, <1>3, <1>5, Zenon DEF CallOpen
<1>6. ASSUME NEW m, m.index < 0 \/ m.index # item, MessageOpen(old, m)
      PROVE  MessageOpen(new, m)
  BY <1>2, <1>3, <1>4, <1>6, Zenon DEF MessageOpen, InMessage
<1> QED
  BY <1>2, <1>3, <1>4, <1>5, <1>6

\* The first events are about no item.
LEMMA QuietEvent ==
    ASSUME NEW s \in Streams, Live(s), NEW type \in {"created", "in_progress"}
    PROVE  LET n == Emit(s, type, -1, -1, <<>>) IN n \in Streams /\ Live(n) /\ n = [s EXCEPT !.out = n.out]
<1> DEFINE n == Emit(s, type, -1, -1, <<>>)
<1>1. type \in EventTypes /\ type \notin Once /\ type # "done" /\ type \notin Terminal
  BY DEF EventTypes, Once, Terminal
<1>2. n \in Streams /\ Sound(n.out) /\ n = [s EXCEPT !.out = n.out] /\ Grew(s.out, n.out, type, -1, -1, <<>>)
  <2>1. -1 \in Int /\ <<>> \in Seq(Nat) /\ Allowed(s.out, type, -1, -1, <<>>)
    BY <1>1 DEF Live, Allowed
  <2>2. Wrote(s, n, type, -1, -1, <<>>)
    BY <1>1, <2>1, EmitsOne, Zenon
  <2> QED
    BY <2>2, Zenon DEF Wrote
<1> HIDE DEF n
<1>3. n.message = s.message /\ n.tools = s.tools /\ n.nextOutput = s.nextOutput
  BY <1>2 DEF Streams
<1>4. ~Over(n.out) /\ Numbered(n)
  BY <1>1, <1>2, <1>3 DEF Live, Grew, Numbered
<1>5. s.message \in Messages /\ s.message.index \in Int /\ \A i \in ToolIndexes : s.tools[i].index \in Int
  BY DEF Streams, Messages, Calls
<1>6. MessageOpen(n.out, s.message) /\ \A i \in ToolIndexes : CallOpen(n.out, s.tools[i])
  BY <1>2, <1>5, OthersStay DEF Live
<1>7. \A item \in Nat, part \in Int : item >= s.nextOutput => Fresh(n.out, item, part)
  BY <1>2, OthersStay DEF Live
<1> QED
  BY <1>2, <1>3, <1>4, <1>6, <1>7 DEF Live, n

LEMMA Started ==
    ASSUME NEW s \in Streams, Live(s)
    PROVE  LET n == StartResponse(s) IN n \in Streams /\ Live(n) /\ n = [s EXCEPT !.out = n.out, !.started = TRUE]
<1>1. CASE s.started
  <2>1. s = [s EXCEPT !.out = s.out, !.started = TRUE]
    BY <1>1 DEF Streams
  <2> QED
    BY <1>1, <2>1 DEF StartResponse
<1>2. CASE ~s.started
  <2> DEFINE a == [s EXCEPT !.started = TRUE]
             b == Emit(a, "created", -1, -1, <<>>)
             c == Emit(b, "in_progress", -1, -1, <<>>)
  <2>1. a \in Streams /\ Live(a)
    <3>1. a \in Streams /\ a.out = s.out /\ a.message = s.message /\ a.tools = s.tools /\ a.nextOutput = s.nextOutput
      BY DEF Streams
    <3> HIDE DEF a
    <3> QED
      BY <3>1 DEF Live, Numbered
  <2>2. b \in Streams /\ Live(b) /\ b = [a EXCEPT !.out = b.out]
    <3> HIDE DEF a
    <3> QED
      BY <2>1, QuietEvent
  <2>3. c \in Streams /\ Live(c) /\ c = [b EXCEPT !.out = c.out]
    <3> HIDE DEF b
    <3> QED
      BY <2>2, QuietEvent
  <2>4. StartResponse(s) = c
    BY <1>2 DEF StartResponse
  <2> HIDE DEF b, c
  <2>5. c = [s EXCEPT !.out = c.out, !.started = TRUE]
    BY <2>2, <2>3 DEF Streams
  <2> QED
    BY <2>3, <2>4, <2>5
<1> QED
  BY <1>1, <1>2

\* The message is announced with its first delta.
LEMMA MessageEnsured ==
    ASSUME NEW s \in Streams, Live(s)
    PROVE  LET n == EnsureMessage(s) IN
           n \in Streams /\ Live(n) /\ n.message.index >= 0 /\ n.tools = s.tools /\ n.finish = s.finish /\ n.failed = s.failed
<1> DEFINE n == EnsureMessage(s)
<1>1. s.message \in Messages /\ s.tools \in [ToolIndexes -> Calls] /\ s.nextOutput \in Nat
  BY DEF Streams
<1>2. CASE s.message # NoMessage
  <2>1. s.message.index >= 0
    <3>1. s.message.index < 0 => s.message = NoMessage
      BY Zenon DEF Live, MessageOpen
    <3>2. s.message.index \in Int
      BY <1>1 DEF Messages
    <3> QED
      BY <1>2, <3>1, <3>2
  <2> QED
    BY <1>2, <2>1 DEF EnsureMessage
<1>3. CASE s.message = NoMessage
  <2> DEFINE k == s.nextOutput
             m == [NoMessage EXCEPT !.index = k]
             a == [s EXCEPT !.message.index = k, !.nextOutput = @ + 1]
  <2>1. a \in Streams /\ a.message = m /\ a.nextOutput = k + 1 /\ a.tools = s.tools /\ a.out = s.out
        /\ a.finish = s.finish /\ a.failed = s.failed
    <3>1. NoMessage \in Messages /\ k \in Int
      BY <1>1, <1>3
    <3>2. m \in Messages
      BY <3>1 DEF Messages
    <3>3. a = [s EXCEPT !.message = m, !.nextOutput = k + 1]
      BY <1>3
    <3>4. k + 1 \in Nat
      BY <1>1
    <3> HIDE DEF m, a, k
    <3>5. a \in Streams
      BY <3>2, <3>3, <3>4 DEF Streams
    <3> QED
      BY <3>3, <3>5 DEF Streams
  <2>2. n = Emit(a, "item_added", k, -1, <<>>)
    BY <1>3 DEF EnsureMessage
  <2>3. m.index = k /\ m.textIndex = -1 /\ m.refusalIndex = -1 /\ m.nextContent = 0 /\ m.text = <<>> /\ m.refusal = <<>>
    BY DEF NoMessage
  <2> HIDE DEF m, a, n
  <2>4. \A part \in Int : Fresh(s.out, k, part)
    BY <1>1 DEF Live
  <2>5. ~Has(s.out, "item_added", k, -1) /\ ~Has(s.out, "item_done", k, -1)
    BY <2>4 DEF Fresh, Once
  <2>6. n \in Streams /\ Sound(n.out) /\ n = [a EXCEPT !.out = n.out] /\ Grew(s.out, n.out, "item_added", k, -1, <<>>)
    <3>1. "item_added" \in EventTypes /\ k \in Int /\ -1 \in Int /\ <<>> \in Seq(Nat)
      BY <1>1 DEF EventTypes
    <3>2. Allowed(s.out, "item_added", k, -1, <<>>)
      BY <2>5 DEF Live, Allowed
    <3>3. Wrote(a, n, "item_added", k, -1, <<>>)
      BY <2>1, <2>2, <3>1, <3>2, EmitsOne, Zenon
    <3> QED
      BY <2>1, <3>3, Zenon DEF Wrote
  <2>7. n.message = m /\ n.nextOutput = k + 1 /\ n.tools = s.tools /\ n.finish = s.finish /\ n.failed = s.failed
    BY <2>1, <2>6 DEF Streams
  <2>8. ~Over(n.out)
    BY <2>6 DEF Live, Grew, Terminal
  <2>9. MessageOpen(n.out, m)
    <3>1. ItemOpen(n.out, k, TRUE)
      BY <2>5, <2>6 DEF Grew, ItemOpen
    <3>2. \A part \in Nat : Fresh(n.out, k, part)
      <4>1. \A part \in Nat : part \in Int /\ part # -1
        OBVIOUS
      <4> QED
        BY <2>4, <2>6, <4>1, OthersStay, Zenon
    <3>3. PartOpen(n.out, k, -1, <<>>)
      BY DEF PartOpen
    <3>4. ~(m.index < 0) /\ -1 < m.nextContent /\ ~(m.textIndex >= 0)
      BY <1>1, <2>3
    <3>5. \A part \in Nat : part >= m.nextContent => Fresh(n.out, m.index, part)
      BY <2>3, <3>2
    <3> QED
      BY <2>3, <3>1, <3>3, <3>4, <3>5, Zenon DEF MessageOpen, InMessage
  <2>10. \A i \in ToolIndexes : CallOpen(n.out, s.tools[i])
    <3>1. \A i \in ToolIndexes : s.tools[i].index \in Int /\ s.tools[i].index < k /\ CallOpen(s.out, s.tools[i])
      BY <1>1 DEF Calls, Live, Numbered
    <3>2. \A i \in ToolIndexes : s.tools[i].index # k
      BY <1>1, <3>1
    <3> QED
      BY <2>6, <3>1, <3>2, OthersStay, Zenon
  <2>11. \A item \in Nat, part \in Int : item >= k + 1 => Fresh(n.out, item, part)
    <3>1. \A item \in Nat : item >= k + 1 => item >= k /\ item # k
      BY <1>1
    <3>2. \A item \in Nat, part \in Int : item >= k => Fresh(s.out, item, part)
      BY DEF Live
    <3> QED
      BY <2>6, <3>1, <3>2, OthersStay, Zenon
  <2>12. Numbered(n)
    <3>1. \A i \in ToolIndexes : s.tools[i].index \in Int
      BY <1>1 DEF Calls
    <3> QED
      BY <1>1, <1>3, <2>3, <2>7, <3>1 DEF Live, Numbered, NoMessage
  <2>13. Live(n)
    BY <2>6, <2>7, <2>8, <2>9, <2>10, <2>11, <2>12 DEF Live
  <2> QED
    BY <1>1, <2>3, <2>6, <2>7, <2>13 DEF n
<1> QED
  BY <1>2, <1>3

\* The message changes with an event about one of its parts.
MayChange(s, m, type, part, text) ==
    /\ s \in Streams /\ Live(s) /\ m \in Messages /\ m.index >= 0 /\ m.index = s.message.index
    /\ type \in {"part_added", "delta"} /\ part \in Nat /\ text \in Seq(Nat)
    /\ Allowed(s.out, type, m.index, part, text)
Changed(s, m, type, part, text) == Emit([s EXCEPT !.message = m], type, m.index, part, text)

LEMMA MessageGrows ==
    ASSUME NEW s, NEW m, NEW type, NEW part, NEW text, MayChange(s, m, type, part, text),
           Grew(s.out, Changed(s, m, type, part, text).out, type, m.index, part, text) => MessageOpen(Changed(s, m, type, part, text).out, m)
    PROVE  LET n == Changed(s, m, type, part, text) IN
           n \in Streams /\ Live(n) /\ n.message = m /\ n.tools = s.tools /\ n.finish = s.finish
<1> DEFINE n == Changed(s, m, type, part, text)
           a == [s EXCEPT !.message = m]
<1>0. /\ s \in Streams /\ Live(s) /\ m \in Messages /\ m.index >= 0 /\ m.index = s.message.index
      /\ type \in {"part_added", "delta"} /\ part \in Nat /\ text \in Seq(Nat)
      /\ Allowed(s.out, type, m.index, part, text)
      /\ Grew(s.out, n.out, type, m.index, part, text) => MessageOpen(n.out, m)
  BY DEF MayChange
<1> HIDE DEF n
<1>1. /\ a \in Streams /\ a.message = m /\ a.nextOutput = s.nextOutput /\ a.tools = s.tools
      /\ a.out = s.out /\ a.finish = s.finish
  BY <1>0 DEF Streams
<1>2. type \in EventTypes /\ m.index \in Int /\ part \in Int /\ type \notin Terminal
  BY <1>0 DEF Messages, EventTypes, Terminal
<1> HIDE DEF a
<1>3. Wrote(a, n, type, m.index, part, text)
  <2>1. n = Emit(a, type, m.index, part, text)
    BY DEF a, n, Changed
  <2> QED
    BY <1>0, <1>1, <1>2, <2>1, EmitsOne, Zenon
<1>4. n \in Streams /\ Sound(n.out) /\ n = [a EXCEPT !.out = n.out] /\ Grew(s.out, n.out, type, m.index, part, text)
  BY <1>1, <1>3, Zenon DEF Wrote
<1>5. n.message = m /\ n.nextOutput = s.nextOutput /\ n.tools = s.tools /\ n.finish = s.finish
  BY <1>1, <1>4 DEF Streams
<1>6. ~Over(n.out)
  BY <1>0, <1>2, <1>4, Zenon DEF Live, Grew
<1>7. s.tools \in [ToolIndexes -> Calls] /\ s.nextOutput \in Nat
  BY <1>0 DEF Streams
<1>8. \A i \in ToolIndexes : s.tools[i].index \in Int
  BY <1>7 DEF Calls
<1>9. Numbered(s) /\ \A i \in ToolIndexes : CallOpen(s.out, s.tools[i])
  BY <1>0 DEF Live
<1>10. Numbered(n)
  BY <1>0, <1>5, <1>9 DEF Numbered
<1>11. \A i \in ToolIndexes : CallOpen(n.out, s.tools[i])
  <2>1. \A i \in ToolIndexes : s.tools[i].index < 0 \/ s.tools[i].index # m.index
    BY <1>0, <1>8, <1>9 DEF Numbered
  <2> QED
    BY <1>4, <1>9, <2>1, OthersStay
<1>12. \A k \in Nat, p \in Int : k >= s.nextOutput => Fresh(n.out, k, p)
  <2>1. \A k \in Nat : k >= s.nextOutput => k # m.index
    BY <1>0, <1>2, <1>7, <1>9 DEF Numbered
  <2>2. \A k \in Nat, p \in Int : k >= s.nextOutput => Fresh(s.out, k, p)
    BY <1>0 DEF Live
  <2> QED
    BY <1>4, <2>1, <2>2, OthersStay, Zenon
<1> QED
  BY <1>0, <1>4, <1>5, <1>6, <1>10, <1>11, <1>12 DEF Live, n

\* A part is announced, and the other one is left alone.
TwoParts(out, index, part, x, other, y, next) ==
    /\ ItemOpen(out, index, TRUE) /\ PartOpen(out, index, part, x) /\ PartOpen(out, index, other, y)
    /\ \A p \in Nat : p >= next => Fresh(out, index, p)

LEMMA PartBegun ==
    ASSUME NEW old, NEW new, NEW index, NEW n \in Nat, NEW other \in Int, NEW text, NEW none, NEW nothing,
           TwoParts(old, index, none, nothing, other, text, n), other < n,
           Grew(old, new, "part_added", index, n, <<>>)
    PROVE  TwoParts(new, index, n, <<>>, other, text, n + 1)
<1>0. /\ ItemOpen(old, index, TRUE) /\ PartOpen(old, index, other, text)
      /\ \A part \in Nat : part >= n => Fresh(old, index, part)
  BY DEF TwoParts
<1>1. ItemOpen(new, index, TRUE)
  BY <1>0 DEF ItemOpen, Grew
<1>2. PartOpen(new, index, other, text)
  BY <1>0, OthersStay
<1>3. Fresh(old, index, n)
  BY <1>0
<1>4. Has(new, "part_added", index, n) /\ ~Has(new, "part_done", index, n) /\ Said(new, index, n) = <<>>
  BY <1>3 DEF Fresh, Once, Grew
<1>5. PartOpen(new, index, n, <<>>)
  BY <1>4 DEF PartOpen
<1>6. ASSUME NEW part \in Nat, part >= n + 1
      PROVE  Fresh(new, index, part)
  <2>1. part >= n /\ part # n
    BY <1>6
  <2> QED
    BY <1>0, <2>1, OthersStay
<1> QED
  BY <1>1, <1>2, <1>5, <1>6 DEF TwoParts

\* A part has said more, and the other one has not.
LEMMA PartSaid ==
    ASSUME NEW old, NEW new, NEW index, NEW part \in Nat, NEW x, NEW next \in Nat, part < next,
           NEW other \in Int, other # part, NEW y, NEW f,
           TwoParts(old, index, part, x, other, y, next), Grew(old, new, "delta", index, part, f)
    PROVE  TwoParts(new, index, part, x \o f, other, y, next)
<1>0. /\ ItemOpen(old, index, TRUE) /\ PartOpen(old, index, part, x) /\ PartOpen(old, index, other, y)
      /\ \A p \in Nat : p >= next => Fresh(old, index, p)
  BY DEF TwoParts
<1>1. ItemOpen(new, index, TRUE)
  BY <1>0 DEF ItemOpen, Grew
<1>2. PartOpen(new, index, other, y)
  BY <1>0, OthersStay
<1>3. PartOpen(new, index, part, x \o f)
  <2>1. Has(old, "part_added", index, part) /\ ~Has(old, "part_done", index, part) /\ Said(old, index, part) = x
    BY <1>0 DEF PartOpen
  <2>2. Has(new, "part_added", index, part) /\ ~Has(new, "part_done", index, part)
    BY <2>1 DEF Grew
  <2>3. Said(new, index, part) = x \o f
    BY <2>1, Zenon DEF Grew
  <2> QED
    BY <2>2, <2>3 DEF PartOpen
<1>4. ASSUME NEW p \in Nat, p >= next
      PROVE  Fresh(new, index, p)
  BY <1>0, <1>4, OthersStay
<1> QED
  BY <1>1, <1>2, <1>3, <1>4 DEF TwoParts

LEMMA AppendIs ==
    ASSUME NEW q, q \in Seq(Nat), NEW f, f \in Nat
    PROVE  Append(q, f) = q \o <<f>> /\ Append(q, f) \in Seq(Nat) /\ <<f>> \in Seq(Nat)
  OBVIOUS

LEMMA MessageUpdates ==
    ASSUME NEW m, m \in Messages, NEW k, k \in Int, NEW next, next \in Nat, NEW x, x \in Seq(Nat)
    PROVE  /\ [m EXCEPT !.textIndex = k, !.nextContent = next] \in Messages
           /\ [m EXCEPT !.refusalIndex = k, !.nextContent = next] \in Messages
           /\ [m EXCEPT !.text = x] \in Messages /\ [m EXCEPT !.refusal = x] \in Messages
  BY DEF Messages

\* The part of the message for a text is announced with its first delta.
LEMMA TextPart ==
    ASSUME NEW s \in Streams, Live(s), s.message.index >= 0, s.message.textIndex < 0,
           NEW k, k = s.message.nextContent
    PROVE  LET n == Emit([s EXCEPT !.message.textIndex = k, !.message.nextContent = k + 1], "part_added", s.message.index, k, <<>>) IN
           /\ n \in Streams /\ Live(n) /\ n.message.index = s.message.index /\ n.message.textIndex = k
           /\ n.tools = s.tools /\ n.finish = s.finish
<1> DEFINE old == s.message
           m == [old EXCEPT !.textIndex = k, !.nextContent = k + 1]
           n == Changed(s, m, "part_added", k, <<>>)
<1>1. /\ old \in Messages /\ old.index \in Int /\ old.textIndex \in Int /\ old.refusalIndex \in Int
      /\ k \in Nat /\ k = old.nextContent
  BY DEF Streams, Messages
<1>2. /\ ItemOpen(s.out, old.index, TRUE)
      /\ PartOpen(s.out, old.index, old.textIndex, old.text) /\ PartOpen(s.out, old.index, old.refusalIndex, old.refusal)
      /\ old.refusalIndex < k /\ \A part \in Nat : part >= k => Fresh(s.out, old.index, part)
  <2>1. MessageOpen(s.out, old) /\ ~(old.index < 0)
    BY <1>1 DEF Live
  <2>2. InMessage(s.out, old)
    BY <2>1, Zenon DEF MessageOpen
  <2> QED
    BY <1>1, <2>2, Zenon DEF InMessage
<1>3. old.text = <<>>
  BY <1>2 DEF PartOpen
<1>4. [s EXCEPT !.message.textIndex = k, !.message.nextContent = k + 1] = [s EXCEPT !.message = m]
  BY DEF Streams, Messages
<1>5. m \in Messages /\ m.index = old.index /\ m.textIndex = k /\ m.nextContent = k + 1
      /\ m.refusalIndex = old.refusalIndex /\ m.text = old.text /\ m.refusal = old.refusal
  <2> HIDE DEF old
  <2>1. k + 1 \in Nat /\ k \in Int /\ <<>> \in Seq(Nat)
    BY <1>1
  <2>2. m \in Messages
    BY <1>1, <2>1, MessageUpdates, Zenon
  <2> QED
    BY <1>1, <2>2 DEF Messages
<1> HIDE DEF m
<1>6. Allowed(s.out, "part_added", m.index, k, <<>>)
  <2>1. Fresh(s.out, old.index, k)
    BY <1>1, <1>2
  <2>2. ~Has(s.out, "part_added", old.index, k) /\ ~Has(s.out, "part_done", old.index, k)
    BY <2>1 DEF Fresh, Once
  <2> QED
    BY <1>2, <1>5, <2>2 DEF Live, Allowed, ItemOpen
<1>7. ASSUME Grew(s.out, n.out, "part_added", m.index, k, <<>>)
      PROVE  MessageOpen(n.out, m)
  <2>1. Grew(s.out, n.out, "part_added", old.index, k, <<>>) /\ TwoParts(s.out, old.index, old.textIndex, old.text, old.refusalIndex, old.refusal, k)
    BY <1>2, <1>5, <1>7 DEF TwoParts
  <2>3. TwoParts(n.out, old.index, k, <<>>, old.refusalIndex, old.refusal, k + 1)
    BY <1>1, <1>2, <2>1, PartBegun
  <2>2. ~(m.index < 0) /\ k < k + 1 /\ old.refusalIndex < k + 1 /\ k # old.refusalIndex
    BY <1>1, <1>2, <1>5
  <2> QED
    BY <1>3, <1>5, <2>2, <2>3, Zenon DEF MessageOpen, InMessage, TwoParts
<1>8. MayChange(s, m, "part_added", k, <<>>)
  BY <1>1, <1>5, <1>6 DEF MayChange
<1> HIDE DEF n
<1>9. n \in Streams /\ Live(n) /\ n.message = m /\ n.tools = s.tools /\ n.finish = s.finish
  BY <1>7, <1>8, MessageGrows DEF n
<1>10. n = Emit([s EXCEPT !.message.textIndex = k, !.message.nextContent = k + 1], "part_added", s.message.index, k, <<>>)
  BY <1>4, <1>5, Zenon DEF n, Changed
<1> QED
  BY <1>5, <1>9, <1>10

LEMMA TextWritten ==
    ASSUME NEW s \in Streams, Live(s), NEW f \in Nat
    PROVE  LET n == WriteTextDelta(s, f) IN n \in Streams /\ Live(n) /\ n.tools = s.tools /\ n.finish = s.finish
<1> DEFINE e == EnsureMessage(s)
           k == e.message.nextContent
           p == IF e.message.textIndex >= 0 THEN e
                ELSE Emit([e EXCEPT !.message.textIndex = k, !.message.nextContent = k + 1], "part_added", e.message.index, k, <<>>)
           n == WriteTextDelta(s, f)
<1>1. e \in Streams /\ Live(e) /\ e.message.index >= 0 /\ e.tools = s.tools /\ e.finish = s.finish
  BY MessageEnsured
<1>2. n = Emit([p EXCEPT !.message.text = Append(p.message.text, f)], "delta", p.message.index, p.message.textIndex, <<f>>)
  BY Zenon DEF WriteTextDelta
<1> HIDE DEF e, n
<1>3. e.message.textIndex \in Int /\ e.message.nextContent \in Nat /\ e.message.index \in Int
  BY <1>1 DEF Streams, Messages
<1>4. /\ p \in Streams /\ Live(p) /\ p.message.index >= 0 /\ p.message.textIndex >= 0
      /\ p.tools = s.tools /\ p.finish = s.finish
  <2>1. CASE e.message.textIndex >= 0
    BY <1>1, <2>1
  <2>2. CASE ~(e.message.textIndex >= 0)
    <3>1. e.message.textIndex < 0
      BY <1>3, <2>2
    <3>2. p = Emit([e EXCEPT !.message.textIndex = k, !.message.nextContent = k + 1], "part_added", e.message.index, k, <<>>)
      BY <2>2
    <3> HIDE DEF p
    <3>3. /\ p \in Streams /\ Live(p) /\ p.message.index = e.message.index /\ p.message.textIndex = k
          /\ p.tools = e.tools /\ p.finish = e.finish
      BY <1>1, <3>1, <3>2, TextPart, Zenon
    <3> QED
      BY <1>1, <1>3, <3>3
  <2> QED
    BY <2>1, <2>2
<1> HIDE DEF p
<1> DEFINE old == p.message
           m == [old EXCEPT !.text = Append(old.text, f)]
<1>5. old \in Messages /\ old.index \in Int /\ old.textIndex \in Nat /\ old.refusalIndex \in Int /\ old.nextContent \in Nat /\ old.text \in Seq(Nat)
  BY <1>4, SMTT(40) DEF Streams, Messages
<1>6. /\ ItemOpen(p.out, old.index, TRUE) /\ old.textIndex < old.nextContent /\ old.refusalIndex < old.nextContent
      /\ PartOpen(p.out, old.index, old.textIndex, old.text) /\ PartOpen(p.out, old.index, old.refusalIndex, old.refusal)
      /\ old.textIndex # old.refusalIndex /\ \A part \in Nat : part >= old.nextContent => Fresh(p.out, old.index, part)
  <2>1. MessageOpen(p.out, old) /\ ~(old.index < 0)
    BY <1>4, <1>5 DEF Live
  <2>2. InMessage(p.out, old)
    BY <2>1, Zenon DEF MessageOpen
  <2>3. old.textIndex >= 0
    BY <1>5
  <2> HIDE DEF old
  <2> QED
    BY <1>5, <2>2, <2>3 DEF InMessage
<1>7. [p EXCEPT !.message.text = Append(p.message.text, f)] = [p EXCEPT !.message = m]
  <2> DEFINE x == Append(p.message.text, f)
  <2> HIDE DEF x
  <2>1. [p EXCEPT !.message.text = x] = [p EXCEPT !.message = [p.message EXCEPT !.text = x]]
    BY <1>4 DEF Streams, Messages
  <2> QED
    BY <2>1 DEF x
<1>8. Append(old.text, f) = old.text \o <<f>> /\ Append(old.text, f) \in Seq(Nat) /\ <<f>> \in Seq(Nat)
  <2> HIDE DEF old
  <2>1. old.text \in Seq(Nat)
    BY <1>5
  <2> QED
    BY <2>1, AppendIs, Zenon
<1>9. m \in Messages /\ m.index = old.index /\ m.textIndex = old.textIndex /\ m.nextContent = old.nextContent
      /\ m.refusalIndex = old.refusalIndex /\ m.text = old.text \o <<f>> /\ m.refusal = old.refusal
  BY <1>5, <1>8 DEF Messages
<1> HIDE DEF m
<1>10. Allowed(p.out, "delta", m.index, m.textIndex, <<f>>)
  <2>1. /\ Has(p.out, "item_added", old.index, -1) /\ ~Has(p.out, "item_done", old.index, -1)
        /\ Has(p.out, "part_added", old.index, old.textIndex) /\ ~Has(p.out, "part_done", old.index, old.textIndex)
    BY <1>5, <1>6 DEF ItemOpen, PartOpen
  <2>2. Sound(p.out) /\ ~Over(p.out)
    BY <1>4 DEF Live
  <2> QED
    BY <1>9, <2>1, <2>2 DEF Allowed, Once
<1>11. ASSUME Grew(p.out, n.out, "delta", m.index, m.textIndex, <<f>>)
       PROVE  MessageOpen(n.out, m)
  <2>1. Grew(p.out, n.out, "delta", old.index, old.textIndex, <<f>>)
    BY <1>9, <1>11
  <2>4. TwoParts(p.out, old.index, old.textIndex, old.text, old.refusalIndex, old.refusal, old.nextContent)
    BY <1>6, Zenon DEF TwoParts
  <2>2. TwoParts(n.out, old.index, old.textIndex, old.text \o <<f>>, old.refusalIndex, old.refusal, old.nextContent)
    BY <1>5, <1>6, <2>1, <2>4, PartSaid
  <2>3. ~(m.index < 0)
    BY <1>4, <1>5, <1>9
  <2> QED
    BY <1>6, <1>9, <2>2, <2>3, Zenon DEF MessageOpen, InMessage, TwoParts
<1>12. n = Changed(p, m, "delta", m.textIndex, <<f>>)
  BY <1>2, <1>7, <1>9, Zenon DEF Changed
<1>13. MayChange(p, m, "delta", m.textIndex, <<f>>)
  BY <1>4, <1>5, <1>8, <1>9, <1>10 DEF MayChange
<1>14. n \in Streams /\ Live(n) /\ n.message = m /\ n.tools = p.tools /\ n.finish = p.finish
  BY <1>11, <1>12, <1>13, MessageGrows
<1> QED
  BY <1>4, <1>14 DEF n

\* The part of the message for a refusal is announced with its first delta.
LEMMA RefusalPart ==
    ASSUME NEW s \in Streams, Live(s), s.message.index >= 0, s.message.refusalIndex < 0,
           NEW k, k = s.message.nextContent
    PROVE  LET n == Emit([s EXCEPT !.message.refusalIndex = k, !.message.nextContent = k + 1], "part_added", s.message.index, k, <<>>) IN
           /\ n \in Streams /\ Live(n) /\ n.message.index = s.message.index /\ n.message.refusalIndex = k
           /\ n.tools = s.tools /\ n.finish = s.finish
<1> DEFINE old == s.message
           m == [old EXCEPT !.refusalIndex = k, !.nextContent = k + 1]
           n == Changed(s, m, "part_added", k, <<>>)
<1>1. /\ old \in Messages /\ old.index \in Int /\ old.refusalIndex \in Int /\ old.textIndex \in Int
      /\ k \in Nat /\ k = old.nextContent
  BY DEF Streams, Messages
<1>2. /\ ItemOpen(s.out, old.index, TRUE)
      /\ PartOpen(s.out, old.index, old.refusalIndex, old.refusal) /\ PartOpen(s.out, old.index, old.textIndex, old.text)
      /\ old.textIndex < k /\ \A part \in Nat : part >= k => Fresh(s.out, old.index, part)
  <2>1. MessageOpen(s.out, old) /\ ~(old.index < 0)
    BY <1>1 DEF Live
  <2>2. InMessage(s.out, old)
    BY <2>1, Zenon DEF MessageOpen
  <2> QED
    BY <1>1, <2>2, Zenon DEF InMessage
<1>3. old.refusal = <<>>
  BY <1>2 DEF PartOpen
<1>4. [s EXCEPT !.message.refusalIndex = k, !.message.nextContent = k + 1] = [s EXCEPT !.message = m]
  BY DEF Streams, Messages
<1>5. m \in Messages /\ m.index = old.index /\ m.refusalIndex = k /\ m.nextContent = k + 1
      /\ m.textIndex = old.textIndex /\ m.refusal = old.refusal /\ m.text = old.text
  <2> HIDE DEF old
  <2>1. k + 1 \in Nat /\ k \in Int /\ <<>> \in Seq(Nat)
    BY <1>1
  <2>2. m \in Messages
    BY <1>1, <2>1, MessageUpdates, Zenon
  <2> QED
    BY <1>1, <2>2 DEF Messages
<1> HIDE DEF m
<1>6. Allowed(s.out, "part_added", m.index, k, <<>>)
  <2>1. Fresh(s.out, old.index, k)
    BY <1>1, <1>2
  <2>2. ~Has(s.out, "part_added", old.index, k) /\ ~Has(s.out, "part_done", old.index, k)
    BY <2>1 DEF Fresh, Once
  <2> QED
    BY <1>2, <1>5, <2>2 DEF Live, Allowed, ItemOpen
<1>7. ASSUME Grew(s.out, n.out, "part_added", m.index, k, <<>>)
      PROVE  MessageOpen(n.out, m)
  <2>1. Grew(s.out, n.out, "part_added", old.index, k, <<>>) /\ TwoParts(s.out, old.index, old.refusalIndex, old.refusal, old.textIndex, old.text, k)
    BY <1>2, <1>5, <1>7 DEF TwoParts
  <2>3. TwoParts(n.out, old.index, k, <<>>, old.textIndex, old.text, k + 1)
    BY <1>1, <1>2, <2>1, PartBegun
  <2>2. ~(m.index < 0) /\ k < k + 1 /\ old.textIndex < k + 1 /\ k # old.textIndex
    BY <1>1, <1>2, <1>5
  <2> QED
    BY <1>3, <1>5, <2>2, <2>3, Zenon DEF MessageOpen, InMessage, TwoParts
<1>8. MayChange(s, m, "part_added", k, <<>>)
  BY <1>1, <1>5, <1>6 DEF MayChange
<1> HIDE DEF n
<1>9. n \in Streams /\ Live(n) /\ n.message = m /\ n.tools = s.tools /\ n.finish = s.finish
  BY <1>7, <1>8, MessageGrows DEF n
<1>10. n = Emit([s EXCEPT !.message.refusalIndex = k, !.message.nextContent = k + 1], "part_added", s.message.index, k, <<>>)
  BY <1>4, <1>5, Zenon DEF n, Changed
<1> QED
  BY <1>5, <1>9, <1>10

LEMMA RefusalWritten ==
    ASSUME NEW s \in Streams, Live(s), NEW f \in Nat
    PROVE  LET n == WriteRefusalDelta(s, f) IN n \in Streams /\ Live(n) /\ n.tools = s.tools /\ n.finish = s.finish
<1> DEFINE e == EnsureMessage(s)
           k == e.message.nextContent
           p == IF e.message.refusalIndex >= 0 THEN e
                ELSE Emit([e EXCEPT !.message.refusalIndex = k, !.message.nextContent = k + 1], "part_added", e.message.index, k, <<>>)
           n == WriteRefusalDelta(s, f)
<1>1. e \in Streams /\ Live(e) /\ e.message.index >= 0 /\ e.tools = s.tools /\ e.finish = s.finish
  BY MessageEnsured
<1>2. n = Emit([p EXCEPT !.message.refusal = Append(p.message.refusal, f)], "delta", p.message.index, p.message.refusalIndex, <<f>>)
  BY Zenon DEF WriteRefusalDelta
<1> HIDE DEF e, n
<1>3. e.message.refusalIndex \in Int /\ e.message.nextContent \in Nat /\ e.message.index \in Int
  BY <1>1 DEF Streams, Messages
<1>4. /\ p \in Streams /\ Live(p) /\ p.message.index >= 0 /\ p.message.refusalIndex >= 0
      /\ p.tools = s.tools /\ p.finish = s.finish
  <2>1. CASE e.message.refusalIndex >= 0
    BY <1>1, <2>1
  <2>2. CASE ~(e.message.refusalIndex >= 0)
    <3>1. e.message.refusalIndex < 0
      BY <1>3, <2>2
    <3>2. p = Emit([e EXCEPT !.message.refusalIndex = k, !.message.nextContent = k + 1], "part_added", e.message.index, k, <<>>)
      BY <2>2
    <3> HIDE DEF p
    <3>3. /\ p \in Streams /\ Live(p) /\ p.message.index = e.message.index /\ p.message.refusalIndex = k
          /\ p.tools = e.tools /\ p.finish = e.finish
      BY <1>1, <3>1, <3>2, RefusalPart, Zenon
    <3> QED
      BY <1>1, <1>3, <3>3
  <2> QED
    BY <2>1, <2>2
<1> HIDE DEF p
<1> DEFINE old == p.message
           m == [old EXCEPT !.refusal = Append(old.refusal, f)]
<1>5. old \in Messages /\ old.index \in Int /\ old.refusalIndex \in Nat /\ old.textIndex \in Int /\ old.nextContent \in Nat /\ old.refusal \in Seq(Nat)
  BY <1>4, SMTT(40) DEF Streams, Messages
<1>6. /\ ItemOpen(p.out, old.index, TRUE) /\ old.refusalIndex < old.nextContent /\ old.textIndex < old.nextContent
      /\ PartOpen(p.out, old.index, old.refusalIndex, old.refusal) /\ PartOpen(p.out, old.index, old.textIndex, old.text)
      /\ old.refusalIndex # old.textIndex /\ \A part \in Nat : part >= old.nextContent => Fresh(p.out, old.index, part)
  <2>1. MessageOpen(p.out, old) /\ ~(old.index < 0)
    BY <1>4, <1>5 DEF Live
  <2>2. InMessage(p.out, old)
    BY <2>1, Zenon DEF MessageOpen
  <2>3. old.refusalIndex >= 0
    BY <1>5
  <2> HIDE DEF old
  <2> QED
    BY <1>5, <2>2, <2>3 DEF InMessage
<1>7. [p EXCEPT !.message.refusal = Append(p.message.refusal, f)] = [p EXCEPT !.message = m]
  <2> DEFINE x == Append(p.message.refusal, f)
  <2> HIDE DEF x
  <2>1. [p EXCEPT !.message.refusal = x] = [p EXCEPT !.message = [p.message EXCEPT !.refusal = x]]
    BY <1>4 DEF Streams, Messages
  <2> QED
    BY <2>1 DEF x
<1>8. Append(old.refusal, f) = old.refusal \o <<f>> /\ Append(old.refusal, f) \in Seq(Nat) /\ <<f>> \in Seq(Nat)
  <2> HIDE DEF old
  <2>1. old.refusal \in Seq(Nat)
    BY <1>5
  <2> QED
    BY <2>1, AppendIs, Zenon
<1>9. m \in Messages /\ m.index = old.index /\ m.refusalIndex = old.refusalIndex /\ m.nextContent = old.nextContent
      /\ m.textIndex = old.textIndex /\ m.refusal = old.refusal \o <<f>> /\ m.text = old.text
  BY <1>5, <1>8 DEF Messages
<1> HIDE DEF m
<1>10. Allowed(p.out, "delta", m.index, m.refusalIndex, <<f>>)
  <2>1. /\ Has(p.out, "item_added", old.index, -1) /\ ~Has(p.out, "item_done", old.index, -1)
        /\ Has(p.out, "part_added", old.index, old.refusalIndex) /\ ~Has(p.out, "part_done", old.index, old.refusalIndex)
    BY <1>5, <1>6 DEF ItemOpen, PartOpen
  <2>2. Sound(p.out) /\ ~Over(p.out)
    BY <1>4 DEF Live
  <2> QED
    BY <1>9, <2>1, <2>2 DEF Allowed, Once
<1>11. ASSUME Grew(p.out, n.out, "delta", m.index, m.refusalIndex, <<f>>)
       PROVE  MessageOpen(n.out, m)
  <2>1. Grew(p.out, n.out, "delta", old.index, old.refusalIndex, <<f>>)
    BY <1>9, <1>11
  <2>4. TwoParts(p.out, old.index, old.refusalIndex, old.refusal, old.textIndex, old.text, old.nextContent)
    BY <1>6, Zenon DEF TwoParts
  <2>2. TwoParts(n.out, old.index, old.refusalIndex, old.refusal \o <<f>>, old.textIndex, old.text, old.nextContent)
    BY <1>5, <1>6, <2>1, <2>4, PartSaid
  <2>3. ~(m.index < 0)
    BY <1>4, <1>5, <1>9
  <2> QED
    BY <1>6, <1>9, <2>2, <2>3, Zenon DEF MessageOpen, InMessage, TwoParts
<1>12. n = Changed(p, m, "delta", m.refusalIndex, <<f>>)
  BY <1>2, <1>7, <1>9, Zenon DEF Changed
<1>13. MayChange(p, m, "delta", m.refusalIndex, <<f>>)
  BY <1>4, <1>5, <1>8, <1>9, <1>10 DEF MayChange
<1>14. n \in Streams /\ Live(n) /\ n.message = m /\ n.tools = p.tools /\ n.finish = p.finish
  BY <1>11, <1>12, <1>13, MessageGrows
<1> QED
  BY <1>4, <1>14 DEF n

\* A call changes with an event about it.
CallMayChange(s, i, t, type, text) ==
    /\ s \in Streams /\ i \in ToolIndexes /\ t \in Calls /\ t.index >= 0 /\ t.index = s.tools[i].index
    /\ type \in {"item_added", "delta"} /\ text \in Seq(Nat) /\ Allowed(s.out, type, t.index, -1, text)
CallChanged(s, i, t, type, text) == Emit([s EXCEPT !.tools[i] = t], type, t.index, -1, text)

\* What the change of one call leaves of the others.
LEMMA CallsKept ==
    ASSUME NEW s \in Streams, NEW i \in ToolIndexes, NEW t \in Calls
    PROVE  LET a == [s EXCEPT !.tools[i] = t] IN
           /\ a \in Streams /\ a.message = s.message /\ a.nextOutput = s.nextOutput /\ a.out = s.out /\ a.finish = s.finish
           /\ a.tools[i] = t /\ (\A j \in ToolIndexes \ {i} : a.tools[j] = s.tools[j])
           /\ t.index = s.tools[i].index /\ Numbered(s) => Numbered(a)
<1> DEFINE a == [s EXCEPT !.tools[i] = t]
<1>1. s.tools \in [ToolIndexes -> Calls]
  BY DEF Streams
<1>2. a = [s EXCEPT !.tools = [s.tools EXCEPT ![i] = t]]
  BY DEF Streams
<1>3. /\ a \in Streams /\ a.message = s.message /\ a.nextOutput = s.nextOutput /\ a.out = s.out /\ a.finish = s.finish
      /\ a.tools = [s.tools EXCEPT ![i] = t]
  BY <1>1, <1>2 DEF Streams
<1> HIDE DEF a
<1>4. a.tools[i] = t /\ (\A j \in ToolIndexes \ {i} : a.tools[j] = s.tools[j])
  BY <1>1, <1>3
<1>5. ASSUME t.index = s.tools[i].index, Numbered(s)
      PROVE  Numbered(a)
  <2>1. \A j \in ToolIndexes : a.tools[j].index = s.tools[j].index
    BY <1>4, <1>5
  <2> QED
    BY <1>3, <1>5, <2>1 DEF Numbered
<1> QED
  BY <1>3, <1>4, <1>5 DEF a

\* What is written about one item leaves the events and the calls of others.
Beside(old, new, item) ==
    /\ \A type, i, p : Has(old, type, i, p) => Has(new, type, i, p)
    /\ \A t : (t.index < 0 \/ t.index # item) /\ CallOpen(old, t) => CallOpen(new, t)

LEMMA BesideEvent ==
    ASSUME NEW old, NEW new, NEW type, NEW item, NEW part, NEW text, Grew(old, new, type, item, part, text)
    PROVE  Beside(old, new, item)
<1>1. \A t, i, p : Has(old, t, i, p) => Has(new, t, i, p)
  BY Zenon DEF Grew
<1>2. \A t : (t.index < 0 \/ t.index # item) /\ CallOpen(old, t) => CallOpen(new, t)
  BY OthersStay
<1> QED
  BY <1>1, <1>2, Zenon DEF Beside

\* What a step of the writer keeps when it writes about one item.
Besides(s, n, item) ==
    /\ n \in Streams /\ Sound(n.out) /\ ~Over(n.out) /\ Beside(s.out, n.out, item)
    /\ n.message = s.message /\ n.nextOutput = s.nextOutput /\ n.finish = s.finish
    /\ \A j \in ToolIndexes : n.tools[j].index = s.tools[j].index

LEMMA BesidesTwice ==
    ASSUME NEW a, NEW b, NEW c, NEW item, Besides(a, b, item), Besides(b, c, item)
    PROVE  Besides(a, c, item)
<1>1. Beside(a.out, c.out, item)
  BY Zenon DEF Besides, Beside
<1> QED
  BY <1>1 DEF Besides

LEMMA CallGrows ==
    ASSUME NEW s, NEW i, NEW t, NEW type, NEW text, CallMayChange(s, i, t, type, text),
           Grew(s.out, CallChanged(s, i, t, type, text).out, type, t.index, -1, text) => CallOpen(CallChanged(s, i, t, type, text).out, t)
    PROVE  LET n == CallChanged(s, i, t, type, text) IN
           /\ Besides(s, n, t.index) /\ CallOpen(n.out, t) /\ (Live(s) => Live(n))
           /\ n.tools[i] = t /\ (\A j \in ToolIndexes \ {i} : n.tools[j] = s.tools[j])
<1> DEFINE n == CallChanged(s, i, t, type, text)
           a == [s EXCEPT !.tools[i] = t]
<1>0. /\ s \in Streams /\ i \in ToolIndexes /\ t \in Calls /\ t.index >= 0 /\ t.index = s.tools[i].index
      /\ type \in {"item_added", "delta"} /\ text \in Seq(Nat) /\ Allowed(s.out, type, t.index, -1, text)
      /\ Grew(s.out, n.out, type, t.index, -1, text) => CallOpen(n.out, t)
  BY DEF CallMayChange
<1> HIDE DEF n
<1>1. /\ a \in Streams /\ a.message = s.message /\ a.nextOutput = s.nextOutput /\ a.out = s.out /\ a.finish = s.finish
      /\ a.tools[i] = t /\ (\A j \in ToolIndexes \ {i} : a.tools[j] = s.tools[j])
      /\ t.index = s.tools[i].index /\ Numbered(s) => Numbered(a)
  BY <1>0, CallsKept
<1>2. type \in EventTypes /\ t.index \in Int /\ -1 \in Int /\ type \notin Terminal
  BY <1>0 DEF Calls, EventTypes, Terminal
<1> HIDE DEF a
<1>3. Wrote(a, n, type, t.index, -1, text)
  <2>1. n = Emit(a, type, t.index, -1, text)
    BY DEF a, n, CallChanged
  <2> QED
    BY <1>0, <1>1, <1>2, <2>1, EmitsOne, Zenon
<1>4. n \in Streams /\ Sound(n.out) /\ n = [a EXCEPT !.out = n.out] /\ Grew(s.out, n.out, type, t.index, -1, text)
  BY <1>1, <1>3, Zenon DEF Wrote
<1>5. n.message = s.message /\ n.nextOutput = s.nextOutput /\ n.tools = a.tools /\ n.finish = s.finish
  BY <1>1, <1>4 DEF Streams
<1>6. ~Over(n.out)
  BY <1>0, <1>2, <1>4, Zenon DEF Allowed, Grew
<1>7. s.nextOutput \in Nat /\ s.message.index \in Int /\ \A j \in ToolIndexes : s.tools[j].index \in Int
  BY <1>0 DEF Streams, Messages, Calls
<1>8. Besides(s, n, t.index)
  <2>1. Beside(s.out, n.out, t.index)
    BY <1>4, BesideEvent, Zenon
  <2>2. \A j \in ToolIndexes : n.tools[j].index = s.tools[j].index
    BY <1>0, <1>1, <1>5
  <2> QED
    BY <1>4, <1>5, <1>6, <2>1, <2>2 DEF Besides
<1>9. ASSUME Live(s)
      PROVE  Live(n)
  <2>1. Numbered(s) /\ MessageOpen(s.out, s.message) /\ \A j \in ToolIndexes : CallOpen(s.out, s.tools[j])
    BY <1>9 DEF Live
  <2>2. Numbered(n)
    BY <1>0, <1>1, <1>5, <2>1 DEF Numbered
  <2>3. MessageOpen(n.out, s.message)
    <3>1. s.message.index # t.index
      BY <1>0, <2>1 DEF Numbered
    <3> QED
      BY <1>4, <2>1, <3>1, OthersStay
  <2>4. ASSUME NEW j \in ToolIndexes \ {i}
        PROVE  CallOpen(n.out, s.tools[j])
    <3>1. s.tools[j].index # t.index
      BY <1>0, <2>1 DEF Numbered
    <3> QED
      BY <1>4, <2>1, <3>1, OthersStay
  <2>5. \A k \in Nat, p \in Int : k >= s.nextOutput => Fresh(n.out, k, p)
    <3>1. \A k \in Nat : k >= s.nextOutput => k # t.index
      BY <1>0, <1>7, <2>1 DEF Numbered
    <3>2. \A k \in Nat, p \in Int : k >= s.nextOutput => Fresh(s.out, k, p)
      BY <1>9 DEF Live
    <3> QED
      BY <1>4, <3>1, <3>2, OthersStay, Zenon
  <2>6. \A j \in ToolIndexes : CallOpen(n.out, n.tools[j])
    BY <1>0, <1>1, <1>4, <1>5, <2>4
  <2> QED
    BY <1>4, <1>5, <1>6, <2>2, <2>3, <2>5, <2>6, Zenon DEF Live
<1> QED
  BY <1>0, <1>1, <1>4, <1>5, <1>8, <1>9 DEF n

\* A call changes and nothing is written.
LEMMA CallNoted ==
    ASSUME NEW s \in Streams, Live(s), NEW i \in ToolIndexes, NEW t \in Calls, t.index = s.tools[i].index, CallOpen(s.out, t)
    PROVE  LET n == [s EXCEPT !.tools[i] = t] IN
           /\ n \in Streams /\ Live(n) /\ n.finish = s.finish
           /\ n.tools[i] = t /\ (\A j \in ToolIndexes \ {i} : n.tools[j] = s.tools[j])
<1> DEFINE n == [s EXCEPT !.tools[i] = t]
<1>1. /\ n \in Streams /\ n.message = s.message /\ n.nextOutput = s.nextOutput /\ n.out = s.out /\ n.finish = s.finish
      /\ n.tools[i] = t /\ (\A j \in ToolIndexes \ {i} : n.tools[j] = s.tools[j])
      /\ t.index = s.tools[i].index /\ Numbered(s) => Numbered(n)
  BY CallsKept
<1> HIDE DEF n
<1>2. \A j \in ToolIndexes : CallOpen(n.out, n.tools[j])
  BY <1>1 DEF Live
<1>3. Live(n)
  BY <1>1, <1>2 DEF Live
<1> QED
  BY <1>1, <1>3 DEF n

\* A call takes the next output index.
LEMMA CallNumbered ==
    ASSUME NEW s \in Streams, Live(s), NEW i \in ToolIndexes, s.tools[i].index < 0
    PROVE  LET n == [s EXCEPT !.tools[i].index = s.nextOutput, !.nextOutput = @ + 1] IN
           /\ n \in Streams /\ Live(n) /\ n.finish = s.finish /\ n.tools[i].index >= 0
           /\ \A j \in ToolIndexes \ {i} : n.tools[j] = s.tools[j]
<1> DEFINE n == [s EXCEPT !.tools[i].index = s.nextOutput, !.nextOutput = @ + 1]
           old == s.tools[i]
           k == s.nextOutput
           t == [old EXCEPT !.index = k]
           a == [s EXCEPT !.tools[i] = t]
<1>1. /\ k \in Nat /\ old \in Calls /\ s.message.index \in Int /\ \A j \in ToolIndexes : s.tools[j].index \in Int
  BY DEF Streams, Messages, Calls
<1>2. k \in Int /\ k + 1 \in Nat
  BY <1>1
<1>3. t \in Calls /\ t.index = k /\ t.args = old.args /\ t.added = old.added /\ t.custom = old.custom
  <2> HIDE DEF old, k
  <2> QED
    BY <1>1, <1>2 DEF Calls
<1>4. n = [a EXCEPT !.nextOutput = k + 1]
  BY DEF Streams, Calls
<1> HIDE DEF t
<1>5. /\ a \in Streams /\ a.message = s.message /\ a.nextOutput = s.nextOutput /\ a.out = s.out /\ a.finish = s.finish
      /\ a.tools[i] = t /\ (\A j \in ToolIndexes \ {i} : a.tools[j] = s.tools[j])
  BY <1>3, CallsKept
<1> HIDE DEF a
<1>6. /\ n \in Streams /\ n.message = s.message /\ n.nextOutput = k + 1 /\ n.out = s.out /\ n.finish = s.finish /\ n.tools = a.tools
  BY <1>2, <1>4, <1>5 DEF Streams
<1> HIDE DEF n
<1>7. Fresh(s.out, k, -1)
  BY <1>1 DEF Live
<1>8. CallOpen(s.out, t)
  <2>1. CallOpen(s.out, old)
    BY DEF Live
  <2>2. ~old.added /\ old.args = <<>> /\ ~old.custom
    BY <2>1, Zenon DEF CallOpen
  <2>3. ~Has(s.out, "item_added", k, -1) /\ ~Has(s.out, "item_done", k, -1) /\ Said(s.out, k, -1) = <<>>
    BY <1>7 DEF Fresh, Once
  <2>4. ItemOpen(s.out, k, FALSE) /\ ~(k < 0)
    BY <1>1, <2>3 DEF ItemOpen
  <2> QED
    BY <1>3, <2>2, <2>3, <2>4, Zenon DEF CallOpen, ItemOpen
<1>9. \A j \in ToolIndexes : CallOpen(n.out, n.tools[j])
  BY <1>5, <1>6, <1>8 DEF Live
<1>10. Numbered(n)
  <2>1. Numbered(s) /\ n.tools[i].index = k /\ \A j \in ToolIndexes \ {i} : n.tools[j].index = s.tools[j].index
    BY <1>3, <1>5, <1>6 DEF Live
  <2> HIDE DEF k
  <2>2. k = s.nextOutput /\ k < k + 1 /\ s.message.index < k /\ \A j \in ToolIndexes : s.tools[j].index < k
    BY <1>1, <2>1 DEF Numbered, k
  <2>3. n.message.index < n.nextOutput /\ \A j \in ToolIndexes : n.tools[j].index < n.nextOutput
    BY <1>1, <1>6, <2>1, <2>2
  <2>4. ASSUME NEW j \in ToolIndexes, n.tools[j].index >= 0
        PROVE  n.tools[j].index # n.message.index /\ \A l \in ToolIndexes \ {j} : n.tools[l].index # n.tools[j].index
    <3>1. CASE j = i
      BY <1>1, <1>6, <2>1, <2>2, <3>1
    <3>2. CASE j # i
      <4>1. n.tools[j].index = s.tools[j].index /\ s.tools[j].index >= 0 /\ s.tools[j].index < k
        BY <2>1, <2>2, <2>4, <3>2
      <4>2. s.tools[j].index # s.message.index /\ \A l \in ToolIndexes \ {j} : s.tools[l].index # s.tools[j].index
        BY <2>1, <4>1 DEF Numbered
      <4> QED
        BY <1>1, <1>6, <2>1, <4>1, <4>2
    <3> QED
      BY <3>1, <3>2
  <2>5. ASSUME NEW x \in 0..(n.nextOutput - 1)
        PROVE  n.message.index = x \/ \E j \in ToolIndexes : n.tools[j].index = x
    <3>1. x \in 0..(k - 1) \/ x = k
      BY <1>1, <1>6
    <3>2. CASE x = k
      BY <2>1, <3>2
    <3>3. CASE x \in 0..(k - 1)
      <4>1. s.message.index = x \/ \E j \in ToolIndexes : s.tools[j].index = x
        BY <2>1, <2>2, <3>3 DEF Numbered
      <4>2. s.tools[i].index # x
        BY <1>1, <3>3
      <4> QED
        BY <1>6, <2>1, <4>1, <4>2
    <3> QED
      BY <3>1, <3>2, <3>3
  <2> QED
    BY <2>3, <2>4, <2>5 DEF Numbered
<1>11. \A item \in Nat, part \in Int : item >= k + 1 => Fresh(n.out, item, part)
  <2>1. \A item \in Nat : item >= k + 1 => item >= k
    BY <1>1
  <2> QED
    BY <1>6, <2>1 DEF Live
<1>12. Live(n)
  BY <1>6, <1>9, <1>10, <1>11 DEF Live
<1>13. n.tools[i].index >= 0 /\ \A j \in ToolIndexes \ {i} : n.tools[j] = s.tools[j]
  BY <1>1, <1>3, <1>5, <1>6
<1> QED
  BY <1>6, <1>12, <1>13, Zenon DEF n

\* A call is announced.
LEMMA CallAdded ==
    ASSUME NEW s \in Streams, Sound(s.out), ~Over(s.out),
           NEW i \in ToolIndexes, s.tools[i].index >= 0, CallOpen(s.out, s.tools[i])
    PROVE  LET n == AddTool(s, i) IN
           /\ Besides(s, n, s.tools[i].index) /\ CallOpen(n.out, n.tools[i]) /\ (Live(s) => Live(n))
           /\ n.tools[i].added /\ (\A j \in ToolIndexes \ {i} : n.tools[j] = s.tools[j])
<1> DEFINE old == s.tools[i]
           n == AddTool(s, i)
<1>1. CASE old.added
  <2>1. Besides(s, s, s.tools[i].index)
    BY DEF Besides, Beside
  <2> QED
    BY <1>1, <2>1, Zenon DEF AddTool
<1>2. CASE ~old.added
  <2> DEFINE custom == i \in CustomTools /\ old.name = NameParts
             t == [old EXCEPT !.added = TRUE, !.custom = custom]
  <2>1. n = Emit([s EXCEPT !.tools[i].added = TRUE, !.tools[i].custom = custom], "item_added", old.index, -1, <<>>)
    BY <1>2, Zenon DEF AddTool
  <2>2. custom \in BOOLEAN
    OBVIOUS
  <2> HIDE DEF custom
  <2>3. old \in Calls /\ old.index \in Int
    BY DEF Streams, Calls
  <2>4. t \in Calls /\ t.index = old.index /\ t.args = old.args /\ t.added = TRUE
    <3> HIDE DEF old
    <3> QED
      BY <2>2, <2>3 DEF Calls
  <2>5. [s EXCEPT !.tools[i].added = TRUE, !.tools[i].custom = custom] = [s EXCEPT !.tools[i] = t]
    BY DEF Streams, Calls
  <2> HIDE DEF t, n
  <2>6. CallOpen(s.out, old) /\ ~(old.index < 0)
    BY <2>3
  <2>7. old.args = <<>> /\ ~old.custom /\ ItemOpen(s.out, old.index, old.added)
        /\ Said(s.out, old.index, -1) = IF old.custom THEN <<>> ELSE old.args
    BY <1>2, <2>6, Zenon DEF CallOpen
  <2>8. ~Has(s.out, "item_added", old.index, -1) /\ ~Has(s.out, "item_done", old.index, -1) /\ Said(s.out, old.index, -1) = <<>>
    BY <1>2, <2>7, Zenon DEF ItemOpen
  <2>9. CallMayChange(s, i, t, "item_added", <<>>)
    <3>1. Allowed(s.out, "item_added", t.index, -1, <<>>)
      BY <2>4, <2>8 DEF Allowed
    <3> QED
      BY <2>4, <3>1 DEF CallMayChange
  <2>10. n = CallChanged(s, i, t, "item_added", <<>>)
    BY <2>1, <2>4, <2>5, Zenon DEF CallChanged
  <2>11. ASSUME Grew(s.out, n.out, "item_added", t.index, -1, <<>>)
         PROVE  CallOpen(n.out, t)
    <3>1. Has(n.out, "item_added", t.index, -1) /\ ~Has(n.out, "item_done", t.index, -1) /\ Said(n.out, t.index, -1) = <<>>
      BY <2>4, <2>8, <2>11 DEF Grew
    <3>2. ItemOpen(n.out, t.index, TRUE)
      BY <3>1, Zenon DEF ItemOpen
    <3>3. ~(t.index < 0)
      BY <2>4, <2>6
    <3> QED
      BY <2>4, <2>7, <3>1, <3>2, <3>3, Zenon DEF CallOpen
  <2>12. /\ Besides(s, n, t.index) /\ CallOpen(n.out, t) /\ (Live(s) => Live(n))
         /\ n.tools[i] = t /\ (\A j \in ToolIndexes \ {i} : n.tools[j] = s.tools[j])
    BY <2>9, <2>10, <2>11, CallGrows
  <2>13. n.tools[i].added
    BY <2>4, <2>12
  <2> QED
    BY <2>4, <2>12, <2>13, Zenon DEF n
<1> QED
  BY <1>1, <1>2

\* Arguments of a call.
LEMMA CallSpoke ==
    ASSUME NEW s \in Streams, Live(s), NEW i \in ToolIndexes, s.tools[i].index >= 0, s.tools[i].added, NEW f \in Nat
    PROVE  LET c == [s EXCEPT !.tools[i].args = @ \o <<f>>]
               n == IF c.tools[i].custom THEN c ELSE Emit(c, "delta", c.tools[i].index, -1, <<f>>)
           IN  /\ n \in Streams /\ Live(n) /\ n.finish = s.finish
               /\ \A j \in ToolIndexes \ {i} : n.tools[j] = s.tools[j]
<1> DEFINE old == s.tools[i]
           x == old.args \o <<f>>
           t == [old EXCEPT !.args = x]
           c == [s EXCEPT !.tools[i].args = @ \o <<f>>]
           n == IF c.tools[i].custom THEN c ELSE Emit(c, "delta", c.tools[i].index, -1, <<f>>)
<1>1. old \in Calls /\ old.index \in Int /\ old.args \in Seq(Nat)
  BY DEF Streams, Calls
<1>2. x \in Seq(Nat) /\ <<f>> \in Seq(Nat)
  <2> HIDE DEF old
  <2> QED
    BY <1>1
<1>3. c = [s EXCEPT !.tools[i] = t]
  <2>1. c = [s EXCEPT !.tools[i].args = x]
    OBVIOUS
  <2> HIDE DEF c, x
  <2> QED
    BY <2>1 DEF Streams, Calls
<1>4. t \in Calls /\ t.index = old.index /\ t.args = x /\ t.added = old.added /\ t.custom = old.custom
  <2>1. old \in Calls /\ x \in Seq(Nat)
    BY <1>1, <1>2
  <2> HIDE DEF old, x
  <2> QED
    BY <2>1 DEF Calls
<1> HIDE DEF t, c
<1>5. c.tools[i] = t
  <2>1. [s EXCEPT !.tools[i] = t].tools[i] = t
    BY <1>4, CallsKept, Zenon
  <2> QED
    BY <1>3, <2>1
<1>6. CallOpen(s.out, old) /\ ~(old.index < 0)
  BY <1>1 DEF Live
<1>7. ItemOpen(s.out, old.index, TRUE) /\ Said(s.out, old.index, -1) = IF old.custom THEN <<>> ELSE old.args
  BY <1>6, Zenon DEF CallOpen, ItemOpen
<1>8. CASE t.custom
  <2>1. CallOpen(s.out, t)
    BY <1>4, <1>6, <1>7, <1>8, Zenon DEF CallOpen, ItemOpen
  <2>2. c \in Streams /\ Live(c) /\ c.finish = s.finish /\ \A j \in ToolIndexes \ {i} : c.tools[j] = s.tools[j]
    BY <1>3, <1>4, <2>1, CallNoted, SMTT(40)
  <2> QED
    BY <1>5, <1>8, <2>2, Zenon DEF c
<1>9. CASE ~t.custom
  <2>1. n = CallChanged(s, i, t, "delta", <<f>>)
    BY <1>3, <1>5, <1>9, Zenon DEF CallChanged
  <2> HIDE DEF n
  <2>2. Has(s.out, "item_added", old.index, -1) /\ ~Has(s.out, "item_done", old.index, -1) /\ Said(s.out, old.index, -1) = old.args
    BY <1>4, <1>7, <1>9, Zenon DEF ItemOpen
  <2>3. CallMayChange(s, i, t, "delta", <<f>>)
    <3>1. Allowed(s.out, "delta", t.index, -1, <<f>>)
      BY <1>4, <2>2 DEF Live, Allowed, Once
    <3> QED
      BY <1>2, <1>4, <3>1 DEF CallMayChange
  <2>4. ASSUME Grew(s.out, n.out, "delta", t.index, -1, <<f>>)
        PROVE  CallOpen(n.out, t)
    <3>1. Has(n.out, "item_added", t.index, -1) /\ ~Has(n.out, "item_done", t.index, -1)
      BY <1>4, <2>2, <2>4 DEF Grew
    <3>2. Said(n.out, t.index, -1) = x
      BY <1>4, <2>2, <2>4, Zenon DEF Grew
    <3>3. ItemOpen(n.out, t.index, TRUE)
      BY <3>1, Zenon DEF ItemOpen
    <3> QED
      BY <1>4, <1>6, <1>9, <3>2, <3>3, Zenon DEF CallOpen, ItemOpen
  <2>5. n \in Streams /\ Live(n) /\ n.finish = s.finish /\ \A j \in ToolIndexes \ {i} : n.tools[j] = s.tools[j]
    BY <2>1, <2>3, <2>4, CallGrows DEF Besides
  <2> QED
    BY <2>5, Zenon DEF n, c
<1> QED
  BY <1>8, <1>9

LEMMA CallWritten ==
    ASSUME NEW s \in Streams, Live(s), NEW i \in ToolIndexes, NEW names \in Nat, NEW f \in Nat
    PROVE  LET n == WriteToolDelta(s, i, names, IF f = 0 THEN <<>> ELSE <<f>>) IN
           /\ n \in Streams /\ Live(n) /\ n.finish = s.finish
           /\ \A j \in ToolIndexes \ {i} : n.tools[j] = s.tools[j]
<1> DEFINE fragments == IF f = 0 THEN <<>> ELSE <<f>>
           a == IF s.tools[i].index >= 0 THEN s
                ELSE [s EXCEPT !.tools[i].index = s.nextOutput, !.nextOutput = @ + 1]
           b == [a EXCEPT !.tools[i].name = @ + names]
           d == AddTool(b, i)
           c == [d EXCEPT !.tools[i].args = @ \o fragments]
           n == WriteToolDelta(s, i, names, fragments)
<1>1. n = IF fragments = <<>> THEN b
          ELSE IF c.tools[i].custom THEN c ELSE Emit(c, "delta", c.tools[i].index, -1, fragments)
  BY Zenon DEF WriteToolDelta
<1> HIDE DEF n
<1>2. /\ a \in Streams /\ Live(a) /\ a.finish = s.finish /\ a.tools[i].index >= 0
      /\ \A j \in ToolIndexes \ {i} : a.tools[j] = s.tools[j]
  <2>1. CASE s.tools[i].index >= 0
    BY <2>1
  <2>2. CASE ~(s.tools[i].index >= 0)
    <3>1. s.tools[i].index < 0
      BY <2>2 DEF Streams, Calls
    <3>2. a = [s EXCEPT !.tools[i].index = s.nextOutput, !.nextOutput = @ + 1]
      BY <2>2
    <3> HIDE DEF a
    <3> QED
      BY <3>1, <3>2, CallNumbered
  <2> QED
    BY <2>1, <2>2
<1> HIDE DEF a
<1>3. /\ b \in Streams /\ Live(b) /\ b.finish = s.finish /\ b.tools[i].index >= 0
      /\ \A j \in ToolIndexes \ {i} : b.tools[j] = s.tools[j]
  <2> DEFINE old == a.tools[i]
             x == old.name + names
             t == [old EXCEPT !.name = x]
  <2>1. old \in Calls /\ old.name \in Nat
    BY <1>2 DEF Streams, Calls
  <2>2. x \in Nat
    BY <2>1
  <2>3. b = [a EXCEPT !.tools[i] = t]
    <3>1. b = [a EXCEPT !.tools[i].name = x]
      OBVIOUS
    <3> HIDE DEF b, x
    <3> QED
      BY <1>2, <3>1 DEF Streams, Calls
  <2>4. t \in Calls /\ t.index = old.index /\ t.args = old.args /\ t.added = old.added /\ t.custom = old.custom
    <3> HIDE DEF old, x
    <3> QED
      BY <2>1, <2>2 DEF Calls
  <2> HIDE DEF t, b
  <2>5. CallOpen(a.out, old)
    BY <1>2 DEF Live
  <2>6. CallOpen(a.out, t)
    BY <2>4, <2>5, Zenon DEF CallOpen, ItemOpen
  <2>7. b \in Streams /\ Live(b) /\ b.finish = a.finish /\ b.tools[i] = t /\ \A j \in ToolIndexes \ {i} : b.tools[j] = a.tools[j]
    BY <1>2, <2>3, <2>4, <2>6, CallNoted
  <2> QED
    BY <1>2, <2>4, <2>7
<1> HIDE DEF b
<1>4. CASE f = 0
  <2>1. fragments = <<>>
    BY <1>4
  <2> QED
    BY <1>1, <1>3, <2>1 DEF n
<1>5. CASE f # 0
  <2>1. fragments = <<f>> /\ fragments # <<>>
    BY <1>5
  <2>2. /\ d \in Streams /\ Live(d) /\ d.finish = s.finish /\ d.tools[i].index >= 0 /\ d.tools[i].added
        /\ \A j \in ToolIndexes \ {i} : d.tools[j] = s.tools[j]
    <3>1. Sound(b.out) /\ ~Over(b.out) /\ CallOpen(b.out, b.tools[i])
      BY <1>3 DEF Live
    <3>2. /\ Besides(b, d, b.tools[i].index) /\ (Live(b) => Live(d))
          /\ d.tools[i].added /\ (\A j \in ToolIndexes \ {i} : d.tools[j] = b.tools[j])
      BY <1>3, <3>1, CallAdded
    <3> QED
      BY <1>3, <3>2 DEF Besides
  <2> HIDE DEF d, fragments
  <2>3. n = IF [d EXCEPT !.tools[i].args = @ \o <<f>>].tools[i].custom THEN [d EXCEPT !.tools[i].args = @ \o <<f>>]
            ELSE Emit([d EXCEPT !.tools[i].args = @ \o <<f>>], "delta", [d EXCEPT !.tools[i].args = @ \o <<f>>].tools[i].index, -1, <<f>>)
    BY <1>1, <2>1
  <2>4. n \in Streams /\ Live(n) /\ n.finish = d.finish /\ \A j \in ToolIndexes \ {i} : n.tools[j] = d.tools[j]
    BY <2>2, <2>3, CallSpoke, ZenonT(60)
  <2> QED
    BY <2>2, <2>4 DEF n, fragments
<1> QED
  BY <1>4, <1>5

\* A chunk is consumed: the stream is still live, or has failed with a
\* terminal event.  Only a call of the chunk can get an index by it.
LEMMA ChunkConsumed ==
    ASSUME NEW s \in Streams, Live(s), NEW c \in Chunks, c.kind = "tool" => c.i \in ToolIndexes
    PROVE  LET n == ConsumeChunk(s, c) IN
           /\ n \in Streams /\ Sound(n.out) /\ (~n.failed => Live(n))
           /\ n.finish = s.finish \/ (c.kind = "finish" /\ n.finish = c.reason)
           /\ \A j \in ToolIndexes : n.tools[j].index >= 0 => s.tools[j].index >= 0 \/ (c.kind = "tool" /\ j = c.i)
<1> DEFINE n == ConsumeChunk(s, c)
           a == StartResponse(s)
<1>1. /\ c.kind \in {"error", "usage", "empty", "text", "refusal", "tool", "finish"} /\ c.names \in Nat /\ c.f \in Nat
      /\ c.reason \in Reasons /\ c.limit \in {"none", "quota"}
  BY DEF Chunks
<1>2. a \in Streams /\ Live(a) /\ a = [s EXCEPT !.out = a.out, !.started = TRUE]
  BY Started
<1> HIDE DEF a
<1>3. a.tools = s.tools /\ a.finish = s.finish
  BY <1>2 DEF Streams
<1>4. \A m : Live(m) => Sound(m.out)
  BY DEF Live
<1>5. CASE c.kind = "error"
  <2> DEFINE e == Emit(s, "error", -1, -1, <<>>)
  <2>1. n = [e EXCEPT !.failed = TRUE, !.limit = c.limit]
    BY <1>5 DEF ConsumeChunk
  <2> HIDE DEF e, n
  <2>2. Wrote(s, e, "error", -1, -1, <<>>)
    <3>1. Allowed(s.out, "error", -1, -1, <<>>)
      BY DEF Live, Allowed, Once
    <3>2. "error" \in EventTypes /\ -1 \in Int /\ <<>> \in Seq(Nat)
      BY DEF EventTypes, Terminal
    <3> QED
      BY <3>1, <3>2, EmitsOne, Zenon DEF e
  <2>3. e \in Streams /\ Sound(e.out) /\ e = [s EXCEPT !.out = e.out]
    BY <2>2, Zenon DEF Wrote
  <2>4. e.tools = s.tools /\ e.finish = s.finish
    BY <2>3 DEF Streams
  <2>5. n \in Streams /\ n.out = e.out /\ n.tools = e.tools /\ n.finish = e.finish /\ n.failed
    BY <1>1, <2>1, <2>3 DEF Streams
  <2> QED
    BY <2>3, <2>4, <2>5 DEF n
<1>6. CASE c.kind = "usage"
  <2>1. n = [s EXCEPT !.usage = TRUE]
    BY <1>6 DEF ConsumeChunk
  <2> HIDE DEF n
  <2>2. /\ n \in Streams /\ n.out = s.out /\ n.tools = s.tools /\ n.finish = s.finish
        /\ n.message = s.message /\ n.nextOutput = s.nextOutput
    BY <2>1 DEF Streams
  <2>3. Live(n)
    BY <2>2 DEF Live, Numbered
  <2> QED
    BY <1>4, <2>2, <2>3 DEF n
<1>7. CASE c.kind = "empty"
  <2>1. n = a
    BY <1>7 DEF ConsumeChunk, a
  <2> QED
    BY <1>2, <1>3, <1>4, <2>1
<1>8. CASE c.kind = "text"
  <2>1. n = WriteTextDelta(a, c.f)
    BY <1>8 DEF ConsumeChunk, a
  <2>2. n \in Streams /\ Live(n) /\ n.tools = a.tools /\ n.finish = a.finish
    BY <1>1, <1>2, <2>1, TextWritten
  <2> QED
    BY <1>3, <1>4, <2>2
<1>9. CASE c.kind = "refusal"
  <2>1. n = WriteRefusalDelta(a, c.f)
    BY <1>9 DEF ConsumeChunk, a
  <2>2. n \in Streams /\ Live(n) /\ n.tools = a.tools /\ n.finish = a.finish
    BY <1>1, <1>2, <2>1, RefusalWritten
  <2> QED
    BY <1>3, <1>4, <2>2
<1>10. CASE c.kind = "tool"
  <2>1. n = WriteToolDelta(a, c.i, c.names, IF c.f = 0 THEN <<>> ELSE <<c.f>>)
    BY <1>10 DEF ConsumeChunk, a
  <2>2. n \in Streams /\ Live(n) /\ n.finish = a.finish /\ \A j \in ToolIndexes \ {c.i} : n.tools[j] = a.tools[j]
    BY <1>1, <1>2, <1>10, <2>1, CallWritten
  <2> QED
    BY <1>3, <1>4, <1>10, <2>2
<1>11. CASE c.kind = "finish"
  <2>1. n = [a EXCEPT !.finish = c.reason]
    BY <1>11 DEF ConsumeChunk, a
  <2> HIDE DEF n
  <2>2. /\ n \in Streams /\ n.out = a.out /\ n.tools = a.tools /\ n.finish = c.reason
        /\ n.message = a.message /\ n.nextOutput = a.nextOutput
    BY <1>1, <1>2, <2>1 DEF Streams
  <2>3. Live(n)
    BY <1>2, <2>2 DEF Live, Numbered
  <2> QED
    BY <1>3, <1>4, <1>11, <2>2, <2>3 DEF n
<1> QED
  BY <1>1, <1>5, <1>6, <1>7, <1>8, <1>9, <1>10, <1>11

-----------------------------------------------------------------------------
(* The end of a stream: whatever is open is closed.                        *)

\* A part is done.
LEMMA PartFinished ==
    ASSUME NEW s \in Streams, Sound(s.out), ~Over(s.out), NEW item \in Nat, item = s.message.index,
           NEW part \in Nat, NEW text \in Seq(Nat), ItemOpen(s.out, item, TRUE), PartOpen(s.out, item, part, text)
    PROVE  LET n == FinishPart(s, part, text) IN
           /\ Besides(s, n, item) /\ n.tools = s.tools /\ ItemOpen(n.out, item, TRUE)
           /\ \A p, x : p # part /\ PartOpen(s.out, item, p, x) => PartOpen(n.out, item, p, x)
<1> DEFINE a == Emit(s, "done", item, part, text)
           n == Emit(a, "part_done", item, part, text)
<1>1. Has(s.out, "item_added", item, -1) /\ ~Has(s.out, "item_done", item, -1)
  BY DEF ItemOpen
<1>2. Has(s.out, "part_added", item, part) /\ ~Has(s.out, "part_done", item, part) /\ Said(s.out, item, part) = text
  BY DEF PartOpen
<1>3. Wrote(s, a, "done", item, part, text)
  <2>1. Allowed(s.out, "done", item, part, text)
    BY <1>1, <1>2 DEF Allowed, Once
  <2>2. "done" \in EventTypes /\ item \in Int /\ part \in Int
    BY DEF EventTypes
  <2> QED
    BY <2>1, <2>2, EmitsOne, Zenon
<1> HIDE DEF a
<1>4. a \in Streams /\ Sound(a.out) /\ a = [s EXCEPT !.out = a.out] /\ Grew(s.out, a.out, "done", item, part, text)
  BY <1>3, Zenon DEF Wrote
<1>5. /\ Has(a.out, "item_added", item, -1) /\ ~Has(a.out, "item_done", item, -1) /\ ~Over(a.out)
      /\ Has(a.out, "part_added", item, part) /\ ~Has(a.out, "part_done", item, part)
  BY <1>1, <1>2, <1>4 DEF Grew, Terminal
<1>6. Wrote(a, n, "part_done", item, part, text)
  <2>1. Allowed(a.out, "part_done", item, part, text)
    BY <1>4, <1>5 DEF Allowed
  <2>2. "part_done" \in EventTypes /\ item \in Int /\ part \in Int
    BY DEF EventTypes
  <2> QED
    BY <1>4, <2>1, <2>2, EmitsOne, Zenon
<1> HIDE DEF n
<1>7. n \in Streams /\ Sound(n.out) /\ n = [a EXCEPT !.out = n.out] /\ Grew(a.out, n.out, "part_done", item, part, text)
  BY <1>6, Zenon DEF Wrote
<1>8. Has(n.out, "item_added", item, -1) /\ ~Has(n.out, "item_done", item, -1) /\ ~Over(n.out)
  BY <1>5, <1>7 DEF Grew, Terminal
<1>9. n.message = s.message /\ n.nextOutput = s.nextOutput /\ n.finish = s.finish /\ n.tools = s.tools
  BY <1>4, <1>7 DEF Streams
<1>10. Beside(s.out, n.out, item)
  <2>1. Beside(s.out, a.out, item) /\ Beside(a.out, n.out, item)
    BY <1>4, <1>7, BesideEvent, Zenon
  <2> QED
    BY <2>1, Zenon DEF Beside
<1>11. ASSUME NEW p, NEW x, p # part, PartOpen(s.out, item, p, x)
       PROVE  PartOpen(n.out, item, p, x)
  <2>1. PartOpen(a.out, item, p, x)
    BY <1>4, <1>11, OthersStay
  <2> QED
    BY <1>7, <1>11, <2>1, OthersStay
<1>12. ItemOpen(n.out, item, TRUE)
  BY <1>8, Zenon DEF ItemOpen
<1>13. Besides(s, n, item)
  BY <1>7, <1>8, <1>9, <1>10 DEF Besides
<1>14. n = FinishPart(s, part, text)
  BY DEF n, a, FinishPart
<1> QED
  BY <1>9, <1>11, <1>12, <1>13, <1>14

\* The message is done.
LEMMA MessageFinished ==
    ASSUME NEW s \in Streams, Live(s), s.message.index >= 0
    PROVE  LET n == FinishMessage(s) IN
           Besides(s, n, s.message.index) /\ n.tools = s.tools /\ Has(n.out, "item_done", s.message.index, -1)
<1> DEFINE m == s.message
           a == IF m.textIndex >= 0 THEN FinishPart(s, m.textIndex, m.text) ELSE s
           b == IF m.refusalIndex >= 0 THEN FinishPart(a, m.refusalIndex, m.refusal) ELSE a
           n == FinishMessage(s)
<1>1. n = Emit(b, "item_done", m.index, -1, <<>>)
  BY Zenon DEF FinishMessage
<1> HIDE DEF n
<1>2. m \in Messages /\ m.index \in Nat /\ m.textIndex \in Int /\ m.refusalIndex \in Int /\ m.text \in Seq(Nat) /\ m.refusal \in Seq(Nat)
  BY DEF Streams, Messages
<1>3. /\ ItemOpen(s.out, m.index, TRUE) /\ PartOpen(s.out, m.index, m.textIndex, m.text) /\ PartOpen(s.out, m.index, m.refusalIndex, m.refusal)
      /\ (m.textIndex >= 0 => m.textIndex # m.refusalIndex)
  <2>1. MessageOpen(s.out, m) /\ ~(m.index < 0)
    BY <1>2 DEF Live
  <2> QED
    BY <2>1, Zenon DEF MessageOpen, InMessage
<1>4. Sound(s.out) /\ ~Over(s.out) /\ Besides(s, s, m.index)
  BY DEF Live, Besides, Beside
<1>5. Besides(s, a, m.index) /\ a.tools = s.tools /\ ItemOpen(a.out, m.index, TRUE) /\ PartOpen(a.out, m.index, m.refusalIndex, m.refusal)
  <2>1. CASE m.textIndex >= 0
    <3>1. m.textIndex \in Nat /\ a = FinishPart(s, m.textIndex, m.text)
      BY <1>2, <2>1
    <3> HIDE DEF a
    <3> QED
      BY <1>2, <1>3, <1>4, <2>1, <3>1, PartFinished
  <2>2. CASE ~(m.textIndex >= 0)
    BY <1>3, <1>4, <2>2
  <2> QED
    BY <2>1, <2>2
<1> HIDE DEF a
<1>6. Besides(s, b, m.index) /\ b.tools = s.tools /\ ItemOpen(b.out, m.index, TRUE)
  <2>1. CASE m.refusalIndex >= 0
    <3>1. m.refusalIndex \in Nat /\ b = FinishPart(a, m.refusalIndex, m.refusal)
      BY <1>2, <2>1
    <3>2. a \in Streams /\ Sound(a.out) /\ ~Over(a.out) /\ m.index = a.message.index
      BY <1>5 DEF Besides
    <3> HIDE DEF b
    <3>3. Besides(a, b, m.index) /\ b.tools = a.tools /\ ItemOpen(b.out, m.index, TRUE)
      BY <1>2, <1>5, <3>1, <3>2, PartFinished
    <3> QED
      BY <1>5, <3>3, BesidesTwice
  <2>2. CASE ~(m.refusalIndex >= 0)
    BY <1>5, <2>2
  <2> QED
    BY <2>1, <2>2
<1> HIDE DEF b
<1>7. b \in Streams /\ Sound(b.out) /\ ~Over(b.out)
  BY <1>6 DEF Besides
<1>8. Wrote(b, n, "item_done", m.index, -1, <<>>)
  <2>1. Allowed(b.out, "item_done", m.index, -1, <<>>)
    BY <1>6, <1>7 DEF Allowed, ItemOpen
  <2>2. "item_done" \in EventTypes /\ m.index \in Int /\ -1 \in Int /\ <<>> \in Seq(Nat)
    BY <1>2 DEF EventTypes
  <2> QED
    BY <1>1, <1>7, <2>1, <2>2, EmitsOne, Zenon
<1>9. n \in Streams /\ Sound(n.out) /\ n = [b EXCEPT !.out = n.out] /\ Grew(b.out, n.out, "item_done", m.index, -1, <<>>)
  BY <1>8, Zenon DEF Wrote
<1>10. n.message = b.message /\ n.nextOutput = b.nextOutput /\ n.finish = b.finish /\ n.tools = b.tools
  BY <1>7, <1>9 DEF Streams
<1>11. ~Over(n.out) /\ Has(n.out, "item_done", m.index, -1)
  BY <1>7, <1>9 DEF Grew, Terminal
<1>12. Beside(b.out, n.out, m.index)
  BY <1>9, BesideEvent, Zenon
<1>13. Besides(b, n, m.index)
  BY <1>9, <1>10, <1>11, <1>12 DEF Besides
<1> QED
  BY <1>6, <1>10, <1>11, <1>13, BesidesTwice DEF n

\* A call is done.
LEMMA CallFinished ==
    ASSUME NEW s \in Streams, Sound(s.out), ~Over(s.out),
           NEW i \in ToolIndexes, s.tools[i].index >= 0, CallOpen(s.out, s.tools[i])
    PROVE  LET n == FinishTool(s, i) IN
           /\ Besides(s, n, s.tools[i].index) /\ Has(n.out, "item_done", s.tools[i].index, -1)
           /\ \A j \in ToolIndexes \ {i} : n.tools[j] = s.tools[j]
<1> DEFINE a == AddTool(s, i)
           t == a.tools[i]
           k == t.index
           d == IF t.custom THEN Emit(a, "delta", k, -1, t.args) ELSE a
           e == Emit(d, "done", k, -1, t.args)
           n == FinishTool(s, i)
<1>1. n = Emit(e, "item_done", k, -1, <<>>)
  BY Zenon DEF FinishTool
<1> HIDE DEF n
<1>2. /\ Besides(s, a, s.tools[i].index) /\ CallOpen(a.out, t)
      /\ t.added /\ (\A j \in ToolIndexes \ {i} : a.tools[j] = s.tools[j])
  BY CallAdded
<1> HIDE DEF a
<1>3. a \in Streams /\ Sound(a.out) /\ ~Over(a.out) /\ k = s.tools[i].index
  BY <1>2 DEF Besides
<1>4. t \in Calls /\ k \in Int /\ k >= 0 /\ t.args \in Seq(Nat)
  BY <1>3 DEF Streams, Calls
<1> HIDE DEF t
<1>5. ItemOpen(a.out, k, TRUE) /\ Said(a.out, k, -1) = IF t.custom THEN <<>> ELSE t.args
  <2>1. ~(k < 0)
    BY <1>4
  <2> QED
    BY <1>2, <2>1, Zenon DEF CallOpen, ItemOpen
<1>6. Has(a.out, "item_added", k, -1) /\ ~Has(a.out, "item_done", k, -1)
  BY <1>5 DEF ItemOpen
<1>7. /\ Besides(a, d, k) /\ d.tools = a.tools /\ Said(d.out, k, -1) = t.args
      /\ Has(d.out, "item_added", k, -1) /\ ~Has(d.out, "item_done", k, -1)
  <2>1. CASE t.custom
    <3>1. d = Emit(a, "delta", k, -1, t.args)
      BY <2>1
    <3> HIDE DEF d
    <3>2. Wrote(a, d, "delta", k, -1, t.args)
      <4>1. Allowed(a.out, "delta", k, -1, t.args)
        BY <1>3, <1>6 DEF Allowed, Once
      <4>2. "delta" \in EventTypes /\ -1 \in Int
        BY DEF EventTypes
      <4> QED
        BY <1>3, <1>4, <3>1, <4>1, <4>2, EmitsOne, Zenon
    <3>3. d \in Streams /\ Sound(d.out) /\ d = [a EXCEPT !.out = d.out] /\ Grew(a.out, d.out, "delta", k, -1, t.args)
      BY <3>2, Zenon DEF Wrote
    <3>4. d.message = a.message /\ d.nextOutput = a.nextOutput /\ d.finish = a.finish /\ d.tools = a.tools
      BY <1>3, <3>3 DEF Streams
    <3>5. ~Over(d.out) /\ Has(d.out, "item_added", k, -1) /\ ~Has(d.out, "item_done", k, -1)
      BY <1>3, <1>6, <3>3 DEF Grew, Terminal
    <3>6. Said(d.out, k, -1) = t.args
      <4>1. Said(d.out, k, -1) = Said(a.out, k, -1) \o t.args
        BY <3>3, Zenon DEF Grew
      <4>2. Said(a.out, k, -1) = <<>>
        BY <1>5, <2>1
      <4> QED
        BY <1>4, <4>1, <4>2, ConcatEmptySeq
    <3>7. Beside(a.out, d.out, k)
      BY <3>3, BesideEvent, Zenon
    <3> QED
      BY <3>3, <3>4, <3>5, <3>6, <3>7 DEF Besides
  <2>2. CASE ~t.custom
    <3>1. Besides(a, a, k)
      BY <1>3 DEF Besides, Beside
    <3> QED
      BY <1>5, <1>6, <2>2, <3>1
  <2> QED
    BY <2>1, <2>2
<1> HIDE DEF d
<1>8. d \in Streams /\ Sound(d.out) /\ ~Over(d.out)
  BY <1>7 DEF Besides
<1>9. Wrote(d, e, "done", k, -1, t.args)
  <2>1. Allowed(d.out, "done", k, -1, t.args)
    BY <1>7, <1>8 DEF Allowed, Once
  <2>2. "done" \in EventTypes /\ -1 \in Int
    BY DEF EventTypes
  <2> QED
    BY <1>4, <1>8, <2>1, <2>2, EmitsOne, Zenon
<1> HIDE DEF e
<1>10. e \in Streams /\ Sound(e.out) /\ e = [d EXCEPT !.out = e.out] /\ Grew(d.out, e.out, "done", k, -1, t.args)
  BY <1>9, Zenon DEF Wrote
<1>11. ~Over(e.out) /\ Has(e.out, "item_added", k, -1) /\ ~Has(e.out, "item_done", k, -1)
  BY <1>7, <1>8, <1>10 DEF Grew, Terminal
<1>12. Wrote(e, n, "item_done", k, -1, <<>>)
  <2>1. Allowed(e.out, "item_done", k, -1, <<>>)
    BY <1>10, <1>11 DEF Allowed
  <2>2. "item_done" \in EventTypes /\ -1 \in Int /\ <<>> \in Seq(Nat)
    BY DEF EventTypes
  <2> QED
    BY <1>1, <1>4, <1>10, <2>1, <2>2, EmitsOne, Zenon
<1>13. n \in Streams /\ Sound(n.out) /\ n = [e EXCEPT !.out = n.out] /\ Grew(e.out, n.out, "item_done", k, -1, <<>>)
  BY <1>12, Zenon DEF Wrote
<1>14. n.message = d.message /\ n.nextOutput = d.nextOutput /\ n.finish = d.finish /\ n.tools = d.tools
  BY <1>8, <1>10, <1>13 DEF Streams
<1>15. ~Over(n.out) /\ Has(n.out, "item_done", k, -1)
  BY <1>11, <1>13 DEF Grew, Terminal
<1>16. Beside(d.out, n.out, k)
  <2>1. Beside(d.out, e.out, k) /\ Beside(e.out, n.out, k)
    BY <1>10, <1>13, BesideEvent, Zenon
  <2> QED
    BY <2>1, Zenon DEF Beside
<1>17. Besides(d, n, k)
  BY <1>13, <1>14, <1>15, <1>16 DEF Besides
<1>18. Besides(s, n, k)
  BY <1>2, <1>3, <1>7, <1>17, BesidesTwice
<1> QED
  BY <1>2, <1>3, <1>7, <1>14, <1>15, <1>18 DEF n

\* Whatever stream a call is finished in, it remains a stream.
LEMMA StreamsEmit ==
    ASSUME NEW s, s \in Streams, NEW type, type \in EventTypes, NEW item, item \in Int, NEW part, part \in Int, NEW text, text \in Seq(Nat)
    PROVE  Emit(s, type, item, part, text) \in Streams /\ Emit(s, type, item, part, text).tools = s.tools
<1> DEFINE e == [type |-> type, item |-> item, part |-> part, text |-> text]
<1>1. e \in Events
  BY DEF Events
<1>2. Emit(s, type, item, part, text) = [s EXCEPT !.out = Append(s.out, e)]
  BY DEF Emit
<1> HIDE DEF e
<1>3. s.out \in Seq(Events)
  BY DEF Streams
<1>4. Append(s.out, e) \in Seq(Events)
  BY <1>1, <1>3
<1> QED
  BY <1>2, <1>4 DEF Streams

LEMMA StreamsFinish ==
    ASSUME NEW s \in Streams, NEW i \in ToolIndexes
    PROVE  FinishTool(s, i) \in Streams
<1> DEFINE a == AddTool(s, i)
           t == a.tools[i]
           d == IF t.custom THEN Emit(a, "delta", t.index, -1, t.args) ELSE a
           e == Emit(d, "done", t.index, -1, t.args)
<1>1. "delta" \in EventTypes /\ "done" \in EventTypes /\ "item_done" \in EventTypes /\ "item_added" \in EventTypes
      /\ -1 \in Int /\ <<>> \in Seq(Nat)
  BY DEF EventTypes
<1>2. FinishTool(s, i) = Emit(e, "item_done", t.index, -1, <<>>)
  BY Zenon DEF FinishTool
<1>3. a \in Streams
  <2>1. CASE s.tools[i].added
    BY <2>1, Zenon DEF AddTool
  <2>2. CASE ~s.tools[i].added
    <3> DEFINE custom == i \in CustomTools /\ s.tools[i].name = NameParts
               c == [s EXCEPT !.tools[i].added = TRUE, !.tools[i].custom = custom]
               u == [s.tools[i] EXCEPT !.added = TRUE, !.custom = custom]
    <3>1. a = Emit(c, "item_added", s.tools[i].index, -1, <<>>)
      BY <2>2, Zenon DEF AddTool
    <3>2. custom \in BOOLEAN
      OBVIOUS
    <3> HIDE DEF custom
    <3>3. s.tools[i] \in Calls /\ s.tools[i].index \in Int
      BY DEF Streams, Calls
    <3>4. u \in Calls
      BY <3>2, <3>3 DEF Calls
    <3>5. c = [s EXCEPT !.tools[i] = u]
      BY DEF Streams, Calls
    <3> HIDE DEF u
    <3>6. [s EXCEPT !.tools[i] = u] \in Streams
      BY <3>4, CallsKept
    <3>7. c \in Streams
      BY <3>5, <3>6
    <3> HIDE DEF c, a
    <3> QED
      BY <1>1, <3>1, <3>3, <3>7, StreamsEmit, Zenon
  <2> QED
    BY <2>1, <2>2
<1> HIDE DEF a
<1>4. t.index \in Int /\ t.args \in Seq(Nat)
  BY <1>3 DEF Streams, Calls
<1> HIDE DEF t
<1>5. d \in Streams
  <2>1. Emit(a, "delta", t.index, -1, t.args) \in Streams
    BY <1>1, <1>3, <1>4, StreamsEmit, Zenon
  <2> QED
    BY <1>3, <2>1
<1> HIDE DEF d
<1>6. e \in Streams
  BY <1>1, <1>4, <1>5, StreamsEmit, Zenon
<1> HIDE DEF e
<1>7. Emit(e, "item_done", t.index, -1, <<>>) \in Streams
  BY <1>1, <1>4, <1>6, StreamsEmit, Zenon
<1> QED
  BY <1>2, <1>7

\* The calls are finished in the order of their indexes: those below k are
\* done, and the others are as they were.
Turn(s, acc, k) ==
    LET is == {i \in ToolIndexes : s.tools[i].index = k - 1}
    IN IF is = {} THEN acc ELSE FinishTool(acc, CHOOSE i \in is : TRUE)

Closing(s, n, k) ==
    /\ n \in Streams /\ Sound(n.out) /\ ~Over(n.out)
    /\ n.message = s.message /\ n.nextOutput = s.nextOutput /\ n.finish = s.finish
    /\ \A i \in ToolIndexes : n.tools[i].index = s.tools[i].index
    /\ \A i \in ToolIndexes : s.tools[i].index >= k => CallOpen(n.out, n.tools[i])
    /\ s.message.index >= 0 => Has(n.out, "item_done", s.message.index, -1)
    /\ \A x \in 0..(k - 1) : Has(n.out, "item_done", x, -1)

LEMMA TurnCloses ==
    ASSUME NEW s \in Streams, Numbered(s), NEW k \in Nat, k < s.nextOutput, NEW acc, Closing(s, acc, k)
    PROVE  Closing(s, Turn(s, acc, k + 1), k + 1)
<1> DEFINE is == {i \in ToolIndexes : s.tools[i].index = k}
           n == Turn(s, acc, k + 1)
<1>1. (k + 1) - 1 = k
  OBVIOUS
<1>2. n = IF is = {} THEN acc ELSE FinishTool(acc, CHOOSE i \in is : TRUE)
  <2> DEFINE of == {i \in ToolIndexes : s.tools[i].index = (k + 1) - 1}
  <2>1. of = is
    BY <1>1
  <2>2. n = IF of = {} THEN acc ELSE FinishTool(acc, CHOOSE i \in of : TRUE)
    BY Zenon DEF Turn
  <2> HIDE DEF of, is
  <2> QED
    BY <2>1, <2>2
<1>3. /\ acc \in Streams /\ Sound(acc.out) /\ ~Over(acc.out)
      /\ acc.message = s.message /\ acc.nextOutput = s.nextOutput /\ acc.finish = s.finish
      /\ \A i \in ToolIndexes : acc.tools[i].index = s.tools[i].index
      /\ \A i \in ToolIndexes : s.tools[i].index >= k => CallOpen(acc.out, acc.tools[i])
      /\ s.message.index >= 0 => Has(acc.out, "item_done", s.message.index, -1)
      /\ \A x \in 0..(k - 1) : Has(acc.out, "item_done", x, -1)
  BY DEF Closing
<1>4. s.message.index \in Int /\ \A i \in ToolIndexes : s.tools[i].index \in Int
  BY DEF Streams, Messages, Calls
<1>5. \A x \in 0..((k + 1) - 1) : x = k \/ x \in 0..(k - 1)
  OBVIOUS
<1>6. \A i \in ToolIndexes : s.tools[i].index >= k + 1 => s.tools[i].index >= k /\ s.tools[i].index # k
  BY <1>4
<1> HIDE DEF n
<1>7. CASE is = {}
  <2>1. s.message.index = k
    <3>1. k \in 0..(s.nextOutput - 1)
      BY DEF Streams
    <3>2. s.message.index = k \/ \E i \in ToolIndexes : s.tools[i].index = k
      BY <3>1, Zenon DEF Numbered
    <3> QED
      BY <1>7, <3>2
  <2>2. Has(acc.out, "item_done", k, -1)
    BY <1>3, <2>1
  <2>3. n = acc
    BY <1>2, <1>7
  <2>4. \A x \in 0..((k + 1) - 1) : Has(acc.out, "item_done", x, -1)
    BY <1>3, <1>5, <2>2
  <2>5. \A i \in ToolIndexes : s.tools[i].index >= k + 1 => CallOpen(acc.out, acc.tools[i])
    BY <1>3, <1>6
  <2>6. Closing(s, acc, k + 1)
    BY <1>3, <2>4, <2>5 DEF Closing
  <2> QED
    BY <2>3, <2>6 DEF n
<1>8. CASE is # {}
  <2> DEFINE i == CHOOSE j \in is : TRUE
  <2>1. i \in ToolIndexes /\ s.tools[i].index = k
    BY <1>8
  <2>2. n = FinishTool(acc, i)
    BY <1>2, <1>8
  <2> HIDE DEF i
  <2>3. acc.tools[i].index = k /\ acc.tools[i].index >= 0 /\ CallOpen(acc.out, acc.tools[i])
    BY <1>3, <2>1
  <2>4. /\ Besides(acc, n, k) /\ Has(n.out, "item_done", k, -1)
        /\ \A j \in ToolIndexes \ {i} : n.tools[j] = acc.tools[j]
    BY <1>3, <2>1, <2>2, <2>3, CallFinished
  <2>5. /\ n \in Streams /\ Sound(n.out) /\ ~Over(n.out) /\ Beside(acc.out, n.out, k)
        /\ n.message = s.message /\ n.nextOutput = s.nextOutput /\ n.finish = s.finish
        /\ \A j \in ToolIndexes : n.tools[j].index = s.tools[j].index
    BY <1>3, <2>4 DEF Besides
  <2>6. \A type, x, p : Has(acc.out, type, x, p) => Has(n.out, type, x, p)
    BY <2>5, Zenon DEF Beside
  <2>7. ASSUME NEW j \in ToolIndexes, s.tools[j].index >= k + 1
        PROVE  CallOpen(n.out, n.tools[j])
    <3>1. j # i /\ acc.tools[j].index # k /\ CallOpen(acc.out, acc.tools[j])
      BY <1>3, <1>6, <2>1, <2>7
    <3>2. n.tools[j] = acc.tools[j]
      BY <2>4, <3>1
    <3> QED
      BY <2>5, <3>1, <3>2, Zenon DEF Beside
  <2>8. \A x \in 0..((k + 1) - 1) : Has(n.out, "item_done", x, -1)
    BY <1>3, <1>5, <2>4, <2>6
  <2>9. s.message.index >= 0 => Has(n.out, "item_done", s.message.index, -1)
    BY <1>3, <2>6
  <2>10. Closing(s, n, k + 1)
    BY <2>5, <2>7, <2>8, <2>9 DEF Closing
  <2> QED
    BY <2>10 DEF n
<1> QED
  BY <1>7, <1>8

\* The loop over the calls.
Finished(s, start) ==
    FoldLeft(LAMBDA acc, k : LET is == {i \in ToolIndexes : s.tools[i].index = k - 1}
                             IN IF is = {} THEN acc ELSE FinishTool(acc, CHOOSE i \in is : TRUE),
             start, [k \in 1..s.nextOutput |-> k])

LEMMA LoopCloses ==
    ASSUME NEW s \in Streams, Numbered(s), NEW start, Closing(s, start, 0)
    PROVE  Closing(s, Finished(s, start), s.nextOutput)
<1> DEFINE N == s.nextOutput
           q == [k \in 1..N |-> k]
           h == [x \in (1..N) \X Streams |-> Turn(s, x[2], x[1])]
           IsIter(it) == it = [z \in SUBSET (1..N) |-> IF z = {} THEN start ELSE Turn(s, it[z \ {Max(z)}], q[Max(z)])]
<1>1. N \in Nat /\ DOMAIN q = 1..N
  BY DEF Streams
<1>2. Len(q) = N
  BY <1>1
<1>3. Finished(s, start) = (CHOOSE it : IsIter(it))[1..N]
  BY <1>1, <1>2 DEF Finished, FoldLeft, MapThenFoldSet, Turn
<1>4. start \in Streams
  BY DEF Closing
<1>5. h \in [(1..N) \X Streams -> Streams]
  <2>1. ASSUME NEW k \in 1..N, NEW v \in Streams
        PROVE  Turn(s, v, k) \in Streams
    BY StreamsFinish DEF Turn
  <2> HIDE DEF N
  <2> QED
    BY <2>1
<1>6. PICK it \in [SUBSET (1..N) -> Streams] : Iterates(it, N, start, h)
  <2> HIDE DEF N, h
  <2> QED
    BY <1>1, <1>4, <1>5, IterateExists
<1>7. ASSUME NEW z \in SUBSET (1..N), z # {}
      PROVE  h[<<Max(z), it[z \ {Max(z)}]>>] = Turn(s, it[z \ {Max(z)}], q[Max(z)])
  <2> HIDE DEF N
  <2>1. Max(z) \in 1..N
    BY <1>1, <1>7, LargestOf
  <2>2. it[z \ {Max(z)}] \in Streams
    OBVIOUS
  <2> QED
    BY <2>1, <2>2
<1>8. IsIter(it)
  BY <1>6, <1>7, Zenon DEF Iterates
<1> DEFINE g == CHOOSE f : IsIter(f)
<1>9. IsIter(g)
  BY <1>8, Zenon
<1> HIDE DEF g
<1>10. g[{}] = start
  <2>1. {} \in SUBSET (1..N)
    OBVIOUS
  <2> QED
    BY <1>9, <2>1
<1>11. ASSUME NEW n \in 1..N
       PROVE  g[1..n] = Turn(s, g[1..(n - 1)], n)
  <2>1. 1..n \in SUBSET (1..N) /\ 1..n # {} /\ n \in Nat \ {0}
    <3> HIDE DEF N
    <3> QED
      BY <1>1
  <2>2. g[1..n] = Turn(s, g[(1..n) \ {Max(1..n)}], q[Max(1..n)])
    BY <1>9, <2>1
  <2> QED
    BY <2>1, <2>2, LastOf
<1> HIDE DEF IsIter
<1> DEFINE G == {n \in 0..N : Closing(s, g[1..n], n)}
<1>12. 0 \in G
  <2>1. 1..0 = {} /\ 0 \in 0..N
    BY <1>1
  <2> QED
    BY <1>10, <2>1
<1>13. ASSUME NEW n \in 0..(N - 1), n \in G
       PROVE  n + 1 \in G
  <2>1. n + 1 \in 1..N /\ (n + 1) - 1 = n /\ n + 1 \in 0..N /\ n \in Nat /\ n < N
    <3> HIDE DEF N
    <3> QED
      BY <1>1
  <2>2. g[1..(n + 1)] = Turn(s, g[1..n], n + 1)
    BY <1>11, <2>1
  <2>3. Closing(s, g[1..n], n)
    BY <1>13
  <2>4. Closing(s, Turn(s, g[1..n], n + 1), n + 1)
    BY <2>1, <2>3, TurnCloses
  <2> QED
    BY <2>1, <2>2, <2>4
<1> HIDE DEF G
<1>14. N \in G
  <2>1. \A n \in 0..N : n \in G
    <3> HIDE DEF N
    <3> QED
      BY <1>1, <1>12, <1>13, NumberInduction
  <2> QED
    BY <1>1, <2>1
<1>15. Closing(s, g[1..N], N)
  BY <1>14 DEF G
<1>16. Finished(s, start) = g[1..N]
  BY <1>3 DEF g
<1> QED
  BY <1>15, <1>16

\* The stream is finished: every item is done, and nothing follows.
LEMMA StreamFinished ==
    ASSUME NEW s \in Streams, Live(s)
    PROVE  LET n == FinishStream(s) IN
           /\ n \in Streams /\ Sound(n.out) /\ n.nextOutput = s.nextOutput /\ n.finish = s.finish
           /\ \A i \in ToolIndexes : n.tools[i].index = s.tools[i].index
           /\ \A x \in 0..(n.nextOutput - 1) : Has(n.out, "item_done", x, -1)
<1> DEFINE m == IF s.message = NoMessage THEN s ELSE FinishMessage(s)
           a == Finished(s, m)
           type == IF s.finish \in {"length", "content_filter"} THEN "incomplete" ELSE "completed"
           n == FinishStream(s)
<1>1. n = Emit(a, type, -1, -1, <<>>)
  BY Zenon DEF FinishStream, Finished
<1> HIDE DEF n
<1>2. s.message \in Messages /\ s.message.index \in Int /\ NoMessage.index = -1 /\ \A i \in ToolIndexes : s.tools[i].index \in Int
  BY DEF Streams, Messages, Calls, NoMessage
<1>3. Sound(s.out) /\ ~Over(s.out) /\ Numbered(s) /\ MessageOpen(s.out, s.message) /\ \A i \in ToolIndexes : CallOpen(s.out, s.tools[i])
  BY DEF Live
<1>4. Closing(s, m, 0)
  <2>1. CASE s.message = NoMessage
    <3>1. ~(s.message.index >= 0)
      BY <1>2, <2>1
    <3>2. Closing(s, s, 0)
      BY <1>3, <3>1 DEF Closing
    <3> QED
      BY <2>1, <3>2
  <2>2. CASE s.message # NoMessage
    <3>1. m = FinishMessage(s)
      BY <2>2
    <3>2. s.message.index >= 0
      <4>1. ~(s.message.index < 0)
        BY <1>3, <2>2, Zenon DEF MessageOpen
      <4> QED
        BY <1>2, <4>1
    <3> HIDE DEF m
    <3>3. Besides(s, m, s.message.index) /\ m.tools = s.tools /\ Has(m.out, "item_done", s.message.index, -1)
      BY <3>1, <3>2, MessageFinished
    <3>4. ASSUME NEW i \in ToolIndexes, s.tools[i].index >= 0
          PROVE  CallOpen(m.out, m.tools[i])
      <4>1. s.tools[i].index # s.message.index /\ CallOpen(s.out, s.tools[i])
        BY <1>3, <3>4 DEF Numbered
      <4> QED
        BY <3>3, <4>1, Zenon DEF Besides, Beside
    <3> QED
      BY <3>3, <3>4 DEF Closing, Besides
  <2> QED
    BY <2>1, <2>2
<1> HIDE DEF m
<1>5. Closing(s, a, s.nextOutput)
  BY <1>3, <1>4, LoopCloses
<1> HIDE DEF a
<1>6. /\ a \in Streams /\ Sound(a.out) /\ ~Over(a.out) /\ a.nextOutput = s.nextOutput /\ a.finish = s.finish
      /\ \A i \in ToolIndexes : a.tools[i].index = s.tools[i].index
      /\ \A x \in 0..(s.nextOutput - 1) : Has(a.out, "item_done", x, -1)
  BY <1>5 DEF Closing
<1>7. Wrote(a, n, type, -1, -1, <<>>)
  <2>1. type \in {"incomplete", "completed"}
    OBVIOUS
  <2> HIDE DEF type
  <2>2. Allowed(a.out, type, -1, -1, <<>>)
    BY <1>6, <2>1 DEF Allowed, Once
  <2>3. type \in EventTypes /\ -1 \in Int /\ <<>> \in Seq(Nat)
    BY <2>1 DEF EventTypes, Terminal
  <2> QED
    BY <1>1, <1>6, <2>2, <2>3, EmitsOne, Zenon
<1> HIDE DEF type
<1>8. n \in Streams /\ Sound(n.out) /\ n = [a EXCEPT !.out = n.out] /\ Grew(a.out, n.out, type, -1, -1, <<>>)
  BY <1>7, Zenon DEF Wrote
<1>9. n.nextOutput = s.nextOutput /\ n.finish = s.finish /\ n.tools = a.tools
  BY <1>6, <1>8 DEF Streams
<1>10. \A x \in 0..(s.nextOutput - 1) : Has(n.out, "item_done", x, -1)
  BY <1>6, <1>8 DEF Grew
<1> QED
  BY <1>6, <1>8, <1>9, <1>10 DEF n
-----------------------------------------------------------------------------
(* The invariant of a stream.                                              *)

Producers == [at : {"read", "sign", "call", "write", "closed"}, queue : Seq(Chunks), finish : Reasons, calls : Nat, last : BOOLEAN]

\* A chunk that the goroutine may hand over: the signature of its call is
\* known, and its reason to finish is Google's.
Backs(c, p, known) ==
    /\ c.kind = "tool" => c.i \in ToolIndexes /\ c.i \in known
    /\ c.kind = "finish" => p.finish # "none"
WireOK(p, known) ==
    /\ p \in Producers /\ (p.at = "write" => p.queue # <<>>)
    /\ (p.at \in {"sign", "call"} => p.calls \in ToolIndexes) /\ (p.at = "call" => p.calls \in known)
    /\ \A n \in 1..Len(p.queue) : Backs(p.queue[n], p, known)

WireInv ==
    /\ feed \in {"copilot", "antigravity"} /\ (feed = "copilot" => producer.at = "closed")
    /\ taken \in Nat /\ events \in Nat /\ WireOK(producer, signed)

RenderInv ==
    /\ rs \in Streams /\ Sound(rs.out) /\ (ended = "no" => Live(rs))
    /\ ended \in {"no", "cut", "failed", "finished"} /\ (ended = "finished" => rs.finish # "none")
    /\ recorded \in [limit : {"none", "quota"}, usage : BOOLEAN, session : BOOLEAN]
    /\ FinishedMeansWhole

\* What the renderer knows of an Antigravity stream, the goroutine knew before.
Backed == feed = "antigravity" => SignatureBeforeCall /\ (rs.finish # "none" => producer.finish # "none")

StreamInv == WireInv /\ RenderInv /\ Backed

\* A chunk is queued.
LEMMA Enqueued ==
    ASSUME NEW p, NEW known, WireOK(p, known), NEW c \in Chunks, NEW more, known \subseteq more, Backs(c, p, more)
    PROVE  LET n == Enqueue(p, c) IN
           WireOK(n, more) /\ n = [p EXCEPT !.at = "write", !.queue = n.queue]
<1> DEFINE q == Append(p.queue, c)
           n == [p EXCEPT !.at = "write", !.queue = q]
<1>1. p \in Producers /\ p.queue \in Seq(Chunks) /\ \A k \in 1..Len(p.queue) : Backs(p.queue[k], p, known)
  BY DEF WireOK, Producers
<1>2. /\ q \in Seq(Chunks) /\ q # <<>> /\ Len(q) = Len(p.queue) + 1 /\ q[Len(p.queue) + 1] = c
      /\ \A k \in 1..Len(p.queue) : q[k] = p.queue[k]
  BY <1>1
<1>3. \A k \in 1..Len(q) : k \in 1..Len(p.queue) \/ k = Len(p.queue) + 1
  BY <1>1, <1>2
<1>4. Enqueue(p, c) = n
  BY DEF Enqueue
<1> HIDE DEF q
<1>5. n \in Producers /\ n.queue = q /\ n.finish = p.finish
  BY <1>1, <1>2 DEF Producers
<1>6. \A k \in 1..Len(q) : Backs(q[k], p, more)
  BY <1>1, <1>2, <1>3, Zenon DEF Backs
<1>7. \A k \in 1..Len(q) : Backs(q[k], n, more)
  BY <1>5, <1>6, Zenon DEF Backs
<1>8. WireOK(n, more)
  BY <1>2, <1>5, <1>7 DEF WireOK
<1> QED
  BY <1>4, <1>5, <1>8

\* The chunks of a goroutine.
LEMMA ChunksMade ==
    /\ Chunk \in Chunks
    /\ \A kind \in {"error", "usage", "empty", "text", "refusal", "tool", "finish"} :
         [Chunk EXCEPT !.kind = kind] \in Chunks /\ [Chunk EXCEPT !.kind = kind].kind = kind
    /\ \A kind \in {"error", "usage", "empty", "text", "refusal", "tool", "finish"}, f \in Nat :
         [Chunk EXCEPT !.kind = kind, !.f = f] \in Chunks /\ [Chunk EXCEPT !.kind = kind, !.f = f].kind = kind
    /\ \A r \in Reasons : LET c == [Chunk EXCEPT !.kind = "finish", !.reason = r] IN c \in Chunks /\ c.kind = "finish"
    /\ \A l \in {"none", "quota"} : LET c == [Chunk EXCEPT !.kind = "error", !.limit = l] IN c \in Chunks /\ c.kind = "error"
    /\ \A i \in ToolIndexes, names \in Nat, f \in Nat :
         LET c == ToolChunk(i, names, f)
         IN c \in Chunks /\ c.kind = "tool" /\ c.i = i
  BY DEF ToolChunk, Chunk, Chunks, Reasons

\* The stream is given up.
LEMMA GivenUp ==
    ASSUME NEW p, NEW known, WireOK(p, known)
    PROVE  WireOK(GiveUp(p), known) /\ GiveUp(p).finish = p.finish
<1> DEFINE c == [Chunk EXCEPT !.kind = "error"]
           m == Enqueue(p, c)
           n == [m EXCEPT !.last = TRUE]
<1>1. c \in Chunks /\ c.kind = "error"
  BY ChunksMade
<1>2. GiveUp(p) = n
  BY DEF GiveUp
<1> HIDE DEF c
<1>3. Backs(c, p, known)
  BY <1>1 DEF Backs
<1>4. WireOK(m, known) /\ m = [p EXCEPT !.at = "write", !.queue = m.queue]
  BY <1>1, <1>3, Enqueued
<1> HIDE DEF m
<1>5. m \in Producers /\ p \in Producers
  BY <1>4 DEF WireOK
<1>6. n \in Producers /\ n.at = m.at /\ m.at = "write" /\ n.queue = m.queue /\ n.finish = m.finish /\ m.finish = p.finish
  BY <1>4, <1>5 DEF Producers
<1> HIDE DEF n
<1>7. \A k \in 1..Len(n.queue) : Backs(n.queue[k], n, known)
  BY <1>4, <1>6, Zenon DEF WireOK, Backs
<1> QED
  BY <1>2, <1>4, <1>6, <1>7 DEF WireOK

\* A chunk that belongs to a new call.
LEMMA CallEnqueued ==
    ASSUME NEW p, NEW known, WireOK(p, known), NEW c \in Chunks, Backs(c, p, known), NEW m \in Nat
    PROVE  LET n == [Enqueue(p, c) EXCEPT !.calls = m] IN WireOK(n, known) /\ n.finish = p.finish
<1> DEFINE e == Enqueue(p, c)
           n == [e EXCEPT !.calls = m]
<1>1. WireOK(e, known) /\ e = [p EXCEPT !.at = "write", !.queue = e.queue] /\ p \in Producers
  BY Enqueued DEF WireOK
<1> HIDE DEF e
<1>2. e.finish = p.finish /\ e \in Producers /\ e.at = "write"
  BY <1>1 DEF WireOK, Producers
<1>3. n \in Producers /\ n.queue = e.queue /\ n.at = "write" /\ n.finish = e.finish
  BY <1>2 DEF Producers
<1> HIDE DEF n
<1>4. \A k \in 1..Len(n.queue) : Backs(n.queue[k], n, known)
  BY <1>1, <1>3, Zenon DEF WireOK, Backs
<1>5. WireOK(n, known)
  BY <1>1, <1>2, <1>3, <1>4 DEF WireOK
<1> QED
  BY <1>2, <1>3, <1>5 DEF n, e

\* A signature is stored, or its call is given up.
LEMMA SignatureStored ==
    ASSUME WireInv, StoreSignature
    PROVE  /\ WireInv' /\ UNCHANGED <<feed, renderVars>> /\ signed \subseteq signed'
           /\ producer'.finish = producer.finish
<1> DEFINE p == producer
<1>1. /\ WireOK(p, signed) /\ p.at = "sign" /\ p \in Producers /\ feed \in {"copilot", "antigravity"} /\ feed # "copilot"
      /\ p.calls \in ToolIndexes
      /\ taken \in Nat /\ events \in Nat /\ events' = events /\ taken' = taken /\ feed' = feed
  BY DEF WireInv, StoreSignature, WireOK, renderVars
<1>2. WireOK(producer', signed') /\ signed \subseteq signed' /\ producer'.finish = p.finish
  <2>1. CASE producer' = GiveUp(p) /\ UNCHANGED signed
    BY <1>1, <2>1, GivenUp
  <2>2. CASE signed' = signed \cup {p.calls} /\ producer' = [p EXCEPT !.at = "call"]
    <3> DEFINE n == [p EXCEPT !.at = "call"]
    <3>1. n \in Producers /\ n.queue = p.queue /\ n.at = "call" /\ n.finish = p.finish /\ n.calls = p.calls
      BY <1>1 DEF Producers
    <3> HIDE DEF n
    <3>2. \A k \in 1..Len(n.queue) : Backs(n.queue[k], n, signed')
      BY <1>1, <2>2, <3>1, Zenon DEF WireOK, Backs
    <3>3. WireOK(n, signed')
      BY <1>1, <2>2, <3>1, <3>2 DEF WireOK
    <3> QED
      BY <2>2, <3>1, <3>3 DEF n
  <2> QED
    BY <2>1, <2>2 DEF StoreSignature
<1>3. UNCHANGED <<feed, renderVars>>
  BY DEF StoreSignature
<1> QED
  BY <1>1, <1>2, <1>3 DEF WireInv

\* A call whose signature is stored is passed on.
LEMMA CallPassedOn ==
    ASSUME WireInv, PassCallOn
    PROVE  WireInv' /\ UNCHANGED <<feed, renderVars, signed>> /\ producer'.finish = producer.finish
<1> DEFINE p == producer
           c == ToolChunk(p.calls, NameParts, 1)
<1>1. /\ WireOK(p, signed) /\ p.at = "call" /\ p \in Producers /\ feed \in {"copilot", "antigravity"} /\ feed # "copilot"
      /\ p.calls \in ToolIndexes /\ p.calls \in signed /\ p.calls \in Nat
      /\ taken \in Nat /\ events \in Nat /\ events' = events /\ taken' = taken /\ feed' = feed /\ signed' = signed
  BY DEF WireInv, PassCallOn, WireOK, Producers, renderVars
<1>2. c \in Chunks /\ c.kind = "tool" /\ c.i = p.calls
  <2>1. NameParts \in Nat /\ 1 \in Nat
    BY StreamAssumption
  <2> QED
    BY <1>1, <2>1 DEF ToolChunk, Chunk, Chunks, Reasons
<1>3. producer' = [Enqueue(p, c) EXCEPT !.calls = Enqueue(p, c).calls + 1] /\ Enqueue(p, c).calls = p.calls
  <2>1. producer' = [Enqueue(p, c) EXCEPT !.calls = Enqueue(p, c).calls + 1]
    BY DEF PassCallOn
  <2> HIDE DEF c
  <2>2. Enqueue(p, c).calls = p.calls
    BY <1>1 DEF Enqueue, Producers
  <2> QED
    BY <2>1, <2>2
<1> HIDE DEF c
<1>4. Backs(c, p, signed)
  BY <1>1, <1>2 DEF Backs
<1>5. WireOK(producer', signed) /\ producer'.finish = p.finish
  <2>1. p.calls + 1 \in Nat /\ producer' = [Enqueue(p, c) EXCEPT !.calls = p.calls + 1]
    BY <1>1, <1>3
  <2> QED
    BY <1>1, <1>2, <1>4, <2>1, CallEnqueued
<1>6. UNCHANGED <<feed, renderVars, signed>>
  BY DEF PassCallOn
<1> QED
  BY <1>1, <1>5, <1>6 DEF WireInv

\* Google's events: what the goroutine knows only grows.
LEMMA EventRead ==
    ASSUME WireInv, ReadEvent
    PROVE  /\ WireInv' /\ UNCHANGED <<feed, renderVars, signed>>
           /\ producer.finish # "none" => producer'.finish # "none"
<1> DEFINE p == producer
           Kept(q) == WireOK(q, signed) /\ (p.finish # "none" => q.finish # "none")
<1>1. /\ WireOK(p, signed) /\ p.at = "read" /\ p \in Producers /\ feed \in {"copilot", "antigravity"} /\ feed # "copilot"
      /\ taken \in Nat /\ events \in Nat /\ events' = events + 1 /\ taken' = taken /\ feed' = feed /\ signed' = signed
  BY DEF WireInv, ReadEvent, WireOK, renderVars
<1>2. p.finish \in Reasons /\ p.calls \in Nat
  BY <1>1 DEF Producers
<1>4. ASSUME NEW c \in Chunks, c.kind \in {"text", "empty"}, producer' = Enqueue(p, c)
      PROVE  Kept(producer')
  <2>1. Backs(c, p, signed)
    BY <1>4 DEF Backs
  <2>2. WireOK(Enqueue(p, c), signed) /\ Enqueue(p, c) = [p EXCEPT !.at = "write", !.queue = Enqueue(p, c).queue]
    BY <1>1, <2>1, Enqueued
  <2>3. Enqueue(p, c).finish = p.finish
    BY <1>1, <2>2 DEF Producers
  <2> QED
    BY <1>4, <2>2, <2>3
<1>5. ASSUME producer' = GiveUp(p)
      PROVE  Kept(producer')
  BY <1>1, <1>5, GivenUp
<1>6. ASSUME NEW r \in Reasons, r # "none", producer' = [p EXCEPT !.finish = r]
      PROVE  Kept(producer')
  <2> DEFINE n == [p EXCEPT !.finish = r]
  <2>1. n \in Producers /\ n.queue = p.queue /\ n.at = p.at /\ n.finish = r /\ n.calls = p.calls
    BY <1>1 DEF Producers
  <2> HIDE DEF n
  <2>2. \A k \in 1..Len(n.queue) : Backs(n.queue[k], n, signed)
    BY <1>1, <1>6, <2>1, Zenon DEF WireOK, Backs
  <2>3. WireOK(n, signed)
    BY <1>1, <2>1, <2>2 DEF WireOK
  <2> QED
    BY <1>6, <2>1, <2>3 DEF n
<1>7. ASSUME FunctionCall(p)
      PROVE  Kept(producer')
  <2>1. CASE producer' = GiveUp(p)
    BY <1>5, <2>1
  <2>2. CASE p.calls \in ToolIndexes /\ producer' = [p EXCEPT !.at = "sign"]
    <3> DEFINE n == [p EXCEPT !.at = "sign"]
    <3>1. n \in Producers /\ n.queue = p.queue /\ n.at = "sign" /\ n.finish = p.finish /\ n.calls = p.calls
      BY <1>1 DEF Producers
    <3> HIDE DEF n
    <3>2. \A k \in 1..Len(n.queue) : Backs(n.queue[k], n, signed)
      BY <1>1, <3>1, Zenon DEF WireOK, Backs
    <3>3. WireOK(n, signed)
      BY <2>2, <3>1, <3>2 DEF WireOK
    <3> QED
      BY <2>2, <3>1, <3>3 DEF n
  <2> QED
    BY <1>7, <2>1, <2>2 DEF FunctionCall
<1>8. Kept(producer')
  <2>1. CASE producer' = Enqueue(p, [Chunk EXCEPT !.kind = "text", !.f = events'])
    <3> DEFINE c == [Chunk EXCEPT !.kind = "text", !.f = events']
    <3>1. c \in Chunks /\ c.kind = "text"
      <4>1. events' \in Nat
        BY <1>1
      <4>2. "text" \in {"error", "usage", "empty", "text", "refusal", "tool", "finish"}
        OBVIOUS
      <4> QED
        BY <4>1, <4>2, ChunksMade, Zenon
    <3> HIDE DEF c
    <3>2. producer' = Enqueue(p, c)
      BY <2>1 DEF c
    <3> QED
      BY <1>4, <2>1, <3>1, <3>2
  <2>2. CASE producer' = Enqueue(p, Chunk)
    <3>1. Chunk \in Chunks /\ Chunk.kind = "empty"
      BY DEF ToolChunk, Chunk, Chunks, Reasons
    <3> QED
      BY <1>4, <2>2, <3>1
  <2>3. CASE FunctionCall(p)
    BY <1>7, <2>3
  <2>4. CASE producer' = [p EXCEPT !.finish = IF p.calls > 0 THEN "tool_calls" ELSE "stop"]
    <3> DEFINE r == IF p.calls > 0 THEN "tool_calls" ELSE "stop"
    <3>1. r \in Reasons /\ r # "none"
      BY DEF Reasons
    <3> HIDE DEF r
    <3>2. producer' = [p EXCEPT !.finish = r]
      BY <2>4 DEF r
    <3> QED
      BY <1>6, <2>4, <3>1, <3>2
  <2>5. CASE \E r \in {"length", "content_filter"} : producer' = [p EXCEPT !.finish = r]
    <3>1. PICK r \in {"length", "content_filter"} : producer' = [p EXCEPT !.finish = r]
      BY <2>5
    <3>2. r \in Reasons /\ r # "none"
      BY DEF Reasons
    <3> QED
      BY <1>6, <2>5, <3>1, <3>2
  <2>6. CASE producer' = GiveUp(p)
    BY <1>5, <2>6
  <2> QED
    BY <2>1, <2>2, <2>3, <2>4, <2>5, <2>6 DEF ReadEvent
<1>9. UNCHANGED <<feed, renderVars, signed>>
  BY DEF ReadEvent
<1>10. WireInv'
  BY <1>1, <1>8 DEF WireInv
<1> QED
  BY <1>8, <1>9, <1>10

\* Google's stream ends.
LEMMA EventsEnd ==
    ASSUME WireInv, EndOfEvents
    PROVE  /\ WireInv' /\ UNCHANGED <<feed, renderVars, signed>>
           /\ producer.finish # "none" => producer'.finish # "none"
<1> DEFINE p == producer
           Kept(q) == WireOK(q, signed) /\ (p.finish # "none" => q.finish # "none")
<1>1. /\ WireOK(p, signed) /\ p.at = "read" /\ p \in Producers /\ feed \in {"copilot", "antigravity"} /\ feed # "copilot"
      /\ taken \in Nat /\ events \in Nat /\ taken' = taken /\ events' = events /\ feed' = feed /\ signed' = signed
  BY DEF WireInv, EndOfEvents, WireOK, renderVars
<1>2. p.finish \in Reasons
  BY <1>1 DEF Producers
<1>3. ASSUME producer' = GiveUp(p)
      PROVE  Kept(producer')
  <2>1. WireOK(GiveUp(p), signed) /\ GiveUp(p).finish = p.finish
    BY <1>1, GivenUp, Zenon
  <2> QED
    BY <1>3, <2>1
<1>4. ASSUME p.finish # "none",
             producer' = [Enqueue(Enqueue(p, [Chunk EXCEPT !.kind = "finish", !.reason = p.finish]),
                                  [Chunk EXCEPT !.kind = "usage"]) EXCEPT !.last = TRUE]
      PROVE  Kept(producer')
  <2> DEFINE c == [Chunk EXCEPT !.kind = "finish", !.reason = p.finish]
             u == [Chunk EXCEPT !.kind = "usage"]
             a == Enqueue(p, c)
             b == Enqueue(a, u)
             n == [b EXCEPT !.last = TRUE]
  <2>1. c \in Chunks /\ c.kind = "finish" /\ u \in Chunks /\ u.kind = "usage"
    BY <1>2 DEF ToolChunk, Chunk, Chunks, Reasons
  <2>2. producer' = n
    BY <1>4
  <2> HIDE DEF c, u
  <2>3. Backs(c, p, signed)
    BY <1>4, <2>1 DEF Backs
  <2>4. WireOK(a, signed) /\ a = [p EXCEPT !.at = "write", !.queue = a.queue]
    <3>1. signed \subseteq signed
      OBVIOUS
    <3>2. WireOK(p, signed) /\ c \in Chunks
      BY <1>1, <2>1
    <3> HIDE DEF p
    <3> QED
      BY <2>3, <3>1, <3>2, Enqueued
  <2> HIDE DEF a
  <2>5. Backs(u, a, signed)
    BY <2>1 DEF Backs
  <2>6. WireOK(b, signed) /\ b = [a EXCEPT !.at = "write", !.queue = b.queue]
    <3>1. signed \subseteq signed
      OBVIOUS
    <3>2. WireOK(a, signed) /\ u \in Chunks
      BY <2>1, <2>4
    <3> QED
      BY <2>5, <3>1, <3>2, Enqueued
  <2> HIDE DEF b
  <2>7. a \in Producers /\ b \in Producers /\ b.at = "write" /\ a.finish = p.finish /\ b.finish = a.finish
    BY <1>1, <2>4, <2>6 DEF WireOK, Producers
  <2>8. n \in Producers /\ n.at = b.at /\ n.queue = b.queue /\ n.finish = b.finish
    BY <2>7 DEF Producers
  <2> HIDE DEF n
  <2>9. \A k \in 1..Len(n.queue) : Backs(n.queue[k], n, signed)
    BY <2>6, <2>8, Zenon DEF WireOK, Backs
  <2>10. WireOK(n, signed)
    BY <2>6, <2>7, <2>8, <2>9 DEF WireOK
  <2> QED
    BY <2>2, <2>7, <2>8, <2>10
<1>5. Kept(producer')
  BY <1>3, <1>4 DEF EndOfEvents
<1>6. UNCHANGED <<feed, renderVars, signed>>
  BY DEF EndOfEvents
<1>7. WireInv'
  BY <1>1, <1>5 DEF WireInv
<1> QED
  BY <1>5, <1>6, <1>7

\* The goroutine stops.
LEMMA WriterStopped ==
    ASSUME WireInv, WriterStops
    PROVE  WireInv' /\ UNCHANGED <<feed, renderVars, signed>> /\ producer'.finish = producer.finish
<1>1. /\ producer \in Producers /\ feed \in {"copilot", "antigravity"} /\ taken \in Nat /\ events \in Nat
      /\ taken' = taken /\ events' = events /\ feed' = feed /\ signed' = signed
      /\ producer' = [producer EXCEPT !.at = "closed", !.queue = <<>>]
  BY DEF WireInv, WriterStops, WireOK, renderVars
<1>2. <<>> \in Seq(Chunks) /\ Len(<<>>) = 0
  OBVIOUS
<1>3. producer' \in Producers /\ producer'.at = "closed" /\ producer'.queue = <<>> /\ producer'.finish = producer.finish
  BY <1>1, <1>2 DEF Producers
<1>4. WireOK(producer', signed)
  BY <1>2, <1>3 DEF WireOK
<1>5. UNCHANGED <<feed, renderVars, signed>>
  BY DEF WriterStops
<1> QED
  BY <1>1, <1>3, <1>4, <1>5 DEF WireInv

\* A chunk is taken: whatever the renderer has learnt, the chunk said.
LEMMA ChunkTaken ==
    ASSUME RenderInv, NEW c \in Chunks, c.kind = "tool" => c.i \in ToolIndexes, TakeChunk(c)
    PROVE  /\ RenderInv'
           /\ rs'.finish = rs.finish \/ c.kind = "finish"
           /\ \A j \in ToolIndexes : rs'.tools[j].index >= 0 => rs.tools[j].index >= 0 \/ (c.kind = "tool" /\ j = c.i)
<1>1. PICK n : n = ConsumeChunk(rs, c)
  OBVIOUS
<1>2. /\ ended = "no" /\ rs' = n /\ ended' = IF n.failed THEN "failed" ELSE "no"
      /\ recorded' = IF n.failed THEN [recorded EXCEPT !.limit = n.limit] ELSE recorded
  BY <1>1 DEF TakeChunk
<1>3. rs \in Streams /\ Live(rs)
  BY <1>2 DEF RenderInv
<1>4. /\ n \in Streams /\ Sound(n.out) /\ (~n.failed => Live(n))
      /\ n.finish = rs.finish \/ c.kind = "finish"
      /\ \A j \in ToolIndexes : n.tools[j].index >= 0 => rs.tools[j].index >= 0 \/ (c.kind = "tool" /\ j = c.i)
  BY <1>1, <1>3, ChunkConsumed
<1>5. recorded \in [limit : {"none", "quota"}, usage : BOOLEAN, session : BOOLEAN] /\ ~recorded.usage /\ ~recorded.session
  BY <1>2 DEF RenderInv, FinishedMeansWhole
<1>6. n.limit \in {"none", "quota"} /\ n.failed \in BOOLEAN
  BY <1>4 DEF Streams
<1>7. /\ recorded' \in [limit : {"none", "quota"}, usage : BOOLEAN, session : BOOLEAN]
      /\ ~recorded'.usage /\ ~recorded'.session
  BY <1>2, <1>5, <1>6
<1>8. ended' \in {"no", "failed"} /\ (ended' = "no" => ~n.failed)
  BY <1>2
<1>9. FinishedMeansWhole'
  BY <1>7, <1>8 DEF FinishedMeansWhole
<1> QED
  BY <1>2, <1>4, <1>7, <1>8, <1>9 DEF RenderInv

\* The renderer ends.
LEMMA ChunksEnd ==
    ASSUME RenderInv, EndOfChunks
    PROVE  RenderInv' /\ rs'.finish = rs.finish /\ \A j \in ToolIndexes : rs'.tools[j].index = rs.tools[j].index
<1>1. /\ ended = "no" /\ rs \in Streams /\ Live(rs) /\ Sound(rs.out)
      /\ recorded \in [limit : {"none", "quota"}, usage : BOOLEAN, session : BOOLEAN] /\ ~recorded.usage /\ ~recorded.session
  BY DEF RenderInv, EndOfChunks, FinishedMeansWhole
<1>2. rs.limit \in {"none", "quota"} /\ rs.usage \in BOOLEAN
  BY <1>1 DEF Streams
<1>3. CASE rs.started /\ rs.finish # "none"
  <2>1. PICK n : n = FinishStream(rs)
    OBVIOUS
  <2>2. rs' = n /\ ended' = "finished" /\ recorded' = [limit |-> rs.limit, usage |-> rs.usage, session |-> TRUE]
    BY <1>3, <2>1 DEF EndOfChunks
  <2>3. /\ n \in Streams /\ Sound(n.out) /\ n.finish = rs.finish
        /\ \A i \in ToolIndexes : n.tools[i].index = rs.tools[i].index
        /\ \A x \in 0..(n.nextOutput - 1) : Has(n.out, "item_done", x, -1)
    BY <1>1, <2>1, StreamFinished
  <2>4. ASSUME NEW x \in 0..(n.nextOutput - 1)
        PROVE  Positions("item_done", x, -1)' # {}
    <3>1. \E a \in 1..Len(n.out) : n.out[a].type = "item_done" /\ n.out[a].item = x /\ n.out[a].part = -1
      BY <2>3 DEF Has, Seen
    <3> QED
      BY <2>2, <3>1 DEF Positions
  <2>5. FinishedMeansWhole'
    BY <2>2, <2>4 DEF FinishedMeansWhole
  <2>6. recorded' \in [limit : {"none", "quota"}, usage : BOOLEAN, session : BOOLEAN]
    BY <1>2, <2>2
  <2> QED
    BY <1>3, <2>2, <2>3, <2>5, <2>6 DEF RenderInv
<1>4. CASE ~(rs.started /\ rs.finish # "none")
  <2>1. ended' = "cut" /\ rs' = rs /\ recorded' = [recorded EXCEPT !.limit = rs.limit]
    BY <1>4 DEF EndOfChunks
  <2>2. /\ recorded' \in [limit : {"none", "quota"}, usage : BOOLEAN, session : BOOLEAN]
        /\ ~recorded'.usage /\ ~recorded'.session
    BY <1>1, <1>2, <2>1
  <2>3. FinishedMeansWhole'
    BY <2>1, <2>2 DEF FinishedMeansWhole
  <2> QED
    BY <1>1, <2>1, <2>2, <2>3 DEF RenderInv
<1> QED
  BY <1>3, <1>4

LEMMA ReadingFailed ==
    ASSUME RenderInv, ReadingFails
    PROVE  RenderInv' /\ rs' = rs
<1>1. /\ ended = "no" /\ rs \in Streams /\ Sound(rs.out) /\ ended' = "cut" /\ rs' = rs
      /\ recorded \in [limit : {"none", "quota"}, usage : BOOLEAN, session : BOOLEAN] /\ ~recorded.usage /\ ~recorded.session
      /\ recorded' = [recorded EXCEPT !.limit = rs.limit]
  BY DEF RenderInv, ReadingFails, FinishedMeansWhole
<1>2. rs.limit \in {"none", "quota"}
  BY <1>1 DEF Streams
<1>3. /\ recorded' \in [limit : {"none", "quota"}, usage : BOOLEAN, session : BOOLEAN]
      /\ ~recorded'.usage /\ ~recorded'.session
  BY <1>1, <1>2
<1>4. FinishedMeansWhole'
  BY <1>1, <1>3 DEF FinishedMeansWhole
<1> QED
  BY <1>1, <1>3, <1>4 DEF RenderInv

\* A chunk is handed over.
LEMMA HandedOver ==
    ASSUME StreamInv, HandOver
    PROVE  StreamInv'
<1> DEFINE p == producer
           q == p.queue
           c == Head(q)
           n == [p EXCEPT !.queue = Tail(q), !.at = IF Len(q) > 1 THEN "write" ELSE IF p.last THEN "closed" ELSE "read"]
<1>1. /\ p \in Producers /\ p.at = "write" /\ q # <<>> /\ \A k \in 1..Len(q) : Backs(q[k], p, signed)
      /\ feed \in {"copilot", "antigravity"} /\ feed # "copilot" /\ taken \in Nat /\ events \in Nat
      /\ taken' = taken /\ events' = events /\ feed' = feed /\ signed' = signed /\ RenderInv /\ Backed
  BY DEF StreamInv, WireInv, HandOver, WireOK
<1>2. producer' = n /\ TakeChunk(c)
  BY DEF HandOver
<1>3. q \in Seq(Chunks) /\ p.last \in BOOLEAN
  BY <1>1 DEF Producers
<1> HIDE DEF q
<1>4. /\ c = q[1] /\ c \in Chunks /\ 1 \in 1..Len(q) /\ Len(q) \in Nat
      /\ Tail(q) \in Seq(Chunks) /\ Len(Tail(q)) = Len(q) - 1 /\ \A k \in 1..(Len(q) - 1) : Tail(q)[k] = q[k + 1]
  BY <1>1, <1>3
<1>5. Backs(c, p, signed)
  BY <1>1, <1>4
<1> HIDE DEF c
<1>6. /\ RenderInv' /\ (rs'.finish = rs.finish \/ c.kind = "finish")
      /\ \A j \in ToolIndexes : rs'.tools[j].index >= 0 => rs.tools[j].index >= 0 \/ (c.kind = "tool" /\ j = c.i)
  BY <1>1, <1>2, <1>4, <1>5, ChunkTaken DEF Backs
<1>7. /\ n \in Producers /\ n.queue = Tail(q) /\ n.finish = p.finish /\ (n.at = "write" => Len(q) > 1)
      /\ n.at \notin {"sign", "call"}
  BY <1>1, <1>3, <1>4 DEF Producers
<1> HIDE DEF n
<1>8. ASSUME NEW k \in 1..Len(n.queue)
      PROVE  Backs(n.queue[k], n, signed)
  <2>1. k \in 1..(Len(q) - 1) /\ k + 1 \in 1..Len(q)
    BY <1>4, <1>7
  <2>2. n.queue[k] = q[k + 1]
    BY <1>4, <1>7, <2>1
  <2>3. Backs(q[k + 1], p, signed)
    BY <1>1, <2>1 DEF q
  <2>4. Backs(n.queue[k], p, signed)
    BY <2>2, <2>3
  <2> QED
    BY <1>7, <2>4 DEF Backs
<1>9. n.at = "write" => n.queue # <<>>
  <2>1. n.at = "write" => Len(n.queue) > 0
    BY <1>4, <1>7
  <2>2. ~(Len(<<>>) > 0)
    OBVIOUS
  <2> QED
    BY <2>1, <2>2
<1>10. WireOK(n, signed)
  BY <1>7, <1>8, <1>9 DEF WireOK
<1>11. WireInv'
  BY <1>1, <1>2, <1>10 DEF WireInv
<1>12. Backed'
  <2>1. /\ \A j \in ToolIndexes : rs.tools[j].index >= 0 => j \in signed
        /\ rs.finish # "none" => p.finish # "none"
    BY <1>1 DEF Backed, SignatureBeforeCall
  <2>2. \A j \in ToolIndexes : rs'.tools[j].index >= 0 => j \in signed'
    BY <1>1, <1>5, <1>6, <2>1 DEF Backs
  <2>3. rs'.finish # "none" => producer'.finish # "none"
    BY <1>2, <1>5, <1>6, <1>7, <2>1 DEF Backs
  <2> QED
    BY <2>2, <2>3 DEF Backed, SignatureBeforeCall
<1> QED
  BY <1>6, <1>11, <1>12 DEF StreamInv

\* What Copilot sends is a chunk.
LEMMA CopilotsChunks ==
    ASSUME NEW t \in Nat, NEW c \in CopilotChunks(t)
    PROVE  c \in Chunks /\ (c.kind = "tool" => c.i \in ToolIndexes)
<1>1. CASE \E k \in {"text", "refusal", "empty", "usage"} : c = [Chunk EXCEPT !.kind = k, !.f = t]
  <2>1. PICK k \in {"text", "refusal", "empty", "usage"} : c = [Chunk EXCEPT !.kind = k, !.f = t]
    BY <1>1, Zenon
  <2> QED
    BY <2>1 DEF ToolChunk, Chunk, Chunks, Reasons
<1>2. CASE \E r \in {"stop", "length"} : c = [Chunk EXCEPT !.kind = "finish", !.reason = r]
  <2>1. PICK r \in {"stop", "length"} : c = [Chunk EXCEPT !.kind = "finish", !.reason = r]
    BY <1>2, Zenon
  <2> QED
    BY <2>1 DEF ToolChunk, Chunk, Chunks, Reasons
<1>3. CASE \E l \in {"none", "quota"} : c = [Chunk EXCEPT !.kind = "error", !.limit = l]
  <2>1. PICK l \in {"none", "quota"} : c = [Chunk EXCEPT !.kind = "error", !.limit = l]
    BY <1>3, Zenon
  <2> QED
    BY <2>1 DEF ToolChunk, Chunk, Chunks, Reasons
<1>4. CASE \E i \in ToolIndexes, names \in {0, 1}, f \in {0, t} :
             c = ToolChunk(i, names, f)
  <2>1. PICK i \in ToolIndexes, names \in {0, 1}, f \in {0, t} :
          c = ToolChunk(i, names, f)
    BY <1>4, Zenon
  <2>2. names \in Nat /\ f \in Nat
    OBVIOUS
  <2> QED
    BY <2>1, <2>2 DEF ToolChunk, Chunk, Chunks, Reasons
<1> DEFINE A == {[Chunk EXCEPT !.kind = k, !.f = t] : k \in {"text", "refusal", "empty", "usage"}}
           B == {[Chunk EXCEPT !.kind = "finish", !.reason = r] : r \in {"stop", "length"}}
           D == {[Chunk EXCEPT !.kind = "error", !.limit = l] : l \in {"none", "quota"}}
           E == {ToolChunk(i, names, f) : i \in ToolIndexes, names \in {0, 1}, f \in {0, t}}
<1>5. c \in A \/ c \in B \/ c \in D \/ c \in E
  BY DEF CopilotChunks
<1>6. CASE c \in A
  BY <1>1, <1>6, Zenon
<1>7. CASE c \in B
  BY <1>2, <1>7, Zenon
<1>8. CASE c \in D
  BY <1>3, <1>8, Zenon
<1>9. CASE c \in E
  <2>1. \E i \in ToolIndexes, names \in {0, 1}, f \in {0, t} : c = ToolChunk(i, names, f)
    BY <1>9
  <2> QED
    BY <1>4, <2>1
<1> HIDE DEF A, B, D, E
<1> QED
  BY <1>5, <1>6, <1>7, <1>8, <1>9

\* Copilot's chunks, its end and its failures.
LEMMA CopilotRendered ==
    ASSUME StreamInv, Render, UNCHANGED wireVars
    PROVE  StreamInv'
<1>1. /\ feed = "copilot" /\ feed' = feed /\ producer' = producer /\ events' = events /\ signed' = signed
      /\ WireInv /\ RenderInv /\ taken \in Nat
  BY DEF StreamInv, Render, wireVars, WireInv
<1>2. RenderInv' /\ taken' \in Nat
  <2>1. ASSUME NEW c \in CopilotChunks(taken + 1), TakeChunk(c)
        PROVE  RenderInv'
    <3>1. c \in Chunks /\ (c.kind = "tool" => c.i \in ToolIndexes)
      <4>1. taken + 1 \in Nat
        BY <1>1
      <4> QED
        BY <2>1, <4>1, CopilotsChunks
    <3> QED
      BY <1>1, <2>1, <3>1, ChunkTaken
  <2>2. ASSUME EndOfChunks PROVE RenderInv'
    BY <1>1, <2>2, ChunksEnd
  <2>3. ASSUME ReadingFails PROVE RenderInv'
    BY <1>1, <2>3, ReadingFailed
  <2>4. taken' \in Nat
    BY <1>1 DEF Render
  <2> QED
    BY <2>1, <2>2, <2>3, <2>4 DEF Render
<1>3. WireInv'
  BY <1>1, <1>2 DEF WireInv
<1>4. Backed'
  BY <1>1 DEF Backed
<1> QED
  BY <1>2, <1>3, <1>4 DEF StreamInv

\* An event that is no delta says nothing.
LEMMA QuietBy ==
    ASSUME NEW out \in Seq(Events), NEW n \in 1..Len(out), out[n].type # "delta", NEW item, NEW part
    PROVE  SaidBy(out, n, item, part) = SaidBy(out, n - 1, item, part)
<1> DEFINE of(m) == [k \in 1..m |-> IF out[k].type = "delta" /\ out[k].item = item /\ out[k].part = part THEN out[k].text ELSE <<>>]
           p == of(n - 1)
           q == of(n)
<1>1. n \in Nat \ {0} /\ n - 1 \in Nat /\ (n - 1) + 1 = n /\ \A k \in 1..n : out[k] \in Events /\ (k \in 1..(n - 1) \/ k = n)
  OBVIOUS
<1>2. \A k \in 1..n : out[k].text \in Seq(Nat)
  BY <1>1 DEF Events
<1>3. q \in Seq(Seq(Nat)) /\ Len(q) = n
  BY <1>1, <1>2
<1>4. p \in Seq(Seq(Nat)) /\ Len(p) = n - 1
  <2>1. \A k \in 1..(n - 1) : out[k].text \in Seq(Nat)
    BY <1>2
  <2> QED
    BY <1>1, <2>1
<1> DEFINE last == <<>>
<1>5. q[n] = last /\ last \in Seq(Nat) /\ \A k \in 1..(n - 1) : q[k] = p[k]
  OBVIOUS
<1>6. SaidBy(out, n, item, part) = FlattenSeq(q) /\ SaidBy(out, n - 1, item, part) = FlattenSeq(p)
  BY DEF SaidBy
<1> HIDE DEF p, q, last
<1>7. q = Append(p, last)
  <2>1. Append(p, last) \in Seq(Seq(Nat)) /\ Len(Append(p, last)) = n
    BY <1>1, <1>4, <1>5
  <2>2. \A k \in 1..n : q[k] = Append(p, last)[k]
    BY <1>1, <1>4, <1>5
  <2> QED
    BY <1>3, <2>1, <2>2, SeqEqual
<1>8. FlattenSeq(p) \in Seq(Nat) /\ FlattenSeq(q) = FlattenSeq(p) \o last
  BY <1>4, <1>5, <1>7, FlattenAppend
<1> QED
  BY <1>6, <1>8, ConcatEmptySeq DEF last

LEMMA StreamInitially ==
    ASSUME StreamInit
    PROVE  StreamInv
<1> DEFINE s == [started |-> FALSE, failed |-> FALSE, finish |-> "none", nextOutput |-> 0, message |-> NoMessage,
                 tools |-> [i \in ToolIndexes |-> NoTool], usage |-> FALSE, limit |-> "none", out |-> <<>>]
           p == [at |-> IF feed = "antigravity" THEN "read" ELSE "closed", queue |-> <<>>, finish |-> "none", calls |-> 0, last |-> FALSE]
<1>1. /\ feed \in {"copilot", "antigravity"} /\ rs = s /\ ended = "no" /\ recorded = NothingRecorded /\ taken = 0
      /\ producer = p /\ events = 0
  BY DEF StreamInit, RenderInit
<1>2. NoMessage \in Messages /\ NoMessage.index = -1
  BY DEF NoMessage, Messages
<1>3. NoTool \in Calls /\ NoTool.index = -1 /\ NoTool.args = <<>> /\ ~NoTool.added /\ ~NoTool.custom
  BY DEF NoTool, Calls
<1>4. <<>> \in Seq(Events) /\ <<>> \in Seq(Chunks) /\ Len(<<>>) = 0
  OBVIOUS
<1>5. /\ rs \in Streams /\ rs.out = <<>> /\ rs.message = NoMessage /\ rs.nextOutput = 0 /\ rs.finish = "none"
      /\ \A i \in ToolIndexes : rs.tools[i] = NoTool
  BY <1>1, <1>2, <1>3, <1>4 DEF Streams, Reasons
<1>6. /\ p \in Producers /\ p.queue = <<>> /\ p.finish = "none" /\ p.at \in {"read", "closed"} /\ (feed = "copilot" => p.at = "closed")
  BY <1>4 DEF Producers, Reasons
<1> HIDE DEF s, p
<1>7. Sound(<<>>) /\ ~Over(<<>>) /\ \A type, item, part : ~Has(<<>>, type, item, part)
  BY <1>4 DEF Sound, Over, OverBy, Has, Seen
<1>8. \A item, part : Fresh(<<>>, item, part)
  <2>1. ASSUME NEW item, NEW part
        PROVE  Said(<<>>, item, part) = <<>>
    <3> DEFINE q == [k \in 1..Len(<<>>) |-> IF <<>>[k].type = "delta" /\ <<>>[k].item = item /\ <<>>[k].part = part THEN <<>>[k].text ELSE <<>>]
    <3>1. Said(<<>>, item, part) = FlattenSeq(q)
      BY DEF Said, SaidBy
    <3>2. q = <<>>
      BY <1>4
    <3> HIDE DEF q
    <3> QED
      BY <3>1, <3>2, FlattenNothing
  <2> QED
    BY <1>7, <2>1, Zenon DEF Fresh
<1>9. Numbered(rs)
  BY <1>2, <1>3, <1>5 DEF Numbered
<1>10. MessageOpen(rs.out, rs.message) /\ \A i \in ToolIndexes : CallOpen(rs.out, rs.tools[i])
  BY <1>2, <1>3, <1>5 DEF MessageOpen, CallOpen
<1>11. Live(rs)
  BY <1>5, <1>7, <1>8, <1>9, <1>10 DEF Live
<1>12. RenderInv
  BY <1>1, <1>5, <1>7, <1>11 DEF RenderInv, FinishedMeansWhole, NothingRecorded
<1>13. WireInv
  BY <1>1, <1>4, <1>6 DEF WireInv, WireOK
<1>14. Backed
  BY <1>3, <1>5 DEF Backed, SignatureBeforeCall
<1> QED
  BY <1>12, <1>13, <1>14 DEF StreamInv

LEMMA StreamStep ==
    ASSUME StreamInv, [StreamNext]_streamVars
    PROVE  StreamInv'
<1>1. WireInv /\ RenderInv /\ Backed
  BY DEF StreamInv
<1>2. ASSUME NEW x, rs' = x, \A j \in ToolIndexes : x.tools[j].index = rs.tools[j].index, x.finish = rs.finish,
             feed' = feed, signed \subseteq signed', producer.finish # "none" => producer'.finish # "none"
      PROVE  Backed'
  BY <1>1, <1>2 DEF Backed, SignatureBeforeCall
<1>3. ASSUME rs' = rs, feed' = feed, signed \subseteq signed', producer.finish # "none" => producer'.finish # "none"
      PROVE  Backed'
  BY <1>1, <1>3 DEF Backed, SignatureBeforeCall
<1>4. ASSUME UNCHANGED renderVars
      PROVE  RenderInv' /\ rs' = rs
  <2>1. rs' = rs /\ ended' = ended /\ recorded' = recorded
    BY <1>4 DEF renderVars
  <2> QED
    BY <1>1, <2>1 DEF RenderInv, FinishedMeansWhole, Positions
<1>5. CASE Render /\ UNCHANGED wireVars
  BY <1>5, CopilotRendered
<1>6. CASE ReadEvent
  BY <1>1, <1>3, <1>4, <1>6, EventRead DEF StreamInv
<1>13. CASE StoreSignature
  BY <1>1, <1>3, <1>4, <1>13, SignatureStored DEF StreamInv
<1>14. CASE PassCallOn
  BY <1>1, <1>3, <1>4, <1>14, CallPassedOn DEF StreamInv
<1>7. CASE EndOfEvents
  BY <1>1, <1>3, <1>4, <1>7, EventsEnd DEF StreamInv
<1>8. CASE HandOver
  BY <1>8, HandedOver
<1>9. CASE WriterStops
  BY <1>1, <1>3, <1>4, <1>9, WriterStopped DEF StreamInv
<1>10. CASE PipeEnds
  <2>1. EndOfChunks /\ feed' = feed /\ taken' = taken /\ producer' = producer /\ events' = events /\ signed' = signed
    BY <1>10 DEF PipeEnds, wireVars
  <2>2. RenderInv' /\ rs'.finish = rs.finish /\ \A j \in ToolIndexes : rs'.tools[j].index = rs.tools[j].index
    BY <1>1, <2>1, ChunksEnd
  <2>3. WireInv'
    BY <1>1, <2>1 DEF WireInv
  <2>4. Backed'
    BY <1>2, <2>1, <2>2
  <2> QED
    BY <2>2, <2>3, <2>4 DEF StreamInv
<1>11. CASE LineTooLong
  <2>1. ReadingFails /\ feed' = feed /\ taken' = taken /\ producer' = producer /\ events' = events /\ signed' = signed
    BY <1>11 DEF LineTooLong, wireVars
  <2>2. RenderInv' /\ rs' = rs
    BY <1>1, <2>1, ReadingFailed
  <2>3. WireInv'
    BY <1>1, <2>1 DEF WireInv
  <2>4. Backed'
    BY <1>3, <2>1, <2>2
  <2> QED
    BY <2>2, <2>3, <2>4 DEF StreamInv
<1>12. CASE CloseBody \/ UNCHANGED streamVars
  <2>1. UNCHANGED renderVars /\ feed' = feed /\ taken' = taken /\ producer' = producer /\ events' = events /\ signed' = signed
    BY <1>12 DEF CloseBody, streamVars, renderVars, wireVars
  <2>2. RenderInv' /\ rs' = rs
    BY <1>4, <2>1
  <2>3. WireInv'
    BY <1>1, <2>1 DEF WireInv
  <2>4. Backed'
    BY <1>3, <2>1, <2>2
  <2> QED
    BY <2>2, <2>3, <2>4 DEF StreamInv
<1> QED
  BY <1>5, <1>6, <1>7, <1>8, <1>9, <1>10, <1>11, <1>12, <1>13, <1>14 DEF StreamNext

\* A sound log is one a client can believe.
LEMMA SoundIsNested ==
    ASSUME RenderInv
    PROVE  EventsNested /\ DoneRepeatsDeltas
<1> DEFINE out == rs.out
           N == Len(out)
<1>1. out \in Seq(Events) /\ N \in Nat /\ \A n \in 1..N : out[n] \in Events /\ Follows(out, n - 1, out[n])
  <2>1. out \in Seq(Events) /\ Sound(out)
    BY DEF RenderInv, Streams
  <2> HIDE DEF out
  <2> QED
    BY <2>1 DEF Sound
<1>2. \A type, item, part : Positions(type, item, part) = {n \in 1..N : out[n].type = type /\ out[n].item = item /\ out[n].part = part}
  BY DEF Positions
<1> HIDE DEF out
<1>3. ASSUME NEW n \in 1..N, NEW type, NEW item, NEW part, Seen(out, n - 1, type, item, part)
      PROVE  \E a \in Positions(type, item, part) : a < n
  <2>1. PICK a \in 1..(n - 1) : out[a].type = type /\ out[a].item = item /\ out[a].part = part
    BY <1>3, Zenon DEF Seen
  <2>2. a \in 1..N /\ a < n
    BY <1>1
  <2> QED
    BY <1>2, <2>1, <2>2
<1>4. ASSUME NEW n \in 1..N, NEW type, NEW item, NEW part, ~Seen(out, n - 1, type, item, part), NEW d \in Positions(type, item, part)
      PROVE  n <= d
  <2>1. d \in 1..N /\ out[d].type = type /\ out[d].item = item /\ out[d].part = part
    BY <1>2, <1>4
  <2>2. d \notin 1..(n - 1)
    BY <1>4, <2>1, Zenon DEF Seen
  <2> QED
    BY <1>1, <2>1, <2>2
<1>5. ASSUME NEW n \in 1..N, out[n].type \in Once
      PROVE  Positions(out[n].type, out[n].item, out[n].part) = {n}
  <2> DEFINE same == Positions(out[n].type, out[n].item, out[n].part)
  <2>1. ~Seen(out, n - 1, out[n].type, out[n].item, out[n].part)
    BY <1>1, <1>5, Zenon DEF Follows
  <2>2. \A d \in same : n <= d
    BY <1>4, <2>1
  <2>3. ASSUME NEW d \in same
        PROVE  d \in 1..N /\ ~(n < d)
    <3>1. d \in 1..N /\ out[d].type = out[n].type /\ out[d].item = out[n].item /\ out[d].part = out[n].part
      BY <1>2, <2>3
    <3>2. ~Seen(out, d - 1, out[n].type, out[n].item, out[n].part)
      BY <1>1, <1>5, <3>1, Zenon DEF Follows
    <3>3. n \notin 1..(d - 1)
      BY <3>2, Zenon DEF Seen
    <3> QED
      BY <1>1, <3>1, <3>3
  <2>4. n \in same
    BY <1>2
  <2> HIDE DEF same
  <2> QED
    BY <1>1, <2>2, <2>3, <2>4 DEF same
<1>6. ASSUME NEW n \in 1..N, out[n].type \in Terminal
      PROVE  n = N
  <2>1. SUFFICES ASSUME n # N PROVE FALSE
    OBVIOUS
  <2>2. n + 1 \in 1..N /\ (n + 1) - 1 = n /\ n \in 1..n
    BY <1>1, <2>1
  <2>3. ~OverBy(out, n)
    <3>1. Follows(out, (n + 1) - 1, out[n + 1])
      BY <1>1, <2>2
    <3> QED
      BY <2>2, <3>1 DEF Follows
  <2> QED
    BY <1>6, <2>2, <2>3, Zenon DEF OverBy
<1>7. EventsNested
  <2>1. ASSUME NEW n \in 1..N
        PROVE  LET e == out[n] IN
               /\ e.item >= 0 /\ e.type # "item_added" =>
                    /\ \E a \in Positions("item_added", e.item, -1) : a < n
                    /\ \A d \in Positions("item_done", e.item, -1) : n <= d
               /\ e.part >= 0 /\ e.type # "part_added" =>
                    /\ \E a \in Positions("part_added", e.item, e.part) : a < n
                    /\ \A d \in Positions("part_done", e.item, e.part) : n <= d
    <3>1. Follows(out, n - 1, out[n])
      BY <1>1
    <3>2. ASSUME out[n].item >= 0, out[n].type # "item_added"
          PROVE  Seen(out, n - 1, "item_added", out[n].item, -1) /\ ~Seen(out, n - 1, "item_done", out[n].item, -1)
      BY <3>1, <3>2, Zenon DEF Follows
    <3>3. ASSUME out[n].part >= 0, out[n].type # "part_added"
          PROVE  Seen(out, n - 1, "part_added", out[n].item, out[n].part) /\ ~Seen(out, n - 1, "part_done", out[n].item, out[n].part)
      BY <3>1, <3>3, Zenon DEF Follows
    <3> QED
      BY <1>3, <1>4, <3>2, <3>3, Zenon
  <2> QED
    BY <1>5, <1>6, <2>1, Zenon DEF EventsNested, Once, out
<1>8. DoneRepeatsDeltas
  <2>1. ASSUME NEW n \in 1..N, out[n].type = "done"
        PROVE  out[n].text = SaidBy(out, n, out[n].item, out[n].part)
    <3>1. out[n].text = SaidBy(out, n - 1, out[n].item, out[n].part)
      BY <1>1, <2>1, Zenon DEF Follows
    <3> QED
      BY <1>1, <2>1, <3>1, QuietBy
  <2> QED
    BY <2>1, Zenon DEF DoneRepeatsDeltas, SaidBy, out
<1> QED
  BY <1>7, <1>8

\* The client of a Responses stream that is made from chat chunks can believe
\* it: events nested, done repeats deltas, finished means whole and comes from
\* the provider, and the signature of a call it knows is stored.
THEOREM StreamsAreFaithful == StreamSpec => []StreamFaithful
<1>1. StreamInit => StreamInv
  BY StreamInitially
<1>2. StreamInv /\ [StreamNext]_streamVars => StreamInv'
  BY StreamStep
<1>3. StreamInv => StreamFaithful
  <2> SUFFICES ASSUME StreamInv PROVE StreamFaithful
    OBVIOUS
  <2>1. RenderInv /\ Backed /\ FinishedMeansWhole /\ (ended = "finished" => rs.finish # "none")
    BY DEF StreamInv, RenderInv
  <2>2. EventsNested /\ DoneRepeatsDeltas
    BY <2>1, SoundIsNested
  <2>3. SignatureBeforeCall /\ FinishIsGoogles
    BY <2>1 DEF Backed, SignatureBeforeCall, FinishIsGoogles
  <2> QED
    BY <2>1, <2>2, <2>3 DEF StreamFaithful
<1> QED
  BY <1>1, <1>2, <1>3, PTL DEF StreamSpec
=============================================================================
