----------------------------- MODULE HistoryProofs -----------------------------
(***************************************************************************)
(* Proofs about History, for pages of any size and any history.  IInv is   *)
(* inductive: a walk has handed on whole pages, and what it has not handed *)
(* on lies on pages still to come, but for as many events as deletions     *)
(* have moved up; the newest grabs of an indexer are the ones made of this *)
(* call's releases, as long as it is alone.                                *)
(***************************************************************************)
EXTENDS TLAPS, History, FiniteSetTheorems, SequenceTheorems, FunctionTheorems

-----------------------------------------------------------------------------
(* Places: the events of a set have the places from 0 on, each its own,    *)
(* newer ones before older.                                                *)
LEMMA PlaceIs ==
  ASSUME NEW S, IsFiniteSet(S), S \subseteq Int
  PROVE  /\ \A e : Place(e, S) \in Nat
         /\ \A e, f \in S : e < f <=> Place(f, S) < Place(e, S)
         /\ \A e \in S : Place(e, S) < Cardinality(S)
<1> DEFINE Above(e) == {f \in S : f > e}
<1>0. \A e \in S : e \in Int
  OBVIOUS
<1>1. \A e : IsFiniteSet(Above(e)) /\ Place(e, S) = Cardinality(Above(e))
  BY FS_Subset DEF Place
<1>2. \A e : Place(e, S) \in Nat
  BY <1>1, FS_CardinalityType
<1>3. ASSUME NEW e \in S, NEW f \in S, e < f
      PROVE  Place(f, S) < Place(e, S)
  <2>1. ASSUME NEW h \in Above(f) PROVE h \in Above(e)
    BY <1>0, <1>3, <2>1
  <2>2. Above(f) \subseteq Above(e) /\ f \in Above(e) /\ f \notin Above(f)
    <3>1. Above(f) \subseteq Above(e)
      BY <2>1
    <3>2. f > e /\ ~(f > f)
      BY <1>0, <1>3
    <3> QED
      BY <3>1, <3>2
  <2>3. Cardinality(Above(f)) <= Cardinality(Above(e))
    BY <1>1, <2>2, FS_Subset
  <2>4. Cardinality(Above(f)) # Cardinality(Above(e))
    BY <1>1, <2>2, FS_Subset
  <2> QED
    BY <1>1, <1>2, <2>3, <2>4
<1>4. ASSUME NEW e \in S, NEW f \in S, Place(f, S) < Place(e, S)
      PROVE  e < f
  <2>1. e # f
    BY <1>2, <1>4
  <2>2. ~(f < e)
    BY <1>2, <1>3, <1>4
  <2> QED
    BY <2>1, <2>2
<1>5. ASSUME NEW e \in S PROVE Place(e, S) < Cardinality(S)
  <2>0. e \in Int
    OBVIOUS
  <2>1. Above(e) \subseteq S /\ e \notin Above(e)
    BY <2>0
  <2>2. Cardinality(Above(e)) <= Cardinality(S) /\ Cardinality(Above(e)) # Cardinality(S)
    BY <1>5, <2>1, FS_Subset
  <2> QED
    BY <1>1, <1>2, <2>2, FS_CardinalityType
<1> QED
  BY <1>2, <1>3, <1>4, <1>5

(* Some of the places: no more events than places, and as many where the   *)
(* set goes that far.                                                      *)
Slice(S, a, b) == {e \in S : Place(e, S) \in a..(b - 1)}

LEMMA SliceCount ==
  ASSUME NEW S, IsFiniteSet(S), S \subseteq Int,
         NEW a \in Int, NEW b \in Int, a <= b
  PROVE  /\ IsFiniteSet(Slice(S, a, b)) /\ Cardinality(Slice(S, a, b)) \in Nat
         /\ Cardinality(Slice(S, a, b)) <= b - a
         /\ 0 <= a /\ b <= Cardinality(S) => Cardinality(Slice(S, a, b)) = b - a
<1> DEFINE A == {e \in S : Place(e, S) \in a..(b - 1)}
           N == Cardinality(S)
           T == 0..(N - 1)
           f == [e \in S |-> Place(e, S)]
           g == [e \in A |-> Place(e, S)]
<1>0. /\ \A e \in S : e \in Int /\ Place(e, S) \in Nat /\ Place(e, S) < N
      /\ \A e, h \in S : e < h => Place(h, S) < Place(e, S)
  <2>1. \A e \in S : e \in Int
    OBVIOUS
  <2> QED
    BY <2>1, PlaceIs
<1>1. IsFiniteSet(A) /\ Cardinality(A) \in Nat /\ N \in Nat
  <2>1. A \in SUBSET S
    OBVIOUS
  <2>2. IsFiniteSet(A)
    BY <2>1, FS_Subset
  <2> QED
    BY <2>2, FS_CardinalityType
<1>2. IsFiniteSet(a..(b - 1)) /\ Cardinality(a..(b - 1)) = b - a
  <2>1. b - 1 \in Int
    OBVIOUS
  <2>2. /\ IsFiniteSet(a..(b - 1))
        /\ Cardinality(a..(b - 1)) = IF a > b - 1 THEN 0 ELSE (b - 1) - a + 1
    BY <2>1, FS_Interval
  <2> QED
    BY <2>2
<1>3. \A e, h \in S : Place(e, S) = Place(h, S) => e = h
  <2> SUFFICES ASSUME NEW e \in S, NEW h \in S, Place(e, S) = Place(h, S)
               PROVE  e = h
    OBVIOUS
  <2>1. e \in Int /\ h \in Int /\ ~(e < h) /\ ~(h < e)
    BY <1>0
  <2> QED
    BY <2>1
<1>4. g \in Injection(A, a..(b - 1))
  BY <1>3 DEF Injection, IsInjective
<1>5. Cardinality(A) <= b - a
  BY <1>2, <1>4, FS_Injection
<1>6. ASSUME 0 <= a, b <= N PROVE Cardinality(A) = b - a
  <2>1. f \in Injection(S, T)
    <3>1. \A e \in S : Place(e, S) \in T
      BY <1>0, <1>1
    <3> QED
      BY <1>3, <3>1 DEF Injection, IsInjective
  <2>2. IsFiniteSet(T) /\ Cardinality(T) = N
    <3> HIDE DEF N
    <3>1. N - 1 \in Int
      BY <1>1
    <3>2. IsFiniteSet(T) /\ Cardinality(T) = IF 0 > N - 1 THEN 0 ELSE (N - 1) - 0 + 1
      BY <3>1, FS_Interval
    <3> QED
      BY <1>1, <3>2
  <2>3. f \in Surjection(S, T)
    BY <2>1, <2>2, FS_Injection
  <2>4. ASSUME NEW n \in a..(b - 1) PROVE \E e \in A : g[e] = n
    <3>1. n \in T
      BY <1>1, <1>6
    <3>2. PICK e \in S : f[e] = n
      BY <2>3, <3>1 DEF Surjection
    <3> QED
      BY <3>2
  <2>5. g \in Surjection(A, a..(b - 1))
    BY <1>4, <2>4 DEF Surjection, Injection
  <2> QED
    BY <1>2, <1>4, <2>5, FS_Injection
<1> QED
  BY <1>1, <1>5, <1>6 DEF Slice

(* Where an event is among more, it is no sooner. *)
LEMMA PlaceGrows ==
  ASSUME NEW S, NEW T, IsFiniteSet(T), S \subseteq T, NEW e
  PROVE  Place(e, S) <= Place(e, T)
<1>1. {f \in S : f > e} \subseteq {f \in T : f > e}
  OBVIOUS
<1>2. IsFiniteSet({f \in T : f > e})
  BY FS_Subset
<1> QED
  BY <1>1, <1>2, FS_Subset DEF Place

(* An event taken away moves up what is older than it: of the events from  *)
(* a place on, no more come to be before that place than were taken from   *)
(* before it.                                                              *)
Took(S, own, n) == {e \in own \cap S : Place(e, S) < n}

Slipped(S, own, n) ==
  {e \in S \ own : Place(e, S \ own) < n /\ ~(Place(e, S) < n)}

LEMMA FewMoveUp ==
  ASSUME NEW S, IsFiniteSet(S), S \subseteq Int, NEW own, NEW n \in Nat
  PROVE  /\ IsFiniteSet(Slipped(S, own, n))
         /\ Cardinality(Took(S, own, n)) \in Nat
         /\ Cardinality(Slipped(S, own, n)) <= Cardinality(Took(S, own, n))
<1> DEFINE took == {e \in own \cap S : Place(e, S) < n}
           slipped == {e \in S \ own : Place(e, S \ own) < n /\ ~(Place(e, S) < n)}
           R == S \ own
           first == Slice(S, 0, n)
           k == Cardinality(took)
           slice == Slice(R, n - k, n)
<1>1. /\ IsFiniteSet(took) /\ IsFiniteSet(slipped) /\ IsFiniteSet(R) /\ IsFiniteSet(first)
      /\ R \subseteq Int
  <2>1. took \in SUBSET S /\ slipped \in SUBSET S /\ R \in SUBSET S /\ first \in SUBSET S
    BY DEF Slice
  <2> QED
    BY <2>1, FS_Subset
<1>2. k \in Nat /\ Cardinality(first) \in Nat /\ Cardinality(S) \in Nat
  BY <1>1, FS_CardinalityType
<1>0. /\ \A e \in S : /\ e \in Int /\ Place(e, S) \in Nat
                       /\ Place(e, S) < Cardinality(S)
                       /\ Place(e, R) \in Nat
      /\ \A e, f \in S : Place(f, S) < Place(e, S) => e < f
  <2>1. \A e \in S : e \in Int
    OBVIOUS
  <2>2. \A e : Place(e, R) \in Nat
    BY <1>1, PlaceIs
  <2>3. /\ \A e : Place(e, S) \in Nat
        /\ \A e, f \in S : e < f <=> Place(f, S) < Place(e, S)
        /\ \A e \in S : Place(e, S) < Cardinality(S)
    BY PlaceIs
  <2> QED
    BY <2>1, <2>2, <2>3
<1>3. ASSUME NEW e \in slipped PROVE e \in slice
  <2>1. e \in S /\ e \in R /\ Place(e, S) \in Nat /\ Place(e, R) \in Nat
        /\ Place(e, R) < n /\ n <= Place(e, S) /\ Place(e, S) < Cardinality(S)
    BY <1>0
  <2>2. Cardinality(first) = n
    <3>1. 0 \in Int /\ n \in Int /\ 0 <= n /\ n <= Cardinality(S)
      BY <1>2, <2>1
    <3>2. 0 <= 0 /\ n <= Cardinality(S) => Cardinality(Slice(S, 0, n)) = n - 0
      BY <3>1, SliceCount
    <3> QED
      BY <3>1, <3>2
  <2>3. first \ took \subseteq {f \in R : f > e}
    <3> SUFFICES ASSUME NEW f \in first, f \notin took PROVE f \in R /\ f > e
      OBVIOUS
    <3>1. f \in S /\ Place(f, S) < n
      BY <1>0 DEF Slice
    <3>2. f > e
      BY <1>0, <2>1, <3>1
    <3> QED
      BY <3>1, <3>2
  <2>4. IsFiniteSet({f \in R : f > e})
    BY <1>1, FS_Subset
  <2>5. Cardinality(first \ took) <= Place(e, R)
    BY <2>3, <2>4, FS_Subset DEF Place
  <2>6. took \subseteq first /\ first \cap took = took
    <3>1. ASSUME NEW f \in took PROVE f \in S /\ Place(f, S) \in 0..(n - 1)
      <4>1. f \in S /\ Place(f, S) < n
        OBVIOUS
      <4>2. Place(f, S) \in Nat
        BY <1>0, <4>1
      <4> QED
        BY <4>1, <4>2
    <3>2. took \subseteq first
      BY <3>1 DEF Slice
    <3> QED
      BY <3>2
  <2>7. Cardinality(first \ took) = n - k
    BY <1>1, <2>2, <2>6, FS_Difference
  <2> HIDE DEF R, k
  <2>8. Place(e, R) \in (n - k)..(n - 1)
    BY <1>2, <2>1, <2>5, <2>7
  <2> QED
    BY <2>1, <2>8 DEF Slice
<1>4. IsFiniteSet(slice) /\ Cardinality(slice) \in Nat /\ Cardinality(slice) <= k
  <2> DEFINE a == n - k
  <2>1. a \in Int /\ n \in Int /\ a <= n /\ n - a = k
    BY <1>2
  <2> HIDE DEF R, a
  <2>2. /\ IsFiniteSet(Slice(R, a, n)) /\ Cardinality(Slice(R, a, n)) \in Nat
        /\ Cardinality(Slice(R, a, n)) <= n - a
    BY <1>1, <2>1, SliceCount
  <2> QED
    BY <2>1, <2>2 DEF a
<1>5. slipped \subseteq slice
  BY <1>3
<1>6. Cardinality(slipped) <= Cardinality(slice) /\ Cardinality(slipped) \in Nat
  BY <1>1, <1>4, <1>5, FS_Subset, FS_CardinalityType
<1> QED
  BY <1>1, <1>2, <1>4, <1>6 DEF Took, Slipped

-----------------------------------------------------------------------------
(* What there is to count is finite. *)
LEMMA EventsAre ==
  ASSUME TypeOK
  PROVE  /\ IsFiniteSet(there) /\ there \subseteq Int /\ Cardinality(there) \in Nat
         /\ IsFiniteSet(Missed) /\ Cardinality(Missed) \in Nat
         /\ IsFiniteSet(Passed) /\ Cardinality(Passed) \in Nat
         /\ Offset \in Nat
         /\ \A e \in there : e \in Int /\ Place(e, there) \in Nat
<1>1. last \in Int /\ page \in Nat \ {0} /\ Size \in Nat \ {0}
  BY PagesAssumption DEF TypeOK
<1>2. IsFiniteSet(1..last) /\ there \in SUBSET (1..last)
  BY <1>1, FS_Interval DEF TypeOK
<1>3. Missed \in SUBSET there /\ Passed \in SUBSET there
  BY DEF Missed, Passed
<1>4. IsFiniteSet(there) /\ IsFiniteSet(Missed) /\ IsFiniteSet(Passed)
  BY <1>2, <1>3, FS_Subset
<1>5. there \subseteq Int
  BY <1>1, <1>2
<1>6. Offset \in Nat
  BY <1>1 DEF Offset
<1>7. \A e : Place(e, there) \in Nat
  BY <1>4, <1>5, PlaceIs
<1> QED
  BY <1>4, <1>5, <1>6, <1>7, FS_CardinalityType

(* A page holds no more than Size events, and no more are taken of it than *)
(* there is room for.  An event since the cutoff that is not before the    *)
(* page is taken, or there is no room for it, or it is on a later page.    *)
LEMMA PageRecords ==
  ASSUME TypeOK, Room \in Nat
  PROVE  /\ Records \subseteq there /\ Taken \subseteq Records
         /\ IsFiniteSet(Taken)
         /\ Cardinality(Records) \in 0..Size
         /\ Cardinality(Taken) \in 0..Room
         /\ \A e \in there :
              e >= Cutoff /\ Place(e, there) >= Offset =>
                \/ e \in Taken
                \/ Cardinality(Taken) = Room
                \/ /\ Taken = Records /\ Cardinality(Records) = Size
                   /\ page * Size < Cardinality(there)
<1>1. /\ IsFiniteSet(there) /\ there \subseteq Int /\ Cardinality(there) \in Nat
      /\ \A e \in there : e \in Int /\ Place(e, there) \in Nat
      /\ Offset \in Int /\ 0 <= Offset
      /\ Size \in Nat \ {0} /\ Cutoff \in Int /\ Room \in Nat
  BY EventsAre, PagesAssumption
<1>2. /\ \A e, f \in there : Place(f, there) < Place(e, there) => e < f
      /\ \A e \in there : Place(e, there) < Cardinality(there)
  BY <1>1, PlaceIs
<1>3. Records = Slice(there, Offset, Offset + Size)
  <2>1. Records \subseteq Slice(there, Offset, Offset + Size)
    BY <1>1 DEF Records, Slice
  <2>2. Slice(there, Offset, Offset + Size) \subseteq Records
    BY <1>1 DEF Records, Slice
  <2> QED
    BY <2>1, <2>2
<1>4. Taken \subseteq Slice(there, Offset, Offset + Room)
  BY <1>1 DEF Taken, Records, Slice
<1>5. /\ Records \subseteq there /\ Taken \subseteq Records
  BY DEF Records, Taken
<1>6. ASSUME NEW n \in Nat
      PROVE  /\ IsFiniteSet(Slice(there, Offset, Offset + n))
             /\ Cardinality(Slice(there, Offset, Offset + n)) \in 0..n
             /\ Offset + n <= Cardinality(there) =>
                  Cardinality(Slice(there, Offset, Offset + n)) = n
  <2> DEFINE b == Offset + n
  <2>1. b \in Int /\ Offset <= b /\ b - Offset = n
    BY <1>1
  <2> HIDE DEF b
  <2>2. /\ IsFiniteSet(Slice(there, Offset, b))
        /\ Cardinality(Slice(there, Offset, b)) \in Nat
        /\ Cardinality(Slice(there, Offset, b)) <= b - Offset
        /\ 0 <= Offset /\ b <= Cardinality(there) =>
             Cardinality(Slice(there, Offset, b)) = b - Offset
    BY <1>1, <2>1, SliceCount
  <2> QED
    BY <1>1, <2>1, <2>2 DEF b
<1>7. IsFiniteSet(Records) /\ Cardinality(Records) \in 0..Size
  BY <1>1, <1>3, <1>6
<1>8. IsFiniteSet(Taken) /\ Cardinality(Taken) \in 0..Room
  <2>1. /\ IsFiniteSet(Slice(there, Offset, Offset + Room))
        /\ Cardinality(Slice(there, Offset, Offset + Room)) \in 0..Room
    BY <1>1, <1>6
  <2>2. IsFiniteSet(Taken) /\ Cardinality(Taken) <= Cardinality(Slice(there, Offset, Offset + Room))
    BY <1>4, <2>1, FS_Subset
  <2>3. Cardinality(Taken) \in Nat
    BY <2>2, FS_CardinalityType
  <2> QED
    BY <1>1, <2>1, <2>2, <2>3
<1>9. ASSUME NEW e \in there, e >= Cutoff, Place(e, there) >= Offset, e \notin Taken
      PROVE  \/ Cardinality(Taken) = Room
             \/ /\ Taken = Records /\ Cardinality(Records) = Size
                /\ page * Size < Cardinality(there)
  <2>1. e \in Int /\ Place(e, there) \in Nat /\ Place(e, there) < Cardinality(there)
    BY <1>1, <1>2
  <2>2. ASSUME NEW f \in there, Place(f, there) < Place(e, there)
        PROVE  f >= Cutoff
    <3>1. e < f /\ f \in Int
      BY <1>1, <1>2, <2>2
    <3> QED
      BY <1>1, <1>9, <2>1, <3>1
  <2>3. CASE Place(e, there) >= Offset + Room /\ Room <= Size
    <3>1. Slice(there, Offset, Offset + Room) \subseteq Taken
      <4> SUFFICES ASSUME NEW f \in Slice(there, Offset, Offset + Room) PROVE f \in Taken
        OBVIOUS
      <4>1. f \in there /\ Place(f, there) \in Offset..(Offset + Room - 1)
        BY <1>1 DEF Slice
      <4>2. /\ Place(f, there) < Place(e, there) /\ Place(f, there) < Offset + Room
            /\ Place(f, there) \in Offset..(Offset + Size - 1)
        BY <1>1, <2>1, <2>3, <4>1
      <4> QED
        BY <2>2, <4>1, <4>2 DEF Taken, Records
    <3>2. Cardinality(Slice(there, Offset, Offset + Room)) = Room
      BY <1>1, <1>6, <2>1, <2>3
    <3>3. Cardinality(Slice(there, Offset, Offset + Room)) <= Cardinality(Taken)
      BY <1>8, <3>1, FS_Subset
    <3> QED
      BY <1>1, <1>8, <3>2, <3>3
  <2>4. CASE Place(e, there) >= Offset + Size /\ Size < Room
    <3>1. Cardinality(Records) = Size
      BY <1>1, <1>3, <1>6, <2>1, <2>4
    <3>2. Records \subseteq Taken
      <4> SUFFICES ASSUME NEW f \in Records PROVE f \in Taken
        OBVIOUS
      <4>1. f \in there /\ Place(f, there) \in Offset..(Offset + Size - 1)
        BY DEF Records
      <4>2. Place(f, there) < Place(e, there) /\ Place(f, there) < Offset + Room
        BY <1>1, <2>1, <2>4, <4>1
      <4> QED
        BY <2>2, <4>1, <4>2 DEF Taken
    <3>3. page * Size = Offset + Size
      BY PagesAssumption DEF TypeOK, Offset
    <3>4. page * Size < Cardinality(there)
      BY <1>1, <2>1, <2>4, <3>3
    <3> QED
      BY <1>5, <3>1, <3>2, <3>4
  <2>5. ~(Place(e, there) < Offset + Room /\ Place(e, there) < Offset + Size)
    <3> SUFFICES ASSUME Place(e, there) < Offset + Room, Place(e, there) < Offset + Size
                 PROVE  FALSE
      OBVIOUS
    <3>1. Place(e, there) \in Offset..(Offset + Size - 1)
      BY <1>1, <1>9, <2>1
    <3> QED
      BY <1>9, <3>1 DEF Taken, Records
  <2> QED
    BY <1>1, <2>1, <2>3, <2>4, <2>5
<1> QED
  BY <1>5, <1>7, <1>8, <1>9

(* Whole pages within the limit are no more than are worth it. *)
LEMMA PagesFit ==
  ASSUME NEW p \in Nat, p * Size < MaxEvents
  PROVE  p <= (MaxEvents - 1) \div Size
<1> DEFINE q == (MaxEvents - 1) \div Size
<1>1. q \in Int /\ MaxEvents - 1 < (q + 1) * Size
  BY PagesAssumption
<1>2. p * Size < (q + 1) * Size
  BY <1>1, PagesAssumption
<1> HIDE DEF q
<1>3. CASE p >= q + 1
  <2>1. p * Size >= (q + 1) * Size
    BY <1>1, <1>3, PagesAssumption
  <2> QED
    BY <1>1, <1>2, <2>1, PagesAssumption
<1> QED
  BY <1>1, <1>3 DEF q

-----------------------------------------------------------------------------
LEMMA InitIInv == Init => IInv
<1> SUFFICES ASSUME Init PROVE IInv
  OBVIOUS
<1> USE PagesAssumption DEF Init
<1>1. /\ last \in Nat /\ last <= MaxLast /\ there = 1..last /\ page = 1
      /\ given = {} /\ seen = 0 /\ began = 1..last /\ lost = 0
  OBVIOUS
<1>2. Offset = 0
  BY <1>1 DEF Offset
<1>3. PagesGiven
  BY <1>1, <1>2 DEF PagesGiven
<1>4. ReadsAreBounded
  <2>1. 0 <= (MaxEvents - 1) \div Size
    BY PagesFit
  <2> QED
    BY <1>1, <2>1 DEF ReadsAreBounded
<1>5. ASSUME TypeOK PROVE Cardinality(Passed) <= lost
  <2>1. \A e \in Passed : FALSE
    BY <1>2, <1>5, EventsAre DEF Passed, Missed
  <2>2. Passed = {}
    BY <2>1
  <2> QED
    BY <1>1, <2>2, FS_EmptySet
<1>6. CASE StartWalk
  <2>1. guids = <<>> /\ guids \in Seq(Releases) /\ Len(guids) = 0
    BY <1>6, EmptySeq DEF StartWalk, NoGrab
  <2>2. fetched \in Seq(Releases \cup {Theirs})
    BY <1>6, EmptySeq DEF StartWalk, NoGrab
  <2>3. pc = "walk" /\ sent = 0 /\ grab = "none" /\ grabbed = guids
    BY <1>6, <2>1 DEF StartWalk, NoGrab
  <2>4. TypeOK
    BY <1>1, <2>1, <2>2, <2>3 DEF TypeOK
  <2>5. FewPassed /\ OwnNewest
    BY <1>5, <2>3, <2>4 DEF FewPassed, OwnNewest
  <2> QED
    BY <1>3, <1>4, <2>3, <2>4, <2>5 DEF IInv, MissedAreFew, GrabNamesOwn
<1>7. CASE StartGrab
  <2>1. PICK n \in Nat : guids \in [1..n -> Releases]
    <3>1. Cardinality(Releases) \in Nat
      BY GrabsAssumption, FS_CardinalityType
    <3> QED
      BY <1>7, <3>1 DEF StartGrab, Orders
  <2>2. guids \in Seq(Releases)
    BY <2>1, SeqDef
  <2>3. fetched \in Seq(Releases \cup {Theirs}) /\ Len(fetched) \in Nat
    <3>1. CASE fetched = <<>>
      BY <3>1, EmptySeq
    <3>2. CASE fetched = <<Theirs>>
      BY <3>2
    <3> QED
      BY <1>7, <3>1, <3>2 DEF StartGrab
  <2>4. pc = "done" /\ sent = 0 /\ grab = "send" /\ grabbed = guids
    BY <1>7 DEF StartGrab
  <2>5. Len(guids) \in Nat
    BY <2>2
  <2>6. TypeOK
    BY <1>1, <2>2, <2>3, <2>4, <2>5 DEF TypeOK
  <2>7. FewPassed /\ OwnNewest
    BY <2>3, <2>4 DEF FewPassed, OwnNewest
  <2> QED
    BY <1>3, <1>4, <2>4, <2>6, <2>7 DEF IInv, MissedAreFew, GrabNamesOwn
<1> QED
  BY <1>6, <1>7

-----------------------------------------------------------------------------
(* The walk's steps. *)
LEMMA ReadPageStep ==
  ASSUME IInv, ReadPage
  PROVE  IInv'
<1> DEFINE t == Cardinality(Taken)
           r == Cardinality(Records)
<1>1. /\ TypeOK /\ pc = "walk" /\ grab = "none" /\ seen = Offset
      /\ Offset < MaxEvents /\ Offset \in Nat /\ MaxEvents \in Nat
      /\ seen \in Nat /\ Size \in Nat \ {0} /\ page \in Nat \ {0} /\ lost \in Nat
      /\ Cardinality(Passed) <= lost /\ Cardinality(Passed) \in Nat /\ IsFiniteSet(Passed)
  BY EventsAre, PagesAssumption DEF ReadPage, IInv, PagesGiven, FewPassed, TypeOK
<1>2. Room \in Nat /\ Room = MaxEvents - Offset
  BY <1>1 DEF Room
<1>3. /\ Records \subseteq there /\ Taken \subseteq Records
      /\ r \in 0..Size /\ t \in 0..Room
      /\ \A e \in there :
           e >= Cutoff /\ Place(e, there) >= Offset =>
             e \in Taken \/ t = Room
             \/ (Taken = Records /\ r = Size /\ page * Size < Cardinality(there))
  BY <1>1, <1>2, PageRecords
<1>4. /\ given' = given \cup Taken /\ seen' = seen + t
      /\ \/ /\ Taken # Records \/ t = Room \/ r < Size \/ page * Size >= Cardinality(there)
            /\ pc' = "done" /\ page' = page
         \/ /\ Taken = Records /\ t # Room /\ ~(r < Size)
            /\ pc' = "walk" /\ page' = page + 1
      /\ UNCHANGED <<there, last, began, lost, fetched, guids, sent, grab, grabbed>>
      /\ alone' = alone
  <2>1. given' = given \cup Taken /\ seen' = seen + t
    BY DEF ReadPage
  <2>2. \/ /\ Taken # Records \/ t = Room \/ r < Size \/ page * Size >= Cardinality(there)
           /\ pc' = "done" /\ page' = page
        \/ /\ Taken = Records /\ t # Room /\ ~(r < Size)
           /\ pc' = "walk" /\ page' = page + 1
    BY <1>1 DEF ReadPage, LastPage, TotalRecords
  <2>3. /\ UNCHANGED <<there, last, began, lost, fetched, guids, sent, grab, grabbed>>
        /\ alone' = alone
    BY Zenon DEF ReadPage, events, grabs
  <2> QED
    BY <2>1, <2>2, <2>3
<1> HIDE DEF t, r
<1>5. \/ pc' = "done" /\ page' = page /\ Offset' = Offset
      \/ /\ pc' = "walk" /\ page' = page + 1 /\ Offset' = Offset + Size
         /\ Taken = Records /\ t = Size /\ t # Room
  <2>1. CASE pc' = "done" /\ page' = page
    BY <2>1 DEF Offset
  <2>2. CASE Taken = Records /\ t # Room /\ ~(r < Size) /\ pc' = "walk" /\ page' = page + 1
    <3>1. t = Size
      BY <1>1, <1>3, <2>2 DEF t, r
    <3>2. Offset' = Offset + Size
      BY <1>1, <2>2 DEF Offset
    <3> QED
      BY <2>2, <3>1, <3>2
  <2> QED
    BY <1>4, <2>1, <2>2
<1>6. TypeOK'
  <2>1. Taken \subseteq 1..last
    BY <1>1, <1>3 DEF TypeOK
  <2>2. seen' \in Nat /\ page' \in Nat \ {0} /\ pc' \in {"walk", "done"}
    BY <1>1, <1>2, <1>3, <1>4
  <2> QED
    BY <1>1, <1>4, <2>1, <2>2 DEF TypeOK
<1>7. PagesGiven' /\ ReadsAreBounded'
  <2>1. seen' \in Nat /\ seen' <= MaxEvents /\ Offset' \in Nat /\ Offset' < MaxEvents
    BY <1>1, <1>2, <1>3, <1>4, <1>5
  <2>2. pc' = "walk" => seen' = Offset'
    BY <1>1, <1>4, <1>5
  <2>3. page' - 1 <= (MaxEvents - 1) \div Size
    <3>1. page' - 1 \in Nat /\ (page' - 1) * Size = Offset'
      BY <1>1, <1>5 DEF Offset
    <3> QED
      BY <2>1, <3>1, PagesFit
  <2>4. page' <= (MaxEvents - 1) \div Size + 1
    <3>1. (MaxEvents - 1) \div Size \in Int /\ page' \in Int
      BY <1>1, <1>4
    <3> QED
      BY <2>3, <3>1
  <2> QED
    BY <2>1, <2>2, <2>4 DEF PagesGiven, ReadsAreBounded
<1>8. Missed' = {e \in Missed : e \notin Taken}
  BY <1>4 DEF Missed
<1>9. FewPassed'
  <2> SUFFICES ASSUME pc' = "walk" PROVE Cardinality(Passed') <= lost
    BY <1>1, <1>4 DEF FewPassed
  <2>1. ASSUME NEW e \in Passed' PROVE e \in Passed
    <3>1. e \in Missed /\ e \in there /\ e \notin Taken /\ Place(e, there) < Offset + Size
      BY <1>4, <1>5, <1>8, <2>1 DEF Passed, Missed
    <3>2. Place(e, there) \in Nat
      BY <1>1, <3>1, EventsAre
    <3>3. ~(Place(e, there) \in Offset..(Offset + Size - 1))
      BY <1>5, <3>1 DEF Records
    <3> QED
      BY <1>1, <3>1, <3>2, <3>3 DEF Passed
  <2>2. Cardinality(Passed') <= Cardinality(Passed) /\ Cardinality(Passed') \in Nat
    BY <1>1, <2>1, FS_Subset, FS_CardinalityType
  <2> QED
    BY <1>1, <2>2
<1>10. MissedAreFew'
  <2> SUFFICES ASSUME pc' = "done", seen' < MaxEvents
               PROVE  Cardinality(Missed') <= lost
    BY <1>4 DEF MissedAreFew
  <2>1. t # Room
    BY <1>1, <1>2, <1>3, <1>4
  <2>2. ASSUME NEW e \in Missed' PROVE e \in Passed
    <3>1. e \in Missed /\ e \in there /\ e >= Cutoff /\ e \notin Taken
      BY <1>8 DEF Missed
    <3>2. ~(Place(e, there) >= Offset)
      <4>1. Cardinality(there) \in Nat /\ page * Size \in Nat
        BY <1>1, EventsAre
      <4> QED
        BY <1>1, <1>3, <1>4, <2>1, <3>1, <4>1
    <3>3. Place(e, there) \in Nat
      BY <1>1, <3>1, EventsAre
    <3> QED
      BY <1>1, <3>1, <3>2, <3>3 DEF Passed
  <2>3. Cardinality(Missed') <= Cardinality(Passed) /\ Cardinality(Missed') \in Nat
    BY <1>1, <2>2, FS_Subset, FS_CardinalityType
  <2> QED
    BY <1>1, <2>3
<1>11. OwnNewest' /\ GrabNamesOwn'
  BY <1>4 DEF IInv, OwnNewest, GrabNamesOwn
<1> QED
  BY <1>6, <1>7, <1>9, <1>10, <1>11 DEF IInv

LEMMA ReadFailsStep ==
  ASSUME IInv, ReadFails
  PROVE  IInv'
<1>1. /\ pc = "walk" /\ pc' = "failed"
      /\ UNCHANGED <<there, last, page, given, seen, began, lost, fetched, guids, sent, grab, grabbed>>
      /\ alone' = alone
  BY DEF ReadFails, events, grabs
<1> QED
  BY <1>1 DEF IInv, TypeOK, PagesGiven, FewPassed, OwnNewest, MissedAreFew,
              ReadsAreBounded, GrabNamesOwn, Offset

(* What the walk knows outlives whatever happens to the history that       *)
(* brings back no event, if deletions account for what has moved up.       *)
LEMMA WalkKept ==
  ASSUME IInv, UNCHANGED walk,
         began \cap there' \subseteq there,
         pc = "walk" => Cardinality(Passed') <= lost',
         pc # "walk" => lost' = lost,
         grab' = "none" <=> grab = "none"
  PROVE  PagesGiven' /\ FewPassed' /\ MissedAreFew' /\ ReadsAreBounded'
<1>1. UNCHANGED <<page, given, seen, pc, began>> /\ Offset' = Offset
  BY DEF walk, Offset
<1>2. PagesGiven' /\ ReadsAreBounded'
  BY <1>1 DEF IInv, PagesGiven, ReadsAreBounded
<1>3. FewPassed'
  BY <1>1 DEF IInv, FewPassed
<1>4. MissedAreFew'
  <2> SUFFICES ASSUME pc = "done", seen < MaxEvents, grab = "none"
               PROVE  Cardinality(Missed') <= lost
    BY <1>1 DEF MissedAreFew
  <2>1. Cardinality(Missed) <= lost /\ lost \in Nat
    BY DEF IInv, MissedAreFew, TypeOK
  <2>2. Missed' \subseteq Missed
    BY <1>1 DEF Missed
  <2>3. IsFiniteSet(Missed) /\ Cardinality(Missed) \in Nat
    BY EventsAre DEF IInv
  <2>4. Cardinality(Missed') <= Cardinality(Missed) /\ Cardinality(Missed') \in Nat
    BY <2>2, <2>3, FS_Subset, FS_CardinalityType
  <2> QED
    BY <2>1, <2>3, <2>4
<1> QED
  BY <1>2, <1>3, <1>4

(* What moves no event up keeps all of it. *)
LEMMA NoneMoveUp ==
  ASSUME IInv, UNCHANGED <<walk, lost>>,
         \A e \in began \cap there' : e \in there /\ Place(e, there) <= Place(e, there'),
         \A e : Place(e, there') \in Nat,
         grab' = "none" <=> grab = "none"
  PROVE  PagesGiven' /\ FewPassed' /\ MissedAreFew' /\ ReadsAreBounded'
<1>1. UNCHANGED <<page, given, seen, pc, began, lost>> /\ Offset' = Offset /\ UNCHANGED walk
  BY DEF walk, Offset
<1>2. /\ Offset \in Nat /\ IsFiniteSet(Passed) /\ Cardinality(Passed) \in Nat /\ lost \in Nat
      /\ \A e \in there : Place(e, there) \in Nat
  BY EventsAre DEF IInv, TypeOK
<1>3. ASSUME NEW e \in Passed' PROVE e \in Passed
  <2>1. /\ e \in began /\ e \in there' /\ e >= Cutoff /\ e \notin given
        /\ Place(e, there') < Offset
    BY <1>1 DEF Passed, Missed
  <2>2. e \in there /\ Place(e, there) <= Place(e, there')
    BY <2>1
  <2>3. Place(e, there) < Offset
    BY <1>2, <2>1, <2>2
  <2> QED
    BY <2>1, <2>2, <2>3 DEF Passed, Missed
<1>4. pc = "walk" => Cardinality(Passed') <= lost'
  <2>1. Cardinality(Passed') <= Cardinality(Passed) /\ Cardinality(Passed') \in Nat
    BY <1>2, <1>3, FS_Subset, FS_CardinalityType
  <2> QED
    BY <1>1, <1>2, <2>1 DEF IInv, FewPassed
<1>5. began \cap there' \subseteq there
  OBVIOUS
<1> QED
  BY <1>1, <1>4, <1>5, WalkKept

(* Prowlarr records another event. *)
LEMMA AnotherEvent ==
  ASSUME IInv, Happens, UNCHANGED <<walk, lost>>, grab' = "none" <=> grab = "none"
  PROVE  /\ last' \in 0..MaxLast /\ there' \subseteq 1..last' /\ given' \subseteq 1..last'
         /\ began' \subseteq 1..last' /\ page' \in Nat \ {0} /\ seen' \in Nat /\ lost' \in Nat
         /\ pc' \in {"walk", "done", "failed"}
         /\ PagesGiven' /\ FewPassed' /\ MissedAreFew' /\ ReadsAreBounded'
<1>1. /\ last \in 0..MaxLast /\ last < MaxLast /\ last' = last + 1 /\ MaxLast \in Nat
      /\ there' = there \cup {last + 1} /\ there \subseteq 1..last /\ began \subseteq 1..last
      /\ UNCHANGED <<page, given, seen, pc, began, lost>>
  BY PagesAssumption DEF IInv, TypeOK, Happens, walk
<1>2. /\ last' \in 0..MaxLast /\ there' \subseteq 1..last' /\ given' \subseteq 1..last'
      /\ began' \subseteq 1..last'
  BY <1>1 DEF IInv, TypeOK
<1>3. IsFiniteSet(there') /\ there' \subseteq Int
  <2>1. IsFiniteSet(there)
    BY EventsAre DEF IInv
  <2> QED
    BY <1>1, <2>1, FS_AddElement
<1>4. \A e : Place(e, there') \in Nat
  BY <1>3, PlaceIs
<1>5. ASSUME NEW e \in began \cap there'
      PROVE  e \in there /\ Place(e, there) <= Place(e, there')
  <2>1. e \in there
    BY <1>1, <1>5
  <2>2. there \subseteq there'
    BY <1>1
  <2> QED
    BY <1>3, <2>1, <2>2, PlaceGrows
<1>6. PagesGiven' /\ FewPassed' /\ MissedAreFew' /\ ReadsAreBounded'
  BY <1>4, <1>5, NoneMoveUp
<1> QED
  BY <1>1, <1>2, <1>6 DEF IInv, TypeOK

(* A step that leaves the history alone. *)
LEMMA HistoryKept ==
  ASSUME IInv, UNCHANGED <<events, walk, lost>>, grab' = "none" <=> grab = "none"
  PROVE  PagesGiven' /\ FewPassed' /\ MissedAreFew' /\ ReadsAreBounded'
<1>1. there' = there /\ \A e : Place(e, there) \in Nat
  BY EventsAre, PlaceIs DEF events, IInv
<1> QED
  BY <1>1, NoneMoveUp

-----------------------------------------------------------------------------
(* The grab's steps, and those of the world around both. *)
LEMMA GrabNextStep ==
  ASSUME IInv, GrabNext
  PROVE  IInv'
<1>1. /\ grab = "send" /\ sent < Len(guids) /\ Happens /\ UNCHANGED <<walk, lost>>
      /\ fetched' = Append(fetched, guids[sent + 1])
      /\ sent' = sent + 1
      /\ UNCHANGED <<guids, grab, grabbed>>
  BY DEF GrabNext
<1>2. /\ sent \in Nat /\ guids \in Seq(Releases) /\ Len(guids) \in Nat
      /\ fetched \in Seq(Releases \cup {Theirs}) /\ Len(fetched) \in Nat
  BY DEF IInv, TypeOK
<1>3. guids[sent + 1] \in Releases
  BY <1>1, <1>2, ElementOfSeq
<1>4. /\ fetched' \in Seq(Releases \cup {Theirs})
      /\ Len(fetched') = Len(fetched) + 1
      /\ \A i \in 1..Len(fetched) : fetched'[i] = fetched[i]
      /\ fetched'[Len(fetched) + 1] = guids[sent + 1]
  BY <1>1, <1>2, <1>3, AppendProperties
<1>5. /\ last' \in 0..MaxLast /\ there' \subseteq 1..last' /\ given' \subseteq 1..last'
      /\ began' \subseteq 1..last' /\ page' \in Nat \ {0} /\ seen' \in Nat /\ lost' \in Nat
      /\ pc' \in {"walk", "done", "failed"}
      /\ PagesGiven' /\ FewPassed' /\ MissedAreFew' /\ ReadsAreBounded'
  BY <1>1, AnotherEvent
<1>6. TypeOK'
  BY <1>1, <1>2, <1>4, <1>5 DEF IInv, TypeOK
<1>7. OwnNewest'
  <2>1. ASSUME alone, NEW j \in 1..sent', j <= Len(fetched')
        PROVE  fetched'[Len(fetched') + 1 - j] = guids[sent' + 1 - j]
    <3>1. CASE j = 1
      BY <1>1, <1>2, <1>4, <3>1
    <3>2. CASE j > 1
      <4>1. /\ j - 1 \in 1..sent /\ j - 1 <= Len(fetched)
            /\ Len(fetched) + 1 - (j - 1) \in 1..Len(fetched)
            /\ Len(fetched') + 1 - j = Len(fetched) + 1 - (j - 1)
            /\ sent' + 1 - j = sent + 1 - (j - 1)
        BY <1>1, <1>2, <1>4, <2>1, <3>2
      <4>2. fetched[Len(fetched) + 1 - (j - 1)] = guids[sent + 1 - (j - 1)]
        BY <1>1, <2>1, <4>1 DEF IInv, OwnNewest
      <4> QED
        BY <1>4, <4>1, <4>2
    <3>3. j = 1 \/ j > 1
      BY <1>1, <1>2
    <3> QED
      BY <3>1, <3>2, <3>3
  <2>2. alone' => alone
    BY DEF GrabNext
  <2> QED
    BY <1>1, <2>1, <2>2 DEF IInv, OwnNewest
<1> QED
  BY <1>1, <1>5, <1>6, <1>7 DEF IInv, GrabNamesOwn

LEMMA AnsweredStep ==
  ASSUME IInv, Answered
  PROVE  IInv'
<1>1. /\ grab = "send" /\ ((sent = Len(guids) /\ grab' = "read") \/ grab' = "failed")
      /\ UNCHANGED <<there, last, page, given, seen, pc, began, lost, fetched, guids, sent, grabbed>>
      /\ UNCHANGED <<events, walk, lost>>
  BY DEF Answered, events, walk
<1>2. alone' => alone
  BY DEF Answered
<1>3. TypeOK'
  BY <1>1 DEF IInv, TypeOK
<1>4. PagesGiven' /\ FewPassed' /\ MissedAreFew' /\ ReadsAreBounded'
  BY <1>1, HistoryKept
<1> QED
  BY <1>1, <1>2, <1>3, <1>4 DEF IInv, OwnNewest, GrabNamesOwn

(* The newest grabs name what was asked for when they are of just that. *)
LEMMA NamedIsOwn ==
  ASSUME IInv, grab = "read", alone,
         NEW n \in Nat, n = Lesser(Len(fetched), Len(guids) + 5)
  PROVE  Named([i \in 1..n |-> fetched[Len(fetched) + 1 - i]]) = guids
<1> DEFINE L == Len(fetched)
           G == Len(guids)
           newest == [i \in 1..n |-> fetched[L + 1 - i]]
<1>1. /\ L \in Nat /\ G \in Nat
      /\ \A j \in 1..G : j <= L => fetched[L + 1 - j] = guids[G + 1 - j]
  <2>1. L \in Nat /\ G \in Nat
    BY DEF IInv, TypeOK
  <2>2. sent = G
    BY DEF IInv, OwnNewest
  <2>3. \A j \in 1..sent : j <= L => fetched[L + 1 - j] = guids[sent + 1 - j]
    BY DEF IInv, OwnNewest
  <2> QED
    BY <2>1, <2>2, <2>3
<1>2. guids = [i \in 1..G |-> guids[i]] /\ DOMAIN guids = 1..G
  BY LenProperties DEF IInv, TypeOK
<1>3. n <= L
  BY <1>1 DEF Lesser
<1>4. Len(newest) = n
  OBVIOUS
<1> HIDE DEF L, G
<1>5. ASSUME NEW i \in 1..G, G + 1 - i <= Len(newest)
      PROVE  newest[G + 1 - i] = guids[i]
  <2>1. G + 1 - i \in 1..n /\ G + 1 - i \in 1..G /\ G + 1 - i <= L /\ G + 1 - (G + 1 - i) = i
    BY <1>1, <1>3, <1>4, <1>5
  <2>2. newest[G + 1 - i] = fetched[L + 1 - (G + 1 - i)]
    BY <2>1
  <2> QED
    BY <1>1, <2>1, <2>2
<1> HIDE DEF newest
<1>6. Named(newest) = [i \in 1..G |-> guids[i]]
  BY <1>2, <1>5 DEF Named, G
<1> QED
  BY <1>2, <1>6 DEF newest, L

LEMMA NameGrabbedStep ==
  ASSUME IInv, NameGrabbed
  PROVE  IInv'
<1> DEFINE n == Lesser(Len(fetched), Len(guids) + 5)
           newest == [i \in 1..n |-> fetched[Len(fetched) + 1 - i]]
<1>1. /\ grab = "read" /\ grab' = "done" /\ grabbed' \in {Named(newest), guids}
      /\ UNCHANGED <<there, last, page, given, seen, pc, began, lost, fetched, guids, sent>>
      /\ UNCHANGED <<events, walk, lost>>
  BY DEF NameGrabbed, events, walk
<1>2. alone' => alone
  BY DEF NameGrabbed
<1>3. DOMAIN Named(newest) = DOMAIN guids
  BY DEF Named
<1>4. TypeOK'
  BY <1>1, <1>3 DEF IInv, TypeOK
<1>5. PagesGiven' /\ FewPassed' /\ MissedAreFew' /\ ReadsAreBounded'
  BY <1>1, HistoryKept
<1>6. GrabNamesOwn'
  <2>1. n \in Nat
    BY DEF IInv, TypeOK, Lesser
  <2> QED
    BY <1>1, <1>2, <2>1, NamedIsOwn DEF GrabNamesOwn
<1> QED
  BY <1>1, <1>4, <1>5, <1>6 DEF IInv, OwnNewest

LEMMA HappenStep ==
  ASSUME IInv, Happen
  PROVE  IInv'
<1>1. /\ Happens /\ UNCHANGED <<walk, lost>>
      /\ UNCHANGED <<fetched, guids, sent, grab, grabbed>>
  BY DEF Happen, grabs
<1>2. alone' => alone
  BY DEF Happen, grabs
<1>3. /\ last' \in 0..MaxLast /\ there' \subseteq 1..last' /\ given' \subseteq 1..last'
      /\ began' \subseteq 1..last' /\ page' \in Nat \ {0} /\ seen' \in Nat /\ lost' \in Nat
      /\ pc' \in {"walk", "done", "failed"}
      /\ PagesGiven' /\ FewPassed' /\ MissedAreFew' /\ ReadsAreBounded'
  BY <1>1, AnotherEvent
<1>4. TypeOK'
  BY <1>1, <1>3 DEF IInv, TypeOK
<1> QED
  BY <1>1, <1>2, <1>3, <1>4 DEF IInv, OwnNewest, GrabNamesOwn

LEMMA GrabTheirsStep ==
  ASSUME IInv, GrabTheirs
  PROVE  IInv'
<1>1. /\ grab \in {"send", "read"} /\ Happens /\ UNCHANGED <<walk, lost>>
      /\ fetched' = Append(fetched, Theirs)
      /\ UNCHANGED <<guids, sent, grab, grabbed>>
  BY DEF GrabTheirs
<1>2. alone' => sent = 0
  BY DEF GrabTheirs
<1>3. fetched' \in Seq(Releases \cup {Theirs})
  BY <1>1 DEF IInv, TypeOK
<1>4. /\ last' \in 0..MaxLast /\ there' \subseteq 1..last' /\ given' \subseteq 1..last'
      /\ began' \subseteq 1..last' /\ page' \in Nat \ {0} /\ seen' \in Nat /\ lost' \in Nat
      /\ pc' \in {"walk", "done", "failed"}
      /\ PagesGiven' /\ FewPassed' /\ MissedAreFew' /\ ReadsAreBounded'
  BY <1>1, AnotherEvent
<1>5. TypeOK'
  BY <1>1, <1>3, <1>4 DEF IInv, TypeOK
<1>6. OwnNewest'
  BY <1>1, <1>2 DEF IInv, OwnNewest
<1> QED
  BY <1>1, <1>4, <1>5, <1>6 DEF IInv, GrabNamesOwn

(* The newest grabs stay the newest when older ones go, or all. *)
LEMMA FetchedGoes ==
  ASSUME IInv, UNCHANGED grabs,
         \/ fetched' = fetched
         \/ fetched' = <<>>
         \/ Len(fetched) > sent /\ fetched' = Tail(fetched)
  PROVE  fetched' \in Seq(Releases \cup {Theirs}) /\ OwnNewest' /\ GrabNamesOwn'
<1>1. UNCHANGED <<guids, sent, grab, grabbed>> /\ (alone' => alone)
  BY DEF grabs
<1>2. /\ sent \in Nat /\ Len(fetched) \in Nat
      /\ fetched \in Seq(Releases \cup {Theirs})
  BY DEF IInv, TypeOK
<1>3. GrabNamesOwn'
  BY <1>1 DEF IInv, GrabNamesOwn
<1>4. CASE fetched' = fetched
  BY <1>1, <1>2, <1>3, <1>4 DEF IInv, OwnNewest
<1>5. CASE fetched' = <<>>
  <2>1. fetched' \in Seq(Releases \cup {Theirs}) /\ Len(fetched') = 0
    BY <1>5, EmptySeq
  <2>2. \A j \in 1..sent : ~(j <= Len(fetched'))
    BY <1>2, <2>1
  <2> QED
    BY <1>1, <1>3, <2>1, <2>2 DEF IInv, OwnNewest
<1>6. CASE Len(fetched) > sent /\ fetched' = Tail(fetched)
  <2>1. fetched # <<>>
    BY <1>2, <1>6
  <2>2. /\ fetched' \in Seq(Releases \cup {Theirs}) /\ Len(fetched') = Len(fetched) - 1
        /\ \A i \in 1..Len(fetched') : fetched'[i] = fetched[i + 1]
    BY <1>2, <1>6, <2>1, HeadTailProperties
  <2>3. ASSUME alone, grab \in {"send", "read"}, NEW j \in 1..sent, j <= Len(fetched')
        PROVE  fetched'[Len(fetched') + 1 - j] = guids[sent + 1 - j]
    <3>1. /\ Len(fetched') + 1 - j \in 1..Len(fetched')
          /\ (Len(fetched') + 1 - j) + 1 = Len(fetched) + 1 - j
          /\ j <= Len(fetched)
      BY <1>2, <2>2, <2>3
    <3>2. fetched'[Len(fetched') + 1 - j] = fetched[Len(fetched) + 1 - j]
      BY <2>2, <3>1
    <3> QED
      BY <2>3, <3>1, <3>2 DEF IInv, OwnNewest
  <2> QED
    BY <1>1, <1>3, <2>2, <2>3 DEF IInv, OwnNewest
<1> QED
  BY <1>4, <1>5, <1>6

LEMMA TrimStep ==
  ASSUME IInv, Trim
  PROVE  IInv'
<1>1. PICK o \in there : /\ \A f \in there : o <= f
                         /\ there' = there \ {o}
  BY DEF Trim
<1>2. /\ UNCHANGED <<last, page, given, seen, pc, began, lost, guids, sent, grab, grabbed>>
      /\ UNCHANGED <<walk, lost>> /\ UNCHANGED grabs
  BY DEF Trim, walk, grabs
<1>3. /\ IsFiniteSet(there) /\ there \subseteq Int /\ \A e \in there : e \in Int
      /\ \A e : Place(e, there) \in Nat
  BY EventsAre, PlaceIs DEF IInv
<1>4. IsFiniteSet(there') /\ there' \subseteq Int
  BY <1>1, <1>3, FS_RemoveElement
<1>5. \A e : Place(e, there') \in Nat
  BY <1>4, PlaceIs
<1>6. ASSUME NEW e \in began \cap there'
      PROVE  e \in there /\ Place(e, there) <= Place(e, there')
  <2>1. e \in there /\ o <= e /\ e \in Int /\ o \in Int
    BY <1>1, <1>3, <1>6
  <2>2. {f \in there : f > e} = {f \in there' : f > e}
    BY <1>1, <2>1
  <2> QED
    BY <1>3, <2>1, <2>2 DEF Place
<1>7. PagesGiven' /\ FewPassed' /\ MissedAreFew' /\ ReadsAreBounded'
  BY <1>2, <1>5, <1>6, NoneMoveUp
<1>8. fetched' \in Seq(Releases \cup {Theirs}) /\ OwnNewest' /\ GrabNamesOwn'
  <2>1. fetched' = fetched \/ (Len(fetched) > sent /\ fetched' = Tail(fetched))
    BY DEF Trim
  <2> QED
    BY <1>2, <2>1, FetchedGoes
<1>9. TypeOK'
  BY <1>1, <1>2, <1>8 DEF IInv, TypeOK
<1> QED
  BY <1>7, <1>8, <1>9 DEF IInv

(* A deletion moves up no more than what it takes off pages that were read.*)
LEMMA DeleteIndexerStep ==
  ASSUME IInv, DeleteIndexer
  PROVE  IInv'
<1>1. PICK own \in Owned :
        /\ there' = there \ own
        /\ lost' = IF pc = "walk"
                   THEN lost + Cardinality({e \in own \cap there : Place(e, there) < Offset})
                   ELSE lost
        /\ fetched' \in {fetched, <<>>}
        /\ UNCHANGED <<last, walk, grabs>>
  BY DEF DeleteIndexer
<1>2. UNCHANGED <<page, given, seen, pc, began, guids, sent, grab, grabbed>> /\ Offset' = Offset
  BY <1>1 DEF walk, grabs, Offset
<1> DEFINE took == Took(there, own, Offset)
           slipped == Slipped(there, own, Offset)
<1>3. /\ IsFiniteSet(there) /\ there \subseteq Int /\ Offset \in Nat /\ lost \in Nat
      /\ IsFiniteSet(Passed) /\ Cardinality(Passed) \in Nat
  BY EventsAre DEF IInv, TypeOK
<1>4. /\ IsFiniteSet(slipped) /\ Cardinality(took) \in Nat
      /\ Cardinality(slipped) <= Cardinality(took)
  BY <1>3, FewMoveUp
<1>5. pc = "walk" => Cardinality(Passed') <= lost'
  <2> SUFFICES ASSUME pc = "walk" PROVE Cardinality(Passed') <= lost'
    OBVIOUS
  <2>1. ASSUME NEW e \in Passed' PROVE e \in Passed \cup slipped
    <3>1. /\ e \in began /\ e \in there /\ e \notin own /\ e >= Cutoff /\ e \notin given
          /\ Place(e, there \ own) < Offset
      BY <1>1, <1>2 DEF Passed, Missed
    <3> QED
      BY <3>1 DEF Passed, Missed, Slipped
  <2>2. lost' = lost + Cardinality(took) /\ Cardinality(Passed) <= lost
    BY <1>1 DEF IInv, FewPassed, Took
  <2> HIDE DEF took, slipped
  <2>3. /\ IsFiniteSet(Passed \cup slipped)
        /\ Cardinality(Passed \cup slipped) =
             Cardinality(Passed) + Cardinality(slipped) - Cardinality(Passed \cap slipped)
    BY <1>3, <1>4, FS_Union
  <2>4. Cardinality(Passed \cap slipped) \in Nat /\ Cardinality(slipped) \in Nat
    <3>1. IsFiniteSet(Passed \cap slipped)
      BY <1>3, FS_Subset
    <3> QED
      BY <1>4, <3>1, FS_CardinalityType
  <2>5. Cardinality(Passed') <= Cardinality(Passed \cup slipped) /\ Cardinality(Passed') \in Nat
    BY <2>1, <2>3, FS_Subset, FS_CardinalityType
  <2> QED
    BY <1>3, <1>4, <2>2, <2>3, <2>4, <2>5
<1>6. PagesGiven' /\ FewPassed' /\ MissedAreFew' /\ ReadsAreBounded'
  <2>1. began \cap there' \subseteq there /\ UNCHANGED walk
    BY <1>1
  <2>2. pc # "walk" => lost' = lost
    BY <1>1
  <2> QED
    BY <1>2, <1>5, <2>1, <2>2, WalkKept
<1>7. fetched' \in Seq(Releases \cup {Theirs}) /\ OwnNewest' /\ GrabNamesOwn'
  BY <1>1, FetchedGoes
<1>8. lost' \in Nat
  BY <1>1, <1>3, <1>4 DEF Took
<1>9. TypeOK'
  BY <1>1, <1>2, <1>7, <1>8 DEF IInv, TypeOK
<1> QED
  BY <1>6, <1>7, <1>9 DEF IInv

LEMMA NextIInv == IInv /\ [Next]_vars => IInv'
<1> SUFFICES ASSUME IInv, [Next]_vars PROVE IInv'
  OBVIOUS
<1>1. CASE UNCHANGED vars
  <2>1. /\ UNCHANGED <<there, last, page, given, seen, pc, began, lost, fetched, guids, sent, grab, grabbed>>
        /\ alone' = alone /\ UNCHANGED <<events, walk, lost>>
    BY <1>1 DEF vars, events, walk, grabs
  <2>2. PagesGiven' /\ FewPassed' /\ MissedAreFew' /\ ReadsAreBounded'
    BY <2>1, HistoryKept
  <2> QED
    BY <2>1, <2>2 DEF IInv, TypeOK, OwnNewest, GrabNamesOwn
<1> QED
  BY <1>1, ReadPageStep, ReadFailsStep, GrabNextStep, AnsweredStep, NameGrabbedStep,
     HappenStep, GrabTheirsStep, TrimStep, DeleteIndexerStep
  DEF Next

-----------------------------------------------------------------------------
(* The inductive invariant holds of every run. *)
THEOREM Inductive == Spec => []IInv
BY InitIInv, NextIInv, PTL DEF Spec

(* Types: what a walk hands on are events there have been, and a grab      *)
(* names each release it was asked for.                                    *)
THEOREM TypeCorrect == Spec => []TypeOK
<1>1. IInv => TypeOK
  BY DEF IInv
<1> QED
  BY <1>1, Inductive, PTL

(* eachHistory (src/tools/stats.go) reads no more pages than its limit is  *)
(* worth, however fast the history grows, for every page size and limit.   *)
THEOREM NoEndlessWalk == Spec => []ReadsAreBounded
<1>1. IInv => ReadsAreBounded
  BY DEF IInv
<1> QED
  BY <1>1, Inductive, PTL

(* A walk that ends of itself has handed on every event it was to find,    *)
(* whatever was added and trimmed meanwhile, but for at most as many as    *)
(* indexer_delete (src/tools/indexer_edits.go) took off pages it had read. *)
THEOREM WalkMissesFew == Spec => []MissedAreFew
<1>1. IInv => MissedAreFew
  BY DEF IInv
<1> QED
  BY <1>1, Inductive, PTL

(* release_grab (src/tools/releases.go) names each release by its own grab *)
(* or its guid while no other call grabs from the indexer.                 *)
THEOREM GrabsNameOwn == Spec => []GrabNamesOwn
<1>1. IInv => GrabNamesOwn
  BY DEF IInv
<1> QED
  BY <1>1, Inductive, PTL
================================================================================
