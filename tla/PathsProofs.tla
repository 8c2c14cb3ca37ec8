---------------------------- MODULE PathsProofs -----------------------------
(***************************************************************************)
(* Proofs about the path of every tool, for any job: what PathRules says   *)
(* of a path, said of each.                                                *)
(***************************************************************************)
EXTENDS TLAPS, PathRules, SequenceTheorems

-----------------------------------------------------------------------------
LEMMA PathLength ==
  ASSUME NEW p, IsPath(p)
  PROVE  Len(p) \in Nat /\ DOMAIN p = 1..Len(p)
BY LenProperties DEF IsPath

LEMMA AsPath ==
  ASSUME NEW S, NEW p \in Seq(S), \A i \in DOMAIN p : p[i].do \in Roles
  PROVE  IsPath(p)
<1>1. Len(p) \in Nat /\ DOMAIN p = 1..Len(p) /\ p = [i \in 1..Len(p) |-> p[i]]
  BY LenProperties
<1>2. p \in [1..Len(p) -> Steps(p)]
  BY <1>1 DEF Steps
<1>3. \A T : Seq(T) = UNION {[1..k -> T] : k \in Nat}
  BY SeqDef
<1>4. p \in Seq(Steps(p))
  BY <1>1, <1>2, <1>3
<1> QED
  BY <1>4 DEF IsPath

(* One path after another is a path. *)
LEMMA Joined ==
  ASSUME NEW p, NEW q, IsPath(p), IsPath(q)
  PROVE  /\ IsPath(p \o q)
         /\ Len(p \o q) = Len(p) + Len(q)
         /\ \A i \in 1..Len(p) : (p \o q)[i] = p[i]
         /\ \A i \in 1..Len(q) : (p \o q)[Len(p) + i] = q[i]
<1> DEFINE S == Steps(p) \cup Steps(q)
<1>1. p \in Seq(S) /\ q \in Seq(S)
  BY SeqMonotonic DEF IsPath
<1>2. /\ Len(p) \in Nat /\ DOMAIN p = 1..Len(p)
      /\ Len(q) \in Nat /\ DOMAIN q = 1..Len(q)
  BY PathLength
<1> HIDE DEF S
<1>3. /\ p \o q \in Seq(S)
      /\ Len(p \o q) = Len(p) + Len(q)
      /\ \A i \in 1..(Len(p) + Len(q)) :
           (p \o q)[i] = IF i <= Len(p) THEN p[i] ELSE q[i - Len(p)]
  BY <1>1, ConcatProperties
<1>4. DOMAIN (p \o q) = 1..(Len(p) + Len(q))
  BY <1>3, LenProperties
<1>5. /\ \A i \in 1..Len(p) : (p \o q)[i] = p[i]
      /\ \A i \in 1..Len(q) : (p \o q)[Len(p) + i] = q[i]
  BY <1>2, <1>3
<1>6. \A i \in DOMAIN (p \o q) : (p \o q)[i].do \in Roles
  <2> SUFFICES ASSUME NEW i \in 1..(Len(p) + Len(q))
               PROVE  (p \o q)[i].do \in Roles
    BY <1>4
  <2>1. CASE i <= Len(p)
    BY <1>2, <1>3, <2>1 DEF IsPath
  <2>2. CASE i > Len(p)
    <3>1. i - Len(p) \in DOMAIN q /\ (p \o q)[i] = q[i - Len(p)]
      BY <1>2, <1>3, <2>2
    <3> QED
      BY <3>1 DEF IsPath
  <2> QED
    BY <1>2, <2>1, <2>2
<1>7. IsPath(p \o q)
  BY <1>3, <1>6, AsPath
<1> QED
  BY <1>3, <1>5, <1>7

(* What each part of a path sees to itself, the whole sees to. *)
LEMMA KeptJoined ==
  ASSUME NEW p, NEW q, NEW roles, NEW opens, NEW closes,
         IsPath(p), IsPath(q),
         Kept(p, roles, opens, closes), Kept(q, roles, opens, closes)
  PROVE  Kept(p \o q, roles, opens, closes)
<1> DEFINE n == Len(p)
           w == p \o q
<1>1. /\ n \in Nat /\ DOMAIN p = 1..n
      /\ Len(q) \in Nat /\ DOMAIN q = 1..Len(q)
      /\ DOMAIN w = 1..(n + Len(q))
      /\ \A i \in 1..n : w[i] = p[i]
      /\ \A i \in 1..Len(q) : w[n + i] = q[i]
  BY PathLength, Joined
<1> HIDE DEF n, w
<1> SUFFICES ASSUME NEW i \in 1..(n + Len(q)), w[i].do \in roles
             PROVE  Since(w, i, opens, closes)
  BY <1>1 DEF Kept, w
<1>2. CASE i \in 1..n
  <2>1. PICK k \in 1..(i - 1) :
          p[k] \in opens /\ \A m \in (k + 1)..(i - 1) : p[m].do \notin closes
    BY <1>1, <1>2 DEF Kept, Since
  <2>2. k \in 1..n /\ \A m \in (k + 1)..(i - 1) : m \in 1..n
    BY <1>1, <1>2
  <2> QED
    BY <1>1, <2>1, <2>2 DEF Since
<1>3. CASE i \in (n + 1)..(n + Len(q))
  <2>1. PICK h \in 1..Len(q) : i = n + h
    <3>1. i - n \in 1..Len(q) /\ i = n + (i - n)
      BY <1>1, <1>3
    <3> QED
      BY <3>1
  <2>2. PICK k \in 1..(h - 1) :
          q[k] \in opens /\ \A m \in (k + 1)..(h - 1) : q[m].do \notin closes
    <3>1. w[i] = q[h] /\ h \in DOMAIN q
      BY <1>1, <2>1
    <3> QED
      BY <3>1 DEF Kept, Since
  <2>3. n + k \in 1..(i - 1) /\ w[n + k] \in opens
    BY <1>1, <2>1, <2>2
  <2>4. ASSUME NEW m \in (n + k + 1)..(i - 1)
        PROVE  w[m].do \notin closes
    <3>1. m - n \in (k + 1)..(h - 1) /\ m - n \in 1..Len(q) /\ n + (m - n) = m
      BY <1>1, <2>1, <2>2
    <3>2. w[m] = q[m - n]
      BY <1>1, <3>1
    <3> QED
      BY <2>2, <3>1, <3>2
  <2> QED
    BY <2>3, <2>4 DEF Since
<1> QED
  BY <1>1, <1>2, <1>3

(* What is left when the first steps of a path are taken is a path. *)
LEMMA Dropped ==
  ASSUME NEW p, IsPath(p), NEW n \in 0..Len(p)
  PROVE  LET q == SubSeq(p, n + 1, Len(p))
         IN /\ IsPath(q)
            /\ Len(q) = Len(p) - n
            /\ \A i \in 1..Len(q) : q[i] = p[n + i]
<1> DEFINE q == SubSeq(p, n + 1, Len(p))
<1>1. Len(p) \in Nat /\ DOMAIN p = 1..Len(p)
  BY PathLength
<1>2. \A i \in (n + 1)..Len(p) : p[i] \in Steps(p)
  BY <1>1 DEF Steps
<1>3. /\ q \in Seq(Steps(p))
      /\ Len(q) = IF n + 1 <= Len(p) THEN Len(p) - (n + 1) + 1 ELSE 0
      /\ \A i \in 1..(Len(p) - (n + 1) + 1) : q[i] = p[n + 1 + i - 1]
  <2>1. n + 1 \in Int /\ Len(p) \in Int
    BY <1>1
  <2> QED
    BY <1>2, <2>1, SubSeqProperties
<1> HIDE DEF q
<1>4. Len(q) = Len(p) - n /\ DOMAIN q = 1..Len(q)
  <2>1. DOMAIN q = 1..Len(q)
    BY <1>3, LenProperties
  <2>2. Len(p) \in Int /\ n \in Int /\ n <= Len(p)
    BY <1>1
  <2>3. n + 1 <= Len(p) => Len(p) - (n + 1) + 1 = Len(p) - n
    BY <2>2
  <2>4. ~(n + 1 <= Len(p)) => Len(p) - n = 0
    BY <2>2
  <2> QED
    BY <1>3, <2>1, <2>3, <2>4
<1>5. ASSUME NEW i \in 1..Len(q)
      PROVE  q[i] = p[n + i] /\ n + i \in 1..Len(p)
  <2>1. i \in 1..(Len(p) - (n + 1) + 1) /\ n + 1 + i - 1 = n + i /\ n + i \in 1..Len(p)
    BY <1>1, <1>4
  <2> QED
    BY <1>3, <2>1
<1>6. \A i \in DOMAIN q : q[i].do \in Roles
  BY <1>1, <1>4, <1>5 DEF IsPath
<1>7. IsPath(q)
  BY <1>3, <1>6, AsPath
<1> QED
  BY <1>4, <1>5, <1>7 DEF q

LEMMA TailOfPath ==
  ASSUME NEW p, IsPath(p), p # <<>>
  PROVE  /\ Len(p) \in Nat \ {0}
         /\ Tail(p) = SubSeq(p, 2, Len(p))
         /\ Head(p) = p[1]
<1>1. p \in Seq(Steps(p))
  BY DEF IsPath
<1>2. Len(p) \in Nat \ {0}
  BY <1>1, EmptySeq
<1>3. Tail(p) = SubSeq(p, 2, Len(p))
  BY <1>1, TailIsSubSeq
<1>4. Head(p) = p[1]
  BY <1>1, <1>2
<1> QED
  BY <1>2, <1>3, <1>4

(* The rest of a path, past its first step. *)
LEMMA TailLeft ==
  ASSUME NEW p, IsPath(p), p # <<>>
  PROVE  /\ Len(p) \in Nat \ {0} /\ DOMAIN p = 1..Len(p) /\ Head(p) = p[1]
         /\ IsPath(Tail(p))
         /\ Len(Tail(p)) = Len(p) - 1 /\ DOMAIN Tail(p) = 1..(Len(p) - 1)
         /\ \A i \in 1..(Len(p) - 1) : Tail(p)[i] = p[1 + i]
<1>1. 1 \in 0..Len(p) /\ 1 + 1 = 2 /\ Len(p) \in Nat \ {0} /\ DOMAIN p = 1..Len(p)
  BY TailOfPath, PathLength
<1>2. Head(p) = p[1] /\ Tail(p) = SubSeq(p, 1 + 1, Len(p))
  BY <1>1, TailOfPath
<1>3. /\ IsPath(SubSeq(p, 1 + 1, Len(p)))
      /\ Len(SubSeq(p, 1 + 1, Len(p))) = Len(p) - 1
      /\ \A i \in 1..Len(SubSeq(p, 1 + 1, Len(p))) :
           SubSeq(p, 1 + 1, Len(p))[i] = p[1 + i]
  BY <1>1, Dropped
<1>4. DOMAIN SubSeq(p, 1 + 1, Len(p)) = 1..(Len(p) - 1)
  BY <1>3, PathLength
<1> QED
  BY <1>1, <1>2, <1>3, <1>4

LEMMA TailDiffers ==
  ASSUME NEW p, IsPath(p), p # <<>>
  PROVE  Tail(p) # p
<1> DEFINE q == Tail(p)
<1>1. Len(p) \in Nat /\ Len(q) = Len(p) - 1
  BY TailLeft
<1> HIDE DEF q
<1>2. q # p
  BY <1>1
<1> QED
  BY <1>2 DEF q

(* What the steps are of a path cut short. *)
LEMMA DoesTail ==
  ASSUME NEW p, IsPath(p), p # <<>>
  PROVE  Does(p) = {Head(p).do} \cup Does(Tail(p))
<1> DEFINE q == Tail(p)
<1>1. /\ Len(p) \in Nat \ {0} /\ DOMAIN p = 1..Len(p) /\ Head(p) = p[1]
      /\ Len(q) = Len(p) - 1 /\ DOMAIN q = 1..(Len(p) - 1)
      /\ \A i \in 1..(Len(p) - 1) : q[i] = p[1 + i]
  BY TailLeft
<1> HIDE DEF q
<1>4. \A i \in 1..Len(p) : i = 1 \/ (i - 1 \in 1..(Len(p) - 1) /\ 1 + (i - 1) = i)
  BY <1>1
<1>5. \A i \in 1..Len(p) : p[i].do = Head(p).do \/ p[i].do \in Does(q)
  <2> SUFFICES ASSUME NEW i \in 1..Len(p), i # 1 PROVE p[i].do \in Does(q)
    BY <1>1
  <2>1. i - 1 \in DOMAIN q /\ q[i - 1] = p[i]
    BY <1>1, <1>4
  <2> QED
    BY <2>1 DEF Does
<1>6. \A i \in DOMAIN q : 1 + i \in DOMAIN p /\ q[i] = p[1 + i]
  BY <1>1
<1>7. Does(q) \subseteq Does(p) /\ Head(p).do \in Does(p)
  BY <1>1, <1>6 DEF Does
<1>8. Does(p) \subseteq {Head(p).do} \cup Does(q)
  BY <1>1, <1>5 DEF Does
<1> QED
  BY <1>7, <1>8 DEF q

LEMMA DoesDropped ==
  ASSUME NEW p, IsPath(p), NEW n \in 0..Len(p)
  PROVE  LET q == SubSeq(p, n + 1, Len(p))
         IN Does(q) \subseteq Does(p) /\ Does(p) \subseteq Does(q) \cup {p[i].do : i \in 1..n}
<1> DEFINE q == SubSeq(p, n + 1, Len(p))
<1>1. /\ Len(p) \in Nat /\ DOMAIN p = 1..Len(p)
      /\ IsPath(q) /\ Len(q) = Len(p) - n
      /\ \A i \in 1..Len(q) : q[i] = p[n + i]
  BY Dropped, PathLength
<1> HIDE DEF q
<1>2. DOMAIN q = 1..(Len(p) - n)
  BY <1>1, PathLength
<1>3. \A i \in DOMAIN q : n + i \in DOMAIN p /\ q[i] = p[n + i]
  BY <1>1, <1>2
<1>4. \A i \in DOMAIN p : i \in 1..n \/ (i - n \in DOMAIN q /\ q[i - n] = p[i])
  <2>1. \A i \in 1..Len(p) : i \in 1..n \/ (i - n \in 1..(Len(p) - n) /\ n + (i - n) = i)
    BY <1>1
  <2> QED
    BY <1>1, <1>2, <2>1
<1>5. Does(q) \subseteq Does(p)
  BY <1>3 DEF Does
<1>6. Does(p) \subseteq Does(q) \cup {p[i].do : i \in 1..n}
  BY <1>4 DEF Does
<1> QED
  BY <1>5, <1>6 DEF q

(* Steps that open nothing leave the rest of the path as it was. *)
LEMMA SoundDropped ==
  ASSUME NEW p, IsPath(p), NEW n \in 0..Len(p), NEW now \in BOOLEAN,
         NEW roles, NEW opens, NEW closes,
         \A i \in 1..n : p[i] \notin opens,
         Sound(now, p, roles, opens, closes)
  PROVE  Sound(now, SubSeq(p, n + 1, Len(p)), roles, opens, closes)
<1> DEFINE q == SubSeq(p, n + 1, Len(p))
<1>1. /\ Len(p) \in Nat /\ DOMAIN p = 1..Len(p)
      /\ Len(q) = Len(p) - n /\ DOMAIN q = 1..Len(q)
      /\ \A i \in 1..Len(q) : q[i] = p[n + i]
  BY Dropped, PathLength
<1> HIDE DEF q
<1>2. ASSUME NEW i \in 1..Len(q), Since(p, n + i, opens, closes)
      PROVE  Since(q, i, opens, closes)
  <2>1. PICK k \in 1..(n + i - 1) :
          p[k] \in opens /\ \A m \in (k + 1)..(n + i - 1) : p[m].do \notin closes
    BY <1>2 DEF Since
  <2>2. k - n \in 1..(i - 1) /\ n + (k - n) = k /\ k - n \in 1..Len(q)
    BY <1>1, <2>1
  <2>3. q[k - n] \in opens
    BY <1>1, <2>1, <2>2
  <2>4. ASSUME NEW m \in (k - n + 1)..(i - 1)
        PROVE  q[m].do \notin closes
    <3>1. n + m \in (k + 1)..(n + i - 1) /\ m \in 1..Len(q)
      BY <1>1, <2>2
    <3> QED
      BY <1>1, <2>1, <3>1
  <2> QED
    BY <2>2, <2>3, <2>4 DEF Since
<1>3. ASSUME NEW i \in 1..Len(q), \A m \in 1..(n + i - 1) : p[m].do \notin closes
      PROVE  \A m \in 1..(i - 1) : q[m].do \notin closes
  <2>1. ASSUME NEW m \in 1..(i - 1)
        PROVE  q[m].do \notin closes
    <3>1. n + m \in 1..(n + i - 1) /\ m \in 1..Len(q)
      BY <1>1
    <3> QED
      BY <1>1, <1>3, <3>1
  <2> QED
    BY <2>1
<1>4. \A i \in 1..Len(q) : n + i \in DOMAIN p /\ q[i] = p[n + i]
  BY <1>1
<1>5. KeptOn(q, roles, opens, closes)
  BY <1>1, <1>2, <1>3, <1>4 DEF KeptOn, Sound
<1>6. Kept(p, roles, opens, closes) => Kept(q, roles, opens, closes)
  BY <1>1, <1>2, <1>4 DEF Kept
<1> QED
  BY <1>5, <1>6 DEF Sound, q

(* A step that opens something leaves the rest with it open; what is open  *)
(* stays so until a step that closes it.                                   *)
LEMMA SoundTail ==
  ASSUME NEW p, IsPath(p), p # <<>>, NEW now \in BOOLEAN, NEW then \in BOOLEAN,
         NEW roles, NEW opens, NEW closes,
         Sound(now, p, roles, opens, closes),
         Head(p) \in opens => then,
         now => then \/ Head(p).do \in closes
  PROVE  Sound(then, Tail(p), roles, opens, closes)
<1> DEFINE q == Tail(p)
<1>1. /\ Len(p) \in Nat \ {0} /\ DOMAIN p = 1..Len(p)
      /\ Len(q) = Len(p) - 1 /\ DOMAIN q = 1..Len(q)
      /\ \A i \in 1..Len(q) : q[i] = p[1 + i]
      /\ Head(p) = p[1]
  <2>1. 1 \in 0..Len(p) /\ 1 + 1 = 2
    BY TailOfPath
  <2> QED
    BY <2>1, TailOfPath, Dropped, PathLength
<1> HIDE DEF q
<1>2. ASSUME NEW i \in 1..Len(q), Since(p, 1 + i, opens, closes)
      PROVE  \/ Since(q, i, opens, closes)
             \/ p[1] \in opens /\ \A m \in 1..(i - 1) : q[m].do \notin closes
  <2>1. PICK k \in 1..i :
          p[k] \in opens /\ \A m \in (k + 1)..i : p[m].do \notin closes
    <3>1. 1 + i - 1 = i
      BY <1>1
    <3> QED
      BY <1>2, <3>1 DEF Since
  <2>2. ASSUME NEW m \in k..(i - 1)
        PROVE  q[m].do \notin closes
    <3>1. 1 + m \in (k + 1)..i /\ m \in 1..Len(q)
      BY <1>1
    <3> QED
      BY <1>1, <2>1, <3>1
  <2>3. CASE k = 1
    BY <2>1, <2>2, <2>3
  <2>4. CASE k # 1
    <3>1. k - 1 \in 1..(i - 1) /\ 1 + (k - 1) = k /\ k - 1 \in 1..Len(q) /\ (k - 1) + 1 = k
      BY <1>1, <2>4
    <3>2. q[k - 1] \in opens
      BY <1>1, <2>1, <3>1
    <3> QED
      BY <2>2, <3>1, <3>2 DEF Since
  <2> QED
    BY <2>3, <2>4
<1>3. ASSUME NEW i \in 1..Len(q), \A m \in 1..(1 + i - 1) : p[m].do \notin closes
      PROVE  p[1].do \notin closes /\ \A m \in 1..(i - 1) : q[m].do \notin closes
  <2>1. p[1].do \notin closes
    BY <1>1, <1>3
  <2>2. ASSUME NEW m \in 1..(i - 1)
        PROVE  q[m].do \notin closes
    <3>1. 1 + m \in 1..(1 + i - 1) /\ m \in 1..Len(q)
      BY <1>1
    <3> QED
      BY <1>1, <1>3, <3>1
  <2> QED
    BY <2>1, <2>2
<1>4. \A i \in 1..Len(q) : 1 + i \in DOMAIN p /\ q[i] = p[1 + i]
  BY <1>1
<1>5. KeptOn(q, roles, opens, closes)
  <2>1. ASSUME NEW i \in 1..Len(q), q[i].do \in roles
        PROVE  \/ Since(q, i, opens, closes)
               \/ \A m \in 1..(i - 1) : q[m].do \notin closes
    <3>1. 1 + i \in DOMAIN p /\ p[1 + i].do \in roles
      BY <1>4, <2>1
    <3>2. \/ Since(p, 1 + i, opens, closes)
          \/ \A m \in 1..(1 + i - 1) : p[m].do \notin closes
      BY <3>1 DEF KeptOn, Sound
    <3> QED
      BY <1>2, <1>3, <3>2
  <2> QED
    BY <1>1, <2>1 DEF KeptOn
<1>6. CASE then
  BY <1>5, <1>6 DEF Sound, q
<1>7. CASE ~then
  <2>1. p[1] \notin opens /\ (now => p[1].do \in closes)
    BY <1>1, <1>7
  <2>2. ASSUME NEW i \in DOMAIN q, q[i].do \in roles
        PROVE  Since(q, i, opens, closes)
    <3>1. i \in 1..Len(q) /\ 1 + i \in DOMAIN p /\ p[1 + i].do \in roles
      BY <1>1, <1>4, <2>2
    <3>2. CASE now
      BY <1>2, <1>3, <2>1, <3>1, <3>2 DEF KeptOn, Sound
    <3>3. CASE ~now
      BY <1>2, <2>1, <3>1, <3>3 DEF Kept, Sound
    <3> QED
      BY <3>2, <3>3
  <2>3. Kept(q, roles, opens, closes)
    BY <2>2 DEF Kept
  <2> QED
    BY <1>5, <2>3 DEF Sound, q
<1> QED
  BY <1>6, <1>7

(* What a path does at once needs what is open now. *)
LEMMA SoundNow ==
  ASSUME NEW p, IsPath(p), p # <<>>, NEW now \in BOOLEAN,
         NEW roles, NEW opens, NEW closes,
         Sound(now, p, roles, opens, closes), Head(p).do \in roles
  PROVE  now
<1>1. 1 \in DOMAIN p /\ Head(p) = p[1]
  BY TailOfPath, PathLength
<1>2. ~Since(p, 1, opens, closes)
  BY DEF Since
<1>3. ~Kept(p, roles, opens, closes)
  BY <1>1, <1>2 DEF Kept
<1> QED
  BY <1>3 DEF Sound

-----------------------------------------------------------------------------
(* Paths of steps of some roles only. *)
Only(p, R) == IsPath(p) /\ \A i \in DOMAIN p : p[i].do \in R

LEMMA OnlySteps ==
  ASSUME NEW R, R \subseteq Roles,
         NEW S, NEW p \in Seq(S), \A s \in S : s.do \in R
  PROVE  Only(p, R)
<1>1. \A i \in DOMAIN p : p[i] \in S
  BY LenProperties
<1>2. \A i \in DOMAIN p : p[i].do \in Roles
  BY <1>1
<1>3. IsPath(p)
  BY <1>2, AsPath
<1> QED
  BY <1>1, <1>3 DEF Only

LEMMA OnlyNone == \A R : R \subseteq Roles => Only(<<>>, R)
<1> SUFFICES ASSUME NEW R, R \subseteq Roles
             PROVE  Only(<<>>, R)
  OBVIOUS
<1> DEFINE S == {}
<1>1. <<>> \in Seq(S)
  OBVIOUS
<1>2. \A s \in S : s.do \in R
  OBVIOUS
<1> HIDE DEF S
<1> QED
  BY <1>1, <1>2, OnlySteps

LEMMA OnlyOne == \A R, a : R \subseteq Roles /\ a.do \in R => Only(<<a>>, R)
<1> SUFFICES ASSUME NEW R, NEW a, R \subseteq Roles, a.do \in R
             PROVE  Only(<<a>>, R)
  OBVIOUS
<1> DEFINE S == {a}
<1>1. <<a>> \in Seq(S)
  OBVIOUS
<1>2. \A s \in S : s.do \in R
  OBVIOUS
<1> HIDE DEF S
<1> QED
  BY <1>1, <1>2, OnlySteps

LEMMA OnlyTwo ==
  \A R, a, b : R \subseteq Roles /\ a.do \in R /\ b.do \in R => Only(<<a, b>>, R)
<1> SUFFICES ASSUME NEW R, NEW a, NEW b, R \subseteq Roles, a.do \in R, b.do \in R
             PROVE  Only(<<a, b>>, R)
  OBVIOUS
<1> DEFINE S == {a, b}
<1>1. <<a, b>> \in Seq(S)
  OBVIOUS
<1>2. \A s \in S : s.do \in R
  OBVIOUS
<1> HIDE DEF S
<1> QED
  BY <1>1, <1>2, OnlySteps

LEMMA OnlyJoined == \A R, p, q : Only(p, R) /\ Only(q, R) => Only(p \o q, R)
<1> SUFFICES ASSUME NEW R, NEW p, NEW q, Only(p, R), Only(q, R)
             PROVE  Only(p \o q, R)
  OBVIOUS
<1>1. /\ Len(p) \in Nat /\ DOMAIN p = 1..Len(p)
      /\ Len(q) \in Nat /\ DOMAIN q = 1..Len(q)
      /\ IsPath(p \o q) /\ DOMAIN (p \o q) = 1..(Len(p) + Len(q))
      /\ \A i \in 1..Len(p) : (p \o q)[i] = p[i]
      /\ \A i \in 1..Len(q) : (p \o q)[Len(p) + i] = q[i]
  BY PathLength, Joined DEF Only
<1>2. ASSUME NEW i \in 1..(Len(p) + Len(q))
      PROVE  (p \o q)[i].do \in R
  <2>1. CASE i <= Len(p)
    <3>1. i \in 1..Len(p)
      BY <1>1, <2>1
    <3> QED
      BY <1>1, <3>1 DEF Only
  <2>2. CASE i > Len(p)
    <3>1. i - Len(p) \in 1..Len(q) /\ Len(p) + (i - Len(p)) = i
      BY <1>1, <2>2
    <3> QED
      BY <1>1, <3>1 DEF Only
  <2> QED
    BY <1>1, <2>1, <2>2
<1> QED
  BY <1>1, <1>2 DEF Only

LEMMA OnlyWhen == \A R, t, p : R \subseteq Roles /\ Only(p, R) => Only(When(t, p), R)
BY OnlyNone DEF When

(* Paths that neither read nor write tags, hold nothing they read, and     *)
(* write back nothing they read before: most are.                          *)
Calm ==
  Silent \cup {"find", "lock", "bulk", "create", "create off", "delete", "list",
               "restore"}
Tame(p) == Only(p, Calm)

(* Paths that only read, try and have Prowlarr do what no record shows. *)
MildRoles == Silent \cup {"find"}
Mild(p) == Only(p, MildRoles)

LEMMA TameParts ==
  /\ Tame(<<>>)
  /\ \A a : a.do \in Calm => Tame(<<a>>)
<1>1. Calm \subseteq Roles
  BY DEF Calm, Roles
<1> QED
  BY <1>1, OnlyOne, OnlyNone DEF Tame

LEMMA MildTame == \A p : Mild(p) => Tame(p)
BY DEF MildRoles, Calm, Only, Mild, Tame

LEMMA TameJoined == \A p, q : Tame(p) /\ Tame(q) => Tame(p \o q)
BY OnlyJoined DEF Tame

LEMMA TameWhen == \A t, p : Tame(p) => Tame(When(t, p))
BY TameParts DEF When

LEMMA CalmSteps ==
  /\ \A r : {Ask(r).do, Find(r).do, Test(r).do, Do(r).do} \subseteq Calm
  /\ \A r : /\ Step("create", r).do \in Calm
            /\ Step("create off", r).do \in Calm
            /\ Step("delete", r).do \in Calm
            /\ Step("list", r).do \in Calm
            /\ Step("bulk", r).do \in Calm
            /\ Step("restore", r).do \in Calm
            /\ Lock(r).do \in Calm
  /\ LockAll.do \in Calm
BY DEF Ask, Find, Test, Do, Lock, LockAll, Step, Calm, Silent

LEMMA MildSteps ==
  \A r : {Ask(r).do, Find(r).do, Test(r).do, Do(r).do} \subseteq MildRoles
BY DEF Ask, Find, Test, Do, Step, MildRoles, Silent

LEMMA MildRow ==
  ASSUME NEW S, NEW p \in Seq(S), \A s \in S : s.do \in MildRoles
  PROVE  Mild(p)
<1>1. MildRoles \subseteq Roles
  BY DEF MildRoles, Roles
<1> QED
  BY <1>1, OnlySteps DEF Mild

(* Up to seven steps in a row. *)
LEMMA MildParts ==
  /\ Mild(<<>>)
  /\ \A a : {a.do} \subseteq MildRoles
       => Mild(<<a>>)
  /\ \A a, b : {a.do, b.do} \subseteq MildRoles
       => Mild(<<a, b>>)
  /\ \A a, b, c : {a.do, b.do, c.do} \subseteq MildRoles
       => Mild(<<a, b, c>>)
  /\ \A a, b, c, d : {a.do, b.do, c.do, d.do} \subseteq MildRoles
       => Mild(<<a, b, c, d>>)
  /\ \A a, b, c, d, e : {a.do, b.do, c.do, d.do, e.do} \subseteq MildRoles
       => Mild(<<a, b, c, d, e>>)
  /\ \A a, b, c, d, e, f : {a.do, b.do, c.do, d.do, e.do, f.do} \subseteq MildRoles
       => Mild(<<a, b, c, d, e, f>>)
  /\ \A a, b, c, d, e, f, g : {a.do, b.do, c.do, d.do, e.do, f.do, g.do} \subseteq MildRoles
       => Mild(<<a, b, c, d, e, f, g>>)
<1>0. Mild(<<>>)
  <2> DEFINE S == {}
  <2>1. <<>> \in Seq(S)
    OBVIOUS
  <2>2. \A s \in S : s.do \in MildRoles
    OBVIOUS
  <2> HIDE DEF S
  <2> QED
    BY <2>1, <2>2, MildRow
<1>1. ASSUME NEW a,
             {a.do} \subseteq MildRoles
      PROVE  Mild(<<a>>)
  <2> DEFINE S == {a}
  <2>1. <<a>> \in Seq(S)
    OBVIOUS
  <2>2. \A s \in S : s.do \in MildRoles
    BY <1>1
  <2> HIDE DEF S
  <2> QED
    BY <2>1, <2>2, MildRow
<1>2. ASSUME NEW a, NEW b,
             {a.do, b.do} \subseteq MildRoles
      PROVE  Mild(<<a, b>>)
  <2> DEFINE S == {a, b}
  <2>1. <<a, b>> \in Seq(S)
    OBVIOUS
  <2>2. \A s \in S : s.do \in MildRoles
    BY <1>2
  <2> HIDE DEF S
  <2> QED
    BY <2>1, <2>2, MildRow
<1>3. ASSUME NEW a, NEW b, NEW c,
             {a.do, b.do, c.do} \subseteq MildRoles
      PROVE  Mild(<<a, b, c>>)
  <2> DEFINE S == {a, b, c}
  <2>1. <<a, b, c>> \in Seq(S)
    OBVIOUS
  <2>2. \A s \in S : s.do \in MildRoles
    BY <1>3
  <2> HIDE DEF S
  <2> QED
    BY <2>1, <2>2, MildRow
<1>4. ASSUME NEW a, NEW b, NEW c, NEW d,
             {a.do, b.do, c.do, d.do} \subseteq MildRoles
      PROVE  Mild(<<a, b, c, d>>)
  <2> DEFINE S == {a, b, c, d}
  <2>1. <<a, b, c, d>> \in Seq(S)
    OBVIOUS
  <2>2. \A s \in S : s.do \in MildRoles
    BY <1>4
  <2> HIDE DEF S
  <2> QED
    BY <2>1, <2>2, MildRow
<1>5. ASSUME NEW a, NEW b, NEW c, NEW d, NEW e,
             {a.do, b.do, c.do, d.do, e.do} \subseteq MildRoles
      PROVE  Mild(<<a, b, c, d, e>>)
  <2> DEFINE S == {a, b, c, d, e}
  <2>1. <<a, b, c, d, e>> \in Seq(S)
    OBVIOUS
  <2>2. \A s \in S : s.do \in MildRoles
    BY <1>5
  <2> HIDE DEF S
  <2> QED
    BY <2>1, <2>2, MildRow
<1>6. ASSUME NEW a, NEW b, NEW c, NEW d, NEW e, NEW f,
             {a.do, b.do, c.do, d.do, e.do, f.do} \subseteq MildRoles
      PROVE  Mild(<<a, b, c, d, e, f>>)
  <2> DEFINE S == {a, b, c, d, e, f}
  <2>1. <<a, b, c, d, e, f>> \in Seq(S)
    OBVIOUS
  <2>2. \A s \in S : s.do \in MildRoles
    BY <1>6
  <2> HIDE DEF S
  <2> QED
    BY <2>1, <2>2, MildRow
<1>7. ASSUME NEW a, NEW b, NEW c, NEW d, NEW e, NEW f, NEW g,
             {a.do, b.do, c.do, d.do, e.do, f.do, g.do} \subseteq MildRoles
      PROVE  Mild(<<a, b, c, d, e, f, g>>)
  <2> DEFINE S == {a, b, c, d, e, f, g}
  <2>1. <<a, b, c, d, e, f, g>> \in Seq(S)
    OBVIOUS
  <2>2. \A s \in S : s.do \in MildRoles
    BY <1>7
  <2> HIDE DEF S
  <2> QED
    BY <2>1, <2>2, MildRow
<1> QED
  BY <1>0, <1>1, <1>2, <1>3, <1>4, <1>5, <1>6, <1>7

LEMMA MildJoined == \A p, q : Mild(p) /\ Mild(q) => Mild(p \o q)
BY OnlyJoined DEF Mild

LEMMA MildWhen == \A t, p : Mild(p) => Mild(When(t, p))
BY MildParts DEF When

LEMMA MildNames == Mild(Lookups) /\ Mild(AppNames) /\ Mild(TagDetails)
BY MildParts, MildSteps DEF Lookups, AppNames, TagDetails

LEMMA MildIndexers ==
  ASSUME NEW j,
         j.tool \in
           {"indexer_list", "indexer_get", "indexer_test",
            "indexer_catalog", "category_list",
            "release_search", "release_grab", "history_list",
            "indexer_stats"}
  PROVE  Mild(Path(j))
<1>1. /\ Mild(IndexerList)
      /\ Mild(IndexerGet(j))
      /\ Mild(IndexerTest(j))
      /\ Mild(IndexerCatalog)
      /\ Mild(CategoryList)
      /\ Mild(ReleaseSearch(j))
      /\ Mild(ReleaseGrab(j))
      /\ Mild(HistoryList)
      /\ Mild(IndexerStats(j))
  BY MildParts, MildJoined, MildWhen, MildSteps DEF CategoryList, HistoryList,
     IndexerCatalog, IndexerGet, IndexerList, IndexerStats, IndexerTest, Lookups,
     ReleaseGrab, ReleaseSearch, TestPath
<1>2. /\ j.tool = "indexer_list" => Path(j) = IndexerList
      /\ j.tool = "indexer_get" => Path(j) = IndexerGet(j)
      /\ j.tool = "indexer_test" => Path(j) = IndexerTest(j)
      /\ j.tool = "indexer_catalog" => Path(j) = IndexerCatalog
      /\ j.tool = "category_list" => Path(j) = CategoryList
      /\ j.tool = "release_search" => Path(j) = ReleaseSearch(j)
      /\ j.tool = "release_grab" => Path(j) = ReleaseGrab(j)
      /\ j.tool = "history_list" => Path(j) = HistoryList
      /\ j.tool = "indexer_stats" => Path(j) = IndexerStats(j)
  BY DEF Path
<1> QED
  BY <1>1, <1>2

LEMMA MildApps ==
  ASSUME NEW j,
         j.tool \in
           {"app_list", "app_get", "app_test", "app_sync",
            "profile_list", "proxy_list", "proxy_test"}
  PROVE  Mild(Path(j))
<1>1. /\ Mild(AppList)
      /\ Mild(AppGet)
      /\ Mild(AppTest(j))
      /\ Mild(AppSync(j))
      /\ Mild(ProfileList)
      /\ Mild(ProxyList)
      /\ Mild(ProxyTest(j))
  BY MildParts, MildJoined, MildWhen, MildSteps DEF AppGet,
     AppList, AppNames, AppSync, AppTest, ProfileList, ProxyList, ProxyTest,
     RunCommand, TestPath
<1>2. /\ j.tool = "app_list" => Path(j) = AppList
      /\ j.tool = "app_get" => Path(j) = AppGet
      /\ j.tool = "app_test" => Path(j) = AppTest(j)
      /\ j.tool = "app_sync" => Path(j) = AppSync(j)
      /\ j.tool = "profile_list" => Path(j) = ProfileList
      /\ j.tool = "proxy_list" => Path(j) = ProxyList
      /\ j.tool = "proxy_test" => Path(j) = ProxyTest(j)
  BY DEF Path
<1> QED
  BY <1>1, <1>2

LEMMA MildClients ==
  ASSUME NEW j,
         j.tool \in
           {"downloadclient_list", "downloadclient_test",
            "notification_list",
            "notification_test", "tag_list"}
  PROVE  Mild(Path(j))
<1>1. /\ Mild(DownloadClientList)
      /\ Mild(DownloadClientTest(j))
      /\ Mild(NotificationList)
      /\ Mild(NotificationTest(j))
      /\ Mild(TagList)
  BY MildParts, MildJoined, MildWhen, MildSteps DEF AppNames, DownloadClientList,
     DownloadClientTest, NotificationList, NotificationTest, TagDetails, TagList, TestPath
<1>2. /\ j.tool = "downloadclient_list" => Path(j) = DownloadClientList
      /\ j.tool = "downloadclient_test" => Path(j) = DownloadClientTest(j)
      /\ j.tool = "notification_list" => Path(j) = NotificationList
      /\ j.tool = "notification_test" => Path(j) = NotificationTest(j)
      /\ j.tool = "tag_list" => Path(j) = TagList
  BY DEF Path
<1> QED
  BY <1>1, <1>2

LEMMA MildKept ==
  ASSUME NEW j,
         j.tool \in
           {"filter_list", "server_settings", "backup_list", "backup_create",
            "backup_delete"}
  PROVE  Mild(Path(j))
<1>1. /\ Mild(FilterList)
      /\ Mild(ServerSettings(j))
      /\ Mild(BackupList)
      /\ Mild(BackupCreate(j))
      /\ Mild(BackupDelete(j))
  BY MildParts, MildJoined, MildWhen, MildSteps DEF BackupCreate,
     BackupDelete, BackupList, FilterList, RunCommand, ServerSettings
<1>2. /\ j.tool = "filter_list" => Path(j) = FilterList
      /\ j.tool = "server_settings" => Path(j) = ServerSettings(j)
      /\ j.tool = "backup_list" => Path(j) = BackupList
      /\ j.tool = "backup_create" => Path(j) = BackupCreate(j)
      /\ j.tool = "backup_delete" => Path(j) = BackupDelete(j)
  BY DEF Path
<1> QED
  BY <1>1, <1>2

LEMMA MildServer ==
  ASSUME NEW j,
         j.tool \in
           {"server_info", "server_health", "server_updates",
            "server_logs", "server_log", "task_list", "task_run",
            "command_list", "command_cancel"}
  PROVE  Mild(Path(j))
<1>1. /\ Mild(ServerInfo)
      /\ Mild(ServerHealth(j))
      /\ Mild(ServerUpdates)
      /\ Mild(ServerLogs)
      /\ Mild(ServerLog(j))
      /\ Mild(TaskList)
      /\ Mild(TaskRun(j))
      /\ Mild(CommandList)
      /\ Mild(CommandCancel)
  BY MildParts, MildJoined, MildWhen, MildSteps DEF CommandCancel,
     CommandList, RunCommand, ServerHealth, ServerInfo, ServerLog,
     ServerLogs, ServerUpdates, TaskList, TaskRun
<1>2. /\ j.tool = "server_info" => Path(j) = ServerInfo
      /\ j.tool = "server_health" => Path(j) = ServerHealth(j)
      /\ j.tool = "server_updates" => Path(j) = ServerUpdates
      /\ j.tool = "server_logs" => Path(j) = ServerLogs
      /\ j.tool = "server_log" => Path(j) = ServerLog(j)
      /\ j.tool = "task_list" => Path(j) = TaskList
      /\ j.tool = "task_run" => Path(j) = TaskRun(j)
      /\ j.tool = "command_list" => Path(j) = CommandList
      /\ j.tool = "command_cancel" => Path(j) = CommandCancel
  BY DEF Path
<1> QED
  BY <1>1, <1>2

LEMMA MildAudits ==
  ASSUME NEW j,
         j.tool \in
           {"audit_all", "audit_failing", "audit_apps",
            "audit_proxies", "audit_download_clients", "audit_tags",
            "audit_definitions", "audit_health",
            "audit_notifications", "audit_backups",
            "audit_unreliable", "audit_slow", "audit_unused",
            "audit_limits", "audit_unsynced", "audit_profiles",
            "audit_duplicates", "audit_seeding", "audit_vip"}
  PROVE  Mild(Path(j))
<1>1. /\ Mild(AuditAll)
      /\ Mild(AuditFailing(j))
      /\ Mild(AuditApps(j))
      /\ Mild(AuditProxies(j))
      /\ Mild(AuditDownloadClients(j))
      /\ Mild(AuditTags)
      /\ Mild(AuditDefinitions)
      /\ Mild(AuditHealth)
      /\ Mild(AuditNotifications(j))
      /\ Mild(AuditBackups)
      /\ Mild(AuditTraffic)
      /\ Mild(Snap)
  BY MildParts, MildJoined, MildWhen, MildSteps DEF AuditAll, AuditApps,
     AuditBackups, AuditDefinitions, AuditDownloadClients, AuditFailing,
     AuditHealth, AuditNotifications, AuditProxies, AuditTags, AuditTraffic,
     Snap, TagRows
<1>2. /\ j.tool = "audit_all" => Path(j) = AuditAll
      /\ j.tool = "audit_failing" => Path(j) = AuditFailing(j)
      /\ j.tool = "audit_apps" => Path(j) = AuditApps(j)
      /\ j.tool = "audit_proxies" => Path(j) = AuditProxies(j)
      /\ j.tool = "audit_download_clients" => Path(j) = AuditDownloadClients(j)
  BY DEF Path
<1>3. /\ j.tool = "audit_tags" => Path(j) = AuditTags
      /\ j.tool = "audit_definitions" => Path(j) = AuditDefinitions
      /\ j.tool = "audit_health" => Path(j) = AuditHealth
      /\ j.tool = "audit_notifications" => Path(j) = AuditNotifications(j)
      /\ j.tool = "audit_backups" => Path(j) = AuditBackups
  BY DEF Path
<1>4. ASSUME j.tool \in {"audit_unreliable", "audit_slow", "audit_unused", "audit_limits"}
      PROVE  Path(j) = AuditTraffic
  BY <1>4 DEF Path
<1>5. ASSUME j.tool \in {"audit_unsynced", "audit_profiles", "audit_duplicates",
                         "audit_seeding", "audit_vip"}
      PROVE  Path(j) = Snap
  BY <1>5 DEF Path
<1> QED
  BY <1>1, <1>2, <1>3, <1>4, <1>5

(* A delete is preceded by reads alone. *)
DeletesAfter(j, p) == Mild(p) /\ \E remove : Path(j) = p \o Deleting(j, remove)

LEMMA DeletePaths ==
  ASSUME NEW j,
         j.tool \in
           {"indexer_delete", "app_delete", "profile_delete", "proxy_delete",
            "downloadclient_delete", "notification_delete", "filter_delete"}
  PROVE  \E p : DeletesAfter(j, p)
<1>1. /\ \A r : Mild(<<Find(r)>>)
      /\ \A r : Mild(<<Find(r)>> \o AppNames)
      /\ \A r, q : Mild(<<Find(r), Ask(q)>>)
      /\ \A r, q, u : Mild(<<Find(r), Ask(q), Ask(u)>>)
  BY MildParts, MildSteps, MildNames, MildJoined
<1>2. CASE j.tool = "indexer_delete"
  BY <1>1, <1>2 DEF DeletesAfter, Path, IndexerDelete
<1>3. CASE j.tool = "app_delete"
  BY <1>1, <1>3 DEF DeletesAfter, Path, AppDelete
<1>4. CASE j.tool = "profile_delete"
  BY <1>1, <1>4 DEF DeletesAfter, Path, ProfileDelete
<1>5. CASE j.tool = "proxy_delete"
  BY <1>1, <1>5 DEF DeletesAfter, Path, ProxyDelete
<1>6. CASE j.tool = "downloadclient_delete"
  BY <1>1, <1>6 DEF DeletesAfter, Path, DownloadClientDelete
<1>7. CASE j.tool = "notification_delete"
  BY <1>1, <1>7 DEF DeletesAfter, Path, NotificationDelete
<1>8. CASE j.tool = "filter_delete"
  BY <1>1, <1>8 DEF DeletesAfter, Path, FilterDelete
<1> QED
  BY <1>2, <1>3, <1>4, <1>5, <1>6, <1>7, <1>8

LEMMA TameWrites ==
  ASSUME NEW j,
         j.tool \in
           {"indexer_delete", "app_delete", "profile_delete", "proxy_delete",
            "downloadclient_delete", "notification_delete", "filter_delete",
            "profile_create", "filter_create", "backup_restore"}
  PROVE  Tame(Path(j))
<1>1. ASSUME NEW p, DeletesAfter(j, p) PROVE Tame(Path(j))
  <2>1. PICK remove : Path(j) = p \o Deleting(j, remove)
    BY <1>1 DEF DeletesAfter
  <2>2. Tame(p) /\ Tame(Deleting(j, remove))
    BY <1>1, MildTame, TameParts, TameWhen, CalmSteps DEF DeletesAfter, Deleting
  <2> QED
    BY <2>1, <2>2, TameJoined
<1>2. CASE j.tool \in {"profile_create", "filter_create"}
  <2>1. Path(j) = ProfileCreate \/ Path(j) = FilterCreate
    BY <1>2 DEF Path
  <2> QED
    BY <2>1, TameParts, CalmSteps DEF ProfileCreate, FilterCreate
<1>3. CASE j.tool = "backup_restore"
  <2>1. Tame(<<LockAll, Step("restore", PostSystemBackupRestoreById)>>)
    <3>1. Calm \subseteq Roles
      BY DEF Calm, Silent, Roles
    <3> QED
      BY <3>1, OnlyTwo, CalmSteps DEF Tame
  <2>2. Tame(<<Ask(GetSystemBackup)>>)
    BY TameParts, CalmSteps
  <2>3. Path(j) = BackupRestore(j)
    BY <1>3 DEF Path
  <2> QED
    BY <2>1, <2>2, <2>3, TameWhen, TameJoined DEF BackupRestore
<1> QED
  BY <1>1, <1>2, <1>3, DeletePaths

-----------------------------------------------------------------------------
(* What a path has to be for the invariant to hold when it begins. *)
Proper(p, j) ==
  /\ IsPath(p)
  /\ Named(p, j)
  /\ Kept(p, TagRoles, TagLocks, Unlocking)
  /\ Kept(p, LabelRoles(j), Looks, Outdating)
  /\ Kept(p, {"save"}, WholeReads, {"save"})
  /\ Locking(j) =>
       /\ Kept(p, Unlocking, MakesTags, {"read"})
       /\ Kept(p, HalfRoles, AnyLocks, Unlocking)

LEMMA ProperJoined == \A j, p, q : Proper(p, j) /\ Proper(q, j) => Proper(p \o q, j)
<1> SUFFICES ASSUME NEW j, NEW p, NEW q, Proper(p, j), Proper(q, j)
             PROVE  Proper(p \o q, j)
  OBVIOUS
<1>1. IsPath(p) /\ IsPath(q)
  BY DEF Proper
<1>2. /\ IsPath(p \o q)
      /\ Len(p) \in Nat /\ DOMAIN p = 1..Len(p)
      /\ Len(q) \in Nat /\ DOMAIN q = 1..Len(q)
      /\ DOMAIN (p \o q) = 1..(Len(p) + Len(q))
      /\ \A i \in 1..Len(p) : (p \o q)[i] = p[i]
      /\ \A i \in 1..Len(q) : (p \o q)[Len(p) + i] = q[i]
  BY <1>1, PathLength, Joined
<1>3. ASSUME NEW i \in 1..(Len(p) + Len(q)), (p \o q)[i].do \in {"make one", "rename"}
      PROVE  j.adds # {}
  <2>1. CASE i <= Len(p)
    <3>1. i \in 1..Len(p)
      BY <1>2, <2>1
    <3>2. i \in DOMAIN p /\ p[i].do \in {"make one", "rename"}
      BY <1>2, <1>3, <3>1
    <3> QED
      BY <3>2 DEF Proper, Named
  <2>2. CASE i > Len(p)
    <3>1. i - Len(p) \in 1..Len(q) /\ Len(p) + (i - Len(p)) = i
      BY <1>2, <2>2
    <3>2. i - Len(p) \in DOMAIN q /\ q[i - Len(p)].do \in {"make one", "rename"}
      BY <1>2, <1>3, <3>1
    <3> QED
      BY <3>2 DEF Proper, Named
  <2> QED
    BY <1>2, <2>1, <2>2
<1>4. Named(p \o q, j)
  BY <1>2, <1>3 DEF Named
<1>5. /\ Kept(p \o q, TagRoles, TagLocks, Unlocking)
      /\ Kept(p \o q, LabelRoles(j), Looks, Outdating)
      /\ Kept(p \o q, {"save"}, WholeReads, {"save"})
  BY <1>1, KeptJoined DEF Proper
<1>6. Locking(j) =>
        /\ Kept(p \o q, Unlocking, MakesTags, {"read"})
        /\ Kept(p \o q, HalfRoles, AnyLocks, Unlocking)
  BY <1>1, KeptJoined DEF Proper
<1> QED
  BY <1>2, <1>4, <1>5, <1>6 DEF Proper

LEMMA KeptByNone ==
  ASSUME NEW R, NEW p, Only(p, R), NEW roles, R \cap roles = {}, NEW opens, NEW closes
  PROVE  Kept(p, roles, opens, closes)
BY DEF Only, Kept

LEMMA TameProper == \A j, p : Tame(p) => Proper(p, j)
<1> SUFFICES ASSUME NEW j, NEW p, Tame(p)
             PROVE  Proper(p, j)
  OBVIOUS
<1>1. /\ Calm \cap TagRoles = {}
      /\ Calm \cap LabelRoles(j) = {}
      /\ Calm \cap {"save"} = {}
      /\ Calm \cap Unlocking = {}
      /\ Calm \cap HalfRoles = {}
      /\ Calm \cap {"make one", "rename"} = {}
  BY DEF Calm, Silent, TagRoles, LabelRoles, Unlocking, HalfRoles
<1>2. /\ Kept(p, TagRoles, TagLocks, Unlocking)
      /\ Kept(p, LabelRoles(j), Looks, Outdating)
      /\ Kept(p, {"save"}, WholeReads, {"save"})
      /\ Kept(p, Unlocking, MakesTags, {"read"})
      /\ Kept(p, HalfRoles, AnyLocks, Unlocking)
  BY <1>1, KeptByNone DEF Tame
<1>3. Named(p, j) /\ IsPath(p)
  BY <1>1 DEF Tame, Only, Named
<1> QED
  BY <1>2, <1>3 DEF Proper

(* A path that opens something at step k, does nothing before that needs   *)
(* it, and does not close it before its last step.                         *)
LEMMA KeptFrom ==
  ASSUME NEW p, IsPath(p), NEW roles, NEW opens, NEW closes,
         NEW k \in DOMAIN p, p[k] \in opens,
         \A i \in 1..k : p[i].do \notin roles,
         \A i \in (k + 1)..(Len(p) - 1) : p[i].do \notin closes
  PROVE  Kept(p, roles, opens, closes)
<1>1. Len(p) \in Nat /\ DOMAIN p = 1..Len(p)
  BY PathLength
<1> SUFFICES ASSUME NEW i \in 1..Len(p), p[i].do \in roles
             PROVE  Since(p, i, opens, closes)
  BY <1>1 DEF Kept
<1>2. ~(i <= k)
  <2>1. CASE i <= k
    <3>1. i \in 1..k
      BY <1>1, <2>1
    <3> QED
      BY <3>1
  <2> QED
    BY <2>1
<1>3. k \in 1..(i - 1) /\ \A m \in (k + 1)..(i - 1) : m \in (k + 1)..(Len(p) - 1)
  BY <1>1, <1>2
<1> QED
  BY <1>3 DEF Since

-----------------------------------------------------------------------------
(* The paths that make tags, and those that edit a record. *)
LEMMA JoinedOne ==
  ASSUME NEW p, NEW a, IsPath(p), a.do \in Roles
  PROVE  /\ IsPath(p \o <<a>>)
         /\ Len(p \o <<a>>) = Len(p) + 1
         /\ \A i \in 1..Len(p) : (p \o <<a>>)[i] = p[i]
         /\ (p \o <<a>>)[Len(p) + 1] = a
<1> DEFINE q == <<a>>
<1>1. IsPath(q) /\ Len(q) = 1 /\ q[1] = a
  BY OnlyOne DEF Only
<1> HIDE DEF q
<1> IsPath(q)
  BY <1>1
<1>2. /\ IsPath(p \o q)
      /\ Len(p \o q) = Len(p) + Len(q)
      /\ \A i \in 1..Len(p) : (p \o q)[i] = p[i]
      /\ \A i \in 1..Len(q) : (p \o q)[Len(p) + i] = q[i]
  BY Joined
<1>3. 1 \in 1..Len(q)
  BY <1>1
<1> QED
  BY <1>1, <1>2, <1>3 DEF q

LEMMA FewRanges ==
  /\ \A i \in 1..1 : i = 1
  /\ \A i \in 1..2 : i = 1 \/ i = 2
  /\ \A i \in 1..3 : i = 1 \/ i = 2 \/ i = 3
  /\ \A i \in 1..4 : i = 1 \/ i = 2 \/ i = 3 \/ i = 4
  /\ \A i \in (2 + 1)..(3 - 1) : FALSE
  /\ \A i \in (1 + 1)..(3 - 1) : i = 2
  /\ \A i \in (2 + 1)..(4 - 1) : i = 3
  /\ \A i \in (1 + 1)..(4 - 1) : i = 2 \/ i = 3
OBVIOUS

LEMMA MakeTagsSteps ==
  /\ IsPath(MakeTags)
  /\ Len(MakeTags) = 4
  /\ MakeTags[1] = Lock({"tags"})
  /\ MakeTags[2] = Step("look", GetTag)
  /\ MakeTags[3] = Step("make", PostTag)
  /\ MakeTags[4] = Unlock
<1> DEFINE a == <<Lock({"tags"})>>
           b == ResolveTags
           d == <<Unlock>>
<1>1. /\ Lock({"tags"}).do \in Roles
      /\ Step("look", GetTag).do \in Roles
      /\ Step("make", PostTag).do \in Roles
      /\ Unlock.do \in Roles
  BY DEF Lock, Unlock, Step, Roles
<1>2. IsPath(a) /\ IsPath(b) /\ IsPath(d)
  BY <1>1, OnlyOne, OnlyTwo DEF Only, ResolveTags
<1>3. /\ Len(a) = 1 /\ a[1] = Lock({"tags"})
      /\ Len(b) = 2 /\ b[1] = Step("look", GetTag) /\ b[2] = Step("make", PostTag)
      /\ Len(d) = 1 /\ d[1] = Unlock
  BY DEF ResolveTags
<1>4. MakeTags = (a \o b) \o d
  BY DEF MakeTags
<1> HIDE DEF a, b, d
<1>5. /\ IsPath(a \o b)
      /\ Len(a \o b) = Len(a) + Len(b)
      /\ \A i \in 1..Len(a) : (a \o b)[i] = a[i]
      /\ \A i \in 1..Len(b) : (a \o b)[Len(a) + i] = b[i]
  BY <1>2, Joined
<1>6. /\ Len(a \o b) = 3
      /\ (a \o b)[1] = a[1] /\ (a \o b)[2] = b[1] /\ (a \o b)[3] = b[2]
  <2>1. 1 \in 1..Len(a) /\ 1 \in 1..Len(b) /\ 2 \in 1..Len(b)
    BY <1>3
  <2>2. Len(a) + 1 = 2 /\ Len(a) + 2 = 3
    BY <1>3
  <2> QED
    BY <1>3, <1>5, <2>1, <2>2
<1>7. /\ IsPath((a \o b) \o d)
      /\ Len((a \o b) \o d) = Len(a \o b) + 1
      /\ \A i \in 1..Len(a \o b) : ((a \o b) \o d)[i] = (a \o b)[i]
      /\ ((a \o b) \o d)[Len(a \o b) + 1] = Unlock
  BY <1>1, <1>5, JoinedOne DEF d
<1>8. 1 \in 1..Len(a \o b) /\ 2 \in 1..Len(a \o b) /\ 3 \in 1..Len(a \o b)
  BY <1>6
<1> QED
  BY <1>3, <1>4, <1>6, <1>7, <1>8

LEMMA MakeTagsProper == \A j : Proper(MakeTags, j)
<1> SUFFICES ASSUME NEW j
             PROVE  Proper(MakeTags, j)
  OBVIOUS
<1> DEFINE p == MakeTags
<1>1. /\ IsPath(p) /\ Len(p) = 4 /\ DOMAIN p = 1..4
      /\ p[1] = Lock({"tags"}) /\ p[2] = Step("look", GetTag)
      /\ p[1].do = "lock" /\ p[2].do = "look" /\ p[3].do = "make" /\ p[4].do = "unlock"
  BY MakeTagsSteps, PathLength DEF Lock, Unlock, Step
<1> HIDE DEF p
<1>2. Kept(p, TagRoles, TagLocks, Unlocking)
  <2>1. 1 \in DOMAIN p /\ p[1] \in TagLocks
    BY <1>1 DEF TagLocks
  <2>2. \A i \in 1..1 : p[i].do \notin TagRoles
    BY <1>1, FewRanges DEF TagRoles
  <2>3. \A i \in (1 + 1)..(Len(p) - 1) : p[i].do \notin Unlocking
    BY <1>1, FewRanges DEF Unlocking
  <2> QED
    BY <1>1, <2>1, <2>2, <2>3, KeptFrom
<1>3. Kept(p, LabelRoles(j), Looks, Outdating)
  <2>1. 2 \in DOMAIN p /\ p[2] \in Looks
    BY <1>1 DEF Looks
  <2>2. \A i \in 1..2 : p[i].do \notin LabelRoles(j)
    BY <1>1, FewRanges DEF LabelRoles
  <2>3. \A i \in (2 + 1)..(Len(p) - 1) : p[i].do \notin Outdating
    BY <1>1, FewRanges DEF Outdating
  <2> QED
    BY <1>1, <2>1, <2>2, <2>3, KeptFrom
<1>4. Kept(p, Unlocking, MakesTags, {"read"})
  <2>1. 1 \in DOMAIN p /\ p[1] \in MakesTags
    BY <1>1 DEF MakesTags
  <2>2. \A i \in 1..1 : p[i].do \notin Unlocking
    BY <1>1, FewRanges DEF Unlocking
  <2>3. \A i \in (1 + 1)..(Len(p) - 1) : p[i].do \notin {"read"}
    BY <1>1
  <2> QED
    BY <1>1, <2>1, <2>2, <2>3, KeptFrom
<1>5. Kept(p, HalfRoles, AnyLocks, Unlocking)
  <2>1. 1 \in DOMAIN p /\ p[1] \in AnyLocks
    BY <1>1 DEF AnyLocks, TagLocks
  <2>2. \A i \in 1..1 : p[i].do \notin HalfRoles
    BY <1>1, FewRanges DEF HalfRoles
  <2>3. \A i \in (1 + 1)..(Len(p) - 1) : p[i].do \notin Unlocking
    BY <1>1, FewRanges DEF Unlocking
  <2> QED
    BY <1>1, <2>1, <2>2, <2>3, KeptFrom
<1>6. Kept(p, {"save"}, WholeReads, {"save"}) /\ Named(p, j)
  <2>1. \A i \in DOMAIN p : p[i].do \notin {"save", "make one", "rename"}
    BY <1>1, FewRanges
  <2> QED
    BY <2>1 DEF Kept, Named
<1> QED
  BY <1>1, <1>2, <1>3, <1>4, <1>5, <1>6 DEF Proper, p

(* What an edit may do between its read and its save. *)
Quiet == Silent \cup {"untag"}
Between == Quiet \cup {"look", "make"}

IsEdit(p, list, l, get, b, put) ==
  /\ IsPath(p) /\ Len(p) = Len(b) + 4
  /\ p[1] = Find(list) /\ p[2] = l /\ p[3] = Read(get) /\ p[Len(b) + 4] = Save(put)
  /\ \A i \in 1..Len(b) : p[3 + i] = b[i]

LEMMA EditSteps ==
  ASSUME NEW list, NEW l, NEW get, NEW b, NEW put, l.do = "lock", Only(b, Between),
         NEW lock, lock = <<l>>
  PROVE  IsEdit(EditPath(list, lock, get, b, put), list, l, get, b, put)
<1> DEFINE a == <<Find(list)>>
           d == a \o <<l>>
           u == d \o <<Read(get)>>
           v == u \o b
           w == v \o <<Save(put)>>
<1>1. /\ Find(list).do \in Roles /\ l.do \in Roles
      /\ Read(get).do \in Roles /\ Save(put).do \in Roles
  BY DEF Find, Read, Save, Step, Roles
<1>2. EditPath(list, lock, get, b, put) = w
  BY DEF EditPath
<1>3. IsPath(a) /\ Len(a) = 1 /\ a[1] = Find(list)
  BY <1>1, OnlyOne DEF Only
<1>4. IsPath(b) /\ Len(b) \in Nat
  BY PathLength DEF Only
<1> HIDE DEF a
<1>5. IsPath(d) /\ Len(d) = 2 /\ d[1] = Find(list) /\ d[2] = l
  <2>1. /\ IsPath(d) /\ Len(d) = Len(a) + 1
        /\ \A i \in 1..Len(a) : d[i] = a[i]
        /\ d[Len(a) + 1] = l
    BY <1>1, <1>3, JoinedOne
  <2>2. 1 \in 1..Len(a) /\ Len(a) + 1 = 2
    BY <1>3
  <2> QED
    BY <1>3, <2>1, <2>2
<1> HIDE DEF d
<1>6. /\ IsPath(u) /\ Len(u) = 3
      /\ u[1] = Find(list) /\ u[2] = l /\ u[3] = Read(get)
  <2>1. /\ IsPath(u) /\ Len(u) = Len(d) + 1
        /\ \A i \in 1..Len(d) : u[i] = d[i]
        /\ u[Len(d) + 1] = Read(get)
    <3>1. IsPath(d) /\ Read(get).do \in Roles
      BY <1>1, <1>5
    <3> QED
      BY <3>1, JoinedOne
  <2>2. 1 \in 1..Len(d) /\ 2 \in 1..Len(d) /\ Len(d) + 1 = 3
    BY <1>5
  <2> QED
    BY <1>5, <2>1, <2>2
<1> HIDE DEF u
<1>7. /\ IsPath(v) /\ Len(v) = 3 + Len(b)
      /\ v[1] = Find(list) /\ v[2] = l /\ v[3] = Read(get)
      /\ \A i \in 1..Len(b) : v[3 + i] = b[i]
  <2>1. /\ IsPath(v) /\ Len(v) = Len(u) + Len(b)
        /\ \A i \in 1..Len(u) : v[i] = u[i]
        /\ \A i \in 1..Len(b) : v[Len(u) + i] = b[i]
    <3>1. IsPath(u) /\ IsPath(b)
      BY <1>4, <1>6
    <3> QED
      BY <3>1, Joined
  <2>2. 1 \in 1..Len(u) /\ 2 \in 1..Len(u) /\ 3 \in 1..Len(u)
    BY <1>6
  <2> QED
    BY <1>6, <2>1, <2>2
<1> HIDE DEF v
<1>8. /\ IsPath(w) /\ Len(w) = Len(v) + 1
      /\ \A i \in 1..Len(v) : w[i] = v[i]
      /\ w[Len(v) + 1] = Save(put)
  BY <1>1, <1>7, JoinedOne
<1> HIDE DEF w
<1>9. Len(v) + 1 = Len(b) + 4 /\ 1 \in 1..Len(v) /\ 2 \in 1..Len(v) /\ 3 \in 1..Len(v)
  BY <1>4, <1>7
<1>10. ASSUME NEW i \in 1..Len(b)
       PROVE  w[3 + i] = b[i]
  <2>1. 3 + i \in 1..Len(v)
    BY <1>4, <1>7
  <2> QED
    BY <1>7, <1>8, <2>1
<1>11. /\ IsPath(w) /\ Len(w) = Len(b) + 4
       /\ w[1] = Find(list) /\ w[2] = l /\ w[3] = Read(get)
       /\ w[Len(b) + 4] = Save(put)
  BY <1>7, <1>8, <1>9
<1> QED
  BY <1>2, <1>10, <1>11 DEF IsEdit

(* A step of a path is one of these. *)
Has(p, S) == \E i \in DOMAIN p : p[i] \in S

(* Where it makes tags, it begins by that; *)
MakesFirst(b) ==
  /\ 2 \in DOMAIN b /\ b[1] = Step("look", GetTag) /\ b[2] = Step("make", PostTag)
  /\ \A i \in DOMAIN b : i > 2 => b[i].do \in Quiet

InBetween(b, j) ==
  /\ Only(b, Between)
  /\ j.adds = {} => Only(b, Quiet)
  /\ j.adds # {} => MakesFirst(b)
  /\ j.removes # {} => Has(b, Untags)

(* it has the tags locked as well as the record, which Prowlarr routes by. *)
EditLock(j) == Lock(IF j.adds # {} THEN {"record", "tags"} ELSE {"record"})

EditsBy(j, p) ==
  \E list, get, b, put :
    /\ Read(get) \in WholeReads /\ InBetween(b, j)
    /\ j.adds # {} => put.of \in Routed
    /\ IsEdit(p, list, EditLock(j), get, b, put)

LEMMA EditProper ==
  ASSUME NEW j, NEW p, EditsBy(j, p)
  PROVE  Proper(p, j)
<1>1. PICK list, get, b, put :
        /\ Read(get) \in WholeReads /\ InBetween(b, j)
        /\ IsEdit(p, list, EditLock(j), get, b, put)
  BY DEF EditsBy
<1> DEFINE l == EditLock(j)
           n == Len(b) + 4
<1>2. /\ l \in AnyLocks /\ l.do = "lock"
      /\ j.adds # {} => l \in TagLocks
  BY DEF EditLock, AnyLocks, TagLocks, Lock, Step
<1>3. /\ IsPath(p) /\ Len(p) = n
      /\ p[1] = Find(list) /\ p[2] = l /\ p[3] = Read(get) /\ p[n] = Save(put)
      /\ \A i \in 1..Len(b) : p[3 + i] = b[i]
  BY <1>1 DEF IsEdit
<1> HIDE DEF l
<1>4. Len(b) \in Nat /\ DOMAIN b = 1..Len(b)
  BY <1>1, PathLength DEF InBetween, Only
<1>5. DOMAIN p = 1..n
  BY <1>3, PathLength
<1>6. p[1].do = "find" /\ p[2].do = "lock" /\ p[3].do = "read" /\ p[n].do = "save"
  BY <1>2, <1>3 DEF Find, Read, Save, Step
<1>7. ASSUME NEW i \in 4..(n - 1)
      PROVE  p[i].do \in Between /\ (j.adds = {} => p[i].do \in Quiet)
  <2>1. i - 3 \in 1..Len(b) /\ 3 + (i - 3) = i
    BY <1>4
  <2>2. p[i] = b[i - 3] /\ i - 3 \in DOMAIN b
    BY <1>3, <1>4, <2>1
  <2> QED
    BY <1>1, <2>2 DEF InBetween, Only
<1>8. \A i \in 1..n : i = 1 \/ i = 2 \/ i = 3 \/ i = n \/ i \in 4..(n - 1)
  BY <1>4
<1>9. n \in Nat /\ n >= 4
  BY <1>4
<1> HIDE DEF n
<1>10. 1 \in DOMAIN p /\ 2 \in DOMAIN p /\ 3 \in DOMAIN p /\ n \in DOMAIN p
  BY <1>5, <1>9
<1>11. Between \cap (TagRoles \cup HalfRoles) \subseteq {"look", "make", "untag"}
  BY DEF Between, Quiet, Silent, TagRoles, HalfRoles
<1>12. /\ \A i \in DOMAIN p : p[i].do \notin Unlocking
       /\ Named(p, j)
  <2>1. \A i \in DOMAIN p : p[i].do \in {"find", "lock", "read", "save"} \cup Between
    BY <1>5, <1>6, <1>7, <1>8
  <2> QED
    BY <2>1 DEF Unlocking, Named, Between, Quiet, Silent
<1>13. Kept(p, TagRoles, TagLocks, Unlocking)
  <2>1. CASE j.adds = {}
    <3>1. \A i \in DOMAIN p : p[i].do \in {"find", "lock", "read", "save"} \cup Quiet
      BY <1>5, <1>6, <1>7, <1>8, <2>1
    <3> QED
      BY <3>1 DEF Kept, TagRoles, Quiet, Silent
  <2>2. CASE j.adds # {}
    <3>1. p[2] \in TagLocks
      BY <1>2, <1>3, <2>2
    <3>2. \A i \in 1..2 : p[i].do \notin TagRoles
      BY <1>6, FewRanges DEF TagRoles
    <3>3. \A i \in (2 + 1)..(Len(p) - 1) : p[i].do \notin Unlocking
      BY <1>3, <1>5, <1>9, <1>12
    <3> QED
      BY <1>3, <1>10, <3>1, <3>2, <3>3, KeptFrom
  <2> QED
    BY <2>1, <2>2
<1>14. Kept(p, LabelRoles(j), Looks, Outdating)
  <2>1. CASE j.adds = {}
    <3>1. \A i \in DOMAIN p : p[i].do \in {"find", "lock", "read", "save"} \cup Quiet
      BY <1>5, <1>6, <1>7, <1>8, <2>1
    <3> QED
      BY <2>1, <3>1 DEF Kept, LabelRoles, Quiet, Silent
  <2>2. CASE j.adds # {}
    <3>1. 1 \in 1..Len(b) /\ b[1] \in Looks
      <4>1. 2 \in 1..Len(b) /\ b[1] = Step("look", GetTag)
        BY <1>1, <1>4, <2>2 DEF InBetween, MakesFirst
      <4> QED
        BY <1>4, <4>1 DEF Looks
    <3>2. p[4] \in Looks /\ 4 \in DOMAIN p
      <4>1. p[3 + 1] \in Looks /\ 3 + 1 = 4
        BY <1>3, <3>1
      <4> QED
        BY <1>5, <1>9, <4>1
    <3>3. p[4].do = "look"
      BY <3>2 DEF Looks, Step
    <3>4. \A i \in 1..4 : p[i].do \notin LabelRoles(j)
      BY <1>6, <3>3, FewRanges DEF LabelRoles
    <3>5. ASSUME NEW i \in (4 + 1)..(Len(p) - 1)
          PROVE  p[i].do \notin Outdating
      <4>1. i \in 4..(n - 1)
        BY <1>3, <1>9
      <4> QED
        BY <1>7, <4>1 DEF Outdating, Between, Quiet, Silent
    <3> QED
      BY <1>3, <3>2, <3>4, <3>5, KeptFrom
  <2> QED
    BY <2>1, <2>2
<1>15. Kept(p, {"save"}, WholeReads, {"save"})
  <2>1. p[3] \in WholeReads
    BY <1>1, <1>3
  <2>2. \A i \in 1..3 : p[i].do \notin {"save"}
    BY <1>6, FewRanges
  <2>3. ASSUME NEW i \in (3 + 1)..(Len(p) - 1)
        PROVE  p[i].do \notin {"save"}
    <3>1. i \in 4..(n - 1)
      BY <1>3, <1>9
    <3> QED
      BY <1>7, <3>1 DEF Between, Quiet, Silent
  <2> QED
    BY <1>3, <1>10, <2>1, <2>2, <2>3, KeptFrom
<1>16. Kept(p, Unlocking, MakesTags, {"read"})
  BY <1>12 DEF Kept
<1>17. Kept(p, HalfRoles, AnyLocks, Unlocking)
  <2>1. p[2] \in AnyLocks
    BY <1>2, <1>3
  <2>2. \A i \in 1..2 : p[i].do \notin HalfRoles
    BY <1>6, FewRanges DEF HalfRoles
  <2>3. \A i \in (2 + 1)..(Len(p) - 1) : p[i].do \notin Unlocking
    BY <1>3, <1>5, <1>9, <1>12
  <2> QED
    BY <1>3, <1>10, <2>1, <2>2, <2>3, KeptFrom
<1> QED
  BY <1>3, <1>12, <1>13, <1>14, <1>15, <1>16, <1>17 DEF Proper

LEMMA MakesFirstJoined ==
  \A a, d : Only(a, Between) /\ MakesFirst(a) /\ Only(d, Quiet) => MakesFirst(a \o d)
<1> SUFFICES ASSUME NEW a, NEW d, Only(a, Between), MakesFirst(a), Only(d, Quiet)
             PROVE  MakesFirst(a \o d)
  OBVIOUS
<1> DEFINE p == a \o d
<1>1. /\ Len(a) \in Nat /\ DOMAIN a = 1..Len(a)
      /\ Len(d) \in Nat /\ DOMAIN d = 1..Len(d)
      /\ IsPath(p) /\ DOMAIN p = 1..(Len(a) + Len(d))
      /\ \A i \in 1..Len(a) : p[i] = a[i]
      /\ \A i \in 1..Len(d) : p[Len(a) + i] = d[i]
  BY PathLength, Joined DEF Only
<1> HIDE DEF p
<1>2. /\ 2 \in 1..Len(a) /\ a[1] = Step("look", GetTag) /\ a[2] = Step("make", PostTag)
      /\ \A i \in 1..Len(a) : i > 2 => a[i].do \in Quiet
  BY <1>1 DEF MakesFirst
<1>3. /\ 1 \in 1..Len(a) /\ 2 \in DOMAIN p
      /\ p[1] = Step("look", GetTag) /\ p[2] = Step("make", PostTag)
  BY <1>1, <1>2
<1>4. ASSUME NEW i \in DOMAIN p, i > 2
      PROVE  p[i].do \in Quiet
  <2>1. CASE i <= Len(a)
    <3>1. i \in 1..Len(a)
      BY <1>1, <2>1
    <3> QED
      BY <1>1, <1>2, <1>4, <3>1
  <2>2. CASE i > Len(a)
    <3>1. i - Len(a) \in 1..Len(d) /\ Len(a) + (i - Len(a)) = i
      BY <1>1, <2>2
    <3> QED
      BY <1>1, <3>1 DEF Only
  <2> QED
    BY <1>1, <2>1, <2>2
<1> QED
  BY <1>3, <1>4 DEF MakesFirst, p

(* A step of a part is a step of the whole. *)
LEMMA HasJoined ==
  ASSUME NEW p, NEW q, NEW S, IsPath(p), IsPath(q), Has(p, S) \/ Has(q, S)
  PROVE  Has(p \o q, S)
<1>1. /\ Len(p) \in Nat /\ DOMAIN p = 1..Len(p)
      /\ Len(q) \in Nat /\ DOMAIN q = 1..Len(q)
      /\ DOMAIN (p \o q) = 1..(Len(p) + Len(q))
      /\ \A i \in 1..Len(p) : (p \o q)[i] = p[i]
      /\ \A i \in 1..Len(q) : (p \o q)[Len(p) + i] = q[i]
  BY PathLength, Joined
<1>2. \A i \in DOMAIN p : i \in DOMAIN (p \o q)
  BY <1>1
<1>3. \A i \in DOMAIN q : Len(p) + i \in DOMAIN (p \o q)
  BY <1>1
<1> QED
  BY <1>1, <1>2, <1>3 DEF Has

LEMMA HasOne == \A a, S : a \in S => Has(<<a>>, S)
<1> SUFFICES ASSUME NEW a, NEW S, a \in S PROVE Has(<<a>>, S)
  OBVIOUS
<1>1. 1 \in DOMAIN <<a>> /\ <<a>>[1] = a
  OBVIOUS
<1> QED
  BY <1>1 DEF Has

(* What an edit of tags does, and what may follow it before the save. *)
LEMMA EditTagsSteps == \A j : InBetween(EditTags(j), j)
<1> SUFFICES ASSUME NEW j PROVE InBetween(EditTags(j), j)
  OBVIOUS
<1> DEFINE a == When(j.adds # {}, ResolveTags)
           b == When(j.removes # {}, FindRemoved)
<1>1. Between \subseteq Roles /\ Quiet \subseteq Roles /\ Quiet \subseteq Between
  BY DEF Between, Quiet, Roles
<1>2. /\ Step("look", GetTag).do \in Between
      /\ Step("make", PostTag).do \in Between
      /\ Step("untag", GetTag).do \in Quiet
  BY DEF Step, Between, Quiet
<1>3. Only(ResolveTags, Between) /\ Only(FindRemoved, Quiet)
  BY <1>1, <1>2, OnlyOne, OnlyTwo DEF ResolveTags, FindRemoved
<1>4. Only(FindRemoved, Between)
  BY <1>1, <1>3 DEF Only
<1>5. Only(a, Between) /\ Only(b, Between) /\ Only(b, Quiet)
  BY <1>1, <1>3, <1>4, OnlyWhen
<1>6. EditTags(j) = a \o b
  BY DEF EditTags
<1>7. Only(EditTags(j), Between)
  BY <1>5, <1>6, OnlyJoined
<1>8. j.removes # {} => Has(EditTags(j), Untags)
  <2> SUFFICES ASSUME j.removes # {} PROVE Has(EditTags(j), Untags)
    OBVIOUS
  <2>1. b = <<Step("untag", GetTag)>>
    BY DEF When, FindRemoved
  <2>2. Has(b, Untags) /\ IsPath(a) /\ IsPath(b)
    BY <1>5, <2>1, HasOne DEF Only, Untags
  <2> QED
    BY <1>6, <2>2, HasJoined
<1>9. CASE j.adds = {}
  <2>1. a = <<>>
    BY <1>9 DEF When
  <2>2. Only(a, Quiet)
    BY <1>1, <2>1, OnlyNone
  <2>3. Only(EditTags(j), Quiet)
    BY <1>5, <1>6, <2>2, OnlyJoined
  <2> QED
    BY <1>7, <1>9, <1>8, <2>3 DEF InBetween
<1>10. CASE j.adds # {}
  <2>1. a = <<Step("look", GetTag), Step("make", PostTag)>>
    BY <1>10 DEF When, ResolveTags
  <2>2. \A s, t : LET u == <<s, t>> IN DOMAIN u = 1..2 /\ u[1] = s /\ u[2] = t
    OBVIOUS
  <2>3. DOMAIN a = 1..2 /\ a[1] = Step("look", GetTag) /\ a[2] = Step("make", PostTag)
    BY <2>1, <2>2
  <2> HIDE DEF a, b
  <2>4. MakesFirst(a)
    BY <2>3 DEF MakesFirst
  <2>5. MakesFirst(a \o b)
    BY <1>5, <2>4, MakesFirstJoined
  <2> QED
    BY <1>6, <1>7, <1>10, <1>8, <2>5 DEF InBetween
<1> QED
  BY <1>9, <1>10

LEMMA InBetweenJoined ==
  \A j, a, d : InBetween(a, j) /\ Only(d, Quiet) => InBetween(a \o d, j)
<1> SUFFICES ASSUME NEW j, NEW a, NEW d, InBetween(a, j), Only(d, Quiet)
             PROVE  InBetween(a \o d, j)
  OBVIOUS
<1>1. Quiet \subseteq Between
  BY DEF Quiet, Between
<1>2. Only(a, Between) /\ Only(d, Between)
  BY <1>1 DEF InBetween, Only
<1>3. Only(a \o d, Between)
  BY <1>2, OnlyJoined
<1>4. j.adds = {} => Only(a \o d, Quiet)
  BY OnlyJoined DEF InBetween
<1>5. j.adds # {} => MakesFirst(a \o d)
  BY <1>2, MakesFirstJoined DEF InBetween
<1>6. j.removes # {} => Has(a \o d, Untags)
  BY <1>2, HasJoined DEF InBetween, Only
<1> QED
  BY <1>3, <1>4, <1>5, <1>6 DEF InBetween

-----------------------------------------------------------------------------
(* The other paths that write tags or records. *)
LEMMA ProperWhen == \A j, t, p : Proper(p, j) => Proper(When(t, p), j)
BY TameParts, TameProper DEF When

LEMMA Triple ==
  \A a, b, d : /\ Len(<<a, b, d>>) = 3
               /\ DOMAIN <<a, b, d>> = 1..3
               /\ 1 \in DOMAIN <<a, b, d>> /\ 2 \in DOMAIN <<a, b, d>>
               /\ <<a, b, d>>[1] = a /\ <<a, b, d>>[2] = b /\ <<a, b, d>>[3] = d
               /\ <<a, b, d>> \in Seq({a, b, d})
OBVIOUS

LEMMA TagWriteProper ==
  ASSUME NEW j, j.adds # {}, NEW role \in {"make one", "rename"}, NEW req
  PROVE  Proper(<<Lock({"tags"}), Step("look", GetTag), Step(role, req)>>, j)
<1> DEFINE a == Lock({"tags"})
           b == Step("look", GetTag)
           d == Step(role, req)
           S == {a, b, d}
           p == <<a, b, d>>
<1>1. a.do = "lock" /\ b.do = "look" /\ d.do = role
  BY DEF Lock, Step
<1>2. a \in TagLocks /\ a \in AnyLocks /\ b \in Looks
  BY DEF TagLocks, AnyLocks, Looks
<1> HIDE DEF a, b, d
<1>3. Len(p) = 3 /\ DOMAIN p = 1..3 /\ p[1] = a /\ p[2] = b /\ p[3] = d
  BY Triple
<1>4. p \in Seq(S)
  BY Triple
<1>5. \A s \in S : s.do \in Roles
  BY <1>1 DEF Roles
<1> HIDE DEF S, p
<1>6. IsPath(p)
  BY <1>5, <1>4, OnlySteps DEF Only
<1>7. p[1].do = "lock" /\ p[2].do = "look" /\ p[3].do \in {"make one", "rename"}
  BY <1>1, <1>3
<1>8. \A i \in DOMAIN p : p[i].do \in {"lock", "look", "make one", "rename"}
  BY <1>3, <1>7, FewRanges
<1>9. 1 \in DOMAIN p /\ 2 \in DOMAIN p
  BY Triple DEF p
<1>10. /\ \A i \in 1..1 : p[i].do \notin TagRoles /\ p[i].do \notin HalfRoles
      /\ \A i \in 1..2 : p[i].do \notin LabelRoles(j)
  BY <1>7, FewRanges DEF TagRoles, HalfRoles, LabelRoles
<1>11. \A i \in (1 + 1)..(Len(p) - 1) : p[i].do \notin Unlocking
  BY <1>3, <1>7, FewRanges DEF Unlocking
<1>12. \A i \in (2 + 1)..(Len(p) - 1) : p[i].do \notin Outdating
  BY <1>3, FewRanges
<1>13. Kept(p, TagRoles, TagLocks, Unlocking)
  BY <1>2, <1>3, <1>6, <1>9, <1>10, <1>11, KeptFrom
<1>14. Kept(p, LabelRoles(j), Looks, Outdating)
  BY <1>2, <1>3, <1>6, <1>9, <1>10, <1>12, KeptFrom
<1>15. Kept(p, HalfRoles, AnyLocks, Unlocking)
  BY <1>2, <1>3, <1>6, <1>9, <1>10, <1>11, KeptFrom
<1>16. Kept(p, {"save"}, WholeReads, {"save"}) /\ Kept(p, Unlocking, MakesTags, {"read"})
  BY <1>8 DEF Kept, Unlocking
<1>17. Proper(p, j)
  BY <1>6, <1>13, <1>14, <1>15, <1>16 DEF Proper, Named
<1> QED
  BY <1>17 DEF p, a, b, d

LEMMA TagDeleteProper == \A j : Proper(TagDelete, j)
<1> SUFFICES ASSUME NEW j
             PROVE  Proper(TagDelete, j)
  OBVIOUS
<1> DEFINE a == Lock({"tags"})
           b == Step("list", GetIndexer)
           d == Step("list", GetApplications)
           e == Step("list", GetIndexerProxy)
           f == Step("detail", GetTagDetail)
           g == Step("names", GetNotification)
           h == Step("drop", DeleteTagById)
           S == {a, b, d, e, f, g, h}
           p == <<a, b, d, e, f, g, h>>
           R == {"lock", "list", "detail", "names", "drop"}
<1>1. /\ TagDelete = p
      /\ a.do = "lock" /\ {b.do, d.do, e.do, f.do, g.do, h.do} \subseteq R
  BY DEF TagDelete, Lock, Step
<1>2. a \in TagLocks /\ a \in AnyLocks
  BY DEF TagLocks, AnyLocks
<1> HIDE DEF a, b, d, e, f, g, h
<1>3. p \in Seq(S) /\ DOMAIN p = 1..7 /\ p[1] = a
  OBVIOUS
<1>4. \A s \in S : s.do \in R
  BY <1>1
<1> HIDE DEF S, p
<1>5. R \subseteq Roles
  BY DEF Roles
<1>6. Only(p, R)
  BY <1>3, <1>4, <1>5, OnlySteps
<1>7. IsPath(p) /\ \A i \in DOMAIN p : p[i].do \in R
  BY <1>6 DEF Only
<1>8. 1 \in DOMAIN p /\ p[1] \in TagLocks /\ p[1] \in AnyLocks /\ p[1].do = "lock"
  BY <1>1, <1>2, <1>3
<1>9. \A i \in 1..1 : p[i].do \notin TagRoles /\ p[i].do \notin HalfRoles
  BY <1>8, FewRanges DEF TagRoles, HalfRoles
<1>10. \A i \in (1 + 1)..(Len(p) - 1) : p[i].do \notin Unlocking
  <2>1. Len(p) \in Nat /\ DOMAIN p = 1..Len(p)
    BY <1>7, PathLength
  <2>2. \A i \in (1 + 1)..(Len(p) - 1) : i \in DOMAIN p
    BY <2>1
  <2> QED
    BY <1>7, <2>2 DEF Unlocking
<1>11. Kept(p, TagRoles, TagLocks, Unlocking)
  BY <1>7, <1>8, <1>9, <1>10, KeptFrom
<1>12. Kept(p, HalfRoles, AnyLocks, Unlocking)
  BY <1>7, <1>8, <1>9, <1>10, KeptFrom
<1>13. /\ Kept(p, LabelRoles(j), Looks, Outdating)
       /\ Kept(p, {"save"}, WholeReads, {"save"})
       /\ Kept(p, Unlocking, MakesTags, {"read"})
       /\ Named(p, j)
  BY <1>7 DEF Kept, LabelRoles, Unlocking, Named
<1> QED
  BY <1>1, <1>7, <1>11, <1>12, <1>13 DEF Proper

LEMMA RestartProper == \A j : Proper(ServerRestart, j)
<1> SUFFICES ASSUME NEW j
             PROVE  Proper(ServerRestart, j)
  OBVIOUS
<1> DEFINE a == Ask(GetSystemStatus)
           b == LockAll
           d == Step("restart", PostSystemRestart)
           S == {a, b, d}
           p == <<a, b, d, a>>
<1>1. ServerRestart = p /\ a.do = "ask" /\ b.do = "lock" /\ d.do = "restart"
  BY DEF ServerRestart, Ask, LockAll, Step
<1>2. b \in TagLocks
  BY DEF TagLocks
<1> HIDE DEF a, b, d
<1>3. p \in Seq(S) /\ Len(p) = 4 /\ DOMAIN p = 1..4 /\ p[1] = a /\ p[2] = b
  OBVIOUS
<1>4. \A s \in S : s.do \in {"ask", "lock", "restart"}
  BY <1>1
<1> HIDE DEF S, p
<1>5. {"ask", "lock", "restart"} \subseteq Roles
  BY DEF Roles, Silent
<1>6. Only(p, {"ask", "lock", "restart"})
  BY <1>3, <1>4, <1>5, OnlySteps
<1>7. IsPath(p) /\ \A i \in DOMAIN p : p[i].do \in {"ask", "lock", "restart"}
  BY <1>6 DEF Only
<1>8. 2 \in DOMAIN p /\ p[2] \in TagLocks /\ p[1].do = "ask" /\ p[2].do = "lock"
  BY <1>1, <1>2, <1>3
<1>9. \A i \in 1..2 : p[i].do \notin TagRoles
  BY <1>8, FewRanges DEF TagRoles
<1>10. \A i \in (2 + 1)..(Len(p) - 1) : p[i].do \notin Unlocking
  BY <1>3, <1>7 DEF Unlocking
<1>11. Kept(p, TagRoles, TagLocks, Unlocking)
  BY <1>7, <1>8, <1>9, <1>10, KeptFrom
<1>12. /\ Kept(p, LabelRoles(j), Looks, Outdating)
       /\ Kept(p, {"save"}, WholeReads, {"save"})
       /\ Kept(p, Unlocking, MakesTags, {"read"})
       /\ Kept(p, HalfRoles, AnyLocks, Unlocking)
       /\ Named(p, j)
  BY <1>7 DEF Kept, LabelRoles, Unlocking, HalfRoles, Named
<1> QED
  BY <1>1, <1>7, <1>11, <1>12 DEF Proper

(* The calls that write without a lock only do so where they may. *)
Loose == Calm \cup {"update", "untag", "unbulk"}

LEMMA LooseProper == \A j, p : ~Locking(j) /\ Only(p, Loose) => Proper(p, j)
<1> SUFFICES ASSUME NEW j, NEW p, ~Locking(j), Only(p, Loose)
             PROVE  Proper(p, j)
  OBVIOUS
<1>1. /\ Loose \cap TagRoles = {}
      /\ Loose \cap LabelRoles(j) = {}
      /\ Loose \cap {"save"} = {}
      /\ Loose \cap {"make one", "rename"} = {}
  BY DEF Loose, Calm, Silent, TagRoles, LabelRoles
<1>2. /\ Kept(p, TagRoles, TagLocks, Unlocking)
      /\ Kept(p, LabelRoles(j), Looks, Outdating)
      /\ Kept(p, {"save"}, WholeReads, {"save"})
  BY <1>1, KeptByNone
<1>3. Named(p, j) /\ IsPath(p)
  BY <1>1 DEF Only, Named
<1> QED
  BY <1>2, <1>3 DEF Proper

LEMMA ForcedAddProper ==
  ASSUME NEW j, NEW force, force => ~Locking(j), NEW create, NEW update
  PROVE  Proper(ForcedAdd(force, create, update), j)
<1>1. CASE force
  <2>1. ForcedAdd(force, create, update)
          = <<Step("create off", create), Step("update", update)>>
    BY <1>1 DEF ForcedAdd
  <2>2. /\ Step("create off", create).do \in Loose /\ Step("update", update).do \in Loose
        /\ Loose \subseteq Roles
    BY DEF Step, Loose, Calm, Silent, Roles
  <2> QED
    BY <1>1, <2>1, <2>2, OnlyTwo, LooseProper
<1>2. CASE ~force
  <2>1. ForcedAdd(force, create, update) = <<Step("create", create)>>
    BY <1>2 DEF ForcedAdd
  <2> QED
    BY <2>1, CalmSteps, TameParts, TameProper
<1> QED
  BY <1>1, <1>2

LEMMA AddsProper ==
  ASSUME NEW j,
         j.tool \in {"indexer_add", "app_add", "proxy_add", "downloadclient_add",
                     "notification_add"}
  PROVE  Proper(Path(j), j)
<1>1. \A force, create, update :
        (force => Asked(j, "force")) => Proper(ForcedAdd(force, create, update), j)
  BY ForcedAddProper DEF Locking
<1>2. /\ Tame(Lookups) /\ Tame(AppNames)
      /\ \A r : Tame(<<Ask(r)>>)
      /\ \A r, q : Tame(<<Ask(r), Ask(q)>>)
  BY MildParts, MildSteps, MildNames, MildTame
<1>3. /\ Proper(Lookups, j) /\ Proper(AppNames, j) /\ Proper(MakeTags, j)
      /\ \A r : Proper(<<Ask(r)>>, j)
      /\ \A r, q : Proper(<<Ask(r), Ask(q)>>, j)
  BY <1>2, TameProper, MakeTagsProper
<1>4. \A schema, create, update : Proper(AddPath(schema, j, create, update), j)
  BY <1>1, <1>3, ProperJoined DEF AddPath
<1>5. /\ Proper(AppAdd(j), j) /\ Proper(ProxyAdd(j), j)
      /\ Proper(DownloadClientAdd(j), j) /\ Proper(NotificationAdd(j), j)
  BY <1>3, <1>4, ProperJoined DEF AppAdd, ProxyAdd, DownloadClientAdd, NotificationAdd
<1>6. Proper(IndexerAdd(j), j)
  BY <1>1, <1>3, ProperJoined DEF IndexerAdd
<1>7. /\ j.tool = "indexer_add" => Path(j) = IndexerAdd(j)
      /\ j.tool = "app_add" => Path(j) = AppAdd(j)
      /\ j.tool = "proxy_add" => Path(j) = ProxyAdd(j)
      /\ j.tool = "downloadclient_add" => Path(j) = DownloadClientAdd(j)
      /\ j.tool = "notification_add" => Path(j) = NotificationAdd(j)
  BY DEF Path
<1> QED
  BY <1>5, <1>6, <1>7

LEMMA BulkProper ==
  ASSUME NEW j, j.tool = "indexer_bulk_edit"
  PROVE  Proper(Path(j), j)
<1>1. ~Locking(j)
  BY DEF Locking
<1>2. /\ Step("untag", GetTag).do \in Loose
      /\ Step("unbulk", PutIndexerBulk).do \in Loose
      /\ Loose \subseteq Roles
  BY DEF Step, Loose, Calm, Silent, Roles
<1>3. Proper(FindRemoved, j) /\ Proper(<<Step("unbulk", PutIndexerBulk)>>, j)
  BY <1>1, <1>2, OnlyOne, LooseProper DEF FindRemoved
<1>4. /\ Tame(<<Find(GetIndexer)>>) /\ Tame(Lookups) /\ Tame(<<Ask(GetAppProfile)>>)
      /\ Tame(<<Step("bulk", PutIndexerBulk)>>)
  BY TameParts, CalmSteps, MildNames, MildTame
<1>5. /\ Proper(<<Find(GetIndexer)>>, j) /\ Proper(Lookups, j)
      /\ Proper(<<Ask(GetAppProfile)>>, j) /\ Proper(<<Step("bulk", PutIndexerBulk)>>, j)
  BY <1>4, TameProper
<1>6. Proper(IndexerBulkEdit(j), j)
  BY <1>3, <1>5, MakeTagsProper, ProperJoined, ProperWhen DEF IndexerBulkEdit
<1>7. Path(j) = IndexerBulkEdit(j)
  BY DEF Path
<1> QED
  BY <1>6, <1>7

LEMMA TagsProper ==
  ASSUME NEW j, Formed(j), j.tool \in {"tag_create", "tag_edit", "tag_delete"}
  PROVE  Proper(Path(j), j)
<1>1. CASE j.tool = "tag_create"
  <2>1. Path(j) = TagCreate /\ j.adds # {}
    BY <1>1 DEF Path, Formed
  <2> QED
    BY <2>1, TagWriteProper DEF TagCreate
<1>2. CASE j.tool = "tag_edit"
  <2>1. Path(j) = TagEdit /\ j.adds # {}
    BY <1>2 DEF Path, Formed
  <2>2. Tame(TagDetails)
    BY MildNames, MildTame
  <2>3. Proper(<<Lock({"tags"}), Step("look", GetTag), Step("rename", PutTagById)>>, j)
    BY <2>1, TagWriteProper
  <2> QED
    BY <2>1, <2>2, <2>3, TameProper, ProperJoined DEF TagEdit
<1>3. CASE j.tool = "tag_delete"
  BY <1>3, TagDeleteProper DEF Path
<1> QED
  BY <1>1, <1>2, <1>3

LEMMA EditPathIs ==
  \A j, list, get, b, put :
    /\ Read(get) \in WholeReads /\ InBetween(b, j) /\ (j.adds # {} => put.of \in Routed)
    => EditsBy(j, EditPath(list, Editing(j), get, b, put))
<1> SUFFICES ASSUME NEW j, NEW list, NEW get, NEW b, NEW put,
                    Read(get) \in WholeReads, InBetween(b, j),
                    j.adds # {} => put.of \in Routed
             PROVE  EditsBy(j, EditPath(list, Editing(j), get, b, put))
  OBVIOUS
<1>1. Editing(j) = <<EditLock(j)>> /\ EditLock(j).do = "lock" /\ Only(b, Between)
  BY DEF Editing, EditLock, Lock, Step, InBetween
<1>2. IsEdit(EditPath(list, Editing(j), get, b, put), list, EditLock(j), get, b, put)
  BY <1>1, EditSteps
<1> QED
  BY <1>2 DEF EditsBy

(* An edit may read names when it is made. *)
LEMMA EditPaths ==
  ASSUME NEW j, Formed(j),
         j.tool \in {"indexer_edit", "app_edit", "profile_edit", "proxy_edit",
                     "downloadclient_edit", "notification_edit", "filter_edit"}
  PROVE  \E p, q : EditsBy(j, p) /\ Mild(q) /\ (Path(j) = p \/ Path(j) = p \o q)
<1>1. InBetween(EditTags(j), j)
  BY EditTagsSteps
<1>2. Quiet \subseteq Roles
  BY DEF Quiet, Silent, Roles
<1>3. Mild(Lookups) /\ Mild(AppNames) /\ \A r : Mild(<<Ask(r)>>)
  BY MildParts, MildSteps, MildNames
<1>4. /\ PutIndexerById.of \in Routed /\ PutApplicationsById.of \in Routed
      /\ PutIndexerProxyById.of \in Routed /\ PutNotificationById.of \in Routed
  BY DEF PutIndexerById, PutApplicationsById, PutIndexerProxyById, PutNotificationById,
         PUT, Request, Routed
<1>5. {Read(get) : get \in {GetIndexerById, GetApplicationsById, GetAppProfileById,
                            GetIndexerProxyById, GetDownloadClientById,
                            GetNotificationById, GetCustomFilterById}} \subseteq WholeReads
  BY DEF WholeReads
<1>6. CASE j.tool = "indexer_edit"
  <2> DEFINE a == EditTags(j)
             d == When(Asked(j, "profile"), <<Ask(GetAppProfile)>>)
             e == When(Asked(j, "client"), <<Ask(GetDownloadClient)>>)
             b == (a \o d) \o e
             p == EditPath(GetIndexer, Editing(j), GetIndexerById, b, PutIndexerById)
  <2>1. \A r : Ask(r).do \in Quiet
    BY DEF Ask, Step, Quiet, Silent
  <2>2. Only(d, Quiet) /\ Only(e, Quiet)
    BY <1>2, <2>1, OnlyOne, OnlyWhen
  <2>3. Path(j) = p \o Lookups
    BY <1>6 DEF Path, IndexerEdit
  <2> HIDE DEF a, d, e
  <2>4. InBetween(b, j)
    BY <1>1, <2>2, InBetweenJoined DEF a
  <2> HIDE DEF b
  <2>5. EditsBy(j, p)
    BY <1>4, <1>5, <2>4, EditPathIs
  <2> QED
    BY <1>3, <2>3, <2>5
<1>7. CASE j.tool \in {"app_edit", "proxy_edit", "notification_edit"}
  <2>1. \A list :
          /\ EditsBy(j, EditPath(list, Editing(j), GetApplicationsById, EditTags(j),
                                 PutApplicationsById))
          /\ EditsBy(j, EditPath(list, Editing(j), GetIndexerProxyById, EditTags(j),
                                 PutIndexerProxyById))
          /\ EditsBy(j, EditPath(list, Editing(j), GetNotificationById, EditTags(j),
                                 PutNotificationById))
    BY <1>1, <1>4, <1>5, EditPathIs
  <2>2. /\ j.tool = "app_edit" => Path(j) = AppEdit(j)
        /\ j.tool = "proxy_edit" => Path(j) = ProxyEdit(j)
        /\ j.tool = "notification_edit" => Path(j) = NotificationEdit(j)
    BY DEF Path
  <2> QED
    BY <1>3, <1>7, <2>1, <2>2 DEF AppEdit, ProxyEdit, NotificationEdit
<1>8. CASE j.tool \in {"profile_edit", "downloadclient_edit", "filter_edit"}
  <2> DEFINE b == <<>>
  <2>1. j.adds = {} /\ j.removes = {}
    BY <1>8 DEF Formed
  <2>2. Editing(j) = EditingAlone
    BY <2>1 DEF Editing, EditingAlone
  <2>3. InBetween(b, j)
    <3>1. Between \subseteq Roles
      BY DEF Between, Quiet, Silent, Roles
    <3> QED
      BY <1>2, <2>1, <3>1, OnlyNone DEF InBetween
  <2>4. \A list, put :
          /\ EditsBy(j, EditPath(list, Editing(j), GetAppProfileById, b, put))
          /\ EditsBy(j, EditPath(list, Editing(j), GetDownloadClientById, b, put))
          /\ EditsBy(j, EditPath(list, Editing(j), GetCustomFilterById, b, put))
    <3> HIDE DEF b
    <3> QED
      BY <1>5, <2>1, <2>3, EditPathIs
  <2>5. /\ j.tool = "profile_edit" => Path(j) = ProfileEdit
        /\ j.tool = "downloadclient_edit" => Path(j) = DownloadClientEdit
        /\ j.tool = "filter_edit" => Path(j) = FilterEdit
    BY DEF Path
  <2> QED
    BY <1>3, <1>8, <2>2, <2>4, <2>5 DEF ProfileEdit, DownloadClientEdit, FilterEdit
<1> QED
  BY <1>6, <1>7, <1>8

LEMMA EditsProper ==
  ASSUME NEW j, Formed(j),
         j.tool \in {"indexer_edit", "app_edit", "profile_edit", "proxy_edit",
                     "downloadclient_edit", "notification_edit", "filter_edit"}
  PROVE  Proper(Path(j), j)
<1>1. PICK p, q : EditsBy(j, p) /\ Mild(q) /\ (Path(j) = p \/ Path(j) = p \o q)
  BY EditPaths
<1>2. Proper(p, j) /\ Proper(q, j)
  BY <1>1, EditProper, MildTame, TameProper
<1> QED
  BY <1>1, <1>2, ProperJoined

(* An edit of a section: read, and saved unless what it changes has to be  *)
(* confirmed, and read again.                                              *)
IsSectionEdit(p, get, put) ==
  /\ IsPath(p) /\ Read(get) \in WholeReads
  /\ p[1] = Lock({"record"}) /\ p[2] = Read(get)
  /\ \/ Len(p) = 3 /\ p[3] = Ask(get)
     \/ Len(p) = 4 /\ p[3] = Save(put) /\ p[4] = Ask(get)

LEMMA SettingsSteps ==
  ASSUME NEW j, Formed(j), j.tool = "server_settings_edit"
  PROVE  \E get, put : IsSectionEdit(Path(j), get, put)
<1> DEFINE section == CHOOSE s \in {"host", "ui", "development"} : Asked(j, s)
           get == GetConfig(section)
           put == PutConfig(section)
           a == Lock({"record"})
           b == Read(get)
<1>1. section \in {"host", "ui", "development"}
  BY DEF Formed
<1>2. get \in {GetConfigHost, GetConfigUi, GetConfigDevelopment}
  BY <1>1 DEF GetConfig
<1>3. b \in WholeReads /\ a.do = "lock" /\ b.do = "read"
  BY <1>2 DEF WholeReads, Lock, Read, Step
<1>4. Path(j) = (EditingAlone \o <<Read(get)>>)
                \o IF Asked(j, "reach") /\ ~Asked(j, "confirm")
                   THEN <<Ask(get)>> ELSE <<Save(put), Ask(get)>>
  BY DEF Path, ServerSettingsEdit
<1> HIDE DEF section, get, put
<1>5. EditingAlone \o <<Read(get)>> = <<a>> \o <<b>>
  BY DEF EditingAlone
<1>6. /\ {Save(put).do, Ask(get).do} \subseteq Roles
      /\ {a.do, b.do} \subseteq Roles
  BY <1>3 DEF Save, Ask, Step, Roles, Silent
<1> DEFINE u == <<a>> \o <<b>>
           d == <<Ask(get)>>
           q == <<Save(put), Ask(get)>>
<1>7. IsPath(u) /\ Len(u) = 2 /\ u[1] = a /\ u[2] = b
  <2>1. IsPath(<<a>>) /\ b.do \in Roles
    BY <1>6, OnlyOne DEF Only
  <2>2. Len(<<a>>) = 1 /\ <<a>>[1] = a /\ 1 \in 1..1 /\ 1 + 1 = 2
    OBVIOUS
  <2> HIDE DEF a, b
  <2>3. /\ IsPath(u) /\ Len(u) = Len(<<a>>) + 1
        /\ \A i \in 1..Len(<<a>>) : u[i] = <<a>>[i]
        /\ u[Len(<<a>>) + 1] = b
    BY <2>1, JoinedOne
  <2> QED
    BY <2>2, <2>3
<1>8. CASE Asked(j, "reach") /\ ~Asked(j, "confirm")
  <2>1. Path(j) = u \o d
    BY <1>4, <1>5, <1>8
  <2> HIDE DEF u
  <2>2. /\ IsPath(u \o d) /\ Len(u \o d) = Len(u) + 1
        /\ \A i \in 1..Len(u) : (u \o d)[i] = u[i]
        /\ (u \o d)[Len(u) + 1] = Ask(get)
    <3>1. IsPath(u) /\ Ask(get).do \in Roles
      BY <1>6, <1>7
    <3> QED
      BY <3>1, JoinedOne
  <2>3. 1 \in 1..2 /\ 2 \in 1..2 /\ 2 + 1 = 3
    OBVIOUS
  <2> HIDE DEF d
  <2>4. IsSectionEdit(u \o d, get, put)
    BY <1>3, <1>7, <2>2, <2>3 DEF IsSectionEdit
  <2> QED
    BY <2>1, <2>4
<1>9. CASE ~(Asked(j, "reach") /\ ~Asked(j, "confirm"))
  <2>1. Path(j) = u \o q
    BY <1>4, <1>5, <1>9
  <2>2. IsPath(q)
    BY <1>6, OnlyTwo DEF Only
  <2>3. Len(q) = 2 /\ q[1] = Save(put) /\ q[2] = Ask(get)
    OBVIOUS
  <2> HIDE DEF u, q
  <2>4. /\ IsPath(u \o q) /\ Len(u \o q) = Len(u) + Len(q)
        /\ \A i \in 1..Len(u) : (u \o q)[i] = u[i]
        /\ \A i \in 1..Len(q) : (u \o q)[Len(u) + i] = q[i]
    <3>1. IsPath(u)
      BY <1>7
    <3> QED
      BY <2>2, <3>1, Joined
  <2>5. 1 \in 1..2 /\ 2 \in 1..2 /\ 2 + 1 = 3 /\ 2 + 2 = 4
    OBVIOUS
  <2>6. IsSectionEdit(u \o q, get, put)
    BY <1>3, <1>7, <2>3, <2>4, <2>5 DEF IsSectionEdit
  <2> QED
    BY <2>1, <2>6
<1> QED
  BY <1>8, <1>9

LEMMA SettingsEditProper ==
  ASSUME NEW j, Formed(j), j.tool = "server_settings_edit"
  PROVE  Proper(Path(j), j)
<1> DEFINE p == Path(j)
<1>1. PICK get, put : IsSectionEdit(p, get, put)
  BY SettingsSteps
<1> HIDE DEF p
<1>2. /\ IsPath(p) /\ DOMAIN p = 1..Len(p) /\ Len(p) \in {3, 4}
      /\ p[1] = Lock({"record"}) /\ p[1].do = "lock"
      /\ p[2] \in WholeReads /\ p[2].do = "read"
      /\ \/ Len(p) = 3 /\ p[3].do = "ask"
         \/ Len(p) = 4 /\ p[3].do = "save" /\ p[4].do = "ask"
  BY <1>1, PathLength DEF IsSectionEdit, Lock, Read, Save, Ask, Step
<1>3. /\ \A i \in DOMAIN p : p[i].do \in {"lock", "read", "save", "ask"}
      /\ \A i \in DOMAIN p : p[i].do = "save" => i = 3
  BY <1>2, FewRanges
<1>4. 1 \in DOMAIN p /\ p[1] \in AnyLocks
  BY <1>2 DEF AnyLocks
<1>5. Kept(p, HalfRoles, AnyLocks, Unlocking)
  <2>1. /\ \A i \in 1..1 : p[i].do \notin HalfRoles
        /\ \A i \in (1 + 1)..(Len(p) - 1) : p[i].do \notin Unlocking
    BY <1>2, <1>3, FewRanges DEF HalfRoles, Unlocking
  <2> QED
    BY <1>2, <1>4, <2>1, KeptFrom
<1>6. Kept(p, {"save"}, WholeReads, {"save"})
  <2>1. 2 \in 1..(3 - 1) /\ \A i \in (2 + 1)..(3 - 1) : FALSE
    OBVIOUS
  <2>2. Since(p, 3, WholeReads, {"save"})
    BY <1>2, <2>1 DEF Since
  <2> QED
    BY <1>3, <2>2 DEF Kept
<1>7. j.adds = {}
  BY DEF Formed
<1>8. /\ Kept(p, TagRoles, TagLocks, Unlocking)
      /\ Kept(p, LabelRoles(j), Looks, Outdating)
      /\ Kept(p, Unlocking, MakesTags, {"read"})
      /\ Named(p, j)
  BY <1>3, <1>7 DEF Kept, TagRoles, LabelRoles, Unlocking, Named
<1> QED
  BY <1>2, <1>5, <1>6, <1>8 DEF Proper, p

LEMMA PathProper ==
  ASSUME NEW j, Formed(j)
  PROVE  Proper(Path(j), j)
<1>1. j.tool \in AllTools
  BY DEF Formed
<1>2. CASE Mild(Path(j)) \/ Tame(Path(j))
  BY <1>2, MildTame, TameProper
<1>3. CASE j.tool = "server_restart"
  BY <1>3, RestartProper DEF Path
<1>4. CASE j.tool \in {"indexer_add", "app_add", "proxy_add", "downloadclient_add",
                       "notification_add"}
  BY <1>4, AddsProper
<1>5. CASE j.tool \in {"indexer_edit", "app_edit", "profile_edit", "proxy_edit",
                       "downloadclient_edit", "notification_edit", "filter_edit"}
  BY <1>5, EditsProper
<1>6. CASE j.tool \in {"tag_create", "tag_edit", "tag_delete"}
  BY <1>6, TagsProper
<1>7. CASE j.tool = "indexer_bulk_edit" \/ j.tool = "server_settings_edit"
  BY <1>7, BulkProper, SettingsEditProper
<1> QED
  BY <1>1, <1>2, <1>3, <1>4, <1>5, <1>6, <1>7,
     MildIndexers, MildApps, MildClients, MildKept, MildServer, MildAudits, TameWrites
     DEF AllTools, Core, Audits, Curation, Setup, Grabbing, Admin

-----------------------------------------------------------------------------
(* What a path has to be for the calls to come to what Serial allows. *)
Fit(p, j) ==
  /\ IsPath(p)
  /\ Serves(p, j)
  /\ Kept(p, {"read", "save"}, RecordLocks, Unlocking)
  /\ Kept(p, {"restart"}, {LockAll}, Unlocking)
  /\ Kept(p, TaggedRoles(j), Makes, Outdating \cup {"look"})

Changeless(p) == \A i \in DOMAIN p : p[i].do \notin Changes
Course(p, j) == Fit(p, j) /\ Once(p)

LEMMA FitJoined == \A j, p, q : Fit(p, j) /\ Fit(q, j) => Fit(p \o q, j)
<1> SUFFICES ASSUME NEW j, NEW p, NEW q, Fit(p, j), Fit(q, j)
             PROVE  Fit(p \o q, j)
  OBVIOUS
<1>1. IsPath(p) /\ IsPath(q)
  BY DEF Fit
<1>2. /\ IsPath(p \o q)
      /\ Len(p) \in Nat /\ DOMAIN p = 1..Len(p)
      /\ Len(q) \in Nat /\ DOMAIN q = 1..Len(q)
      /\ DOMAIN (p \o q) = 1..(Len(p) + Len(q))
      /\ \A i \in 1..Len(p) : (p \o q)[i] = p[i]
      /\ \A i \in 1..Len(q) : (p \o q)[Len(p) + i] = q[i]
  BY <1>1, PathLength, Joined
<1>3. Serves(p \o q, j)
  <2> DEFINE w == p \o q
             n == Len(p)
             m == Len(q)
  <2>1. /\ n \in Nat /\ m \in Nat
        /\ DOMAIN p = 1..n /\ DOMAIN q = 1..m /\ DOMAIN w = 1..(n + m)
        /\ \A i \in 1..n : w[i] = p[i]
        /\ \A i \in 1..m : w[n + i] = q[i]
    BY <1>2
  <2> HIDE DEF w, n, m
  <2>2. ASSUME NEW i \in DOMAIN w
        PROVE  (\E k \in DOMAIN p : w[i] = p[k]) \/ (\E k \in DOMAIN q : w[i] = q[k])
    <3>1. CASE i <= n
      <4>1. i \in DOMAIN p
        BY <2>1, <3>1
      <4> QED
        BY <2>1, <4>1
    <3>2. CASE i > n
      <4>1. i - n \in DOMAIN q /\ n + (i - n) = i
        BY <2>1, <3>2
      <4> QED
        BY <2>1, <4>1
    <3> QED
      BY <2>1, <3>1, <3>2
  <2>3. Serves(p, j) /\ Serves(q, j)
    BY DEF Fit
  <2>4. ASSUME NEW i \in DOMAIN w
        PROVE  /\ w[i].do \notin {"unlock", "bulk", "unbulk", "create", "create off", "update"}
               /\ w[i].do \in {"read", "save"} => j.tool \in EditTools
               /\ w[i].do = "save" /\ j.adds # {} => w[i].what.of \in Routed
               /\ w[i].do = "detail" => j.tool \notin EditTools
               /\ w[i].do = "delete" => j.tool \in DeleteTools
               /\ w[i].do = "restore" => j.tool = "backup_restore"
               /\ w[i].do = "restart" => j.tool = "server_restart"
    <3>1. CASE \E k \in DOMAIN p : w[i] = p[k]
      <4>1. PICK k \in DOMAIN p : w[i] = p[k]
        BY <3>1
      <4> QED
        BY <2>3, <4>1, Zenon DEF Serves
    <3>2. CASE \E k \in DOMAIN q : w[i] = q[k]
      <4>1. PICK k \in DOMAIN q : w[i] = q[k]
        BY <3>2
      <4> QED
        BY <2>3, <4>1, Zenon DEF Serves
    <3> QED
      BY <2>2, <3>1, <3>2
  <2> QED
    BY <2>4, Zenon DEF Serves, w
<1>4. /\ Kept(p \o q, {"read", "save"}, RecordLocks, Unlocking)
      /\ Kept(p \o q, {"restart"}, {LockAll}, Unlocking)
      /\ Kept(p \o q, TaggedRoles(j), Makes, Outdating \cup {"look"})
  BY <1>1, KeptJoined DEF Fit
<1> QED
  BY <1>2, <1>3, <1>4 DEF Fit

(* One path after another changes records once, if only one of them does. *)
LEMMA CourseJoined ==
  \A j, p, q :
    Course(p, j) /\ Course(q, j) /\ (Changeless(p) \/ Changeless(q)) => Course(p \o q, j)
<1> SUFFICES ASSUME NEW j, NEW p, NEW q, Course(p, j), Course(q, j),
                    Changeless(p) \/ Changeless(q)
             PROVE  Course(p \o q, j)
  OBVIOUS
<1> DEFINE w == p \o q
           n == Len(p)
           m == Len(q)
<1>1. /\ n \in Nat /\ m \in Nat
      /\ DOMAIN p = 1..n /\ DOMAIN q = 1..m /\ DOMAIN w = 1..(n + m)
      /\ \A i \in 1..n : w[i] = p[i]
      /\ \A i \in 1..m : w[n + i] = q[i]
  BY PathLength, Joined DEF Course, Fit
<1>2. Fit(w, j)
  BY FitJoined DEF Course
<1> HIDE DEF w, n, m
<1>3. ASSUME NEW i \in DOMAIN w, w[i].do \in Changes
      PROVE  \/ i \in DOMAIN p /\ p[i].do \in Changes /\ Changeless(q)
             \/ i - n \in DOMAIN q /\ q[i - n].do \in Changes /\ Changeless(p)
  <2>1. CASE i <= n
    <3>1. i \in DOMAIN p /\ w[i] = p[i]
      BY <1>1, <2>1
    <3> QED
      BY <1>3, <3>1 DEF Changeless
  <2>2. CASE i > n
    <3>1. i - n \in DOMAIN q /\ n + (i - n) = i
      BY <1>1, <2>2
    <3>2. w[i] = q[i - n]
      BY <1>1, <3>1
    <3> QED
      BY <1>3, <3>1, <3>2 DEF Changeless
  <2> QED
    BY <1>1, <2>1, <2>2
<1>4. ASSUME NEW i \in DOMAIN w, NEW k \in DOMAIN w, w[i].do \in Changes, w[k].do \in Changes
      PROVE  i = k
  <2>1. CASE Changeless(q)
    <3>1. /\ i \in DOMAIN p /\ p[i].do \in Changes
          /\ k \in DOMAIN p /\ p[k].do \in Changes
      BY <1>3, <1>4, <2>1 DEF Changeless
    <3> QED
      BY <3>1 DEF Course, Once
  <2>2. CASE Changeless(p)
    <3>1. /\ i - n \in DOMAIN q /\ q[i - n].do \in Changes
          /\ k - n \in DOMAIN q /\ q[k - n].do \in Changes
      BY <1>3, <1>4, <2>2 DEF Changeless
    <3>2. i - n = k - n
      BY <3>1 DEF Course, Once
    <3> QED
      BY <1>1, <3>2
  <2> QED
    BY <2>1, <2>2
<1>5. Once(w)
  BY <1>4 DEF Once
<1> QED
  BY <1>2, <1>5 DEF Course, w

(* Steps that change no record, and keep no other from changing it. *)
Aside ==
  Silent \cup {"find", "lock", "look", "make", "make one", "rename", "untag", "list",
               "names", "drop"}

LEMMA AsideCourse == \A j, p : Only(p, Aside) => Course(p, j) /\ Changeless(p)
<1> SUFFICES ASSUME NEW j, NEW p, Only(p, Aside)
             PROVE  Course(p, j) /\ Changeless(p)
  OBVIOUS
<1>1. IsPath(p) /\ \A i \in DOMAIN p : p[i].do \in Aside
  BY DEF Only
<1>2. /\ Aside \cap {"read", "save"} = {}
      /\ Aside \cap {"restart"} = {}
      /\ Aside \cap TaggedRoles(j) = {}
      /\ Aside \cap Changes = {}
  BY DEF Aside, Silent, TaggedRoles, Changes
<1>3. /\ Kept(p, {"read", "save"}, RecordLocks, Unlocking)
      /\ Kept(p, {"restart"}, {LockAll}, Unlocking)
      /\ Kept(p, TaggedRoles(j), Makes, Outdating \cup {"look"})
  BY <1>2, KeptByNone
<1>4. Serves(p, j)
  BY <1>1 DEF Serves, Aside, Silent
<1>5. Changeless(p) /\ Once(p)
  BY <1>1, <1>2 DEF Changeless, Once
<1> QED
  BY <1>1, <1>3, <1>4, <1>5 DEF Course, Fit

LEMMA MildCourse == \A j, p : Mild(p) => Course(p, j) /\ Changeless(p)
BY AsideCourse DEF Mild, MildRoles, Only, Aside

LEMMA DeletesCourse ==
  ASSUME NEW j,
         j.tool \in
           {"indexer_delete", "app_delete", "profile_delete", "proxy_delete",
            "downloadclient_delete", "notification_delete", "filter_delete"}
  PROVE  Course(Path(j), j)
<1>1. PICK p, remove : Mild(p) /\ Path(j) = p \o Deleting(j, remove)
  BY DeletePaths DEF DeletesAfter
<1>2. Course(Deleting(j, remove), j)
  <2> DEFINE a == Step("delete", remove)
             q == <<a>>
  <2>1. a.do = "delete"
    BY DEF Step
  <2>2. Deleting(j, remove) = q \/ Deleting(j, remove) = <<>>
    BY DEF Deleting, When
  <2>3. Course(<<>>, j)
    BY MildCourse, MildParts
  <2> HIDE DEF a
  <2>4. IsPath(q) /\ DOMAIN q = 1..1 /\ q[1] = a
    <3>1. a.do \in Roles
      BY <2>1 DEF Roles
    <3>2. IsPath(q)
      BY <3>1, OnlyOne DEF Only
    <3> QED
      BY <3>2
  <2> HIDE DEF q
  <2>5. \A i \in DOMAIN q : i = 1 /\ q[i].do = "delete"
    BY <2>1, <2>4, FewRanges
  <2>6. Once(q) /\ Serves(q, j)
    BY <2>5 DEF Once, Serves, DeleteTools
  <2>7. /\ Kept(q, {"read", "save"}, RecordLocks, Unlocking)
        /\ Kept(q, {"restart"}, {LockAll}, Unlocking)
        /\ Kept(q, TaggedRoles(j), Makes, Outdating \cup {"look"})
    BY <2>5 DEF Kept, TaggedRoles
  <2> QED
    BY <2>2, <2>3, <2>4, <2>6, <2>7 DEF Course, Fit
<1> QED
  BY <1>1, <1>2, MildCourse, CourseJoined

LEMMA RestoreCourse ==
  ASSUME NEW j, j.tool = "backup_restore"
  PROVE  Course(Path(j), j)
<1> DEFINE a == LockAll
           b == Step("restore", PostSystemBackupRestoreById)
           q == <<a, b>>
           p == <<Ask(GetSystemBackup)>>
<1>1. Path(j) = p \o When(Asked(j, "confirm"), q)
  BY DEF Path, BackupRestore
<1>2. Mild(p)
  BY MildParts, MildSteps
<1>3. a.do = "lock" /\ b.do = "restore"
  BY DEF LockAll, Step
<1> HIDE DEF a, b, p
<1>4. IsPath(q) /\ DOMAIN q = 1..2 /\ q[1] = a /\ q[2] = b
  <2>1. a.do \in Roles /\ b.do \in Roles
    BY <1>3 DEF Roles
  <2>2. IsPath(q)
    BY <2>1, OnlyTwo DEF Only
  <2> QED
    BY <2>2
<1> HIDE DEF q
<1>5. \A i \in DOMAIN q : (i = 1 /\ q[i].do = "lock") \/ (i = 2 /\ q[i].do = "restore")
  BY <1>3, <1>4, FewRanges
<1>6. Serves(q, j)
  BY <1>5 DEF Serves
<1>7. Once(q)
  BY <1>5 DEF Once, Changes
<1>8. /\ Kept(q, {"read", "save"}, RecordLocks, Unlocking)
      /\ Kept(q, {"restart"}, {LockAll}, Unlocking)
      /\ Kept(q, TaggedRoles(j), Makes, Outdating \cup {"look"})
  BY <1>5 DEF Kept, TaggedRoles
<1>9. Course(q, j) /\ Course(<<>>, j)
  BY <1>4, <1>6, <1>7, <1>8, MildCourse, MildParts DEF Course, Fit
<1> QED
  BY <1>1, <1>2, <1>9, MildCourse, CourseJoined DEF When

LEMMA RestartCourse ==
  ASSUME NEW j, j.tool = "server_restart"
  PROVE  Course(Path(j), j)
<1> DEFINE a == Ask(GetSystemStatus)
           b == LockAll
           d == Step("restart", PostSystemRestart)
           S == {a, b, d}
           p == <<a, b, d, a>>
<1>1. Path(j) = p /\ a.do = "ask" /\ b.do = "lock" /\ d.do = "restart"
  BY DEF Path, ServerRestart, Ask, LockAll, Step
<1>2. b \in {LockAll}
  OBVIOUS
<1> HIDE DEF a, b, d
<1>3. /\ p \in Seq(S) /\ Len(p) = 4 /\ DOMAIN p = 1..4
      /\ p[1] = a /\ p[2] = b /\ p[3] = d /\ p[4] = a
  OBVIOUS
<1>4. \A s \in S : s.do \in {"ask", "lock", "restart"}
  BY <1>1
<1> HIDE DEF S, p
<1>5. {"ask", "lock", "restart"} \subseteq Roles
  BY DEF Roles, Silent
<1>6. IsPath(p) /\ \A i \in DOMAIN p : p[i].do \in {"ask", "lock", "restart"}
  BY <1>3, <1>4, <1>5, OnlySteps DEF Only
<1>7. /\ 2 \in DOMAIN p /\ p[2] \in {LockAll}
      /\ p[1].do = "ask" /\ p[2].do = "lock" /\ p[4].do = "ask"
  BY <1>1, <1>2, <1>3
<1>8. Kept(p, {"restart"}, {LockAll}, Unlocking)
  <2>1. \A i \in 1..2 : p[i].do \notin {"restart"}
    BY <1>7, FewRanges
  <2>2. \A i \in (2 + 1)..(Len(p) - 1) : p[i].do \notin Unlocking
    BY <1>3, <1>6 DEF Unlocking
  <2> QED
    BY <1>6, <1>7, <2>1, <2>2, KeptFrom
<1>9. /\ Kept(p, {"read", "save"}, RecordLocks, Unlocking)
      /\ Kept(p, TaggedRoles(j), Makes, Outdating \cup {"look"})
  BY <1>6 DEF Kept, TaggedRoles
<1>10. Serves(p, j)
  BY <1>6 DEF Serves
<1>11. Once(p)
  <2>1. \A i \in DOMAIN p : p[i].do \in Changes => i = 3
    BY <1>3, <1>7, FewRanges DEF Changes
  <2> QED
    BY <2>1 DEF Once
<1> QED
  BY <1>1, <1>6, <1>8, <1>9, <1>10, <1>11 DEF Course, Fit

LEMMA TagsCourse ==
  ASSUME NEW j, j.tool \in {"tag_create", "tag_edit", "tag_delete"}
  PROVE  Course(Path(j), j)
<1> DEFINE a == Lock({"tags"})
           b == Step("look", GetTag)
<1>1. Aside \subseteq Roles /\ a.do \in Aside /\ b.do \in Aside
  BY DEF Aside, Roles, Lock, Step
<1>2. CASE j.tool = "tag_create"
  <2> DEFINE d == Step("make one", PostTag)
             S == {a, b, d}
             p == <<a, b, d>>
  <2>1. d.do \in Aside /\ Path(j) = p
    BY <1>2 DEF Aside, Step, Path, TagCreate
  <2> HIDE DEF a, b, d
  <2>2. p \in Seq(S) /\ \A s \in S : s.do \in Aside
    BY <1>1, <2>1, Triple
  <2> HIDE DEF p, S
  <2> QED
    BY <1>1, <2>1, <2>2, OnlySteps, AsideCourse
<1>3. CASE j.tool = "tag_edit"
  <2> DEFINE d == Step("rename", PutTagById)
             S == {a, b, d}
             p == <<a, b, d>>
  <2>1. d.do \in Aside /\ Path(j) = p \o TagDetails
    BY <1>3 DEF Aside, Step, Path, TagEdit
  <2> HIDE DEF a, b, d
  <2>2. p \in Seq(S) /\ \A s \in S : s.do \in Aside
    BY <1>1, <2>1, Triple
  <2> HIDE DEF p, S
  <2>3. Course(p, j) /\ Changeless(p)
    BY <1>1, <2>2, OnlySteps, AsideCourse
  <2> QED
    BY <2>1, <2>3, MildNames, MildCourse, CourseJoined
<1>4. CASE j.tool = "tag_delete"
  <2> DEFINE d == Step("list", GetIndexer)
             e == Step("list", GetApplications)
             f == Step("list", GetIndexerProxy)
             g == Step("detail", GetTagDetail)
             h == Step("names", GetNotification)
             i == Step("drop", DeleteTagById)
             R == Aside \cup {"detail"}
             S == {a, d, e, f, g, h, i}
             p == <<a, d, e, f, g, h, i>>
  <2>1. {d.do, e.do, f.do, g.do, h.do, i.do} \subseteq R /\ a.do \in R /\ Path(j) = p
    BY <1>1, <1>4 DEF Aside, Step, Path, TagDelete
  <2>2. R \subseteq Roles
    BY <1>1 DEF Roles
  <2>3. p \in Seq(S) /\ \A s \in S : s.do \in R
    <3> HIDE DEF a, d, e, f, g, h, i, R
    <3> QED
      BY <2>1
  <2> HIDE DEF p, S, R
  <2>4. IsPath(p) /\ \A k \in DOMAIN p : p[k].do \in R
    BY <2>2, <2>3, OnlySteps DEF Only
  <2>5. /\ Kept(p, {"read", "save"}, RecordLocks, Unlocking)
        /\ Kept(p, {"restart"}, {LockAll}, Unlocking)
        /\ Kept(p, TaggedRoles(j), Makes, Outdating \cup {"look"})
    BY <2>4 DEF Kept, TaggedRoles, R, Aside, Silent
  <2>6. Serves(p, j)
    BY <1>4, <2>4 DEF Serves, R, Aside, Silent, EditTools
  <2>7. Once(p)
    BY <2>4 DEF Once, Changes, R, Aside, Silent
  <2> QED
    BY <2>1, <2>4, <2>5, <2>6, <2>7 DEF Course, Fit
<1> QED
  BY <1>2, <1>3, <1>4

LEMMA EditCourse ==
  ASSUME NEW j, j.tool \in EditTools, NEW p, EditsBy(j, p)
  PROVE  Course(p, j)
<1>1. PICK list, get, b, put :
        /\ InBetween(b, j)
        /\ j.adds # {} => put.of \in Routed
        /\ IsEdit(p, list, EditLock(j), get, b, put)
  BY DEF EditsBy
<1> DEFINE l == EditLock(j)
           n == Len(b) + 4
<1>2. l \in RecordLocks /\ l.do = "lock"
  BY DEF EditLock, RecordLocks, Lock, Step
<1>3. /\ IsPath(p) /\ Len(p) = n
      /\ p[1] = Find(list) /\ p[2] = l /\ p[3] = Read(get) /\ p[n] = Save(put)
      /\ \A i \in 1..Len(b) : p[3 + i] = b[i]
  BY <1>1 DEF IsEdit
<1> HIDE DEF l
<1>4. Len(b) \in Nat /\ DOMAIN b = 1..Len(b)
  BY <1>1, PathLength DEF InBetween, Only
<1>5. DOMAIN p = 1..n
  BY <1>3, PathLength
<1>6. /\ p[1].do = "find" /\ p[2].do = "lock" /\ p[3].do = "read" /\ p[n].do = "save"
      /\ p[n].what = put
  BY <1>2, <1>3 DEF Find, Read, Save, Step
<1>7. ASSUME NEW i \in 4..(n - 1)
      PROVE  /\ p[i].do \in Between
             /\ j.adds # {} /\ i > 5 => p[i].do \in Quiet
  <2>1. i - 3 \in DOMAIN b /\ 3 + (i - 3) = i /\ (i > 5 => i - 3 > 2)
    BY <1>4
  <2>2. p[i] = b[i - 3]
    BY <1>3, <1>4, <2>1
  <2> QED
    BY <1>1, <2>1, <2>2 DEF InBetween, Only, MakesFirst
<1>8. \A i \in 1..n : i = 1 \/ i = 2 \/ i = 3 \/ i = n \/ i \in 4..(n - 1)
  BY <1>4
<1>9. n \in Nat /\ n >= 4
  BY <1>4
<1> HIDE DEF n
<1>10. 2 \in DOMAIN p /\ n \in DOMAIN p
  BY <1>5, <1>9
<1>11. \A i \in DOMAIN p :
         \/ p[i].do \in {"find", "lock", "read"} \cup Between
         \/ i = n
  BY <1>5, <1>6, <1>7, <1>8
<1>12. \A i \in DOMAIN p : p[i].do \notin Unlocking
  BY <1>6, <1>11 DEF Unlocking, Between, Quiet, Silent
<1>13. Once(p)
  <2>1. \A i \in DOMAIN p : p[i].do \in Changes => i = n
    BY <1>11 DEF Changes, Between, Quiet, Silent
  <2> QED
    BY <2>1 DEF Once
<1>14. Serves(p, j)
  <2>1. ASSUME NEW i \in DOMAIN p
        PROVE  /\ p[i].do \in {"find", "lock", "read", "save"} \cup Between
               /\ p[i].do = "save" /\ j.adds # {} => p[i].what.of \in Routed
    <3>1. CASE i = n
      BY <1>1, <1>6, <3>1
    <3>2. CASE i # n
      BY <1>11, <3>2 DEF Between, Quiet, Silent
    <3> QED
      BY <3>1, <3>2
  <2> QED
    BY <2>1 DEF Serves, Between, Quiet, Silent
<1>15. Kept(p, {"read", "save"}, RecordLocks, Unlocking)
  <2>1. p[2] \in RecordLocks
    BY <1>2, <1>3
  <2>2. \A i \in 1..2 : p[i].do \notin {"read", "save"}
    BY <1>6, FewRanges
  <2>3. \A i \in (2 + 1)..(Len(p) - 1) : p[i].do \notin Unlocking
    BY <1>3, <1>5, <1>9, <1>12
  <2> QED
    BY <1>3, <1>10, <2>1, <2>2, <2>3, KeptFrom
<1>16. Kept(p, {"restart"}, {LockAll}, Unlocking)
  BY <1>6, <1>11 DEF Kept, Between, Quiet, Silent
<1>17. Kept(p, TaggedRoles(j), Makes, Outdating \cup {"look"})
  <2>1. CASE j.adds = {}
    BY <2>1 DEF Kept, TaggedRoles
  <2>2. CASE j.adds # {}
    <3>1. 2 \in 1..Len(b) /\ b[1] = Step("look", GetTag) /\ b[2] = Step("make", PostTag)
      BY <1>1, <1>4, <2>2 DEF InBetween, MakesFirst
    <3>2. 1 \in 1..Len(b) /\ n >= 6
      BY <1>4, <3>1 DEF n
    <3>3. p[4] = Step("look", GetTag) /\ p[5] = Step("make", PostTag)
      <4>1. p[3 + 1] = b[1] /\ p[3 + 2] = b[2] /\ 3 + 1 = 4 /\ 3 + 2 = 5
        BY <1>3, <3>1, <3>2
      <4> QED
        BY <3>1, <4>1
    <3>4. p[5] \in Makes /\ p[4].do = "look" /\ p[5].do = "make" /\ 5 \in DOMAIN p
      BY <1>5, <1>9, <3>2, <3>3 DEF Makes, Step
    <3>5. \A i \in 1..5 : p[i].do \notin TaggedRoles(j)
      <4>1. \A i \in 1..5 : i = 1 \/ i = 2 \/ i = 3 \/ i = 4 \/ i = 5
        OBVIOUS
      <4> QED
        BY <1>6, <3>4, <4>1 DEF TaggedRoles
    <3>6. ASSUME NEW i \in (5 + 1)..(Len(p) - 1)
          PROVE  p[i].do \notin Outdating \cup {"look"}
      <4>1. i \in 4..(n - 1) /\ i > 5
        BY <1>3, <1>9
      <4> QED
        BY <1>7, <2>2, <4>1 DEF Outdating, Quiet, Silent
    <3> QED
      BY <1>3, <3>4, <3>5, <3>6, KeptFrom
  <2> QED
    BY <2>1, <2>2
<1> QED
  BY <1>3, <1>13, <1>14, <1>15, <1>16, <1>17 DEF Course, Fit

LEMMA EditsCourse ==
  ASSUME NEW j, Formed(j), j.tool \in EditTools
  PROVE  Course(Path(j), j)
<1>1. CASE j.tool # "server_settings_edit"
  <2>1. j.tool \in {"indexer_edit", "app_edit", "profile_edit", "proxy_edit",
                    "downloadclient_edit", "notification_edit", "filter_edit"}
    BY <1>1 DEF EditTools
  <2>2. PICK p, q : EditsBy(j, p) /\ Mild(q) /\ (Path(j) = p \/ Path(j) = p \o q)
    BY <2>1, EditPaths
  <2>3. Course(p, j) /\ Course(q, j) /\ Changeless(q)
    BY <2>2, EditCourse, MildCourse
  <2> QED
    BY <2>2, <2>3, CourseJoined
<1>2. CASE j.tool = "server_settings_edit"
  <2> DEFINE p == Path(j)
  <2>1. PICK get, put : IsSectionEdit(p, get, put)
    BY <1>2, SettingsSteps
  <2>2. j.adds = {}
    BY <1>2 DEF Formed
  <2> HIDE DEF p
  <2>3. /\ IsPath(p) /\ DOMAIN p = 1..Len(p) /\ Len(p) \in {3, 4}
        /\ p[1] = Lock({"record"}) /\ p[1].do = "lock" /\ p[2].do = "read"
        /\ \/ Len(p) = 3 /\ p[3].do = "ask"
           \/ Len(p) = 4 /\ p[3].do = "save" /\ p[4].do = "ask"
    BY <2>1, PathLength DEF IsSectionEdit, Lock, Read, Save, Ask, Step
  <2>4. /\ \A i \in DOMAIN p : p[i].do \in {"lock", "read", "save", "ask"}
        /\ \A i \in DOMAIN p : p[i].do = "save" => i = 3
    BY <2>3, FewRanges
  <2>5. Kept(p, {"read", "save"}, RecordLocks, Unlocking)
    <3>1. 1 \in DOMAIN p /\ p[1] \in RecordLocks
      BY <2>3 DEF RecordLocks
    <3>2. /\ \A i \in 1..1 : p[i].do \notin {"read", "save"}
          /\ \A i \in (1 + 1)..(Len(p) - 1) : p[i].do \notin Unlocking
      BY <2>3, <2>4, FewRanges DEF Unlocking
    <3> QED
      BY <2>3, <3>1, <3>2, KeptFrom
  <2>6. /\ Kept(p, {"restart"}, {LockAll}, Unlocking)
        /\ Kept(p, TaggedRoles(j), Makes, Outdating \cup {"look"})
    BY <2>2, <2>4 DEF Kept, TaggedRoles
  <2>7. Serves(p, j)
    BY <2>2, <2>4 DEF Serves
  <2>8. Once(p)
    BY <2>4 DEF Once, Changes
  <2> QED
    BY <2>3, <2>5, <2>6, <2>7, <2>8 DEF Course, Fit, p
<1> QED
  BY <1>1, <1>2

LEMMA PathCourse ==
  ASSUME NEW j, Formed(j), Orderly(j)
  PROVE  Course(Path(j), j)
<1>1. j.tool \in AllTools /\ j.tool \notin UnlockedTools
  BY DEF Orderly, Formed
<1>2. CASE Mild(Path(j))
  BY <1>2, MildCourse
<1>3. CASE j.tool \in EditTools
  BY <1>3, EditsCourse
<1>4. CASE j.tool \in {"tag_create", "tag_edit", "tag_delete"}
  BY <1>4, TagsCourse
<1>5. CASE j.tool = "server_restart" \/ j.tool = "backup_restore"
  BY <1>5, RestartCourse, RestoreCourse
<1>6. CASE j.tool \in
             {"indexer_delete", "app_delete", "profile_delete", "proxy_delete",
              "downloadclient_delete", "notification_delete", "filter_delete"}
  BY <1>6, DeletesCourse
<1> QED
  BY <1>1, <1>2, <1>3, <1>4, <1>5, <1>6,
     MildIndexers, MildApps, MildClients, MildKept, MildServer, MildAudits
     DEF AllTools, Core, Audits, Curation, Setup, Grabbing, Admin, UnlockedTools, EditTools

-----------------------------------------------------------------------------
(* What the steps are of a path that may be taken again. *)
Familiar(p, j) ==
  /\ j.tool \in EditTools => Only(p, Between \cup {"find", "lock", "read", "save"})
  /\ j.tool = "indexer_bulk_edit" =>
       Only(p, Between \cup {"find", "lock", "unlock", "bulk", "unbulk"})
  /\ j.tool = "tag_create" => Only(p, {"lock", "look", "make one"})
  /\ j.tool = "tag_edit" => Only(p, Silent \cup {"lock", "look", "rename"})
  /\ j.tool = "tag_delete" => Only(p, {"lock", "list", "detail", "names", "drop"})
  /\ j.tool \in {"app_sync", "command_cancel"} => Mild(p)

(* What is opened, and never closed, stays open for what comes after. *)
LEMMA KeptAfter ==
  ASSUME NEW p, NEW q, NEW roles, NEW opens, IsPath(p), IsPath(q),
         Has(p, opens), Kept(p, roles, opens, {})
  PROVE  Kept(p \o q, roles, opens, {})
<1> DEFINE n == Len(p)
           w == p \o q
<1>1. /\ n \in Nat /\ DOMAIN p = 1..n
      /\ Len(q) \in Nat
      /\ DOMAIN w = 1..(n + Len(q))
      /\ \A i \in 1..n : w[i] = p[i]
  BY PathLength, Joined
<1> HIDE DEF n, w
<1> SUFFICES ASSUME NEW i \in 1..(n + Len(q)), w[i].do \in roles
             PROVE  Since(w, i, opens, {})
  BY <1>1 DEF Kept, w
<1>2. CASE i \in 1..n
  <2>1. PICK k \in 1..(i - 1) : p[k] \in opens
    BY <1>1, <1>2 DEF Kept, Since
  <2>2. k \in 1..n
    BY <1>1, <1>2
  <2> QED
    BY <1>1, <2>1, <2>2 DEF Since
<1>3. CASE ~(i \in 1..n)
  <2>1. PICK k \in 1..n : p[k] \in opens
    BY <1>1 DEF Has
  <2>2. k \in 1..(i - 1)
    BY <1>1, <1>3
  <2> QED
    BY <1>1, <2>1, <2>2 DEF Since
<1> QED
  BY <1>2, <1>3

LEMMA KeptLonger ==
  ASSUME NEW p, NEW roles, NEW opens, NEW closes, Kept(p, roles, opens, closes)
  PROVE  Kept(p, roles, opens, {})
BY DEF Kept, Since

(* The steps of an edit of a record, *)
LEMMA EditFamiliar ==
  ASSUME NEW j, NEW p, EditsBy(j, p)
  PROVE  /\ Only(p, Between \cup {"find", "lock", "read", "save"})
         /\ j.removes # {} => Has(p, Untags) /\ Kept(p, Puts, Untags, {})
<1>1. PICK list, get, b, put :
        InBetween(b, j) /\ IsEdit(p, list, EditLock(j), get, b, put)
  BY DEF EditsBy
<1> DEFINE n == Len(b) + 4
           R == Between \cup {"find", "lock", "read", "save"}
<1>2. /\ IsPath(p) /\ Len(p) = n
      /\ p[1].do = "find" /\ p[2].do = "lock" /\ p[3].do = "read" /\ p[n].do = "save"
      /\ \A i \in 1..Len(b) : p[3 + i] = b[i]
  BY <1>1 DEF IsEdit, EditLock, Find, Lock, Read, Save, Step
<1>3. Len(b) \in Nat /\ DOMAIN b = 1..Len(b)
  BY <1>1, PathLength DEF InBetween, Only
<1>4. DOMAIN p = 1..n
  BY <1>2, PathLength
<1>5. ASSUME NEW i \in 4..(n - 1)
      PROVE  p[i].do \in Between
  <2>1. i - 3 \in DOMAIN b /\ 3 + (i - 3) = i
    BY <1>3
  <2> QED
    BY <1>1, <1>2, <1>3, <2>1 DEF InBetween, Only
<1>6. \A i \in 1..n : i = 1 \/ i = 2 \/ i = 3 \/ i = n \/ i \in 4..(n - 1)
  BY <1>3
<1>7. n \in Nat /\ n >= 4 /\ \A i \in 1..Len(b) : 3 + i \in 1..(n - 1)
  BY <1>3
<1> HIDE DEF n
<1>8. \A i \in DOMAIN p : p[i].do \in R /\ (p[i].do \in Puts => i = n)
  <2>1. "save" \notin Between /\ "bulk" \notin Between /\ "unbulk" \notin Between
    BY DEF Between, Quiet, Silent
  <2> QED
    BY <1>2, <1>4, <1>5, <1>6, <2>1 DEF Puts
<1>9. ASSUME j.removes # {}
      PROVE  Has(p, Untags) /\ Kept(p, Puts, Untags, {})
  <2>1. PICK i \in 1..Len(b) : b[i] \in Untags
    BY <1>1, <1>3, <1>9 DEF InBetween, Has
  <2>2. p[3 + i] \in Untags /\ 3 + i \in 1..(n - 1)
    BY <1>2, <1>7, <2>1
  <2>3. 3 + i \in DOMAIN p
    BY <1>4, <1>7, <2>2
  <2>4. Since(p, n, Untags, {})
    BY <2>2 DEF Since
  <2> QED
    BY <1>8, <2>2, <2>3, <2>4 DEF Has, Kept
<1> QED
  BY <1>2, <1>8, <1>9 DEF Only

LEMMA EditsFamiliar ==
  ASSUME NEW j, Formed(j), j.tool \in EditTools
  PROVE  Familiar(Path(j), j) /\ Prepared(Path(j), j)
<1> DEFINE R == Between \cup {"find", "lock", "read", "save"}
<1>1. R \cap {"bulk", "unbulk", "drop"} = {} /\ MildRoles \subseteq R /\ R \subseteq Roles
  BY DEF Between, Quiet, Silent, MildRoles, Roles
<1>2. /\ Only(Path(j), R)
      /\ j.removes # {} => Kept(Path(j), Puts, Untags, {})
  <2>1. CASE j.tool # "server_settings_edit"
    <3>1. j.tool \in {"indexer_edit", "app_edit", "profile_edit", "proxy_edit",
                      "downloadclient_edit", "notification_edit", "filter_edit"}
      BY <2>1 DEF EditTools
    <3>2. PICK p, q : EditsBy(j, p) /\ Mild(q) /\ (Path(j) = p \/ Path(j) = p \o q)
      BY <3>1, EditPaths
    <3>3. /\ Only(p, R) /\ IsPath(p)
          /\ j.removes # {} => Has(p, Untags) /\ Kept(p, Puts, Untags, {})
      BY <3>2, EditFamiliar DEF Only
    <3>4. Only(q, R) /\ IsPath(q)
      BY <1>1, <3>2 DEF Mild, Only
    <3>5. Only(p \o q, R)
      BY <3>3, <3>4, OnlyJoined
    <3>6. j.removes # {} => Kept(p \o q, Puts, Untags, {})
      BY <3>3, <3>4, KeptAfter
    <3> QED
      BY <3>2, <3>3, <3>5, <3>6
  <2>2. CASE j.tool = "server_settings_edit"
    <3> DEFINE p == Path(j)
    <3>1. PICK get, put : IsSectionEdit(p, get, put)
      BY <2>2, SettingsSteps
    <3>2. j.removes = {}
      BY <2>2 DEF Formed
    <3> HIDE DEF p
    <3>3. /\ IsPath(p) /\ DOMAIN p = 1..Len(p) /\ Len(p) \in {3, 4}
          /\ p[1].do = "lock" /\ p[2].do = "read"
          /\ \/ Len(p) = 3 /\ p[3].do = "ask"
             \/ Len(p) = 4 /\ p[3].do = "save" /\ p[4].do = "ask"
      BY <3>1, PathLength DEF IsSectionEdit, Lock, Read, Save, Ask, Step
    <3>4. \A i \in DOMAIN p : p[i].do \in {"lock", "read", "save", "ask"}
      BY <3>3, FewRanges
    <3> QED
      BY <3>2, <3>3, <3>4 DEF Only, Between, Quiet, Silent, p
  <2> QED
    BY <2>1, <2>2
<1>3. j.adds # {} => Kept(Path(j), Puts, Makes, {})
  <2> SUFFICES ASSUME j.adds # {} PROVE Kept(Path(j), Puts, Makes, {})
    OBVIOUS
  <2>1. Kept(Path(j), TaggedRoles(j), Makes, Outdating \cup {"look"})
    BY EditsCourse DEF Course, Fit
  <2>2. Kept(Path(j), TaggedRoles(j), Makes, {})
    BY <2>1, KeptLonger
  <2>3. \A i \in DOMAIN Path(j) : Path(j)[i].do \in Puts => Path(j)[i].do \in TaggedRoles(j)
    BY <1>1, <1>2 DEF Only, Puts, TaggedRoles
  <2> QED
    BY <2>2, <2>3 DEF Kept
<1>4. Kept(Path(j), {"drop"}, Namings, {"detail"})
  BY <1>1, <1>2 DEF Kept, Only
<1>5. /\ j.tool # "indexer_bulk_edit" /\ j.tool # "tag_create" /\ j.tool # "tag_edit"
      /\ j.tool # "tag_delete" /\ j.tool \notin {"app_sync", "command_cancel"}
  BY DEF EditTools
<1> QED
  BY <1>2, <1>3, <1>4, <1>5 DEF Familiar, Prepared

(* of an edit of several, which makes tags and looks up those to take off  *)
(* before it changes a record, *)
LEMMA BulkFamiliar ==
  ASSUME NEW j, j.tool = "indexer_bulk_edit"
  PROVE  Familiar(Path(j), j) /\ Prepared(Path(j), j)
<1> DEFINE R == Between \cup {"find", "lock", "unlock"}
           T == Between \cup {"find", "lock", "unlock", "bulk", "unbulk"}
           s1 == (<<Find(GetIndexer)>> \o Lookups)
                 \o When(Asked(j, "profile"), <<Ask(GetAppProfile)>>)
           s2 == s1 \o When(j.adds # {}, MakeTags)
           s3 == s2 \o When(j.removes # {}, FindRemoved)
           s4 == s3 \o <<Step("bulk", PutIndexerBulk)>>
           s5 == s4 \o When(j.adds # {} /\ j.removes # {},
                            <<Step("unbulk", PutIndexerBulk)>>)
           s6 == s5 \o Lookups
<1>1. Path(j) = s6
  BY DEF Path, IndexerBulkEdit
<1>2. /\ R \subseteq Roles /\ T \subseteq Roles /\ R \subseteq T
      /\ R \cap Puts = {} /\ T \cap {"drop"} = {}
      /\ MildRoles \subseteq R
  BY DEF Between, Quiet, Silent, MildRoles, Roles, Puts
<1>3. Only(s1, R)
  <2>1. Mild(s1)
    BY MildParts, MildSteps, MildNames, MildJoined, MildWhen
  <2> QED
    BY <1>2, <2>1 DEF Mild, Only
<1>4. Only(MakeTags, R) /\ Has(MakeTags, Makes)
  <2>1. IsPath(MakeTags) /\ DOMAIN MakeTags = 1..4 /\ 3 \in 1..4
    BY MakeTagsSteps, PathLength
  <2>2. /\ MakeTags[1].do = "lock" /\ MakeTags[2].do = "look"
        /\ MakeTags[3].do = "make" /\ MakeTags[4].do = "unlock"
        /\ MakeTags[3] \in Makes
    BY MakeTagsSteps DEF Lock, Unlock, Step, Makes
  <2>3. {"lock", "look", "make", "unlock"} \subseteq R
    BY DEF Between
  <2> QED
    BY <2>1, <2>2, <2>3, FewRanges DEF Only, Has
<1>5. Only(FindRemoved, R) /\ Has(FindRemoved, Untags)
  <2>1. Step("untag", GetTag).do \in R /\ Step("untag", GetTag) \in Untags
    BY DEF Step, Between, Quiet, Untags
  <2> QED
    BY <1>2, <2>1, OnlyOne, HasOne DEF FindRemoved
<1>6. /\ Only(<<Step("bulk", PutIndexerBulk)>>, T)
      /\ Only(<<Step("unbulk", PutIndexerBulk)>>, T)
      /\ Only(Lookups, T)
  <2>1. Step("bulk", PutIndexerBulk).do \in T /\ Step("unbulk", PutIndexerBulk).do \in T
    BY DEF Step
  <2>2. Only(Lookups, T)
    BY <1>2, MildNames DEF Mild, Only
  <2> QED
    BY <1>2, <2>1, <2>2, OnlyOne
<1> HIDE DEF R, T
<1>7. /\ Only(When(j.adds # {}, MakeTags), R)
      /\ Only(When(j.removes # {}, FindRemoved), R)
      /\ Only(When(j.adds # {} /\ j.removes # {}, <<Step("unbulk", PutIndexerBulk)>>), T)
  BY <1>2, <1>4, <1>5, <1>6, OnlyWhen
<1> DEFINE q2 == When(j.adds # {}, MakeTags)
           q3 == When(j.removes # {}, FindRemoved)
           q4 == <<Step("bulk", PutIndexerBulk)>>
           q5 == When(j.adds # {} /\ j.removes # {}, <<Step("unbulk", PutIndexerBulk)>>)
<1>8. /\ IsPath(s1) /\ IsPath(q2) /\ IsPath(q3) /\ IsPath(q4) /\ IsPath(q5)
      /\ IsPath(Lookups)
  BY <1>3, <1>6, <1>7 DEF Only
<1>9. /\ j.adds # {} => Has(q2, Makes)
      /\ j.removes # {} => Has(q3, Untags)
  BY <1>4, <1>5 DEF When
<1> HIDE DEF s1, q2, q3, q4, q5
<1>10. Only(s2, R) /\ IsPath(s2)
  BY <1>3, <1>7, OnlyJoined DEF Only, q2
<1>11. j.adds # {} => Has(s2, Makes)
  BY <1>8, <1>9, HasJoined DEF q2
<1> HIDE DEF s2
<1>12. Only(s3, R) /\ IsPath(s3)
  BY <1>7, <1>10, OnlyJoined DEF Only, q3
<1>13. /\ j.removes # {} => Has(s3, Untags)
       /\ j.adds # {} => Has(s3, Makes)
  BY <1>8, <1>9, <1>10, <1>11, HasJoined DEF q3
<1> HIDE DEF s3
<1>14. /\ Kept(s3, Puts, Untags, {}) /\ Kept(s3, Puts, Makes, {})
       /\ Only(s3, T)
  BY <1>2, <1>12, KeptByNone DEF Only
<1>15. Only(s4, T) /\ IsPath(s4)
  BY <1>6, <1>14, OnlyJoined DEF Only
<1>16. /\ j.removes # {} => Has(s4, Untags) /\ Kept(s4, Puts, Untags, {})
       /\ j.adds # {} => Has(s4, Makes) /\ Kept(s4, Puts, Makes, {})
  <2>1. s4 = s3 \o q4
    BY DEF q4
  <2> HIDE DEF s4
  <2> QED
    BY <1>8, <1>12, <1>13, <1>14, <2>1, HasJoined, KeptAfter
<1> HIDE DEF s4
<1>17. Only(s5, T) /\ IsPath(s5)
  BY <1>7, <1>15, OnlyJoined DEF Only, q5
<1>18. /\ j.removes # {} => Has(s5, Untags) /\ Kept(s5, Puts, Untags, {})
       /\ j.adds # {} => Has(s5, Makes) /\ Kept(s5, Puts, Makes, {})
  <2>1. s5 = s4 \o q5
    BY DEF q5
  <2> HIDE DEF s5
  <2> QED
    BY <1>8, <1>15, <1>16, <2>1, HasJoined, KeptAfter
<1> HIDE DEF s5
<1>19. Only(s6, T)
  BY <1>6, <1>17, OnlyJoined
<1>20. /\ j.removes # {} => Kept(s6, Puts, Untags, {})
       /\ j.adds # {} => Kept(s6, Puts, Makes, {})
  BY <1>8, <1>17, <1>18, KeptAfter
<1>21. Kept(s6, {"drop"}, Namings, {"detail"})
  BY <1>2, <1>19, KeptByNone
<1> HIDE DEF s6
<1>22. Only(Path(j), Between \cup {"find", "lock", "unlock", "bulk", "unbulk"})
  BY <1>1, <1>19 DEF T
<1>23. Prepared(Path(j), j)
  BY <1>1, <1>20, <1>21 DEF Prepared
<1>24. j.tool \notin EditTools
  BY DEF EditTools
<1> QED
  BY <1>22, <1>23, <1>24 DEF Familiar

(* and of what writes a tag. *)
LEMMA TagsFamiliar ==
  ASSUME NEW j, j.tool \in {"tag_create", "tag_edit", "tag_delete"}
  PROVE  Familiar(Path(j), j) /\ Prepared(Path(j), j)
<1> DEFINE a == Lock({"tags"})
           b == Step("look", GetTag)
<1>1. a.do = "lock" /\ b.do = "look" /\ j.tool \notin EditTools
  BY DEF Lock, Step, EditTools
<1>2. CASE j.tool = "tag_create"
  <2> DEFINE d == Step("make one", PostTag)
             S == {a, b, d}
             R == {"lock", "look", "make one"}
             p == <<a, b, d>>
  <2>1. d.do = "make one" /\ Path(j) = p
    BY <1>2 DEF Step, Path, TagCreate
  <2> HIDE DEF a, b, d
  <2>2. p \in Seq(S) /\ \A s \in S : s.do \in R
    BY <1>1, <2>1, Triple
  <2>3. R \subseteq Roles /\ R \cap Puts = {} /\ R \cap {"drop"} = {}
    BY DEF Roles, Puts
  <2> HIDE DEF p, S, R
  <2>4. Only(p, R)
    BY <2>2, <2>3, OnlySteps
  <2>5. Prepared(p, j)
    BY <2>3, <2>4, KeptByNone DEF Prepared
  <2>6. Familiar(p, j)
    BY <1>1, <1>2, <2>4 DEF Familiar, R
  <2> QED
    BY <2>1, <2>5, <2>6
<1>3. CASE j.tool = "tag_edit"
  <2> DEFINE d == Step("rename", PutTagById)
             S == {a, b, d}
             R == Silent \cup {"lock", "look", "rename"}
             p == <<a, b, d>>
  <2>1. d.do = "rename" /\ Path(j) = p \o TagDetails
    BY <1>3 DEF Step, Path, TagEdit
  <2> HIDE DEF a, b, d
  <2>2. p \in Seq(S) /\ \A s \in S : s.do \in R
    BY <1>1, <2>1, Triple
  <2>3. R \subseteq Roles /\ R \cap Puts = {} /\ R \cap {"drop"} = {}
    BY DEF Roles, Puts, Silent
  <2>4. Only(TagDetails, R)
    <3>1. Only(TagDetails, Silent)
      <4>1. \A r : Ask(r).do \in Silent
        BY DEF Ask, Step, Silent
      <4> DEFINE U == {Ask(GetIndexer), Ask(GetApplications), Ask(GetIndexerProxy),
                       Ask(GetTagDetail), Ask(GetNotification)}
      <4>2. TagDetails \in Seq(U)
        BY DEF TagDetails
      <4>3. \A s \in U : s.do \in Silent
        BY <4>1
      <4>4. Silent \subseteq Roles
        BY DEF Roles
      <4> HIDE DEF U
      <4> QED
        BY <4>2, <4>3, <4>4, OnlySteps
    <3> QED
      BY <3>1 DEF Only
  <2> HIDE DEF p, S, R
  <2>5. Only(p, R)
    BY <2>2, <2>3, OnlySteps
  <2>6. Only(Path(j), R)
    BY <2>1, <2>4, <2>5, OnlyJoined
  <2>7. Prepared(Path(j), j)
    BY <2>3, <2>6, KeptByNone DEF Prepared
  <2>8. Familiar(Path(j), j)
    BY <1>1, <1>3, <2>6 DEF Familiar, R
  <2> QED
    BY <2>7, <2>8
<1>4. CASE j.tool = "tag_delete"
  <2> DEFINE d == Step("list", GetIndexer)
             e == Step("list", GetApplications)
             f == Step("list", GetIndexerProxy)
             g == Step("detail", GetTagDetail)
             h == Step("names", GetNotification)
             i == Step("drop", DeleteTagById)
             R == {"lock", "list", "detail", "names", "drop"}
             S == {a, d, e, f, g, h, i}
             p == <<a, d, e, f, g, h, i>>
  <2>1. /\ {d.do, e.do, f.do, g.do, h.do} \subseteq R \ {"drop"}
        /\ a.do \in R \ {"drop"} /\ i.do = "drop" /\ h \in Namings
        /\ Path(j) = p
    BY <1>1, <1>4 DEF Step, Path, TagDelete, Namings
  <2>2. R \subseteq Roles /\ R \cap Puts = {}
    BY DEF Roles, Puts
  <2>3. /\ p \in Seq(S) /\ \A s \in S : s.do \in R
        /\ DOMAIN p = 1..7 /\ p[6] = h
        /\ \A k \in 1..7 : p[k].do = "drop" => k = 7
    <3> HIDE DEF a, d, e, f, g, h, i
    <3>1. p \in Seq(S) /\ DOMAIN p = 1..7
      OBVIOUS
    <3>2. \A s \in S : s.do \in R
      BY <2>1
    <3>3. p[1] = a /\ p[2] = d /\ p[3] = e /\ p[4] = f /\ p[5] = g /\ p[6] = h
      OBVIOUS
    <3>4. \A k \in 1..7 : \/ k = 1 \/ k = 2 \/ k = 3 \/ k = 4 \/ k = 5 \/ k = 6 \/ k = 7
      OBVIOUS
    <3> HIDE DEF p, S
    <3>5. \A k \in 1..7 : p[k].do = "drop" => k = 7
      BY <2>1, <3>3, <3>4
    <3> QED
      BY <3>1, <3>2, <3>3, <3>5
  <2> HIDE DEF p, S, R
  <2>4. Only(p, R)
    BY <2>2, <2>3, OnlySteps
  <2>5. Kept(p, {"drop"}, Namings, {"detail"})
    <3>1. 6 \in 1..(7 - 1) /\ \A m \in (6 + 1)..(7 - 1) : FALSE
      OBVIOUS
    <3>2. Since(p, 7, Namings, {"detail"})
      BY <2>1, <2>3, <3>1 DEF Since
    <3> QED
      BY <2>3, <3>2 DEF Kept
  <2>6. Prepared(p, j)
    BY <2>2, <2>4, <2>5, KeptByNone DEF Prepared
  <2>7. Familiar(p, j)
    BY <1>1, <1>4, <2>4 DEF Familiar, R
  <2> QED
    BY <2>1, <2>6, <2>7
<1> QED
  BY <1>2, <1>3, <1>4

LEMMA PathFamiliar ==
  ASSUME NEW j, Formed(j), j.tool \in Idempotent
  PROVE  Familiar(Path(j), j) /\ Prepared(Path(j), j)
<1>1. CASE j.tool \in {"app_sync", "command_cancel"}
  <2>1. Mild(Path(j))
    BY <1>1, MildApps, MildServer
  <2>2. MildRoles \cap Puts = {} /\ MildRoles \cap {"drop"} = {}
    BY DEF MildRoles, Silent, Puts
  <2>3. Prepared(Path(j), j)
    BY <2>1, <2>2, KeptByNone DEF Prepared, Mild
  <2>4. Familiar(Path(j), j)
    BY <1>1, <2>1 DEF Familiar, EditTools
  <2> QED
    BY <2>3, <2>4
<1> QED
  BY <1>1, EditsFamiliar, BulkFamiliar, TagsFamiliar DEF Idempotent
=============================================================================
