---------------------------- MODULE LockSetProofs ----------------------------
(***************************************************************************)
(* Proofs about LockSet, for any callers, keys and keyLocks: its inductive *)
(* invariant IInv, and what follows from it.                               *)
(***************************************************************************)
EXTENDS LockSet, FiniteSetTheorems, TLAPS

-----------------------------------------------------------------------------
(* A key a caller has taken, or waits for, is one it is counted on, and    *)
(* the key's entry is the lock it has a pointer to.                        *)
LEMMA RefIsEntry ==
  ASSUME IInv, NEW c \in Callers, NEW k \in Keys,
         \/ k \in got[c]
         \/ pc[c] = "lock" /\ IsFirst(k, asked[c] \ got[c])
  PROVE  /\ ref[c][k] # NoLock
         /\ table[k] = ref[c][k]
         /\ ref[c][k] \in Locks
         /\ c \in Users(k)
<1>1. ref[c][k] # NoLock
  BY DEF IInv, Position
<1>2. table[k] = ref[c][k]
  BY <1>1 DEF IInv, OneLockPerKey
<1>3. ref[c][k] \in Locks \cup {NoLock}
  BY DEF IInv, TypeOK
<1> QED
  BY <1>1, <1>2, <1>3 DEF Users

(* The users of a key are callers, of which there are finitely many. *)
LEMMA UsersFinite ==
  ASSUME NEW k \in Keys
  PROVE  IsFiniteSet(Users(k)) /\ Cardinality(Users(k)) \in Nat
<1>1. Users(k) \subseteq Callers
  BY DEF Users
<1>2. IsFiniteSet(Users(k))
  BY <1>1, CallersAssumption, FS_Subset
<1> QED
  BY <1>2, FS_CardinalityType

LEMMA InitIInv == Init => IInv
<1> SUFFICES ASSUME Init PROVE IInv
  OBVIOUS
<1> USE DEF Init
<1>1. TypeOK
  BY DEF TypeOK, PCs
<1>2. OneLockPerKey
  BY DEF OneLockPerKey
<1>3. Position
  BY DEF Position, IsFirst
<1>4. EntriesApart /\ Ownership
  BY DEF EntriesApart, Ownership
<1>5. Inside
  BY CallersAssumption DEF Inside
<1> QED
  BY <1>1, <1>2, <1>3, <1>4, <1>5 DEF IInv

-----------------------------------------------------------------------------
(* By, the unlock's last step and All's steps leave keys and locks alone.  *)
LEMMA ByStep ==
  ASSUME IInv, NEW c \in Callers, NEW S \in SUBSET Keys, By(c, S)
  PROVE  IInv'
<1> USE DEF IInv, By, Goto
<1>1. TypeOK'
  BY DEF TypeOK, PCs
<1>2. OneLockPerKey'
  BY DEF OneLockPerKey, Users
<1>3. Position'
  BY DEF Position, TypeOK, IsFirst
<1>4. EntriesApart' /\ Ownership'
  BY DEF EntriesApart, Ownership, TypeOK
<1>5. Inside'
  BY CallersAssumption DEF Inside, TypeOK
<1> QED
  BY <1>1, <1>2, <1>3, <1>4, <1>5

LEMMA MakeKeyStep ==
  ASSUME IInv, NEW c \in Callers, NEW k \in Keys, NEW l \in Locks, MakeKey(c, k, l)
  PROVE  IInv'
<1> USE DEF MakeKey, Goto
<1>1. TypeOK'
  BY DEF IInv, TypeOK, PCs
<1>2. \A d \in Callers : ref[d][k] = NoLock
  BY DEF IInv, OneLockPerKey
<1>3. OneLockPerKey'
  <2>1. \A d \in Callers, j \in Keys :
          ref'[d][j] = IF d = c /\ j = k THEN l ELSE ref[d][j]
    BY DEF IInv, TypeOK
  <2>2. ASSUME NEW d \in Callers, NEW j \in Keys, ref'[d][j] # NoLock
        PROVE  table'[j] = ref'[d][j]
    BY <1>2, <2>1, <2>2 DEF IInv, OneLockPerKey, TypeOK
  <2>3. ASSUME NEW j \in Keys, table'[j] # NoLock
        PROVE  Users(j)' # {} /\ holders'[table'[j]] = Cardinality(Users(j)')
    <3>1. CASE j = k
      <4>1. Users(k)' = {c}
        BY <1>2, <2>1, LocksAssumption DEF Users
      <4>2. Cardinality({c}) = 1
        BY FS_Singleton
      <4> QED
        BY <3>1, <4>1, <4>2 DEF IInv, TypeOK
    <3>2. CASE j # k
      <4>1. Users(j)' = Users(j)
        BY <2>1, <3>2 DEF Users
      <4>2. table'[j] = table[j] /\ table[j] # l
        BY <3>2 DEF IInv, TypeOK, Fresh
      <4>3. table[j] \in Locks
        BY <2>3, <4>2 DEF IInv, TypeOK
      <4>4. holders'[table[j]] = holders[table[j]]
        BY <4>2, <4>3 DEF IInv, TypeOK
      <4> QED
        BY <2>3, <4>1, <4>2, <4>4 DEF IInv, OneLockPerKey
    <3> QED
      BY <3>1, <3>2
  <2> QED
    BY <2>2, <2>3 DEF OneLockPerKey
<1>4. Position'
  <2>1. \A d \in Callers : d # c => pc'[d] = pc[d] /\ ref'[d] = ref[d]
    BY DEF IInv, TypeOK
  <2>2. pc[c] = "key" /\ pc'[c] = "lock" /\ asked' = asked /\ got' = got
    BY DEF IInv, TypeOK
  <2>3. \A j \in Keys : ref'[c][j] = IF j = k THEN l ELSE ref[c][j]
    BY DEF IInv, TypeOK
  <2>4. \A j \in Keys : IsFirst(j, asked[c] \ got[c]) <=> j = k
    BY KeysAssumption DEF IInv, TypeOK, IsFirst
  <2>5. \A j \in Keys : ref[c][j] # NoLock <=> j \in got[c]
    BY <2>2 DEF IInv, Position
  <2>6. \A j \in Keys : ref'[c][j] # NoLock <=> j \in got[c] \/ j = k
    BY LocksAssumption, <2>3, <2>5
  <2>7. got[c] \subseteq asked[c]
    BY DEF IInv, Position
  <2> HIDE DEF MakeKey
  <2> QED
    BY <2>1, <2>2, <2>4, <2>6, <2>7 DEF IInv, Position, IsFirst
<1>5. EntriesApart'
  BY DEF IInv, EntriesApart, TypeOK, Fresh
<1>6. Ownership'
  <2> SUFFICES ASSUME NEW d \in Callers, NEW j \in Keys, j \in got'[d],
                      ~(pc'[d] = "drop" /\ IsLast(j, got'[d]))
               PROVE  owner'[ref'[d][j]] = d
    BY DEF Ownership, IsLast
  <2>1. ref[d][j] # NoLock /\ ref[d][j] \in Locks
    BY RefIsEntry
  <2>2. ref'[d][j] = ref[d][j]
    BY <1>2, <2>1 DEF IInv, TypeOK
  <2>3. ref[d][j] # l
    BY DEF Fresh
  <2>4. pc'[d] = "drop" <=> pc[d] = "drop"
    BY DEF IInv, TypeOK
  <2> QED
    BY <2>1, <2>2, <2>3, <2>4 DEF IInv, Ownership, TypeOK
<1>7. Inside'
  BY DEF IInv, Inside, TypeOK
<1> QED
  BY <1>1, <1>3, <1>4, <1>5, <1>6, <1>7 DEF IInv

LEMMA CountKeyStep ==
  ASSUME IInv, NEW c \in Callers, NEW k \in Keys, CountKey(c, k)
  PROVE  IInv'
<1> USE DEF CountKey, Goto
<1>0. table[k] \in Locks /\ holders[table[k]] \in Nat
  BY DEF IInv, TypeOK
<1>1. TypeOK'
  BY <1>0 DEF IInv, TypeOK, PCs
<1>2. ref[c][k] = NoLock
  BY DEF IInv, Position, IsFirst
<1>3. OneLockPerKey'
  <2>1. \A d \in Callers, j \in Keys :
          ref'[d][j] = IF d = c /\ j = k THEN table[k] ELSE ref[d][j]
    BY DEF IInv, TypeOK
  <2>2. ASSUME NEW d \in Callers, NEW j \in Keys, ref'[d][j] # NoLock
        PROVE  table'[j] = ref'[d][j]
    BY <2>1, <2>2 DEF IInv, OneLockPerKey
  <2>3. ASSUME NEW j \in Keys, table'[j] # NoLock
        PROVE  Users(j)' # {} /\ holders'[table'[j]] = Cardinality(Users(j)')
    <3>1. CASE j = k
      <4>1. Users(k)' = Users(k) \cup {c}
        BY <1>0, <2>1, LocksAssumption DEF Users
      <4>2. c \notin Users(k)
        BY <1>2 DEF Users
      <4>3. Cardinality(Users(k) \cup {c}) = Cardinality(Users(k)) + 1
        BY <4>2, UsersFinite, FS_AddElement
      <4>4. holders'[table[k]] = holders[table[k]] + 1
        BY <1>0 DEF IInv, TypeOK
      <4> QED
        BY <3>1, <4>1, <4>3, <4>4 DEF IInv, OneLockPerKey
    <3>2. CASE j # k
      <4>1. Users(j)' = Users(j)
        BY <2>1, <3>2 DEF Users
      <4>2. table[j] # table[k] /\ table[j] \in Locks
        BY <2>3, <3>2 DEF IInv, EntriesApart, TypeOK
      <4>3. holders'[table[j]] = holders[table[j]]
        BY <4>2 DEF IInv, TypeOK
      <4> QED
        BY <2>3, <4>1, <4>3 DEF IInv, OneLockPerKey
    <3> QED
      BY <3>1, <3>2
  <2> QED
    BY <2>2, <2>3 DEF OneLockPerKey
<1>4. Position'
  <2>1. \A d \in Callers : d # c => pc'[d] = pc[d] /\ ref'[d] = ref[d]
    BY DEF IInv, TypeOK
  <2>2. pc[c] = "key" /\ pc'[c] = "lock" /\ asked' = asked /\ got' = got
    BY DEF IInv, TypeOK
  <2>3. \A j \in Keys : ref'[c][j] = IF j = k THEN table[k] ELSE ref[c][j]
    BY DEF IInv, TypeOK
  <2>4. \A j \in Keys : IsFirst(j, asked[c] \ got[c]) <=> j = k
    BY KeysAssumption DEF IInv, TypeOK, IsFirst
  <2>5. \A j \in Keys : ref[c][j] # NoLock <=> j \in got[c]
    BY <2>2 DEF IInv, Position
  <2>6. \A j \in Keys : ref'[c][j] # NoLock <=> j \in got[c] \/ j = k
    BY <2>3, <2>5
  <2>7. got[c] \subseteq asked[c]
    BY DEF IInv, Position
  <2> HIDE DEF CountKey
  <2> QED
    BY <2>1, <2>2, <2>4, <2>6, <2>7 DEF IInv, Position, IsFirst
<1>5. EntriesApart'
  BY DEF IInv, EntriesApart
<1>6. Ownership'
  <2> SUFFICES ASSUME NEW d \in Callers, NEW j \in Keys, j \in got'[d],
                      ~(pc'[d] = "drop" /\ IsLast(j, got'[d]))
               PROVE  owner'[ref'[d][j]] = d
    BY DEF Ownership, IsLast
  <2>1. ref[d][j] # NoLock
    BY RefIsEntry
  <2>2. ref'[d][j] = ref[d][j]
    BY <1>2, <2>1 DEF IInv, TypeOK
  <2>3. pc'[d] = "drop" <=> pc[d] = "drop"
    BY DEF IInv, TypeOK
  <2> QED
    BY <2>2, <2>3 DEF IInv, Ownership
<1>7. Inside'
  BY DEF IInv, Inside, TypeOK
<1> QED
  BY <1>1, <1>3, <1>4, <1>5, <1>6, <1>7 DEF IInv

LEMMA KeyLockStep ==
  ASSUME IInv, NEW c \in Callers, NEW k \in Keys, KeyLock(c, k)
  PROVE  IInv'
<1> USE DEF KeyLock, Goto
<1>0. ref[c][k] \in Locks
  BY RefIsEntry
<1>1. TypeOK'
  BY <1>0 DEF IInv, TypeOK, PCs
<1>2. OneLockPerKey'
  BY DEF IInv, OneLockPerKey, Users
<1>3. Position'
  BY KeysAssumption DEF IInv, Position, TypeOK, IsFirst
<1>4. EntriesApart'
  BY DEF IInv, EntriesApart
<1>5. Ownership'
  <2> SUFFICES ASSUME NEW d \in Callers, NEW j \in Keys, j \in got'[d],
                      ~(pc'[d] = "drop" /\ IsLast(j, got'[d]))
               PROVE  owner'[ref'[d][j]] = d
    BY DEF Ownership, IsLast
  <2>1. CASE d = c /\ j = k
    BY <1>0, <2>1 DEF IInv, TypeOK
  <2>2. CASE ~(d = c /\ j = k)
    <3>1. j \in got[d] /\ ~(pc[d] = "drop" /\ IsLast(j, got[d]))
      BY <2>2 DEF IInv, TypeOK
    <3>2. owner[ref[d][j]] = d
      BY <3>1 DEF IInv, Ownership
    <3>3. ref[d][j] # ref[c][k]
      BY <3>2, CallersAssumption
    <3> QED
      BY <1>0, <3>2, <3>3 DEF IInv, TypeOK
  <2> QED
    BY <2>1, <2>2
<1>6. Inside'
  BY DEF IInv, Inside, TypeOK
<1> QED
  BY <1>1, <1>2, <1>3, <1>4, <1>5, <1>6 DEF IInv

LEMMA ByReturnsStep ==
  ASSUME IInv, NEW c \in Callers, ByReturns(c) \/ CallUnlock(c)
  PROVE  IInv'
<1> USE DEF IInv, ByReturns, CallUnlock, Goto
<1>1. TypeOK'
  BY DEF TypeOK, PCs
<1>2. OneLockPerKey' /\ EntriesApart'
  BY DEF OneLockPerKey, EntriesApart, Users
<1>3. Position'
  BY DEF Position, TypeOK, IsFirst
<1>4. Ownership'
  BY DEF Ownership, TypeOK, IsLast
<1>5. Inside'
  BY DEF Inside, TypeOK
<1> QED
  BY <1>1, <1>2, <1>3, <1>4, <1>5

LEMMA KeyUnlockStep ==
  ASSUME IInv, NEW c \in Callers, NEW k \in Keys, KeyUnlock(c, k)
  PROVE  IInv'
<1> USE DEF KeyUnlock, Goto
<1>0. k \in got[c] /\ ref[c][k] \in Locks /\ table[k] = ref[c][k] /\ owner[ref[c][k]] = c
  BY RefIsEntry DEF IInv, IsLast, Ownership
<1>1. TypeOK'
  BY <1>0 DEF IInv, TypeOK, PCs
<1>2. OneLockPerKey' /\ EntriesApart'
  BY DEF IInv, OneLockPerKey, EntriesApart, Users
<1>3. Position'
  BY DEF IInv, Position, TypeOK, IsFirst
<1>4. Ownership'
  <2> SUFFICES ASSUME NEW d \in Callers, NEW j \in Keys, j \in got'[d],
                      ~(pc'[d] = "drop" /\ IsLast(j, got'[d]))
               PROVE  owner'[ref'[d][j]] = d
    BY DEF Ownership, IsLast
  <2>1. ~(d = c /\ j = k)
    BY DEF IInv, TypeOK
  <2>2. ~(pc[d] = "drop" /\ IsLast(j, got[d]))
    BY DEF IInv, TypeOK
  <2>3. owner[ref[d][j]] = d
    BY <2>2 DEF IInv, Ownership
  <2>4. ref[d][j] \in Locks /\ table[j] = ref[d][j] /\ table[j] # NoLock
    BY RefIsEntry
  <2>5. ref[d][j] # ref[c][k]
    BY <1>0, <2>1, <2>3, <2>4 DEF IInv, EntriesApart
  <2> QED
    BY <1>0, <2>3, <2>4, <2>5 DEF IInv, TypeOK
<1>5. Inside'
  BY DEF IInv, Inside, TypeOK
<1> QED
  BY <1>1, <1>2, <1>3, <1>4, <1>5 DEF IInv

LEMMA DropKeyStep ==
  ASSUME IInv, NEW c \in Callers, NEW k \in Keys, DropKey(c, k)
  PROVE  IInv'
<1> USE DEF DropKey, LastOut, Goto
<1> DEFINE l == ref[c][k]
<1>0. k \in got[c] /\ l \in Locks /\ l # NoLock /\ table[k] = l /\ c \in Users(k)
  BY RefIsEntry DEF IsLast
<1>1. holders[l] = Cardinality(Users(k)) /\ holders[l] \in Nat
  BY <1>0, UsersFinite DEF IInv, OneLockPerKey
<1>2. Cardinality(Users(k) \ {c}) = holders[l] - 1
  BY <1>0, <1>1, UsersFinite, FS_RemoveElement
<1>3. IsFiniteSet(Users(k) \ {c}) /\ Cardinality(Users(k) \ {c}) \in Nat
  BY UsersFinite, FS_Subset, FS_CardinalityType
<1>4. holders[l] - 1 \in Nat
  BY <1>2, <1>3
<1>5. TypeOK'
  BY <1>0, <1>4 DEF IInv, TypeOK, PCs
<1>6. \A d \in Callers, j \in Keys :
        ref'[d][j] = IF d = c /\ j = k THEN NoLock ELSE ref[d][j]
  BY DEF IInv, TypeOK
<1>7. Users(k)' = Users(k) \ {c}
  BY <1>6 DEF Users
<1>8. \A j \in Keys : table'[j] = IF j = k /\ holders[l] = 1 THEN NoLock ELSE table[j]
  BY DEF IInv, TypeOK
<1>9. OneLockPerKey'
  <2>1. ASSUME NEW d \in Callers, NEW j \in Keys, ref'[d][j] # NoLock
        PROVE  table'[j] = ref'[d][j]
    <3>1. ref'[d][j] = ref[d][j] /\ table[j] = ref[d][j]
      BY <1>6, <2>1 DEF IInv, OneLockPerKey
    <3>2. ~(j = k /\ holders[l] = 1)
      <4> SUFFICES ASSUME j = k, holders[l] = 1 PROVE FALSE
        OBVIOUS
      <4>1. Users(k) \ {c} = {}
        BY <1>2, <1>3, FS_EmptySet
      <4> QED
        BY <1>7, <2>1, <4>1 DEF Users
    <3> QED
      BY <1>8, <3>1, <3>2
  <2>2. ASSUME NEW j \in Keys, table'[j] # NoLock
        PROVE  Users(j)' # {} /\ holders'[table'[j]] = Cardinality(Users(j)')
    <3>1. table'[j] = table[j] /\ ~(j = k /\ holders[l] = 1)
      BY <1>8, <2>2
    <3>2. CASE j = k
      <4>1. holders[l] - 1 # 0
        BY <1>1, <3>1, <3>2
      <4>2. Users(k) \ {c} # {}
        BY <1>2, <4>1, FS_EmptySet
      <4>3. holders'[l] = holders[l] - 1
        BY <1>0 DEF IInv, TypeOK
      <4> QED
        BY <1>0, <1>2, <1>7, <3>1, <3>2, <4>2, <4>3 DEF IInv, OneLockPerKey
    <3>3. CASE j # k
      <4>1. Users(j)' = Users(j)
        BY <1>6, <3>3 DEF Users
      <4>2. table[j] \in Locks /\ table[j] # l
        BY <1>0, <2>2, <3>1, <3>3 DEF IInv, EntriesApart, TypeOK
      <4>3. holders'[table[j]] = holders[table[j]]
        BY <4>2 DEF IInv, TypeOK
      <4> QED
        BY <2>2, <3>1, <4>1, <4>3 DEF IInv, OneLockPerKey
    <3> QED
      BY <3>2, <3>3
  <2> QED
    BY <2>1, <2>2 DEF OneLockPerKey
<1>10. Position'
  <2>1. \A d \in Callers : d # c => pc'[d] = pc[d] /\ got'[d] = got[d] /\ ref'[d] = ref[d]
    BY DEF IInv, TypeOK
  <2>2. pc'[c] = "unlock" /\ got'[c] = got[c] \ {k} /\ asked' = asked
    BY DEF IInv, TypeOK
  <2>3. pc[c] = "drop"
    OBVIOUS
  <2> HIDE DEF DropKey
  <2>4. \A j \in Keys : ref[c][j] # NoLock <=> j \in got[c]
    BY <2>3 DEF IInv, Position
  <2>5. \A j \in Keys : ref'[c][j] # NoLock <=> j \in got'[c]
    BY <1>6, <2>2, <2>4
  <2> QED
    BY <2>1, <2>2, <2>5 DEF IInv, Position, IsFirst
<1>11. EntriesApart'
  BY <1>8 DEF IInv, EntriesApart
<1>12. Ownership'
  <2> SUFFICES ASSUME NEW d \in Callers, NEW j \in Keys, j \in got'[d],
                      ~(pc'[d] = "drop" /\ IsLast(j, got'[d]))
               PROVE  owner'[ref'[d][j]] = d
    BY DEF Ownership, IsLast
  <2>1. ref'[d][j] = ref[d][j] /\ j \in got[d]
    BY <1>6 DEF IInv, TypeOK
  <2>2. ~(pc[d] = "drop" /\ IsLast(j, got[d]))
    <3>1. CASE d = c
      BY <3>1, KeysAssumption DEF IInv, TypeOK, IsLast
    <3>2. CASE d # c
      BY <3>2 DEF IInv, TypeOK
    <3> QED
      BY <3>1, <3>2
  <2> QED
    BY <2>1, <2>2 DEF IInv, Ownership
<1>13. Inside'
  BY DEF IInv, Inside, TypeOK
<1> QED
  BY <1>5, <1>9, <1>10, <1>11, <1>12, <1>13 DEF IInv

LEMMA ReadUnlockStep ==
  ASSUME IInv, NEW c \in Callers, ReadUnlock(c)
  PROVE  IInv'
<1> USE DEF IInv, ReadUnlock, Goto
<1>1. TypeOK'
  BY DEF TypeOK, PCs
<1>2. OneLockPerKey' /\ EntriesApart'
  BY DEF OneLockPerKey, EntriesApart, Users
<1>3. Position'
  BY DEF Position, TypeOK, IsFirst
<1>4. Ownership'
  BY DEF Ownership, TypeOK, IsLast
<1>5. Inside'
  BY DEF Inside, TypeOK
<1> QED
  BY <1>1, <1>2, <1>3, <1>4, <1>5

LEMMA AllStep ==
  ASSUME IInv, NEW c \in Callers, All(c) \/ ClaimAll(c) \/ AllReturns(c)
  PROVE  IInv'
<1> USE DEF IInv, All, ClaimAll, AllReturns, Goto
<1>1. TypeOK'
  BY DEF TypeOK, PCs
<1>2. OneLockPerKey' /\ EntriesApart'
  BY DEF OneLockPerKey, EntriesApart, Users
<1>3. Position'
  BY DEF Position, TypeOK, IsFirst
<1>4. Ownership'
  BY DEF Ownership, TypeOK, IsLast
<1>5. Inside'
  BY CallersAssumption DEF Inside, TypeOK
<1> QED
  BY <1>1, <1>2, <1>3, <1>4, <1>5

LEMMA UnlockAllStep ==
  ASSUME IInv, NEW c \in Callers, UnlockAll(c)
  PROVE  IInv'
<1> USE DEF IInv, UnlockAll, BlockedReaders
<1>1. TypeOK'
  BY DEF TypeOK, PCs
<1>2. OneLockPerKey' /\ EntriesApart'
  BY DEF OneLockPerKey, EntriesApart, Users
<1>3. Position'
  BY DEF Position, TypeOK, IsFirst
<1>4. Ownership'
  BY DEF Ownership, TypeOK, IsLast
<1>5. Inside'
  BY CallersAssumption DEF Inside, TypeOK
<1> QED
  BY <1>1, <1>2, <1>3, <1>4, <1>5

LEMMA StutterStep ==
  ASSUME IInv, UNCHANGED vars
  PROVE  IInv'
<1> USE DEF vars
<1>1. TypeOK' /\ EntriesApart'
  BY DEF IInv, TypeOK, EntriesApart
<1>2. OneLockPerKey'
  BY DEF IInv, OneLockPerKey, Users
<1>3. Position'
  BY DEF IInv, Position, IsFirst
<1>4. Ownership'
  BY DEF IInv, Ownership, IsLast
<1>5. Inside'
  BY DEF IInv, Inside
<1> QED
  BY <1>1, <1>2, <1>3, <1>4, <1>5 DEF IInv

LEMMA NextIInv ==
  ASSUME IInv, [Next]_vars
  PROVE  IInv'
<1>1. CASE UNCHANGED vars
  BY <1>1, StutterStep
<1>2. ASSUME NEW c \in Callers, \E S \in SUBSET Keys : By(c, S)
      PROVE  IInv'
  BY <1>2, ByStep
<1>3. ASSUME NEW c \in Callers, Take(c)
      PROVE  IInv'
  BY <1>3, MakeKeyStep, CountKeyStep DEF Take
<1>4. ASSUME NEW c \in Callers, \E k \in Keys : KeyLock(c, k)
      PROVE  IInv'
  BY <1>4, KeyLockStep
<1>5. ASSUME NEW c \in Callers, ByReturns(c) \/ CallUnlock(c)
      PROVE  IInv'
  BY <1>5, ByReturnsStep
<1>6. ASSUME NEW c \in Callers, Give(c)
      PROVE  IInv'
  BY <1>6, KeyUnlockStep, DropKeyStep DEF Give
<1>7. ASSUME NEW c \in Callers, ReadUnlock(c)
      PROVE  IInv'
  BY <1>7, ReadUnlockStep
<1>8. ASSUME NEW c \in Callers, All(c) \/ ClaimAll(c) \/ AllReturns(c)
      PROVE  IInv'
  BY <1>8, AllStep
<1>9. ASSUME NEW c \in Callers, UnlockAll(c)
      PROVE  IInv'
  BY <1>9, UnlockAllStep
<1> QED
  BY <1>1, <1>2, <1>3, <1>4, <1>5, <1>6, <1>7, <1>8, <1>9 DEF Next

(* The inductive invariant holds in every reachable state of the lock set, *)
(* whatever calls are made of By, All and unlock.                          *)
THEOREM Inductive == Spec => []IInv
<1>1. Init => IInv
  BY InitIInv
<1>2. IInv /\ [Next]_vars => IInv'
  BY NextIInv
<1> QED
  BY <1>1, <1>2, PTL DEF Spec

-----------------------------------------------------------------------------
(* Every variable keeps its type: no keyLock's count goes below zero.      *)
THEOREM TypeCorrect == Spec => []TypeOK
<1>1. IInv => TypeOK
  BY DEF IInv
<1> QED
  BY <1>1, Inductive, PTL

(* A key has one lock for as long as anything uses it, counted rightly,    *)
(* and none when nothing does (set.go: By and the unlock it returns).      *)
THEOREM OneLockForEachKey == Spec => []OneLockPerKey
<1>1. IInv => OneLockPerKey
  BY DEF IInv
<1> QED
  BY <1>1, Inductive, PTL

(* When every call has called unlock, Idle is true: no call leaves a lock, *)
(* or an entry in the table, behind.                                       *)
THEOREM LeavesNothing == Spec => []NothingLeftLocked
<1>1. IInv => NothingLeftLocked
  <2> SUFFICES ASSUME IInv, \A c \in Callers : pc[c] = "idle"
               PROVE  Idle
    BY DEF NothingLeftLocked
  <2>1. readers = {}
    BY DEF IInv, Inside
  <2>2. writer = Nobody
    BY DEF IInv, Inside, TypeOK
  <2>3. ASSUME NEW k \in Keys
        PROVE  table[k] = NoLock
    <3>1. \A c \in Callers : ref[c][k] = NoLock
      BY DEF IInv, Position
    <3>2. Users(k) = {}
      BY <3>1 DEF Users
    <3> QED
      BY <3>2 DEF IInv, OneLockPerKey
  <2> QED
    BY <2>1, <2>2, <2>3 DEF Idle
<1> QED
  BY <1>1, Inductive, PTL

-----------------------------------------------------------------------------
(* By returns only to a caller that no other caller's turn conflicts with: *)
(* each of its keys' mutexes is its own, and s.all is not held for writing.*)
LEMMA ByReturnsAlone ==
  ASSUME IInv, NEW c \in Callers, ByReturns(c), NEW d \in Callers \ {c},
         pc[d] \in InTurn
  PROVE  pc[d] = "turn" /\ asked[c] \cap asked[d] = {}
<1>1. pc[d] # "all"
  BY DEF IInv, Inside, ByReturns
<1>2. pc[d] = "turn"
  BY <1>1 DEF InTurn
<1>3. ASSUME NEW k \in Keys, k \in asked[c], k \in asked[d]
      PROVE  FALSE
  <2>1. k \in got[c] /\ k \in got[d]
    BY <1>2, <1>3 DEF IInv, Position, ByReturns
  <2>2. owner[ref[c][k]] = c /\ owner[ref[d][k]] = d
    BY <1>2, <2>1 DEF IInv, Ownership, ByReturns
  <2>3. ref[c][k] = ref[d][k]
    BY <2>1, RefIsEntry
  <2> QED
    BY <2>2, <2>3
<1>4. asked[c] \subseteq Keys
  BY DEF IInv, TypeOK
<1> QED
  BY <1>2, <1>3, <1>4

(* All returns only when no other caller has a turn. *)
LEMMA AllReturnsAlone ==
  ASSUME IInv, NEW c \in Callers, AllReturns(c), NEW d \in Callers \ {c}
  PROVE  pc[d] \notin InTurn
<1>1. pc[d] # "turn"
  BY DEF IInv, Inside, AllReturns
<1>2. pc[d] # "all"
  BY DEF IInv, Inside, AllReturns
<1> QED
  BY <1>1, <1>2 DEF InTurn

(* The abstract state of one caller, seen through the refinement mapping.  *)
PhaseOf(c) == IF pc[c] \in InTurn THEN "turn"
              ELSE IF pc[c] \in Waiting THEN "waiting" ELSE "idle"
NamedBy(c) == IF pc[c] \in {"rlock", "key", "lock", "turn"} THEN asked[c] ELSE {}
WholeOf(c) == pc[c] \in {"wlock", "drain", "all"}

(* A step of one caller, seen through the refinement mapping, changes that *)
(* caller alone: it is a step of taking turns when it is one for the       *)
(* caller, and nothing when the caller looks the same before and after.    *)
LEMMA MappedStutter ==
  ASSUME \A c \in Callers : /\ PhaseOf(c)' = PhaseOf(c)
                            /\ NamedBy(c)' = NamedBy(c)
                            /\ WholeOf(c)' = WholeOf(c)
  PROVE  UNCHANGED Promised!vars
BY DEF Promised!vars, PhaseOf, NamedBy, WholeOf

LEMMA MappedChange ==
  ASSUME NEW c \in Callers,
         \A d \in Callers \ {c} : /\ PhaseOf(d)' = PhaseOf(d)
                                  /\ NamedBy(d)' = NamedBy(d)
                                  /\ WholeOf(d)' = WholeOf(d)
  PROVE  /\ [d \in Callers |-> PhaseOf(d)]' = [[d \in Callers |-> PhaseOf(d)] EXCEPT ![c] = PhaseOf(c)']
         /\ [d \in Callers |-> NamedBy(d)]' = [[d \in Callers |-> NamedBy(d)] EXCEPT ![c] = NamedBy(c)']
         /\ [d \in Callers |-> WholeOf(d)]' = [[d \in Callers |-> WholeOf(d)] EXCEPT ![c] = WholeOf(c)']
OBVIOUS

LEMMA InitMapped == Init => Promised!Init
<1> SUFFICES ASSUME Init PROVE Promised!Init
  OBVIOUS
<1>1. \A c \in Callers : pc[c] = "idle"
  BY DEF Init
<1>2. \A c \in Callers : PhaseOf(c) = "idle" /\ NamedBy(c) = {} /\ WholeOf(c) = FALSE
  BY <1>1 DEF PhaseOf, NamedBy, WholeOf, InTurn, Waiting
<1>3. /\ [c \in Callers |-> PhaseOf(c)] = [c \in Callers |-> "idle"]
      /\ [c \in Callers |-> NamedBy(c)] = [c \in Callers |-> {}]
      /\ [c \in Callers |-> WholeOf(c)] = [c \in Callers |-> FALSE]
  BY <1>2
<1> QED
  BY <1>3 DEF Promised!Init, PhaseOf, NamedBy, WholeOf

(* Every step of the lock set is, seen through the mapping, a step of      *)
(* taking turns by the same caller, or none.                               *)
LEMMA StepMapped ==
  ASSUME IInv, [Next]_vars
  PROVE  [Promised!Next]_Promised!vars
<1> DEFINE Unseen(d) == /\ PhaseOf(d)' = PhaseOf(d)
                        /\ NamedBy(d)' = NamedBy(d)
                        /\ WholeOf(d)' = WholeOf(d)
<1> USE DEF PhaseOf, NamedBy, WholeOf, InTurn, Waiting
<1>0. pc \in [Callers -> PCs]
  BY DEF IInv, TypeOK
<1>1. ASSUME NEW c \in Callers, NEW S \in SUBSET Keys, By(c, S)
      PROVE  Promised!Ask(c, S)
  <2>1. PhaseOf(c) = "idle" /\ PhaseOf(c)' = "waiting" /\ NamedBy(c)' = S /\ WholeOf(c)' = FALSE
    BY <1>0, <1>1 DEF By, Goto, IInv, TypeOK
  <2>2. \A d \in Callers \ {c} : Unseen(d)
    BY <1>0, <1>1 DEF By, Goto, IInv, TypeOK
  <2> QED
    BY <2>1, <2>2, MappedChange DEF Promised!Ask
<1>2. ASSUME NEW c \in Callers,
             \/ Take(c)
             \/ \E k \in Keys : KeyLock(c, k)
             \/ Give(c)
             \/ ReadUnlock(c)
             \/ ClaimAll(c)
      PROVE  UNCHANGED Promised!vars
  <2>1. \A d \in Callers : Unseen(d)
    BY <1>0, <1>2 DEF Take, MakeKey, CountKey, KeyLock, Give, KeyUnlock, DropKey,
                     ReadUnlock, ClaimAll, Goto, IInv, TypeOK
  <2> QED
    BY <2>1, MappedStutter
<1>3. ASSUME NEW c \in Callers, ByReturns(c)
      PROVE  Promised!Grant(c)
  <2>1. PhaseOf(c) = "waiting" /\ PhaseOf(c)' = "turn" /\ UNCHANGED <<NamedBy(c), WholeOf(c)>>
    BY <1>0, <1>3 DEF ByReturns, Goto
  <2>2. \A d \in Callers \ {c} : Unseen(d)
    BY <1>0, <1>3 DEF ByReturns, Goto
  <2>3. ASSUME NEW d \in Callers \ {c}, PhaseOf(d) = "turn"
        PROVE  ~WholeOf(c) /\ ~WholeOf(d) /\ NamedBy(c) \cap NamedBy(d) = {}
    <3>1. pc[d] = "turn" /\ asked[c] \cap asked[d] = {}
      BY <1>3, <2>3, ByReturnsAlone
    <3> QED
      BY <1>3, <3>1 DEF ByReturns
  <2> QED
    BY <2>1, <2>2, <2>3, MappedChange DEF Promised!Grant, Promised!Conflict
<1>4. ASSUME NEW c \in Callers, CallUnlock(c)
      PROVE  Promised!Unlock(c)
  <2>1. PhaseOf(c) = "turn" /\ PhaseOf(c)' = "idle" /\ NamedBy(c)' = {} /\ WholeOf(c)' = FALSE
    BY <1>0, <1>4 DEF CallUnlock, Goto
  <2>2. \A d \in Callers \ {c} : Unseen(d)
    BY <1>0, <1>4 DEF CallUnlock, Goto
  <2> QED
    BY <2>1, <2>2, MappedChange DEF Promised!Unlock
<1>5. ASSUME NEW c \in Callers, All(c)
      PROVE  Promised!AskAll(c)
  <2>1. PhaseOf(c) = "idle" /\ PhaseOf(c)' = "waiting" /\ NamedBy(c)' = {} /\ WholeOf(c)' = TRUE
    BY <1>0, <1>5 DEF All, Goto
  <2>2. \A d \in Callers \ {c} : Unseen(d)
    BY <1>0, <1>5 DEF All, Goto
  <2> QED
    BY <2>1, <2>2, MappedChange DEF Promised!AskAll
<1>6. ASSUME NEW c \in Callers, AllReturns(c)
      PROVE  Promised!Grant(c)
  <2>1. PhaseOf(c) = "waiting" /\ PhaseOf(c)' = "turn" /\ UNCHANGED <<NamedBy(c), WholeOf(c)>>
    BY <1>0, <1>6 DEF AllReturns, Goto
  <2>2. \A d \in Callers \ {c} : Unseen(d)
    BY <1>0, <1>6 DEF AllReturns, Goto
  <2>3. \A d \in Callers \ {c} : PhaseOf(d) # "turn"
    BY <1>6, AllReturnsAlone
  <2> QED
    BY <2>1, <2>2, <2>3, MappedChange DEF Promised!Grant
<1>7. ASSUME NEW c \in Callers, UnlockAll(c)
      PROVE  Promised!Unlock(c)
  <2>1. PhaseOf(c) = "turn" /\ PhaseOf(c)' = "idle" /\ NamedBy(c)' = {} /\ WholeOf(c)' = FALSE
    BY <1>0, <1>7 DEF UnlockAll
  <2>2. \A d \in Callers \ {c} : Unseen(d)
    BY <1>0, <1>7 DEF UnlockAll
  <2> QED
    BY <2>1, <2>2, MappedChange DEF Promised!Unlock
<1>8. CASE UNCHANGED vars
  BY <1>8, MappedStutter DEF vars
<1> QED
  BY <1>1, <1>2, <1>3, <1>4, <1>5, <1>6, <1>7, <1>8 DEF Next, Promised!Next

(* The lock set keeps the promise of Turns: whatever By, All and unlock do *)
(* to the mutexes, the table and the counts, a caller has its turn at all  *)
(* it named at once, and no conflicting turn is had meanwhile.             *)
THEOREM Implements == Spec => ImplementsTurns
<1>1. Init => Promised!Init
  BY InitMapped
<1>2. IInv /\ [Next]_vars => [Promised!Next]_Promised!vars
  BY StepMapped
<1> QED
  BY <1>1, <1>2, Inductive, PTL DEF Spec, ImplementsTurns, Promised!Spec

(* So no two turns are had at a key, or beside All, at once: two callers   *)
(* would both own the one lock of that key (lock.go: "makes callers in one *)
(* process take turns at a record").                                       *)
THEOREM NeverTogether == Spec => []Promised!OneAtATime
<1>1. IInv => Promised!OneAtATime
  <2> SUFFICES ASSUME IInv, NEW c \in Callers, NEW d \in Callers, c # d,
                      pc[c] \in InTurn, pc[d] \in InTurn
               PROVE  /\ pc[c] \notin {"wlock", "drain", "all"}
                      /\ pc[d] \notin {"wlock", "drain", "all"}
                      /\ pc[c] = "turn" /\ pc[d] = "turn" => asked[c] \cap asked[d] = {}
    BY DEF Promised!OneAtATime, Promised!Conflict, InTurn
  <2>1. pc[c] # "all" /\ pc[d] # "all"
    BY DEF IInv, Inside, InTurn
  <2>2. ASSUME NEW k \in asked[c] \cap asked[d]
        PROVE  FALSE
    <3>1. pc[c] = "turn" /\ pc[d] = "turn"
      BY <2>1 DEF InTurn
    <3>2. k \in got[c] /\ k \in got[d] /\ k \in Keys
      BY <3>1 DEF IInv, Position, TypeOK
    <3>3. owner[ref[c][k]] = c /\ owner[ref[d][k]] = d
      BY <3>1, <3>2 DEF IInv, Ownership
    <3>4. ref[c][k] = ref[d][k]
      BY <3>2 DEF IInv, Position, OneLockPerKey
    <3> QED
      BY <3>3, <3>4
  <2> QED
    BY <2>1, <2>2 DEF InTurn
<1> QED
  BY <1>1, Inductive, PTL
=============================================================================
