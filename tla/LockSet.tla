------------------------------- MODULE LockSet -------------------------------
(***************************************************************************)
(* go-kt's lock.Set (src/vendor/github.com/katbyte/go-kt/lock/set.go): a   *)
(* read-write lock `all`, and a table of one mutex per key that is named,  *)
(* each counting the calls that hold it or wait for it.  An entry leaves   *)
(* the table when the last of them is done with it.                        *)
(*                                                                         *)
(* A keyLock has an identity of its own here (an element of Locks), as in  *)
(* the code, where a caller keeps a pointer to it: were an entry dropped   *)
(* while a caller still used it, the next By would make a second lock for  *)
(* the same key.  Keys are numbers: By sorts them by (kind, id, field),    *)
(* and only their order matters.                                           *)
(*                                                                         *)
(* One action is one stretch of code between two places where a goroutine  *)
(* can be held up; what is done under s.mu is one step.                    *)
(***************************************************************************)
EXTENDS Integers, FiniteSets

CONSTANTS Callers,  \* the goroutines that call By and All
          Keys,     \* the keys there are, in the order By sorts them
          Locks,    \* the keyLocks there can be in memory at once
          Nobody,   \* a mutex held by no caller
          NoLock    \* no keyLock: a nil pointer, a key not in the table

ASSUME CallersAssumption == IsFiniteSet(Callers) /\ Nobody \notin Callers
ASSUME KeysAssumption == Keys \subseteq Nat
ASSUME LocksAssumption == NoLock \notin Locks

VARIABLES pc,       \* where each caller is in By, All or unlock
          asked,    \* keys: what its By named, sorted and compacted
          got,      \* held: the keys whose locks it has taken
          ref,      \* the keyLock it has counted itself on, by key
          table,    \* s.keys
          holders,  \* keyLock.holders
          owner,    \* who holds each keyLock's mutex
          readers,  \* s.all: the callers holding it for reading
          writer    \* s.all: the caller that has claimed it for writing

vars == <<pc, asked, got, ref, table, holders, owner, readers, writer>>

PCs == {"idle", "rlock", "key", "lock", "turn", "unlock", "drop",
        "wlock", "drain", "all"}

TypeOK ==
  /\ pc \in [Callers -> PCs]
  /\ asked \in [Callers -> SUBSET Keys]
  /\ got \in [Callers -> SUBSET Keys]
  /\ ref \in [Callers -> [Keys -> Locks \cup {NoLock}]]
  /\ table \in [Keys -> Locks \cup {NoLock}]
  /\ holders \in [Locks -> Nat]
  /\ owner \in [Locks -> Callers \cup {Nobody}]
  /\ readers \in SUBSET Callers
  /\ writer \in Callers \cup {Nobody}

Init ==
  /\ pc = [c \in Callers |-> "idle"]
  /\ asked = [c \in Callers |-> {}]
  /\ got = [c \in Callers |-> {}]
  /\ ref = [c \in Callers |-> [k \in Keys |-> NoLock]]
  /\ table = [k \in Keys |-> NoLock]
  /\ holders = [l \in Locks |-> 0]
  /\ owner = [l \in Locks |-> Nobody]
  /\ readers = {}
  /\ writer = Nobody

-----------------------------------------------------------------------------
(* Bug: the keys are taken in the order the call named them. *)
IsFirstUnsorted(k, S) == k \in S

(* By takes its keys in ascending order, unlock gives them up backward. *)
IsFirst(k, S) == k \in S /\ \A j \in S : k <= j
IsLast(k, S) == k \in S /\ \A j \in S : j <= k

(* A keyLock nothing points to: what &keyLock{} returns. *)
Fresh(l) ==
  /\ \A k \in Keys : table[k] # l
  /\ \A c \in Callers, k \in Keys : ref[c][k] # l

(* Bugs: an entry is dropped while others use it, or is never dropped. *)
LastOutAlways(l) == TRUE
LastOutNever(l) == FALSE

(* The caller being counted off is the last one on this keyLock. *)
LastOut(l) == holders[l] = 1

Goto(c, label) == pc' = [pc EXCEPT ![c] = label]

-----------------------------------------------------------------------------
(* sync.RWMutex (Go's, used by s.all): a reader is let in while no writer  *)
(* has claimed the lock, a writer that has claimed it waits for the        *)
(* readers inside, and the readers that came meanwhile go in when it is    *)
(* done, before any later writer.                                          *)
BlockedReaders == {c \in Callers : pc[c] = "rlock"}

(* By: the keys are worked out, then s.all.RLock(). *)
By(c, S) ==
  /\ pc[c] = "idle"
  /\ asked' = [asked EXCEPT ![c] = S]
  /\ \/ /\ writer = Nobody
        /\ readers' = readers \cup {c}
        /\ Goto(c, "key")
     \/ /\ writer # Nobody
        /\ readers' = readers
        /\ Goto(c, "rlock")
  /\ UNCHANGED <<got, ref, table, holders, owner, writer>>

(* Bug: a new entry is made but the call that made it is not counted. *)
MakeKeyUncounted(c, k, l) ==
  /\ pc[c] = "key"
  /\ IsFirst(k, asked[c] \ got[c])
  /\ table[k] = NoLock
  /\ Fresh(l)
  /\ table' = [table EXCEPT ![k] = l]
  /\ holders' = [holders EXCEPT ![l] = 0]
  /\ owner' = [owner EXCEPT ![l] = Nobody]
  /\ ref' = [ref EXCEPT ![c][k] = l]
  /\ Goto(c, "lock")
  /\ UNCHANGED <<asked, got, readers, writer>>

(* Under s.mu: no entry for the key, so one is made, counting this caller. *)
MakeKey(c, k, l) ==
  /\ pc[c] = "key"
  /\ IsFirst(k, asked[c] \ got[c])
  /\ table[k] = NoLock
  /\ Fresh(l)
  /\ table' = [table EXCEPT ![k] = l]
  /\ holders' = [holders EXCEPT ![l] = 1]
  /\ owner' = [owner EXCEPT ![l] = Nobody]
  /\ ref' = [ref EXCEPT ![c][k] = l]
  /\ Goto(c, "lock")
  /\ UNCHANGED <<asked, got, readers, writer>>

(* Bug: a call that finds an entry waits on it without being counted. *)
CountKeyUncounted(c, k) ==
  /\ pc[c] = "key"
  /\ IsFirst(k, asked[c] \ got[c])
  /\ table[k] # NoLock
  /\ ref' = [ref EXCEPT ![c][k] = table[k]]
  /\ Goto(c, "lock")
  /\ UNCHANGED <<asked, got, table, holders, owner, readers, writer>>

(* Under s.mu: the key's entry is there, and this caller is counted on it. *)
CountKey(c, k) ==
  /\ pc[c] = "key"
  /\ IsFirst(k, asked[c] \ got[c])
  /\ table[k] # NoLock
  /\ holders' = [holders EXCEPT ![table[k]] = @ + 1]
  /\ ref' = [ref EXCEPT ![c][k] = table[k]]
  /\ Goto(c, "lock")
  /\ UNCHANGED <<asked, got, table, owner, readers, writer>>

(* k.Lock() returns, of the keyLock it has just counted itself on. *)
KeyLock(c, k) ==
  /\ pc[c] = "lock"
  /\ IsFirst(k, asked[c] \ got[c])
  /\ ref[c][k] # NoLock
  /\ owner[ref[c][k]] = Nobody
  /\ owner' = [owner EXCEPT ![ref[c][k]] = c]
  /\ got' = [got EXCEPT ![c] = @ \cup {k}]
  /\ Goto(c, "key")
  /\ UNCHANGED <<asked, ref, table, holders, readers, writer>>

(* The loop over the keys is done: By returns its unlock. *)
ByReturns(c) ==
  /\ pc[c] = "key"
  /\ asked[c] \subseteq got[c]
  /\ Goto(c, "turn")
  /\ UNCHANGED <<asked, got, ref, table, holders, owner, readers, writer>>

(* The caller is done with what it locked and calls unlock. *)
CallUnlock(c) ==
  /\ pc[c] = "turn"
  /\ Goto(c, "unlock")
  /\ UNCHANGED <<asked, got, ref, table, holders, owner, readers, writer>>

(* k.Unlock() of the last key still held. *)
KeyUnlock(c, k) ==
  /\ pc[c] = "unlock"
  /\ IsLast(k, got[c])
  /\ owner' = [owner EXCEPT ![ref[c][k]] = Nobody]
  /\ Goto(c, "drop")
  /\ UNCHANGED <<asked, got, ref, table, holders, readers, writer>>

(* Under s.mu: it is counted off, and the entry goes with the last caller. *)
DropKey(c, k) ==
  /\ pc[c] = "drop"
  /\ IsLast(k, got[c])
  /\ holders' = [holders EXCEPT ![ref[c][k]] = @ - 1]
  /\ table' = IF LastOut(ref[c][k]) THEN [table EXCEPT ![k] = NoLock]
                                      ELSE table
  /\ ref' = [ref EXCEPT ![c][k] = NoLock]
  /\ got' = [got EXCEPT ![c] = @ \ {k}]
  /\ Goto(c, "unlock")
  /\ UNCHANGED <<asked, owner, readers, writer>>

(* No key is held any more: s.all.RUnlock(). *)
ReadUnlock(c) ==
  /\ pc[c] = "unlock"
  /\ got[c] = {}
  /\ asked' = [asked EXCEPT ![c] = {}]
  /\ readers' = readers \ {c}
  /\ Goto(c, "idle")
  /\ UNCHANGED <<got, ref, table, holders, owner, writer>>

-----------------------------------------------------------------------------
(* All: s.all.Lock() is called, *)
All(c) ==
  /\ pc[c] = "idle"
  /\ Goto(c, "wlock")
  /\ UNCHANGED <<asked, got, ref, table, holders, owner, readers, writer>>

(* claims the lock from other writers and shuts new readers out, *)
ClaimAll(c) ==
  /\ pc[c] = "wlock"
  /\ writer = Nobody
  /\ writer' = c
  /\ Goto(c, "drain")
  /\ UNCHANGED <<asked, got, ref, table, holders, owner, readers>>

(* and returns once the readers inside have gone. *)
AllReturns(c) ==
  /\ pc[c] = "drain"
  /\ readers = {}
  /\ Goto(c, "all")
  /\ UNCHANGED <<asked, got, ref, table, holders, owner, readers, writer>>

(* s.all.Unlock(): the readers held up meanwhile go in together. *)
UnlockAll(c) ==
  /\ pc[c] = "all"
  /\ writer' = Nobody
  /\ readers' = readers \cup BlockedReaders
  /\ pc' = [d \in Callers |-> IF d = c THEN "idle"
                              ELSE IF pc[d] = "rlock" THEN "key" ELSE pc[d]]
  /\ UNCHANGED <<asked, got, ref, table, holders, owner>>

-----------------------------------------------------------------------------
Take(c) == \E k \in Keys : CountKey(c, k) \/ \E l \in Locks : MakeKey(c, k, l)
Give(c) == \E k \in Keys : KeyUnlock(c, k) \/ DropKey(c, k)

Next == \E c \in Callers :
          \/ \E S \in SUBSET Keys : By(c, S)
          \/ Take(c)
          \/ \E k \in Keys : KeyLock(c, k)
          \/ ByReturns(c)
          \/ CallUnlock(c)
          \/ Give(c)
          \/ ReadUnlock(c)
          \/ All(c)
          \/ ClaimAll(c)
          \/ AllReturns(c)
          \/ UnlockAll(c)

Spec == Init /\ [][Next]_vars

(***************************************************************************)
(* Fairness.  A goroutine that can go on does, and a tool calls the unlock *)
(* it deferred.  Nothing makes a caller ask.  A Go mutex hands itself to   *)
(* the waiter that has waited longest once one has waited a millisecond,   *)
(* so a caller that finds it free again and again gets it: strong fairness *)
(* for k.Lock() and for the mutex writers queue on.                        *)
(***************************************************************************)
Fairness == \A c \in Callers :
  /\ WF_vars(Take(c))
  /\ SF_vars(\E k \in Keys : KeyLock(c, k))
  /\ WF_vars(ByReturns(c))
  /\ WF_vars(CallUnlock(c))
  /\ WF_vars(Give(c))
  /\ WF_vars(ReadUnlock(c))
  /\ SF_vars(ClaimAll(c))
  /\ WF_vars(AllReturns(c))
  /\ WF_vars(UnlockAll(c))

FairSpec == Spec /\ Fairness

-----------------------------------------------------------------------------
(* Idle: nothing holds s.all and no key has an entry. *)
Idle ==
  /\ writer = Nobody
  /\ readers = {}
  /\ \A k \in Keys : table[k] = NoLock

(* The calls that have a pointer to the key's lock: they hold the key or   *)
(* wait for it.                                                            *)
Users(k) == {c \in Callers : ref[c][k] # NoLock}

(* A key has an entry exactly while some call holds it or waits for it,    *)
(* all of them use that one lock, and its count says how many they are:    *)
(* no call is left on a lock that has been replaced, and none is kept for  *)
(* a record nothing touches any more (set.go: "A lock is kept only while   *)
(* held or waited for").                                                   *)
OneLockPerKey ==
  /\ \A c \in Callers, k \in Keys : ref[c][k] # NoLock => table[k] = ref[c][k]
  /\ \A k \in Keys : table[k] # NoLock =>
       /\ Users(k) # {}
       /\ holders[table[k]] = Cardinality(Users(k))

(* When every call is over nothing is locked and the table is empty, which *)
(* is what Idle says and what the tests ask it for.                        *)
NothingLeftLocked == (\A c \in Callers : pc[c] = "idle") => Idle

(* The implemented promise: a call is waiting from By or All being called  *)
(* until it returns, and has its turn until it calls unlock.               *)
InTurn == {"turn", "all"}
Waiting == {"rlock", "key", "lock", "wlock", "drain"}

Promised == INSTANCE Turns WITH
  phase <- [c \in Callers |-> IF pc[c] \in InTurn THEN "turn"
                              ELSE IF pc[c] \in Waiting THEN "waiting" ELSE "idle"],
  named <- [c \in Callers |->
              IF pc[c] \in {"rlock", "key", "lock", "turn"} THEN asked[c] ELSE {}],
  whole <- [c \in Callers |-> pc[c] \in {"wlock", "drain", "all"}]

(* Every behaviour of the lock set is one of taking turns: a call gets all *)
(* it named at once, alone with each key, and All gets everything alone.   *)
ImplementsTurns == Promised!Spec

(* Every By and every All returns, however the calls overlap: keys taken   *)
(* in one order leave no ring of calls waiting on each other, a pending    *)
(* All is not passed for ever by new calls, nor a call by All after All.   *)
EveryCallReturns == \A c \in Callers :
  pc[c] \in Waiting ~> pc[c] \in InTurn

-----------------------------------------------------------------------------
(* What makes it hold: the inductive invariant of LockSetProofs.           *)

(* Where a caller is says what it has named, taken and counted itself on:  *)
(* the keys it has taken, and the one it waits for.                        *)
Position ==
  \A c \in Callers :
    /\ got[c] \subseteq asked[c]
    /\ pc[c] \in {"idle", "rlock", "wlock", "drain", "all"} => got[c] = {}
    /\ pc[c] \in {"idle", "wlock", "drain", "all"} => asked[c] = {}
    /\ pc[c] = "turn" => asked[c] \subseteq got[c]
    /\ \A k \in Keys : ref[c][k] # NoLock <=>
         \/ k \in got[c]
         \/ pc[c] = "lock" /\ IsFirst(k, asked[c] \ got[c])

(* No two keys share an entry. *)
EntriesApart ==
  \A j, k \in Keys : table[j] = table[k] /\ table[k] # NoLock => j = k

(* A caller holds the mutex of every key it has taken, but for the one it  *)
(* has unlocked and not yet been counted off.                              *)
Ownership ==
  \A c \in Callers, k \in Keys :
    k \in got[c] /\ ~(pc[c] = "drop" /\ IsLast(k, got[c])) => owner[ref[c][k]] = c

(* s.all is held for reading from By to the end of unlock, claimed for     *)
(* writing from All on, and held for writing only with no reader in.       *)
Inside ==
  /\ readers = {c \in Callers : pc[c] \in {"key", "lock", "turn", "unlock", "drop"}}
  /\ \A c \in Callers : pc[c] \in {"drain", "all"} <=> writer = c
  /\ \A c \in Callers : pc[c] = "all" => readers = {}

IInv ==
  /\ TypeOK
  /\ OneLockPerKey
  /\ Position
  /\ EntriesApart
  /\ Ownership
  /\ Inside
=============================================================================
