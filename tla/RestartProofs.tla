----------------------------- MODULE RestartProofs -----------------------------
(***************************************************************************)
(* Proofs about Restart.  IInv holds for any restarts and edits: a call    *)
(* that has told Prowlarr to restart, and waits for it, has everything     *)
(* locked.  OnItsOwn needs that there is one restart in the turn, and is   *)
(* what a true answer rests on: a start time other than the one read first *)
(* is then that of a later start.                                          *)
(***************************************************************************)
EXTENDS TLAPS, Restart

LEMMA InitIInv == Init => IInv
<1> SUFFICES ASSUME Init PROVE IInv
  OBVIOUS
<1> USE StartAssumption DEF Init, Locks!Init
<1>1. TypeOK
  <2>1. Locks!TypeOK
    BY DEF Locks!TypeOK
  <2>2. 0 \in 0..MaxStart /\ 1 \in 1..MaxStart
    OBVIOUS
  <2> QED
    BY <2>1, <2>2 DEF TypeOK, Answers
<1>2. Locks!OneAtATime
  BY DEF Locks!OneAtATime
<1>3. Position /\ Tellers
  BY DEF Position, Tellers, Calls
<1> QED
  BY <1>1, <1>2, <1>3 DEF IInv

-----------------------------------------------------------------------------
(* The steps that ask for, get and let go the locks. *)
LEMMA AskLocksStep ==
  ASSUME IInv, NEW c \in Calls, AskLocks(c)
  PROVE  IInv'
<1>1. /\ pc[c] = "lock"
      /\ pc' = [pc EXCEPT ![c] = "wait"]
      /\ phase[c] = "idle"
      /\ phase' = [phase EXCEPT ![c] = "waiting"]
      /\ named' \in {[named EXCEPT ![c] = {}], [named EXCEPT ![c] = {c}]}
      /\ \/ c \in Restarters /\ whole' = [whole EXCEPT ![c] = TRUE]
         \/ c \notin Restarters /\ whole' = [whole EXCEPT ![c] = FALSE]
      /\ UNCHANGED <<before, toldAt, late, answer, serving, told, start>>
  BY DEF AskLocks, LocksAll, Goto, Locks!Ask, Locks!AskAll, waiting, prowlarr
<1>2. Locks!TypeOK'
  <2>1. \E S \in SUBSET Calls : Locks!Ask(c, S) \/ Locks!AskAll(c)
    BY DEF AskLocks
  <2> QED
    BY <2>1 DEF IInv, TypeOK, Locks!TypeOK, Locks!Ask, Locks!AskAll
<1>3. TypeOK'
  <2>1. \A d \in Calls :
          pc'[d] \in {"tell", "poll", "read", "save"} => phase'[d] = "turn"
    BY <1>1 DEF IInv, TypeOK, Locks!TypeOK
  <2> QED
    BY <1>1, <1>2, <2>1 DEF IInv, TypeOK
<1>4. Locks!OneAtATime'
  BY <1>1 DEF IInv, TypeOK, Locks!TypeOK, Locks!OneAtATime, Locks!Conflict
<1>5. Position' /\ Tellers'
  BY <1>1 DEF IInv, TypeOK, Locks!TypeOK, Position, Tellers, Calls
<1> QED
  BY <1>3, <1>4, <1>5 DEF IInv

LEMMA GrantedStep ==
  ASSUME IInv, NEW c \in Calls, Granted(c)
  PROVE  IInv'
<1>1. /\ pc[c] = "wait"
      /\ pc' = [pc EXCEPT ![c] = IF c \in Restarters THEN "tell" ELSE "read"]
      /\ \A d \in Calls \ {c} : phase[d] = "turn" => ~Locks!Conflict(c, d)
      /\ phase' = [phase EXCEPT ![c] = "turn"]
      /\ UNCHANGED <<before, toldAt, late, answer, serving, told, start, named, whole>>
  BY DEF Granted, Goto, Locks!Grant, waiting, prowlarr
<1>2. TypeOK'
  BY <1>1 DEF IInv, TypeOK, Locks!TypeOK
<1>3. Locks!OneAtATime'
  BY <1>1 DEF IInv, TypeOK, Locks!TypeOK, Locks!OneAtATime, Locks!Conflict
<1>4. Position' /\ Tellers'
  BY <1>1 DEF IInv, TypeOK, Locks!TypeOK, Position, Tellers, Calls
<1> QED
  BY <1>2, <1>3, <1>4 DEF IInv

LEMMA ReturnStep ==
  ASSUME IInv, NEW c \in Calls, Return(c)
  PROVE  IInv'
<1>1. /\ pc[c] = "end"
      /\ pc' = [pc EXCEPT ![c] = "done"]
      /\ UNCHANGED <<before, toldAt, late, answer, serving, told, start>>
  BY DEF Return, Goto, waiting, prowlarr
<1>2. \/ UNCHANGED <<phase, named, whole>>
      \/ /\ phase[c] = "turn"
         /\ phase' = [phase EXCEPT ![c] = "idle"]
         /\ named' = [named EXCEPT ![c] = {}]
         /\ whole' = [whole EXCEPT ![c] = FALSE]
  BY DEF Return, Locks!Unlock, locks
<1>3. TypeOK'
  BY <1>1, <1>2 DEF IInv, TypeOK, Locks!TypeOK
<1>4. Locks!OneAtATime'
  BY <1>1, <1>2 DEF IInv, TypeOK, Locks!TypeOK, Locks!OneAtATime, Locks!Conflict
<1>5. Position' /\ Tellers'
  BY <1>1, <1>2 DEF IInv, TypeOK, Locks!TypeOK, Position, Tellers, Calls
<1> QED
  BY <1>3, <1>4, <1>5 DEF IInv

(* No other step changes a lock. *)
LEMMA LocksKept ==
  ASSUME IInv, UNCHANGED locks
  PROVE  Locks!OneAtATime'
BY DEF IInv, locks, Locks!OneAtATime, Locks!Conflict

-----------------------------------------------------------------------------
(* A restarter's own steps. *)
LEMMA StatusStep ==
  ASSUME IInv, NEW c \in Restarters, Status(c)
  PROVE  IInv'
<1>1. /\ pc[c] = "status"
      /\ \/ /\ before' = [before EXCEPT ![c] = start]
            /\ pc' = [pc EXCEPT ![c] = "lock"]
            /\ answer' = answer
         \/ /\ pc' = [pc EXCEPT ![c] = "end"]
            /\ answer' = [answer EXCEPT ![c] = "error"]
            /\ before' = before
      /\ UNCHANGED <<toldAt, late, serving, told, start, phase, named, whole>>
  BY DEF Status, Goto, End, prowlarr, locks
<1>2. TypeOK'
  BY <1>1, StartAssumption DEF IInv, TypeOK, Locks!TypeOK, Answers, Calls
<1>3. Position' /\ Tellers'
  BY <1>1 DEF IInv, TypeOK, Position, Tellers, Calls
<1> QED
  BY <1>1, <1>2, <1>3, LocksKept DEF IInv, locks

LEMMA TellStep ==
  ASSUME IInv, NEW c \in Restarters, Tell(c)
  PROVE  IInv'
<1>1. /\ pc[c] = "tell"
      /\ \/ /\ pc' = [pc EXCEPT ![c] = "poll"]
            /\ answer' = answer
         \/ /\ pc' = [pc EXCEPT ![c] = "end"]
            /\ answer' = [answer EXCEPT ![c] = "error"]
      /\ \/ told' = TRUE /\ toldAt' = [toldAt EXCEPT ![c] = start]
         \/ pc'[c] = "end" /\ UNCHANGED <<told, toldAt>>
      /\ UNCHANGED <<before, late, serving, start, phase, named, whole>>
  BY DEF Tell, Goto, End, locks, IInv, TypeOK, Calls
<1>2. TypeOK'
  <2>1. told' \in BOOLEAN
    BY <1>1, Zenon DEF IInv, TypeOK
  <2>3. toldAt' \in [Restarters -> 0..MaxStart]
    BY <1>1, StartAssumption DEF IInv, TypeOK
  <2>2. pc' \in [Calls -> {"status", "lock", "wait", "tell", "poll", "read", "save",
                          "end", "done"}]
    BY <1>1 DEF IInv, TypeOK
  <2> QED
    BY <1>1, <2>1, <2>2, <2>3 DEF IInv, TypeOK, Locks!TypeOK, Answers, Calls
<1>3. start # 0
  BY DEF IInv, TypeOK
<1>4. Position' /\ Tellers'
  BY <1>1, <1>3 DEF IInv, TypeOK, Position, Tellers, Calls
<1> QED
  BY <1>1, <1>2, <1>4, LocksKept DEF IInv, locks

LEMMA PollStep ==
  ASSUME IInv, NEW c \in Restarters, Poll(c) \/ Cancelled(c)
  PROVE  IInv'
<1>1. /\ pc[c] = "poll"
      /\ pc' = [pc EXCEPT ![c] = "end"]
      /\ \E a \in {"note", "restarted", "error"} : answer' = [answer EXCEPT ![c] = a]
      /\ UNCHANGED <<before, toldAt, late, serving, told, start, phase, named, whole>>
  BY DEF Poll, Cancelled, Goto, End, prowlarr, locks
<1>2. TypeOK'
  BY <1>1 DEF IInv, TypeOK, Locks!TypeOK, Answers, Calls
<1>3. Position' /\ Tellers'
  BY <1>1 DEF IInv, TypeOK, Position, Tellers, Calls
<1> QED
  BY <1>1, <1>2, <1>3, LocksKept DEF IInv, locks

(* An edit, and the calls' clock, decide nothing about a restart. *)
LEMMA EditStep ==
  ASSUME IInv, NEW c \in Editors \ Restarters, Read(c) \/ Save(c)
  PROVE  IInv'
<1>1. /\ pc[c] \in {"read", "save"}
      /\ \/ pc[c] = "read" /\ pc' = [pc EXCEPT ![c] = "save"] /\ answer' = answer
         \/ /\ pc' = [pc EXCEPT ![c] = "end"]
            /\ \E a \in {"edited", "error"} : answer' = [answer EXCEPT ![c] = a]
      /\ UNCHANGED <<before, toldAt, late, serving, told, start, phase, named, whole>>
  BY DEF Read, Save, Goto, End, prowlarr, locks
<1>2. TypeOK'
  BY <1>1 DEF IInv, TypeOK, Locks!TypeOK, Answers, Calls
<1>3. Position' /\ Tellers'
  BY <1>1 DEF IInv, TypeOK, Position, Tellers, Calls
<1> QED
  BY <1>1, <1>2, <1>3, LocksKept DEF IInv, locks

LEMMA LateStep ==
  ASSUME IInv, NEW c \in Restarters, Late(c)
  PROVE  IInv'
<1>1. /\ late' = [late EXCEPT ![c] = TRUE]
      /\ UNCHANGED <<pc, before, toldAt, answer, serving, told, start, phase, named, whole>>
  BY DEF Late, prowlarr, locks
<1> QED
  BY <1>1, LocksKept DEF IInv, TypeOK, Locks!TypeOK, Position, Tellers, locks

(* Prowlarr goes down and comes up. *)
LEMMA ProwlarrStep ==
  ASSUME IInv, GoDown \/ ComeUp
  PROVE  IInv'
<1>1. UNCHANGED <<pc, before, toldAt, late, answer, phase, named, whole>>
  BY DEF GoDown, ComeUp, waiting, locks
<1>2. serving' \in BOOLEAN /\ told' \in BOOLEAN
  BY Zenon DEF GoDown, ComeUp, IInv, TypeOK
<1>3. start' \in 1..MaxStart
  BY StartAssumption DEF GoDown, ComeUp, IInv, TypeOK
<1>4. told' => told
  BY DEF GoDown, ComeUp
<1>5. TypeOK'
  BY <1>1, <1>2, <1>3 DEF IInv, TypeOK, Locks!TypeOK
<1>6. Position' /\ Tellers'
  BY <1>1, <1>4 DEF IInv, Position, Tellers
<1> QED
  BY <1>1, <1>5, <1>6, LocksKept DEF IInv, locks

LEMMA NextIInv == IInv /\ [Next]_vars => IInv'
<1> SUFFICES ASSUME IInv, [Next]_vars PROVE IInv'
  OBVIOUS
<1>1. ASSUME NEW c \in Editors, Read(c) \/ Save(c)
      PROVE  IInv'
  <2>1. c \notin Restarters
    BY <1>1 DEF Read, Save, IInv, TypeOK, Position, Calls
  <2> QED
    BY <1>1, <2>1, EditStep
<1>2. ASSUME NEW c \in Calls, Step(c) \/ Granted(c)
      PROVE  IInv'
  BY <1>1, <1>2, AskLocksStep, GrantedStep, ReturnStep, StatusStep, TellStep, PollStep
  DEF Step
<1>3. CASE UNCHANGED vars
  BY <1>3, LocksKept
  DEF vars, waiting, prowlarr, locks, IInv, TypeOK, Locks!TypeOK, Position, Tellers
<1> QED
  BY <1>2, <1>3, LateStep, PollStep, ProwlarrStep DEF Next, TurnOver

-----------------------------------------------------------------------------
(* A turn with one restart: nobody else tells Prowlarr to restart, so it   *)
(* is where it was when its start was read until it is told.               *)
OneRestart == \A c, d \in Restarters : c = d

LEMMA OnItsOwnInit == Init => OnItsOwn
<1> SUFFICES ASSUME Init PROVE OnItsOwn
  OBVIOUS
<1>1. serving /\ ~told
  BY DEF Init
<1>2. \A c \in Restarters :
        /\ pc[c] \notin {"lock", "wait", "tell"}
        /\ toldAt[c] = 0 /\ answer[c] # "restarted"
  BY DEF Init, Calls
<1>3. \A c \in Restarters : before[c] <= start
  BY DEF Init
<1> QED
  BY <1>1, <1>2, <1>3 DEF OnItsOwn

(* The one restarter's own steps. *)
LEMMA OnItsOwnStep ==
  ASSUME OneRestart, IInv, OnItsOwn, NEW c \in Restarters,
         Status(c) \/ Tell(c) \/ Poll(c) \/ Cancelled(c) \/ Late(c)
  PROVE  OnItsOwn'
<1> USE DEF IInv, TypeOK, OnItsOwn, Goto, End, Calls
<1>1. \A d \in Restarters : d = c
  BY DEF OneRestart
<1>2. before[c] \in 0..MaxStart /\ start \in 1..MaxStart
  OBVIOUS
<1>3. CASE Status(c)
  BY <1>1, <1>2, <1>3 DEF Status, Tellers, prowlarr
<1>4. CASE Tell(c)
  BY <1>1, <1>2, <1>4 DEF Tell, Tellers
<1>5. CASE Poll(c)
  <2>1. answer'[c] = "restarted" => start # before[c] \/ answer[c] = "restarted"
    BY <1>5 DEF Poll, CameBack
  <2>2. /\ pc[c] = "poll" /\ pc'[c] = "end"
        /\ UNCHANGED <<before, toldAt, serving, told, start>>
    BY <1>5 DEF Poll, prowlarr
  <2> QED
    BY <1>1, <1>2, <2>1, <2>2
<1>6. CASE Cancelled(c)
  BY <1>1, <1>2, <1>6 DEF Cancelled, prowlarr
<1>7. CASE Late(c)
  BY <1>7 DEF Late, prowlarr
<1> QED
  BY <1>3, <1>4, <1>5, <1>6, <1>7

LEMMA OnItsOwnNext == OneRestart /\ IInv /\ OnItsOwn /\ [Next]_vars => OnItsOwn'
<1> SUFFICES ASSUME OneRestart, IInv, OnItsOwn, [Next]_vars PROVE OnItsOwn'
  OBVIOUS
<1> USE DEF OnItsOwn
<1>1. ASSUME NEW c \in Calls, AskLocks(c) \/ Granted(c) \/ Return(c)
      PROVE  OnItsOwn'
  <2>1. /\ UNCHANGED <<before, toldAt, answer, serving, told, start>>
        /\ \E label \in {"wait", "tell", "read", "done"} : pc' = [pc EXCEPT ![c] = label]
        /\ pc'[c] \in {"wait", "tell"} => pc[c] \in {"lock", "wait"}
    BY <1>1 DEF AskLocks, Granted, Return, Goto, waiting, prowlarr, IInv, TypeOK
  <2> QED
    BY <2>1 DEF IInv, TypeOK, Calls
<1>2. ASSUME NEW c \in Editors, Read(c) \/ Save(c)
      PROVE  OnItsOwn'
  <2>1. c \notin Restarters /\ c \in Calls
    BY <1>2 DEF Read, Save, IInv, TypeOK, Position, Calls
  <2>2. UNCHANGED <<before, toldAt, serving, told, start>>
    BY <1>2 DEF Read, Save, prowlarr
  <2>3. \A d \in Restarters : pc'[d] = pc[d] /\ answer'[d] = answer[d]
    BY <1>2, <2>1 DEF Read, Save, Goto, End, IInv, TypeOK, Calls
  <2> QED
    BY <2>2, <2>3
<1>3. CASE GoDown
  BY <1>3 DEF GoDown, waiting
<1>4. CASE ComeUp
  BY <1>4 DEF ComeUp, waiting, IInv, TypeOK
<1>5. CASE UNCHANGED vars
  BY <1>5 DEF vars, waiting, prowlarr
<1> QED
  BY <1>1, <1>2, <1>3, <1>4, <1>5, OnItsOwnStep DEF Next, Step, TurnOver

-----------------------------------------------------------------------------
THEOREM Inductive == Spec => []IInv
BY InitIInv, NextIInv, PTL DEF Spec

(* Types, and that calls write only in their turn (server_restart, editing).*)
THEOREM TypeCorrect == Spec => []TypeOK
<1>1. IInv => TypeOK
  BY DEF IInv
<1> QED
  BY Inductive, <1>1, PTL

(* Prowlarr never goes down under an edit that is half way, while the call *)
(* that told it to is still waiting: however many calls restart it and     *)
(* edit (server_restart: "nothing else may be half way through a write     *)
(* when it goes down").                                                    *)
THEOREM NoEditCutOff == Spec => NoneCutOff
<1>1. IInv /\ [Next]_vars =>
        [serving /\ ~serving' /\ (\A c \in Restarters : answer[c] = "none") =>
           \A e \in Editors : pc[e] # "save"]_vars
  <2> SUFFICES ASSUME IInv, Next, serving, ~serving',
                      \A c \in Restarters : answer[c] = "none",
                      NEW e \in Editors, pc[e] = "save"
               PROVE  FALSE
    OBVIOUS
  <2>1. told
    BY DEF Next, Step, AskLocks, Granted, Return, Status, Tell, Poll, Late, Cancelled,
           Read, Save, GoDown, ComeUp, TurnOver, vars, prowlarr
  <2>2. PICK c \in Restarters : pc[c] = "poll"
    BY <2>1 DEF IInv, Tellers
  <2>3. phase[c] = "turn" /\ whole[c] /\ phase[e] = "turn" /\ c # e
    BY <2>2 DEF IInv, TypeOK, Position, Calls
  <2> QED
    BY <2>3 DEF IInv, Locks!OneAtATime, Locks!Conflict, Calls
<1> QED
  BY Inductive, <1>1, PTL DEF Spec, NoneCutOff

(* With one restart in the turn, a call that answers that Prowlarr has     *)
(* restarted speaks of a later start than the one it told to (Poll, whose  *)
(* other start time may otherwise be of another call's restart: the run    *)
(* restart_twice).                                                         *)
THEOREM OneRestartIsTrue ==
  ASSUME OneRestart
  PROVE  Spec => []RestartedIsTrue
<1>1. Init => OnItsOwn
  BY OnItsOwnInit
<1>2. IInv /\ OnItsOwn /\ [Next]_vars => OnItsOwn'
  BY OnItsOwnNext
<1>3. IInv /\ OnItsOwn => RestartedIsTrue
  BY DEF IInv, TypeOK, OnItsOwn, RestartedIsTrue
<1> QED
  BY Inductive, <1>1, <1>2, <1>3, PTL DEF Spec
=============================================================================
