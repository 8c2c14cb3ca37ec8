-------------------------------- MODULE Restart --------------------------------
(***************************************************************************)
(* server_restart (src/tools/commands.go) beside calls that edit: the call *)
(* reads when Prowlarr started, locks everything, tells it to restart, and *)
(* asks again and again until the start time has changed or its wait is    *)
(* over.  Prowlarr answers for a moment after it has been told, goes down, *)
(* and comes back in its own time or not at all.                           *)
(***************************************************************************)
EXTENDS Naturals

CONSTANTS Restarters,  \* calls of server_restart
          Editors,     \* calls that edit, each a record of its own
          MaxStart     \* bound: how many times Prowlarr can have started

ASSUME StartAssumption == MaxStart \in Nat \ {0}

VARIABLES pc,          \* what each call does next
          before,      \* the start time a restarter read first
          toldAt,      \* history: the start it told to restart, or 0
          late,        \* its wait is over
          answer,      \* what it answered
          serving,     \* Prowlarr answers requests
          told,        \* and has been told to restart
          start,       \* which of its starts this is
          phase, named, whole  \* the locks: see Turns

Calls == Restarters \cup Editors

Locks == INSTANCE Turns WITH Callers <- Calls, Keys <- Calls

locks == <<phase, named, whole>>
prowlarr == <<serving, told, start>>
waiting == <<before, toldAt, late, answer>>
vars == <<pc, waiting, prowlarr, locks>>

Answers == {"none", "restarted", "note", "error", "edited"}

(* Types, and that a call does what it does in its turn. *)
TypeOK ==
  /\ pc \in [Calls -> {"status", "lock", "wait", "tell", "poll", "read", "save",
                       "end", "done"}]
  /\ before \in [Restarters -> 0..MaxStart]
  /\ toldAt \in [Restarters -> 0..MaxStart]
  /\ late \in [Restarters -> BOOLEAN]
  /\ answer \in [Calls -> Answers]
  /\ serving \in BOOLEAN
  /\ told \in BOOLEAN
  /\ start \in 1..MaxStart
  /\ Locks!TypeOK
  /\ \A c \in Calls :
       pc[c] \in {"tell", "poll", "read", "save"} => phase[c] = "turn"

Init ==
  /\ pc = [c \in Calls |-> IF c \in Restarters THEN "status" ELSE "lock"]
  /\ before = [c \in Restarters |-> 0]
  /\ toldAt = [c \in Restarters |-> 0]
  /\ late = [c \in Restarters |-> FALSE]
  /\ answer = [c \in Calls |-> "none"]
  /\ serving = TRUE
  /\ told = FALSE
  /\ start = 1
  /\ Locks!Init

Goto(c, label) == pc' = [pc EXCEPT ![c] = label]

(* The call has its answer; what it holds is still to be let go. *)
End(c, a) == Goto(c, "end") /\ answer' = [answer EXCEPT ![c] = a]

-----------------------------------------------------------------------------
(* Bug: no lock is asked for. *)
StatusUnlocked(c) ==
  /\ pc[c] = "status"
  /\ IF serving THEN /\ before' = [before EXCEPT ![c] = start]
                     /\ Goto(c, "tell")
                     /\ UNCHANGED answer
                ELSE End(c, "error") /\ UNCHANGED before
  /\ UNCHANGED <<toldAt, late, prowlarr, locks>>

(* The first GetSystemStatus, before the locks are asked for. *)
Status(c) ==
  /\ pc[c] = "status"
  /\ IF serving THEN /\ before' = [before EXCEPT ![c] = start]
                     /\ Goto(c, "lock")
                     /\ UNCHANGED answer
                ELSE End(c, "error") /\ UNCHANGED before
  /\ UNCHANGED <<toldAt, late, prowlarr, locks>>

(* Bug: a restart locks a key of its own. *)
LocksAllNever(c) == FALSE

LocksAll(c) == c \in Restarters

AskLocks(c) ==
  /\ pc[c] = "lock"
  /\ IF LocksAll(c) THEN Locks!AskAll(c) ELSE Locks!Ask(c, {c})
  /\ Goto(c, "wait")
  /\ UNCHANGED <<waiting, prowlarr>>

Granted(c) ==
  /\ pc[c] = "wait"
  /\ Locks!Grant(c)
  /\ Goto(c, IF c \in Restarters THEN "tell" ELSE "read")
  /\ UNCHANGED <<waiting, prowlarr>>

(* PostSystemRestart.  Its answer may be lost though Prowlarr was told. *)
Tell(c) ==
  /\ pc[c] = "tell"
  /\ IF serving
     THEN /\ told' = TRUE
          /\ toldAt' = [toldAt EXCEPT ![c] = start]
          /\ \/ Goto(c, "poll") /\ UNCHANGED answer
             \/ End(c, "error")
     ELSE End(c, "error") /\ UNCHANGED <<told, toldAt>>
  /\ UNCHANGED <<before, late, serving, start, locks>>

(* Bugs: any answer is taken for the new start's; *)
CameBackAnswers(c) == serving

(* any start is waited for, however long. *)
WaitOverNever(c) == FALSE

(* Prowlarr answers, with another start time than at first. *)
CameBack(c) == serving /\ start # before[c]

(* The deadline has passed. *)
WaitOver(c) == late[c]

(* One round of the loop: given up at the deadline, or Prowlarr is asked.  *)
(* An error, or the same start time as before, means another round.        *)
Poll(c) ==
  /\ pc[c] = "poll"
  /\ \/ WaitOver(c) /\ End(c, "note")
     \/ ~WaitOver(c) /\ CameBack(c) /\ End(c, "restarted")
  /\ UNCHANGED <<before, toldAt, late, prowlarr, locks>>

Late(c) ==
  /\ pc[c] = "poll"
  /\ late' = [late EXCEPT ![c] = TRUE]
  /\ UNCHANGED <<pc, before, toldAt, answer, prowlarr, locks>>

(* The client has called the call off: ctx.Done(). *)
Cancelled(c) ==
  /\ pc[c] = "poll"
  /\ End(c, "error")
  /\ UNCHANGED <<before, toldAt, late, prowlarr, locks>>

-----------------------------------------------------------------------------
(* An edit: the record is read, and sent back with the edit made to it.    *)
(* Either fails while Prowlarr is down.                                    *)
Read(c) ==
  /\ pc[c] = "read"
  /\ IF serving THEN Goto(c, "save") /\ UNCHANGED answer ELSE End(c, "error")
  /\ UNCHANGED <<before, toldAt, late, prowlarr, locks>>

Save(c) ==
  /\ pc[c] = "save"
  /\ End(c, IF serving THEN "edited" ELSE "error")
  /\ UNCHANGED <<before, toldAt, late, prowlarr, locks>>

(* The handler returns and its deferred unlock runs. *)
Return(c) ==
  /\ pc[c] = "end"
  /\ Goto(c, "done")
  /\ IF phase[c] = "turn" THEN Locks!Unlock(c) ELSE UNCHANGED locks
  /\ UNCHANGED <<waiting, prowlarr>>

-----------------------------------------------------------------------------
GoDown ==
  /\ serving
  /\ told
  /\ serving' = FALSE
  /\ told' = FALSE
  /\ UNCHANGED <<pc, waiting, start, locks>>

ComeUp ==
  /\ ~serving
  /\ start < MaxStart
  /\ serving' = TRUE
  /\ start' = start + 1
  /\ UNCHANGED <<pc, waiting, told, locks>>

Over == \A c \in Calls : pc[c] = "done"
TurnOver == Over /\ UNCHANGED vars

Step(c) ==
  \/ AskLocks(c) \/ Return(c)
  \/ c \in Restarters /\ (Status(c) \/ Tell(c) \/ Poll(c))
  \/ c \in Editors /\ (Read(c) \/ Save(c))

Next ==
  \/ \E c \in Calls : Step(c) \/ Granted(c)
  \/ \E c \in Restarters : Late(c) \/ Cancelled(c)
  \/ GoDown
  \/ ComeUp
  \/ TurnOver

Spec == Init /\ [][Next]_vars

(* Requests are answered or fail in the client's own time limit, time      *)
(* passes, and locks that are let go again are got.  Prowlarr owes nothing:*)
(* it may stay up, or down.                                                *)
FairSpec ==
  /\ Spec
  /\ \A c \in Calls : WF_vars(Step(c)) /\ SF_vars(Granted(c))
  /\ \A c \in Restarters : WF_vars(Late(c))

-----------------------------------------------------------------------------
(* A call that says Prowlarr restarted speaks of the restart it asked for: *)
(* the Prowlarr that was told has gone and a later one has come (the       *)
(* answer's field: "Prowlarr went down and is answering again").           *)
RestartedIsTrue ==
  \A c \in Restarters : answer[c] = "restarted" => start > toldAt[c]

(* Prowlarr goes down with no edit half way, as long as the call that told *)
(* it is still waiting for it ("nothing else may be half way through a     *)
(* write when it goes down").                                              *)
NoneCutOff ==
  [][serving /\ ~serving' /\ (\A c \in Restarters : answer[c] = "none") =>
       \A e \in Editors : pc[e] # "save"]_vars

(* A call waits no longer than it was told to, whatever becomes of         *)
(* Prowlarr, and then lets the others go on.                               *)
EveryCallEnds == <>(Over /\ \A c \in Calls : phase[c] = "idle")

-----------------------------------------------------------------------------
(* What makes it hold: the inductive invariants of RestartProofs.          *)

(* Where a restarter is says what it holds of the locks, *)
Position ==
  \A c \in Restarters :
    /\ pc[c] \notin {"read", "save"}
    /\ pc[c] \in {"status", "lock"} => phase[c] = "idle"
    /\ pc[c] = "wait" => phase[c] = "waiting"
    /\ pc[c] \in {"wait", "tell", "poll"} => whole[c]

(* whether it has told Prowlarr to restart, and whether it has answered.   *)
(* Prowlarr restarts only when it was told.                                *)
Tellers ==
  /\ \A c \in Restarters :
       /\ toldAt[c] # 0 => pc[c] \in {"poll", "end", "done"}
       /\ pc[c] \in {"end", "done"} <=> answer[c] # "none"
  /\ told => \E c \in Restarters : toldAt[c] # 0

IInv == TypeOK /\ Locks!OneAtATime /\ Position /\ Tellers

(* A restarter that no other comes before: until it tells Prowlarr, that   *)
(* stays up and is the one whose start it read.                            *)
OnItsOwn ==
  \A c \in Restarters :
    /\ pc[c] \in {"status", "lock", "wait", "tell"} => serving /\ ~told
    /\ pc[c] \in {"lock", "wait", "tell"} => before[c] = start
    /\ before[c] <= start
    /\ toldAt[c] # 0 => toldAt[c] = before[c]
    /\ answer[c] = "restarted" => start > before[c]
=============================================================================
