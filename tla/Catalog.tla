-------------------------------- MODULE Catalog --------------------------------
(***************************************************************************)
(* The kept catalogue (src/tools/catalog.go) and the commands that make it *)
(* stale (task_run in server.go, runCommand in common.go, command_cancel   *)
(* in commands.go).  A read of the catalogue holds the cache's mutex from  *)
(* looking at what is kept to keeping what Prowlarr sent; forgetCatalog    *)
(* takes the same mutex.  Prowlarr runs commands in its own time.          *)
(*                                                                         *)
(* A catalogue is the number of the definitions it was built from.         *)
(***************************************************************************)
EXTENDS Naturals

CONSTANTS Readers,     \* calls that read the catalogue: indexer_catalog, audits
          Adders,      \* indexer_add calls: they read it, add, and forget it
          Runners,     \* task_run calls for IndexerDefinitionUpdate
          Cancellers,  \* command_cancel calls
          Commands,    \* function: the runner whose command each cancels
          Nobody,      \* the mutex is free
          MaxDefs      \* bound: how many definitions Prowlarr ever has

(* A call is of one tool, a task_run queues one command, and Prowlarr has  *)
(* the definitions it comes with.                                          *)
ASSUME CallsAssumption ==
  /\ Readers \cap Adders = {}
  /\ Runners \cap (Readers \cup Adders) = {}
  /\ Cancellers \cap (Readers \cup Adders \cup Runners) = {}
  /\ Nobody \notin Readers \cup Adders \cup Runners \cup Cancellers

ASSUME CommandsAssumption == Commands \in [Cancellers -> Runners]

ASSUME DefsAssumption == MaxDefs \in Nat \ {0}

VARIABLES pc,       \* what each call does next
          mu,       \* catalogCache.mu: who holds it
          entries,  \* catalogCache.entries: what is kept, 0 for nil
          old,      \* it was read longer ago than catalogTTL
          sent,     \* the catalogue Prowlarr is sending a call
          late,     \* a runner's wait is over
          answer,   \* what each call has answered
          defs,     \* the definitions Prowlarr has
          cmd,      \* the runners' commands, as Prowlarr has them
          made,     \* history: the definitions each command fetched
          floor,    \* history: the newest definitions told of as fetched
          least     \* history: floor when each call began to read

Calls == Readers \cup Adders \cup Runners \cup Cancellers

cache == <<mu, entries, old>>
prowlarr == <<defs, cmd, made>>
history == <<floor, least>>
vars == <<pc, cache, sent, late, answer, prowlarr, history>>

Statuses == {"none", "queued", "started", "fetched", "completed", "failed", "cancelled"}
Answers == {"none", "read", "error", "completed", "running", "cancelled"}

(* Types, and that the mutex is held by a read under way and no other.     *)
TypeOK ==
  /\ pc \in [Calls -> {"begin", "lock", "look", "read", "keep", "work", "wait",
                       "forget", "cancel", "done"}]
  /\ mu \in Calls \cup {Nobody}
  /\ \A c \in Calls : pc[c] \in {"look", "read", "keep"} <=> mu = c
  /\ entries \in 0..defs
  /\ old \in BOOLEAN
  /\ sent \in [Calls -> 0..MaxDefs]
  /\ late \in [Calls -> BOOLEAN]
  /\ answer \in [Calls -> Answers]
  /\ defs \in 1..MaxDefs
  /\ cmd \in [Runners -> Statuses]
  /\ made \in [Runners -> 0..MaxDefs]
  /\ floor \in 0..defs
  /\ least \in [Calls -> 0..MaxDefs]

Init ==
  /\ pc = [c \in Calls |-> "begin"]
  /\ mu = Nobody
  /\ entries = 0
  /\ old = FALSE
  /\ sent = [c \in Calls |-> 0]
  /\ late = [c \in Calls |-> FALSE]
  /\ answer = [c \in Calls |-> "none"]
  /\ defs = 1
  /\ cmd = [c \in Runners |-> "none"]
  /\ made = [c \in Runners |-> 0]
  /\ floor = 0
  /\ least = [c \in Calls |-> 0]

Goto(c, label) == pc' = [pc EXCEPT ![c] = label]
Answer(c, a) == answer' = [answer EXCEPT ![c] = a]
Later(a, b) == IF a < b THEN b ELSE a

-----------------------------------------------------------------------------
(* catalog() is called, *)
Begin(c) ==
  /\ pc[c] = "begin"
  /\ least' = [least EXCEPT ![c] = floor]
  /\ Goto(c, "lock")
  /\ UNCHANGED <<cache, sent, late, answer, prowlarr, floor>>

(* takes the mutex, *)
Lock(c) ==
  /\ pc[c] = "lock"
  /\ mu = Nobody
  /\ mu' = c
  /\ Goto(c, "look")
  /\ UNCHANGED <<entries, old, sent, late, answer, prowlarr, history>>

(* What a call does with the catalogue it has: a reader answers from it,   *)
(* indexer_add looks its entry up and adds it.                             *)
Have(c, catalogue) ==
  /\ sent' = [sent EXCEPT ![c] = catalogue]
  /\ IF c \in Readers THEN Answer(c, "read") /\ Goto(c, "done")
                      ELSE UNCHANGED answer /\ Goto(c, "work")

(* answers what is kept if it is not too old, *)
Look(c) ==
  /\ pc[c] = "look"
  /\ IF entries # 0 /\ ~old
     THEN Have(c, entries) /\ mu' = Nobody
     ELSE Goto(c, "read") /\ UNCHANGED <<sent, answer, mu>>
  /\ UNCHANGED <<entries, old, late, prowlarr, history>>

(* Bug: the mutex is let go while Prowlarr is asked. *)
ReadUnlocked(c) ==
  /\ pc[c] = "read"
  /\ sent' = [sent EXCEPT ![c] = defs]
  /\ mu' = Nobody
  /\ Goto(c, "keep")
  /\ UNCHANGED <<entries, old, late, answer, prowlarr, history>>

(* or asks Prowlarr, which builds it from the definitions it has then, *)
Read(c) ==
  /\ pc[c] = "read"
  /\ sent' = [sent EXCEPT ![c] = defs]
  /\ Goto(c, "keep")
  /\ UNCHANGED <<cache, late, answer, prowlarr, history>>

(* and keeps what it is sent. *)
KeepRead(c) ==
  /\ pc[c] = "keep"
  /\ entries' = sent[c]
  /\ old' = FALSE
  /\ mu' = Nobody
  /\ Have(c, sent[c])
  /\ UNCHANGED <<late, prowlarr, history>>

(* Bug: the mutex is not let go where the read fails. *)
ReadFailsLocked(c) ==
  /\ pc[c] \in {"read", "keep"}
  /\ Answer(c, "error")
  /\ Goto(c, "done")
  /\ UNCHANGED <<cache, sent, late, prowlarr, history>>

(* The read fails: what was kept stays. *)
ReadFails(c) ==
  /\ pc[c] \in {"read", "keep"}
  /\ Answer(c, "error")
  /\ mu' = Nobody
  /\ Goto(c, "done")
  /\ UNCHANGED <<entries, old, sent, late, prowlarr, history>>

(* catalogTTL has gone by since the kept read. *)
GrowOld ==
  /\ entries # 0
  /\ ~old
  /\ old' = TRUE
  /\ UNCHANGED <<pc, mu, entries, sent, late, answer, prowlarr, history>>

-----------------------------------------------------------------------------
(* indexer_add: Prowlarr takes the indexer or refuses it.  Only a call     *)
(* whose add went through forgets the catalogue.                           *)
Add(c) ==
  /\ pc[c] = "work"
  /\ \/ Goto(c, "forget") /\ UNCHANGED answer
     \/ Goto(c, "done") /\ Answer(c, "error")
  /\ UNCHANGED <<cache, sent, late, prowlarr, history>>

(* task_run: without the list of tasks, or a task of that name, it ends.   *)
NoTask(c) ==
  /\ pc[c] = "begin"
  /\ Answer(c, "error")
  /\ Goto(c, "done")
  /\ UNCHANGED <<cache, sent, late, prowlarr, history>>

(* runCommand queues the command, and waits for it if it is asked to.  An  *)
(* error, at any point of it, leads on to forgetCatalog all the same.      *)
Run(c) ==
  /\ pc[c] = "begin"
  /\ \/ /\ cmd' = [cmd EXCEPT ![c] = "queued"]
        /\ \/ Goto(c, "wait") /\ UNCHANGED answer
           \/ Goto(c, "forget") /\ (Answer(c, "running") \/ Answer(c, "error"))
     \/ UNCHANGED cmd /\ Goto(c, "forget") /\ Answer(c, "error")
  /\ UNCHANGED <<cache, sent, late, defs, made, history>>

Stopped(status) == status \in {"completed", "failed", "cancelled"}

(* WaitForCommand: the command is asked after; stopped, its wait over or   *)
(* the asking failed, it is answered as it stands.                         *)
AskAfter(c) ==
  /\ pc[c] = "wait"
  /\ \/ cmd[c] = "completed" /\ Answer(c, "completed")
     \/ cmd[c] \in {"failed", "cancelled"} /\ Answer(c, "error")
     \/ ~Stopped(cmd[c]) /\ late[c] /\ Answer(c, "running")
  /\ Goto(c, "forget")
  /\ UNCHANGED <<cache, sent, late, prowlarr, history>>

AskFails(c) ==
  /\ pc[c] = "wait"
  /\ Answer(c, "error")
  /\ Goto(c, "forget")
  /\ UNCHANGED <<cache, sent, late, prowlarr, history>>

Late(c) ==
  /\ pc[c] = "wait"
  /\ late' = [late EXCEPT ![c] = TRUE]
  /\ UNCHANGED <<pc, cache, sent, answer, prowlarr, history>>

(* forgetCatalog, and the call answers. *)
Forget(c) ==
  /\ pc[c] = "forget"
  /\ mu = Nobody
  /\ entries' = 0
  /\ Goto(c, "done")
  /\ IF c \in Adders THEN Answer(c, "completed") ELSE UNCHANGED answer
  /\ floor' = IF answer[c] = "completed" THEN Later(floor, made[c]) ELSE floor
  /\ UNCHANGED <<mu, old, sent, late, prowlarr, least>>

-----------------------------------------------------------------------------
(* command_cancel: the command is read, and refused unless it is queued;   *)
CancelLook(c) ==
  /\ pc[c] = "begin"
  /\ \/ cmd[Commands[c]] = "queued" /\ Goto(c, "cancel") /\ UNCHANGED answer
     \/ Goto(c, "done") /\ Answer(c, "error")
  /\ UNCHANGED <<cache, sent, late, prowlarr, history>>

(* Bug: what Prowlarr answers to the delete is not looked at. *)
CancelDeaf(c) ==
  /\ pc[c] = "cancel"
  /\ cmd' = [cmd EXCEPT ![Commands[c]] = IF @ = "queued" THEN "cancelled" ELSE @]
  /\ Answer(c, "cancelled")
  /\ Goto(c, "done")
  /\ UNCHANGED <<cache, sent, late, defs, made, history>>

(* Prowlarr takes it off its queue, or, started meanwhile, refuses. *)
Cancel(c) ==
  /\ pc[c] = "cancel"
  /\ \/ /\ cmd[Commands[c]] = "queued"
        /\ cmd' = [cmd EXCEPT ![Commands[c]] = "cancelled"]
        /\ Answer(c, "cancelled") \/ Answer(c, "error")
     \/ cmd[Commands[c]] # "queued" /\ Answer(c, "error") /\ UNCHANGED cmd
  /\ Goto(c, "done")
  /\ UNCHANGED <<cache, sent, late, defs, made, history>>

-----------------------------------------------------------------------------
(* Prowlarr, for each command: starts it, has its definitions, ends it.    *)
Start(c) ==
  /\ cmd[c] = "queued"
  /\ cmd' = [cmd EXCEPT ![c] = "started"]
  /\ UNCHANGED <<pc, cache, sent, late, answer, defs, made, history>>

Fetch(c) ==
  /\ cmd[c] = "started"
  /\ defs < MaxDefs
  /\ cmd' = [cmd EXCEPT ![c] = "fetched"]
  /\ defs' = defs + 1
  /\ made' = [made EXCEPT ![c] = defs + 1]
  /\ UNCHANGED <<pc, cache, sent, late, answer, history>>

Finish(c) ==
  /\ \/ cmd[c] = "fetched" /\ cmd' = [cmd EXCEPT ![c] = "completed"]
     \/ cmd[c] = "started" /\ cmd' = [cmd EXCEPT ![c] = "failed"]
  /\ UNCHANGED <<pc, cache, sent, late, answer, defs, made, history>>

Over == \A c \in Calls : pc[c] = "done"
TurnOver == Over /\ UNCHANGED vars

Reading(c) == Look(c) \/ Read(c) \/ KeepRead(c)

Next ==
  \/ \E c \in Readers \cup Adders : Begin(c) \/ Lock(c) \/ Reading(c) \/ ReadFails(c)
  \/ \E c \in Adders : Add(c)
  \/ \E c \in Runners : NoTask(c) \/ Run(c) \/ AskAfter(c) \/ AskFails(c) \/ Late(c)
  \/ \E c \in Adders \cup Runners : Forget(c)
  \/ \E c \in Cancellers : CancelLook(c) \/ Cancel(c)
  \/ \E c \in Runners : Start(c) \/ Fetch(c) \/ Finish(c)
  \/ GrowOld
  \/ TurnOver

Spec == Init /\ [][Next]_vars

(* A call that can go on does; the mutex goes to a waiter in the end; time *)
(* passes.  Prowlarr need not run its commands.                            *)
FairSpec ==
  /\ Spec
  /\ \A c \in Readers \cup Adders :
       WF_vars(Begin(c) \/ Reading(c)) /\ SF_vars(Lock(c))
  /\ \A c \in Adders : WF_vars(Add(c)) /\ SF_vars(Forget(c))
  /\ \A c \in Runners :
       WF_vars(Run(c)) /\ WF_vars(AskAfter(c)) /\ WF_vars(Late(c)) /\ SF_vars(Forget(c))
  /\ \A c \in Cancellers : WF_vars(CancelLook(c)) /\ WF_vars(Cancel(c))

-----------------------------------------------------------------------------
(* Once task_run has answered that the definitions were updated, a call    *)
(* that then asks for the catalogue is never given one from before: not    *)
(* the one kept, nor one that was on its way when it was forgotten         *)
(* (server.go: "the catalogue is what it refreshes, so the kept read is    *)
(* stale").                                                                *)
NeverOlder ==
  \A c \in Readers : answer[c] = "read" => sent[c] >= least[c]

(* A command that was said to be cancelled never runs, and the call that   *)
(* waited for it does not say it completed ("Take a command off Prowlarr's *)
(* queue before it starts").                                               *)
CancelledNeverRuns ==
  \A c \in Cancellers : answer[c] = "cancelled" =>
    /\ made[Commands[c]] = 0
    /\ answer[Commands[c]] # "completed"

(* No call is left waiting: not for a command Prowlarr never runs, nor for *)
(* the mutex of a read that failed.                                        *)
EveryCallEnds == <>Over

-----------------------------------------------------------------------------
(* What makes it hold.  What is kept is no older than what has been told   *)
(* of as fetched, nor is what is about to be kept: to forget the kept      *)
(* catalogue takes the mutex, so no read is on its way then.               *)
KeptIsNew ==
  /\ entries # 0 => floor <= entries
  /\ \A c \in Calls : /\ least[c] <= floor
                      /\ sent[c] <= defs
                      /\ pc[c] = "keep" => floor <= sent[c]

(* A command fetched what Prowlarr had then, and only one that ran did;    *)
(* its call queued it once, and says it completed when it had.             *)
RanIsFetched ==
  \A r \in Runners :
    /\ made[r] <= defs
    /\ cmd[r] \notin {"fetched", "completed"} => made[r] = 0
    /\ answer[r] = "completed" => cmd[r] = "completed"
    /\ pc[r] = "begin" => cmd[r] = "none"

(* An answer is the last thing of a read, an add or a cancel that goes     *)
(* well, and a command is cancelled for good.                              *)
AnsweredLast ==
  /\ \A c \in Readers : answer[c] = "read" => pc[c] = "done"
  /\ \A c \in Adders : answer[c] = "completed" => pc[c] = "done"
  /\ \A c \in Cancellers : answer[c] = "cancelled" => cmd[Commands[c]] = "cancelled"

IInv == TypeOK /\ NeverOlder /\ KeptIsNew /\ RanIsFetched /\ AnsweredLast
=============================================================================
