----------------------------- MODULE CatalogProofs -----------------------------
(***************************************************************************)
(* Proofs about Catalog, for any calls.  IInv is inductive: the mutex is   *)
(* held from looking at the kept catalogue to keeping a new one, so no     *)
(* read that began before a command's answer can be kept after it.         *)
(***************************************************************************)
EXTENDS TLAPS, Catalog

LEMMA InitIInv == Init => IInv
<1> SUFFICES ASSUME Init PROVE IInv
  OBVIOUS
<1> USE CallsAssumption, CommandsAssumption, DefsAssumption DEF Init, Calls
<1>1. TypeOK
  <2>1. /\ late \in [Calls -> BOOLEAN] /\ old \in BOOLEAN
        /\ answer \in [Calls -> Answers] /\ cmd \in [Runners -> Statuses]
    BY Zenon DEF Answers, Statuses
  <2>2. \A c \in Calls : pc[c] \in {"look", "read", "keep"} <=> mu = c
    OBVIOUS
  <2>3. /\ sent \in [Calls -> 0..MaxDefs] /\ least \in [Calls -> 0..MaxDefs]
        /\ made \in [Runners -> 0..MaxDefs] /\ defs \in 1..MaxDefs
        /\ entries \in 0..defs /\ floor \in 0..defs
    OBVIOUS
  <2> QED
    BY <2>1, <2>2, <2>3 DEF TypeOK
<1>2. NeverOlder /\ KeptIsNew
  BY DEF NeverOlder, KeptIsNew
<1>3. RanIsFetched
  BY DEF RanIsFetched
<1>4. AnsweredLast
  BY DEF AnsweredLast
<1> QED
  BY <1>1, <1>2, <1>3, <1>4 DEF IInv

LEMMA BeginStep ==
  ASSUME IInv, NEW c \in Readers \cup Adders, Begin(c)
  PROVE  IInv'
<1> USE CallsAssumption, CommandsAssumption, DefsAssumption
    DEF IInv, Calls, Begin, Goto, Answer, cache, prowlarr, history, Have, Later, Stopped
<1>1. TypeOK'
  BY DEF TypeOK, Answers, Statuses, KeptIsNew, RanIsFetched
<1>2. NeverOlder'
  BY DEF TypeOK, NeverOlder, KeptIsNew, AnsweredLast
<1>3. KeptIsNew'
  BY DEF TypeOK, KeptIsNew, RanIsFetched
<1>4. RanIsFetched'
  BY DEF TypeOK, RanIsFetched
<1>5. AnsweredLast'
  BY DEF TypeOK, AnsweredLast
<1> QED
  BY <1>1, <1>2, <1>3, <1>4, <1>5

LEMMA LockStep ==
  ASSUME IInv, NEW c \in Readers \cup Adders, Lock(c)
  PROVE  IInv'
<1> USE CallsAssumption, CommandsAssumption, DefsAssumption
    DEF IInv, Calls, Lock, Goto, Answer, cache, prowlarr, history, Have, Later, Stopped
<1>1. TypeOK'
  BY DEF TypeOK, Answers, Statuses, KeptIsNew, RanIsFetched
<1>2. NeverOlder'
  BY DEF TypeOK, NeverOlder, KeptIsNew, AnsweredLast
<1>3. KeptIsNew'
  BY DEF TypeOK, KeptIsNew, RanIsFetched
<1>4. RanIsFetched'
  BY DEF TypeOK, RanIsFetched
<1>5. AnsweredLast'
  BY DEF TypeOK, AnsweredLast
<1> QED
  BY <1>1, <1>2, <1>3, <1>4, <1>5

LEMMA LookStep ==
  ASSUME IInv, NEW c \in Readers \cup Adders, Look(c)
  PROVE  IInv'
<1> USE CallsAssumption, CommandsAssumption, DefsAssumption
    DEF IInv, Calls, Look, Goto, Answer, cache, prowlarr, history, Have, Later, Stopped
<1>1. TypeOK'
  BY DEF TypeOK, Answers, Statuses, KeptIsNew, RanIsFetched
<1>2. NeverOlder'
  BY DEF TypeOK, NeverOlder, KeptIsNew, AnsweredLast
<1>3. KeptIsNew'
  BY DEF TypeOK, KeptIsNew, RanIsFetched
<1>4. RanIsFetched'
  BY DEF TypeOK, RanIsFetched
<1>5. AnsweredLast'
  BY DEF TypeOK, AnsweredLast
<1> QED
  BY <1>1, <1>2, <1>3, <1>4, <1>5

LEMMA ReadStep ==
  ASSUME IInv, NEW c \in Readers \cup Adders, Read(c)
  PROVE  IInv'
<1> USE CallsAssumption, CommandsAssumption, DefsAssumption
    DEF IInv, Calls, Read, Goto, Answer, cache, prowlarr, history, Have, Later, Stopped
<1>1. TypeOK'
  BY DEF TypeOK, Answers, Statuses, KeptIsNew, RanIsFetched
<1>2. NeverOlder'
  BY DEF TypeOK, NeverOlder, KeptIsNew, AnsweredLast
<1>3. KeptIsNew'
  BY DEF TypeOK, KeptIsNew, RanIsFetched
<1>4. RanIsFetched'
  BY DEF TypeOK, RanIsFetched
<1>5. AnsweredLast'
  BY DEF TypeOK, AnsweredLast
<1> QED
  BY <1>1, <1>2, <1>3, <1>4, <1>5

LEMMA KeepReadStep ==
  ASSUME IInv, NEW c \in Readers \cup Adders, KeepRead(c)
  PROVE  IInv'
<1> USE CallsAssumption, CommandsAssumption, DefsAssumption
    DEF IInv, Calls, KeepRead, Goto, Answer, cache, prowlarr, history, Have, Later, Stopped
<1>1. TypeOK'
  <2>1. late' \in [Calls -> BOOLEAN] /\ old' \in BOOLEAN
    BY Zenon DEF TypeOK
  <2>2. answer' \in [Calls -> Answers] /\ cmd' \in [Runners -> Statuses]
    BY DEF TypeOK, Answers, Statuses
  <2>3. /\ pc' \in [Calls -> {"begin", "lock", "look", "read", "keep", "work", "wait",
                             "forget", "cancel", "done"}]
        /\ mu' \in Calls \cup {Nobody}
        /\ \A d \in Calls : pc'[d] \in {"look", "read", "keep"} <=> mu' = d
    BY DEF TypeOK
  <2>4. /\ sent' \in [Calls -> 0..MaxDefs] /\ least' \in [Calls -> 0..MaxDefs]
        /\ made' \in [Runners -> 0..MaxDefs] /\ defs' \in 1..MaxDefs
    BY DEF TypeOK
  <2>5. entries' \in 0..defs' /\ floor' \in 0..defs'
    BY DEF TypeOK, KeptIsNew, RanIsFetched, AnsweredLast
  <2> QED
    BY <2>1, <2>2, <2>3, <2>4, <2>5 DEF TypeOK
<1>2. NeverOlder'
  BY DEF TypeOK, NeverOlder, KeptIsNew, AnsweredLast
<1>3. KeptIsNew'
  BY DEF TypeOK, KeptIsNew, RanIsFetched
<1>4. RanIsFetched'
  BY DEF TypeOK, RanIsFetched
<1>5. AnsweredLast'
  BY DEF TypeOK, AnsweredLast
<1> QED
  BY <1>1, <1>2, <1>3, <1>4, <1>5

LEMMA ReadFailsStep ==
  ASSUME IInv, NEW c \in Readers \cup Adders, ReadFails(c)
  PROVE  IInv'
<1> USE CallsAssumption, CommandsAssumption, DefsAssumption
    DEF IInv, Calls, ReadFails, Goto, Answer, cache, prowlarr, history, Have, Later, Stopped
<1>1. TypeOK'
  BY DEF TypeOK, Answers, Statuses, KeptIsNew, RanIsFetched
<1>2. NeverOlder'
  BY DEF TypeOK, NeverOlder, KeptIsNew, AnsweredLast
<1>3. KeptIsNew'
  BY DEF TypeOK, KeptIsNew, RanIsFetched
<1>4. RanIsFetched'
  BY DEF TypeOK, RanIsFetched
<1>5. AnsweredLast'
  BY DEF TypeOK, AnsweredLast
<1> QED
  BY <1>1, <1>2, <1>3, <1>4, <1>5

LEMMA AddStep ==
  ASSUME IInv, NEW c \in Adders, Add(c)
  PROVE  IInv'
<1> USE CallsAssumption, CommandsAssumption, DefsAssumption
    DEF IInv, Calls, Add, Goto, Answer, cache, prowlarr, history, Have, Later, Stopped
<1>1. TypeOK'
  BY DEF TypeOK, Answers, Statuses, KeptIsNew, RanIsFetched
<1>2. NeverOlder'
  BY DEF TypeOK, NeverOlder, KeptIsNew, AnsweredLast
<1>3. KeptIsNew'
  BY DEF TypeOK, KeptIsNew, RanIsFetched
<1>4. RanIsFetched'
  BY DEF TypeOK, RanIsFetched
<1>5. AnsweredLast'
  BY DEF TypeOK, AnsweredLast
<1> QED
  BY <1>1, <1>2, <1>3, <1>4, <1>5

LEMMA NoTaskStep ==
  ASSUME IInv, NEW c \in Runners, NoTask(c)
  PROVE  IInv'
<1> USE CallsAssumption, CommandsAssumption, DefsAssumption
    DEF IInv, Calls, NoTask, Goto, Answer, cache, prowlarr, history, Have, Later, Stopped
<1>1. TypeOK'
  BY DEF TypeOK, Answers, Statuses, KeptIsNew, RanIsFetched
<1>2. NeverOlder'
  BY DEF TypeOK, NeverOlder, KeptIsNew, AnsweredLast
<1>3. KeptIsNew'
  BY DEF TypeOK, KeptIsNew, RanIsFetched
<1>4. RanIsFetched'
  BY DEF TypeOK, RanIsFetched
<1>5. AnsweredLast'
  BY DEF TypeOK, AnsweredLast
<1> QED
  BY <1>1, <1>2, <1>3, <1>4, <1>5

LEMMA RunStep ==
  ASSUME IInv, NEW c \in Runners, Run(c)
  PROVE  IInv'
<1> USE CallsAssumption, CommandsAssumption, DefsAssumption
    DEF IInv, Calls, Run, Goto, Answer, cache, prowlarr, history, Have, Later, Stopped
<1>1. TypeOK'
  <2>1. late' \in [Calls -> BOOLEAN] /\ old' \in BOOLEAN
    BY Zenon DEF TypeOK
  <2>2. answer' \in [Calls -> Answers] /\ cmd' \in [Runners -> Statuses]
    BY DEF TypeOK, Answers, Statuses
  <2>3. /\ pc' \in [Calls -> {"begin", "lock", "look", "read", "keep", "work", "wait",
                             "forget", "cancel", "done"}]
        /\ mu' \in Calls \cup {Nobody}
        /\ \A d \in Calls : pc'[d] \in {"look", "read", "keep"} <=> mu' = d
    BY DEF TypeOK
  <2>4. /\ sent' \in [Calls -> 0..MaxDefs] /\ least' \in [Calls -> 0..MaxDefs]
        /\ made' \in [Runners -> 0..MaxDefs] /\ defs' \in 1..MaxDefs
    BY DEF TypeOK
  <2>5. entries' \in 0..defs' /\ floor' \in 0..defs'
    BY DEF TypeOK, KeptIsNew, RanIsFetched, AnsweredLast
  <2> QED
    BY <2>1, <2>2, <2>3, <2>4, <2>5 DEF TypeOK
<1>2. NeverOlder'
  BY DEF TypeOK, NeverOlder, KeptIsNew, AnsweredLast
<1>3. KeptIsNew'
  BY DEF TypeOK, KeptIsNew, RanIsFetched
<1>4. RanIsFetched'
  <2>1. cmd[c] = "none" /\ answer[c] # "completed" /\ made[c] = 0
    BY DEF TypeOK, RanIsFetched
  <2>2. pc' \in {[pc EXCEPT ![c] = "wait"], [pc EXCEPT ![c] = "forget"]}
    OBVIOUS
  <2>3. UNCHANGED <<made, defs>>
    OBVIOUS
  <2>4. answer' \in {answer, [answer EXCEPT ![c] = "running"], [answer EXCEPT ![c] = "error"]}
    OBVIOUS
  <2>5. cmd' \in {cmd, [cmd EXCEPT ![c] = "queued"]}
    OBVIOUS
  <2> HIDE DEF Run
  <2> QED
    BY <2>1, <2>2, <2>3, <2>4, <2>5 DEF TypeOK, RanIsFetched
<1>5. AnsweredLast'
  BY DEF TypeOK, AnsweredLast, RanIsFetched
<1> QED
  BY <1>1, <1>2, <1>3, <1>4, <1>5

LEMMA AskAfterStep ==
  ASSUME IInv, NEW c \in Runners, AskAfter(c)
  PROVE  IInv'
<1> USE CallsAssumption, CommandsAssumption, DefsAssumption
    DEF IInv, Calls, AskAfter, Goto, Answer, cache, prowlarr, history, Have, Later, Stopped
<1>1. TypeOK'
  BY DEF TypeOK, Answers, Statuses, KeptIsNew, RanIsFetched
<1>2. NeverOlder'
  BY DEF TypeOK, NeverOlder, KeptIsNew, AnsweredLast
<1>3. KeptIsNew'
  BY DEF TypeOK, KeptIsNew, RanIsFetched
<1>4. RanIsFetched'
  BY DEF TypeOK, RanIsFetched
<1>5. AnsweredLast'
  BY DEF TypeOK, AnsweredLast
<1> QED
  BY <1>1, <1>2, <1>3, <1>4, <1>5

LEMMA AskFailsStep ==
  ASSUME IInv, NEW c \in Runners, AskFails(c)
  PROVE  IInv'
<1> USE CallsAssumption, CommandsAssumption, DefsAssumption
    DEF IInv, Calls, AskFails, Goto, Answer, cache, prowlarr, history, Have, Later, Stopped
<1>1. TypeOK'
  BY DEF TypeOK, Answers, Statuses, KeptIsNew, RanIsFetched
<1>2. NeverOlder'
  BY DEF TypeOK, NeverOlder, KeptIsNew, AnsweredLast
<1>3. KeptIsNew'
  BY DEF TypeOK, KeptIsNew, RanIsFetched
<1>4. RanIsFetched'
  BY DEF TypeOK, RanIsFetched
<1>5. AnsweredLast'
  BY DEF TypeOK, AnsweredLast
<1> QED
  BY <1>1, <1>2, <1>3, <1>4, <1>5

LEMMA LateStep ==
  ASSUME IInv, NEW c \in Runners, Late(c)
  PROVE  IInv'
<1> USE CallsAssumption, CommandsAssumption, DefsAssumption
    DEF IInv, Calls, Late, Goto, Answer, cache, prowlarr, history, Have, Later, Stopped
<1>1. TypeOK'
  BY DEF TypeOK, Answers, Statuses, KeptIsNew, RanIsFetched
<1>2. NeverOlder'
  BY DEF TypeOK, NeverOlder, KeptIsNew, AnsweredLast
<1>3. KeptIsNew'
  BY DEF TypeOK, KeptIsNew, RanIsFetched
<1>4. RanIsFetched'
  BY DEF TypeOK, RanIsFetched
<1>5. AnsweredLast'
  BY DEF TypeOK, AnsweredLast
<1> QED
  BY <1>1, <1>2, <1>3, <1>4, <1>5

LEMMA ForgetStep ==
  ASSUME IInv, NEW c \in Adders \cup Runners, Forget(c)
  PROVE  IInv'
<1> USE CallsAssumption, CommandsAssumption, DefsAssumption
    DEF IInv, Calls, Forget, Goto, Answer, cache, prowlarr, history, Have, Later, Stopped
<1>1. TypeOK'
  <2>1. late' \in [Calls -> BOOLEAN] /\ old' \in BOOLEAN
    BY Zenon DEF TypeOK
  <2>2. answer' \in [Calls -> Answers] /\ cmd' \in [Runners -> Statuses]
    BY DEF TypeOK, Answers, Statuses
  <2>3. /\ pc' \in [Calls -> {"begin", "lock", "look", "read", "keep", "work", "wait",
                             "forget", "cancel", "done"}]
        /\ mu' \in Calls \cup {Nobody}
        /\ \A d \in Calls : pc'[d] \in {"look", "read", "keep"} <=> mu' = d
    BY DEF TypeOK
  <2>4. /\ sent' \in [Calls -> 0..MaxDefs] /\ least' \in [Calls -> 0..MaxDefs]
        /\ made' \in [Runners -> 0..MaxDefs] /\ defs' \in 1..MaxDefs
    BY DEF TypeOK
  <2>5. entries' \in 0..defs' /\ floor' \in 0..defs'
    BY DEF TypeOK, KeptIsNew, RanIsFetched, AnsweredLast
  <2> QED
    BY <2>1, <2>2, <2>3, <2>4, <2>5 DEF TypeOK
<1>2. NeverOlder'
  BY DEF TypeOK, NeverOlder, KeptIsNew, AnsweredLast
<1>3. KeptIsNew'
  BY DEF TypeOK, KeptIsNew, RanIsFetched
<1>4. RanIsFetched'
  BY DEF TypeOK, RanIsFetched
<1>5. AnsweredLast'
  BY DEF TypeOK, AnsweredLast
<1> QED
  BY <1>1, <1>2, <1>3, <1>4, <1>5

LEMMA CancelLookStep ==
  ASSUME IInv, NEW c \in Cancellers, CancelLook(c)
  PROVE  IInv'
<1> USE CallsAssumption, CommandsAssumption, DefsAssumption
    DEF IInv, Calls, CancelLook, Goto, Answer, cache, prowlarr, history, Have, Later, Stopped
<1>1. TypeOK'
  BY DEF TypeOK, Answers, Statuses, KeptIsNew, RanIsFetched
<1>2. NeverOlder'
  BY DEF TypeOK, NeverOlder, KeptIsNew, AnsweredLast
<1>3. KeptIsNew'
  BY DEF TypeOK, KeptIsNew, RanIsFetched
<1>4. RanIsFetched'
  BY DEF TypeOK, RanIsFetched
<1>5. AnsweredLast'
  BY DEF TypeOK, AnsweredLast
<1> QED
  BY <1>1, <1>2, <1>3, <1>4, <1>5

LEMMA CancelStep ==
  ASSUME IInv, NEW c \in Cancellers, Cancel(c)
  PROVE  IInv'
<1> USE CallsAssumption, CommandsAssumption, DefsAssumption
    DEF IInv, Calls, Cancel, Goto, Answer, cache, prowlarr, history, Have, Later, Stopped
<1>1. TypeOK'
  BY DEF TypeOK, Answers, Statuses, KeptIsNew, RanIsFetched
<1>2. NeverOlder'
  BY DEF TypeOK, NeverOlder, KeptIsNew, AnsweredLast
<1>3. KeptIsNew'
  BY DEF TypeOK, KeptIsNew, RanIsFetched
<1>4. RanIsFetched'
  BY DEF TypeOK, RanIsFetched
<1>5. AnsweredLast'
  BY DEF TypeOK, AnsweredLast
<1> QED
  BY <1>1, <1>2, <1>3, <1>4, <1>5

LEMMA StartStep ==
  ASSUME IInv, NEW c \in Runners, Start(c)
  PROVE  IInv'
<1> USE CallsAssumption, CommandsAssumption, DefsAssumption
    DEF IInv, Calls, Start, Goto, Answer, cache, prowlarr, history, Have, Later, Stopped
<1>1. TypeOK'
  BY DEF TypeOK, Answers, Statuses, KeptIsNew, RanIsFetched
<1>2. NeverOlder'
  BY DEF TypeOK, NeverOlder, KeptIsNew, AnsweredLast
<1>3. KeptIsNew'
  BY DEF TypeOK, KeptIsNew, RanIsFetched
<1>4. RanIsFetched'
  BY DEF TypeOK, RanIsFetched
<1>5. AnsweredLast'
  BY DEF TypeOK, AnsweredLast
<1> QED
  BY <1>1, <1>2, <1>3, <1>4, <1>5

LEMMA FetchStep ==
  ASSUME IInv, NEW c \in Runners, Fetch(c)
  PROVE  IInv'
<1> USE CallsAssumption, CommandsAssumption, DefsAssumption
    DEF IInv, Calls, Fetch, Goto, Answer, cache, prowlarr, history, Have, Later, Stopped
<1>1. TypeOK'
  BY DEF TypeOK, Answers, Statuses, KeptIsNew, RanIsFetched
<1>2. NeverOlder'
  BY DEF TypeOK, NeverOlder, KeptIsNew, AnsweredLast
<1>3. KeptIsNew'
  BY DEF TypeOK, KeptIsNew, RanIsFetched
<1>4. RanIsFetched'
  BY DEF TypeOK, RanIsFetched
<1>5. AnsweredLast'
  BY DEF TypeOK, AnsweredLast
<1> QED
  BY <1>1, <1>2, <1>3, <1>4, <1>5

LEMMA FinishStep ==
  ASSUME IInv, NEW c \in Runners, Finish(c)
  PROVE  IInv'
<1> USE CallsAssumption, CommandsAssumption, DefsAssumption
    DEF IInv, Calls, Finish, Goto, Answer, cache, prowlarr, history, Have, Later, Stopped
<1>1. TypeOK'
  BY DEF TypeOK, Answers, Statuses, KeptIsNew, RanIsFetched
<1>2. NeverOlder'
  BY DEF TypeOK, NeverOlder, KeptIsNew, AnsweredLast
<1>3. KeptIsNew'
  BY DEF TypeOK, KeptIsNew, RanIsFetched
<1>4. RanIsFetched'
  BY DEF TypeOK, RanIsFetched
<1>5. AnsweredLast'
  BY DEF TypeOK, AnsweredLast
<1> QED
  BY <1>1, <1>2, <1>3, <1>4, <1>5

LEMMA GrowOldStep ==
  ASSUME IInv, GrowOld
  PROVE  IInv'
<1> USE CallsAssumption, CommandsAssumption, DefsAssumption
    DEF IInv, Calls, GrowOld, Goto, Answer, cache, prowlarr, history, Have, Later, Stopped
<1>1. TypeOK'
  BY DEF TypeOK, Answers, Statuses, KeptIsNew, RanIsFetched
<1>2. NeverOlder'
  BY DEF TypeOK, NeverOlder, KeptIsNew, AnsweredLast
<1>3. KeptIsNew'
  BY DEF TypeOK, KeptIsNew, RanIsFetched
<1>4. RanIsFetched'
  BY DEF TypeOK, RanIsFetched
<1>5. AnsweredLast'
  BY DEF TypeOK, AnsweredLast
<1> QED
  BY <1>1, <1>2, <1>3, <1>4, <1>5

LEMMA NextIInv == IInv /\ [Next]_vars => IInv'
<1> SUFFICES ASSUME IInv, [Next]_vars PROVE IInv'
  OBVIOUS
<1>1. CASE UNCHANGED vars
  BY <1>1 DEF vars, cache, prowlarr, history, IInv, TypeOK, NeverOlder, KeptIsNew,
              RanIsFetched, AnsweredLast
<1>2. CASE \E c \in Readers \cup Adders : Begin(c) \/ Lock(c) \/ Reading(c) \/ ReadFails(c)
  BY <1>2, BeginStep, LockStep, LookStep, ReadStep, KeepReadStep, ReadFailsStep
  DEF Reading
<1>3. CASE \E c \in Adders : Add(c)
  BY <1>3, AddStep
<1>4. CASE \E c \in Runners : NoTask(c) \/ Run(c) \/ AskAfter(c) \/ AskFails(c) \/ Late(c)
  BY <1>4, NoTaskStep, RunStep, AskAfterStep, AskFailsStep, LateStep
<1>5. CASE \E c \in Adders \cup Runners : Forget(c)
  BY <1>5, ForgetStep
<1>6. CASE \E c \in Cancellers : CancelLook(c) \/ Cancel(c)
  BY <1>6, CancelLookStep, CancelStep
<1>7. CASE \E c \in Runners : Start(c) \/ Fetch(c) \/ Finish(c)
  BY <1>7, StartStep, FetchStep, FinishStep
<1> QED
  BY <1>1, <1>2, <1>3, <1>4, <1>5, <1>6, <1>7, GrowOldStep DEF Next, TurnOver

-----------------------------------------------------------------------------
(* The inductive invariant holds of every run. *)
THEOREM Inductive == Spec => []IInv
BY InitIInv, NextIInv, PTL DEF Spec

(* Types, and that the mutex is held by the read that is under way and by  *)
(* no other call, whatever reads, adds, updates and cancels there are.     *)
THEOREM TypeCorrect == Spec => []TypeOK
<1>1. IInv => TypeOK
  BY DEF IInv
<1> QED
  BY <1>1, Inductive, PTL

(* A call that asks for the catalogue after task_run has answered that the *)
(* definitions were updated is not given an older one (src/tools/catalog.go*)
(* and server.go).                                                         *)
THEOREM NeverGivenOlder == Spec => []NeverOlder
<1>1. IInv => NeverOlder
  BY DEF IInv
<1> QED
  BY <1>1, Inductive, PTL

(* A command command_cancel said it took off the queue has not run and     *)
(* will not, and no task_run says it completed (src/tools/commands.go).    *)
THEOREM CancelledStaysOff == Spec => []CancelledNeverRuns
<1>1. IInv => CancelledNeverRuns
  BY CommandsAssumption DEF IInv, RanIsFetched, AnsweredLast, CancelledNeverRuns
<1> QED
  BY <1>1, Inductive, PTL
=============================================================================
