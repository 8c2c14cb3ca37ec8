-------------------------------- MODULE Edits --------------------------------
(***************************************************************************)
(* The calls of one turn, run at once by the MCP server against one        *)
(* Prowlarr (src/tools).  Each follows the path of its tool (Paths), a     *)
(* request at a time, and other calls' requests come between.  The locks   *)
(* are taken through Turns, which LockSet implements.                      *)
(*                                                                         *)
(* A record is what Prowlarr keeps one of under an id: an indexer, an      *)
(* application, a proxy, a sync profile, a section of its settings.  It is *)
(* reduced to its switch (an application's is its sync level), its         *)
(* priority (standing for every setting that is one value) and its tags.   *)
(* Calls name what exists; the record a call adds is known by the call.    *)
(***************************************************************************)
EXTENDS Naturals, FiniteSets, PathRules

CONSTANTS Calls,       \* the calls of the turn
          Started,     \* the records there are when it begins
          ResourceOf,  \* what each of them is, as the requests name it
          Labels,      \* tag labels, as Prowlarr stores them
          MaxTag,      \* bound: how many tags are ever made
          Jobs,        \* what a call can be asked: see Paths
          FirstLabel,  \* the label of the tag that what can be routed carries
          Keep,        \* a setting the call does not name
          Gone,        \* no such record
          NoLabel,     \* no such tag
          tagsLock     \* the lock on the tags

Records == Started \cup Calls
TagIds == 1..MaxTag

ASSUME JobsAssumption ==
  \A j \in Jobs : /\ j.tool \in AllTools
                  /\ j.on \in SUBSET Records
                  /\ j.adds \in SUBSET Labels
                  /\ j.removes \in SUBSET Labels
                  /\ IsFiniteSet(j.removes)
                  /\ j.tool \in EditTools => \E r \in Records : j.on = {r}
                  /\ j.tool \in {"tag_create", "tag_edit"} => j.adds # {}
                  /\ j.tool \in {"profile_edit", "downloadclient_edit",
                                 "filter_edit", "server_settings_edit"}
                       => j.adds = {} /\ j.removes = {}
                  /\ j.tool = "server_settings_edit"
                       => \E s \in {"host", "ui", "development"} : Asked(j, s)

VARIABLES job,         \* what each call was asked
          todo,        \* the steps each call has still to take
          outcome,     \* open, failing (its error is on the way), failed, done
          copy,        \* the record an edit has read and will send back
          seen,        \* the tags a call has read, and made since
          drops,       \* the tags it will take off
          known,       \* the records tag_delete has read
          wrote,       \* history: the calls whose change Prowlarr has taken
          repeats,     \* history: the calls begun after one asked the same
                       \*   had been answered
          rec,         \* Prowlarr's records
          tag,         \* Prowlarr's tags: the label of each
          lastTag,     \* the last tag it made
          staged,      \* a restored backup waits for it to restart
          phase, named, whole  \* the locks: see Turns

Locks == INSTANCE Turns WITH Callers <- Calls, Keys <- Records \cup {tagsLock}

locks == <<phase, named, whole>>
prowlarr == <<rec, tag, lastTag, staged>>
local == <<copy, seen, drops, known>>
vars == <<job, todo, outcome, local, wrote, repeats, prowlarr, locks>>

StartRec ==
  [r \in Records |->
     IF r \in Started
     THEN [of |-> ResourceOf[r], on |-> TRUE, prio |-> Keep,
           tags |-> IF ResourceOf[r] \in Routed THEN {1} ELSE {}]
     ELSE Gone]
StartTag == [t \in TagIds |-> IF t = 1 THEN FirstLabel ELSE NoLabel]

Serially == INSTANCE Serial WITH StartLast <- 1, made <- wrote

ASSUME SerialAssumption == Serially!InOrder

(* The tag with a label: the first there is, or 0. *)
TagWith(l, tags) ==
  IF \E t \in TagIds : tags[t] = l
  THEN CHOOSE t \in TagIds : tags[t] = l /\ \A u \in 1..(t - 1) : tags[u] # l
  ELSE 0

TagsWith(ls, tags) == {TagWith(l, tags) : l \in ls} \ {0}

Init ==
  /\ job \in [Calls -> Jobs]
  /\ todo = [c \in Calls |-> Path(job[c])]
  /\ outcome = [c \in Calls |-> "open"]
  /\ copy = [c \in Calls |-> Gone]
  /\ seen = [c \in Calls |-> StartTag]
  /\ drops = [c \in Calls |-> {}]
  /\ known = [c \in Calls |-> {}]
  /\ wrote = {}
  /\ repeats = {}
  /\ rec = StartRec
  /\ tag = StartTag
  /\ lastTag = 1
  /\ staged = FALSE
  /\ Locks!Init

Tool(c) == job[c].tool
TheLabel(ls) == CHOOSE l \in ls : TRUE

Ended(c) == todo[c] = <<>>
Now(c) == Head(todo[c])

(* The step a call makes next is of this role. *)
Doing(c, role) == outcome[c] = "open" /\ ~Ended(c) /\ Now(c).do = role

(* The resource its request is about. *)
Of(c) == Now(c).what.of

There(r, resource) == rec[r] # Gone /\ rec[r].of = resource
AllThere(c) == \A r \in job[c].on : There(r, Of(c))

(* A call has begun anew what one before it was answered for. *)
Begun(c) ==
  repeats' = IF /\ \E d \in Calls : outcome[d] = "done" /\ job[d] = job[c]
                /\ todo[c] = Path(job[c])
             THEN repeats \cup {c} ELSE repeats

Onward(c) == todo' = [todo EXCEPT ![c] = Tail(@)] /\ Begun(c) /\ UNCHANGED outcome
Fails(c) == outcome' = [outcome EXCEPT ![c] = "failing"] /\ UNCHANGED <<todo, repeats>>

(* A write has been made: its answer arrives, or is lost on the way. *)
Written(c) == Onward(c) \/ Fails(c)

-----------------------------------------------------------------------------
(* Requests whose answers decide nothing that follows, and which change no *)
(* record, are taken together.                                             *)
PassBy(c) ==
  /\ \E role \in Silent : Doing(c, role)
  /\ \E last \in 1..Len(todo[c]) :
       /\ \A i \in 1..last : todo[c][i].do \in Silent
       /\ last < Len(todo[c]) => todo[c][last + 1].do \notin Silent
       /\ todo' = [todo EXCEPT ![c] = SubSeq(@, last + 1, Len(@))]
  /\ Begun(c)
  /\ UNCHANGED <<job, outcome, local, wrote, prowlarr, locks>>

(* The records named are found in a list of them all. *)
Resolve(c) ==
  /\ Doing(c, "find")
  /\ IF AllThere(c) THEN Onward(c) ELSE Fails(c)
  /\ UNCHANGED <<job, local, wrote, prowlarr, locks>>

(* Bug: an edit locks the tags it may make one by one, not their list. *)
KeysOfEachTag(c) ==
  (IF "record" \in Now(c).what THEN job[c].on ELSE {})
  \cup (IF "tags" \in Now(c).what THEN job[c].adds ELSE {})

(* What a call locks: the record it is about, the tags, or both. *)
KeysOf(c) ==
  (IF "record" \in Now(c).what THEN job[c].on ELSE {})
  \cup (IF "tags" \in Now(c).what THEN {tagsLock} ELSE {})

(* A call asks for its locks, all at once, and waits for them. *)
AskLocks(c) ==
  /\ Doing(c, "lock")
  /\ IF Now(c).what = {"all"} THEN Locks!AskAll(c) ELSE Locks!Ask(c, KeysOf(c))
  /\ UNCHANGED <<job, todo, outcome, local, wrote, repeats, prowlarr>>

Granted(c) ==
  /\ Doing(c, "lock")
  /\ Locks!Grant(c)
  /\ Onward(c)
  /\ UNCHANGED <<job, local, wrote, prowlarr>>

(* makeTags returns, and its deferred unlock lets the tags go. *)
Unlocks(c) ==
  /\ Doing(c, "unlock")
  /\ Locks!Unlock(c)
  /\ Onward(c)
  /\ UNCHANGED <<job, local, wrote, prowlarr>>

-----------------------------------------------------------------------------
(* The whole record is read once its lock is held, *)
ReadWhole(c) ==
  /\ Doing(c, "read")
  /\ IF AllThere(c)
     THEN \E r \in job[c].on : copy' = [copy EXCEPT ![c] = rec[r]] /\ Onward(c)
     ELSE Fails(c) /\ UNCHANGED copy
  /\ UNCHANGED <<job, seen, drops, known, wrote, prowlarr, locks>>

(* The tags are read; *)
LookAtTags(c) ==
  /\ Doing(c, "look")
  /\ seen' = [seen EXCEPT ![c] = tag]
  /\ Onward(c)
  /\ UNCHANGED <<job, copy, drops, known, wrote, prowlarr, locks>>

Post(c, l) ==
  /\ lastTag < MaxTag
  /\ lastTag' = lastTag + 1
  /\ tag' = [tag EXCEPT ![lastTag + 1] = l]
  /\ seen' = [seen EXCEPT ![c][lastTag + 1] = l]

(* each that is not there is made, *)
MakeTag(c) ==
  /\ Doing(c, "make")
  /\ \E l \in job[c].adds : TagWith(l, seen[c]) = 0 /\ Post(c, l)
  /\ UNCHANGED <<todo, repeats>>
  /\ UNCHANGED outcome \/ outcome' = [outcome EXCEPT ![c] = "failing"]
  /\ UNCHANGED <<job, copy, drops, known, wrote, rec, staged, locks>>

(* and resolveTags answers their ids.                                      *)
TagsMade(c) ==
  /\ Doing(c, "make")
  /\ \A l \in job[c].adds : TagWith(l, seen[c]) # 0
  /\ Onward(c)
  /\ UNCHANGED <<job, local, wrote, prowlarr, locks>>

(* The tags to remove are looked up, and have to be there. *)
LookUpRemoved(c) ==
  /\ Doing(c, "untag")
  /\ IF \A l \in job[c].removes : TagWith(l, tag) # 0
     THEN drops' = [drops EXCEPT ![c] = TagsWith(job[c].removes, tag)] /\ Onward(c)
     ELSE Fails(c) /\ UNCHANGED drops
  /\ UNCHANGED <<job, copy, seen, known, wrote, prowlarr, locks>>

Adds(c) == TagsWith(job[c].adds, seen[c])

(* What was read goes back whole, with the edit made to it. *)
SaveWhole(c) ==
  /\ Doing(c, "save")
  /\ IF AllThere(c)
     THEN /\ \E r \in job[c].on :
               rec' = [rec EXCEPT ![r] =
                         Serially!Changed(copy[c], job[c], Adds(c), drops[c])]
          /\ copy' = [copy EXCEPT ![c] = Gone]
          /\ wrote' = wrote \cup {c}
          /\ Written(c)
     ELSE Fails(c) /\ UNCHANGED <<rec, wrote, copy>>
  /\ UNCHANGED <<job, seen, drops, known, tag, lastTag, staged, locks>>

-----------------------------------------------------------------------------
(* PutIndexerBulk changes the named settings of the indexers where they    *)
(* are; tags are added by one such request and removed by the next.        *)
BulkChange(c) ==
  /\ Doing(c, "bulk")
  /\ IF AllThere(c)
     THEN LET off == IF job[c].adds # {} THEN {} ELSE drops[c]
          IN /\ rec' = [r \in Records |->
                          IF r \in job[c].on
                          THEN Serially!Changed(rec[r], job[c], Adds(c), off)
                          ELSE rec[r]]
             /\ wrote' = wrote \cup {c}
             /\ Written(c)
     ELSE Fails(c) /\ UNCHANGED <<rec, wrote>>
  /\ UNCHANGED <<job, local, tag, lastTag, staged, locks>>

BulkRemove(c) ==
  /\ Doing(c, "unbulk")
  /\ IF AllThere(c)
     THEN /\ rec' = [r \in Records |->
                       IF r \in job[c].on THEN [rec[r] EXCEPT !.tags = @ \ drops[c]]
                                          ELSE rec[r]]
          /\ Written(c)
     ELSE Fails(c) /\ UNCHANGED rec
  /\ UNCHANGED <<job, local, wrote, tag, lastTag, staged, locks>>

(* A record as it is asked for, *)
Added(c) == [of |-> Of(c), on |-> ~Asked(job[c], "disabled"), prio |-> job[c].prio,
             tags |-> Adds(c)]

(* and as forcedAdd first creates it: an indexer, a client or notification *)
(* disabled, an application that is not synced to, a proxy without tags.   *)
SwitchedOff(r) ==
  IF r.of = "indexerproxy" THEN [r EXCEPT !.tags = {}] ELSE [r EXCEPT !.on = FALSE]

Create(c) ==
  /\ Doing(c, "create") \/ Doing(c, "create off")
  /\ rec' = [rec EXCEPT ![c] =
               IF Now(c).do = "create" THEN Added(c) ELSE SwitchedOff(Added(c))]
  /\ wrote' = wrote \cup {c}
  /\ Written(c)
  /\ UNCHANGED <<job, local, tag, lastTag, staged, locks>>

(* The update sends the whole of it again, as it was asked for. *)
SwitchOn(c) ==
  /\ Doing(c, "update")
  /\ IF There(c, Of(c))
     THEN rec' = [rec EXCEPT ![c] = Added(c)] /\ Written(c)
     ELSE Fails(c) /\ UNCHANGED rec
  /\ UNCHANGED <<job, local, wrote, tag, lastTag, staged, locks>>

(* A confirmed delete: a record may have gone since it was found. *)
Delete(c) ==
  /\ Doing(c, "delete")
  /\ IF AllThere(c)
     THEN /\ rec' = [r \in Records |-> IF r \in job[c].on THEN Gone ELSE rec[r]]
          /\ wrote' = wrote \cup {c}
          /\ Written(c)
     ELSE Fails(c) /\ UNCHANGED <<rec, wrote>>
  /\ UNCHANGED <<job, local, tag, lastTag, staged, locks>>

-----------------------------------------------------------------------------
(* Bug: a tag is made, or renamed, without a look for another of its label.*)
TakenNever(l, t, tags) == FALSE

(* Another tag has this label already. *)
Taken(l, t, tags) == \E u \in TagIds \ {t} : tags[u] = l

(* tag_create: made unless the tags read hold one of that label. *)
CreateTag(c) ==
  /\ Doing(c, "make one")
  /\ LET l == TheLabel(job[c].adds)
     IN IF Taken(l, 0, seen[c])
        THEN Fails(c) /\ UNCHANGED <<tag, lastTag, seen>>
        ELSE Written(c) /\ Post(c, l)
  /\ UNCHANGED <<job, copy, drops, known, wrote, rec, staged, locks>>

(* tag_edit: the label is changed in place, unless another tag has it. *)
RenameTag(c) ==
  /\ Doing(c, "rename")
  /\ LET t == TagWith(TheLabel(job[c].removes), seen[c])
         l == TheLabel(job[c].adds)
     IN IF t = 0 \/ Taken(l, t, seen[c]) \/ tag[t] = NoLabel
        THEN Fails(c) /\ UNCHANGED tag
        ELSE Written(c) /\ tag' = [tag EXCEPT ![t] = l]
  /\ UNCHANGED <<job, local, wrote, rec, lastTag, staged, locks>>

(* tag_delete: each kind of record that may carry a tag is read, *)
ListCarriers(c) ==
  /\ Doing(c, "list")
  /\ known' = [known EXCEPT ![c] = @ \cup {r \in Records : There(r, Of(c))}]
  /\ Onward(c)
  /\ UNCHANGED <<job, copy, seen, drops, wrote, prowlarr, locks>>

Carriers(t) == {r \in Records : rec[r] # Gone /\ t \in rec[r].tags}

(* What Prowlarr says of a tag, and refuses to delete it for. *)
RoutedCarriers(t) == {r \in Carriers(t) : rec[r].of \in Routed}

IsNotification(r) ==
  IF r \in Started THEN ResourceOf[r] = "notification" ELSE Tool(r) = "notification_add"

(* then the tags with the ids of what carries them, which count as far as  *)
(* their names are known; those of notifications are read last.            *)
TagDetail(c) ==
  /\ Doing(c, "detail")
  /\ LET t == TagWith(TheLabel(job[c].removes), tag)
     IN /\ drops' = [drops EXCEPT ![c] = {t} \ {0}]
        /\ known' = [known EXCEPT ![c] =
             {r \in RoutedCarriers(t) : r \in @ \/ IsNotification(r)}]
  /\ Onward(c)
  /\ UNCHANGED <<job, copy, seen, wrote, prowlarr, locks>>

(* A tag that is not there, or that something carries, is not deleted. *)
NameCarriers(c) ==
  /\ Doing(c, "names")
  /\ known' = [known EXCEPT ![c] =
       {r \in @ : rec[r] # Gone \/ ~IsNotification(r)}]
  /\ IF drops[c] # {} /\ known'[c] = {} THEN Onward(c) ELSE Fails(c)
  /\ UNCHANGED <<job, copy, seen, drops, wrote, prowlarr, locks>>

(* DeleteTagById, which Prowlarr refuses while what it routes carries it.  *)
DropTag(c) ==
  /\ Doing(c, "drop")
  /\ LET t == CHOOSE t \in drops[c] : TRUE
     IN IF RoutedCarriers(t) # {}
        THEN Fails(c) /\ UNCHANGED tag
        ELSE Written(c) /\ tag' = [tag EXCEPT ![t] = NoLabel]
  /\ UNCHANGED <<job, local, wrote, rec, lastTag, staged, locks>>

-----------------------------------------------------------------------------
(* backup_restore: the backup is put in place for the next start. *)
Restore(c) ==
  /\ Doing(c, "restore")
  /\ staged' = TRUE
  /\ wrote' = wrote \cup {c}
  /\ Written(c)
  /\ UNCHANGED <<job, local, rec, tag, lastTag, locks>>

(* server_restart: Prowlarr is told, goes down and comes back with what a  *)
(* restored backup held, all while everything is locked.  (Restart looks   *)
(* into the wait, and at what happens when it is not long enough.)         *)
Restart(c) ==
  /\ Doing(c, "restart")
  /\ IF staged THEN rec' = StartRec /\ tag' = StartTag /\ lastTag' = 1
                ELSE UNCHANGED <<rec, tag, lastTag>>
  /\ staged' = FALSE
  /\ wrote' = wrote \cup {c}
  /\ Written(c)
  /\ UNCHANGED <<job, local, locks>>

(* A request fails, or is refused, and the handler returns the error.  A   *)
(* write it gave up on is not made later: see the README.                  *)
Fail(c) ==
  /\ outcome[c] = "open"
  /\ ~Ended(c)
  /\ Now(c).do \notin {"lock", "unlock"}
  /\ Fails(c)
  /\ UNCHANGED <<job, local, wrote, prowlarr, locks>>

(* The handler is over, and what it has read is forgotten. *)
Returning(c) == outcome[c] = "failing" \/ (outcome[c] = "open" /\ Ended(c))

Forget(c) ==
  /\ outcome' = [outcome EXCEPT ![c] = IF @ = "open" THEN "done" ELSE "failed"]
  /\ todo' = [todo EXCEPT ![c] = <<>>]
  /\ copy' = [copy EXCEPT ![c] = Gone]
  /\ seen' = [seen EXCEPT ![c] = StartTag]
  /\ drops' = [drops EXCEPT ![c] = {}]
  /\ known' = [known EXCEPT ![c] = {}]

(* Bug: the lock is let go at the end, not deferred: an error keeps it. *)
ReturnUndeferred(c) ==
  /\ Returning(c)
  /\ Forget(c)
  /\ IF outcome[c] = "open" /\ phase[c] = "turn" THEN Locks!Unlock(c) ELSE UNCHANGED locks
  /\ UNCHANGED <<job, wrote, repeats, prowlarr>>

(* The handler returns; the unlock it deferred lets go what it holds. *)
Return(c) ==
  /\ Returning(c)
  /\ Forget(c)
  /\ IF phase[c] = "turn" THEN Locks!Unlock(c) ELSE UNCHANGED locks
  /\ UNCHANGED <<job, wrote, repeats, prowlarr>>

Over == \A c \in Calls : outcome[c] \in {"done", "failed"}

(* The turn is over: nothing is left to do. *)
TurnOver == Over /\ UNCHANGED vars

-----------------------------------------------------------------------------
Goes(c) ==
  \/ PassBy(c) \/ Resolve(c) \/ AskLocks(c) \/ Unlocks(c)
  \/ ReadWhole(c) \/ LookAtTags(c) \/ MakeTag(c) \/ TagsMade(c) \/ LookUpRemoved(c)
  \/ SaveWhole(c) \/ BulkChange(c) \/ BulkRemove(c)
  \/ Create(c) \/ SwitchOn(c) \/ Delete(c)
  \/ CreateTag(c) \/ RenameTag(c)
  \/ ListCarriers(c) \/ TagDetail(c) \/ NameCarriers(c) \/ DropTag(c)
  \/ Restore(c) \/ Restart(c) \/ Return(c)

Next ==
  \/ \E c \in Calls : Goes(c) \/ Granted(c) \/ Fail(c)
  \/ TurnOver

Spec == Init /\ [][Next]_vars

(* Every request is answered or fails (the client has a time limit), and a *)
(* call that asks for its locks gets them when others keep letting them    *)
(* go: LockSet's EveryCallReturns.                                         *)
FairSpec == Spec /\ \A c \in Calls : WF_vars(Goes(c)) /\ SF_vars(Granted(c))

-----------------------------------------------------------------------------
TypeOK ==
  /\ \A c \in Calls : \A i \in DOMAIN todo[c] : todo[c][i].do \in Roles
  /\ outcome \in [Calls -> {"open", "failing", "failed", "done"}]
  /\ \A c \in Calls : copy[c] = Gone \/ copy[c].tags \subseteq TagIds
  /\ seen \in [Calls -> [TagIds -> Labels \cup {NoLabel}]]
  /\ drops \in [Calls -> SUBSET TagIds]
  /\ known \in [Calls -> SUBSET Records]
  /\ wrote \in SUBSET Calls
  /\ repeats \in SUBSET Calls
  /\ \A r \in Records : rec[r] = Gone \/ rec[r].tags \subseteq TagIds
  /\ tag \in [TagIds -> Labels \cup {NoLabel}]
  /\ lastTag \in TagIds
  /\ staged \in BOOLEAN
  /\ Locks!TypeOK

(* A call that has read what it will write back or decide by, or has made  *)
(* one write of two.                                                       *)
HalfWay(c) ==
  \/ copy[c] # Gone
  \/ \E role \in {"make", "make one", "rename", "untag", "detail", "names", "drop",
                   "unbulk", "update"} : Doing(c, role)

(* The calls of a turn come to what they would one after another: every    *)
(* edit lands on the record as it then is, so no call undoes another       *)
(* (tools/locks.go), one tag is made where several calls want it, and none *)
(* goes that something carries.                                            *)
ImplementsSerial == Serially!Spec

(* While one call has everything locked, to restore a backup or restart    *)
(* the server, no other is half way through a write, nor holds what it     *)
(* read before (tools/commands.go, tools/backups.go).                      *)
QuietUnderAll ==
  \A c, d \in Calls :
    c # d /\ phase[c] = "turn" /\ whole[c] => ~HalfWay(d)

(* No record is left with a tag that is gone (tools/tags.go: tag_delete    *)
(* "never changes what reaches an application"), where all who write one   *)
(* hold it.                                                                *)
NoneDangling == Serially!NoneDangling

(* A label never names two tags, whichever tools make and rename them at   *)
(* once: they all hold the tags while they look and write (tools/locks.go, *)
(* tagsLock).                                                              *)
LabelsApart == Serially!LabelsApart

(* A call's save reaches Prowlarr. *)
Saves(c) == Doing(c, "save") /\ c \in wrote' \ wrote

(* An edit that adds a tag leaves its record with tags that exist: the     *)
(* tags it looked up or made are still there when it saves, since no       *)
(* tag_delete and no backup_restore comes between (tools/locks.go: the     *)
(* tags are locked beside the record).                                     *)
AddedTagsExist ==
  [][\A c \in Calls : Saves(c) => \A t \in Adds(c) : tag[t] \in job[c].adds]_vars

(* A save changes what its call was asked to change and nothing else: what *)
(* other calls have set in the meantime stays (tools/locks.go: "kept from  *)
(* undoing each other").                                                   *)
EditUndoesNothing ==
  [][\A c \in Calls : Saves(c) =>
       \A r \in job[c].on :
         rec'[r] = Serially!Changed(rec[r], job[c], Adds(c), drops[c])]_vars

(* The step is this call's. *)
Moves(c) == todo'[c] # todo[c] \/ outcome'[c] # outcome[c] \/ seen'[c] # seen[c]

(* A call of a tool hinted idempotent that repeats, argument for argument, *)
(* one that was answered, changes nothing more, whether it is carried out  *)
(* again or refused (tools/all_tools.go, toolHints).                       *)
RepeatChangesNothing ==
  [][\A c \in repeats :
       Tool(c) \in Idempotent /\ Moves(c) /\ (\A d \in Calls : job[d] = job[c])
         => UNCHANGED <<rec, tag>>]_vars

(* A tag that something carries is never taken for one that nothing does   *)
(* (tools/tags.go, tagRow: unused, "nothing carries it"): what tag_delete  *)
(* reads names a carrier.                                                  *)
UnusedIsUnused ==
  [][\A c \in Calls : Doing(c, "detail") /\ todo'[c] # todo[c] =>
       \A t \in drops'[c] : Carriers(t) # {} => known'[c] # {}]_vars

(* Every call of a turn ends, answered or with an error, and its locks are *)
(* let go: no call waits for one that failed, and none is starved by the   *)
(* calls around it.                                                        *)
EveryCallEnds == <>(Over /\ \A c \in Calls : phase[c] = "idle")

-----------------------------------------------------------------------------
(* What makes it hold: the inductive invariants of EditsProofs.            *)
HoldsTags(c) == phase[c] = "turn" /\ (whole[c] \/ tagsLock \in named[c])
SeesTags(c) == HoldsTags(c) /\ seen[c] = tag

(* The steps a call has left are sound. *)
OnPath(c) ==
  outcome[c] = "open" =>
    /\ Named(todo[c], job[c])
    /\ Sound(HoldsTags(c), todo[c], TagRoles, TagLocks, Unlocking)
    /\ Sound(SeesTags(c), todo[c], LabelRoles(job[c]), Looks, Outdating)
    /\ Sound(copy[c] # Gone, todo[c], {"save"}, WholeReads, {"save"})
    /\ Locking(job[c]) =>
         /\ Sound(copy[c] = Gone, todo[c], Unlocking, MakesTags, {"read"})
         /\ Sound(phase[c] = "turn", todo[c], HalfRoles, AnyLocks, Unlocking)

(* A call waits for the locks its path asks for, and for no others. *)
WaitsRight(c) ==
  phase[c] = "waiting" =>
    /\ outcome[c] = "open"
    /\ Doing(c, "lock")
    /\ IF Now(c).what = {"all"} THEN whole[c] ELSE named[c] = KeysOf(c)

(* What is read under a lock is kept no longer than it. *)
CopyInTurn(c) == Locking(job[c]) /\ copy[c] # Gone => phase[c] = "turn"

IsRecord(r) ==
  /\ r = [of |-> r.of, on |-> r.on, prio |-> r.prio, tags |-> r.tags]
  /\ r.tags \subseteq TagIds

ShapesOK ==
  /\ job \in [Calls -> Jobs]
  /\ DOMAIN todo = Calls
  /\ \A c \in Calls : IsPath(todo[c])
  /\ DOMAIN copy = Calls
  /\ DOMAIN rec = Records
  /\ \A r \in Records : rec[r] = Gone \/ IsRecord(rec[r])

IInv ==
  /\ TypeOK
  /\ ShapesOK
  /\ Locks!OneAtATime
  /\ LabelsApart
  /\ \A c \in Calls : OnPath(c) /\ WaitsRight(c) /\ CopyInTurn(c)

-----------------------------------------------------------------------------
(* What makes it come to what Serial allows (Serial), where no  *)
(* call changes a record that it has no lock on.  (A delete has none, and  *)
(* is one step.)                                                           *)
HoldsRecord(c) == phase[c] = "turn" /\ (whole[c] \/ job[c].on \subseteq named[c])
HoldsAll(c) == phase[c] = "turn" /\ whole[c]

HasTags(c) == SeesTags(c) /\ \A l \in job[c].adds : TagWith(l, seen[c]) # 0

OnCourse(c) ==
  outcome[c] = "open" =>
    /\ Serves(todo[c], job[c])
    /\ Once(todo[c])
    /\ c \in wrote => \A i \in DOMAIN todo[c] : todo[c][i].do \notin Changes
    /\ Sound(HoldsRecord(c), todo[c], {"read", "save"}, RecordLocks, Unlocking)
    /\ Sound(HoldsAll(c), todo[c], {"restart"}, {LockAll}, Unlocking)
    /\ Sound(HasTags(c), todo[c], TaggedRoles(job[c]), Makes, Outdating \cup {"look"})

(* What an edit has read is the record as it is, unless that is gone. *)
CopyIsCurrent(c) ==
  copy[c] # Gone =>
    /\ job[c].tool \in EditTools
    /\ HoldsRecord(c)
    /\ \A r \in job[c].on : rec[r] \in {copy[c], Gone}

(* It takes off no more tags than it was given labels. *)
DropsFew(c) ==
  job[c].tool \in EditTools => Cardinality(drops[c]) <= Cardinality(job[c].removes)

(* Only what Prowlarr names among the carriers of a tag has tags. *)
RoutedAlone ==
  \A r \in Records : rec[r] # Gone /\ rec[r].of \notin Routed => rec[r].tags = {}

CourseInv ==
  /\ \A c \in Calls : OnCourse(c) /\ CopyIsCurrent(c) /\ DropsFew(c)
  /\ RoutedAlone
-----------------------------------------------------------------------------
(* What makes a repeat change nothing: where every call is asked the same, *)
(* the change of a step that was answered stays, so that the same step of  *)
(* another call finds it made.                                             *)
AllAsked(j) == \A c \in Calls : job[c] = j

OfLabels(ls) == {t \in TagIds : tag[t] \in ls}
AreMade(ls) == \A l \in ls : \E t \in TagIds : tag[t] = l
Lost(l) == \A t \in TagIds : tag[t] = l => l = NoLabel

(* An edit's change to what there was when the turn began. *)
Saved(j) ==
  /\ AreMade(j.adds \cup j.removes)
  /\ \A r \in j.on :
       rec[r] = Serially!Changed(StartRec[r], j, OfLabels(j.adds), OfLabels(j.removes))

(* A bulk edit's first request, which takes tags off if it adds none, and  *)
(* its second.                                                             *)
TakenOff(j) == IF j.adds # {} THEN {} ELSE j.removes
BulkSaved(j) ==
  /\ AreMade(j.adds \cup TakenOff(j))
  /\ \A r \in j.on :
       rec[r] = Serially!Changed(rec[r], j, OfLabels(j.adds), OfLabels(TakenOff(j)))
BulkRemoved(j) ==
  /\ AreMade(j.removes)
  /\ \A r \in j.on : rec[r].tags \cap OfLabels(j.removes) = {}

(* The change that a step makes is there. *)
Landed(role, j) ==
  /\ role = "make" => AreMade(j.adds)
  /\ role = "save" => Saved(j)
  /\ role = "bulk" => BulkSaved(j)
  /\ role = "unbulk" => BulkRemoved(j)
  /\ role = "make one" => AreMade({TheLabel(j.adds)})
  /\ role = "rename" => TheLabel(j.adds) = TheLabel(j.removes) \/ Lost(TheLabel(j.removes))
  /\ role = "drop" => Lost(TheLabel(j.removes))

AllLanded(c) ==
  /\ Does(todo[c]) \subseteq Does(Path(job[c]))
  /\ outcome[c] \in {"open", "done"} =>
       \A role \in Does(Path(job[c])) \ Does(todo[c]) : Landed(role, job[c])
  /\ outcome[c] = "done" => Ended(c)

(* It knows the tags it gives and takes off as they are: they only grow. *)
Given(c) == \A l \in job[c].adds : TagWith(l, seen[c]) # 0
Dropping(c) == AreMade(job[c].removes) /\ drops[c] = OfLabels(job[c].removes)

KnowsTags(c) ==
  /\ \A t \in TagIds : seen[c][t] # NoLabel => tag[t] = seen[c][t]
  /\ outcome[c] = "open" => /\ Sound(Given(c), todo[c], Puts, Makes, {})
                            /\ Sound(Dropping(c), todo[c], Puts, Untags, {})

(* An edit writes back a change to what the turn began with. *)
CopyOfStart(c) ==
  \A r \in job[c].on :
    /\ rec[r] = StartRec[r] \/ Saved(job[c])
    /\ copy[c] \in {Gone, StartRec[r]} \/ (copy[c] = rec[r] /\ Saved(job[c]))

(* The tag to delete is the one there was of that label. *)
DropsIt(c) ==
  LET l == TheLabel(job[c].removes)
  IN /\ outcome[c] = "open" => Sound(drops[c] # {}, todo[c], {"drop"}, Namings, {"detail"})
     /\ \A t \in drops[c] : /\ drops[c] = {t}
                            /\ tag[t] \in {l, NoLabel}
                            /\ \A u \in TagIds : tag[u] = l /\ l # NoLabel => u = t

Repeatable(j) == AllAsked(j) /\ j.tool \in Idempotent /\ Apart(j)

Repeated(j) ==
  /\ rec = [r \in Records |-> rec[r]]
  /\ repeats # {} => \E c \in Calls : outcome[c] = "done"
  /\ \A c \in Calls : AllLanded(c)
  /\ j.tool \in MakingTools =>
       /\ \A t \in TagIds : /\ t > lastTag => tag[t] = NoLabel
                            /\ StartTag[t] \in {NoLabel, tag[t]}
       /\ \A c \in Calls : KnowsTags(c)
  /\ j.tool \in EditTools => \A c \in Calls : CopyOfStart(c)
  /\ j.tool = "tag_delete" => \A c \in Calls : DropsIt(c)

RepeatInv == \A j \in Jobs : Repeatable(j) => Repeated(j)
=============================================================================
