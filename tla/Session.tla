-------------------------------- MODULE Session --------------------------------
(***************************************************************************)
(* A client's session (cli/flags.go, tools/all_tools.go): it has the tools *)
(* it was started with, calls them one after another, and reads lists in   *)
(* pages.  What a call does to what Prowlarr holds follows from its path   *)
(* (Paths), which may end early at any request; what the calls of a turn   *)
(* do to each other is the subject of Edits.                               *)
(***************************************************************************)
EXTENDS Integers, FiniteSets, PathRules, Audits, Paging

CONSTANTS Selections,  \* what a session may be started with
          Families,    \* the tools of a resource, by its name
          Forms,       \* Forms[x]: what the record of a thing may be
          Start,       \* what Prowlarr holds when the session begins
          Tellings,    \* what Prowlarr may tell of
          Asks,        \* the limits a list may be asked for
          MaxCalls     \* bound: how many things happen in a session

ASSUME SelectionsAssumption ==
  \A s \in Selections :
    /\ s = Selection(s.readOnly, s.enableDelete, s.sets, s.allow, s.deny)
    /\ {s.readOnly, s.enableDelete} \subseteq BOOLEAN

(* A record stays one of its resource; Gone is no record. *)
ASSUME FormsAssumption ==
  /\ IsFiniteSet(Things)
  /\ \A x \in Things :
       /\ Gone \notin Forms[x]
       /\ \A f, g \in Forms[x] : f.of = g.of
       /\ \A f \in Forms[x] : f.of = "customfilter" => f.label \in Int

(* What things are listed by when nothing else tells them apart: their ids.*)
ASSUME OrderAssumption ==
  \A x, y, z \in Things :
    /\ x \notin Before[x]
    /\ x # y => x \in Before[y] \/ y \in Before[x]
    /\ x \in Before[y] /\ y \in Before[z] => x \in Before[z]

(* What Prowlarr may hold, every indexer with a profile that is there. *)
Holdings ==
  {h \in [Things -> (UNION {Forms[x] : x \in Things}) \cup {Gone}] :
     \A x \in Things : h[x] \in Forms[x] \cup {Gone}}

Profiled(h) == \A i \in Are("indexer", h) : h[i].profile \in Are("appprofile", h)

ASSUME StartAssumption == Start \in Holdings /\ Profiled(Start)

ASSUME BoundAssumption == MaxCalls \in Nat /\ Asks \subseteq Int

VARIABLES sel,     \* what this one was started with
          held,    \* what Prowlarr holds
          told,    \* what it tells of: see Audits
          staged,  \* a restored backup waits for it to restart
          calls,   \* how many things have happened
          did,     \* the last call: its tool, and the arguments it was given
          walk     \* the list being read in pages

vars == <<sel, held, told, staged, calls, did, walk>>

(* What decides what happens next: all but the last call. *)
AllButDid == <<sel, held, told, staged, calls, walk>>

ServedBy == [s \in Selections |-> Selected(ToolOptions(s), Families)]
Served == ServedBy[sel]

(* The steps of a tool's calls, by the arguments, of these, that make a    *)
(* difference to what they change.                                         *)
Arguments == {{}, {"confirm"}, {"force", "confirm"}}
Untagged == {"profile_edit", "downloadclient_edit", "filter_edit", "server_settings_edit"}
Asking(tool, with) ==
  LET tags == IF tool \in Untagged THEN {} ELSE {"a tag"}
  IN [tool |-> tool, on |-> {"a record"}, adds |-> tags, removes |-> tags,
      with |-> with \cup {"host"}]
PathOf == [tool \in AllTools |-> [with \in Arguments |-> Path(Asking(tool, with))]]

Changing == {"make", "make one", "create", "create off", "save", "bulk", "unbulk",
             "rename", "delete", "drop", "restore"}
Writes(path) == {step \in Steps(path) : step.do \in Changing}
Given == [tool \in AllTools |->
            {with \in Arguments :
               with = {} \/ Writes(PathOf[tool][with]) # Writes(PathOf[tool][{}])}]

NoCall == [tool |-> "", with |-> {}]
NoWalk == [at |-> "none", asked |-> 0, offset |-> 0, got |-> {}, rows |-> {}, calm |-> TRUE]

Init ==
  /\ sel \in Selections
  /\ held = Start
  /\ told = {}
  /\ staged = FALSE
  /\ calls = 0
  /\ did = NoCall
  /\ walk = NoWalk

-----------------------------------------------------------------------------
(* Prowlarr keeps every indexer a profile that is there, and only tags     *)
(* that are there are given to a record.                                   *)
Fits(f, h) ==
  /\ f.of = "indexer" => f.profile \in Are("appprofile", h)
  /\ f.tags \subseteq Are("tag", h)

Put(h, x) == {[h EXCEPT ![x] = f] : f \in {g \in Forms[x] : Fits(g, h)}}
Without(h, x) == [h EXCEPT ![x] = Gone]

(* Of these resources a thing may be new: no record is there. *)
Missing(of, h) == {x \in Things : h[x] = Gone /\ \E f \in Forms[x] : f.of = of}

(* Prowlarr keeps a profile that is used, and the last. *)
MayGo(x, h) ==
  h[x].of = "appprofile" =>
    /\ Are("appprofile", h) # {x}
    /\ \A i \in Are("indexer", h) : h[i].profile # x

(* What Prowlarr may hold after a step; a step that can do nothing is      *)
(* refused, and changes nothing.                                           *)
After(step, h) ==
  LET of == step.what.of
  IN CASE step.do \in {"create", "create off"} -> UNION {Put(h, x) : x \in Missing(of, h)}
       [] step.do \in {"make", "make one"} -> UNION {Put(h, x) : x \in Missing("tag", h)}
       [] step.do \in {"save", "bulk", "unbulk", "rename"} ->
            UNION {Put(h, x) : x \in Are(of, h)}
       [] step.do = "delete" -> {Without(h, x) : x \in {y \in Are(of, h) : MayGo(y, h)}}
       [] step.do = "drop" ->
            {Without(h, t) : t \in {u \in Are("tag", h) :
                                      \A r \in Routed : CarriersOf(u, r, h) = {}}}
       [] OTHER -> {h}

(* What it may hold after a call, ended early or not. *)
Onwards(step, hs) ==
  IF step.do \in Changing THEN hs \cup UNION {After(step, h) : h \in hs} ELSE hs

Outcomes(path, h) ==
  LET upto[n \in 0..Len(path)] ==
        IF n = 0 THEN {h} ELSE Onwards(path[n], upto[n - 1])
  IN upto[Len(path)]

Restarts(tool) == tool = "server_restart"

(* What filter_list may ever list, and what it lists now. *)
Listable == {x \in Things : \E f \in Forms[x] : f.of = "customfilter"}
Filters == Are("customfilter", held)

(* None of them was deleted or renamed. *)
AsListed == \A x \in Filters : held'[x] # Gone /\ held'[x].label = held[x].label

(* A call of one of the session's tools. *)
Call(tool, with) ==
  /\ calls < MaxCalls
  /\ calls' = calls + 1
  /\ did' = [tool |-> tool, with |-> with]
  /\ LET path == PathOf[tool][with]
     IN /\ held' \in IF Restarts(tool) /\ staged THEN {Start, held}
                     ELSE Outcomes(path, held)
        /\ staged' \in IF \E step \in Writes(path) : step.do = "restore"
                       THEN {staged, TRUE}
                       ELSE {staged /\ ~(Restarts(tool) /\ held' = Start)}
  /\ walk' = [walk EXCEPT !.calm = @ /\ (walk.at = "page" => AsListed)]
  /\ UNCHANGED <<sel, told>>

(* Prowlarr notices something. *)
Tell(t) ==
  /\ calls < MaxCalls
  /\ calls' = calls + 1
  /\ told' = told \cup {t}
  /\ did' = NoCall
  /\ UNCHANGED <<sel, held, staged, walk>>

-----------------------------------------------------------------------------
(* filter_list's rows: by what they are saved for and called, as a number  *)
(* stands for it, and those that are called the same by their ids.         *)
ListedBefore(x, y) ==
  \/ held[x].label < held[y].label
  \/ held[x].label = held[y].label /\ x \in Before[y]

Rank(x) == Cardinality({y \in Filters : ListedBefore(y, x)})
Rows == [n \in 1..Cardinality(Filters) |-> CHOOSE x \in Filters : Rank(x) = n - 1]

(* The client begins to read the list in pages of a limit it chose, *)
StartWalk(asked) ==
  /\ "filter_list" \in Served
  /\ walk.at = "none"
  /\ calls < MaxCalls  \* bound
  /\ walk' = [at |-> "page", asked |-> asked, offset |-> 0, got |-> {},
              rows |-> Filters, calm |-> TRUE]
  /\ UNCHANGED <<sel, held, told, staged, calls, did>>

(* and goes on from each page's next_offset until there is none. *)
NextPage ==
  /\ walk.at = "page"
  /\ LET page == Paged(Rows, walk.asked, walk.offset)
     IN walk' = [walk EXCEPT !.got = @ \cup {page.rows[i] : i \in DOMAIN page.rows},
                             !.offset = page.next,
                             !.at = IF page.next = 0 THEN "over" ELSE "page"]
  /\ UNCHANGED <<sel, held, told, staged, calls, did>>

Next ==
  \/ \E tool \in Served : \E with \in Given[tool] : Call(tool, with)
  \/ \E t \in Tellings : Tell(t)
  \/ \E asked \in Asks : StartWalk(asked)
  \/ NextPage

Spec == Init /\ [][Next]_vars

-----------------------------------------------------------------------------
TypeOK ==
  /\ sel \in Selections
  /\ held \in Holdings
  /\ told \in SUBSET Tellings
  /\ staged \in BOOLEAN
  /\ calls \in 0..MaxCalls
  /\ did.tool \in AllTools \cup {""}
  /\ walk \in [at : {"none", "page", "over"}, asked : Asks \cup {0},
              offset : 0..Cardinality(Listable), got : SUBSET Things, rows : SUBSET Things,
              calm : BOOLEAN]

(* A read-only session changes nothing Prowlarr holds, whatever it allows  *)
(* by name and whatever its calls are given (cli/flags.go: "only tools     *)
(* that never change Prowlarr's state").                                   *)
ReadOnlyChangesNothing == [][sel.readOnly => UNCHANGED held]_vars

(* No record but a tag goes from Prowlarr unless the session was started   *)
(* with the tools that delete and the call was confirmed; or with a        *)
(* restored backup, which takes a confirmed call too (tools/all_tools.go,  *)
(* Instructions and Options.EnableDelete).  The backups themselves, which  *)
(* are files, are no records and not part of what is held here.            *)
NothingGoesUnasked ==
  [][\A x \in Things :
       held[x] # Gone /\ held'[x] = Gone /\ held[x].of # "tag" =>
         \/ sel.enableDelete /\ "confirm" \in did'.with
         \/ staged /\ Restarts(did'.tool)]_vars

(* A call of a tool that tells a client it only adds leaves all that there *)
(* was as it was, even when it is cut short (tools/all_tools.go,           *)
(* toolHints).                                                             *)
AdditiveOnlyAdds ==
  [][did'.tool \in Additive =>
       \A x \in Things : held[x] # Gone => held'[x] = held[x]]_vars

(* When no audit finds anything (tools/audit*.go), then either there are   *)
(* no applications at all, which audit_unsynced only notes and which the   *)
(* counts do not show, or each enabled indexer is synced to one, by the    *)
(* rules Prowlarr goes by, whose searches use it.  In both cases an        *)
(* indexer gets past what its site is behind and sends its grabs to a      *)
(* client that is on, and someone is told of a warning.                    *)
CleanMeansWorking ==
  Clean(held, told) =>
    /\ \/ Unconnected(held)
       \/ \A i \in Enabled(held) :
            /\ \E a \in Are("applications", held) :
                 /\ held[a].on
                 /\ held[a].tags = {} \/ Share(held[a], held[i])
                 /\ Searches(held[a], held[i])
                 /\ held[a].cats \cap held[i].cats # {}
            /\ held[held[i].profile].uses
    /\ \A i \in Enabled(held) :
         LET idx == held[i]
         IN /\ idx.cloudflare => Solved(i, held)
            /\ idx.client # 0 => held[idx.client] # Gone /\ held[idx.client].on
    /\ \E n \in Are("notification", held) :
         "health_issue" \in held[n].sent /\ held[n].warnings

(* A client that reads a list to its end has seen every row that was there *)
(* when it began, in pages of whatever limit, whatever was added meanwhile,*)
(* if none was deleted or renamed while it read (tools/all_tools.go,       *)
(* Instructions: "while there is another page, the next_offset to pass     *)
(* back as offset").                                                       *)
WalkSeesAll == walk.at = "over" /\ walk.calm => walk.rows \subseteq walk.got

(* While a client reads the list and none was deleted or renamed, what it  *)
(* has still to see is at its offset or after, by its place in the list.   *)
WalkOn ==
  walk.at = "page" /\ walk.calm =>
    /\ walk.rows \subseteq Filters
    /\ \A x \in walk.rows : x \in walk.got \/ walk.offset <= Rank(x)

(* With that every indexer has a profile that is there, the inductive      *)
(* invariant: see SessionProofs.                                           *)
IInv == TypeOK /\ Profiled(held) /\ WalkOn /\ WalkSeesAll

(* A session with the curation set has a tool for each finding: one that   *)
(* the finding's fix names, unless every one of those deletes (README.md:  *)
(* "curation loads every audit and what fixes its findings").              *)
CurationFixes ==
  "curation" \in sel.sets =>
    \A audit \in DOMAIN Fixes : \A f \in Found(audit, held, told) :
      LET named == Fixes[audit][f.problem] \ DeleteTools
      IN named # {} => named \cap Served # {}
=============================================================================
