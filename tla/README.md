# prowlarr-mcp, specified

prowlarr-mcp is an MCP server: a client (a language model's host) calls tools, a
tool's handler makes HTTP requests to one Prowlarr and answers. The calls of one
client turn run **at once**, each in a goroutine, and Prowlarr's API is
read-the-whole-record, send-the-whole-record-back. What is hard to get right here
is therefore not inside one handler: it is what two handlers, Prowlarr's own
background work and a failing network do to each other between a handler's
requests. That is what these modules are about.

Paths below are relative to `src/`.

## 1. The system

### Parts, their state, and what they do

| part | code | state | operations | what makes it correct |
|---|---|---|---|---|
| lock set | `vendor/github.com/katbyte/go-kt/lock` | a read-write lock `all`; a table of counted mutexes, one per key in use | `By(keys)`, `All()`, their unlocks, `Idle` | one lock per key; nothing left behind; All excludes every By; nobody waits for ever |
| record locks | `tools/locks.go` | none of its own | `editing` (a record, and the tags when it may make one), `makeTags`, `tagsLock` | calls of one turn do not undo each other |
| indexers, applications, proxies, download clients, notifications, sync profiles, saved filters | `tools/indexers.go`, `indexer_edits.go`, `apps.go`, `proxies.go`, `downloadclients.go`, `notifications.go`, `profiles.go`, `filters.go` | a handler's copy of the record | list, get, add, edit, bulk edit, delete, test, sync | an edit changes what it names and nothing else; a delete is asked for; an add leaves what there was |
| server settings | `tools/settings.go` | a handler's copy of a section | `server_settings`, `server_settings_edit` | as an edit; what decides how Prowlarr is reached needs confirmation |
| catalogue | `tools/catalog.go` | the kept catalogue, its age, a mutex | `catalog`, `forgetCatalog`, `indexer_catalog`, `indexer_add` | never older than what was reported as updated; the mutex is never kept |
| tags | `tools/tags.go`, `resolveTags` in `tools/common.go` | none | `tag_create`, `tag_edit`, `tag_delete`, `tag_list`; tags made on the way by edits and adds | a label names one tag; a tag in use does not go |
| commands | `tools/commands.go`, `sdk/prowlarr/command_method_postcommand.go`, `runCommand` in `tools/common.go` | none; Prowlarr has the queue | `command_list`, `command_cancel`, `server_restart`, `WaitForCommand` | what is answered of a command or a restart is true; waits end |
| tasks, server information | `tools/server.go` | none | `task_run`; the rest reads | as commands |
| backups | `tools/backups.go` | none; Prowlarr has the files, and a restored one is swapped in at its next start | `backup_list`, `backup_create`, `backup_delete`, `backup_restore` | nobody is half way through a write while one is put back |
| history | `tools/stats.go` | a walk's page and what it has handed on | `eachHistory`, under `history_list` | nothing is missed but for what deletions move past it; bounded |
| releases | `tools/releases.go` | none | `release_search`, `release_grab` | a grab is reported under its own name |
| audits, sync verdicts | `tools/audit*.go`, `tools/sync.go` | one snapshot, parts of it read lazily behind a mutex | nineteen reports | no finding means a setup that works, where there are applications; a finding's fix can be made |
| paging, confirm | `tools/paging.go`, `confirm.go`, `go-kt/mcp/registry/helpers.go` | none | helpers of the lists and the deletes | pages add up to the list; nothing without confirm |
| registry and selection | `tools/all_tools.go`, `cli/flags.go`, `vendor/github.com/katbyte/go-kt/mcp/registry` | the tools of a session | toolsets, read-only, enable-delete, allow and deny; hints | nothing is offered that was switched off; a hint is true |
| HTTP client | `vendor/github.com/katbyte/go-kt/httpc` | a per-request count of tries | `Fetch`, `RoundTrip` | a write never lands twice; one limit for both loops |
| API client | `sdk/prowlarr`, `vendor/github.com/katbyte/pandorest` | none | one function for each route | the statuses that are success |
| MCP server, command line, SDK generator, test support, text from outside | `vendor/github.com/katbyte/go-kt/mcp/server`, `cli`, `main.go`, `sdk/pandorest`, `lib/testenv`, `tools/outside.go` | start-up only | transport, plumbing, formatting | not about state |

### How they interact

- The MCP server runs the calls of a turn in goroutines of their own. They share
  **one** `registry`: its lock set, its kept catalogue and its HTTP client.
- A handler takes its locks once, at one place, and defers the unlock. An edit takes
  its record, and the tags with it if it may make one; the tag tools take the tags;
  `backup_restore` and `server_restart` take everything. The adds and
  `indexer_bulk_edit` take only the tags, and only while they make them; the deletes
  take nothing.
- Each request goes to Prowlarr, which is shared with its web page, its schedule and
  other clients, and which acts on its own: it starts queued commands, records and
  trims its history, grabs for its applications, goes down and comes up.
- Every request goes through the HTTP client, which may send it again.
- A session has the tools it was started with, and what an audit finds is fixed with others
  of them, if it has those.

### What is hard

Interleavings of calls between their requests (lost updates, a tag made twice or
deleted under an edit); the lock table's entries coming and going while calls wait on
them; the restart, which answers for a moment after it was told; a catalogue read that
is on its way when the catalogue is forgotten; commands that Prowlarr starts between a
look and a cancel; paging through a list that moves; lost answers and retries; names taken
from a history that others write; and rules kept in several places that have to agree: gates
and hints of 82 tools, audits and the verdicts they report, sets of tools and the fixes that
need them. The `hazards` of `PROJECT.json` list each of them at its line, with the properties
that cover it or the reason none does.

## 2. The modules

Abstract specifications are `Turns` (what locks promise) and `Serial` (what a turn's
calls promise); `LockSet` implements the first and `Edits` the second.

```
   LockSet --implements--> Turns <--uses-- Edits --implements--> Serial
                             ^-----uses--- Restart
   Routes <-- Paths, Tools <-- PathRules <-- Edits, Session
             Audits, Paging <-- Session
   Catalog      History      Requests
```

| module | models | state and actions against the code |
|---|---|---|
| `Turns` | the promise in `lock.go` | `Ask`/`AskAll` a call names its keys or everything; `Grant` the call returns; `Unlock` |
| `LockSet` | `set.go`, complete | one action for each stretch of code between two places where a goroutine can be held up; what is done under `s.mu` is one step. `table` is `s.keys`, `holders` and `owner` a `keyLock`'s count and mutex, `ref` the pointer a caller keeps, `readers`/`writer` are `s.all`. A `keyLock` has an identity, as in memory, so a lock dropped too early and made again is a different one |
| `Routes` | the requests of `sdk/prowlarr` that the tools send | one operator for each, with its verb, the resource it is about and the statuses it takes for success |
| `Paths` | every handler of `tools/` | one operator for each tool: the sequence of steps its handler takes when no request fails, as its arguments decide it. A step is a request or a lock with the role it plays (`find`, `lock`, `read`, `look`, `make`, `save`, `delete`, ...). The code's own helpers (`editing`, `makeTags`, `editTags`, `forcedAdd`, `deleting`, `runCommand`, `snap`) are operators of the same names, where TLA+ allows, and the tools are put together from them as in the code |
| `PathRules` | what every path keeps to | no code of its own: the rules, such as "a tag is made where tags are locked" and "one write at most", that the proofs about `Edits` show of each path and rely on from then on; and the vocabulary of the steps that `Session` shares |
| `Tools` | `all_tools.go`, the registry's `selected` | the toolsets, the kinds and the hints as sets of tools; `Selected` is the chain of gates, `ToolOptions` the default of the command line |
| `Edits` | the calls of one turn at once against one Prowlarr | each call has the rest of its path in `todo`; an action for each role takes the step, so that others come between any two. A request can fail without effect (`Fail`) or be made and its answer lost (`Written`), a handler returns through its deferred unlock (`Return`). A record is of any kind: `rec[r].of` is the resource it is about |
| `Serial` | what `tools/locks.go` is there for | every call's change to Prowlarr is one step on what Prowlarr then has; tags may be made, renamed and dropped by their own rules |
| `Restart` | `server_restart` in detail, beside edits | `Status` is the read before the lock, `Tell` the request, `Poll` one round of the loop, `Late` its deadline, `Cancelled` the client's cancel; `GoDown`/`ComeUp` are Prowlarr's |
| `Catalog` | the kept catalogue; `indexer_add`, `task_run`, `command_cancel` | `mu`, `entries` and `old` are `catalogCache`; `Look`, `Read`, `KeepRead`, `Forget` are what is done in the mutex, the read from Prowlarr included; `Run`, `AskAfter`, `Late` are `runCommand` and `WaitForCommand`; `Start`, `Fetch`, `Finish` are Prowlarr's |
| `History` | `eachHistory`; `release_grab` | `ReadPage` is one turn of the loop: the page, the cutoff, the limit, the end. `GrabNext`, `Answered` and `NameGrabbed` are a grab: sent, answered, and named from the newest grabs. `DeleteIndexer` is this program's own `indexer_delete`, which takes an indexer's events out of wherever they are; `Happen`, `GrabTheirs` and `Trim` are Prowlarr's |
| `Requests` | `Fetch` around `RoundTrip` | `again` is `resent.n`; each outcome of a try, and each return and repeat, is an action |
| `Audits` | `audit*.go`, `sync.go` | one operator for each audit: its findings, from what Prowlarr holds; `Syncs` is `syncs` with its rules in their order; `Fixes` the tools that each finding's fix names |
| `Paging` | `paging.go`, `helpers.go` | `PageLimit`, `PageOffset`, `NextOffset`, `Paged` |
| `Session` | a client's session | `Call` is a call of a tool the session has, with what its path may leave behind, cut short anywhere; `StartWalk`/`NextPage` read `filter_list` to its end, its rows in the order the handler sorts them into (`Rank`); `Tell` is Prowlarr noticing something that an audit reports |

`MC*` modules give the constants for TLC; `*Proofs` modules hold the theorems.

### Abstractions

- A record in `Edits` is its kind, its switch (an application's is its sync level), one
  setting (`prio`, standing for each setting that is a single value) and its tags. Names are
  the records' and tags' own values; what `find` does to choose between a name and an id is
  left out.
- In `Session` a record is what the audits look at, one of a few forms (`MayBe` in
  `MCSession`); a call that saves may leave any of them, since what the client asks for is
  its own affair. Which of a resource's records it is about is left open too. What
  `filter_list` sorts by, the page and then the label, is one number, `label`; the sort is
  stable, so that filters of one label stay in the order Prowlarr gives them, by id.
- Requests whose answers decide nothing and which change no record are taken together in
  `Edits` (`PassBy`); they could fail, which `Fail` covers.
- What the audits read off dates, counts and thresholds (failures, statistics, VIP, backups'
  age, health checks) is reduced to Prowlarr saying so: `told`. The audits of how a setup
  hangs together are modelled rule by rule.
- A pattern of tools to allow or deny is the set of tools it matches, a family the tools of
  one prefix.
- A tag is its number, in the order Prowlarr makes them; labels are model values.
- A copy of a catalogue is the number of the definitions it was built from; an event of
  the history is its number in the order they happen.
- Lock keys are numbers in `LockSet`: `By` sorts by kind, id and field, and only the order
  matters.
- Prowlarr is modelled from how the code uses it: it makes a write whole, makes a tag of
  the next number, refuses to delete a tag in use, a profile that is used or the last one, and
  to cancel a command that has started, and keeps a restored backup for its next start.
- In `Edits` a write that the client gave up on is made at once or never. One that lands
  after the client's time limit (`pandorest/client/client.go:65`) is not modelled; the
  locks could not order it either. `server_restart` is one step there; `Restart` takes it
  apart, with a wait that is too short.

## 3. What is checked

Bounds are in the `MC*` modules and the `.cfg` files.

| run | instance | what holds, or is found |
|---|---|---|
| `lockset` | 3 callers, 2 keys, 2 locks in memory | `OneLockPerKey`: a key has an entry exactly while someone holds or awaits it, and all of them use that one; `NothingLeftLocked`; `ImplementsTurns`; `EveryCallReturns` |
| `edits` | 3 calls, each any of 14 jobs of the tools that lock, or `indexer_delete`; 2 indexers, an application, 3 labels | `ImplementsSerial`: whatever the interleaving and whichever requests fail, what becomes of Prowlarr is what some order of whole calls does; `EditUndoesNothing`: a save changes what its call was asked to and keeps what others have set; `NoneDangling`; `QuietUnderAll` |
| `edits_all` | 2 calls, any of 48 jobs: every tool that changes a record, of a record of each kind, one of which may edit what the other adds, and six tools that change none | `LabelsApart`; `AddedTagsExist`; `RepeatChangesNothing`: a call hinted idempotent, made again after it was answered, changes nothing; `EveryCallEnds` with every lock let go |
| `edits_bulk` | an `indexer_edit` and an `indexer_bulk_edit` | **violation** of `EditUndoesNothing` |
| `edits_unused` | a `downloadclient_add` and a `tag_delete` | **violation** of `UnusedIsUnused` |
| `restart` | 1 restart, 2 edits, at most 3 starts of Prowlarr | `RestartedIsTrue`, `NoneCutOff` while the call waits, `EveryCallEnds` whatever Prowlarr does |
| `restart_twice` | 2 restarts of one turn | **violation** of `RestartedIsTrue` |
| `catalog` | a read, an add, an update of the definitions, a cancel | `NeverOlder`, `CancelledNeverRuns`, `EveryCallEnds` |
| `history` | pages of 2, at most 5 events handed on, 0 to 8 there at first, 10 ever, of which two indexers that may be deleted own three and two; grabs of 1 to 3 releases | `MissedAreFew`: a walk misses no more events than `indexer_delete` took off the pages it had read, so none when nothing was deleted, whatever is recorded or trimmed; `ReadsAreBounded`; `GrabNamesOwn`: a grab with the indexer to itself answers each release by its own name, whatever is recorded, trimmed or deleted |
| `requests` | 3 tries, as the client is set up | `WriteLandsOnce`, `SentNoMoreThanTries` |
| `session` | 15 things in a setup where all is well, 5 ways to start, 2 events | `ReadOnlyChangesNothing`, `NothingGoesUnasked`, `AdditiveOnlyAdds`: the gates and hints keep their promises call by call, cut short or not; `CleanMeansWorking`: when no audit finds anything, every indexer that is on gets through and has where to send, and is synced and used **unless there are no applications at all**; `WalkSeesAll`: by pages of whatever limit, a client sees every filter that was there when it began, filters added meanwhile or not, if none was deleted or renamed |
| `curation` | a session with the curation set | **violation** of `CurationFixes` |

### Why the bounds are enough to be worth something

- `lockset`: with two keys and three callers there are two callers after both keys in
  either order of naming, a third that takes a lock up as another drops it, and an All
  waiting while one reads and another comes; a second keyLock is needed only if the first
  is in use, so two are as many as can be in use (the allocation never blocks: TLC would
  report the deadlock). Callers come back any number of times.
- `edits`: three calls are an edit, the call that disturbs it, and a third that disturbs
  the repair (a restore and a restart around an edit, a rename and a delete around a tag
  look-up). The jobs name one indexer three times over and two labels that are made,
  removed, renamed and deleted by each other. `MaxTag` is one more than the calls, so no
  call is ever held up by it. Calls are interchangeable, so the run uses their symmetry.
- `edits_all`: two calls of a pair of tools are enough for what one does to the other; every
  kind of record is there once, and once more as what a call adds.
- `restart`: each restart of a turn makes at most one start, so three starts are enough for
  the two restarts of `restart_twice` and more than one needs; the bound never stops a call,
  since its deadline does not need Prowlarr.
- `catalog`: one reader suffices for staleness, since the adder reads too; a second set
  of definitions is what makes a catalogue stale.
- `history`: the limit of 5 is not a multiple of the page of 2, the history is shorter
  than, as long as and longer than both, and the cutoff (event 3) falls within a page or
  between pages as events happen. A walk asks for three pages at most, so the two or more
  events that `MaxLast` leaves to happen, any number trimmed, and both deletions can come between
  any two of them. One of the indexers that may be deleted has events next to each other and
  apart, the other the two that are the newest of the longest history; in the run a walk does miss
  two events, with two deleted behind it. Three releases have a first, a last and one between.
- `requests`: 3 is the code's own value; the theorems are for any.
- `session`: the setup is clean, so each finding is one change away, and two changes make the
  pairs that an audit weighs against each other: a tag taken off and another put on, a profile
  killed and an indexer moved to it, a client gone that an indexer is pinned to. A call is any
  outcome of its path, cut short anywhere, so one tool's call covers its failures. The last
  call only says what led to a state, and the run's `VIEW` leaves it out of what makes states
  different: the next call does not depend on it, and the action properties are checked on
  every step all the same. The list is asked for with no limit (the default, 2), with 1 and
  with one more than the most (3), and has three filters, up to four, so that pages end within
  the list, at its end and past it. The fourth may come in at the top of the list, among equals,
  and the first may be renamed to the end of it.

`CHECK_DEADLOCK FALSE` is given where a finished walk, request or session has nothing to go
on with (`history`, `requests`, `session`, `curation`). Elsewhere the end of a turn is an
action of its own (`TurnOver`), and a deadlock would be a call that hangs.

### Fairness, and why the code justifies it

- `LockSet!Fairness`: a goroutine that can go on does. Strong fairness is used at exactly
  two places, `k.Lock()` and the mutex that writers of `s.all` queue on: Go's
  `sync.Mutex` goes over to handing itself to its longest waiter once one has waited a
  millisecond. Go's `RWMutex` lets the readers that a writer shut out in before the next
  writer: that is in `UnlockAll`, not in the fairness. A caller need not ask, but one that
  has its turn gives it back: every handler defers its unlock, and each request in it ends
  by the client's time limit.
- `Edits!FairSpec` and `Restart!FairSpec`: weak fairness of a call's own next request, and
  strong fairness of the locks being granted, which is what `LockSet`'s `EveryCallReturns`
  shows of the implementation. Failures are never assumed. `Restart` lets time pass
  (`Late`) and asks nothing of Prowlarr.
- `Catalog!FairSpec`: strong fairness of the catalogue's mutex, for the reason above; time
  passes; Prowlarr need not run what it queued.

### What was found

1. `restart_twice`: `server_restart` reads the start time it compares with before it waits
   for its locks (`tools/commands.go:113`). The second of two restarts of one turn compares
   with the start before the *first* one's restart, tells Prowlarr to restart again, is
   answered by the Prowlarr that is about to go down, and says `restarted=true`.
2. `edits_bulk`: `indexer_bulk_edit` writes indexers without their locks
   (`tools/indexer_edits.go:350`), so an `indexer_edit` that has read one of them sends back
   what was there before and undoes the bulk edit, which `tools/locks.go:11` says the
   calls of one turn are kept from.
3. `edits_unused`: download clients carry tags (`tools/downloadclients.go:98`), and what
   `tag_list`, `audit_tags` and `tag_delete` go by names indexers, applications, proxies and
   notifications (`tools/tags.go:70`). A tag that a client alone carries is called unused,
   "nothing carries it", and its delete is sent.
4. `curation`: the set called that has five audits with findings whose fixes it has none of the
   tools of (`tools/all_tools.go:72`), though `README.md:61` promises "every audit and what fixes
   its findings": `audit_backups` (`no_backup`, `backup_time_unreadable`, `backup_stale`),
   `audit_notifications` (all four), `audit_download_clients` (`blackhole_takes_no_usenet`,
   `client_failing`), `audit_definitions` (`definition_gone`, `definition_obsolete`,
   `definition_notice`) and `audit_health` (`IndexerCheck`, `UpdateCheck`, `AllowedHostsCheck`).
   The run shows the first it meets, a stale backup; the fifteen are those of `Fixes` in `Audits`
   that no tool of the set, nor of `core`, serves.

Other things the models show, of which no property is made or which a property is stated to
leave out:

- A forced add is a create and an update with no lock held (`tools/catalog.go:294`), so that a
  restart can come between them and leave the record switched off. `QuietUnderAll` is checked of
  the tools that lock.
- An event recorded between two pages of the history makes another be handed on twice, and
  for the events of a deleted indexer that a walk had read it may miss as many that stay
  (`tools/stats.go:300`). No walk by page number can do better, and `MissedAreFew` says that this one
  does no worse.
- Without applications `audit_unsynced` notes that there are none and looks no further
  (`tools/audit_routing.go:30`): nothing is synced, and `audit_all`, which says to "call the audit
  whose count is not zero" (`tools/audit.go:297`), may have zeros alone to show, with that note
  beside one of them. `CleanMeansWorking` makes an exception of such a setup.
- An offset is a place in a list that is read afresh for each page (`tools/filters.go:114`): a row
  deleted before it, or renamed from before it to after it, moves those behind it up by one, so
  that the next page begins after a row nobody has seen. `WalkSeesAll` holds of the lists nothing was
  taken out of and nothing renamed in (`calm`), and only of those.

## 4. What is proved

The proofs are for **every** value of the constants, under the named assumptions of each
module, and nothing else:

| module | what it assumes |
|---|---|
| `LockSet` | callers are finite in number, keys are natural numbers, the two "none" values are not callers or locks |
| `Requests` | at least one try |
| `Restart` | Prowlarr starts at least once |
| `Catalog` | a call has one tool, each cancel names a command, there are definitions |
| `History` | pages, the limit and the cutoff are numbers, a page holds an event and the limit is at least one; what a deleted indexer owns are events; the releases grabbed are finitely many |
| `Serial` | the hypothesis `InOrder`: jobs have their shape, and the turn begins with labels apart and no dangling tag |
| `Paging` | the default limit and the greatest are numbers |
| `Session` | `SelectionsAssumption`: what it may be started with has the fields of the command line; `FormsAssumption`: things are finitely many, a record stays one of its resource, a filter has a label to sort by; `OrderAssumption`: ids are a strict order; `StartAssumption`: Prowlarr holds records, each indexer with a profile that is there; `BoundAssumption`: limits are integers, negative ones too |
| `Edits` | `SerialAssumption`, which is `InOrder` of its instance; `JobsAssumption`: a job is of one of the 82 tools and has the arguments that its handler requires (one record to an edit, a label to `tag_create` and `tag_edit`, a section to `server_settings_edit`) and none that the tool does not take (no tags to the edits of what has none), and names finitely many labels to take off |
| `Edits`, for the theorems on `Serial` | as a hypothesis of them: no call is of a tool in `UnlockedTools`, which writes a record without its lock (`Orderly`). `edits_bulk` shows that they are false without it. The jobs of `edits` are all `Orderly` |
| `Edits`, for `RepeatsChangeNothing` | as a hypothesis of it, `Apart`: no `indexer_bulk_edit` adds a tag that it removes |

- `LockSetProofs`: `Inductive` is the invariant `IInv`, and `TypeCorrect`, `OneLockForEachKey`
  and `LeavesNothing` follow from it. `OneLockPerKey` is not inductive by itself: that the last
  caller's count is 1 when it drops the entry rests on every caller with a pointer being
  counted, and that on where each caller stands. `IInv` adds `Position` (where a caller is says
  what it has asked for, taken and counted itself on), `EntriesApart` (no two keys share a
  lock, so dropping one entry drops no other), `Ownership` (who took a key holds its mutex until
  it unlocks) and `Inside` (`s.all` is held for reading from `By` to the end of `unlock`, and for
  writing with no reader in). There is one lemma for each action.
- `LockSetProofs!Implements`: `LockSet` implements `Turns`. `ByReturnsAlone` and
  `AllReturnsAlone` are the heart of it: two callers with their turns cannot both own the one
  lock of a key they share, and `all` excludes whoever is inside.
  `NeverTogether` says it of the lock set itself: mutual exclusion, for any number of calls and
  keys.
- `EditsProofs`, of `Serial`: `SerialLabelsApart` and `SerialNoneDangling`, for any calls,
  records and tags. Both rest on the same invariant: numbers above the last tag made are unused, so a
  new tag cannot take a number that something carries, and the same holds of the backup that a
  restart may bring back.
- `RequestsProofs`: `LandsOnce` and `SharedLimit`, for any number of tries. `IInv` says what the
  code's comments argue: a write that goes out again has only ever been answered 429 or not
  been sent, so it has not been acted on.
- `RestartProofs`: `NoEditCutOff`, for any number of restarts and edits: a restart is told in
  a turn at everything (`Position`) and Prowlarr goes down only when told (`Tellers`), so an edit
  that has its record locked is not half way. `OneRestartIsTrue` takes one restarter: then what
  it read first is still Prowlarr's start when it tells it to restart (`OnItsOwn`), and another
  start time is that of its own restart. The hypothesis is needed: `restart_twice`.
- `CatalogProofs`: `NeverGivenOlder` and `CancelledStaysOff`, for any readers, adders, updates
  and cancels. The heart of the first is `KeptIsNew`: a catalogue that is about to be kept is as
  new as what has been told of, which holds because to forget the kept one takes the mutex that
  a read under way holds. The second rests on what Prowlarr does: a command fetched only if it
  ran, and a cancelled one stays so.
- `HistoryProofs`: `NoEndlessWalk`, `WalkMissesFew` and `GrabsNameOwn`, for every page size, limit,
  cutoff and number of releases, and whatever events the deleted indexers own. An event's `Place`
  is the number of newer ones there are, and a page is a slice of the places (`PageRecords`). What
  Prowlarr records moves an event to a later place and what it trims moves none (`NoneMoveUp`), so a
  walk that has handed on all before its page stays so; a deletion moves up past the page's start at
  most as many as it took from before it (`FewMoveUp`). That is `FewPassed`: of what is still to be
  handed on, no more is behind the walk than was taken from there; at the last page nothing is ahead.
  `PagesGiven` ties what was handed on to the page's number, which bounds the reads. `OwnNewest` says
  that while nobody else grabs, the last releases of the indexer's grabs, as far as they are still
  recorded, are those that were sent, in order, which is what naming them by position needs. That
  Prowlarr has recorded every release of a bulk grab when it answers it is taken of Prowlarr
  (`Answered`), as the code takes it.
- `EditsProofs`, of `Edits`: of the calls of a turn, of any of the 82 tools, any number of them at once,
  every request failing or losing its answer where it may: `LabelsStayApart`, `AddedTagsAreThere`,
  `AllIsQuiet` (where the calls are of tools that lock what they write; the forced adds and
  `indexer_bulk_edit` do not) and `TypeCorrect`.
  The argument has two halves. The first is about the handlers alone: the lemma `PathProper`
  of `PathsProofs` shows of every tool's path, whatever its arguments, that each step finds *opened* before it
  what it relies on: tags are written in a stretch where the tags are locked, made and saved in
  one where they were read after that, a record is sent back after it was read, and half-way
  states lie within a turn (`Kept`). The second is about the interleaving: `OnPath` says that what
  a call still relies on is open *now*, or the rest of its path opens it (`Sound`). A call's own
  step moves it along its path (`OnwardPath`); another call's step cannot close what it holds
  open (`Bystander`): a tag changes only in the turn of a call that holds the tags, and
  `Turns`' exclusion leaves one such. So the copy of the tags that a call decides by is Prowlarr's
  (`SeesTags`), a label it found missing is missing, and one it found is there.
  (Given as an `INVARIANT`, `IInv` holds of the instance of `edits` in TLC too.)
- `EditsProofs`, of the two: `Implements`, that `Edits` implements `Serial`: whatever the calls of a turn
  ask, each makes its change once, in one step, to the records as they are at that moment. With
  it `EditsUndoNothing`, that a save changes what its call asks and nothing else, and
  `NoneLeftDangling`, that no record is left with a tag that is gone, which `SerialNoneDangling`
  proves of serial changes and the refinement carries over. A call's change is made when its write reaches
  Prowlarr (`made` is `wrote`); tags are made, renamed and dropped when Prowlarr does so; every
  other step is none of `Serial`'s.
  `IInv` is not enough for this: it does not say that a path writes once, nor that what a save
  sends back is still what Prowlarr has. `CourseInv` adds that, again in two halves. `PathCourse`
  (in `PathsProofs`) is about the handlers: the path of every tool but the unlocked ones changes Prowlarr's records
  with one request at most (`Once`), reads and saves a record in a stretch where it is locked,
  restarts while everything is, gives tags only after it has made them, and sends no request that
  is another kind of tool's (`Serves`). `OnCourse` is what is left of that on the way. The other
  half is `CopyIsCurrent`: what an edit has read is the record as it is, or the record is gone, as
  a delete takes no lock and may come between. It holds because another edit of the record holds
  its lock (`RecordsApart`) and a restart, which may swap all records, holds everything. `DropsFew`
  gives the bound on the tags that `Serial` lets an edit take off. `RoutedAlone` is why
  `tag_delete` is safe: Prowlarr refuses to drop a tag that a record of a kind it names carries, and
  in these calls nothing else carries one (`edits_unused` has a client that does).
  (`CourseInv`, too, holds as an `INVARIANT` of the instance of `edits`.)
- `EditsProofs!RepeatsChangeNothing`: a call made again, word for word, of a tool hinted idempotent
  changes nothing more, however many calls asked the same are about it and wherever each fails.
  Again the first half is about the handlers: the lemma `PathFamiliar` of `PathsProofs` says which
  changes the path of such a tool may have, and that what it gives or takes off was made or looked
  up before (`Prepared`). The second half is `RepeatInv`, of the turns in which every call is asked
  the same: the change of every step that an answered call has passed is there (`AllLanded`, with
  `Landed` for what each kind of step leaves) and stays there whatever the others do; a call that
  makes tags sees no tag that has since changed, since in these turns tags only grow
  (`KnowsTags`); an edit sends back a change to what the turn began with, or what another has saved
  already (`CopyOfStart`); and the tag a delete drops is the one there was of that label (`DropsIt`).
  So a step of a repeat writes what is already there.
  The hypothesis `Apart` leaves out one kind of job: an `indexer_bulk_edit` told to add and remove the
  same tag adds it with its first request and removes it with its second, so a repeat puts the tag
  on for a moment. With such a job TLC finds the property violated, and no job of a run is one.
  (`RepeatInv`, too, holds as an `INVARIANT` of the instance of `edits_all`.)
- `SessionProofs`: the six properties of the run, for sessions started with any selection of the
  tools, on any setup, with any forms a record may be given, and lists read with any limit. What a
  call may leave behind is a recursion over its path, which may end anywhere; `OutcomesWithin` is
  what is known of it: what holds before the call and is kept by every step of the path that
  changes something holds of every outcome. (It is an induction over numbers, taken through
  the least number of a set, which needs no operator for a parameter.) It leaves
  each property with one fact about the paths and one about a step:
  - `ReadOnlyKeeps`: no path of a read tool, whatever its arguments, has a step that changes
    something (`ReadPaths`), and a read-only session is served no others.
  - `GoesOnlyAsked`: a step that deletes a record is on the path of a delete tool given `confirm`
    (`ConfirmedDeletes`), and a session without the tools that delete is not served one, even if
    it allows it by name. Every other step keeps the records there are, or drops a tag. (The backups
    that `backup_delete` deletes are files, and not among the records.)
  - `AddsOnlyAdd`: on the paths of the additive tools nothing is written but what the call itself
    makes or creates (`AddPaths`).
  - `CleanWorksAlways`: by the rules of the audits, for any setup and not only those in reach
    of the run's (but for the sync of a setup without applications, `Unconnected`), and by one
    thing that none of them looks at: that each indexer has a profile that is there. That is `Profiled`, kept because Prowlarr keeps a profile that is used.
  - `WalksSeeAll`: `WalkOn` says that a row still to be seen is at the offset or after it. A
    row's place is the number of filters listed before it, so a filter that is added moves the rest
    on and never back (`RanksGrow`); and a page hands on all its rows up to the next offset, for any
    list and limit (`PageCovers`).

  `IInv` is `TypeOK` with `Profiled`, `WalkOn` and `WalkSeesAll`; it holds as an `INVARIANT` of the
  instance of `session` in TLC.

Only model-checked:

- every liveness property (`EveryCallReturns`, `EveryCallEnds`): fairness and ENABLED are out of
  the prover's reach;
- the violations, which are about one instance each.

## 5. What is not modelled, and what comes next

Next, in this order:

1. Proofs: the same refinement for the adds, where their tags are not dropped between being
   made and being given.
2. What is left of the parts that are modelled in part: `findCatalog`'s match, `find`'s choice
   between a name and an id, `logTail`'s window.

Not modelled, with the reason:

- `backup_create` answers the newest backup there is when its command is over; that another
  call or the schedule wrote it is possible and harmless.
- The conversions of `setFields` and `fieldValue`, the projections of rows, the sums of the
  statistics, the thresholds of the audits: one value made of another, with no state.
- The rows of `notification_test` that are dropped when a test fails on the way.
- The text clean-up in `outside` (formatting, character by character), the generated types of
  `sdk/prowlarr`, the SDK generator, the parsing of flags, the MCP transport (that it runs a
  turn's calls at once is what `Edits`, `Restart` and `Catalog` take from it) and the test
  support.
