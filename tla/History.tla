-------------------------------- MODULE History --------------------------------
(***************************************************************************)
(* The two readers of Prowlarr's history, which Prowlarr goes on writing   *)
(* to.  eachHistory (src/tools/stats.go), under history_list, reads it     *)
(* newest first, a page at a time, by page number.  release_grab           *)
(* (src/tools/releases.go) has releases of one indexer sent to a download  *)
(* client, and names them by the newest grabs recorded.                    *)
(*                                                                         *)
(* Events are numbered in the order they happen.  Prowlarr adds the next   *)
(* and trims the oldest, and indexer_delete takes an indexer's out of      *)
(* wherever they are.                                                      *)
(***************************************************************************)
EXTENDS Integers, Sequences, FiniteSets

CONSTANTS Size,       \* events on a page
          MaxEvents,  \* how many events the walk hands on at most
          Cutoff,     \* the oldest event that is not before the cutoff
          Starts,     \* how many events there may be when it begins
          MaxLast,    \* bound: how many events ever happen
          Owned,      \* the events of each indexer that may be deleted
          Releases,   \* what release_grab may be asked for, by guid
          Theirs      \* a release another call, or an application, grabs

ASSUME PagesAssumption ==
  /\ Size \in Nat \ {0} /\ MaxEvents \in Nat \ {0} /\ Cutoff \in Int
  /\ MaxLast \in Nat /\ Starts \subseteq 0..MaxLast
  /\ Owned \subseteq SUBSET Nat

ASSUME GrabsAssumption == IsFiniteSet(Releases) /\ Theirs \notin Releases

VARIABLES there,    \* the events Prowlarr has
          last,     \* the newest event there has been
          page,     \* the page read next
          given,    \* the events the walk has handed on
          seen,     \* how many it has handed on, one handed on twice twice
          pc,       \* "walk", "done" or "failed"
          began,    \* history: the events there were when it began
          lost,     \* history: how many were deleted off pages it had read
          fetched,  \* the releases grabbed from the indexer, oldest first
          guids,    \* the releases asked for, in order
          sent,     \* how many of them Prowlarr has grabbed
          grab,     \* "send", "read", "done" or "failed"; "none": no grab
          grabbed,  \* what the answer calls each of them
          alone     \* history: no other was grabbed since the first was

events == <<there, last>>
walk == <<page, given, seen, pc, began>>
grabs == <<guids, sent, grab, grabbed, alone>>
vars == <<events, walk, lost, fetched, grabs>>

TypeOK ==
  /\ last \in 0..MaxLast
  /\ there \subseteq 1..last
  /\ page \in Nat \ {0}
  /\ given \subseteq 1..last
  /\ seen \in Nat
  /\ began \subseteq 1..last
  /\ lost \in Nat
  /\ pc \in {"walk", "done", "failed"}
  /\ fetched \in Seq(Releases \cup {Theirs})
  /\ guids \in Seq(Releases)
  /\ sent \in 0..Len(guids)
  /\ grab \in {"none", "send", "read", "done", "failed"}
  /\ DOMAIN grabbed = DOMAIN guids

(* The releases as the handler sends them: each once. *)
Orders ==
  UNION {{q \in [1..n -> Releases] : \A i, j \in 1..n : q[i] = q[j] => i = j} :
           n \in 1..Cardinality(Releases)}

NoGrab == /\ guids = <<>> /\ sent = 0 /\ grab = "none" /\ grabbed = <<>>
          /\ fetched = <<>> /\ alone = TRUE

(* history_list is called, or release_grab: neither does anything to the   *)
(* other's state.                                                          *)
StartWalk == pc = "walk" /\ NoGrab

StartGrab ==
  /\ pc = "done"
  /\ guids \in Orders /\ sent = 0 /\ grab = "send" /\ grabbed = guids
  /\ fetched \in {<<>>, <<Theirs>>} /\ alone = TRUE

(* Bug: pages are counted from 0. *)
InitZero ==
  /\ last \in Starts
  /\ there = 1..last
  /\ page = 0
  /\ given = {} /\ seen = 0
  /\ began = 1..last /\ lost = 0
  /\ StartWalk \/ StartGrab

Init ==
  /\ last \in Starts
  /\ there = 1..last
  /\ page = 1
  /\ given = {} /\ seen = 0
  /\ began = 1..last /\ lost = 0
  /\ StartWalk \/ StartGrab

Lesser(a, b) == IF a < b THEN a ELSE b

-----------------------------------------------------------------------------
(* Where an event is among some, the newest first and at 0. *)
Place(e, among) == Cardinality({f \in among : f > e})

(* Prowlarr's answer: the events on the page, and how many it has in all.  *)
Offset == (page - 1) * Size

Records == {e \in there : Place(e, there) \in Offset..(Offset + Size - 1)}

TotalRecords == Cardinality(there)

(* Bug: there is no limit to what is read. *)
RoomEndless == MaxLast

(* How many more events may be handed on. *)
Room == MaxEvents - seen

(* The events of the page that are handed on: up to the first from before  *)
(* the cutoff, and no more than may be.                                    *)
Taken ==
  {e \in Records : e >= Cutoff /\ Place(e, there) < Offset + Room}

(* Bug: the page after this one is counted as read. *)
LastPageEarly ==
  Cardinality(Records) < Size \/ (page + 1) * Size >= TotalRecords

(* A short page, or one that reaches the last event by Prowlarr's count.   *)
LastPage ==
  Cardinality(Records) < Size \/ page * Size >= TotalRecords

(* GetHistory answers a page, and it is gone through. *)
ReadPage ==
  /\ pc = "walk"
  /\ given' = given \cup Taken
  /\ seen' = seen + Cardinality(Taken)
  /\ LET cut == Taken # Records
         full == Cardinality(Taken) = Room
     IN IF cut \/ full \/ LastPage
        THEN pc' = "done" /\ UNCHANGED page
        ELSE page' = page + 1 /\ UNCHANGED pc
  /\ UNCHANGED <<events, began, lost, fetched, grabs>>

(* GetHistory fails: the walk ends with what it has. *)
ReadFails ==
  /\ pc = "walk"
  /\ pc' = "failed"
  /\ UNCHANGED <<events, page, given, seen, began, lost, fetched, grabs>>

-----------------------------------------------------------------------------
Happens ==
  last < MaxLast /\ last' = last + 1 /\ there' = there \cup {last + 1}

(* PostSearch, or PostSearchBulk: Prowlarr grabs the releases in their     *)
(* order, and records each; *)
GrabNext ==
  /\ grab = "send" /\ sent < Len(guids)
  /\ Happens
  /\ fetched' = Append(fetched, guids[sent + 1])
  /\ sent' = sent + 1
  /\ UNCHANGED <<walk, lost, guids, grab, grabbed, alone>>

(* it answers when it has grabbed and recorded them all (this is taken of  *)
(* Prowlarr), or with an error before.                                     *)
Answered ==
  /\ grab = "send"
  /\ \/ sent = Len(guids) /\ grab' = "read"
     \/ grab' = "failed"
  /\ UNCHANGED <<events, walk, lost, fetched, guids, sent, grabbed, alone>>

(* Bug: the newest grab names the first release. *)
NamedFirst(newest) ==
  [i \in DOMAIN guids |-> IF i <= Len(newest) THEN newest[i] ELSE guids[i]]

(* The newest grab names the last release, the one before it the one       *)
(* before; a release there is no grab for keeps its guid.                  *)
Named(newest) ==
  LET back(i) == Len(guids) + 1 - i
  IN [i \in DOMAIN guids |->
        IF back(i) <= Len(newest) THEN newest[back(i)] ELSE guids[i]]

(* GetHistoryIndexer answers the indexer's newest grabs, a few more than   *)
(* were asked for; or it fails, and the guids are the answer.              *)
NameGrabbed ==
  /\ grab = "read"
  /\ LET n == Lesser(Len(fetched), Len(guids) + 5)
         newest == [i \in 1..n |-> fetched[Len(fetched) + 1 - i]]
     IN grabbed' \in {Named(newest), guids}
  /\ grab' = "done"
  /\ UNCHANGED <<events, walk, lost, fetched, guids, sent, alone>>

-----------------------------------------------------------------------------
(* Something is searched, logged in to, or grabbed elsewhere. *)
Happen ==
  /\ Happens
  /\ UNCHANGED <<walk, lost, fetched, grabs>>

(* Another call, or an application, has a release of the indexer grabbed. *)
GrabTheirs ==
  /\ grab \in {"send", "read"}
  /\ Happens
  /\ fetched' = Append(fetched, Theirs)
  /\ alone' = (alone /\ sent = 0)
  /\ UNCHANGED <<walk, lost, guids, sent, grab, grabbed>>

(* Prowlarr's clean-up drops the oldest event: what the grab recorded is   *)
(* not old.                                                                *)
Trim ==
  /\ \E e \in there : /\ \A f \in there : e <= f
                      /\ there' = there \ {e}
  /\ fetched' = IF Len(fetched) > sent /\ fetched[1] = Theirs
                THEN Tail(fetched) ELSE fetched
  /\ UNCHANGED <<last, walk, lost, grabs>>

(* indexer_delete deletes an indexer "with its history", wherever in the   *)
(* list its events are; it may be the one that is grabbed from.            *)
DeleteIndexer ==
  \E own \in Owned :
    /\ own \cap there # {} /\ own \subseteq 1..last
    /\ there' = there \ own
    /\ LET read == {e \in own \cap there : Place(e, there) < Offset}
       IN lost' = IF pc = "walk" THEN lost + Cardinality(read) ELSE lost
    /\ fetched' \in {fetched, <<>>}
    /\ UNCHANGED <<last, walk, grabs>>

Next ==
  \/ ReadPage \/ ReadFails
  \/ GrabNext \/ Answered \/ NameGrabbed
  \/ Happen \/ GrabTheirs \/ Trim \/ DeleteIndexer

Spec == Init /\ [][Next]_vars

-----------------------------------------------------------------------------
(* What a walk has not handed on of what it was to: the events there were  *)
(* when it began and still are, of since the cutoff.                       *)
Missed == {e \in began \cap there : e >= Cutoff /\ e \notin given}

(* A walk that ends of itself, and has not handed on as many as it may,    *)
(* misses none, whatever is recorded and trimmed while it reads: that only *)
(* moves events to pages it has still to read.  What indexer_delete takes  *)
(* off pages it has read moves others up onto them: for each such event it *)
(* may miss one, and no more.                                              *)
MissedAreFew ==
  pc = "done" /\ seen < MaxEvents /\ grab = "none" =>
    Cardinality(Missed) <= lost

(* It asks for no more pages than hold the events it may hand on, however  *)
(* fast Prowlarr writes.                                                   *)
ReadsAreBounded ==
  page <= (MaxEvents - 1) \div Size + 1 /\ seen <= MaxEvents

(* A release that release_grab had sent is answered by its own name or its *)
(* own guid (src/tools/releases.go: "the grabs' own records in the history *)
(* name what was fetched"), as long as nothing else is grabbed from the    *)
(* indexer meanwhile; which of older grabs are still recorded, and how     *)
(* many, makes no difference, nor does it if the indexer is deleted and    *)
(* the grabs with it.                                                      *)
GrabNamesOwn == grab = "done" /\ alone => grabbed = guids

-----------------------------------------------------------------------------
(* What makes it hold.  A walk that reads on has handed on as many events  *)
(* as the pages so far hold, and has room for more; *)
PagesGiven ==
  /\ Offset < MaxEvents /\ seen <= MaxEvents
  /\ pc = "walk" => seen = Offset

(* an event it has still to hand on is ahead of it, but for as many as     *)
(* deletions have moved up.                                                *)
Passed == {e \in Missed : Place(e, there) < Offset}

FewPassed == pc = "walk" => grab = "none" /\ Cardinality(Passed) <= lost

(* The newest grabs, as far as they are recorded, are those Prowlarr made  *)
(* of the releases it was sent.                                            *)
OwnNewest ==
  /\ grab = "read" => sent = Len(guids)
  /\ grab \in {"send", "read"} => grabbed = guids
  /\ alone /\ grab \in {"send", "read"} =>
       \A j \in 1..sent :
         j <= Len(fetched) => fetched[Len(fetched) + 1 - j] = guids[sent + 1 - j]

IInv ==
  /\ TypeOK /\ PagesGiven /\ FewPassed /\ OwnNewest
  /\ MissedAreFew /\ ReadsAreBounded /\ GrabNamesOwn
=============================================================================
