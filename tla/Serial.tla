-------------------------------- MODULE Serial --------------------------------
(***************************************************************************)
(* What a turn's calls may rely on: each makes its change to the records   *)
(* as they are at that moment, once, and as one step, so that no call      *)
(* undoes another's (tools/locks.go).  A tag is made only when no tag has  *)
(* its label, and goes only when nothing carries it.                       *)
(*                                                                         *)
(* Tags are numbered in the order they were made.  A record is Gone, or    *)
(* is of some resource, and has a switch, a priority (any setting that is  *)
(* one value) and its tags.                                                *)
(***************************************************************************)
EXTENDS Naturals, FiniteSets

CONSTANTS Calls,       \* the calls of the turn
          Records,     \* the records there are, and may be added
          EditTools,   \* the tools that edit the record they are asked about
          DeleteTools, \* the tools that delete those they are asked about
          Labels,      \* tag labels, as Prowlarr stores them
          MaxTag,      \* bound: how many tags are ever made
          Gone,        \* no such record
          NoLabel,     \* no such tag
          Keep,        \* a setting the call does not name
          Jobs,        \* what a call can be asked
          StartRec,    \* the records and tags when the turn begins, which
          StartTag,    \*   is also what the backup it may restore holds
          StartLast

TagIds == 1..MaxTag

(* The jobs are of this shape, and what the turn begins with is in order.  *)
InOrder ==
  /\ \A j \in Jobs : j.on \in SUBSET Records /\ j.adds \in SUBSET Labels
  /\ MaxTag \in Nat
  /\ StartLast \in 0..MaxTag
  /\ NoLabel \notin Labels
  /\ StartTag \in [TagIds -> Labels \cup {NoLabel}]
  /\ \A t \in TagIds : t > StartLast => StartTag[t] = NoLabel
  /\ \A t, u \in TagIds : StartTag[t] = StartTag[u] /\ StartTag[t] # NoLabel => t = u
  /\ DOMAIN StartRec = Records
  /\ \A r \in Records : StartRec[r] # Gone =>
       \A t \in StartRec[r].tags : t \in TagIds /\ StartTag[t] # NoLabel

VARIABLES job,         \* what each call was asked
          rec,         \* Prowlarr's records
          tag,         \* Prowlarr's tags: the label of each
          lastTag,     \* the last tag made
          staged,      \* a restored backup waits for a restart
          made         \* the calls that have made their change

vars == <<job, rec, tag, lastTag, staged, made>>

Labelled(ls) == {t \in TagIds : tag[t] \in ls}

(* editTags: the tags named take the place of those there are, or join     *)
(* them, and those to remove are left out.                                 *)
EditedTags(have, j, adds, drops) ==
  ((IF "replace" \in j.with THEN {} ELSE have) \cup adds) \ drops

(* A record with a call's change made to it. *)
Changed(r, j, adds, drops) ==
  [of   |-> r.of,
   on   |-> r.on,
   prio |-> IF j.prio = Keep THEN r.prio ELSE j.prio,
   tags |-> EditedTags(r.tags, j, adds, drops)]

Carried == UNION {rec[i].tags : i \in {k \in Records : rec[k] # Gone}}

Init ==
  /\ job \in [Calls -> Jobs]
  /\ rec = StartRec
  /\ tag = StartTag
  /\ lastTag = StartLast
  /\ staged = FALSE
  /\ made = {}

Make(c) == c \notin made /\ made' = made \cup {c}

(* The labels an edit takes off are looked up a little before it is made,  *)
(* when another call may yet rename them: at most one tag each.            *)
Edit(c) ==
  /\ job[c].tool \in EditTools
  /\ Make(c)
  /\ \A l \in job[c].adds : Labelled({l}) # {}
  /\ \E r \in job[c].on, D \in SUBSET TagIds :
       /\ rec[r] # Gone
       /\ Cardinality(D) <= Cardinality(job[c].removes)
       /\ rec' = [rec EXCEPT ![r] = Changed(@, job[c], Labelled(job[c].adds), D)]
  /\ UNCHANGED <<job, tag, lastTag, staged>>

Delete(c) ==
  /\ job[c].tool \in DeleteTools
  /\ Make(c)
  /\ rec' = [r \in Records |-> IF r \in job[c].on THEN Gone ELSE rec[r]]
  /\ UNCHANGED <<job, tag, lastTag, staged>>

MakeTag(l) ==
  /\ Labelled({l}) = {}
  /\ lastTag < MaxTag
  /\ lastTag' = lastTag + 1
  /\ tag' = [tag EXCEPT ![lastTag + 1] = l]
  /\ UNCHANGED <<job, rec, staged, made>>

Rename(t, l) ==
  /\ tag[t] # NoLabel
  /\ Labelled({l}) \subseteq {t}
  /\ tag' = [tag EXCEPT ![t] = l]
  /\ UNCHANGED <<job, rec, lastTag, staged, made>>

DropTag(t) ==
  /\ t \notin Carried
  /\ tag' = [tag EXCEPT ![t] = NoLabel]
  /\ UNCHANGED <<job, rec, lastTag, staged, made>>

Restore(c) ==
  /\ job[c].tool = "backup_restore"
  /\ Make(c)
  /\ staged' = TRUE
  /\ UNCHANGED <<job, rec, tag, lastTag>>

Restart(c) ==
  /\ job[c].tool = "server_restart"
  /\ Make(c)
  /\ IF staged THEN rec' = StartRec /\ tag' = StartTag /\ lastTag' = StartLast
                ELSE UNCHANGED <<rec, tag, lastTag>>
  /\ staged' = FALSE
  /\ UNCHANGED job

Next ==
  \/ \E c \in Calls : Edit(c) \/ Delete(c) \/ Restore(c) \/ Restart(c)
  \/ \E l \in Labels : MakeTag(l)
  \/ \E t \in TagIds, l \in Labels : Rename(t, l)
  \/ \E t \in TagIds : DropTag(t)

Spec == Init /\ [][Next]_vars

-----------------------------------------------------------------------------
TypeOK ==
  /\ job \in [Calls -> Jobs]
  /\ DOMAIN rec = Records
  /\ \A r \in Records : rec[r] # Gone => rec[r].tags \subseteq TagIds
  /\ tag \in [TagIds -> Labels \cup {NoLabel}]
  /\ lastTag \in 0..MaxTag
  /\ \A t \in TagIds : t > lastTag => tag[t] = NoLabel
  /\ staged \in BOOLEAN
  /\ made \in SUBSET Calls

(* No two tags share a label: a label names one tag (tools/tags.go: "two   *)
(* tags cannot share a label").                                            *)
LabelsApart ==
  \A t, u \in TagIds : tag[t] = tag[u] /\ tag[t] # NoLabel => t = u

(* Every tag a record carries is one Prowlarr has (tools/tags.go: a tag in *)
(* use is not deleted).                                                    *)
NoneDangling == \A t \in Carried : tag[t] # NoLabel
===============================================================================
