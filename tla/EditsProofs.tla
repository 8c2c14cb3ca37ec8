---------------------------- MODULE EditsProofs -----------------------------
(***************************************************************************)
(* Proofs about Edits, for any calls, records, labels and jobs: IInv, which*)
(* each step preserves; what Serial's changes keep; and that the calls of a*)
(* turn come to what they would one after another, wherever they fail:     *)
(* CourseInv, which each step preserves, and then the step of Serial that  *)
(* each step of Edits is, or that it is none; and that a call made again   *)
(* changes nothing more: RepeatInv.                                        *)
(***************************************************************************)
EXTENDS TLAPS, Edits, PathsProofs, FiniteSetTheorems, WellFoundedInduction

(* A job of Edits is one the program takes. *)
LEMMA FormedJobs == \A j \in Jobs : Formed(j)
BY JobsAssumption DEF Formed

-----------------------------------------------------------------------------
(* The tag with a label. *)
LEMMA TagWithIs ==
  ASSUME NEW l, NEW tags
  PROVE  /\ TagWith(l, tags) \in TagIds \cup {0}
         /\ TagWith(l, tags) # 0 => tags[TagWith(l, tags)] = l
         /\ TagWith(l, tags) = 0 => \A t \in TagIds : tags[t] # l
<1>1. 0 \notin TagIds /\ TagIds \subseteq Nat
  BY SerialAssumption DEF TagIds, Serially!InOrder
<1>2. CASE ~\E t \in TagIds : tags[t] = l
  BY <1>1, <1>2 DEF TagWith
<1>3. CASE \E t \in TagIds : tags[t] = l
  <2> DEFINE S == {t \in TagIds : tags[t] = l}
  <2>1. S \in SUBSET Nat /\ S # {}
    BY <1>1, <1>3
  <2>2. PICK t \in S : \A u \in S : t <= u
    <3> DEFINE R == {ss \in Nat \X Nat : ss[1] < ss[2]}
    <3>1. IsWellFoundedOn(R, Nat)
      BY NatLessThanWellFounded DEF OpToRel
    <3>2. \A t, u \in Nat : u < t => <<u, t>> \in R
      OBVIOUS
    <3> HIDE DEF S, R
    <3>3. PICK t \in S : \A u \in S : <<u, t>> \notin R
      BY <2>1, <3>1, WFMin
    <3>4. \A u \in S : ~(u < t)
      BY <2>1, <3>2, <3>3
    <3>5. \A u \in S : t <= u
      BY <2>1, <3>4
    <3> QED
      BY <3>5
  <2>3. \A u \in 1..(t - 1) : tags[u] # l
    BY <1>1, <2>2, SerialAssumption DEF TagIds, Serially!InOrder
  <2>4. TagWith(l, tags) \in TagIds /\ tags[TagWith(l, tags)] = l
    BY <1>3, <2>2, <2>3 DEF TagWith
  <2> QED
    BY <1>1, <2>4
<1> QED
  BY <1>2, <1>3

LEMMA TagsWithAre ==
  ASSUME NEW ls, NEW tags
  PROVE  /\ TagsWith(ls, tags) \subseteq TagIds
         /\ \A t \in TagsWith(ls, tags) : tags[t] \in ls
BY TagWithIs DEF TagsWith

-----------------------------------------------------------------------------
(* The invariant in parts: what is known of each call, and the rest. *)
Walking(c) == IsPath(todo[c]) /\ OnPath(c) /\ WaitsRight(c) /\ CopyInTurn(c)

Frame ==
  /\ job \in [Calls -> Jobs]
  /\ DOMAIN todo = Calls
  /\ outcome \in [Calls -> {"open", "failing", "failed", "done"}]

Local ==
  /\ DOMAIN copy = Calls
  /\ \A c \in Calls : copy[c] = Gone \/ copy[c].tags \subseteq TagIds
  /\ seen \in [Calls -> [TagIds -> Labels \cup {NoLabel}]]
  /\ drops \in [Calls -> SUBSET TagIds]
  /\ known \in [Calls -> SUBSET Records]

History ==
  /\ wrote \in SUBSET Calls
  /\ repeats \in SUBSET Calls

RecOK ==
  /\ DOMAIN rec = Records
  /\ \A r \in Records : rec[r] = Gone \/ IsRecord(rec[r])

TagOK ==
  /\ tag \in [TagIds -> Labels \cup {NoLabel}]
  /\ lastTag \in TagIds
  /\ LabelsApart

LocksOK == Locks!TypeOK /\ Locks!OneAtATime

AllParts ==
  /\ Frame /\ Local /\ History /\ RecOK /\ TagOK /\ LocksOK
  /\ staged \in BOOLEAN
  /\ \A c \in Calls : Walking(c)

LEMMA InParts == IInv => AllParts
BY DEF IInv, TypeOK, ShapesOK, AllParts, Frame, Local, History, RecOK, TagOK,
       LocksOK, Walking

LEMMA FromParts == AllParts' => IInv'
<1> SUFFICES ASSUME AllParts' PROVE IInv'
  OBVIOUS
<1>1. \A c \in Calls : \A i \in DOMAIN todo'[c] : todo'[c][i].do \in Roles
  BY DEF AllParts, Walking, IsPath
<1>2. \A r \in Records : rec'[r] = Gone \/ rec'[r].tags \subseteq TagIds
  BY DEF AllParts, RecOK, IsRecord
<1>3. TypeOK'
  BY <1>1, <1>2 DEF AllParts, Frame, Local, History, TagOK, LocksOK, TypeOK
<1>4. ShapesOK'
  BY DEF AllParts, Frame, Local, RecOK, Walking, ShapesOK
<1> QED
  BY <1>3, <1>4 DEF AllParts, TagOK, LocksOK, Walking, IInv

(* What a call does to its own state leaves another call's path as it was, *)
(* and if it writes a tag it holds them.                                   *)
LEMMA Bystander ==
  ASSUME IInv, NEW c \in Calls, NEW d \in Calls, d # c,
         todo'[d] = todo[d], UNCHANGED job, outcome'[d] = outcome[d],
         copy'[d] = copy[d], seen'[d] = seen[d],
         phase'[d] = phase[d], named'[d] = named[d], whole'[d] = whole[d],
         tag' = tag \/ HoldsTags(c)
  PROVE  Walking(d)'
<1>1. Walking(d) /\ LocksOK
  BY InParts DEF AllParts
<1>2. HoldsTags(d)' <=> HoldsTags(d)
  BY DEF HoldsTags
<1>3. SeesTags(d)' <=> SeesTags(d)
  <2>1. CASE tag' = tag
    BY <1>2, <2>1 DEF SeesTags
  <2>2. CASE HoldsTags(c)
    <3>1. ~HoldsTags(d)
      BY <1>1, <2>2 DEF LocksOK, Locks!OneAtATime, Locks!Conflict, HoldsTags
    <3> QED
      BY <1>2, <3>1 DEF SeesTags
  <2> QED
    BY <2>1, <2>2
<1>4. IsPath(todo[d])'
  BY <1>1 DEF Walking, IsPath, Steps
<1>5. OnPath(d)'
  <2> SUFFICES ASSUME outcome'[d] = "open" PROVE OnPath(d)'
    BY DEF OnPath
  <2>1. outcome[d] = "open" /\ OnPath(d)
    BY <1>1 DEF Walking
  <2>2. Named(todo'[d], job'[d])
    BY <2>1 DEF OnPath
  <2>3. Sound(HoldsTags(d)', todo'[d], TagRoles, TagLocks, Unlocking)
    BY <1>2, <2>1 DEF OnPath, Sound
  <2>4. Sound(SeesTags(d)', todo'[d], LabelRoles(job'[d]), Looks, Outdating)
    BY <1>3, <2>1 DEF OnPath, Sound
  <2>5. Sound(copy'[d] # Gone, todo'[d], {"save"}, WholeReads, {"save"})
    BY <2>1 DEF OnPath
  <2>6. Locking(job'[d]) =>
          /\ Sound(copy'[d] = Gone, todo'[d], Unlocking, MakesTags, {"read"})
          /\ Sound(phase'[d] = "turn", todo'[d], HalfRoles, AnyLocks, Unlocking)
    BY <2>1 DEF OnPath
  <2> QED
    BY <2>2, <2>3, <2>4, <2>5, <2>6 DEF OnPath
<1>6. WaitsRight(d)'
  BY <1>1 DEF Walking, WaitsRight, Doing, Now, Ended, KeysOf
<1>7. CopyInTurn(d)'
  BY <1>1 DEF Walking, CopyInTurn
<1> QED
  BY <1>4, <1>5, <1>6, <1>7 DEF Walking

(* A call goes on to its next step, with what it has opened and not closed *)
(* still open.                                                             *)
LEMMA OnwardPath ==
  ASSUME NEW c \in Calls, IsPath(todo[c]), OnPath(c), outcome[c] = "open", ~Ended(c),
         UNCHANGED job, todo'[c] = Tail(todo[c]),
         Now(c) \in TagLocks => HoldsTags(c)',
         HoldsTags(c) => HoldsTags(c)' \/ Now(c).do \in Unlocking,
         Now(c) \in Looks => SeesTags(c)',
         SeesTags(c) => SeesTags(c)' \/ Now(c).do \in Outdating,
         Now(c) \in WholeReads => copy'[c] # Gone,
         copy[c] # Gone => copy'[c] # Gone \/ Now(c).do \in {"save"},
         Locking(job[c]) =>
           /\ Now(c) \in MakesTags => copy'[c] = Gone
           /\ copy[c] = Gone => copy'[c] = Gone \/ Now(c).do \in {"read"}
           /\ Now(c) \in AnyLocks => phase'[c] = "turn"
           /\ phase[c] = "turn" => phase'[c] = "turn" \/ Now(c).do \in Unlocking
  PROVE  IsPath(todo[c])' /\ OnPath(c)'
<1> DEFINE p == todo[c]
<1>1. IsPath(p) /\ p # <<>> /\ Now(c) = Head(p)
  BY DEF Ended, Now
<1>2. /\ HoldsTags(c) \in BOOLEAN /\ HoldsTags(c)' \in BOOLEAN
      /\ SeesTags(c) \in BOOLEAN /\ SeesTags(c)' \in BOOLEAN
      /\ (copy[c] # Gone) \in BOOLEAN /\ (copy'[c] # Gone) \in BOOLEAN
      /\ (copy[c] = Gone) \in BOOLEAN /\ (copy'[c] = Gone) \in BOOLEAN
      /\ (phase[c] = "turn") \in BOOLEAN /\ (phase'[c] = "turn") \in BOOLEAN
  BY DEF HoldsTags, SeesTags
<1>3. /\ Named(p, job[c])
      /\ Sound(HoldsTags(c), p, TagRoles, TagLocks, Unlocking)
      /\ Sound(SeesTags(c), p, LabelRoles(job[c]), Looks, Outdating)
      /\ Sound(copy[c] # Gone, p, {"save"}, WholeReads, {"save"})
      /\ Locking(job[c]) =>
           /\ Sound(copy[c] = Gone, p, Unlocking, MakesTags, {"read"})
           /\ Sound(phase[c] = "turn", p, HalfRoles, AnyLocks, Unlocking)
  BY DEF OnPath
<1> HIDE DEF p
<1>4. Sound(HoldsTags(c)', Tail(p), TagRoles, TagLocks, Unlocking)
  BY <1>1, <1>2, <1>3, SoundTail
<1>5. Sound(SeesTags(c)', Tail(p), LabelRoles(job[c]), Looks, Outdating)
  BY <1>1, <1>2, <1>3, SoundTail
<1>6. Sound(copy'[c] # Gone, Tail(p), {"save"}, WholeReads, {"save"})
  BY <1>1, <1>2, <1>3, SoundTail
<1>7. ASSUME Locking(job[c])
      PROVE  /\ Sound(copy'[c] = Gone, Tail(p), Unlocking, MakesTags, {"read"})
             /\ Sound(phase'[c] = "turn", Tail(p), HalfRoles, AnyLocks, Unlocking)
  BY <1>1, <1>2, <1>3, <1>7, SoundTail
<1>8. IsPath(Tail(p)) /\ Named(Tail(p), job[c])
  <2>1. IsPath(Tail(p)) /\ \A i \in DOMAIN Tail(p) : 1 + i \in DOMAIN p /\ Tail(p)[i] = p[1 + i]
    BY <1>1, TailLeft
  <2> QED
    BY <1>3, <2>1 DEF Named
<1> QED
  BY <1>4, <1>5, <1>6, <1>7, <1>8 DEF OnPath, p

LEMMA Openers ==
  /\ \A s \in AnyLocks : s.do = "lock"
  /\ TagLocks \subseteq AnyLocks /\ MakesTags \subseteq AnyLocks
  /\ \A s \in Looks : s.do = "look"
  /\ \A s \in WholeReads : s.do = "read"
BY DEF AnyLocks, TagLocks, MakesTags, Looks, WholeReads, Lock, LockAll, Read, Step

(* A call's step that is not about the locks. *)
LEMMA StepTaken ==
  ASSUME IInv, NEW c \in Calls, outcome[c] = "open", ~Ended(c),
         Now(c).do \notin {"lock", "unlock"},
         UNCHANGED job, UNCHANGED locks,
         \A d \in Calls \ {c} : copy'[d] = copy[d] /\ seen'[d] = seen[d],
         tag' = tag \/ HoldsTags(c),
         \/ todo' = todo /\ outcome' = [outcome EXCEPT ![c] = "failing"]
         \/ /\ todo' = [todo EXCEPT ![c] = Tail(@)]
            /\ outcome' = outcome
            /\ Now(c).do = "read" => copy'[c] # Gone
            /\ Now(c).do = "look" /\ HoldsTags(c) => seen'[c] = tag'
            /\ SeesTags(c) => seen'[c] = tag' \/ Now(c).do \in Outdating,
         \/ copy'[c] = copy[c]
         \/ Now(c).do = "read" /\ copy'[c] # Gone
         \/ Now(c).do = "save" /\ copy'[c] = Gone
  PROVE  Frame' /\ LocksOK' /\ \A d \in Calls : Walking(d)'
<1>1. /\ Frame /\ LocksOK /\ Walking(c)
      /\ UNCHANGED <<phase, named, whole>>
  BY InParts DEF AllParts, locks
<1>2. /\ \A d \in Calls \ {c} : todo'[d] = todo[d] /\ outcome'[d] = outcome[d]
      /\ DOMAIN todo' = Calls
  BY <1>1 DEF Frame
<1>3. Frame'
  BY <1>1, <1>2 DEF Frame
<1>4. LocksOK'
  BY <1>1 DEF LocksOK, Locks!TypeOK, Locks!OneAtATime, Locks!Conflict
<1>5. ASSUME NEW d \in Calls \ {c} PROVE Walking(d)'
  BY <1>1, <1>2, <1>5, Bystander
<1>6. IsPath(todo[c])' /\ OnPath(c)'
  <2>1. CASE todo' = todo /\ outcome' = [outcome EXCEPT ![c] = "failing"]
    <3>1. IsPath(todo'[c])
      BY <1>1, <2>1 DEF Walking
    <3>2. outcome'[c] = "failing"
      BY <1>1, <2>1 DEF Frame
    <3> QED
      BY <3>1, <3>2 DEF OnPath
  <2>2. CASE /\ todo' = [todo EXCEPT ![c] = Tail(@)]
             /\ outcome' = outcome
             /\ Now(c).do = "read" => copy'[c] # Gone
             /\ Now(c).do = "look" /\ HoldsTags(c) => seen'[c] = tag'
             /\ SeesTags(c) => seen'[c] = tag' \/ Now(c).do \in Outdating
    <3>1. todo'[c] = Tail(todo[c]) /\ IsPath(todo[c]) /\ OnPath(c)
      BY <1>1, <2>2 DEF Frame, Walking
    <3>2. (HoldsTags(c)' <=> HoldsTags(c)) /\ (SeesTags(c) => HoldsTags(c))
      BY <1>1 DEF HoldsTags, SeesTags
    <3>3. Now(c) \notin AnyLocks /\ Now(c) \notin TagLocks /\ Now(c) \notin MakesTags
      BY Openers
    <3>4. Now(c) \in Looks => SeesTags(c)'
      <4> SUFFICES ASSUME Now(c) \in Looks PROVE SeesTags(c)'
        OBVIOUS
      <4>1. Now(c).do = "look"
        BY Openers
      <4>2. HoldsTags(c)
        <5>1. Sound(HoldsTags(c), todo[c], TagRoles, TagLocks, Unlocking)
          BY <3>1 DEF OnPath
        <5>2. HoldsTags(c) \in BOOLEAN
          BY DEF HoldsTags
        <5>3. todo[c] # <<>> /\ Head(todo[c]).do \in TagRoles
          BY <4>1 DEF Ended, Now, TagRoles
        <5> QED
          BY <3>1, <5>1, <5>2, <5>3, SoundNow
      <4> QED
        BY <2>2, <3>2, <4>1, <4>2 DEF SeesTags
    <3>5. SeesTags(c) => SeesTags(c)' \/ Now(c).do \in Outdating
      BY <2>2, <3>2 DEF SeesTags
    <3>6. /\ Now(c) \in WholeReads => copy'[c] # Gone
          /\ copy[c] # Gone => copy'[c] # Gone \/ Now(c).do \in {"save"}
          /\ copy[c] = Gone => copy'[c] = Gone \/ Now(c).do \in {"read"}
      BY <2>2, Openers
    <3> QED
      BY <1>1, <3>1, <3>2, <3>3, <3>4, <3>5, <3>6, OnwardPath
  <2> QED
    BY <2>1, <2>2
<1>7. WaitsRight(c)'
  <2>1. phase[c] # "waiting"
    BY <1>1 DEF Walking, WaitsRight, Doing
  <2> QED
    BY <1>1, <2>1 DEF WaitsRight
<1>8. CopyInTurn(c)'
  <2>1. CASE copy'[c] = copy[c] \/ copy'[c] = Gone
    BY <1>1, <2>1 DEF Walking, CopyInTurn
  <2>2. CASE Now(c).do = "read"
    <3> SUFFICES ASSUME Locking(job[c]) PROVE phase[c] = "turn"
      BY <1>1 DEF CopyInTurn
    <3>1. Sound(phase[c] = "turn", todo[c], HalfRoles, AnyLocks, Unlocking)
      BY <1>1 DEF Walking, OnPath
    <3>2. todo[c] # <<>> /\ Head(todo[c]).do \in HalfRoles /\ IsPath(todo[c])
      BY <1>1, <2>2 DEF Ended, Now, HalfRoles, Walking
    <3>3. (phase[c] = "turn") \in BOOLEAN
      OBVIOUS
    <3> QED
      BY <3>1, <3>2, <3>3, SoundNow
  <2> QED
    BY <2>1, <2>2
<1> QED
  BY <1>3, <1>4, <1>5, <1>6, <1>7, <1>8 DEF Walking

(* What a step leaves alone, and what it notes of itself. *)
LEMMA Unmoved ==
  ASSUME IInv
  PROVE  /\ UNCHANGED local => Local'
         /\ UNCHANGED rec => RecOK'
         /\ UNCHANGED <<tag, lastTag>> => TagOK'
         /\ UNCHANGED staged => staged' \in BOOLEAN
<1>1. Local /\ RecOK /\ TagOK /\ staged \in BOOLEAN
  BY InParts DEF AllParts
<1>2. UNCHANGED local => Local'
  BY <1>1 DEF Local, local
<1>3. UNCHANGED rec => RecOK'
  BY <1>1 DEF RecOK, IsRecord
<1>4. UNCHANGED <<tag, lastTag>> => TagOK'
  BY <1>1 DEF TagOK, LabelsApart, Serially!LabelsApart
<1>5. UNCHANGED staged => staged' \in BOOLEAN
  BY <1>1, Zenon
<1> QED
  BY <1>2, <1>3, <1>4, <1>5

LEMMA Noted ==
  ASSUME IInv, NEW c \in Calls, Onward(c) \/ Fails(c),
         wrote' = wrote \/ wrote' = wrote \cup {c}
  PROVE  History'
<1>1. repeats' = repeats \/ repeats' = repeats \cup {c}
  BY DEF Onward, Fails, Begun
<1> QED
  BY <1>1, InParts DEF AllParts, History

(* The steps that only read, or have Prowlarr do what no record shows. *)
LEMMA ReadingStep ==
  ASSUME IInv, NEW c \in Calls, outcome[c] = "open", ~Ended(c),
         Now(c).do \notin {"lock", "unlock", "read", "look"},
         Onward(c) \/ Fails(c),
         UNCHANGED <<job, copy, seen, wrote, prowlarr, locks>>,
         drops' \in [Calls -> SUBSET TagIds], known' \in [Calls -> SUBSET Records]
  PROVE  IInv'
<1>1. /\ UNCHANGED <<job, copy, seen, wrote, rec, tag, lastTag, staged>>
      /\ UNCHANGED locks
  BY DEF prowlarr
<1>2. \/ todo' = todo /\ outcome' = [outcome EXCEPT ![c] = "failing"]
      \/ todo' = [todo EXCEPT ![c] = Tail(@)] /\ outcome' = outcome
  BY DEF Onward, Fails
<1>3. Frame' /\ LocksOK' /\ \A d \in Calls : Walking(d)'
  BY <1>1, <1>2, StepTaken DEF SeesTags
<1>4. Local'
  BY <1>1, InParts DEF AllParts, Local
<1>5. RecOK' /\ TagOK' /\ staged' \in BOOLEAN /\ History'
  BY <1>1, Unmoved, Noted
<1> QED
  BY <1>3, <1>4, <1>5, FromParts DEF AllParts

LEMMA ReadingSteps ==
  ASSUME IInv, NEW c \in Calls,
         \/ Resolve(c) \/ TagsMade(c) \/ LookUpRemoved(c)
         \/ ListCarriers(c) \/ TagDetail(c) \/ NameCarriers(c)
  PROVE  IInv'
<1>1. Local
  BY InParts DEF AllParts
<1>2. CASE Resolve(c) \/ TagsMade(c)
  <2>1. /\ Doing(c, "find") \/ Doing(c, "make")
        /\ Onward(c) \/ Fails(c)
        /\ UNCHANGED <<job, local, wrote, prowlarr, locks>>
    BY <1>2 DEF Resolve, TagsMade
  <2>2. drops' \in [Calls -> SUBSET TagIds] /\ known' \in [Calls -> SUBSET Records]
    BY <1>1, <2>1 DEF Local, local
  <2> QED
    BY <2>1, <2>2, ReadingStep DEF Doing, local
<1>3. CASE LookUpRemoved(c)
  <2>1. /\ Doing(c, "untag")
        /\ Onward(c) \/ Fails(c)
        /\ drops' = drops \/ drops' = [drops EXCEPT ![c] = TagsWith(job[c].removes, tag)]
        /\ UNCHANGED <<job, copy, seen, known, wrote, prowlarr, locks>>
    BY <1>3 DEF LookUpRemoved
  <2>2. drops' \in [Calls -> SUBSET TagIds] /\ known' \in [Calls -> SUBSET Records]
    BY <1>1, <2>1, TagsWithAre DEF Local
  <2> QED
    BY <2>1, <2>2, ReadingStep DEF Doing
<1>4. CASE ListCarriers(c)
  <2>1. /\ Doing(c, "list")
        /\ Onward(c)
        /\ known' = [known EXCEPT ![c] = @ \cup {r \in Records : There(r, Of(c))}]
        /\ UNCHANGED <<job, copy, seen, drops, wrote, prowlarr, locks>>
    BY <1>4 DEF ListCarriers
  <2>2. drops' \in [Calls -> SUBSET TagIds] /\ known' \in [Calls -> SUBSET Records]
    BY <1>1, <2>1 DEF Local
  <2> QED
    BY <2>1, <2>2, ReadingStep DEF Doing
<1>5. CASE TagDetail(c)
  <2> DEFINE t == TagWith(TheLabel(job[c].removes), tag)
  <2>1. /\ Doing(c, "detail")
        /\ Onward(c)
        /\ drops' = [drops EXCEPT ![c] = {t} \ {0}]
        /\ \E S \in SUBSET Records : known' = [known EXCEPT ![c] = S]
        /\ UNCHANGED <<job, copy, seen, wrote, prowlarr, locks>>
    <3>1. \A S : {r \in RoutedCarriers(t) : r \in S \/ IsNotification(r)} \subseteq Records
      BY DEF RoutedCarriers, Carriers
    <3> QED
      BY <1>5, <3>1 DEF TagDetail
  <2>2. t \in TagIds \cup {0}
    BY TagWithIs
  <2> HIDE DEF t
  <2>3. drops' \in [Calls -> SUBSET TagIds] /\ known' \in [Calls -> SUBSET Records]
    BY <1>1, <2>1, <2>2 DEF Local
  <2> QED
    BY <2>1, <2>3, ReadingStep DEF Doing
<1>6. CASE NameCarriers(c)
  <2>1. /\ Doing(c, "names")
        /\ Onward(c) \/ Fails(c)
        /\ known' = [known EXCEPT ![c] = {r \in @ : rec[r] # Gone \/ ~IsNotification(r)}]
        /\ UNCHANGED <<job, copy, seen, drops, wrote, prowlarr, locks>>
    BY <1>6 DEF NameCarriers
  <2>2. drops' \in [Calls -> SUBSET TagIds] /\ known' \in [Calls -> SUBSET Records]
    BY <1>1, <2>1 DEF Local
  <2> QED
    BY <2>1, <2>2, ReadingStep DEF Doing
<1> QED
  BY <1>2, <1>3, <1>4, <1>5, <1>6

LEMMA FailStep ==
  ASSUME IInv, NEW c \in Calls, Fail(c)
  PROVE  IInv'
<1>1. /\ outcome[c] = "open" /\ ~Ended(c) /\ Now(c).do \notin {"lock", "unlock"}
      /\ todo' = todo /\ outcome' = [outcome EXCEPT ![c] = "failing"]
      /\ Fails(c)
      /\ UNCHANGED <<job, copy, seen, wrote, rec, tag, lastTag, staged>>
      /\ UNCHANGED locks /\ UNCHANGED local
  BY DEF Fail, Fails, local, prowlarr
<1>2. Frame' /\ LocksOK' /\ \A d \in Calls : Walking(d)'
  BY <1>1, StepTaken
<1>3. Local' /\ RecOK' /\ TagOK' /\ staged' \in BOOLEAN /\ History'
  BY <1>1, Unmoved, Noted
<1> QED
  BY <1>2, <1>3, FromParts DEF AllParts

(* The steps that write, with what they write in order. *)
LEMMA WritingStep ==
  ASSUME IInv, NEW c \in Calls, outcome[c] = "open", ~Ended(c),
         Now(c).do \notin {"lock", "unlock", "read", "look"},
         Onward(c) \/ Fails(c),
         wrote' = wrote \/ wrote' = wrote \cup {c},
         UNCHANGED job, UNCHANGED locks,
         copy' = copy \/ (Now(c).do = "save" /\ copy' = [copy EXCEPT ![c] = Gone]),
         \/ tag' = tag /\ seen' = seen
         \/ /\ HoldsTags(c) /\ Now(c).do \in Outdating
            /\ seen' = seen \/ \E S : seen' = [seen EXCEPT ![c] = S],
         Local', RecOK', TagOK', staged' \in BOOLEAN
  PROVE  IInv'
<1>1. DOMAIN copy = Calls /\ DOMAIN seen = Calls
  BY InParts DEF AllParts, Local
<1>2. \/ todo' = todo /\ outcome' = [outcome EXCEPT ![c] = "failing"]
      \/ todo' = [todo EXCEPT ![c] = Tail(@)] /\ outcome' = outcome
  BY DEF Onward, Fails
<1>3. \A d \in Calls \ {c} : copy'[d] = copy[d] /\ seen'[d] = seen[d]
  BY <1>1
<1>4. copy'[c] = copy[c] \/ (Now(c).do = "save" /\ copy'[c] = Gone)
  BY <1>1
<1>5. SeesTags(c) => seen'[c] = tag' \/ Now(c).do \in Outdating
  BY DEF SeesTags
<1>6. Frame' /\ LocksOK' /\ \A d \in Calls : Walking(d)'
  BY <1>2, <1>3, <1>4, <1>5, StepTaken
<1>7. History'
  BY Noted
<1> QED
  BY <1>6, <1>7, FromParts DEF AllParts

(* A record with an edit made to it is a record. *)
LEMMA ChangedIsRecord ==
  ASSUME NEW r, r.tags \subseteq TagIds, NEW j, NEW A \in SUBSET TagIds, NEW D
  PROVE  IsRecord(Serially!Changed(r, j, A, D))
<1>1. Serially!EditedTags(r.tags, j, A, D) \subseteq TagIds
  BY DEF Serially!EditedTags
<1> QED
  BY <1>1 DEF IsRecord, Serially!Changed

LEMMA RecordSteps ==
  ASSUME IInv, NEW c \in Calls,
         BulkChange(c) \/ BulkRemove(c) \/ Create(c) \/ SwitchOn(c) \/ Delete(c)
  PROVE  IInv'
<1>1. RecOK /\ Calls \subseteq Records
  BY InParts DEF AllParts, Records
<1>2. Adds(c) \subseteq TagIds
  BY TagsWithAre DEF Adds
<1>3. \A r \in Records : rec[r] # Gone => rec[r].tags \subseteq TagIds
  BY <1>1 DEF RecOK, IsRecord
<1>4. ASSUME Onward(c) \/ Fails(c),
             wrote' = wrote \/ wrote' = wrote \cup {c},
             outcome[c] = "open", ~Ended(c),
             Now(c).do \in {"bulk", "unbulk", "create", "create off", "update", "delete"},
             UNCHANGED <<job, local, tag, lastTag, staged, locks>>,
             RecOK'
      PROVE  IInv'
  <2>1. Local' /\ TagOK' /\ staged' \in BOOLEAN
    BY <1>4, Unmoved
  <2>2. copy' = copy /\ seen' = seen /\ tag' = tag /\ UNCHANGED job /\ UNCHANGED locks
    BY <1>4 DEF local
  <2> QED
    BY <1>4, <2>1, <2>2, WritingStep
<1>5. IsRecord(Added(c)) /\ IsRecord(SwitchedOff(Added(c)))
  BY <1>2 DEF IsRecord, Added, SwitchedOff
<1>6. CASE BulkChange(c)
  <2>1. /\ Doing(c, "bulk")
        /\ Onward(c) \/ Fails(c)
        /\ wrote' = wrote \/ wrote' = wrote \cup {c}
        /\ UNCHANGED <<job, local, tag, lastTag, staged, locks>>
        /\ \/ rec' = rec
           \/ /\ \A r \in job[c].on : rec[r] # Gone
              /\ \E D : rec' = [r \in Records |->
                                  IF r \in job[c].on
                                  THEN Serially!Changed(rec[r], job[c], Adds(c), D)
                                  ELSE rec[r]]
    BY <1>6 DEF BulkChange, Written, AllThere, There
  <2>2. RecOK'
    <3>1. CASE rec' = rec
      BY <3>1, Unmoved
    <3>2. CASE rec' # rec
      <4>1. PICK D : rec' = [r \in Records |->
                               IF r \in job[c].on
                               THEN Serially!Changed(rec[r], job[c], Adds(c), D)
                               ELSE rec[r]]
        BY <2>1, <3>2
      <4>2. \A r \in job[c].on : rec[r] # Gone
        BY <2>1, <3>2
      <4>3. ASSUME NEW r \in Records
            PROVE  rec'[r] = Gone \/ IsRecord(rec'[r])
        <5>1. CASE r \in job[c].on
          BY <1>2, <1>3, <4>1, <4>2, <5>1, ChangedIsRecord
        <5>2. CASE r \notin job[c].on
          BY <1>1, <4>1, <5>2 DEF RecOK
        <5> QED
          BY <5>1, <5>2
      <4> QED
        BY <4>1, <4>3 DEF RecOK, IsRecord
    <3> QED
      BY <3>1, <3>2
  <2> QED
    BY <1>4, <2>1, <2>2 DEF Doing
<1>7. CASE BulkRemove(c)
  <2>1. /\ Doing(c, "unbulk")
        /\ Onward(c) \/ Fails(c)
        /\ UNCHANGED <<job, local, wrote, tag, lastTag, staged, locks>>
        /\ \/ rec' = rec
           \/ /\ \A r \in job[c].on : rec[r] # Gone
              /\ rec' = [r \in Records |->
                           IF r \in job[c].on THEN [rec[r] EXCEPT !.tags = @ \ drops[c]]
                                              ELSE rec[r]]
    BY <1>7 DEF BulkRemove, Written, AllThere, There
  <2>2. RecOK'
    <3>1. CASE rec' = rec
      BY <3>1, Unmoved
    <3>2. CASE rec' # rec
      <4>1. ASSUME NEW r \in Records
            PROVE  rec'[r] = Gone \/ IsRecord(rec'[r])
        <5>1. CASE r \in job[c].on
          <6>1. rec'[r] = [rec[r] EXCEPT !.tags = @ \ drops[c]] /\ IsRecord(rec[r])
            BY <1>1, <2>1, <3>2, <5>1 DEF RecOK
          <6> QED
            BY <6>1 DEF IsRecord
        <5>2. CASE r \notin job[c].on
          BY <1>1, <2>1, <3>2, <5>2 DEF RecOK
        <5> QED
          BY <5>1, <5>2
      <4> QED
        BY <2>1, <3>2, <4>1 DEF RecOK, IsRecord
    <3> QED
      BY <3>1, <3>2
  <2> QED
    BY <1>4, <2>1, <2>2 DEF Doing
<1>8. CASE Create(c) \/ SwitchOn(c)
  <2>1. /\ outcome[c] = "open" /\ ~Ended(c)
        /\ Now(c).do \in {"create", "create off", "update"}
        /\ Onward(c) \/ Fails(c)
        /\ wrote' = wrote \/ wrote' = wrote \cup {c}
        /\ UNCHANGED <<job, local, tag, lastTag, staged, locks>>
        /\ \/ rec' = rec
           \/ rec' = [rec EXCEPT ![c] = Added(c)]
           \/ rec' = [rec EXCEPT ![c] = SwitchedOff(Added(c))]
    BY <1>8 DEF Create, SwitchOn, Written, Doing
  <2>2. RecOK'
    BY <1>1, <1>5, <2>1 DEF RecOK, IsRecord
  <2> QED
    BY <1>4, <2>1, <2>2
<1>9. CASE Delete(c)
  <2>1. /\ Doing(c, "delete")
        /\ Onward(c) \/ Fails(c)
        /\ wrote' = wrote \/ wrote' = wrote \cup {c}
        /\ UNCHANGED <<job, local, tag, lastTag, staged, locks>>
        /\ \/ rec' = rec
           \/ rec' = [r \in Records |-> IF r \in job[c].on THEN Gone ELSE rec[r]]
    BY <1>9 DEF Delete, Written
  <2>2. RecOK'
    BY <1>1, <2>1 DEF RecOK, IsRecord
  <2> QED
    BY <1>4, <2>1, <2>2 DEF Doing
<1> QED
  BY <1>6, <1>7, <1>8, <1>9

(* A record is read and saved. *)
LEMMA SavesCopy ==
  ASSUME IInv, NEW c \in Calls, Doing(c, "save")
  PROVE  copy[c] # Gone /\ copy[c].tags \subseteq TagIds
<1>1. Walking(c) /\ (copy[c] = Gone \/ copy[c].tags \subseteq TagIds)
  BY InParts DEF AllParts, Local
<1>2. Sound(copy[c] # Gone, todo[c], {"save"}, WholeReads, {"save"})
  BY <1>1 DEF Walking, OnPath, Doing
<1>3. IsPath(todo[c]) /\ todo[c] # <<>> /\ Head(todo[c]).do \in {"save"}
  BY <1>1 DEF Walking, Doing, Ended, Now
<1>4. (copy[c] # Gone) \in BOOLEAN
  OBVIOUS
<1> QED
  BY <1>1, <1>2, <1>3, <1>4, SoundNow

LEMMA SaveStep ==
  ASSUME IInv, NEW c \in Calls, SaveWhole(c)
  PROVE  IInv'
<1>1. /\ Doing(c, "save")
      /\ Onward(c) \/ Fails(c)
      /\ wrote' = wrote \/ wrote' = wrote \cup {c}
      /\ UNCHANGED <<job, seen, drops, known, tag, lastTag, staged>>
      /\ UNCHANGED locks
      /\ \/ rec' = rec /\ copy' = copy
         \/ /\ \E r \in job[c].on :
                 rec' = [rec EXCEPT ![r] =
                           Serially!Changed(copy[c], job[c], Adds(c), drops[c])]
            /\ copy' = [copy EXCEPT ![c] = Gone]
  BY DEF SaveWhole, Written
<1>2. IsRecord(Serially!Changed(copy[c], job[c], Adds(c), drops[c]))
  BY <1>1, SavesCopy, TagsWithAre, ChangedIsRecord DEF Adds
<1>3. RecOK /\ Local
  BY InParts DEF AllParts
<1>4. RecOK'
  BY <1>1, <1>2, <1>3 DEF RecOK, IsRecord
<1>5. Local'
  BY <1>1, <1>3 DEF Local
<1>6. TagOK' /\ staged' \in BOOLEAN
  BY <1>1, Unmoved
<1>7. UNCHANGED job /\ tag' = tag /\ seen' = seen
  BY <1>1
<1>8. copy' = copy \/ (Now(c).do = "save" /\ copy' = [copy EXCEPT ![c] = Gone])
  BY <1>1 DEF Doing
<1> QED
  BY <1>1, <1>4, <1>5, <1>6, <1>7, <1>8, WritingStep DEF Doing

LEMMA ReadStep ==
  ASSUME IInv, NEW c \in Calls, ReadWhole(c)
  PROVE  IInv'
<1>1. /\ Doing(c, "read")
      /\ Onward(c) \/ Fails(c)
      /\ UNCHANGED <<job, seen, drops, known, wrote, rec, tag, lastTag, staged>>
      /\ UNCHANGED locks
      /\ \/ Fails(c) /\ copy' = copy
         \/ Onward(c) /\ \E r \in job[c].on :
                           rec[r] # Gone /\ copy' = [copy EXCEPT ![c] = rec[r]]
  BY DEF ReadWhole, AllThere, There, prowlarr
<1>2. Frame /\ RecOK /\ Local
  BY InParts DEF AllParts
<1>3. job[c].on \subseteq Records
  BY <1>2, JobsAssumption DEF Frame
<1>4. Local'
  <2>1. \A r \in Records : rec[r] # Gone => rec[r].tags \subseteq TagIds
    BY <1>2 DEF RecOK, IsRecord
  <2> QED
    BY <1>1, <1>2, <1>3, <2>1 DEF Local
<1>5. Frame' /\ LocksOK' /\ \A d \in Calls : Walking(d)'
  <2>1. \A d \in Calls \ {c} : copy'[d] = copy[d] /\ seen'[d] = seen[d]
    BY <1>1, <1>2 DEF Local
  <2>2. CASE Fails(c) /\ copy' = copy
    <3>1. todo' = todo /\ outcome' = [outcome EXCEPT ![c] = "failing"] /\ copy'[c] = copy[c]
      BY <2>2 DEF Fails
    <3> QED
      BY <1>1, <2>1, <3>1, StepTaken DEF Doing
  <2>3. CASE Onward(c) /\ \E r \in job[c].on :
                            rec[r] # Gone /\ copy' = [copy EXCEPT ![c] = rec[r]]
    <3>1. copy'[c] # Gone
      BY <1>2, <2>3 DEF Local
    <3>2. todo' = [todo EXCEPT ![c] = Tail(@)] /\ outcome' = outcome
      BY <2>3 DEF Onward
    <3>3. SeesTags(c) => seen'[c] = tag'
      BY <1>1 DEF SeesTags
    <3> QED
      BY <1>1, <2>1, <3>1, <3>2, <3>3, StepTaken DEF Doing
  <2> QED
    BY <1>1, <2>2, <2>3
<1>6. RecOK' /\ TagOK' /\ staged' \in BOOLEAN /\ History'
  BY <1>1, Unmoved, Noted
<1> QED
  BY <1>4, <1>5, <1>6, FromParts DEF AllParts

-----------------------------------------------------------------------------
(* The tags are read and written. *)
LEMMA LookStep ==
  ASSUME IInv, NEW c \in Calls, LookAtTags(c)
  PROVE  IInv'
<1>1. /\ Doing(c, "look")
      /\ Onward(c)
      /\ seen' = [seen EXCEPT ![c] = tag]
      /\ UNCHANGED <<job, copy, drops, known, wrote, rec, tag, lastTag, staged>>
      /\ UNCHANGED locks
  BY DEF LookAtTags, prowlarr
<1>2. Local /\ TagOK
  BY InParts DEF AllParts
<1>3. Local'
  BY <1>1, <1>2 DEF Local, TagOK
<1>4. Frame' /\ LocksOK' /\ \A d \in Calls : Walking(d)'
  <2>1. /\ \A d \in Calls \ {c} : copy'[d] = copy[d] /\ seen'[d] = seen[d]
        /\ seen'[c] = tag' /\ copy'[c] = copy[c]
    BY <1>1, <1>2 DEF Local
  <2>2. todo' = [todo EXCEPT ![c] = Tail(@)] /\ outcome' = outcome
    BY <1>1 DEF Onward
  <2> QED
    BY <1>1, <2>1, <2>2, StepTaken DEF Doing
<1>5. RecOK' /\ TagOK' /\ staged' \in BOOLEAN /\ History'
  BY <1>1, Unmoved, Noted
<1> QED
  BY <1>3, <1>4, <1>5, FromParts DEF AllParts

(* Who writes a tag holds them, and has read them as they are. *)
LEMMA WritesTags ==
  ASSUME IInv, NEW c \in Calls, outcome[c] = "open", ~Ended(c),
         Now(c).do \in TagRoles
  PROVE  /\ HoldsTags(c)
         /\ Now(c).do \in LabelRoles(job[c]) => SeesTags(c)
<1>1. IsPath(todo[c]) /\ OnPath(c)
  BY InParts DEF AllParts, Walking
<1>2. todo[c] # <<>> /\ Now(c) = Head(todo[c])
  BY DEF Ended, Now
<1>3. HoldsTags(c) \in BOOLEAN /\ SeesTags(c) \in BOOLEAN
  BY DEF HoldsTags, SeesTags
<1>4. /\ Sound(HoldsTags(c), todo[c], TagRoles, TagLocks, Unlocking)
      /\ Sound(SeesTags(c), todo[c], LabelRoles(job[c]), Looks, Outdating)
  BY <1>1 DEF OnPath
<1>5. HoldsTags(c)
  BY <1>1, <1>2, <1>3, <1>4, SoundNow
<1>6. Now(c).do \in LabelRoles(job[c]) => SeesTags(c)
  BY <1>1, <1>2, <1>3, <1>4, SoundNow
<1> QED
  BY <1>5, <1>6

(* A label no other tag has is given to a tag. *)
LEMMA LabelGiven ==
  ASSUME TagOK, NEW t \in TagIds, NEW l \in Labels \cup {NoLabel},
         l # NoLabel => \A u \in TagIds \ {t} : tag[u] # l,
         tag' = [tag EXCEPT ![t] = l], lastTag' \in TagIds
  PROVE  TagOK'
<1>1. tag' \in [TagIds -> Labels \cup {NoLabel}]
  BY DEF TagOK
<1>2. LabelsApart'
  <2>1. \A u \in TagIds : tag'[u] = IF u = t THEN l ELSE tag[u]
    BY DEF TagOK
  <2>2. TagIds = Serially!TagIds
    BY DEF TagIds, Serially!TagIds
  <2> QED
    BY <2>1, <2>2 DEF TagOK, LabelsApart, Serially!LabelsApart
<1> QED
  BY <1>1, <1>2 DEF TagOK

LEMMA Posted ==
  ASSUME IInv, NEW c \in Calls, NEW l \in Labels, Post(c, l),
         \A t \in TagIds : tag[t] # l
  PROVE  /\ TagOK'
         /\ lastTag + 1 \in TagIds
         /\ seen' = [seen EXCEPT ![c][lastTag + 1] = l]
         /\ seen' \in [Calls -> [TagIds -> Labels \cup {NoLabel}]]
<1>1. TagOK /\ Local
  BY InParts DEF AllParts
<1>2. lastTag + 1 \in TagIds /\ lastTag' = lastTag + 1
  BY <1>1, SerialAssumption DEF TagOK, Post, TagIds, Serially!InOrder
<1>3. TagOK'
  BY <1>1, <1>2, LabelGiven DEF Post
<1>4. seen' = [seen EXCEPT ![c][lastTag + 1] = l]
  BY DEF Post
<1>5. seen' \in [Calls -> [TagIds -> Labels \cup {NoLabel}]]
  BY <1>1, <1>2, <1>4 DEF Local
<1> QED
  BY <1>2, <1>3, <1>4, <1>5

(* resolveTags makes a tag: the call goes on looking at what there is. *)
LEMMA MakeTagStep ==
  ASSUME IInv, NEW c \in Calls, MakeTag(c)
  PROVE  IInv'
<1>1. PICK l \in job[c].adds : TagWith(l, seen[c]) = 0 /\ Post(c, l)
  BY DEF MakeTag
<1>2. /\ outcome[c] = "open" /\ ~Ended(c) /\ Now(c).do = "make"
      /\ UNCHANGED <<todo, repeats>>
      /\ \/ outcome' = outcome
         \/ outcome' = [outcome EXCEPT ![c] = "failing"]
      /\ UNCHANGED <<job, copy, drops, known, wrote, rec, staged>>
      /\ UNCHANGED locks
  BY DEF MakeTag, Doing
<1>3. /\ Frame /\ Local /\ History /\ TagOK /\ LocksOK
      /\ \A d \in Calls : Walking(d)
  BY InParts DEF AllParts
<1>4. l \in Labels
  BY <1>1, <1>3, JobsAssumption DEF Frame
<1>5. SeesTags(c) /\ HoldsTags(c)
  BY <1>2, WritesTags DEF TagRoles, LabelRoles
<1>6. \A t \in TagIds : tag[t] # l
  BY <1>1, <1>5, TagWithIs DEF SeesTags
<1>7. /\ TagOK'
      /\ seen' = [seen EXCEPT ![c][lastTag + 1] = l]
      /\ seen' \in [Calls -> [TagIds -> Labels \cup {NoLabel}]]
  BY <1>1, <1>4, <1>6, Posted
<1>8. Local'
  BY <1>2, <1>3, <1>7 DEF Local
<1>9. /\ seen'[c] = tag'
      /\ \A d \in Calls \ {c} : seen'[d] = seen[d] /\ outcome'[d] = outcome[d]
  <2>1. seen'[c] = [seen[c] EXCEPT ![lastTag + 1] = l]
    BY <1>3, <1>7 DEF Local
  <2>2. tag' = [tag EXCEPT ![lastTag + 1] = l]
    BY <1>1 DEF Post
  <2>3. seen[c] = tag
    BY <1>5 DEF SeesTags
  <2>4. seen'[c] = tag'
    BY <2>1, <2>2, <2>3
  <2>5. \A d \in Calls \ {c} : seen'[d] = seen[d] /\ outcome'[d] = outcome[d]
    BY <1>2, <1>3, <1>7 DEF Local, Frame
  <2> QED
    BY <2>4, <2>5
<1>10. Frame' /\ LocksOK' /\ History'
  BY <1>2, <1>3 DEF Frame, LocksOK, History, locks,
                    Locks!TypeOK, Locks!OneAtATime, Locks!Conflict
<1>11. ASSUME NEW d \in Calls \ {c} PROVE Walking(d)'
  BY <1>2, <1>5, <1>9, <1>11, Bystander DEF locks
<1>12. Walking(c)'
  <2>1. /\ phase' = phase /\ named' = named /\ whole' = whole /\ todo' = todo
        /\ job' = job /\ copy' = copy
    BY <1>2 DEF locks
  <2>2. (HoldsTags(c)' <=> HoldsTags(c)) /\ SeesTags(c) /\ SeesTags(c)'
    BY <1>5, <1>9, <2>1 DEF HoldsTags, SeesTags
  <2>3. IsPath(todo'[c])
    BY <1>3, <2>1 DEF Walking
  <2>4. OnPath(c) /\ outcome[c] = "open"
    BY <1>2, <1>3 DEF Walking
  <2>5. Sound(HoldsTags(c)', todo'[c], TagRoles, TagLocks, Unlocking)
    BY <2>1, <2>2, <2>4 DEF OnPath, Sound
  <2>6. Sound(SeesTags(c)', todo'[c], LabelRoles(job'[c]), Looks, Outdating)
    BY <2>1, <2>2, <2>4 DEF OnPath, Sound
  <2>7. OnPath(c)'
    BY <2>1, <2>4, <2>5, <2>6 DEF OnPath
  <2>8. WaitsRight(c)'
    <3>1. phase[c] # "waiting"
      BY <1>2, <1>3 DEF Walking, WaitsRight, Doing
    <3> QED
      BY <2>1, <3>1 DEF WaitsRight
  <2>9. CopyInTurn(c)'
    BY <1>3, <2>1 DEF Walking, CopyInTurn
  <2> QED
    BY <2>3, <2>7, <2>8, <2>9 DEF Walking
<1>13. RecOK' /\ staged' \in BOOLEAN
  BY <1>2, Unmoved
<1> QED
  BY <1>7, <1>8, <1>10, <1>11, <1>12, <1>13, FromParts DEF AllParts

LEMMA StepsLeft ==
  \A p : IsPath(p) /\ p # <<>> => 1 \in DOMAIN p /\ Head(p) = p[1]
<1> SUFFICES ASSUME NEW p, IsPath(p), p # <<>>
             PROVE  1 \in DOMAIN p /\ Head(p) = p[1]
  OBVIOUS
<1> QED
  BY TailOfPath, PathLength

(* A call that gives a label names one. *)
LEMMA NamesLabel ==
  ASSUME IInv, NEW c \in Calls, outcome[c] = "open", ~Ended(c),
         Now(c).do \in {"make one", "rename"}
  PROVE  TheLabel(job[c].adds) \in Labels
<1> DEFINE p == todo[c]
<1>1. Frame /\ Walking(c)
  BY InParts DEF AllParts
<1>2. Named(p, job[c]) /\ IsPath(p) /\ p # <<>> /\ Now(c) = Head(p)
  BY <1>1 DEF Walking, OnPath, Ended, Now
<1> HIDE DEF p
<1>3. 1 \in DOMAIN p /\ Head(p) = p[1]
  BY <1>2, StepsLeft
<1>4. 1 \in DOMAIN p /\ p[1].do \in {"make one", "rename"}
  BY <1>2, <1>3
<1>5. job[c].adds # {}
  BY <1>2, <1>4 DEF Named
<1> QED
  BY <1>1, <1>5, JobsAssumption DEF Frame, TheLabel

LEMMA CreateTagStep ==
  ASSUME IInv, NEW c \in Calls, CreateTag(c)
  PROVE  IInv'
<1> DEFINE l == TheLabel(job[c].adds)
<1>1. /\ outcome[c] = "open" /\ ~Ended(c) /\ Now(c).do = "make one"
      /\ Onward(c) \/ Fails(c)
      /\ UNCHANGED <<job, copy, drops, known, wrote, rec, staged>>
      /\ UNCHANGED locks
      /\ \/ UNCHANGED <<tag, lastTag, seen>>
         \/ ~Taken(l, 0, seen[c]) /\ Post(c, l)
  BY DEF CreateTag, Doing, Written
<1>2. Local
  BY InParts DEF AllParts
<1>3. SeesTags(c) /\ HoldsTags(c)
  BY <1>1, WritesTags DEF TagRoles, LabelRoles
<1>4. l \in Labels
  BY <1>1, NamesLabel
<1> HIDE DEF l
<1>5. CASE UNCHANGED <<tag, lastTag, seen>>
  <2>1. Local' /\ RecOK' /\ TagOK' /\ staged' \in BOOLEAN
    BY <1>1, <1>5, Unmoved DEF local
  <2>2. copy' = copy /\ UNCHANGED job /\ tag' = tag /\ seen' = seen /\ wrote' = wrote
    BY <1>1, <1>5
  <2> QED
    BY <1>1, <2>1, <2>2, WritingStep
<1>6. CASE ~Taken(l, 0, seen[c]) /\ Post(c, l)
  <2>1. \A t \in TagIds : tag[t] # l
    BY <1>3, <1>6, SerialAssumption DEF Taken, SeesTags, TagIds, Serially!InOrder
  <2>2. /\ TagOK'
        /\ \E S : seen' = [seen EXCEPT ![c] = S]
        /\ seen' \in [Calls -> [TagIds -> Labels \cup {NoLabel}]]
    BY <1>4, <1>6, <2>1, Posted
  <2>3. Local'
    BY <1>1, <1>2, <2>2 DEF Local
  <2>4. RecOK' /\ staged' \in BOOLEAN
    BY <1>1, Unmoved
  <2>5. copy' = copy /\ UNCHANGED job /\ wrote' = wrote /\ Now(c).do \in Outdating
    BY <1>1 DEF Outdating
  <2> QED
    BY <1>1, <1>3, <2>2, <2>3, <2>4, <2>5, WritingStep
<1> QED
  BY <1>1, <1>5, <1>6

LEMMA RenameTagStep ==
  ASSUME IInv, NEW c \in Calls, RenameTag(c)
  PROVE  IInv'
<1> DEFINE l == TheLabel(job[c].adds)
           t == TagWith(TheLabel(job[c].removes), seen[c])
<1>1. /\ outcome[c] = "open" /\ ~Ended(c) /\ Now(c).do = "rename"
      /\ Onward(c) \/ Fails(c)
      /\ UNCHANGED <<job, wrote, rec, lastTag, staged>>
      /\ UNCHANGED local
      /\ UNCHANGED locks
      /\ \/ tag' = tag
         \/ t # 0 /\ ~Taken(l, t, seen[c]) /\ tag' = [tag EXCEPT ![t] = l]
  BY DEF RenameTag, Doing, Written
<1>2. TagOK
  BY InParts DEF AllParts
<1>3. SeesTags(c) /\ HoldsTags(c)
  BY <1>1, WritesTags DEF TagRoles, LabelRoles
<1>4. l \in Labels
  BY <1>1, NamesLabel
<1>5. t \in TagIds \cup {0}
  BY TagWithIs
<1> HIDE DEF l, t
<1>6. TagOK'
  <2>1. CASE tag' = tag
    BY <1>1, <2>1, Unmoved
  <2>2. CASE t # 0 /\ ~Taken(l, t, seen[c]) /\ tag' = [tag EXCEPT ![t] = l]
    <3>1. t \in TagIds /\ \A u \in TagIds \ {t} : tag[u] # l
      BY <1>3, <1>5, <2>2 DEF Taken, SeesTags
    <3>2. lastTag' \in TagIds
      BY <1>1, <1>2 DEF TagOK
    <3> QED
      BY <1>2, <1>4, <2>2, <3>1, <3>2, LabelGiven
  <2> QED
    BY <1>1, <2>1, <2>2
<1>7. Local' /\ RecOK' /\ staged' \in BOOLEAN
  BY <1>1, Unmoved
<1>8. copy' = copy /\ seen' = seen /\ Now(c).do \in Outdating /\ UNCHANGED job
  BY <1>1 DEF local, Outdating
<1> QED
  BY <1>1, <1>3, <1>6, <1>7, <1>8, WritingStep

LEMMA DropTagStep ==
  ASSUME IInv, NEW c \in Calls, DropTag(c)
  PROVE  IInv'
<1>1. /\ outcome[c] = "open" /\ ~Ended(c) /\ Now(c).do = "drop"
      /\ Onward(c) \/ Fails(c)
      /\ UNCHANGED <<job, wrote, rec, lastTag, staged>>
      /\ UNCHANGED local
      /\ UNCHANGED locks
      /\ \/ tag' = tag
         \/ \E t : tag' = [tag EXCEPT ![t] = NoLabel]
  BY DEF DropTag, Doing, Written
<1>2. TagOK
  BY InParts DEF AllParts
<1>3. HoldsTags(c)
  BY <1>1, WritesTags DEF TagRoles
<1>4. TagOK'
  <2>1. CASE tag' = tag
    BY <1>1, <2>1, Unmoved
  <2>2. CASE \E t : tag' = [tag EXCEPT ![t] = NoLabel]
    <3>1. PICK t : tag' = [tag EXCEPT ![t] = NoLabel]
      BY <2>2
    <3>2. CASE t \in TagIds
      BY <1>1, <1>2, <3>1, <3>2, LabelGiven DEF TagOK
    <3>3. CASE t \notin TagIds
      <4>1. tag' = tag
        BY <1>2, <3>1, <3>3 DEF TagOK
      <4> QED
        BY <1>1, <4>1, Unmoved
    <3> QED
      BY <3>2, <3>3
  <2> QED
    BY <1>1, <2>1, <2>2
<1>5. Local' /\ RecOK' /\ staged' \in BOOLEAN
  BY <1>1, Unmoved
<1>6. copy' = copy /\ seen' = seen /\ Now(c).do \in Outdating /\ UNCHANGED job
  BY <1>1 DEF local, Outdating
<1> QED
  BY <1>1, <1>3, <1>4, <1>5, <1>6, WritingStep

-----------------------------------------------------------------------------
(* Backups and restarts. *)
LEMMA StartOK ==
  /\ \A r \in Records : StartRec[r] = Gone \/ IsRecord(StartRec[r])
  /\ DOMAIN StartRec = Records
  /\ StartTag \in [TagIds -> Labels \cup {NoLabel}]
  /\ 1 \in TagIds
  /\ \A t, u \in TagIds : StartTag[t] = StartTag[u] /\ StartTag[t] # NoLabel => t = u
<1>1. TagIds = Serially!TagIds
  BY DEF TagIds, Serially!TagIds
<1>2. 1 \in TagIds
  BY SerialAssumption DEF TagIds, Serially!InOrder
<1>3. \A r \in Records : StartRec[r] = Gone \/ IsRecord(StartRec[r])
  BY <1>2 DEF StartRec, IsRecord
<1>4. DOMAIN StartRec = Records
  BY DEF StartRec
<1> QED
  BY <1>1, <1>2, <1>3, <1>4, SerialAssumption DEF Serially!InOrder

LEMMA RestoreStep ==
  ASSUME IInv, NEW c \in Calls, Restore(c)
  PROVE  IInv'
<1>1. /\ outcome[c] = "open" /\ ~Ended(c) /\ Now(c).do = "restore"
      /\ Onward(c) \/ Fails(c)
      /\ wrote' = wrote \cup {c}
      /\ staged' = TRUE
      /\ UNCHANGED <<rec, tag, lastTag>>
      /\ UNCHANGED job /\ UNCHANGED local /\ UNCHANGED locks
  BY DEF Restore, Doing, Written
<1>2. Local' /\ RecOK' /\ TagOK'
  BY <1>1, Unmoved
<1>3. copy' = copy /\ seen' = seen /\ tag' = tag /\ staged' \in BOOLEAN
  BY <1>1 DEF local
<1> QED
  BY <1>1, <1>2, <1>3, WritingStep

LEMMA RestartStep ==
  ASSUME IInv, NEW c \in Calls, Restart(c)
  PROVE  IInv'
<1>1. /\ outcome[c] = "open" /\ ~Ended(c) /\ Now(c).do = "restart"
      /\ Onward(c) \/ Fails(c)
      /\ wrote' = wrote \cup {c}
      /\ staged' = FALSE
      /\ \/ rec' = StartRec /\ tag' = StartTag /\ lastTag' = 1
         \/ UNCHANGED rec /\ UNCHANGED <<tag, lastTag>>
      /\ UNCHANGED job /\ UNCHANGED local /\ UNCHANGED locks
  BY DEF Restart, Doing, Written
<1>2. HoldsTags(c)
  BY <1>1, WritesTags DEF TagRoles
<1>3. RecOK' /\ TagOK'
  <2>1. CASE rec' = StartRec /\ tag' = StartTag /\ lastTag' = 1
    <3>1. RecOK'
      BY <2>1, StartOK DEF RecOK, IsRecord
    <3>2. LabelsApart'
      <4>1. TagIds = Serially!TagIds
        BY DEF TagIds, Serially!TagIds
      <4> QED
        BY <2>1, <4>1, StartOK DEF LabelsApart, Serially!LabelsApart
    <3> QED
      BY <2>1, <3>1, <3>2, StartOK DEF TagOK
  <2>2. CASE UNCHANGED rec /\ UNCHANGED <<tag, lastTag>>
    BY <2>2, Unmoved
  <2> QED
    BY <1>1, <2>1, <2>2
<1>4. Local' /\ staged' \in BOOLEAN
  BY <1>1, Unmoved
<1>5. copy' = copy /\ seen' = seen /\ Now(c).do \in Outdating
  BY <1>1 DEF local, Outdating
<1> QED
  BY <1>1, <1>2, <1>3, <1>4, <1>5, WritingStep

-----------------------------------------------------------------------------
(* A call that has asked for its locks waits for them. *)
LEMMA AskLocksStep ==
  ASSUME IInv, NEW c \in Calls, AskLocks(c)
  PROVE  IInv'
<1>1. /\ Doing(c, "lock")
      /\ phase[c] = "idle" /\ phase' = [phase EXCEPT ![c] = "waiting"]
      /\ \/ Now(c).what = {"all"} /\ Locks!AskAll(c)
         \/ Now(c).what # {"all"} /\ Locks!Ask(c, KeysOf(c))
      /\ UNCHANGED <<job, todo, outcome, wrote, repeats>>
      /\ UNCHANGED local /\ UNCHANGED rec /\ UNCHANGED <<tag, lastTag>> /\ UNCHANGED staged
  BY DEF AskLocks, Locks!Ask, Locks!AskAll, prowlarr
<1>2. /\ Frame /\ History /\ LocksOK
      /\ \A d \in Calls : Walking(d)
  BY InParts DEF AllParts
<1>3. \A d \in Calls \ {c} : phase'[d] = phase[d] /\ named'[d] = named[d] /\ whole'[d] = whole[d]
  BY <1>1, <1>2 DEF LocksOK, Locks!TypeOK, Locks!Ask, Locks!AskAll
<1>4. phase'[c] = "waiting"
  BY <1>1, <1>2 DEF LocksOK, Locks!TypeOK
<1>5. LocksOK'
  <2>1. KeysOf(c) \subseteq Records \cup {tagsLock}
    <3>1. job[c].on \subseteq Records
      BY <1>2, JobsAssumption DEF Frame
    <3> QED
      BY <3>1 DEF KeysOf
  <2>2. Locks!TypeOK'
    BY <1>1, <1>2, <2>1 DEF LocksOK, Locks!TypeOK, Locks!Ask, Locks!AskAll
  <2>3. Locks!OneAtATime'
    BY <1>2, <1>3, <1>4 DEF LocksOK, Locks!OneAtATime, Locks!Conflict
  <2> QED
    BY <2>2, <2>3 DEF LocksOK
<1>6. ASSUME NEW d \in Calls \ {c} PROVE Walking(d)'
  BY <1>1, <1>3, <1>6, Bystander DEF local
<1>7. Walking(c)'
  <2>1. /\ job' = job /\ todo' = todo /\ outcome' = outcome /\ copy' = copy
        /\ seen' = seen /\ tag' = tag
    BY <1>1 DEF local
  <2>2. /\ ~HoldsTags(c) /\ ~HoldsTags(c)' /\ ~SeesTags(c) /\ ~SeesTags(c)'
        /\ phase[c] # "turn" /\ phase'[c] # "turn"
    BY <1>1, <1>4 DEF HoldsTags, SeesTags
  <2>3. IsPath(todo'[c]) /\ OnPath(c) /\ CopyInTurn(c)
    BY <1>2, <2>1 DEF Walking
  <2>4. OnPath(c)'
    <3> SUFFICES ASSUME outcome'[c] = "open" PROVE OnPath(c)'
      BY DEF OnPath
    <3>1. /\ Named(todo'[c], job'[c])
          /\ Sound(copy'[c] # Gone, todo'[c], {"save"}, WholeReads, {"save"})
      BY <2>1, <2>3 DEF OnPath
    <3>2. Sound(HoldsTags(c)', todo'[c], TagRoles, TagLocks, Unlocking)
      BY <2>1, <2>2, <2>3 DEF OnPath, Sound
    <3>3. Sound(SeesTags(c)', todo'[c], LabelRoles(job'[c]), Looks, Outdating)
      BY <2>1, <2>2, <2>3 DEF OnPath, Sound
    <3>4. Locking(job'[c]) =>
            /\ Sound(copy'[c] = Gone, todo'[c], Unlocking, MakesTags, {"read"})
            /\ Sound(phase'[c] = "turn", todo'[c], HalfRoles, AnyLocks, Unlocking)
      BY <2>1, <2>2, <2>3 DEF OnPath, Sound
    <3> QED
      BY <3>1, <3>2, <3>3, <3>4 DEF OnPath
  <2>5. WaitsRight(c)'
    <3>1. IF Now(c).what = {"all"} THEN whole'[c] ELSE named'[c] = KeysOf(c)
      BY <1>1, <1>2 DEF LocksOK, Locks!TypeOK, Locks!Ask, Locks!AskAll
    <3>2. Now(c)' = Now(c) /\ KeysOf(c)' = KeysOf(c) /\ Ended(c)' = Ended(c)
      BY <2>1 DEF Now, KeysOf, Ended
    <3>3. outcome'[c] = "open" /\ Doing(c, "lock")'
      BY <1>1, <2>1 DEF Doing, Now, Ended
    <3> QED
      BY <3>1, <3>2, <3>3 DEF WaitsRight
  <2>6. CopyInTurn(c)'
    BY <2>1, <2>2, <2>3 DEF CopyInTurn
  <2> QED
    BY <2>3, <2>4, <2>5, <2>6 DEF Walking
<1>8. Frame' /\ History'
  BY <1>1, <1>2 DEF Frame, History
<1>9. Local' /\ RecOK' /\ TagOK' /\ staged' \in BOOLEAN
  BY <1>1, Unmoved
<1> QED
  BY <1>5, <1>6, <1>7, <1>8, <1>9, FromParts DEF AllParts

(* It is given them: the tags are its own if they were among them. *)
LEMMA GrantedStep ==
  ASSUME IInv, NEW c \in Calls, Granted(c)
  PROVE  IInv'
<1>1. /\ Doing(c, "lock")
      /\ phase[c] = "waiting" /\ phase' = [phase EXCEPT ![c] = "turn"]
      /\ \A d \in Calls \ {c} : phase[d] = "turn" => ~Locks!Conflict(c, d)
      /\ UNCHANGED <<named, whole>>
      /\ Onward(c)
      /\ UNCHANGED job /\ wrote' = wrote
      /\ UNCHANGED local /\ UNCHANGED rec /\ UNCHANGED <<tag, lastTag>> /\ UNCHANGED staged
  BY DEF Granted, Locks!Grant, prowlarr
<1>2. /\ Frame /\ History /\ LocksOK
      /\ \A d \in Calls : Walking(d)
  BY InParts DEF AllParts
<1>3. /\ \A d \in Calls \ {c} : phase'[d] = phase[d]
      /\ phase'[c] = "turn" /\ DOMAIN phase' = Calls
  BY <1>1, <1>2 DEF LocksOK, Locks!TypeOK
<1>4. LocksOK'
  <2>1. Locks!TypeOK'
    BY <1>1, <1>2 DEF LocksOK, Locks!TypeOK
  <2>2. Locks!OneAtATime'
    <3>1. \A d, e \in Calls : Locks!Conflict(d, e)' <=> Locks!Conflict(d, e)
      BY <1>1 DEF Locks!Conflict
    <3>2. \A d, e \in Calls : Locks!Conflict(d, e) => Locks!Conflict(e, d)
      BY DEF Locks!Conflict
    <3> QED
      BY <1>1, <1>2, <1>3, <3>1, <3>2 DEF LocksOK, Locks!OneAtATime
  <2> QED
    BY <2>1, <2>2 DEF LocksOK
<1>5. /\ todo' = [todo EXCEPT ![c] = Tail(@)] /\ outcome' = outcome
      /\ job' = job /\ copy' = copy /\ seen' = seen /\ tag' = tag
      /\ named' = named /\ whole' = whole
  BY <1>1 DEF Onward, local
<1>6. ASSUME NEW d \in Calls \ {c} PROVE Walking(d)'
  <2>1. todo'[d] = todo[d]
    BY <1>2, <1>5 DEF Frame
  <2> QED
    BY <1>3, <1>5, <1>6, <2>1, Bystander
<1>7. Walking(c)'
  <2>1. /\ IsPath(todo[c]) /\ OnPath(c) /\ outcome[c] = "open" /\ ~Ended(c)
        /\ Now(c).do = "lock" /\ todo'[c] = Tail(todo[c])
    BY <1>1, <1>2, <1>5 DEF Walking, Doing, Frame
  <2>2. ~HoldsTags(c) /\ ~SeesTags(c)
    BY <1>1 DEF HoldsTags, SeesTags
  <2>3. Now(c) \in TagLocks => HoldsTags(c)'
    <3>1. IF Now(c).what = {"all"} THEN whole[c] ELSE named[c] = KeysOf(c)
      BY <1>1, <1>2 DEF Walking, WaitsRight
    <3>2. CASE Now(c) = LockAll
      <4>1. Now(c).what = {"all"}
        BY <3>2 DEF LockAll, Step
      <4> QED
        BY <1>3, <1>5, <3>1, <4>1 DEF HoldsTags
    <3>3. ASSUME Now(c) = Lock({"tags"}) \/ Now(c) = Lock({"record", "tags"})
          PROVE  HoldsTags(c)'
      <4>1. Now(c).what = {"tags"} \/ Now(c).what = {"record", "tags"}
        BY <3>3 DEF Lock, Step
      <4>2. "tags" \in Now(c).what /\ Now(c).what # {"all"}
        BY <4>1
      <4>3. tagsLock \in KeysOf(c)
        BY <4>2 DEF KeysOf
      <4> QED
        BY <1>3, <1>5, <3>1, <4>2, <4>3 DEF HoldsTags
    <3> QED
      BY <3>2, <3>3 DEF TagLocks
  <2>4. Now(c) \notin Looks /\ Now(c) \notin WholeReads
    BY <2>1, Openers
  <2>5. Locking(job[c]) => copy[c] = Gone
    BY <1>1, <1>2 DEF Walking, CopyInTurn
  <2>6. IsPath(todo[c])' /\ OnPath(c)'
    BY <1>3, <1>5, <2>1, <2>2, <2>3, <2>4, <2>5, OnwardPath
  <2>7. WaitsRight(c)' /\ CopyInTurn(c)'
    BY <1>3 DEF WaitsRight, CopyInTurn
  <2> QED
    BY <2>6, <2>7 DEF Walking
<1>8. Frame'
  BY <1>2, <1>5 DEF Frame
<1>9. Local' /\ RecOK' /\ TagOK' /\ staged' \in BOOLEAN /\ History'
  BY <1>1, Unmoved, Noted
<1> QED
  BY <1>4, <1>6, <1>7, <1>8, <1>9, FromParts DEF AllParts

(* A call lets go what it holds. *)
LEMMA LetsGo ==
  ASSUME LocksOK, NEW c \in Calls, Locks!Unlock(c)
  PROVE  /\ LocksOK'
         /\ phase[c] = "turn" /\ phase'[c] = "idle"
         /\ \A d \in Calls \ {c} :
              phase'[d] = phase[d] /\ named'[d] = named[d] /\ whole'[d] = whole[d]
<1>1. /\ phase[c] = "turn" /\ phase'[c] = "idle"
      /\ \A d \in Calls \ {c} :
           phase'[d] = phase[d] /\ named'[d] = named[d] /\ whole'[d] = whole[d]
  BY DEF LocksOK, Locks!TypeOK, Locks!Unlock
<1>2. Locks!TypeOK'
  BY DEF LocksOK, Locks!TypeOK, Locks!Unlock
<1>3. Locks!OneAtATime'
  BY <1>1 DEF LocksOK, Locks!OneAtATime, Locks!Conflict
<1> QED
  BY <1>1, <1>2, <1>3 DEF LocksOK

LEMMA UnlocksStep ==
  ASSUME IInv, NEW c \in Calls, Unlocks(c)
  PROVE  IInv'
<1>1. /\ Doing(c, "unlock")
      /\ Locks!Unlock(c)
      /\ Onward(c)
      /\ UNCHANGED job /\ wrote' = wrote
      /\ UNCHANGED local /\ UNCHANGED rec /\ UNCHANGED <<tag, lastTag>> /\ UNCHANGED staged
  BY DEF Unlocks, prowlarr
<1>2. /\ Frame /\ History /\ LocksOK
      /\ \A d \in Calls : Walking(d)
  BY InParts DEF AllParts
<1>3. /\ LocksOK'
      /\ phase[c] = "turn" /\ phase'[c] = "idle"
      /\ \A d \in Calls \ {c} :
           phase'[d] = phase[d] /\ named'[d] = named[d] /\ whole'[d] = whole[d]
  BY <1>1, <1>2, LetsGo
<1>4. /\ todo' = [todo EXCEPT ![c] = Tail(@)] /\ outcome' = outcome
      /\ job' = job /\ copy' = copy /\ seen' = seen /\ tag' = tag
  BY <1>1 DEF Onward, local
<1>5. ASSUME NEW d \in Calls \ {c} PROVE Walking(d)'
  <2>1. todo'[d] = todo[d]
    BY <1>2, <1>4 DEF Frame
  <2> QED
    BY <1>3, <1>4, <1>5, <2>1, Bystander
<1>6. Walking(c)'
  <2>1. /\ IsPath(todo[c]) /\ OnPath(c) /\ outcome[c] = "open" /\ ~Ended(c)
        /\ Now(c).do = "unlock" /\ todo'[c] = Tail(todo[c])
    BY <1>1, <1>2, <1>4 DEF Walking, Doing, Frame
  <2>2. Now(c).do \in Unlocking /\ Now(c).do \in Outdating
    BY <2>1 DEF Unlocking, Outdating
  <2>3. /\ Now(c) \notin Looks /\ Now(c) \notin WholeReads
        /\ Now(c) \notin TagLocks /\ Now(c) \notin AnyLocks /\ Now(c) \notin MakesTags
    BY <2>1, Openers
  <2>4. IsPath(todo[c])' /\ OnPath(c)'
    BY <1>4, <2>1, <2>2, <2>3, OnwardPath
  <2>5. Locking(job[c]) => copy[c] = Gone
    <3> SUFFICES ASSUME Locking(job[c]) PROVE copy[c] = Gone
      OBVIOUS
    <3>1. Sound(copy[c] = Gone, todo[c], Unlocking, MakesTags, {"read"})
      BY <2>1 DEF OnPath
    <3>2. todo[c] # <<>> /\ Head(todo[c]).do \in Unlocking
      BY <2>1, <2>2 DEF Ended, Now
    <3>3. (copy[c] = Gone) \in BOOLEAN
      OBVIOUS
    <3> QED
      BY <2>1, <3>1, <3>2, <3>3, SoundNow
  <2>6. WaitsRight(c)' /\ CopyInTurn(c)'
    BY <1>3, <1>4, <2>5 DEF WaitsRight, CopyInTurn
  <2> QED
    BY <2>4, <2>6 DEF Walking
<1>7. Frame'
  BY <1>2, <1>4 DEF Frame
<1>8. Local' /\ RecOK' /\ TagOK' /\ staged' \in BOOLEAN /\ History'
  BY <1>1, Unmoved, Noted
<1> QED
  BY <1>3, <1>5, <1>6, <1>7, <1>8, FromParts DEF AllParts

(* The handler returns, and its unlock lets go what it still holds. *)
LEMMA ReturnStep ==
  ASSUME IInv, NEW c \in Calls, Return(c)
  PROVE  IInv'
<1>1. /\ outcome[c] = "failing" \/ Ended(c)
      /\ Forget(c)
      /\ \/ Locks!Unlock(c)
         \/ phase[c] # "turn" /\ UNCHANGED <<phase, named, whole>>
      /\ UNCHANGED <<job, wrote, repeats>>
      /\ UNCHANGED rec /\ UNCHANGED <<tag, lastTag>> /\ UNCHANGED staged
  BY DEF Return, Returning, prowlarr, locks, Locks!Unlock
<1>2. /\ Frame /\ Local /\ History /\ LocksOK
      /\ \A d \in Calls : Walking(d)
  BY InParts DEF AllParts
<1>3. phase[c] # "waiting"
  BY <1>1, <1>2 DEF Walking, WaitsRight, Doing
<1>4. /\ LocksOK'
      /\ phase'[c] # "waiting"
      /\ \A d \in Calls \ {c} :
           phase'[d] = phase[d] /\ named'[d] = named[d] /\ whole'[d] = whole[d]
  <2>1. CASE Locks!Unlock(c)
    BY <1>2, <2>1, LetsGo
  <2>2. CASE phase[c] # "turn" /\ UNCHANGED <<phase, named, whole>>
    BY <1>2, <1>3, <2>2 DEF LocksOK, Locks!TypeOK, Locks!OneAtATime, Locks!Conflict
  <2> QED
    BY <1>1, <2>1, <2>2
<1>5. /\ outcome' = [outcome EXCEPT ![c] = IF @ = "open" THEN "done" ELSE "failed"]
      /\ todo' = [todo EXCEPT ![c] = <<>>]
      /\ copy' = [copy EXCEPT ![c] = Gone]
      /\ seen' = [seen EXCEPT ![c] = StartTag]
      /\ drops' = [drops EXCEPT ![c] = {}]
      /\ known' = [known EXCEPT ![c] = {}]
      /\ job' = job /\ tag' = tag
  BY <1>1 DEF Forget
<1>6. Frame' /\ History'
  BY <1>1, <1>2, <1>5 DEF Frame, History
<1>7. Local'
  BY <1>2, <1>5, StartOK DEF Local
<1>8. ASSUME NEW d \in Calls \ {c} PROVE Walking(d)'
  <2>1. /\ todo'[d] = todo[d] /\ outcome'[d] = outcome[d]
        /\ copy'[d] = copy[d] /\ seen'[d] = seen[d]
    BY <1>2, <1>5 DEF Frame, Local
  <2> QED
    BY <1>4, <1>5, <1>8, <2>1, Bystander
<1>9. Walking(c)'
  <2>1. /\ outcome'[c] # "open" /\ todo'[c] = <<>> /\ copy'[c] = Gone
    BY <1>2, <1>5 DEF Frame, Local
  <2>2. IsPath(todo'[c])
    <3>1. Only(<<>>, Roles)
      BY OnlyNone
    <3> QED
      BY <2>1, <3>1 DEF Only
  <2> QED
    BY <1>4, <2>1, <2>2 DEF Walking, OnPath, WaitsRight, CopyInTurn
<1>10. RecOK' /\ TagOK' /\ staged' \in BOOLEAN
  BY <1>1, Unmoved
<1> QED
  BY <1>4, <1>6, <1>7, <1>8, <1>9, <1>10, FromParts DEF AllParts

(* Requests that decide nothing are passed by: they open nothing. *)
LEMMA PassByStep ==
  ASSUME IInv, NEW c \in Calls, PassBy(c)
  PROVE  IInv'
<1>1. /\ outcome[c] = "open" /\ ~Ended(c) /\ Now(c).do \in Silent
      /\ Begun(c)
      /\ UNCHANGED <<job, outcome, wrote>>
      /\ UNCHANGED local /\ UNCHANGED rec /\ UNCHANGED <<tag, lastTag>> /\ UNCHANGED staged
      /\ UNCHANGED <<phase, named, whole>>
  BY DEF PassBy, Doing, prowlarr, locks
<1>2. PICK last \in 1..Len(todo[c]) :
        /\ \A i \in 1..last : todo[c][i].do \in Silent
        /\ todo' = [todo EXCEPT ![c] = SubSeq(@, last + 1, Len(@))]
  BY DEF PassBy
<1>3. /\ Frame /\ History /\ LocksOK
      /\ \A d \in Calls : Walking(d)
  BY InParts DEF AllParts
<1>4. Frame'
  BY <1>1, <1>2, <1>3 DEF Frame
<1>5. History'
  <2>1. repeats' = repeats \/ repeats' = repeats \cup {c}
    BY <1>1 DEF Begun
  <2> QED
    BY <1>1, <1>3, <2>1 DEF History
<1>6. LocksOK'
  BY <1>1, <1>3 DEF LocksOK, Locks!TypeOK, Locks!OneAtATime, Locks!Conflict
<1>7. ASSUME NEW d \in Calls \ {c} PROVE Walking(d)'
  <2>1. todo'[d] = todo[d]
    BY <1>2, <1>3 DEF Frame
  <2> QED
    BY <1>1, <1>7, <2>1, Bystander DEF local
<1>8. Walking(c)'
  <2> DEFINE p == todo[c]
             q == SubSeq(p, last + 1, Len(p))
  <2>1. todo'[c] = q /\ IsPath(p) /\ OnPath(c)
    BY <1>2, <1>3 DEF Frame, Walking
  <2>2. /\ Named(p, job[c])
        /\ Sound(HoldsTags(c), p, TagRoles, TagLocks, Unlocking)
        /\ Sound(SeesTags(c), p, LabelRoles(job[c]), Looks, Outdating)
        /\ Sound(copy[c] # Gone, p, {"save"}, WholeReads, {"save"})
        /\ Locking(job[c]) =>
             /\ Sound(copy[c] = Gone, p, Unlocking, MakesTags, {"read"})
             /\ Sound(phase[c] = "turn", p, HalfRoles, AnyLocks, Unlocking)
    BY <1>1, <2>1 DEF OnPath
  <2>3. \A i \in 1..last : p[i].do \in Silent
    BY <1>2
  <2>4. \A i \in 1..last :
          /\ p[i] \notin TagLocks /\ p[i] \notin AnyLocks /\ p[i] \notin MakesTags
          /\ p[i] \notin Looks /\ p[i] \notin WholeReads
    BY <2>3, Openers DEF Silent
  <2>5. /\ HoldsTags(c) \in BOOLEAN /\ SeesTags(c) \in BOOLEAN
        /\ (copy[c] # Gone) \in BOOLEAN /\ (copy[c] = Gone) \in BOOLEAN
        /\ (phase[c] = "turn") \in BOOLEAN
    BY DEF HoldsTags, SeesTags
  <2> IsPath(p)
    BY <2>1
  <2> HIDE DEF p
  <2> last \in 0..Len(p)
    BY <1>2, PathLength DEF p
  <2>6. Sound(HoldsTags(c), q, TagRoles, TagLocks, Unlocking)
    BY <2>2, <2>4, <2>5, SoundDropped
  <2>7. Sound(SeesTags(c), q, LabelRoles(job[c]), Looks, Outdating)
    BY <2>2, <2>4, <2>5, SoundDropped
  <2>8. Sound(copy[c] # Gone, q, {"save"}, WholeReads, {"save"})
    BY <2>2, <2>4, <2>5, SoundDropped
  <2>9. ASSUME Locking(job[c])
        PROVE  /\ Sound(copy[c] = Gone, q, Unlocking, MakesTags, {"read"})
               /\ Sound(phase[c] = "turn", q, HalfRoles, AnyLocks, Unlocking)
    BY <2>2, <2>4, <2>5, <2>9, SoundDropped
  <2>10. IsPath(q) /\ Named(q, job[c])
    <3>1. /\ IsPath(q) /\ Len(q) = Len(p) - last
          /\ \A i \in 1..Len(q) : q[i] = p[last + i]
      BY Dropped
    <3>2. DOMAIN p = 1..Len(p) /\ Len(p) \in Nat
      BY PathLength
    <3> HIDE DEF q
    <3>3. DOMAIN q = 1..Len(q)
      BY <3>1, PathLength
    <3>4. \A i \in DOMAIN q : last + i \in DOMAIN p /\ q[i] = p[last + i]
      BY <1>2, <3>1, <3>2, <3>3
    <3> QED
      BY <2>2, <3>1, <3>4 DEF Named
  <2> HIDE DEF q
  <2>11. /\ HoldsTags(c)' = HoldsTags(c) /\ SeesTags(c)' = SeesTags(c)
         /\ job' = job /\ copy' = copy /\ phase' = phase
    BY <1>1 DEF HoldsTags, SeesTags, local
  <2>12. OnPath(c)'
    BY <2>1, <2>6, <2>7, <2>8, <2>9, <2>10, <2>11 DEF OnPath
  <2>13. WaitsRight(c)'
    <3>1. phase[c] # "waiting"
      BY <1>1, <1>3 DEF Walking, WaitsRight, Doing, Silent
    <3> QED
      BY <2>11, <3>1 DEF WaitsRight
  <2>14. CopyInTurn(c)'
    BY <1>3, <2>11 DEF Walking, CopyInTurn
  <2> QED
    BY <2>1, <2>10, <2>12, <2>13, <2>14 DEF Walking
<1>9. Local' /\ RecOK' /\ TagOK' /\ staged' \in BOOLEAN
  BY <1>1, Unmoved
<1> QED
  BY <1>4, <1>5, <1>6, <1>7, <1>8, <1>9, FromParts DEF AllParts

-----------------------------------------------------------------------------
LEMMA InitIInv == Init => IInv
<1> SUFFICES ASSUME Init PROVE IInv
  OBVIOUS
<1> USE DEF Init
<1>1. \A c \in Calls : todo[c] = Path(job[c]) /\ Proper(todo[c], job[c])
  BY FormedJobs, PathProper
<1>2. ASSUME NEW c \in Calls
      PROVE  IsPath(todo[c]) /\ OnPath(c) /\ WaitsRight(c) /\ CopyInTurn(c)
  <2>1. Proper(todo[c], job[c])
    BY <1>1
  <2>2. \A now, p, roles, opens, closes :
          Kept(p, roles, opens, closes) => Sound(now, p, roles, opens, closes)
    BY DEF Sound, Kept, KeptOn
  <2>3. IsPath(todo[c]) /\ OnPath(c)
    BY <2>1, <2>2 DEF Proper, OnPath
  <2>4. WaitsRight(c) /\ CopyInTurn(c)
    BY DEF WaitsRight, CopyInTurn, Locks!Init
  <2> QED
    BY <2>3, <2>4
<1>3. Locks!TypeOK /\ Locks!OneAtATime
  BY DEF Locks!Init, Locks!TypeOK, Locks!OneAtATime
<1>4. TypeOK
  <2>1. \A c \in Calls : \A i \in DOMAIN todo[c] : todo[c][i].do \in Roles
    BY <1>2 DEF IsPath
  <2>2. /\ outcome \in [Calls -> {"open", "failing", "failed", "done"}]
        /\ seen \in [Calls -> [TagIds -> Labels \cup {NoLabel}]]
        /\ drops \in [Calls -> SUBSET TagIds]
        /\ known \in [Calls -> SUBSET Records]
        /\ \A c \in Calls : copy[c] = Gone
    BY StartOK
  <2>3. \A r \in Records : rec[r] = Gone \/ rec[r].tags \subseteq TagIds
    BY StartOK DEF IsRecord
  <2> QED
    BY <1>3, <2>1, <2>2, <2>3, StartOK DEF TypeOK
<1>5. ShapesOK
  BY <1>2, StartOK DEF ShapesOK
<1>6. LabelsApart
  <2>1. TagIds = Serially!TagIds
    BY DEF TagIds, Serially!TagIds
  <2> QED
    BY <2>1, StartOK DEF LabelsApart, Serially!LabelsApart
<1> QED
  BY <1>2, <1>3, <1>4, <1>5, <1>6 DEF IInv

LEMMA NextIInv == IInv /\ [Next]_vars => IInv'
<1> SUFFICES ASSUME IInv, [Next]_vars PROVE IInv'
  OBVIOUS
<1>1. ASSUME NEW c \in Calls, Goes(c) PROVE IInv'
  BY <1>1, PassByStep, AskLocksStep, UnlocksStep, ReadStep, LookStep, MakeTagStep,
     ReadingSteps, SaveStep, RecordSteps, CreateTagStep, RenameTagStep, DropTagStep,
     RestoreStep, RestartStep, ReturnStep DEF Goes
<1>2. ASSUME NEW c \in Calls, Granted(c) \/ Fail(c) PROVE IInv'
  BY <1>2, GrantedStep, FailStep
<1>3. CASE UNCHANGED vars
  <2>1. /\ UNCHANGED <<job, todo, outcome, wrote, repeats>>
        /\ UNCHANGED <<copy, seen, drops, known>>
        /\ UNCHANGED <<rec, tag, lastTag, staged>>
        /\ UNCHANGED <<phase, named, whole>>
    BY <1>3 DEF vars, local, prowlarr, locks
  <2>2. TypeOK'
    BY <2>1 DEF IInv, TypeOK, Locks!TypeOK
  <2>3. ShapesOK' /\ Locks!OneAtATime' /\ LabelsApart'
    BY <2>1 DEF IInv, ShapesOK, IsPath, Steps, IsRecord, Locks!OneAtATime,
                Locks!Conflict, LabelsApart, Serially!LabelsApart
  <2>4. \A c \in Calls : OnPath(c)' /\ WaitsRight(c)' /\ CopyInTurn(c)'
    BY <2>1 DEF IInv, OnPath, WaitsRight, CopyInTurn, HoldsTags, SeesTags, Doing, Now,
                Ended, KeysOf
  <2> QED
    BY <2>2, <2>3, <2>4 DEF IInv
<1> QED
  BY <1>1, <1>2, <1>3 DEF Next, TurnOver

(* IInv is an inductive invariant, for any calls, records, labels and jobs *)
(* that name what they have to: a call that gives a label names one, a     *)
(* record edit without tags names none.                                    *)
THEOREM Inductive == Spec => []IInv
<1>1. Init => IInv
  BY InitIInv
<1>2. IInv /\ [Next]_vars => IInv'
  BY NextIInv
<1> QED
  BY <1>1, <1>2, PTL DEF Spec

(* Every variable keeps its type. *)
THEOREM TypeCorrect == Spec => []TypeOK
<1>1. IInv => TypeOK
  BY DEF IInv
<1> QED
  BY <1>1, Inductive, PTL

(* A label never names two tags, however many calls make, rename and drop  *)
(* tags at once and however a restore comes between (tools/locks.go).      *)
THEOREM LabelsStayApart == Spec => []LabelsApart
<1>1. IInv => LabelsApart
  BY DEF IInv
<1> QED
  BY <1>1, Inductive, PTL

(* Where every call locks what it writes, a call that has everything locked *)
(* finds no other half way (tools/commands.go, tools/backups.go).           *)
THEOREM AllIsQuiet ==
  ASSUME \A j \in Jobs : Locking(j)
  PROVE  Spec => []QuietUnderAll
<1>1. IInv => QuietUnderAll
  <2> SUFFICES ASSUME IInv, NEW c \in Calls, NEW d \in Calls, c # d,
                      phase[c] = "turn", whole[c], HalfWay(d)
               PROVE  FALSE
    BY DEF QuietUnderAll
  <2>1. Locking(job[d]) /\ Walking(d) /\ LocksOK
    BY InParts DEF AllParts, Frame
  <2>2. phase[d] = "turn"
    <3>1. CASE copy[d] # Gone
      BY <2>1, <3>1 DEF Walking, CopyInTurn
    <3>2. CASE copy[d] = Gone
      <4>1. outcome[d] = "open" /\ ~Ended(d) /\ Now(d).do \in HalfRoles
        BY <3>2 DEF HalfWay, Doing, HalfRoles
      <4>2. Sound(phase[d] = "turn", todo[d], HalfRoles, AnyLocks, Unlocking)
        BY <2>1, <4>1 DEF Walking, OnPath
      <4>3. IsPath(todo[d]) /\ todo[d] # <<>> /\ Head(todo[d]).do \in HalfRoles
        BY <2>1, <4>1 DEF Walking, Ended, Now
      <4>4. (phase[d] = "turn") \in BOOLEAN
        OBVIOUS
      <4> QED
        BY <4>2, <4>3, <4>4, SoundNow
    <3> QED
      BY <3>1, <3>2
  <2> QED
    BY <2>1, <2>2 DEF LocksOK, Locks!OneAtATime, Locks!Conflict
<1> QED
  BY <1>1, Inductive, PTL

(* The tags an edit adds are there when it saves: none it looked up or     *)
(* made has gone, or got another label, in the meantime.                   *)
THEOREM AddedTagsAreThere == Spec => AddedTagsExist
<1>1. ASSUME IInv, NEW c \in Calls, Saves(c)
      PROVE  \A t \in Adds(c) : tag[t] \in job[c].adds
  <2>1. outcome[c] = "open" /\ ~Ended(c) /\ Now(c).do = "save"
    BY <1>1 DEF Saves, Doing
  <2>2. CASE job[c].adds = {}
    BY <2>2 DEF Adds, TagsWith
  <2>3. CASE job[c].adds # {}
    <3>1. IsPath(todo[c]) /\ OnPath(c)
      BY <1>1, InParts DEF AllParts, Walking
    <3>2. Sound(SeesTags(c), todo[c], LabelRoles(job[c]), Looks, Outdating)
      BY <2>1, <3>1 DEF OnPath
    <3>3. todo[c] # <<>> /\ Head(todo[c]).do \in LabelRoles(job[c])
      BY <2>1, <2>3 DEF Ended, Now, LabelRoles
    <3>4. SeesTags(c) \in BOOLEAN
      BY DEF SeesTags
    <3>5. SeesTags(c)
      BY <3>1, <3>2, <3>3, <3>4, SoundNow
    <3> QED
      BY <3>5, TagsWithAre DEF Adds, SeesTags
  <2> QED
    BY <2>2, <2>3
<1>2. IInv /\ [Next]_vars =>
        [\A c \in Calls : Saves(c) => \A t \in Adds(c) : tag[t] \in job[c].adds]_vars
  BY <1>1
<1> QED
  BY <1>2, Inductive, PTL DEF Spec, AddedTagsExist

-----------------------------------------------------------------------------
(* What serial changes keep.  A tag that is made has a number above every  *)
(* other, so it takes no other tag's place; that is what TypeOK is needed  *)
(* for.                                                                    *)
SerialInv == Serially!TypeOK /\ Serially!LabelsApart /\ Serially!NoneDangling

(* What the turn begins with, and a restart may bring back, is in order.   *)
LEMMA SerialStart ==
  ASSUME rec = StartRec, tag = StartTag
  PROVE  /\ DOMAIN rec = Records
         /\ \A r \in Records : rec[r] # Gone => rec[r].tags \subseteq Serially!TagIds
         /\ Serially!LabelsApart
         /\ Serially!NoneDangling
<1>1. \A r \in Records : rec[r] # Gone =>
        \A t \in rec[r].tags : t \in Serially!TagIds /\ tag[t] # NoLabel
  BY SerialAssumption DEF Serially!InOrder
<1>2. Serially!NoneDangling
  BY <1>1 DEF Serially!NoneDangling, Serially!Carried
<1>3. Serially!LabelsApart
  BY SerialAssumption DEF Serially!InOrder, Serially!LabelsApart
<1> QED
  BY <1>1, <1>2, <1>3, SerialAssumption DEF Serially!InOrder

LEMMA SerialInit ==
  ASSUME Serially!Init
  PROVE  SerialInv
<1>1. Serially!TypeOK
  BY SerialStart, SerialAssumption DEF Serially!InOrder, Serially!Init,
         Serially!TypeOK
<1> QED
  BY <1>1, SerialStart DEF Serially!Init, SerialInv

LEMMA SerialEdit ==
  ASSUME SerialInv, NEW c \in Calls, Serially!Edit(c)
  PROVE  SerialInv'
<1> DEFINE A == Serially!Labelled(job[c].adds)
<1>1. PICK r \in job[c].on, D \in SUBSET Serially!TagIds :
        /\ rec[r] # Gone
        /\ rec' = [rec EXCEPT ![r] = Serially!Changed(rec[r], job[c], A, D)]
  BY DEF Serially!Edit
<1>2. /\ r \in Records
      /\ rec[r] # Gone
      /\ job[c].adds \in SUBSET Labels
  BY <1>1, SerialAssumption DEF Serially!InOrder, SerialInv, Serially!TypeOK
<1>3. /\ A \subseteq Serially!TagIds
      /\ \A t \in A : tag[t] # NoLabel
  BY <1>2, SerialAssumption DEF Serially!InOrder, Serially!Labelled
<1>4. UNCHANGED <<job, tag, lastTag, staged>> /\ wrote' = wrote \cup {c}
  BY DEF Serially!Edit, Serially!Make
<1> HIDE DEF A
<1>5. /\ DOMAIN rec' = Records
      /\ rec'[r].tags \subseteq rec[r].tags \cup A
      /\ \A i \in Records \ {r} : rec'[i] = rec[i]
  BY <1>1, <1>2 DEF SerialInv, Serially!TypeOK, Serially!Changed, Serially!EditedTags
<1>6. Serially!TypeOK'
  BY <1>2, <1>3, <1>4, <1>5 DEF SerialInv, Serially!TypeOK
<1>7. Serially!LabelsApart'
  BY <1>4 DEF SerialInv, Serially!LabelsApart
<1>8. Serially!NoneDangling'
  <2>1. Serially!Carried' \subseteq Serially!Carried \cup A
    BY <1>2, <1>5 DEF Serially!Carried
  <2> QED
    BY <1>3, <1>4, <2>1 DEF SerialInv, Serially!NoneDangling
<1> QED
  BY <1>6, <1>7, <1>8 DEF SerialInv

LEMMA SerialDelete ==
  ASSUME SerialInv, NEW c \in Calls, Serially!Delete(c)
  PROVE  SerialInv'
<1>1. /\ rec' = [r \in Records |-> IF r \in job[c].on THEN Gone ELSE rec[r]]
      /\ UNCHANGED <<job, tag, lastTag, staged>>
      /\ wrote' = wrote \cup {c}
  BY DEF Serially!Delete, Serially!Make
<1>2. Serially!TypeOK'
  BY <1>1 DEF SerialInv, Serially!TypeOK
<1>3. Serially!NoneDangling'
  <2>1. Serially!Carried' \subseteq Serially!Carried
    BY <1>1 DEF SerialInv, Serially!TypeOK, Serially!Carried
  <2> QED
    BY <1>1, <2>1 DEF SerialInv, Serially!NoneDangling
<1> QED
  BY <1>1, <1>2, <1>3 DEF SerialInv, Serially!LabelsApart

(* No tag carried is above lastTag, so the new one is carried by nothing.  *)
LEMMA SerialMakeTag ==
  ASSUME SerialInv, NEW l \in Labels, Serially!MakeTag(l)
  PROVE  SerialInv'
<1> DEFINE n == lastTag + 1
<1>1. /\ n \in Serially!TagIds
      /\ lastTag' = n
      /\ tag' = [tag EXCEPT ![n] = l]
      /\ \A t \in Serially!TagIds : tag[t] # l
      /\ UNCHANGED <<job, rec, staged, wrote>>
  BY SerialAssumption DEF Serially!InOrder, Serially!MakeTag, Serially!Labelled,
         SerialInv, Serially!TypeOK, Serially!TagIds
<1>2. l # NoLabel
  BY SerialAssumption DEF Serially!InOrder
<1>3. Serially!TypeOK'
  BY <1>1, SerialAssumption DEF Serially!InOrder, SerialInv, Serially!TypeOK,
         Serially!TagIds
<1>4. Serially!LabelsApart'
  BY <1>1, <1>2 DEF SerialInv, Serially!TypeOK, Serially!LabelsApart
<1>5. Serially!NoneDangling'
  <2>1. Serially!Carried' = Serially!Carried /\ Serially!Carried \subseteq Serially!TagIds
    BY <1>1 DEF SerialInv, Serially!TypeOK, Serially!Carried
  <2> QED
    BY <1>1, <1>2, <2>1 DEF SerialInv, Serially!TypeOK, Serially!NoneDangling
<1> QED
  BY <1>3, <1>4, <1>5 DEF SerialInv

LEMMA SerialRename ==
  ASSUME SerialInv, NEW t \in Serially!TagIds, NEW l \in Labels, Serially!Rename(t, l)
  PROVE  SerialInv'
<1>1. /\ tag[t] # NoLabel
      /\ tag' = [tag EXCEPT ![t] = l]
      /\ \A u \in Serially!TagIds \ {t} : tag[u] # l
      /\ UNCHANGED <<job, rec, lastTag, staged, wrote>>
  BY DEF Serially!Rename, Serially!Labelled
<1>2. l # NoLabel
  BY SerialAssumption DEF Serially!InOrder
<1>3. Serially!TypeOK'
  BY <1>1 DEF SerialInv, Serially!TypeOK
<1>4. Serially!LabelsApart'
  BY <1>1, <1>2 DEF SerialInv, Serially!TypeOK, Serially!LabelsApart
<1>5. Serially!NoneDangling'
  <2>1. Serially!Carried' = Serially!Carried /\ Serially!Carried \subseteq Serially!TagIds
    BY <1>1 DEF SerialInv, Serially!TypeOK, Serially!Carried
  <2> QED
    BY <1>1, <1>2, <2>1 DEF SerialInv, Serially!TypeOK, Serially!NoneDangling
<1> QED
  BY <1>3, <1>4, <1>5 DEF SerialInv

LEMMA SerialDropTag ==
  ASSUME SerialInv, NEW t \in Serially!TagIds, Serially!DropTag(t)
  PROVE  SerialInv'
<1>1. /\ t \notin Serially!Carried
      /\ tag' = [tag EXCEPT ![t] = NoLabel]
      /\ UNCHANGED <<job, rec, lastTag, staged, wrote>>
  BY DEF Serially!DropTag
<1>2. Serially!TypeOK'
  BY <1>1 DEF SerialInv, Serially!TypeOK
<1>3. Serially!LabelsApart'
  BY <1>1 DEF SerialInv, Serially!TypeOK, Serially!LabelsApart
<1>4. Serially!NoneDangling'
  <2>1. Serially!Carried' = Serially!Carried /\ Serially!Carried \subseteq Serially!TagIds
    BY <1>1 DEF SerialInv, Serially!TypeOK, Serially!Carried
  <2> QED
    BY <1>1, <2>1 DEF SerialInv, Serially!TypeOK, Serially!NoneDangling
<1> QED
  BY <1>2, <1>3, <1>4 DEF SerialInv

LEMMA SerialRestart ==
  ASSUME SerialInv, NEW c \in Calls, Serially!Restart(c)
  PROVE  SerialInv'
<1>1. job' = job /\ staged' = FALSE /\ wrote' = wrote \cup {c}
  BY DEF Serially!Restart, Serially!Make
<1>2. CASE staged
  <2>1. rec' = StartRec /\ tag' = StartTag /\ lastTag' = 1
    BY <1>2 DEF Serially!Restart
  <2>2. \A r \in Records : rec'[r] # Gone =>
          \A t \in rec'[r].tags : t \in Serially!TagIds /\ tag'[t] # NoLabel
    BY <2>1, SerialAssumption DEF Serially!InOrder
  <2>3. Serially!TypeOK'
    BY <1>1, <2>1, <2>2, SerialAssumption DEF Serially!InOrder, SerialInv,
           Serially!TypeOK
  <2>4. Serially!LabelsApart'
    BY <2>1, SerialAssumption DEF Serially!InOrder, Serially!LabelsApart
  <2>5. Serially!NoneDangling'
    BY <2>2 DEF Serially!NoneDangling, Serially!Carried
  <2> QED
    BY <2>3, <2>4, <2>5 DEF SerialInv
<1>3. CASE ~staged
  <2>1. UNCHANGED <<rec, tag, lastTag>>
    BY <1>3 DEF Serially!Restart
  <2>2. Serially!TypeOK'
    BY <1>1, <2>1 DEF SerialInv, Serially!TypeOK
  <2>3. Serially!LabelsApart' /\ Serially!NoneDangling'
    BY <2>1 DEF SerialInv, Serially!LabelsApart, Serially!NoneDangling,
           Serially!Carried
  <2> QED
    BY <2>2, <2>3 DEF SerialInv
<1> QED
  BY <1>2, <1>3

LEMMA SerialNext ==
  ASSUME SerialInv, [Serially!Next]_Serially!vars
  PROVE  SerialInv'
<1>1. ASSUME NEW c \in Calls, Serially!Restore(c)
      PROVE  SerialInv'
  BY <1>1 DEF Serially!Restore, Serially!Make, SerialInv, Serially!TypeOK,
         Serially!LabelsApart, Serially!NoneDangling, Serially!Carried
<1>2. CASE UNCHANGED Serially!vars
  BY <1>2 DEF Serially!vars, SerialInv, Serially!TypeOK, Serially!LabelsApart,
         Serially!NoneDangling, Serially!Carried
<1> QED
  BY <1>1, <1>2, SerialEdit, SerialDelete, SerialMakeTag, SerialRename, SerialDropTag,
     SerialRestart DEF Serially!Next

THEOREM SerialInductive == Serially!Spec => []SerialInv
<1>1. Serially!Init => SerialInv
  BY SerialInit
<1>2. SerialInv /\ [Serially!Next]_Serially!vars => SerialInv'
  BY SerialNext
<1> QED
  BY <1>1, <1>2, PTL DEF Serially!Spec

(* A label names one tag, whatever the calls make, rename and bring back   *)
(* (tag_create, tag_edit, resolveTags).                                    *)
THEOREM SerialLabelsApart == Serially!Spec => []Serially!LabelsApart
<1>1. SerialInv => Serially!LabelsApart
  BY DEF SerialInv
<1> QED
  BY SerialInductive, <1>1, PTL

(* No indexer is ever left with a tag that is gone (tag_delete).           *)
THEOREM SerialNoneDangling == Serially!Spec => []Serially!NoneDangling
<1>1. SerialInv => Serially!NoneDangling
  BY DEF SerialInv
<1> QED
  BY SerialInductive, <1>1, PTL
-----------------------------------------------------------------------------
(* What is known of a call that is on its course. *)
Steady(c) == OnCourse(c) /\ CopyIsCurrent(c) /\ DropsFew(c)

(* What the next step of a call tells of it. *)
LEMMA Served ==
  ASSUME IInv, CourseInv, NEW c \in Calls, outcome[c] = "open", ~Ended(c)
  PROVE  /\ Now(c).do \notin {"unlock", "bulk", "unbulk", "create", "create off", "update"}
         /\ Now(c).do \in {"read", "save"} => job[c].tool \in EditTools /\ HoldsRecord(c)
         /\ Now(c).do = "save" /\ job[c].adds # {} => Of(c) \in Routed /\ HasTags(c)
         /\ Now(c).do = "detail" => job[c].tool \notin EditTools
         /\ Now(c).do = "delete" => job[c].tool \in DeleteTools
         /\ Now(c).do = "restore" => job[c].tool = "backup_restore"
         /\ Now(c).do = "restart" => job[c].tool = "server_restart" /\ HoldsAll(c)
         /\ Now(c).do \in Changes => c \notin wrote
<1> DEFINE p == todo[c]
<1>1. IsPath(p) /\ p # <<>> /\ Now(c) = Head(p)
  BY InParts DEF AllParts, Walking, Ended, Now
<1>2. /\ Serves(p, job[c])
      /\ c \in wrote => \A i \in DOMAIN p : p[i].do \notin Changes
      /\ Sound(HoldsRecord(c), p, {"read", "save"}, RecordLocks, Unlocking)
      /\ Sound(HoldsAll(c), p, {"restart"}, {LockAll}, Unlocking)
      /\ Sound(HasTags(c), p, TaggedRoles(job[c]), Makes, Outdating \cup {"look"})
  BY DEF CourseInv, OnCourse
<1> HIDE DEF p
<1>3. 1 \in DOMAIN p /\ Head(p) = p[1]
  BY <1>1, StepsLeft
<1>4. HoldsRecord(c) \in BOOLEAN /\ HoldsAll(c) \in BOOLEAN /\ HasTags(c) \in BOOLEAN
  BY DEF HoldsRecord, HoldsAll, HasTags
<1>5. Now(c).do \in {"read", "save"} => HoldsRecord(c)
  BY <1>1, <1>2, <1>4, SoundNow
<1>6. Now(c).do \in {"restart"} => HoldsAll(c)
  BY <1>1, <1>2, <1>4, SoundNow
<1>7. Now(c).do \in TaggedRoles(job[c]) => HasTags(c)
  BY <1>1, <1>2, <1>4, SoundNow
<1>8. Now(c).do = "save" /\ job[c].adds # {} => Now(c).do \in TaggedRoles(job[c])
  BY DEF TaggedRoles
<1>9. Now(c) = p[1]
  BY <1>1, <1>3
<1>10. Now(c).do \in Changes => c \notin wrote
  BY <1>2, <1>3, <1>9
<1> QED
  BY <1>2, <1>3, <1>5, <1>6, <1>7, <1>8, <1>9, <1>10 DEF Serves, Of

(* What a call does leaves another on its course: it takes away no lock,   *)
(* no tag and no record from under it.                                     *)
LEMMA Onlooker ==
  ASSUME IInv, NEW c \in Calls, NEW d \in Calls, d # c, Steady(d),
         todo'[d] = todo[d], UNCHANGED job, outcome'[d] = outcome[d],
         copy'[d] = copy[d], seen'[d] = seen[d], drops'[d] = drops[d],
         phase'[d] = phase[d], named'[d] = named[d], whole'[d] = whole[d],
         tag' = tag \/ HoldsTags(c),
         d \in wrote' => d \in wrote,
         copy[d] # Gone => \A r \in job[d].on : rec'[r] \in {rec[r], Gone}
  PROVE  Steady(d)'
<1>1. LocksOK
  BY InParts DEF AllParts
<1>2. /\ HoldsTags(d)' <=> HoldsTags(d)
      /\ HoldsRecord(d)' <=> HoldsRecord(d)
      /\ HoldsAll(d)' <=> HoldsAll(d)
  BY DEF HoldsTags, HoldsRecord, HoldsAll
<1>3. SeesTags(d)' <=> SeesTags(d)
  <2>1. CASE tag' = tag
    BY <1>2, <2>1 DEF SeesTags
  <2>2. CASE HoldsTags(c)
    <3>1. ~HoldsTags(d)
      BY <1>1, <2>2 DEF LocksOK, Locks!OneAtATime, Locks!Conflict, HoldsTags
    <3> QED
      BY <1>2, <3>1 DEF SeesTags
  <2> QED
    BY <2>1, <2>2
<1>4. HasTags(d)' <=> HasTags(d)
  BY <1>3 DEF HasTags
<1>5. OnCourse(d)'
  <2> SUFFICES ASSUME outcome'[d] = "open" PROVE OnCourse(d)'
    BY DEF OnCourse
  <2>1. outcome[d] = "open" /\ OnCourse(d)
    BY DEF Steady
  <2>2. /\ Serves(todo'[d], job'[d])
        /\ Once(todo'[d])
        /\ d \in wrote' => \A i \in DOMAIN todo'[d] : todo'[d][i].do \notin Changes
    BY <2>1 DEF OnCourse
  <2>3. /\ Sound(HoldsRecord(d)', todo'[d], {"read", "save"}, RecordLocks, Unlocking)
        /\ Sound(HoldsAll(d)', todo'[d], {"restart"}, {LockAll}, Unlocking)
        /\ Sound(HasTags(d)', todo'[d], TaggedRoles(job'[d]), Makes, Outdating \cup {"look"})
    BY <1>2, <1>4, <2>1 DEF OnCourse, Sound
  <2> QED
    BY <2>2, <2>3 DEF OnCourse
<1>6. CopyIsCurrent(d)'
  <2> SUFFICES ASSUME copy[d] # Gone
               PROVE  /\ job[d].tool \in EditTools
                      /\ HoldsRecord(d)'
                      /\ \A r \in job[d].on : rec'[r] \in {copy[d], Gone}
    BY DEF CopyIsCurrent
  <2>1. /\ job[d].tool \in EditTools /\ HoldsRecord(d)
        /\ \A r \in job[d].on : rec[r] \in {copy[d], Gone}
    BY DEF Steady, CopyIsCurrent
  <2> QED
    BY <1>2, <2>1
<1>7. DropsFew(d)'
  BY DEF Steady, DropsFew
<1> QED
  BY <1>5, <1>6, <1>7 DEF Steady

(* A call goes on to its next step. *)
LEMMA OnwardCourse ==
  ASSUME NEW c \in Calls, IsPath(todo[c]), OnCourse(c), outcome[c] = "open", ~Ended(c),
         UNCHANGED job, todo'[c] = Tail(todo[c]),
         c \in wrote' => c \in wrote \/ Now(c).do \in Changes,
         Now(c) \in RecordLocks => HoldsRecord(c)',
         HoldsRecord(c) => HoldsRecord(c)' \/ Now(c).do \in Unlocking,
         Now(c) \in {LockAll} => HoldsAll(c)',
         HoldsAll(c) => HoldsAll(c)' \/ Now(c).do \in Unlocking,
         Now(c) \in Makes => HasTags(c)',
         HasTags(c) => HasTags(c)' \/ Now(c).do \in Outdating \cup {"look"}
  PROVE  OnCourse(c)'
<1> DEFINE p == todo[c]
           q == Tail(p)
<1>1. IsPath(p) /\ p # <<>> /\ Now(c) = Head(p)
  BY DEF Ended, Now
<1>2. /\ HoldsRecord(c) \in BOOLEAN /\ HoldsRecord(c)' \in BOOLEAN
      /\ HoldsAll(c) \in BOOLEAN /\ HoldsAll(c)' \in BOOLEAN
      /\ HasTags(c) \in BOOLEAN /\ HasTags(c)' \in BOOLEAN
  BY DEF HoldsRecord, HoldsAll, HasTags
<1>3. /\ Serves(p, job[c])
      /\ Once(p)
      /\ c \in wrote => \A i \in DOMAIN p : p[i].do \notin Changes
      /\ Sound(HoldsRecord(c), p, {"read", "save"}, RecordLocks, Unlocking)
      /\ Sound(HoldsAll(c), p, {"restart"}, {LockAll}, Unlocking)
      /\ Sound(HasTags(c), p, TaggedRoles(job[c]), Makes, Outdating \cup {"look"})
  BY DEF OnCourse
<1> HIDE DEF p
<1>4. /\ Len(p) \in Nat \ {0} /\ DOMAIN p = 1..Len(p)
      /\ DOMAIN q = 1..(Len(p) - 1)
      /\ \A i \in 1..(Len(p) - 1) : q[i] = p[1 + i]
      /\ Head(p) = p[1]
  BY <1>1, TailLeft
<1>5. Sound(HoldsRecord(c)', q, {"read", "save"}, RecordLocks, Unlocking)
  BY <1>1, <1>2, <1>3, SoundTail
<1>6. Sound(HoldsAll(c)', q, {"restart"}, {LockAll}, Unlocking)
  BY <1>1, <1>2, <1>3, SoundTail
<1>7. Sound(HasTags(c)', q, TaggedRoles(job[c]), Makes, Outdating \cup {"look"})
  BY <1>1, <1>2, <1>3, SoundTail
<1> HIDE DEF q
<1>8. \A i \in DOMAIN q : 1 + i \in DOMAIN p /\ q[i] = p[1 + i] /\ 1 + i # 1
  BY <1>4
<1>9. Serves(q, job[c])
  BY <1>3, <1>8 DEF Serves
<1>10. Once(q)
  <2> SUFFICES ASSUME NEW i \in DOMAIN q, NEW k \in DOMAIN q,
                      q[i].do \in Changes, q[k].do \in Changes
               PROVE  i = k
    BY DEF Once
  <2>1. 1 + i = 1 + k
    BY <1>3, <1>8 DEF Once
  <2> QED
    BY <1>4, <2>1
<1>11. c \in wrote' => \A i \in DOMAIN q : q[i].do \notin Changes
  <2>1. CASE c \in wrote
    BY <1>3, <1>8, <2>1
  <2>2. CASE Now(c).do \in Changes
    <3>1. 1 \in DOMAIN p /\ p[1].do \in Changes
      BY <1>1, <1>4, <2>2
    <3> QED
      BY <1>3, <1>8, <3>1 DEF Once
  <2> QED
    BY <2>1, <2>2
<1>12. todo'[c] = q
  BY DEF p, q
<1> QED
  BY <1>5, <1>6, <1>7, <1>9, <1>10, <1>11, <1>12 DEF OnCourse

LEMMA CourseOpeners ==
  /\ RecordLocks \subseteq AnyLocks
  /\ LockAll \in AnyLocks
  /\ \A s \in Makes : s.do = "make"
BY DEF RecordLocks, AnyLocks, TagLocks, Makes, Lock, LockAll, Step

(* A call's step that is not about the locks leaves every call on course,  *)
(* if what it read, looked up and wrote is in order.                       *)
LEMMA CourseTaken ==
  ASSUME IInv, CourseInv, NEW c \in Calls, outcome[c] = "open", ~Ended(c),
         Now(c).do \notin {"lock", "unlock"},
         Onward(c) \/ Fails(c), UNCHANGED job, UNCHANGED locks,
         \A d \in Calls \ {c} :
           copy'[d] = copy[d] /\ seen'[d] = seen[d] /\ drops'[d] = drops[d],
         wrote' = wrote \/ (wrote' = wrote \cup {c} /\ Now(c).do \in Changes),
         tag' = tag \/ (HoldsTags(c) /\ Now(c).do \in Outdating),
         seen'[c] = seen[c] \/ Now(c).do \in Outdating \cup {"look"},
         Onward(c) /\ Now(c).do = "make" => HasTags(c)',
         \A d \in Calls \ {c} :
           copy[d] # Gone => \A r \in job[d].on : rec'[r] \in {rec[r], Gone},
         CopyIsCurrent(c)', DropsFew(c)', RoutedAlone'
  PROVE  CourseInv'
<1>1. /\ Frame /\ Walking(c) /\ UNCHANGED <<phase, named, whole>>
      /\ \A d \in Calls : Steady(d)
  BY InParts DEF AllParts, locks, CourseInv, Steady
<1>2. ASSUME NEW d \in Calls \ {c} PROVE Steady(d)'
  <2>1. todo'[d] = todo[d] /\ outcome'[d] = outcome[d]
    BY <1>1 DEF Onward, Fails, Frame
  <2>2. d \in wrote' => d \in wrote
    OBVIOUS
  <2> QED
    BY <1>1, <2>1, <2>2, Onlooker
<1>3. OnCourse(c)'
  <2>1. CASE Fails(c)
    <3>1. outcome'[c] = "failing"
      BY <1>1, <2>1 DEF Fails, Frame
    <3> QED
      BY <3>1 DEF OnCourse
  <2>2. CASE Onward(c)
    <3>1. todo'[c] = Tail(todo[c]) /\ IsPath(todo[c]) /\ OnCourse(c)
      BY <1>1, <2>2 DEF Onward, Frame, Walking, Steady
    <3>2. /\ HoldsRecord(c)' <=> HoldsRecord(c)
          /\ HoldsAll(c)' <=> HoldsAll(c)
          /\ HoldsTags(c)' <=> HoldsTags(c)
      BY <1>1 DEF HoldsRecord, HoldsAll, HoldsTags
    <3>3. /\ Now(c) \notin RecordLocks /\ Now(c) \notin {LockAll}
          /\ Now(c) \in Makes => HasTags(c)'
      BY <2>2, CourseOpeners, Openers
    <3>4. HasTags(c) => HasTags(c)' \/ Now(c).do \in Outdating \cup {"look"}
      BY <3>2 DEF HasTags, SeesTags
    <3>5. c \in wrote' => c \in wrote \/ Now(c).do \in Changes
      OBVIOUS
    <3> QED
      BY <3>1, <3>2, <3>3, <3>4, <3>5, OnwardCourse
  <2> QED
    BY <2>1, <2>2
<1>4. \A d \in Calls : Steady(d)'
  BY <1>2, <1>3 DEF Steady
<1> QED
  BY <1>4 DEF CourseInv, Steady

(* Steps that leave the records, the tags and what was read as they are. *)
LEMMA CourseStill ==
  ASSUME IInv, CourseInv, NEW c \in Calls, outcome[c] = "open", ~Ended(c),
         Now(c).do \notin {"lock", "unlock"},
         Onward(c) \/ Fails(c),
         UNCHANGED <<job, copy, seen, rec, tag>>, UNCHANGED locks,
         wrote' = wrote \/ (wrote' = wrote \cup {c} /\ Now(c).do \in Changes),
         Onward(c) /\ Now(c).do = "make" => HasTags(c),
         \A d \in Calls \ {c} : drops'[d] = drops[d],
         DropsFew(c)'
  PROVE  CourseInv'
<1>1. UNCHANGED <<phase, named, whole>>
  BY DEF locks
<1>2. CopyIsCurrent(c)'
  BY <1>1 DEF CourseInv, CopyIsCurrent, HoldsRecord
<1>3. RoutedAlone'
  BY DEF CourseInv, RoutedAlone
<1>4. HasTags(c) => HasTags(c)'
  BY <1>1 DEF HasTags, SeesTags, HoldsTags
<1> QED
  BY <1>2, <1>3, <1>4, CourseTaken

LEMMA FewLookedUp ==
  ASSUME NEW ls, IsFiniteSet(ls), NEW tags
  PROVE  Cardinality(TagsWith(ls, tags)) <= Cardinality(ls)
<1> DEFINE f == [l \in ls |-> TagWith(l, tags)]
           T == {TagWith(l, tags) : l \in ls}
<1>1. f \in Surjection(ls, T)
  BY DEF Surjection
<1>2. IsFiniteSet(T) /\ Cardinality(T) <= Cardinality(ls)
  <2> HIDE DEF f, T
  <2> QED
    BY <1>1, FS_Surjection
<1>3. TagsWith(ls, tags) \in SUBSET T
  BY DEF TagsWith
<1> HIDE DEF T
<1>4. Cardinality(TagsWith(ls, tags)) <= Cardinality(T) /\ IsFiniteSet(TagsWith(ls, tags))
  BY <1>2, <1>3, FS_Subset
<1>5. /\ Cardinality(TagsWith(ls, tags)) \in Nat
      /\ Cardinality(T) \in Nat
      /\ Cardinality(ls) \in Nat
  BY <1>2, <1>4, FS_CardinalityType
<1> QED
  BY <1>2, <1>4, <1>5

LEMMA StillSteps ==
  ASSUME IInv, CourseInv, NEW c \in Calls,
         \/ Resolve(c) \/ TagsMade(c) \/ LookUpRemoved(c) \/ ListCarriers(c)
         \/ TagDetail(c) \/ NameCarriers(c) \/ Fail(c) \/ Restore(c)
  PROVE  CourseInv'
<1>1. /\ Frame /\ Local /\ Steady(c)
  BY InParts DEF AllParts, CourseInv, Steady
<1>2. /\ outcome[c] = "open" /\ ~Ended(c) /\ Now(c).do \notin {"lock", "unlock"}
      /\ Onward(c) \/ Fails(c)
      /\ UNCHANGED <<job, copy, seen, rec, tag>> /\ UNCHANGED locks
      /\ wrote' = wrote \/ (wrote' = wrote \cup {c} /\ Now(c).do \in Changes)
  BY DEF Resolve, TagsMade, LookUpRemoved, ListCarriers, TagDetail, NameCarriers, Fail,
         Restore, Doing, Written, local, prowlarr, Changes
<1>3. Onward(c) /\ Now(c).do = "make" => HasTags(c)
  <2> SUFFICES ASSUME Onward(c), Now(c).do = "make" PROVE HasTags(c)
    OBVIOUS
  <2>1. SeesTags(c)
    BY <1>2, WritesTags DEF TagRoles, LabelRoles
  <2>2. TagsMade(c)
    <3>1. ~Fail(c)
      BY <1>1, <1>2 DEF Fail, Fails, Onward, Frame
    <3> QED
      BY <3>1 DEF Resolve, LookUpRemoved, ListCarriers, TagDetail, NameCarriers, Restore,
                  Doing
  <2> QED
    BY <2>1, <2>2 DEF TagsMade, HasTags
<1>4. CASE UNCHANGED drops
  <2>1. DropsFew(c)'
    BY <1>1, <1>2, <1>4 DEF Steady, DropsFew
  <2> QED
    BY <1>2, <1>3, <1>4, <2>1, CourseStill
<1>5. CASE LookUpRemoved(c) /\ drops' # drops
  <2>1. drops' = [drops EXCEPT ![c] = TagsWith(job[c].removes, tag)]
    BY <1>5 DEF LookUpRemoved
  <2>2. IsFiniteSet(job[c].removes)
    BY <1>1, JobsAssumption DEF Frame
  <2>3. drops'[c] = TagsWith(job[c].removes, tag)
    BY <1>1, <2>1 DEF Local
  <2>4. DropsFew(c)'
    BY <1>2, <2>2, <2>3, FewLookedUp DEF DropsFew
  <2>5. \A d \in Calls \ {c} : drops'[d] = drops[d]
    BY <1>1, <2>1 DEF Local
  <2> QED
    BY <1>2, <1>3, <2>4, <2>5, CourseStill
<1>6. CASE TagDetail(c)
  <2>1. \E S : drops' = [drops EXCEPT ![c] = S]
    BY <1>6 DEF TagDetail
  <2>2. \A d \in Calls \ {c} : drops'[d] = drops[d]
    BY <1>1, <2>1 DEF Local
  <2>3. Now(c).do = "detail"
    BY <1>6 DEF TagDetail, Doing
  <2>4. DropsFew(c)'
    BY <1>2, <2>3, Served DEF DropsFew
  <2> QED
    BY <1>2, <1>3, <2>2, <2>4, CourseStill
<1> QED
  BY <1>4, <1>5, <1>6
     DEF Resolve, TagsMade, ListCarriers, NameCarriers, Fail, Restore, local

(* An edit reads its one record, while it has it locked. *)
LEMMA ReadCourse ==
  ASSUME IInv, CourseInv, NEW c \in Calls, ReadWhole(c)
  PROVE  CourseInv'
<1>1. Frame /\ Local /\ Steady(c)
  BY InParts DEF AllParts, CourseInv, Steady
<1>2. /\ outcome[c] = "open" /\ ~Ended(c) /\ Now(c).do = "read"
      /\ Onward(c) \/ Fails(c)
      /\ UNCHANGED <<job, seen, drops, wrote, rec, tag>> /\ UNCHANGED locks
      /\ \/ copy' = copy
         \/ \E r \in job[c].on : copy' = [copy EXCEPT ![c] = rec[r]]
  BY DEF ReadWhole, Doing, prowlarr
<1>3. job[c].tool \in EditTools /\ HoldsRecord(c)
  BY <1>2, Served
<1>4. /\ \A d \in Calls \ {c} : copy'[d] = copy[d]
      /\ DropsFew(c)' /\ RoutedAlone'
      /\ HoldsRecord(c)'
  BY <1>1, <1>2, <1>3 DEF Local, Steady, DropsFew, CourseInv, RoutedAlone, HoldsRecord, locks
<1>5. CopyIsCurrent(c)'
  <2>1. CASE copy' = copy
    BY <1>1, <1>2, <1>4, <2>1 DEF Steady, CopyIsCurrent
  <2>2. CASE \E r \in job[c].on : copy' = [copy EXCEPT ![c] = rec[r]]
    <3>1. PICK r \in job[c].on : copy'[c] = rec[r]
      BY <1>1, <2>2 DEF Local
    <3>2. job[c].on = {r}
      BY <1>1, <1>3, JobsAssumption DEF Frame
    <3> QED
      BY <1>2, <1>3, <1>4, <3>1, <3>2 DEF CopyIsCurrent
  <2> QED
    BY <1>2, <2>1, <2>2
<1>6. UNCHANGED job /\ wrote' = wrote /\ tag' = tag /\ seen' = seen /\ rec' = rec /\ drops' = drops
  BY <1>2
<1> QED
  BY <1>2, <1>4, <1>5, <1>6, CourseTaken

(* Steps that write tags, or read them, and no record. *)
LEMMA TagsWritten ==
  ASSUME IInv, CourseInv, NEW c \in Calls, outcome[c] = "open", ~Ended(c),
         Now(c).do \in {"look", "make one", "rename", "drop"},
         Onward(c) \/ Fails(c),
         UNCHANGED <<job, copy, drops, wrote, rec>>, UNCHANGED locks,
         seen' = seen \/ \E S : seen' = [seen EXCEPT ![c] = S],
         tag' = tag \/ Now(c).do # "look"
  PROVE  CourseInv'
<1>1. Local /\ Steady(c)
  BY InParts DEF AllParts, CourseInv, Steady
<1>2. /\ \A d \in Calls \ {c} : seen'[d] = seen[d]
      /\ CopyIsCurrent(c)' /\ DropsFew(c)' /\ RoutedAlone'
  BY <1>1 DEF Local, Steady, CopyIsCurrent, HoldsRecord, DropsFew, CourseInv, RoutedAlone, locks
<1>3. Now(c).do \in Outdating \cup {"look"} /\ Now(c).do \notin {"lock", "unlock", "make"}
  BY DEF Outdating
<1>4. tag' = tag \/ (HoldsTags(c) /\ Now(c).do \in Outdating)
  BY WritesTags DEF TagRoles, Outdating
<1>5. UNCHANGED job /\ copy' = copy /\ wrote' = wrote /\ rec' = rec /\ drops' = drops
  OBVIOUS
<1> QED
  BY <1>2, <1>3, <1>4, <1>5, CourseTaken

LEMMA TagCourse ==
  ASSUME IInv, CourseInv, NEW c \in Calls,
         LookAtTags(c) \/ CreateTag(c) \/ RenameTag(c) \/ DropTag(c)
  PROVE  CourseInv'
<1>1. CASE LookAtTags(c)
  BY <1>1, TagsWritten DEF LookAtTags, Doing, prowlarr
<1>2. CASE CreateTag(c)
  <2>1. Local
    BY InParts DEF AllParts
  <2>2. /\ outcome[c] = "open" /\ ~Ended(c) /\ Now(c).do = "make one"
        /\ Onward(c) \/ Fails(c)
        /\ UNCHANGED <<job, copy, drops, wrote, rec>> /\ UNCHANGED locks
        /\ seen' = seen \/ seen' = [seen EXCEPT ![c][lastTag + 1] = TheLabel(job[c].adds)]
    BY <1>2 DEF CreateTag, Doing, Written, Post
  <2>3. seen' = seen \/ \E S : seen' = [seen EXCEPT ![c] = S]
    BY <2>2
  <2> QED
    BY <2>2, <2>3, TagsWritten
<1>3. CASE RenameTag(c)
  BY <1>3, TagsWritten DEF RenameTag, Doing, Written, local
<1>4. CASE DropTag(c)
  BY <1>4, TagsWritten DEF DropTag, Doing, Written, local
<1> QED
  BY <1>1, <1>2, <1>3, <1>4

(* A record is deleted from under no edit: what that has read is gone. *)
LEMMA DeleteCourse ==
  ASSUME IInv, CourseInv, NEW c \in Calls, Delete(c)
  PROVE  CourseInv'
<1>1. RecOK /\ Frame /\ Steady(c)
  BY InParts DEF AllParts, CourseInv, Steady
<1>2. /\ outcome[c] = "open" /\ ~Ended(c) /\ Now(c).do = "delete"
      /\ Onward(c) \/ Fails(c)
      /\ wrote' = wrote \/ wrote' = wrote \cup {c}
      /\ UNCHANGED job /\ UNCHANGED locks
      /\ copy' = copy /\ seen' = seen /\ drops' = drops /\ tag' = tag
      /\ \/ rec' = rec
         \/ rec' = [r \in Records |-> IF r \in job[c].on THEN Gone ELSE rec[r]]
  BY DEF Delete, Written, Doing, local
<1>3. \A r \in Records : rec'[r] \in {rec[r], Gone}
  BY <1>1, <1>2 DEF RecOK
<1>4. RoutedAlone'
  BY <1>3 DEF CourseInv, RoutedAlone
<1>5. \A d \in Calls : job[d].on \subseteq Records
  BY <1>1, JobsAssumption DEF Frame
<1>6. \A d \in Calls \ {c} :
        copy[d] # Gone => \A r \in job[d].on : rec'[r] \in {rec[r], Gone}
  BY <1>3, <1>5
<1>7. CopyIsCurrent(c)' /\ DropsFew(c)'
  BY <1>1, <1>2, <1>3, <1>5 DEF Steady, CopyIsCurrent, HoldsRecord, DropsFew, locks
<1>8. Now(c).do \in Changes /\ Now(c).do \notin {"lock", "unlock", "make"}
  BY <1>2 DEF Changes
<1> QED
  BY <1>2, <1>4, <1>6, <1>7, <1>8, CourseTaken

(* What two calls hold is not the same. *)
LEMMA RecordsApart ==
  ASSUME IInv, NEW c \in Calls, NEW d \in Calls, c # d, HoldsRecord(c), HoldsRecord(d)
  PROVE  job[c].on \cap job[d].on = {}
BY InParts DEF AllParts, LocksOK, Locks!OneAtATime, Locks!Conflict, HoldsRecord

(* What an edit saves is what its one record is, but for its change. *)
LEMMA SavesCurrent ==
  ASSUME IInv, CourseInv, NEW c \in Calls, Doing(c, "save"), AllThere(c),
         NEW r \in job[c].on
  PROVE  /\ job[c].on = {r} /\ r \in Records
         /\ rec[r] # Gone /\ copy[c] = rec[r] /\ rec[r].of = Of(c)
         /\ HoldsRecord(c) /\ c \notin wrote /\ job[c].tool \in EditTools
         /\ job[c].adds # {} => Of(c) \in Routed /\ HasTags(c)
         /\ IsRecord(rec[r])
<1>1. Frame /\ Steady(c) /\ RecOK
  BY InParts DEF AllParts, CourseInv, Steady
<1>2. outcome[c] = "open" /\ ~Ended(c) /\ Now(c).do = "save"
  BY DEF Doing
<1>3. /\ job[c].tool \in EditTools /\ HoldsRecord(c)
      /\ job[c].adds # {} => Of(c) \in Routed /\ HasTags(c)
      /\ c \notin wrote
  BY <1>2, Served DEF Changes
<1>4. job[c].on = {r} /\ r \in Records
  BY <1>1, <1>3, JobsAssumption DEF Frame
<1>5. rec[r] # Gone /\ rec[r].of = Of(c)
  BY DEF AllThere, There
<1>6. copy[c] = rec[r]
  BY <1>1, <1>5, SavesCopy DEF Steady, CopyIsCurrent
<1>7. IsRecord(rec[r])
  BY <1>1, <1>4, <1>5 DEF RecOK
<1> QED
  BY <1>3, <1>4, <1>5, <1>6, <1>7

LEMMA SaveCourse ==
  ASSUME IInv, CourseInv, NEW c \in Calls, SaveWhole(c)
  PROVE  CourseInv'
<1>1. RecOK /\ Local /\ Steady(c)
  BY InParts DEF AllParts, CourseInv, Steady
<1>2. /\ outcome[c] = "open" /\ ~Ended(c) /\ Now(c).do = "save" /\ Doing(c, "save")
      /\ UNCHANGED job /\ UNCHANGED locks
      /\ seen' = seen /\ drops' = drops /\ tag' = tag
  BY DEF SaveWhole, Doing
<1>3. CASE ~AllThere(c)
  <2>1. Fails(c) /\ rec' = rec /\ wrote' = wrote /\ copy' = copy
    BY <1>3 DEF SaveWhole
  <2>2. DropsFew(c)'
    BY <1>1, <1>2 DEF Steady, DropsFew
  <2>3. ~Onward(c)
    BY <2>1, <1>2, InParts DEF Onward, Fails, AllParts, Frame
  <2> QED
    BY <1>2, <2>1, <2>2, <2>3, CourseStill
<1>4. CASE AllThere(c)
  <2>1. /\ Onward(c) \/ Fails(c)
        /\ copy' = [copy EXCEPT ![c] = Gone]
        /\ wrote' = wrote \cup {c}
    BY <1>4 DEF SaveWhole, Written
  <2>2. PICK r \in job[c].on :
          rec' = [rec EXCEPT ![r] = Serially!Changed(copy[c], job[c], Adds(c), drops[c])]
    BY <1>4 DEF SaveWhole
  <2>3. /\ job[c].on = {r} /\ r \in Records
        /\ rec[r] # Gone /\ copy[c] = rec[r] /\ rec[r].of = Of(c)
        /\ HoldsRecord(c)
        /\ job[c].adds # {} => Of(c) \in Routed
    BY <1>2, <1>4, SavesCurrent
  <2>4. /\ rec'[r] = Serially!Changed(rec[r], job[c], Adds(c), drops[c])
        /\ \A i \in Records \ {r} : rec'[i] = rec[i]
    BY <1>1, <2>2, <2>3 DEF RecOK
  <2>5. RoutedAlone'
    <3>1. rec'[r].of = Of(c)
      BY <2>3, <2>4 DEF Serially!Changed
    <3>2. ASSUME Of(c) \notin Routed PROVE rec'[r].tags = {}
      <4>1. Adds(c) = {} /\ rec[r].tags = {}
        BY <2>3, <3>2 DEF Adds, TagsWith, CourseInv, RoutedAlone
      <4> QED
        BY <2>4, <4>1 DEF Serially!Changed, Serially!EditedTags
    <3> QED
      BY <2>4, <3>1, <3>2 DEF CourseInv, RoutedAlone
  <2>6. ASSUME NEW d \in Calls \ {c}, copy[d] # Gone
        PROVE  \A i \in job[d].on : rec'[i] \in {rec[i], Gone}
    <3>1. HoldsRecord(d)
      BY <2>6 DEF CourseInv, CopyIsCurrent
    <3>2. job[d].on \cap job[c].on = {}
      BY <2>3, <3>1, RecordsApart
    <3>3. job[d].on \subseteq Records
      BY InParts, JobsAssumption DEF AllParts, Frame
    <3> QED
      BY <2>3, <2>4, <3>2, <3>3
  <2>7. CopyIsCurrent(c)' /\ DropsFew(c)' /\ \A d \in Calls \ {c} : copy'[d] = copy[d]
    BY <1>1, <1>2, <2>1 DEF Local, Steady, CopyIsCurrent, DropsFew
  <2>8. Now(c).do \in Changes /\ Now(c).do \notin {"lock", "unlock", "make"}
    BY <1>2 DEF Changes
  <2> QED
    BY <1>2, <2>1, <2>5, <2>6, <2>7, <2>8, CourseTaken
<1> QED
  BY <1>3, <1>4

(* While Prowlarr is restarted no edit has read anything. *)
LEMMA RestartsCourse ==
  ASSUME IInv, CourseInv, NEW c \in Calls, Restart(c)
  PROVE  CourseInv'
<1>1. LocksOK /\ Steady(c)
  BY InParts DEF AllParts, CourseInv, Steady
<1>2. /\ outcome[c] = "open" /\ ~Ended(c) /\ Now(c).do = "restart"
      /\ Onward(c) \/ Fails(c)
      /\ wrote' = wrote \cup {c}
      /\ rec' = rec \/ rec' = StartRec
      /\ UNCHANGED job /\ UNCHANGED locks
      /\ copy' = copy /\ seen' = seen /\ drops' = drops
  BY DEF Restart, Doing, Written, local
<1>3. job[c].tool = "server_restart" /\ HoldsAll(c)
  BY <1>2, Served
<1>4. job[c].tool \notin EditTools
  BY <1>3 DEF EditTools
<1>5. copy[c] = Gone
  BY <1>1, <1>4 DEF Steady, CopyIsCurrent
<1>6. \A d \in Calls \ {c} : copy[d] = Gone
  BY <1>1, <1>3 DEF LocksOK, Locks!OneAtATime, Locks!Conflict, HoldsAll, HoldsRecord,
                    CourseInv, CopyIsCurrent
<1>7. CopyIsCurrent(c)' /\ DropsFew(c)'
  BY <1>1, <1>2, <1>5 DEF CopyIsCurrent, Steady, DropsFew
<1>8. RoutedAlone'
  BY <1>2 DEF CourseInv, RoutedAlone, StartRec
<1>9. HoldsTags(c) /\ Now(c).do \in Outdating \cap Changes
      /\ Now(c).do \notin {"lock", "unlock", "make"}
  BY <1>2, WritesTags DEF TagRoles, Outdating, Changes
<1> QED
  BY <1>2, <1>6, <1>7, <1>8, <1>9, CourseTaken

(* A tag is made: the call has not got its tags until there is none to make. *)
LEMMA MakeCourse ==
  ASSUME IInv, CourseInv, NEW c \in Calls, MakeTag(c)
  PROVE  CourseInv'
<1>1. /\ Frame /\ Local
      /\ \A d \in Calls : Steady(d)
  BY InParts DEF AllParts, CourseInv, Steady
<1>2. PICK l \in job[c].adds : TagWith(l, seen[c]) = 0 /\ Post(c, l)
  BY DEF MakeTag
<1>3. /\ outcome[c] = "open" /\ ~Ended(c) /\ Now(c).do = "make"
      /\ todo' = todo
      /\ \/ outcome' = outcome
         \/ outcome' = [outcome EXCEPT ![c] = "failing"]
      /\ UNCHANGED <<job, copy, drops, wrote, rec>>
      /\ phase' = phase /\ named' = named /\ whole' = whole
  BY DEF MakeTag, Doing, locks
<1>4. HoldsTags(c)
  BY <1>3, WritesTags DEF TagRoles
<1>5. \A d \in Calls \ {c} : seen'[d] = seen[d] /\ outcome'[d] = outcome[d]
  BY <1>1, <1>2, <1>3 DEF Local, Frame, Post
<1>6. ASSUME NEW d \in Calls \ {c} PROVE Steady(d)'
  BY <1>1, <1>3, <1>4, <1>5, Onlooker
<1>7. OnCourse(c)'
  <2>1. ~HasTags(c)
    BY <1>2 DEF HasTags
  <2>2. OnCourse(c)
    BY <1>1 DEF Steady
  <2>3. /\ HoldsRecord(c)' = HoldsRecord(c) /\ HoldsAll(c)' = HoldsAll(c)
    BY <1>3 DEF HoldsRecord, HoldsAll
  <2>4. Sound(HasTags(c)', todo'[c], TaggedRoles(job'[c]), Makes, Outdating \cup {"look"})
    <3>1. Sound(HasTags(c), todo[c], TaggedRoles(job[c]), Makes, Outdating \cup {"look"})
      BY <1>3, <2>2 DEF OnCourse
    <3> QED
      BY <1>3, <2>1, <3>1 DEF Sound
  <2> QED
    BY <1>3, <2>2, <2>3, <2>4 DEF OnCourse
<1>8. CopyIsCurrent(c)' /\ DropsFew(c)' /\ RoutedAlone'
  BY <1>1, <1>3 DEF Steady, CopyIsCurrent, HoldsRecord, DropsFew, CourseInv, RoutedAlone
<1>9. \A d \in Calls : Steady(d)'
  BY <1>6, <1>7, <1>8 DEF Steady
<1> QED
  BY <1>8, <1>9 DEF CourseInv, Steady

(* A call asks for its locks, and is given them. *)
LEMMA AskCourse ==
  ASSUME IInv, CourseInv, NEW c \in Calls, AskLocks(c)
  PROVE  CourseInv'
<1>1. LocksOK /\ \A d \in Calls : Steady(d)
  BY InParts DEF AllParts, CourseInv, Steady
<1>2. /\ outcome[c] = "open"
      /\ phase[c] = "idle" /\ phase' = [phase EXCEPT ![c] = "waiting"]
      /\ Locks!AskAll(c) \/ Locks!Ask(c, KeysOf(c))
      /\ job' = job /\ todo' = todo /\ outcome' = outcome /\ wrote' = wrote
      /\ copy' = copy /\ seen' = seen /\ drops' = drops
      /\ rec' = rec /\ tag' = tag
  BY DEF AskLocks, Doing, Locks!Ask, Locks!AskAll, prowlarr, local
<1>3. /\ \A d \in Calls \ {c} :
           phase'[d] = phase[d] /\ named'[d] = named[d] /\ whole'[d] = whole[d]
      /\ phase'[c] = "waiting"
  BY <1>1, <1>2 DEF LocksOK, Locks!TypeOK, Locks!Ask, Locks!AskAll
<1>4. ASSUME NEW d \in Calls \ {c} PROVE Steady(d)'
  BY <1>1, <1>2, <1>3, Onlooker
<1>5. /\ HoldsRecord(c) = FALSE /\ HoldsRecord(c)' = FALSE
      /\ HoldsAll(c) = FALSE /\ HoldsAll(c)' = FALSE
      /\ HasTags(c) = FALSE /\ HasTags(c)' = FALSE
  BY <1>2, <1>3 DEF HoldsRecord, HoldsAll, HasTags, SeesTags, HoldsTags
<1>6. Steady(c)'
  <2>1. OnCourse(c) /\ CopyIsCurrent(c) /\ DropsFew(c)
    BY <1>1 DEF Steady
  <2>2. OnCourse(c)'
    BY <1>2, <1>5, <2>1 DEF OnCourse
  <2>3. CopyIsCurrent(c)' /\ DropsFew(c)'
    BY <1>2, <1>5, <2>1 DEF CopyIsCurrent, DropsFew
  <2> QED
    BY <2>2, <2>3 DEF Steady
<1>7. RoutedAlone'
  BY <1>2 DEF CourseInv, RoutedAlone
<1>8. \A d \in Calls : Steady(d)'
  BY <1>4, <1>6
<1> QED
  BY <1>7, <1>8 DEF CourseInv, Steady

LEMMA GrantCourse ==
  ASSUME IInv, CourseInv, NEW c \in Calls, Granted(c)
  PROVE  CourseInv'
<1>1. /\ Frame /\ LocksOK /\ Walking(c)
      /\ \A d \in Calls : Steady(d)
  BY InParts DEF AllParts, CourseInv, Steady
<1>2. /\ outcome[c] = "open" /\ ~Ended(c) /\ Now(c).do = "lock"
      /\ phase[c] = "waiting" /\ phase' = [phase EXCEPT ![c] = "turn"]
      /\ named' = named /\ whole' = whole
      /\ todo' = [todo EXCEPT ![c] = Tail(@)] /\ outcome' = outcome
      /\ job' = job /\ wrote' = wrote
      /\ copy' = copy /\ seen' = seen /\ drops' = drops
      /\ rec' = rec /\ tag' = tag
  BY DEF Granted, Doing, Onward, Locks!Grant, prowlarr, local
<1>3. /\ \A d \in Calls \ {c} : phase'[d] = phase[d] /\ todo'[d] = todo[d]
      /\ phase'[c] = "turn" /\ todo'[c] = Tail(todo[c])
  BY <1>1, <1>2 DEF LocksOK, Locks!TypeOK, Frame
<1>4. ASSUME NEW d \in Calls \ {c} PROVE Steady(d)'
  BY <1>1, <1>2, <1>3, Onlooker
<1>5. ~HoldsRecord(c) /\ ~HoldsAll(c) /\ ~HasTags(c)
  BY <1>2 DEF HoldsRecord, HoldsAll, HasTags, SeesTags, HoldsTags
<1>6. IF Now(c).what = {"all"} THEN whole[c] ELSE named[c] = KeysOf(c)
  BY <1>1, <1>2 DEF Walking, WaitsRight
<1>7. ASSUME Now(c) \in RecordLocks PROVE HoldsRecord(c)'
  <2>1. Now(c).what = {"record"} \/ Now(c).what = {"record", "tags"}
    BY <1>7 DEF RecordLocks, Lock, Step
  <2>2. "record" \in Now(c).what /\ Now(c).what # {"all"}
    BY <2>1
  <2>3. job[c].on \subseteq named[c]
    BY <1>6, <2>2 DEF KeysOf
  <2> QED
    BY <1>2, <1>3, <2>3 DEF HoldsRecord
<1>8. ASSUME Now(c) \in {LockAll} PROVE HoldsAll(c)'
  <2>1. Now(c).what = {"all"}
    BY <1>8 DEF LockAll, Step
  <2> QED
    BY <1>2, <1>3, <1>6, <2>1 DEF HoldsAll
<1>9. Now(c) \notin Makes
  BY <1>2, CourseOpeners
<1>10. OnCourse(c)'
  <2>1. IsPath(todo[c]) /\ OnCourse(c) /\ UNCHANGED job
    BY <1>1, <1>2 DEF Walking, Steady
  <2> QED
    BY <1>2, <1>3, <1>5, <1>7, <1>8, <1>9, <2>1, OnwardCourse
<1>11. CopyIsCurrent(c)' /\ DropsFew(c)'
  BY <1>1, <1>2, <1>5 DEF Steady, CopyIsCurrent, DropsFew
<1>12. RoutedAlone'
  BY <1>2 DEF CourseInv, RoutedAlone
<1>13. \A d \in Calls : Steady(d)'
  BY <1>4, <1>10, <1>11 DEF Steady
<1> QED
  BY <1>12, <1>13 DEF CourseInv, Steady

(* What it lets go as it returns, it has no more use for. *)
LEMMA ReturnCourse ==
  ASSUME IInv, CourseInv, NEW c \in Calls, Return(c)
  PROVE  CourseInv'
<1>1. /\ Frame /\ Local /\ LocksOK
      /\ \A d \in Calls : Steady(d)
  BY InParts DEF AllParts, CourseInv, Steady
<1>2. /\ outcome' = [outcome EXCEPT ![c] = IF @ = "open" THEN "done" ELSE "failed"]
      /\ todo' = [todo EXCEPT ![c] = <<>>]
      /\ copy' = [copy EXCEPT ![c] = Gone]
      /\ seen' = [seen EXCEPT ![c] = StartTag]
      /\ drops' = [drops EXCEPT ![c] = {}]
      /\ Locks!Unlock(c) \/ UNCHANGED <<phase, named, whole>>
      /\ job' = job /\ wrote' = wrote /\ rec' = rec /\ tag' = tag
  BY DEF Return, Forget, prowlarr, locks
<1>3. \A d \in Calls \ {c} :
        phase'[d] = phase[d] /\ named'[d] = named[d] /\ whole'[d] = whole[d]
  BY <1>1, <1>2, LetsGo
<1>4. ASSUME NEW d \in Calls \ {c} PROVE Steady(d)'
  <2>1. /\ todo'[d] = todo[d] /\ outcome'[d] = outcome[d]
        /\ copy'[d] = copy[d] /\ seen'[d] = seen[d] /\ drops'[d] = drops[d]
    BY <1>1, <1>2 DEF Frame, Local
  <2> QED
    BY <1>1, <1>2, <1>3, <2>1, Onlooker
<1>5. outcome'[c] # "open" /\ copy'[c] = Gone /\ drops'[c] = {}
  BY <1>1, <1>2 DEF Frame, Local
<1>6. DropsFew(c)'
  <2>1. IsFiniteSet(job[c].removes)
    BY <1>1, JobsAssumption DEF Frame
  <2>2. Cardinality(job[c].removes) \in Nat
    BY <2>1, FS_CardinalityType
  <2>3. Cardinality({}) = 0
    BY FS_EmptySet
  <2>4. Cardinality({}) <= Cardinality(job[c].removes)
    BY <2>2, <2>3
  <2>5. job' = job
    BY <1>2
  <2> QED
    BY <1>5, <2>4, <2>5 DEF DropsFew
<1>7. OnCourse(c)' /\ CopyIsCurrent(c)'
  BY <1>5 DEF OnCourse, CopyIsCurrent
<1>8. RoutedAlone'
  BY <1>2 DEF CourseInv, RoutedAlone
<1>9. \A d \in Calls : Steady(d)'
  BY <1>4, <1>6, <1>7 DEF Steady
<1> QED
  BY <1>8, <1>9 DEF CourseInv, Steady

(* Requests that decide nothing are passed by. *)
LEMMA PassCourse ==
  ASSUME IInv, CourseInv, NEW c \in Calls, PassBy(c)
  PROVE  CourseInv'
<1>1. /\ outcome[c] = "open"
      /\ job' = job /\ outcome' = outcome /\ wrote' = wrote
      /\ copy' = copy /\ seen' = seen /\ drops' = drops
      /\ rec' = rec /\ tag' = tag
      /\ phase' = phase /\ named' = named /\ whole' = whole
  BY DEF PassBy, Doing, prowlarr, locks, local
<1>2. PICK last \in 1..Len(todo[c]) :
        /\ \A i \in 1..last : todo[c][i].do \in Silent
        /\ todo' = [todo EXCEPT ![c] = SubSeq(@, last + 1, Len(@))]
  BY DEF PassBy
<1>3. /\ Frame /\ Walking(c)
      /\ \A d \in Calls : Steady(d)
  BY InParts DEF AllParts, CourseInv, Steady
<1>4. ASSUME NEW d \in Calls \ {c} PROVE Steady(d)'
  <2>1. todo'[d] = todo[d]
    BY <1>2, <1>3 DEF Frame
  <2> QED
    BY <1>1, <1>3, <2>1, Onlooker
<1>5. OnCourse(c)'
  <2> DEFINE p == todo[c]
             q == SubSeq(p, last + 1, Len(p))
  <2>1. todo'[c] = q /\ IsPath(p) /\ OnCourse(c)
    BY <1>2, <1>3 DEF Frame, Walking, Steady
  <2>2. /\ Serves(p, job[c])
        /\ Once(p)
        /\ c \in wrote => \A i \in DOMAIN p : p[i].do \notin Changes
        /\ Sound(HoldsRecord(c), p, {"read", "save"}, RecordLocks, Unlocking)
        /\ Sound(HoldsAll(c), p, {"restart"}, {LockAll}, Unlocking)
        /\ Sound(HasTags(c), p, TaggedRoles(job[c]), Makes, Outdating \cup {"look"})
    BY <1>1, <2>1 DEF OnCourse
  <2>3. \A i \in 1..last : p[i].do \in Silent
    BY <1>2
  <2>4. \A i \in 1..last : p[i] \notin RecordLocks /\ p[i] \notin {LockAll} /\ p[i] \notin Makes
    BY <2>3, Openers, CourseOpeners DEF Silent
  <2>5. HoldsRecord(c) \in BOOLEAN /\ HoldsAll(c) \in BOOLEAN /\ HasTags(c) \in BOOLEAN
    BY DEF HoldsRecord, HoldsAll, HasTags
  <2> IsPath(p)
    BY <2>1
  <2> HIDE DEF p
  <2> last \in 0..Len(p)
    BY <1>2, PathLength DEF p
  <2>6. /\ Sound(HoldsRecord(c), q, {"read", "save"}, RecordLocks, Unlocking)
        /\ Sound(HoldsAll(c), q, {"restart"}, {LockAll}, Unlocking)
        /\ Sound(HasTags(c), q, TaggedRoles(job[c]), Makes, Outdating \cup {"look"})
    BY <2>2, <2>4, <2>5, SoundDropped
  <2>7. /\ \A i \in DOMAIN q : last + i \in DOMAIN p /\ q[i] = p[last + i]
        /\ \A i, k \in DOMAIN q : last + i = last + k => i = k
    <3>1. /\ IsPath(q) /\ Len(q) = Len(p) - last
          /\ \A i \in 1..Len(q) : q[i] = p[last + i]
      BY Dropped
    <3>2. DOMAIN p = 1..Len(p) /\ Len(p) \in Nat
      BY PathLength
    <3> HIDE DEF q
    <3>3. DOMAIN q = 1..Len(q)
      BY <3>1, PathLength
    <3> QED
      BY <1>2, <3>1, <3>2, <3>3
  <2> HIDE DEF q
  <2>8. Serves(q, job[c]) /\ Once(q)
        /\ (c \in wrote => \A i \in DOMAIN q : q[i].do \notin Changes)
    BY <2>2, <2>7 DEF Serves, Once
  <2>9. /\ HoldsRecord(c)' = HoldsRecord(c) /\ HoldsAll(c)' = HoldsAll(c)
        /\ HasTags(c)' = HasTags(c)
    BY <1>1 DEF HoldsRecord, HoldsAll, HasTags, SeesTags, HoldsTags
  <2> QED
    BY <1>1, <2>1, <2>6, <2>8, <2>9 DEF OnCourse
<1>6. CopyIsCurrent(c)' /\ DropsFew(c)' /\ RoutedAlone'
  BY <1>1, <1>3 DEF Steady, CopyIsCurrent, HoldsRecord, DropsFew, CourseInv, RoutedAlone
<1>7. \A d \in Calls : Steady(d)'
  BY <1>4, <1>5, <1>6 DEF Steady
<1> QED
  BY <1>6, <1>7 DEF CourseInv, Steady

(* No call on its course changes many records at once, or adds one. *)
LEMMA NoneBulk ==
  ASSUME IInv, CourseInv, NEW c \in Calls
  PROVE  ~(Unlocks(c) \/ BulkChange(c) \/ BulkRemove(c) \/ Create(c) \/ SwitchOn(c))
BY Served DEF Unlocks, BulkChange, BulkRemove, Create, SwitchOn, Doing

-----------------------------------------------------------------------------
LEMMA InitCourse ==
  ASSUME \A j \in Jobs : Orderly(j), Init
  PROVE  CourseInv
<1> USE DEF Init
<1>1. ASSUME NEW c \in Calls PROVE Steady(c)
  <2>1. Course(todo[c], job[c])
    BY FormedJobs, PathCourse
  <2>2. \A now, p, roles, opens, closes :
          Kept(p, roles, opens, closes) => Sound(now, p, roles, opens, closes)
    BY DEF Sound, Kept, KeptOn
  <2>3. OnCourse(c)
    BY <2>1, <2>2 DEF Course, Fit, OnCourse
  <2>4. CopyIsCurrent(c)
    BY DEF CopyIsCurrent
  <2>5. IsFiniteSet(job[c].removes) /\ drops[c] = {}
    BY JobsAssumption
  <2>6. Cardinality(job[c].removes) \in Nat /\ Cardinality({}) = 0
    BY <2>5, FS_CardinalityType, FS_EmptySet
  <2>7. Cardinality({}) <= Cardinality(job[c].removes)
    BY <2>6
  <2>8. DropsFew(c)
    BY <2>5, <2>7 DEF DropsFew
  <2> QED
    BY <2>3, <2>4, <2>8 DEF Steady
<1>2. RoutedAlone
  BY DEF RoutedAlone, StartRec
<1> QED
  BY <1>1, <1>2 DEF CourseInv, Steady

LEMMA NextCourse ==
  ASSUME IInv, CourseInv, [Next]_vars
  PROVE  CourseInv'
<1>1. ASSUME NEW c \in Calls, Goes(c) PROVE CourseInv'
  BY <1>1, PassCourse, StillSteps, AskCourse, ReadCourse, TagCourse, MakeCourse,
     SaveCourse, DeleteCourse, RestartsCourse, ReturnCourse, NoneBulk DEF Goes
<1>2. ASSUME NEW c \in Calls, Granted(c) \/ Fail(c) PROVE CourseInv'
  BY <1>2, GrantCourse, StillSteps
<1>3. CASE UNCHANGED vars
  <2>1. /\ job' = job /\ todo' = todo /\ outcome' = outcome /\ wrote' = wrote
        /\ copy' = copy /\ seen' = seen /\ drops' = drops
        /\ rec' = rec /\ tag' = tag
        /\ phase' = phase /\ named' = named /\ whole' = whole
    BY <1>3 DEF vars, local, prowlarr, locks
  <2>2. RoutedAlone'
    BY <2>1 DEF CourseInv, RoutedAlone
  <2>3. ASSUME NEW c \in Calls
        PROVE  OnCourse(c)' /\ CopyIsCurrent(c)' /\ DropsFew(c)'
    BY <2>1 DEF CourseInv, OnCourse, CopyIsCurrent, DropsFew, HoldsRecord, HoldsAll,
                HasTags, SeesTags, HoldsTags
  <2> QED
    BY <2>2, <2>3 DEF CourseInv
<1> QED
  BY <1>1, <1>2, <1>3 DEF Next, TurnOver

THEOREM KeepsCourse ==
  ASSUME \A j \in Jobs : Orderly(j)
  PROVE  Spec => [](IInv /\ CourseInv)
<1>1. Init => IInv /\ CourseInv
  BY InitIInv, InitCourse
<1>2. IInv /\ CourseInv /\ [Next]_vars => (IInv /\ CourseInv)'
  BY NextIInv, NextCourse
<1> QED
  BY <1>1, <1>2, PTL DEF Spec

-----------------------------------------------------------------------------
(* Each step is one that Serial allows, or none of Serial's. *)
Follows == [Serially!Next]_Serially!vars

(* Serial counts as this module does. *)
LEMMA SameSize == \A S : Serially!Cardinality(S) = Cardinality(S)
BY DEF Cardinality, Serially!Cardinality

LEMMA SaveFollows ==
  ASSUME IInv, CourseInv, NEW c \in Calls, SaveWhole(c)
  PROVE  Follows
<1>1. Doing(c, "save") /\ UNCHANGED <<job, tag, lastTag, staged>>
  BY DEF SaveWhole
<1>2. CASE ~AllThere(c)
  BY <1>1, <1>2 DEF SaveWhole, Follows, Serially!vars
<1>3. CASE AllThere(c)
  <2> DEFINE A == Serially!Labelled(job[c].adds)
  <2>1. PICK r \in job[c].on :
          /\ rec' = [rec EXCEPT ![r] = Serially!Changed(copy[c], job[c], Adds(c), drops[c])]
          /\ wrote' = wrote \cup {c}
    BY <1>3 DEF SaveWhole
  <2>2. /\ rec[r] # Gone /\ copy[c] = rec[r]
        /\ c \notin wrote /\ job[c].tool \in EditTools
        /\ job[c].adds # {} => HasTags(c)
    BY <1>1, <1>3, SavesCurrent
  <2>3. /\ TagIds = Serially!TagIds
        /\ LabelsApart
        /\ job[c].adds \subseteq Labels /\ NoLabel \notin Labels
        /\ drops[c] \in SUBSET TagIds
        /\ Serially!Cardinality(drops[c]) <= Serially!Cardinality(job[c].removes)
    BY <2>2, SameSize, InParts, SerialAssumption, JobsAssumption
       DEF AllParts, Frame, Local, TagOK, CourseInv, DropsFew, TagIds, Serially!TagIds,
           Serially!InOrder
  <2>4. ASSUME NEW l \in job[c].adds
        PROVE  /\ TagWith(l, seen[c]) \in TagIds
               /\ tag[TagWith(l, seen[c])] = l
    BY <2>2, TagWithIs DEF HasTags, SeesTags
  <2>5. \A l \in job[c].adds : Serially!Labelled({l}) # {}
    BY <2>3, <2>4 DEF Serially!Labelled
  <2>6. Adds(c) = A
    <3>1. Adds(c) \subseteq A
      <4> SUFFICES ASSUME NEW t \in Adds(c) PROVE t \in A
        OBVIOUS
      <4>1. PICK l \in job[c].adds : t = TagWith(l, seen[c])
        BY DEF Adds, TagsWith
      <4> QED
        BY <2>3, <2>4, <4>1 DEF Serially!Labelled
    <3>2. ASSUME NEW t \in A PROVE t \in Adds(c)
      <4>1. t \in TagIds /\ tag[t] \in job[c].adds
        BY <2>3 DEF Serially!Labelled
      <4>2. TagWith(tag[t], seen[c]) = t
        BY <2>3, <2>4, <4>1 DEF LabelsApart, Serially!LabelsApart
      <4>3. t # 0
        BY <2>3, <4>1, SerialAssumption DEF TagIds, Serially!InOrder
      <4> QED
        BY <4>1, <4>2, <4>3 DEF Adds, TagsWith
    <3> QED
      BY <3>1, <3>2
  <2> HIDE DEF A
  <2>7. rec' = [rec EXCEPT ![r] = Serially!Changed(rec[r], job[c], A, drops[c])]
    BY <2>1, <2>2, <2>6
  <2>8. Serially!Make(c)
    BY <2>1, <2>2 DEF Serially!Make
  <2>9. \E i \in job[c].on, D \in SUBSET Serially!TagIds :
          /\ rec[i] # Gone
          /\ Serially!Cardinality(D) <= Serially!Cardinality(job[c].removes)
          /\ rec' = [rec EXCEPT ![i] = Serially!Changed(@, job[c], A, D)]
    BY <2>2, <2>3, <2>7
  <2>10. Serially!Edit(c)
    BY <1>1, <2>2, <2>5, <2>8, <2>9 DEF Serially!Edit, A
  <2> QED
    BY <2>10 DEF Follows, Serially!Next
<1> QED
  BY <1>2, <1>3

LEMMA DeleteFollows ==
  ASSUME IInv, CourseInv, NEW c \in Calls, Delete(c)
  PROVE  Follows
<1>1. /\ outcome[c] = "open" /\ ~Ended(c) /\ Now(c).do = "delete"
      /\ UNCHANGED <<job, tag, lastTag, staged>>
  BY DEF Delete, Doing
<1>2. job[c].tool \in DeleteTools /\ c \notin wrote
  BY <1>1, Served DEF Changes
<1>3. CASE AllThere(c)
  <2>1. Serially!Delete(c)
    BY <1>1, <1>2, <1>3 DEF Delete, Serially!Delete, Serially!Make
  <2> QED
    BY <2>1 DEF Follows, Serially!Next
<1>4. CASE ~AllThere(c)
  BY <1>1, <1>4 DEF Delete, Follows, Serially!vars
<1> QED
  BY <1>3, <1>4

LEMMA RestartFollows ==
  ASSUME IInv, CourseInv, NEW c \in Calls, Restore(c) \/ Restart(c)
  PROVE  Follows
<1>1. CASE Restore(c)
  <2>1. outcome[c] = "open" /\ ~Ended(c) /\ Now(c).do = "restore"
    BY <1>1 DEF Restore, Doing
  <2>2. job[c].tool = "backup_restore" /\ c \notin wrote
    BY <2>1, Served DEF Changes
  <2>3. Serially!Restore(c)
    BY <1>1, <2>2 DEF Restore, Serially!Restore, Serially!Make
  <2> QED
    BY <2>3 DEF Follows, Serially!Next
<1>2. CASE Restart(c)
  <2>1. outcome[c] = "open" /\ ~Ended(c) /\ Now(c).do = "restart"
    BY <1>2 DEF Restart, Doing
  <2>2. job[c].tool = "server_restart" /\ c \notin wrote
    BY <2>1, Served DEF Changes
  <2>3. Serially!Restart(c)
    BY <1>2, <2>2 DEF Restart, Serially!Restart, Serially!Make
  <2> QED
    BY <2>3 DEF Follows, Serially!Next
<1> QED
  BY <1>1, <1>2

LEMMA PostFollows ==
  ASSUME NEW c \in Calls, NEW l \in Labels, Post(c, l), \A t \in TagIds : tag[t] # l,
         UNCHANGED <<job, rec, staged, wrote>>
  PROVE  Follows
<1>1. Serially!Labelled({l}) = {}
  BY DEF Serially!Labelled, TagIds, Serially!TagIds
<1>2. Serially!MakeTag(l)
  BY <1>1 DEF Post, Serially!MakeTag
<1> QED
  BY <1>2 DEF Follows, Serially!Next

LEMMA TagFollows ==
  ASSUME IInv, CourseInv, NEW c \in Calls,
         MakeTag(c) \/ CreateTag(c) \/ RenameTag(c) \/ DropTag(c)
  PROVE  Follows
<1>1. /\ TagOK /\ Frame /\ RecOK
      /\ TagIds = Serially!TagIds /\ 0 \notin TagIds
  BY InParts, SerialAssumption DEF AllParts, TagIds, Serially!TagIds, Serially!InOrder
<1>2. CASE MakeTag(c)
  <2>1. PICK l \in job[c].adds : TagWith(l, seen[c]) = 0 /\ Post(c, l)
    BY <1>2 DEF MakeTag
  <2>2. /\ outcome[c] = "open" /\ ~Ended(c) /\ Now(c).do = "make"
        /\ UNCHANGED <<job, rec, staged, wrote>>
    BY <1>2 DEF MakeTag, Doing
  <2>3. l \in Labels
    BY <1>1, <2>1, JobsAssumption DEF Frame
  <2>4. SeesTags(c)
    BY <2>2, WritesTags DEF TagRoles, LabelRoles
  <2>5. \A t \in TagIds : tag[t] # l
    BY <2>1, <2>4, TagWithIs DEF SeesTags
  <2> QED
    BY <2>1, <2>2, <2>3, <2>5, PostFollows
<1>3. CASE CreateTag(c)
  <2> DEFINE l == TheLabel(job[c].adds)
  <2>1. /\ outcome[c] = "open" /\ ~Ended(c) /\ Now(c).do = "make one"
        /\ UNCHANGED <<job, rec, staged, wrote>>
        /\ \/ UNCHANGED <<tag, lastTag>>
           \/ ~Taken(l, 0, seen[c]) /\ Post(c, l)
    BY <1>3 DEF CreateTag, Doing
  <2>2. l \in Labels
    BY <2>1, NamesLabel
  <2>3. SeesTags(c)
    BY <2>1, WritesTags DEF TagRoles, LabelRoles
  <2> HIDE DEF l
  <2>4. CASE UNCHANGED <<tag, lastTag>>
    BY <2>1, <2>4 DEF Follows, Serially!vars
  <2>5. CASE ~Taken(l, 0, seen[c]) /\ Post(c, l)
    <3>1. \A t \in TagIds : tag[t] # l
      BY <1>1, <2>3, <2>5 DEF Taken, SeesTags
    <3> QED
      BY <2>1, <2>2, <2>5, <3>1, PostFollows
  <2> QED
    BY <2>1, <2>4, <2>5
<1>4. CASE RenameTag(c)
  <2> DEFINE l == TheLabel(job[c].adds)
             t == TagWith(TheLabel(job[c].removes), seen[c])
  <2>1. /\ outcome[c] = "open" /\ ~Ended(c) /\ Now(c).do = "rename"
        /\ UNCHANGED <<job, rec, lastTag, staged, wrote>>
        /\ \/ tag' = tag
           \/ /\ t # 0 /\ ~Taken(l, t, seen[c]) /\ tag[t] # NoLabel
              /\ tag' = [tag EXCEPT ![t] = l]
    BY <1>4 DEF RenameTag, Doing
  <2>2. l \in Labels
    BY <2>1, NamesLabel
  <2>3. SeesTags(c)
    BY <2>1, WritesTags DEF TagRoles, LabelRoles
  <2>4. t \in TagIds \cup {0}
    BY TagWithIs
  <2> HIDE DEF l, t
  <2>5. CASE tag' = tag
    BY <2>1, <2>5 DEF Follows, Serially!vars
  <2>6. CASE tag' # tag
    <3>1. Serially!Labelled({l}) \subseteq {t}
      BY <1>1, <2>1, <2>3, <2>6 DEF Taken, SeesTags, Serially!Labelled
    <3>2. Serially!Rename(t, l)
      BY <2>1, <2>6, <3>1 DEF Serially!Rename
    <3>3. t \in Serially!TagIds
      BY <1>1, <2>1, <2>4, <2>6
    <3> QED
      BY <2>2, <3>2, <3>3 DEF Follows, Serially!Next
  <2> QED
    BY <2>5, <2>6
<1>5. CASE DropTag(c)
  <2> DEFINE t == CHOOSE t \in drops[c] : TRUE
  <2>1. /\ UNCHANGED <<job, rec, lastTag, staged, wrote>>
        /\ \/ tag' = tag
           \/ RoutedCarriers(t) = {} /\ tag' = [tag EXCEPT ![t] = NoLabel]
    BY <1>5 DEF DropTag
  <2> HIDE DEF t
  <2>2. CASE tag' = tag
    BY <2>1, <2>2 DEF Follows, Serially!vars
  <2>3. CASE tag' # tag
    <3>1. t \in TagIds
      BY <1>1, <2>1, <2>3 DEF TagOK
    <3>2. t \notin Serially!Carried
      BY <2>1, <2>3 DEF Serially!Carried, RoutedCarriers, Carriers, CourseInv, RoutedAlone
    <3>3. Serially!DropTag(t)
      BY <2>1, <2>3, <3>2 DEF Serially!DropTag
    <3> QED
      BY <1>1, <3>1, <3>3 DEF Follows, Serially!Next
  <2> QED
    BY <2>2, <2>3
<1> QED
  BY <1>2, <1>3, <1>4, <1>5

LEMMA NextFollows ==
  ASSUME IInv, CourseInv, [Next]_vars
  PROVE  Follows
<1>1. ASSUME NEW c \in Calls,
             \/ PassBy(c) \/ Resolve(c) \/ AskLocks(c) \/ ReadWhole(c) \/ LookAtTags(c)
             \/ TagsMade(c) \/ LookUpRemoved(c) \/ ListCarriers(c) \/ TagDetail(c)
             \/ NameCarriers(c) \/ Return(c) \/ Granted(c) \/ Fail(c)
      PROVE  UNCHANGED Serially!vars
  BY <1>1 DEF PassBy, Resolve, AskLocks, ReadWhole, LookAtTags, TagsMade, LookUpRemoved,
              ListCarriers, TagDetail, NameCarriers, Return, Granted, Fail,
              prowlarr, Serially!vars
<1>2. CASE UNCHANGED vars
  BY <1>2 DEF vars, prowlarr, Serially!vars, Follows
<1>3. ASSUME NEW c \in Calls, Goes(c) PROVE Follows
  <2>1. CASE \/ SaveWhole(c) \/ Delete(c) \/ Restore(c) \/ Restart(c)
             \/ MakeTag(c) \/ CreateTag(c) \/ RenameTag(c) \/ DropTag(c)
    BY <2>1, SaveFollows, DeleteFollows, RestartFollows, TagFollows
  <2>2. CASE ~(\/ SaveWhole(c) \/ Delete(c) \/ Restore(c) \/ Restart(c)
               \/ MakeTag(c) \/ CreateTag(c) \/ RenameTag(c) \/ DropTag(c))
    BY <1>1, <1>3, <2>2, NoneBulk DEF Goes, Follows
  <2> QED
    BY <2>1, <2>2
<1> QED
  BY <1>1, <1>2, <1>3 DEF Next, TurnOver, Follows

(* The calls of a turn come to what they would one after another, whatever *)
(* they ask, if none of them is one that writes a record without its lock  *)
(* (tools/locks.go).                                                       *)
THEOREM Implements ==
  ASSUME \A j \in Jobs : Orderly(j)
  PROVE  Spec => ImplementsSerial
<1>1. Init => Serially!Init
  BY DEF Init, Serially!Init
<1>2. IInv /\ CourseInv /\ [Next]_vars => [Serially!Next]_Serially!vars
  BY NextFollows DEF Follows
<1> QED
  BY <1>1, <1>2, KeepsCourse, PTL DEF Spec, ImplementsSerial, Serially!Spec

(* What saves a call's edit is its own save. *)
LEMMA OthersDoNotSave ==
  ASSUME IInv, [Next]_vars, NEW c \in Calls, Saves(c)
  PROVE  SaveWhole(c)
<1>1. Doing(c, "save") /\ c \notin wrote /\ c \in wrote'
  BY DEF Saves
<1>2. PICK d \in Calls : Goes(d) \/ Granted(d) \/ Fail(d)
  BY <1>1 DEF Next, TurnOver, vars
<1>3. wrote' # wrote
  BY <1>1
<1>4. \/ SaveWhole(d)
      \/ /\ BulkChange(d) \/ Create(d) \/ Delete(d) \/ Restore(d) \/ Restart(d)
         /\ wrote' = wrote \cup {d}
  BY <1>2, <1>3 DEF Goes, Granted, Fail, PassBy, Resolve, AskLocks, Unlocks, ReadWhole,
     LookAtTags, MakeTag, TagsMade, LookUpRemoved, BulkChange, BulkRemove, Create,
     SwitchOn, Delete, CreateTag, RenameTag, ListCarriers, TagDetail, NameCarriers,
     DropTag, Restore, Restart, Return
<1>5. CASE SaveWhole(d)
  <2>1. wrote' = wrote \cup {d}
    BY <1>3, <1>5 DEF SaveWhole
  <2> QED
    BY <1>1, <1>5, <2>1
<1>6. CASE /\ BulkChange(d) \/ Create(d) \/ Delete(d) \/ Restore(d) \/ Restart(d)
           /\ wrote' = wrote \cup {d}
  <2>1. c = d
    BY <1>1, <1>6
  <2> QED
    BY <1>1, <1>6, <2>1 DEF BulkChange, Create, Delete, Restore, Restart, Doing
<1> QED
  BY <1>4, <1>5, <1>6

(* A save changes what its call asks and nothing else (tools/locks.go).    *)
THEOREM EditsUndoNothing ==
  ASSUME \A j \in Jobs : Orderly(j)
  PROVE  Spec => EditUndoesNothing
<1>1. ASSUME IInv, CourseInv, [Next]_vars, NEW c \in Calls, Saves(c), NEW r \in job[c].on
      PROVE  rec'[r] = Serially!Changed(rec[r], job[c], Adds(c), drops[c])
  <2>1. SaveWhole(c)
    BY <1>1, OthersDoNotSave
  <2>2. Doing(c, "save") /\ AllThere(c)
    BY <1>1, <2>1 DEF SaveWhole, Saves
  <2>3. job[c].on = {r} /\ r \in Records /\ copy[c] = rec[r]
    BY <1>1, <2>2, SavesCurrent
  <2>4. rec' = [rec EXCEPT ![r] = Serially!Changed(rec[r], job[c], Adds(c), drops[c])]
    BY <2>1, <2>2, <2>3 DEF SaveWhole
  <2> QED
    BY <1>1, <2>3, <2>4, InParts DEF AllParts, RecOK
<1>2. IInv /\ CourseInv /\ [Next]_vars =>
        [\A c \in Calls : Saves(c) =>
           \A r \in job[c].on :
             rec'[r] = Serially!Changed(rec[r], job[c], Adds(c), drops[c])]_vars
  BY <1>1
<1> QED
  BY <1>2, KeepsCourse, PTL DEF Spec, EditUndoesNothing

(* No record is left with a tag that is gone (tools/tags.go), by what      *)
(* serial changes keep.                                                    *)
THEOREM NoneLeftDangling ==
  ASSUME \A j \in Jobs : Orderly(j)
  PROVE  Spec => []NoneDangling
<1>1. Init => SerialInv
  BY SerialInit DEF Init, Serially!Init
<1>2. SerialInv /\ IInv /\ CourseInv /\ [Next]_vars => SerialInv'
  BY NextFollows, SerialNext DEF Follows
<1>3. SerialInv => NoneDangling
  BY DEF SerialInv, NoneDangling
<1> QED
  BY <1>1, <1>2, <1>3, KeepsCourse, PTL DEF Spec

-----------------------------------------------------------------------------
(* A repeat changes nothing more: how a step leaves the path of its call,  *)
(* first, whatever it does.                                                *)
Stays(c) == outcome[c] = "open" /\ outcome'[c] = "open" /\ todo'[c] = todo[c]
GoesOn(c) ==
  /\ outcome[c] = "open" /\ outcome'[c] = "open"
  /\ ~Ended(c) /\ todo'[c] = Tail(todo[c])
PassesBy(c) ==
  /\ outcome[c] = "open" /\ outcome'[c] = "open"
  /\ \E last \in 1..Len(todo[c]) :
       /\ \A i \in 1..last : todo[c][i].do \in Silent
       /\ todo'[c] = SubSeq(todo[c], last + 1, Len(todo[c]))
Stops(c) ==
  /\ outcome[c] \in {"open", "failing"} /\ outcome'[c] \in {"failing", "failed"}
  /\ todo'[c] \in {todo[c], <<>>}
Answers(c) ==
  outcome[c] = "open" /\ outcome'[c] = "done" /\ Ended(c) /\ todo'[c] = <<>>

OthersStay(c) ==
  \A d \in Calls \ {c} : /\ todo'[d] = todo[d] /\ outcome'[d] = outcome[d]
                         /\ copy'[d] = copy[d] /\ seen'[d] = seen[d]
                         /\ drops'[d] = drops[d]

Moving(c) ==
  /\ UNCHANGED job
  /\ Stays(c) \/ GoesOn(c) \/ PassesBy(c) \/ Stops(c) \/ Answers(c)
  /\ OthersStay(c)
  /\ repeats' # {} => repeats # {} \/ \E d \in Calls : outcome[d] = "done"

LEMMA MovingStep ==
  ASSUME IInv, NEW c \in Calls, Goes(c) \/ Granted(c) \/ Fail(c)
  PROVE  Moving(c)
<1>1. Frame /\ Local
  BY InParts DEF AllParts
<1>2. CASE Return(c)
  <2>1. /\ outcome' = [outcome EXCEPT ![c] = IF @ = "open" THEN "done" ELSE "failed"]
        /\ todo' = [todo EXCEPT ![c] = <<>>]
        /\ copy' = [copy EXCEPT ![c] = Gone]
        /\ seen' = [seen EXCEPT ![c] = StartTag]
        /\ drops' = [drops EXCEPT ![c] = {}]
        /\ job' = job /\ repeats' = repeats
        /\ outcome[c] = "failing" \/ (outcome[c] = "open" /\ Ended(c))
    BY <1>2 DEF Return, Forget, Returning
  <2>2. Stops(c) \/ Answers(c)
    BY <1>1, <2>1 DEF Frame, Stops, Answers
  <2> QED
    BY <1>1, <2>1, <2>2 DEF Frame, Local, Moving, OthersStay
<1>3. CASE PassBy(c)
  <2>1. PICK last \in 1..Len(todo[c]) :
          /\ \A i \in 1..last : todo[c][i].do \in Silent
          /\ todo' = [todo EXCEPT ![c] = SubSeq(@, last + 1, Len(@))]
    BY <1>3 DEF PassBy
  <2>2. /\ Begun(c) /\ outcome' = outcome /\ outcome[c] = "open"
        /\ job' = job /\ copy' = copy /\ seen' = seen /\ drops' = drops
    BY <1>3 DEF PassBy, Doing, local
  <2>3. PassesBy(c)
    BY <1>1, <2>1, <2>2 DEF Frame, PassesBy
  <2>4. repeats' # {} => repeats # {} \/ \E d \in Calls : outcome[d] = "done"
    BY <2>2 DEF Begun
  <2> QED
    BY <1>1, <2>1, <2>2, <2>3, <2>4 DEF Frame, Local, Moving, OthersStay
<1>4. CASE ~Return(c) /\ ~PassBy(c)
  <2>1. /\ outcome[c] = "open" /\ ~Ended(c)
        /\ \/ Onward(c) \/ Fails(c)
           \/ todo' = todo /\ outcome' = outcome /\ repeats' = repeats
    BY <1>4 DEF Goes, Granted, Fail, Resolve, AskLocks, Unlocks, ReadWhole, LookAtTags,
       MakeTag, TagsMade, LookUpRemoved, SaveWhole, BulkChange, BulkRemove, Create,
       SwitchOn, Delete, CreateTag, RenameTag, ListCarriers, TagDetail, NameCarriers,
       DropTag, Restore, Restart, Doing, Written, Fails
  <2>2. /\ job' = job
        /\ copy' = copy \/ \E x : copy' = [copy EXCEPT ![c] = x]
        /\ drops' = drops \/ \E x : drops' = [drops EXCEPT ![c] = x]
    BY <1>4 DEF Goes, Granted, Fail, Resolve, AskLocks, Unlocks, ReadWhole, LookAtTags,
       MakeTag, TagsMade, LookUpRemoved, SaveWhole, BulkChange, BulkRemove, Create,
       SwitchOn, Delete, CreateTag, RenameTag, ListCarriers, TagDetail, NameCarriers,
       DropTag, Restore, Restart, local
  <2>3. seen' = seen \/ \E x : seen' = [seen EXCEPT ![c] = x]
    BY <1>4 DEF Goes, Granted, Fail, Resolve, AskLocks, Unlocks, ReadWhole, LookAtTags,
       MakeTag, TagsMade, LookUpRemoved, SaveWhole, BulkChange, BulkRemove, Create,
       SwitchOn, Delete, CreateTag, RenameTag, ListCarriers, TagDetail, NameCarriers,
       DropTag, Restore, Restart, local, Post
  <2>4. /\ \A d \in Calls \ {c} : copy'[d] = copy[d] /\ seen'[d] = seen[d]
        /\ \A d \in Calls \ {c} : drops'[d] = drops[d]
    BY <1>1, <2>2, <2>3 DEF Local
  <2>5. CASE Onward(c)
    BY <1>1, <2>1, <2>2, <2>4, <2>5 DEF Onward, Begun, Frame, Moving, GoesOn, OthersStay
  <2>6. CASE Fails(c)
    BY <1>1, <2>1, <2>2, <2>4, <2>6 DEF Fails, Frame, Moving, Stops, OthersStay
  <2>7. CASE todo' = todo /\ outcome' = outcome /\ repeats' = repeats
    BY <1>1, <2>1, <2>2, <2>4, <2>7 DEF Frame, Moving, Stays, OthersStay
  <2> QED
    BY <2>1, <2>5, <2>6, <2>7
<1> QED
  BY <1>2, <1>3, <1>4

(* What an open call has left is what it had, but for steps taken. *)
LEMMA StillOpen ==
  ASSUME IInv, NEW c \in Calls, Moving(c), NEW d \in Calls, outcome'[d] = "open"
  PROVE  /\ outcome[d] = "open"
         /\ todo'[d] = todo[d] \/ GoesOn(d) \/ PassesBy(d)
         /\ d # c => ~GoesOn(d) /\ todo'[d] = todo[d]
<1>1. CASE d = c
  BY <1>1 DEF Moving, Stays, GoesOn, PassesBy, Stops, Answers
<1>2. CASE d # c
  <2>1. outcome[d] = "open" /\ todo'[d] = todo[d] /\ IsPath(todo[d])
    BY <1>2, InParts DEF Moving, OthersStay, AllParts, Walking
  <2> QED
    BY <1>2, <2>1, TailDiffers DEF GoesOn, Ended
<1> QED
  BY <1>1, <1>2

(* What was sound stays so, if what is open is kept open until it is to be *)
(* closed, and what opens it is not passed by.                             *)
LEMMA SoundOn ==
  ASSUME IInv, NEW c \in Calls, Moving(c), NEW d \in Calls, outcome'[d] = "open",
         NEW now \in BOOLEAN, NEW then \in BOOLEAN, NEW roles, NEW opens, NEW closes,
         Sound(now, todo[d], roles, opens, closes),
         \A s \in opens : s.do \notin Silent,
         now => then \/ (GoesOn(d) /\ Now(d).do \in closes),
         GoesOn(d) /\ Now(d) \in opens => then
  PROVE  Sound(then, todo'[d], roles, opens, closes)
<1>1. IsPath(todo[d])
  BY InParts DEF AllParts, Walking
<1>2. CASE GoesOn(d)
  <2>1. todo[d] # <<>> /\ Now(d) = Head(todo[d]) /\ todo'[d] = Tail(todo[d])
    BY <1>2 DEF GoesOn, Ended, Now
  <2> QED
    BY <1>1, <1>2, <2>1, SoundTail
<1>3. CASE ~GoesOn(d) /\ todo'[d] = todo[d]
  BY <1>3 DEF Sound
<1>4. CASE ~GoesOn(d) /\ PassesBy(d)
  <2>1. PICK n \in 1..Len(todo[d]) :
          /\ \A i \in 1..n : todo[d][i].do \in Silent
          /\ todo'[d] = SubSeq(todo[d], n + 1, Len(todo[d]))
    BY <1>4 DEF PassesBy
  <2>2. n \in 0..Len(todo[d]) /\ \A i \in 1..n : todo[d][i] \notin opens
    BY <1>1, <2>1, PathLength
  <2>3. Sound(now, todo'[d], roles, opens, closes)
    BY <1>1, <2>1, <2>2, SoundDropped
  <2> QED
    BY <1>4, <2>3 DEF Sound
<1> QED
  BY <1>2, <1>3, <1>4, StillOpen

(* A path's roles are left one by one: a step that is taken has landed,    *)
(* and what has landed stays.                                              *)
LEMMA LandedOn ==
  ASSUME IInv, NEW c \in Calls, Moving(c), NEW j, AllAsked(j),
         \A d \in Calls : AllLanded(d),
         \A role \in Does(Path(j)) : Landed(role, j) => Landed(role, j)',
         \A role : GoesOn(c) /\ Now(c).do = role => Landed(role, j)'
  PROVE  \A d \in Calls : AllLanded(d)'
<1> SUFFICES ASSUME NEW d \in Calls PROVE AllLanded(d)'
  OBVIOUS
<1>1. /\ AllLanded(d) /\ IsPath(todo[d])
      /\ job[d] = j /\ job'[d] = j
  BY InParts DEF AllParts, Walking, AllAsked, Moving
<1>2. \A role \in Silent : Landed(role, j)'
  BY DEF Silent, Landed
<1>3. Does(<<>>) = {}
  BY DEF Does
<1>4. /\ Does(todo'[d]) \subseteq Does(todo[d])
      /\ outcome'[d] \in {"open", "done"} =>
           /\ outcome[d] \in {"open", "done"}
           /\ \A role \in Does(todo[d]) \ Does(todo'[d]) : Landed(role, j)'
      /\ outcome'[d] = "done" => todo'[d] = <<>>
  <2>1. CASE d # c
    BY <1>1, <2>1 DEF Moving, OthersStay, AllLanded, Ended
  <2>2. CASE d = c /\ Stays(c)
    BY <2>2 DEF Stays
  <2>3. CASE d = c /\ GoesOn(c)
    <3>1. Does(todo[c]) = {Now(c).do} \cup Does(todo'[c])
      BY <1>1, <2>3, DoesTail DEF GoesOn, Ended, Now
    <3> QED
      BY <2>3, <3>1 DEF GoesOn
  <2>4. CASE d = c /\ PassesBy(c)
    <3>1. PICK n \in 1..Len(todo[c]) :
            /\ \A i \in 1..n : todo[c][i].do \in Silent
            /\ todo'[c] = SubSeq(todo[c], n + 1, Len(todo[c]))
      BY <2>4 DEF PassesBy
    <3>2. n \in 0..Len(todo[c])
      BY <1>1, <2>4, <3>1, PathLength
    <3>3. /\ Does(todo'[c]) \subseteq Does(todo[c])
          /\ Does(todo[c]) \subseteq Does(todo'[c]) \cup {todo[c][i].do : i \in 1..n}
      BY <1>1, <2>4, <3>1, <3>2, DoesDropped
    <3> QED
      BY <1>2, <2>4, <3>1, <3>3 DEF PassesBy
  <2>5. CASE d = c /\ Stops(c)
    BY <1>3, <2>5 DEF Stops
  <2>6. CASE d = c /\ Answers(c)
    BY <2>6 DEF Answers, Ended
  <2> QED
    BY <2>1, <2>2, <2>3, <2>4, <2>5, <2>6 DEF Moving
<1>5. ASSUME outcome'[d] \in {"open", "done"},
             NEW role \in Does(Path(j)) \ Does(todo'[d])
      PROVE  Landed(role, j)'
  BY <1>1, <1>4, <1>5 DEF AllLanded
<1> QED
  BY <1>1, <1>4, <1>5 DEF AllLanded, Ended

(* Which tools take the steps of each role, of those that may be repeated. *)
RoleOfTool(role, tool) ==
  /\ role \in {"read", "save"} => tool \in EditTools
  /\ role \in {"make", "untag"} => tool \in EditTools \cup {"indexer_bulk_edit"}
  /\ role \in {"bulk", "unbulk"} => tool = "indexer_bulk_edit"
  /\ role = "make one" => tool = "tag_create"
  /\ role = "rename" => tool = "tag_edit"
  /\ role \in {"detail", "names", "drop"} => tool = "tag_delete"
  /\ role \notin {"create", "create off", "update", "delete", "restore", "restart"}

LEMMA RolesFamiliar ==
  ASSUME NEW j \in Jobs, j.tool \in Idempotent, NEW role \in Does(Path(j))
  PROVE  RoleOfTool(role, j.tool)
<1>1. Familiar(Path(j), j)
  BY FormedJobs, PathFamiliar
<1>2. \A R : Only(Path(j), R) => role \in R
  BY DEF Only, Does
<1>3. CASE j.tool \in EditTools
  <2>1. role \in Between \cup {"find", "lock", "read", "save"}
    BY <1>1, <1>2, <1>3 DEF Familiar
  <2> QED
    BY <1>3, <2>1 DEF Between, Quiet, Silent, RoleOfTool
<1>4. CASE j.tool = "indexer_bulk_edit"
  <2>1. role \in Between \cup {"find", "lock", "unlock", "bulk", "unbulk"}
    BY <1>1, <1>2, <1>4 DEF Familiar
  <2> QED
    BY <1>4, <2>1 DEF Between, Quiet, Silent, RoleOfTool
<1>5. CASE j.tool = "tag_create"
  <2>1. role \in {"lock", "look", "make one"}
    BY <1>1, <1>2, <1>5 DEF Familiar
  <2> QED
    BY <1>5, <2>1 DEF RoleOfTool
<1>6. CASE j.tool = "tag_edit"
  <2>1. role \in Silent \cup {"lock", "look", "rename"}
    BY <1>1, <1>2, <1>6 DEF Familiar
  <2> QED
    BY <1>6, <2>1 DEF Silent, RoleOfTool
<1>7. CASE j.tool = "tag_delete"
  <2>1. role \in {"lock", "list", "detail", "names", "drop"}
    BY <1>1, <1>2, <1>7 DEF Familiar
  <2> QED
    BY <1>7, <2>1 DEF RoleOfTool
<1>8. CASE j.tool \in {"app_sync", "command_cancel"}
  <2>1. role \in MildRoles
    BY <1>1, <1>2, <1>8 DEF Familiar, Mild
  <2> QED
    BY <1>8, <2>1 DEF MildRoles, Silent, RoleOfTool
<1> QED
  BY <1>3, <1>4, <1>5, <1>6, <1>7, <1>8 DEF Idempotent

LEMMA NowFamiliar ==
  ASSUME IInv, NEW j \in Jobs, AllAsked(j), j.tool \in Idempotent,
         NEW c \in Calls, AllLanded(c), outcome[c] = "open", ~Ended(c)
  PROVE  Now(c).do \in Does(Path(j)) /\ RoleOfTool(Now(c).do, j.tool)
<1>1. IsPath(todo[c]) /\ todo[c] # <<>> /\ Now(c) = Head(todo[c])
  BY InParts DEF AllParts, Walking, Ended, Now
<1>2. Now(c).do \in Does(todo[c])
  BY <1>1, DoesTail
<1>3. Now(c).do \in Does(Path(j))
  BY <1>2 DEF AllLanded, AllAsked
<1> QED
  BY <1>3, RolesFamiliar

-----------------------------------------------------------------------------
(* The tags a call knows of labels that are made are the tags there are.   *)
LEMMA KnownTags ==
  ASSUME TagOK, NEW ls \in SUBSET Labels, NEW tags,
         \A t \in TagIds : tags[t] # NoLabel => tag[t] = tags[t],
         \A l \in ls : TagWith(l, tags) # 0
  PROVE  TagsWith(ls, tags) = OfLabels(ls) /\ AreMade(ls)
<1>1. ASSUME NEW l \in ls
      PROVE  /\ TagWith(l, tags) \in TagIds /\ tag[TagWith(l, tags)] = l
             /\ \A t \in TagIds : tag[t] = l => t = TagWith(l, tags)
  <2>1. l # NoLabel
    BY SerialAssumption DEF Serially!InOrder
  <2>2. TagWith(l, tags) \in TagIds /\ tags[TagWith(l, tags)] = l
    BY TagWithIs
  <2>3. tag[TagWith(l, tags)] = l
    BY <2>1, <2>2
  <2>4. TagIds = Serially!TagIds
    BY DEF TagIds, Serially!TagIds
  <2>5. \A t \in TagIds : tag[t] = l => t = TagWith(l, tags)
    BY <2>1, <2>2, <2>3, <2>4 DEF TagOK, LabelsApart, Serially!LabelsApart
  <2> QED
    BY <2>2, <2>3, <2>5
<1>2. AreMade(ls)
  BY <1>1 DEF AreMade
<1>3. TagsWith(ls, tags) \subseteq OfLabels(ls)
  BY <1>1 DEF TagsWith, OfLabels
<1>4. OfLabels(ls) \subseteq TagsWith(ls, tags)
  <2> SUFFICES ASSUME NEW t \in TagIds, tag[t] \in ls PROVE t \in TagsWith(ls, tags)
    BY DEF OfLabels
  <2>1. t = TagWith(tag[t], tags) /\ t # 0
    BY <1>1
  <2> QED
    BY <2>1 DEF TagsWith
<1> QED
  BY <1>2, <1>3, <1>4

(* Where tags are only made, *)
OnlyMade == \A t \in TagIds : tag[t] # NoLabel => tag'[t] = tag[t]

(* those of labels that were made are as they were. *)
LEMMA MadeBefore ==
  ASSUME IInv, IInv', OnlyMade, NEW ls \in SUBSET Labels, AreMade(ls)
  PROVE  AreMade(ls)' /\ OfLabels(ls)' = OfLabels(ls)
<1>1. NoLabel \notin ls
  BY SerialAssumption DEF Serially!InOrder
<1>2. TagIds = Serially!TagIds
  BY DEF TagIds, Serially!TagIds
<1>3. \A t, u \in TagIds : tag'[t] = tag'[u] /\ tag'[t] # NoLabel => t = u
  BY <1>2 DEF IInv, LabelsApart, Serially!LabelsApart
<1>4. AreMade(ls)'
  BY <1>1 DEF AreMade, OnlyMade
<1>5. ASSUME NEW t \in TagIds PROVE tag'[t] \in ls <=> tag[t] \in ls
  <2>1. CASE tag[t] \in ls
    BY <1>1, <2>1 DEF OnlyMade
  <2>2. CASE tag'[t] \in ls
    <3>1. PICK u \in TagIds : tag[u] = tag'[t]
      BY <2>2 DEF AreMade
    <3>2. tag'[u] = tag'[t] /\ tag'[t] # NoLabel
      BY <1>1, <2>2, <3>1 DEF OnlyMade
    <3> QED
      BY <1>3, <2>2, <3>1, <3>2
  <2> QED
    BY <2>1, <2>2
<1> QED
  BY <1>4, <1>5 DEF OfLabels

(* A tag is made. *)
LEMMA TagPosted ==
  ASSUME IInv, NEW c \in Calls, NEW l \in Labels, Post(c, l), SeesTags(c),
         \A t \in TagIds : tag[t] # l,
         \A t \in TagIds : t > lastTag => tag[t] = NoLabel
  PROVE  /\ OnlyMade
         /\ \A t \in TagIds : t > lastTag' => tag'[t] = NoLabel
         /\ \E t \in TagIds : tag'[t] = l
         /\ seen'[c] = tag'
<1>1. /\ lastTag + 1 \in TagIds /\ lastTag' = lastTag + 1 /\ lastTag \in Nat
      /\ tag \in [TagIds -> Labels \cup {NoLabel}] /\ TagIds \subseteq Nat
  BY Posted, InParts, SerialAssumption
     DEF AllParts, TagOK, Post, TagIds, Serially!InOrder
<1>2. /\ tag' = [tag EXCEPT ![lastTag + 1] = l]
      /\ seen' = [seen EXCEPT ![c][lastTag + 1] = l]
  BY DEF Post
<1>3. tag[lastTag + 1] = NoLabel
  BY <1>1
<1>4. \A t \in TagIds : tag'[t] = IF t = lastTag + 1 THEN l ELSE tag[t]
  BY <1>1, <1>2
<1>5. seen'[c] = tag'
  <2>1. seen \in [Calls -> [TagIds -> Labels \cup {NoLabel}]]
    BY InParts DEF AllParts, Local
  <2>2. seen'[c] = [seen[c] EXCEPT ![lastTag + 1] = l]
    BY <1>2, <2>1
  <2> QED
    BY <1>2, <2>2 DEF SeesTags
<1>6. OnlyMade
  BY <1>3, <1>4 DEF OnlyMade
<1>7. \A t \in TagIds : t > lastTag' => tag'[t] = NoLabel
  <2> SUFFICES ASSUME NEW t \in TagIds, t > lastTag' PROVE tag'[t] = NoLabel
    OBVIOUS
  <2>1. t > lastTag /\ t # lastTag + 1
    BY <1>1
  <2> QED
    BY <1>4, <2>1
<1> QED
  BY <1>1, <1>4, <1>5, <1>6, <1>7

-----------------------------------------------------------------------------
(* What has landed stays, where tags are only made. *)
LEMMA LandedStays ==
  ASSUME IInv, IInv', NEW j \in Jobs, j.tool \in Idempotent,
         NEW role \in Does(Path(j)), Landed(role, j), rec' = rec,
         (j.tool \in MakingTools /\ OnlyMade) \/ tag' = tag
  PROVE  Landed(role, j)'
<1>1. CASE tag' = tag
  BY <1>1 DEF Landed, Saved, BulkSaved, BulkRemoved, AreMade, OfLabels, Lost
<1>2. CASE j.tool \in MakingTools /\ OnlyMade
  <2>1. /\ j.adds \in SUBSET Labels /\ j.removes \in SUBSET Labels
        /\ TakenOff(j) \in SUBSET j.removes
    BY JobsAssumption DEF TakenOff
  <2>2. \A ls \in SUBSET Labels :
          AreMade(ls) => AreMade(ls)' /\ OfLabels(ls)' = OfLabels(ls)
    BY <1>2, MadeBefore
  <2>3. role = "make" => Landed(role, j)'
    BY <2>1, <2>2 DEF Landed
  <2>4. role = "save" => Landed(role, j)'
    <3> SUFFICES ASSUME Saved(j) PROVE Saved(j)'
      BY DEF Landed
    <3>1. AreMade(j.adds) /\ AreMade(j.removes) /\ AreMade(j.adds \cup j.removes)
      BY DEF Saved, AreMade
    <3>2. /\ AreMade(j.adds \cup j.removes)'
          /\ OfLabels(j.adds)' = OfLabels(j.adds)
          /\ OfLabels(j.removes)' = OfLabels(j.removes)
      BY <2>1, <2>2, <3>1
    <3> QED
      BY <3>2 DEF Saved
  <2>5. role = "bulk" => Landed(role, j)'
    <3> SUFFICES ASSUME BulkSaved(j) PROVE BulkSaved(j)'
      BY DEF Landed
    <3>1. AreMade(j.adds) /\ AreMade(TakenOff(j)) /\ AreMade(j.adds \cup TakenOff(j))
      BY DEF BulkSaved, AreMade
    <3>2. /\ AreMade(j.adds \cup TakenOff(j))'
          /\ OfLabels(j.adds)' = OfLabels(j.adds)
          /\ OfLabels(TakenOff(j))' = OfLabels(TakenOff(j))
      BY <2>1, <2>2, <3>1
    <3> QED
      BY <3>2 DEF BulkSaved
  <2>6. role = "unbulk" => Landed(role, j)'
    BY <2>1, <2>2 DEF Landed, BulkRemoved
  <2>7. role = "make one" => Landed(role, j)'
    <3> SUFFICES ASSUME role = "make one", AreMade({TheLabel(j.adds)})
                 PROVE  AreMade({TheLabel(j.adds)})'
      BY DEF Landed
    <3>1. j.tool = "tag_create"
      BY RolesFamiliar DEF RoleOfTool
    <3>2. TheLabel(j.adds) \in Labels
      BY <3>1, JobsAssumption DEF TheLabel
    <3> QED
      BY <2>2, <3>2
  <2>8. role \notin {"rename", "drop"}
    BY <1>2, RolesFamiliar DEF RoleOfTool, MakingTools, EditTools
  <2> QED
    BY <2>3, <2>4, <2>5, <2>6, <2>7, <2>8 DEF Landed
<1> QED
  BY <1>1, <1>2

(* A call goes on knowing the tags it gives and takes off. *)
LEMMA KnowsOn ==
  ASSUME IInv, IInv', NEW c \in Calls, Moving(c), NEW j \in Jobs, AllAsked(j),
         \A d \in Calls : KnowsTags(d), OnlyMade,
         \A t \in TagIds : seen'[c][t] # NoLabel => tag'[t] = seen'[c][t],
         outcome'[c] = "open" =>
           /\ \A t \in TagIds : seen[c][t] # NoLabel => seen'[c][t] = seen[c][t]
           /\ drops'[c] = drops[c] \/ Dropping(c)',
         GoesOn(c) /\ Now(c).do = "make" => Given(c),
         GoesOn(c) /\ Now(c).do = "untag" => Dropping(c)'
  PROVE  \A d \in Calls : KnowsTags(d)'
<1> SUFFICES ASSUME NEW d \in Calls PROVE KnowsTags(d)'
  OBVIOUS
<1>1. /\ KnowsTags(d) /\ job[d] = j /\ job'[d] = j
      /\ j.adds \in SUBSET Labels /\ j.removes \in SUBSET Labels /\ NoLabel \notin Labels
  BY JobsAssumption, SerialAssumption DEF AllAsked, Moving, Serially!InOrder
<1>2. d # c => seen'[d] = seen[d] /\ drops'[d] = drops[d]
  BY DEF Moving, OthersStay
<1>3. \A t \in TagIds : seen'[d][t] # NoLabel => tag'[t] = seen'[d][t]
  BY <1>1, <1>2 DEF KnowsTags, OnlyMade
<1>4. ASSUME outcome'[d] = "open", Given(d) PROVE Given(d)'
  <2>1. \A t \in TagIds : seen[d][t] # NoLabel => seen'[d][t] = seen[d][t]
    BY <1>2, <1>4
  <2> SUFFICES ASSUME NEW l \in j.adds PROVE TagWith(l, seen'[d]) # 0
    BY <1>1 DEF Given
  <2>2. TagWith(l, seen[d]) \in TagIds /\ seen[d][TagWith(l, seen[d])] = l
    BY <1>1, <1>4, TagWithIs DEF Given
  <2>3. seen'[d][TagWith(l, seen[d])] = l
    BY <1>1, <2>1, <2>2
  <2> QED
    BY <2>2, <2>3, TagWithIs
<1>5. ASSUME outcome'[d] = "open", Dropping(d) PROVE Dropping(d)'
  <2>1. AreMade(j.removes) /\ drops[d] = OfLabels(j.removes)
    BY <1>1, <1>5 DEF Dropping
  <2>2. AreMade(j.removes)' /\ OfLabels(j.removes)' = OfLabels(j.removes)
    BY <1>1, <2>1, MadeBefore
  <2>3. CASE drops'[d] = drops[d]
    BY <1>1, <2>1, <2>2, <2>3 DEF Dropping
  <2> QED
    BY <1>2, <1>5, <2>3
<1>6. ASSUME outcome'[d] = "open"
      PROVE  /\ Sound(Given(d)', todo'[d], Puts, Makes, {})
             /\ Sound(Dropping(d)', todo'[d], Puts, Untags, {})
  <2>1. /\ Given(d) \in BOOLEAN /\ Given(d)' \in BOOLEAN
        /\ Dropping(d) \in BOOLEAN /\ Dropping(d)' \in BOOLEAN
    BY DEF Given, Dropping
  <2>2. /\ \A s \in Makes : s.do = "make" /\ s.do \notin Silent
        /\ \A s \in Untags : s.do = "untag" /\ s.do \notin Silent
    BY DEF Makes, Untags, Step, Silent
  <2>3. outcome[d] = "open" /\ (d # c => ~GoesOn(d))
    BY <1>6, StillOpen
  <2>4. /\ Sound(Given(d), todo[d], Puts, Makes, {})
        /\ Sound(Dropping(d), todo[d], Puts, Untags, {})
    BY <1>1, <2>3 DEF KnowsTags
  <2>5. GoesOn(d) /\ Now(d) \in Makes => Given(d)'
    BY <1>4, <1>6, <2>2, <2>3
  <2>6. GoesOn(d) /\ Now(d) \in Untags => Dropping(d)'
    BY <2>2, <2>3
  <2>7. Sound(Given(d)', todo'[d], Puts, Makes, {})
    BY <1>4, <1>6, <2>1, <2>2, <2>4, <2>5, SoundOn
  <2>8. Sound(Dropping(d)', todo'[d], Puts, Untags, {})
    BY <1>5, <1>6, <2>1, <2>2, <2>4, <2>6, SoundOn
  <2> QED
    BY <2>7, <2>8
<1> QED
  BY <1>3, <1>6 DEF KnowsTags

(* What a call has read to edit stays what it may be. *)
LEMMA CopyOn ==
  ASSUME NEW c \in Calls, Moving(c), NEW j, AllAsked(j),
         \A d \in Calls : CopyOfStart(d), rec' = rec, Saved(j) => Saved(j)',
         copy'[c] \in {copy[c], Gone}
  PROVE  \A d \in Calls : CopyOfStart(d)'
<1> SUFFICES ASSUME NEW d \in Calls, NEW r \in j.on
             PROVE  /\ rec'[r] = StartRec[r] \/ Saved(j)'
                    /\ \/ copy'[d] \in {Gone, StartRec[r]}
                       \/ copy'[d] = rec'[r] /\ Saved(j)'
  BY DEF CopyOfStart, AllAsked, Moving
<1>1. /\ rec[r] = StartRec[r] \/ Saved(j)
      /\ copy[d] \in {Gone, StartRec[r]} \/ (copy[d] = rec[r] /\ Saved(j))
  BY DEF CopyOfStart, AllAsked
<1>2. copy'[d] \in {copy[d], Gone}
  BY DEF Moving, OthersStay
<1> QED
  BY <1>1, <1>2

(* What is to be deleted is one tag, and the only one of its label. *)
Told(S, l) ==
  \A t \in S : /\ S = {t}
               /\ tag[t] \in {l, NoLabel}
               /\ \A u \in TagIds : tag[u] = l /\ l # NoLabel => u = t

LEMMA DropsOn ==
  ASSUME IInv, NEW c \in Calls, Moving(c), NEW j, AllAsked(j),
         \A d \in Calls : DropsIt(d),
         \A t \in TagIds : tag'[t] \in {tag[t], NoLabel},
         drops'[c] \in {drops[c], {}} \/ Told(drops[c], TheLabel(j.removes))',
         outcome'[c] = "open" => drops'[c] = drops[c] \/ (GoesOn(c) /\ Now(c).do = "detail"),
         GoesOn(c) /\ Now(c).do = "names" => drops'[c] # {}
  PROVE  \A d \in Calls : DropsIt(d)'
<1> SUFFICES ASSUME NEW d \in Calls PROVE DropsIt(d)'
  OBVIOUS
<1> DEFINE l == TheLabel(j.removes)
<1>1. job[d] = j /\ job'[d] = j /\ drops[d] \subseteq TagIds
  BY InParts DEF AllAsked, Moving, AllParts, Local
<1>2. /\ outcome[d] = "open" => Sound(drops[d] # {}, todo[d], {"drop"}, Namings, {"detail"})
      /\ Told(drops[d], l)
  BY <1>1 DEF DropsIt, Told
<1>3. d # c => drops'[d] = drops[d]
  BY DEF Moving, OthersStay
<1>4. Told(drops[d], l)'
  <2>1. CASE drops'[d] = drops[d]
    BY <1>1, <1>2, <2>1 DEF Told
  <2>2. CASE drops'[d] = {}
    BY <2>2 DEF Told
  <2> QED
    BY <1>3, <2>1, <2>2
<1>5. ASSUME outcome'[d] = "open"
      PROVE  Sound(drops'[d] # {}, todo'[d], {"drop"}, Namings, {"detail"})
  <2>1. \A s \in Namings : s.do = "names" /\ s.do \notin Silent
    BY DEF Namings, Step, Silent
  <2>2. outcome[d] = "open" /\ (d # c => ~GoesOn(d))
    BY <1>5, StillOpen
  <2>3. (drops[d] # {}) \in BOOLEAN /\ (drops'[d] # {}) \in BOOLEAN
    OBVIOUS
  <2>4. drops[d] # {} => drops'[d] # {} \/ (GoesOn(d) /\ Now(d).do \in {"detail"})
    BY <1>3, <1>5
  <2>5. GoesOn(d) /\ Now(d) \in Namings => drops'[d] # {}
    BY <2>1, <2>2
  <2> QED
    BY <1>2, <1>5, <2>1, <2>2, <2>3, <2>4, <2>5, SoundOn
<1> QED
  BY <1>1, <1>4, <1>5 DEF DropsIt, Told

LEMMA DoneOn ==
  ASSUME NEW c \in Calls, Moving(c),
         repeats # {} => \E d \in Calls : outcome[d] = "done"
  PROVE  repeats' # {} => \E d \in Calls : outcome'[d] = "done"
<1> SUFFICES ASSUME NEW d \in Calls, outcome[d] = "done" PROVE outcome'[d] = "done"
  BY DEF Moving
<1>1. outcome[c] # "done"
  BY DEF Moving, Stays, GoesOn, PassesBy, Stops, Answers
<1> QED
  BY <1>1 DEF Moving, OthersStay

-----------------------------------------------------------------------------
(* A step keeps what there is of a repeated job; and once every step of it *)
(* has landed, as it has when a call of it was answered, it changes        *)
(* neither the records nor the tags.                                       *)
Settled(j) == \A role \in Does(Path(j)) : Landed(role, j)
Keeps(j) == Repeated(j)' /\ (Settled(j) => rec' = rec /\ tag' = tag)

(* A step that leaves the records and the tags, and what its call knows of *)
(* them, unless the call is over.                                          *)
LEMMA AsBefore ==
  ASSUME IInv, IInv', NEW c \in Calls, Moving(c),
         NEW j \in Jobs, Repeatable(j), Repeated(j),
         rec' = rec, tag' = tag, lastTag' = lastTag, copy'[c] \in {copy[c], Gone},
         \/ seen'[c] = seen[c] /\ drops'[c] = drops[c]
         \/ outcome'[c] # "open" /\ seen'[c] = StartTag /\ drops'[c] = {},
         GoesOn(c) => /\ Now(c).do \notin {"save", "bulk", "unbulk", "make one", "rename",
                                           "detail", "drop", "untag"}
                      /\ Now(c).do = "make" => Given(c)
                      /\ Now(c).do = "names" => drops[c] # {}
  PROVE  Keeps(j)
<1>1. AllAsked(j) /\ j.tool \in Idempotent
  BY DEF Repeatable
<1>2. \A d \in Calls : AllLanded(d)
  BY DEF Repeated
<1>3. \A role \in Does(Path(j)) : Landed(role, j) => Landed(role, j)'
  BY <1>1, LandedStays
<1>4. ASSUME GoesOn(c), Now(c).do = "make" PROVE AreMade(j.adds)'
  <2>1. RoleOfTool(Now(c).do, j.tool)
    BY <1>1, <1>2, <1>4, NowFamiliar DEF GoesOn
  <2>2. j.tool \in MakingTools
    BY <1>4, <2>1 DEF RoleOfTool, MakingTools
  <2>3. KnowsTags(c) /\ Given(c) /\ job[c] = j
    BY <1>1, <1>4, <2>2 DEF Repeated, AllAsked
  <2>4. ASSUME NEW l \in j.adds PROVE \E t \in TagIds : tag[t] = l
    <3>1. l # NoLabel
      <4>1. l \in Labels
        BY JobsAssumption
      <4> QED
        BY <4>1, SerialAssumption DEF Serially!InOrder
    <3>2. TagWith(l, seen[c]) \in TagIds /\ seen[c][TagWith(l, seen[c])] = l
      BY <2>3, TagWithIs DEF Given
    <3> QED
      BY <2>3, <3>1, <3>2 DEF KnowsTags
  <2> QED
    BY <2>4 DEF AreMade
<1>5. \A role : GoesOn(c) /\ Now(c).do = role => Landed(role, j)'
  BY <1>4 DEF Landed
<1>6. \A d \in Calls : AllLanded(d)'
  BY <1>1, <1>2, <1>3, <1>5, LandedOn
<1>7. OnlyMade /\ \A t \in TagIds : tag'[t] \in {tag[t], NoLabel}
  BY DEF OnlyMade
<1>8. ASSUME j.tool \in MakingTools
      PROVE  /\ \A t \in TagIds : /\ t > lastTag' => tag'[t] = NoLabel
                                  /\ StartTag[t] \in {NoLabel, tag'[t]}
             /\ \A d \in Calls : KnowsTags(d)'
  <2>1. /\ \A t \in TagIds : /\ t > lastTag => tag[t] = NoLabel
                             /\ StartTag[t] \in {NoLabel, tag[t]}
        /\ \A d \in Calls : KnowsTags(d)
    BY <1>8 DEF Repeated
  <2>2. \A t \in TagIds : seen'[c][t] # NoLabel => tag'[t] = seen'[c][t]
    BY <2>1 DEF KnowsTags
  <2>3. outcome'[c] = "open" =>
          /\ \A t \in TagIds : seen[c][t] # NoLabel => seen'[c][t] = seen[c][t]
          /\ drops'[c] = drops[c] \/ Dropping(c)'
    OBVIOUS
  <2>4. \A d \in Calls : KnowsTags(d)'
    BY <1>1, <1>7, <2>1, <2>2, <2>3, KnowsOn
  <2> QED
    BY <2>1, <2>4
<1>9. ASSUME j.tool \in EditTools PROVE \A d \in Calls : CopyOfStart(d)'
  <2>1. \A d \in Calls : CopyOfStart(d)
    BY <1>9 DEF Repeated
  <2>2. Saved(j) => Saved(j)'
    BY DEF Saved, AreMade, OfLabels
  <2> QED
    BY <1>1, <2>1, <2>2, CopyOn
<1>10. ASSUME j.tool = "tag_delete" PROVE \A d \in Calls : DropsIt(d)'
  <2>1. \A d \in Calls : DropsIt(d)
    BY <1>10 DEF Repeated
  <2>2. /\ drops'[c] \in {drops[c], {}}
        /\ outcome'[c] = "open" => drops'[c] = drops[c]
        /\ GoesOn(c) /\ Now(c).do = "names" => drops'[c] # {}
    BY DEF GoesOn
  <2> QED
    BY <1>1, <1>7, <2>1, <2>2, DropsOn
<1>11. rec' = [r \in Records |-> rec'[r]]
  BY DEF Repeated
<1>12. repeats' # {} => \E d \in Calls : outcome'[d] = "done"
  BY DoneOn DEF Repeated
<1> QED
  BY <1>6, <1>8, <1>9, <1>10, <1>11, <1>12 DEF Repeated, Keeps

(* Where a record is changed, the tags to give it and to take off it are   *)
(* known as they are.                                                      *)
LEMMA KnownAtPut ==
  ASSUME IInv, NEW c \in Calls, outcome[c] = "open", ~Ended(c), Now(c).do \in Puts,
         NEW j \in Jobs, AllAsked(j), KnowsTags(c)
  PROVE  /\ AreMade(j.adds) /\ AreMade(j.removes)
         /\ Adds(c) = OfLabels(j.adds) /\ drops[c] = OfLabels(j.removes)
<1>1. /\ IsPath(todo[c]) /\ todo[c] # <<>> /\ Head(todo[c]).do \in Puts
      /\ job[c] = j /\ j.adds \in SUBSET Labels /\ TagOK
  BY InParts, JobsAssumption DEF AllParts, Walking, Ended, Now, AllAsked
<1>2. Given(c) \in BOOLEAN /\ Dropping(c) \in BOOLEAN
  BY DEF Given, Dropping
<1>3. Given(c)
  BY <1>1, <1>2, SoundNow DEF KnowsTags
<1>4. Dropping(c)
  BY <1>1, <1>2, SoundNow DEF KnowsTags
<1>5. TagsWith(j.adds, seen[c]) = OfLabels(j.adds) /\ AreMade(j.adds)
  BY <1>1, <1>3, KnownTags DEF Given, KnowsTags
<1> QED
  BY <1>1, <1>4, <1>5 DEF Dropping, Adds

(* A step that changes records, and neither tags nor what is known of them.*)
LEMMA RecordsPut ==
  ASSUME IInv, IInv', NEW c \in Calls, Moving(c),
         NEW j \in Jobs, Repeatable(j), Repeated(j), j.tool \in MakingTools,
         tag' = tag, lastTag' = lastTag, seen'[c] = seen[c], drops'[c] = drops[c],
         rec' = [r \in Records |-> rec'[r]],
         \A role \in Does(Path(j)) : Landed(role, j) => Landed(role, j)',
         GoesOn(c) => /\ Now(c).do \notin {"make", "untag"}
                      /\ \A role : Now(c).do = role => Landed(role, j)',
         j.tool \in EditTools => \A d \in Calls : CopyOfStart(d)'
  PROVE  Repeated(j)'
<1>1. AllAsked(j)
  BY DEF Repeatable
<1>2. \A d \in Calls : AllLanded(d)'
  BY <1>1, LandedOn DEF Repeated
<1>3. OnlyMade
  BY DEF OnlyMade
<1>4. /\ \A t \in TagIds : /\ t > lastTag => tag[t] = NoLabel
                           /\ StartTag[t] \in {NoLabel, tag[t]}
      /\ \A d \in Calls : KnowsTags(d)
  BY DEF Repeated
<1>5. \A t \in TagIds : seen'[c][t] # NoLabel => tag'[t] = seen'[c][t]
  BY <1>4 DEF KnowsTags
<1>6. \A d \in Calls : KnowsTags(d)'
  BY <1>1, <1>3, <1>4, <1>5, KnowsOn
<1>7. j.tool # "tag_delete"
  BY DEF MakingTools, EditTools
<1>8. repeats' # {} => \E d \in Calls : outcome'[d] = "done"
  BY DoneOn DEF Repeated
<1> QED
  BY <1>2, <1>4, <1>6, <1>7, <1>8 DEF Repeated

LEMMA ChangedTwice ==
  \A r, j, A, D :
    Serially!Changed(Serially!Changed(r, j, A, D), j, A, D) = Serially!Changed(r, j, A, D)
<1> SUFFICES ASSUME NEW r, NEW j, NEW A, NEW D
             PROVE  Serially!Changed(Serially!Changed(r, j, A, D), j, A, D)
                      = Serially!Changed(r, j, A, D)
  OBVIOUS
<1>1. Serially!EditedTags(Serially!EditedTags(r.tags, j, A, D), j, A, D)
        = Serially!EditedTags(r.tags, j, A, D)
  BY DEF Serially!EditedTags
<1> QED
  BY <1>1 DEF Serially!Changed

(* A request that fails or is refused leaves everything as it was. *)
LEMMA FailsKeeps ==
  ASSUME IInv, IInv', NEW c \in Calls, Goes(c) \/ Granted(c) \/ Fail(c),
         NEW j \in Jobs, Repeatable(j), Repeated(j), Fails(c),
         UNCHANGED <<rec, tag, lastTag, copy, seen, drops>>
  PROVE  Keeps(j)
<1>1. Moving(c)
  BY MovingStep
<1>2. ~GoesOn(c)
  BY InParts DEF AllParts, Frame, Fails, GoesOn
<1> QED
  BY <1>1, <1>2, AsBefore

LEMMA SaveKeeps ==
  ASSUME IInv, IInv', NEW c \in Calls, SaveWhole(c),
         NEW j \in Jobs, Repeatable(j), Repeated(j)
  PROVE  Keeps(j)
<1>1. Moving(c) /\ (Goes(c) \/ Granted(c) \/ Fail(c))
  BY MovingStep DEF Goes
<1>2. /\ outcome[c] = "open" /\ ~Ended(c) /\ Now(c).do = "save" /\ Doing(c, "save")
      /\ UNCHANGED <<seen, drops, tag, lastTag>>
  BY DEF SaveWhole, Doing
<1>3. CASE ~AllThere(c)
  <2>1. Fails(c) /\ UNCHANGED <<rec, copy>>
    BY <1>3 DEF SaveWhole
  <2> QED
    BY <1>1, <1>2, <2>1, FailsKeeps
<1>4. CASE AllThere(c)
  <2> DEFINE A == OfLabels(j.adds)
             D == OfLabels(j.removes)
             W(r) == Serially!Changed(StartRec[r], j, A, D)
  <2>1. /\ AllAsked(j) /\ j.tool \in Idempotent /\ job[c] = j
        /\ \A d \in Calls : AllLanded(d)
        /\ rec = [r \in Records |-> rec[r]]
    BY DEF Repeatable, AllAsked, Repeated
  <2>2. /\ Now(c).do \in Does(Path(j))
        /\ j.tool \in EditTools
    BY <1>2, <2>1, NowFamiliar DEF RoleOfTool
  <2>3. j.tool \in MakingTools /\ \A d \in Calls : KnowsTags(d) /\ CopyOfStart(d)
    BY <2>2 DEF MakingTools, Repeated
  <2>4. AreMade(j.adds) /\ AreMade(j.removes) /\ Adds(c) = A /\ drops[c] = D
    BY <1>2, <2>1, <2>3, KnownAtPut DEF Puts
  <2>5. PICK r \in Records : j.on = {r}
    BY <2>2, JobsAssumption
  <2>6. /\ rec' = [rec EXCEPT ![r] = Serially!Changed(copy[c], j, A, D)]
        /\ copy' = [copy EXCEPT ![c] = Gone]
    BY <1>4, <2>1, <2>4, <2>5 DEF SaveWhole
  <2> HIDE DEF A, D
  <2>7. Saved(j) <=> rec[r] = W(r)
    BY <2>4, <2>5 DEF Saved, AreMade, A, D
  <2>8. Serially!Changed(copy[c], j, A, D) = W(r)
    <3>1. copy[c] = StartRec[r] \/ (copy[c] = rec[r] /\ Saved(j))
      BY <1>2, <2>1, <2>3, <2>5, SavesCopy DEF CopyOfStart
    <3> QED
      BY <2>7, <3>1, ChangedTwice
  <2>9. rec' = [i \in Records |-> IF i = r THEN W(r) ELSE rec[i]]
    BY <2>1, <2>6, <2>8
  <2> HIDE DEF W
  <2>10. /\ rec'[r] = W(r) /\ rec' = [i \in Records |-> rec'[i]]
         /\ Saved(j) => rec' = rec
    BY <2>1, <2>5, <2>7, <2>9
  <2>11. Saved(j)'
    BY <1>2, <2>4, <2>5, <2>10 DEF Saved, AreMade, OfLabels, A, D, W
  <2>12. ASSUME NEW role \in Does(Path(j)), Landed(role, j) PROVE Landed(role, j)'
    <3>1. RoleOfTool(role, j.tool)
      BY <2>1, RolesFamiliar
    <3>2. role \notin {"bulk", "unbulk", "make one", "rename", "drop"}
      BY <2>2, <3>1 DEF RoleOfTool, EditTools
    <3>3. AreMade(j.adds)'
      BY <1>2, <2>4 DEF AreMade
    <3> QED
      BY <2>11, <3>2, <3>3 DEF Landed
  <2>13. ASSUME NEW d \in Calls PROVE CopyOfStart(d)'
    <3>1. job'[d] = j /\ (copy'[d] = copy[d] \/ copy'[d] = Gone)
      <4>1. DOMAIN copy = Calls
        BY InParts DEF AllParts, Local
      <4> QED
        BY <1>1, <2>1, <2>6, <4>1 DEF Moving, AllAsked
    <3>2. copy[d] \in {Gone, StartRec[r]} \/ (copy[d] = rec[r] /\ Saved(j))
      BY <2>1, <2>3, <2>5 DEF CopyOfStart, AllAsked
    <3>3. copy'[d] \in {Gone, StartRec[r]} \/ copy'[d] = rec'[r]
      BY <2>10, <3>1, <3>2
    <3> QED
      BY <2>5, <2>11, <3>1, <3>3 DEF CopyOfStart
  <2>14. GoesOn(c) => /\ Now(c).do \notin {"make", "untag"}
                      /\ \A role : Now(c).do = role => Landed(role, j)'
    BY <1>2, <2>11 DEF Landed
  <2>15. Repeated(j)'
    BY <1>1, <1>2, <2>3, <2>10, <2>12, <2>13, <2>14, RecordsPut
  <2>16. Settled(j) => Saved(j)
    BY <1>2, <2>2 DEF Settled, Landed
  <2> QED
    BY <1>2, <2>10, <2>15, <2>16 DEF Keeps
<1> QED
  BY <1>3, <1>4

(* What a bulk edit adds to a record it does not take off. *)
LEMMA ApartTags ==
  ASSUME NEW j \in Jobs, Apart(j), j.tool = "indexer_bulk_edit"
  PROVE  OfLabels(j.adds) \cap OfLabels(j.removes) = {}
BY DEF Apart, OfLabels

(* What a bulk request leaves alone, and what it needs. *)
LEMMA BulkGround ==
  ASSUME IInv, NEW c \in Calls, Doing(c, "bulk") \/ Doing(c, "unbulk"),
         NEW j \in Jobs, Repeatable(j), Repeated(j)
  PROVE  /\ AllAsked(j) /\ j.tool \in Idempotent /\ job[c] = j /\ j.on \subseteq Records
         /\ rec = [r \in Records |-> rec[r]]
         /\ Now(c).do \in Does(Path(j))
         /\ j.tool = "indexer_bulk_edit" /\ j.tool \in MakingTools
         /\ j.tool \notin EditTools
         /\ AreMade(j.adds) /\ AreMade(j.removes)
         /\ Adds(c) = OfLabels(j.adds) /\ drops[c] = OfLabels(j.removes)
         /\ OfLabels(j.adds) \cap OfLabels(j.removes) = {}
<1>1. /\ outcome[c] = "open" /\ ~Ended(c) /\ Now(c).do \in {"bulk", "unbulk"}
      /\ AllAsked(j) /\ j.tool \in Idempotent /\ job[c] = j /\ Apart(j)
      /\ \A d \in Calls : AllLanded(d)
      /\ rec = [r \in Records |-> rec[r]]
  BY DEF Doing, Repeatable, AllAsked, Repeated
<1>2. Now(c).do \in Does(Path(j)) /\ j.tool = "indexer_bulk_edit"
  BY <1>1, NowFamiliar DEF RoleOfTool
<1>3. j.tool \in MakingTools /\ j.tool \notin EditTools /\ KnowsTags(c)
  BY <1>2 DEF MakingTools, EditTools, Repeated
<1>4. /\ AreMade(j.adds) /\ AreMade(j.removes)
      /\ Adds(c) = OfLabels(j.adds) /\ drops[c] = OfLabels(j.removes)
  BY <1>1, <1>3, KnownAtPut DEF Puts
<1> QED
  BY <1>1, <1>2, <1>3, <1>4, ApartTags, JobsAssumption

LEMMA BulkKeeps ==
  ASSUME IInv, IInv', NEW c \in Calls, BulkChange(c),
         NEW j \in Jobs, Repeatable(j), Repeated(j)
  PROVE  Keeps(j)
<1>1. Moving(c) /\ (Goes(c) \/ Granted(c) \/ Fail(c))
  BY MovingStep DEF Goes
<1>2. /\ Doing(c, "bulk") /\ Now(c).do = "bulk"
      /\ UNCHANGED <<copy, seen, drops, tag, lastTag>>
  BY DEF BulkChange, Doing, local
<1>3. CASE ~AllThere(c)
  <2>1. Fails(c) /\ UNCHANGED rec
    BY <1>3 DEF BulkChange
  <2> QED
    BY <1>1, <1>2, <2>1, FailsKeeps
<1>4. CASE AllThere(c)
  <2> DEFINE A == OfLabels(j.adds)
             D == OfLabels(TakenOff(j))
             R == OfLabels(j.removes)
             W(r) == Serially!Changed(rec[r], j, A, D)
  <2>1. /\ AllAsked(j) /\ j.tool \in Idempotent /\ job[c] = j /\ j.on \subseteq Records
        /\ rec = [r \in Records |-> rec[r]]
        /\ Now(c).do \in Does(Path(j))
        /\ j.tool = "indexer_bulk_edit" /\ j.tool \in MakingTools
        /\ j.tool \notin EditTools
        /\ AreMade(j.adds) /\ AreMade(j.removes)
        /\ Adds(c) = A /\ drops[c] = R /\ A \cap R = {}
    BY <1>2, BulkGround
  <2>2. D = IF j.adds # {} THEN {} ELSE R
    BY DEF TakenOff, OfLabels
  <2>3. rec' = [r \in Records |-> IF r \in j.on THEN W(r) ELSE rec[r]]
    BY <1>4, <2>1, <2>2 DEF BulkChange
  <2>4. AreMade(j.adds \cup TakenOff(j))
    BY <2>1 DEF AreMade, TakenOff
  <2> HIDE DEF A, D, R
  <2>5. BulkSaved(j) <=> \A r \in j.on : rec[r] = W(r)
    BY <2>4 DEF BulkSaved, A, D
  <2>6. \A r \in j.on : W(r) = Serially!Changed(W(r), j, A, D)
    BY ChangedTwice
  <2>7. \A r \in j.on : W(r).tags \cap R = {} \/ rec[r].tags \cap R # {}
    BY <2>1 DEF Serially!Changed, Serially!EditedTags
  <2> HIDE DEF W
  <2>8. \A r \in j.on : rec'[r] = W(r)
    BY <2>1, <2>3
  <2>9. BulkSaved(j)'
    <3>1. \A r \in j.on : rec'[r] = Serially!Changed(rec'[r], j, A, D)
      BY <2>6, <2>8
    <3> QED
      BY <1>2, <2>4, <3>1 DEF BulkSaved, AreMade, OfLabels, A, D
  <2>10. BulkRemoved(j) => BulkRemoved(j)'
    BY <1>2, <2>7, <2>8 DEF BulkRemoved, AreMade, OfLabels, R
  <2>11. rec' = [r \in Records |-> rec'[r]] /\ (BulkSaved(j) => rec' = rec)
    BY <2>1, <2>3, <2>5
  <2>12. ASSUME NEW role \in Does(Path(j)), Landed(role, j) PROVE Landed(role, j)'
    <3>1. role \notin {"save", "make one", "rename", "drop"}
      BY <2>1, RolesFamiliar DEF RoleOfTool
    <3>2. AreMade(j.adds)'
      BY <1>2, <2>1 DEF AreMade
    <3> QED
      BY <2>9, <2>10, <2>12, <3>1, <3>2 DEF Landed
  <2>13. GoesOn(c) => /\ Now(c).do \notin {"make", "untag"}
                      /\ \A role : Now(c).do = role => Landed(role, j)'
    BY <1>2, <2>9 DEF Landed
  <2>14. Repeated(j)'
    BY <1>1, <1>2, <2>1, <2>11, <2>12, <2>13, RecordsPut
  <2>15. Settled(j) => BulkSaved(j)
    BY <1>2, <2>1 DEF Settled, Landed
  <2> QED
    BY <1>2, <2>11, <2>14, <2>15 DEF Keeps
<1> QED
  BY <1>3, <1>4

LEMMA UnbulkKeeps ==
  ASSUME IInv, IInv', NEW c \in Calls, BulkRemove(c),
         NEW j \in Jobs, Repeatable(j), Repeated(j)
  PROVE  Keeps(j)
<1>1. Moving(c) /\ (Goes(c) \/ Granted(c) \/ Fail(c))
  BY MovingStep DEF Goes
<1>2. /\ Doing(c, "unbulk") /\ Now(c).do = "unbulk"
      /\ UNCHANGED <<copy, seen, drops, tag, lastTag>>
  BY DEF BulkRemove, Doing, local
<1>3. CASE ~AllThere(c)
  <2>1. Fails(c) /\ UNCHANGED rec
    BY <1>3 DEF BulkRemove
  <2> QED
    BY <1>1, <1>2, <2>1, FailsKeeps
<1>4. CASE AllThere(c)
  <2> DEFINE A == OfLabels(j.adds)
             D == OfLabels(TakenOff(j))
             R == OfLabels(j.removes)
  <2>1. /\ AllAsked(j) /\ j.tool \in Idempotent /\ job[c] = j /\ j.on \subseteq Records
        /\ rec = [r \in Records |-> rec[r]]
        /\ Now(c).do \in Does(Path(j))
        /\ j.tool = "indexer_bulk_edit" /\ j.tool \in MakingTools
        /\ j.tool \notin EditTools
        /\ AreMade(j.adds) /\ AreMade(j.removes)
        /\ drops[c] = R /\ A \cap R = {}
    BY <1>2, BulkGround
  <2>2. D \subseteq R
    BY DEF TakenOff, OfLabels
  <2>3. rec' = [r \in Records |-> IF r \in j.on THEN [rec[r] EXCEPT !.tags = @ \ R]
                                                ELSE rec[r]]
    BY <1>4, <2>1 DEF BulkRemove
  <2>4. \A r \in j.on : IsRecord(rec[r])
    BY <1>4, <2>1, InParts DEF AllThere, There, AllParts, RecOK
  <2> HIDE DEF A, D, R
  <2>5. \A r \in j.on : rec'[r] = [of |-> rec[r].of, on |-> rec[r].on,
                                   prio |-> rec[r].prio, tags |-> rec[r].tags \ R]
    <3> SUFFICES ASSUME NEW r \in j.on
                 PROVE  rec'[r] = [of |-> rec[r].of, on |-> rec[r].on,
                                   prio |-> rec[r].prio, tags |-> rec[r].tags \ R]
      OBVIOUS
    <3>1. rec'[r] = [rec[r] EXCEPT !.tags = @ \ R]
      BY <2>1, <2>3
    <3>2. rec[r] = [of |-> rec[r].of, on |-> rec[r].on,
                    prio |-> rec[r].prio, tags |-> rec[r].tags]
      BY <2>4 DEF IsRecord
    <3> QED
      BY <3>1, <3>2
  <2>6. BulkRemoved(j)'
    <3>1. ASSUME NEW r \in j.on PROVE rec'[r].tags \cap R = {}
      <4> DEFINE rr == rec'[r]
      <4>1. rr = [of |-> rec[r].of, on |-> rec[r].on,
                  prio |-> rec[r].prio, tags |-> rec[r].tags \ R]
        BY <2>5
      <4> HIDE DEF rr
      <4>2. rr.tags \cap R = {}
        BY <4>1
      <4> QED
        BY <4>2 DEF rr
    <3> QED
      BY <1>2, <2>1, <3>1 DEF BulkRemoved, AreMade, OfLabels, R
  <2>7. BulkSaved(j) => BulkSaved(j)'
    <3> SUFFICES ASSUME BulkSaved(j), NEW r \in j.on
                 PROVE  rec'[r] = Serially!Changed(rec'[r], j, A, D)
      BY <1>2 DEF BulkSaved, AreMade, OfLabels, A, D
    <3>1. rec[r] = Serially!Changed(rec[r], j, A, D)
      BY DEF BulkSaved, A, D
    <3>2. /\ rec[r].prio = (IF j.prio = Keep THEN rec[r].prio ELSE j.prio)
          /\ rec[r].tags = Serially!EditedTags(rec[r].tags, j, A, D)
      BY <3>1 DEF Serially!Changed
    <3>3. rec[r].tags \ R = Serially!EditedTags(rec[r].tags \ R, j, A, D)
      BY <2>1, <2>2, <3>2 DEF Serially!EditedTags
    <3> DEFINE rr == rec'[r]
    <3>4. rr = [of |-> rec[r].of, on |-> rec[r].on,
                prio |-> rec[r].prio, tags |-> rec[r].tags \ R]
      BY <2>5
    <3> HIDE DEF rr
    <3>5. rr = Serially!Changed(rr, j, A, D)
      BY <3>2, <3>3, <3>4 DEF Serially!Changed
    <3> QED
      BY <3>5 DEF rr
  <2>8. rec' = [r \in Records |-> rec'[r]] /\ (BulkRemoved(j) => rec' = rec)
    <3>1. ASSUME BulkRemoved(j), NEW r \in j.on PROVE rec'[r] = rec[r]
      <4>1. rec[r].tags \ R = rec[r].tags
        BY <3>1 DEF BulkRemoved, R
      <4> QED
        BY <2>4, <2>5, <4>1 DEF IsRecord
    <3>2. \A r \in Records \ j.on : rec'[r] = rec[r]
      BY <2>3
    <3>3. rec' = [r \in Records |-> rec'[r]]
      BY <2>3
    <3> QED
      BY <2>1, <3>1, <3>2, <3>3
  <2>9. ASSUME NEW role \in Does(Path(j)), Landed(role, j) PROVE Landed(role, j)'
    <3>1. role \notin {"save", "make one", "rename", "drop"}
      BY <2>1, RolesFamiliar DEF RoleOfTool
    <3>2. AreMade(j.adds)'
      BY <1>2, <2>1 DEF AreMade
    <3> QED
      BY <2>6, <2>7, <2>9, <3>1, <3>2 DEF Landed
  <2>10. GoesOn(c) => /\ Now(c).do \notin {"make", "untag"}
                      /\ \A role : Now(c).do = role => Landed(role, j)'
    BY <1>2, <2>6 DEF Landed
  <2>11. Repeated(j)'
    BY <1>1, <1>2, <2>1, <2>8, <2>9, <2>10, RecordsPut
  <2>12. Settled(j) => BulkRemoved(j)
    BY <1>2, <2>1 DEF Settled, Landed
  <2> QED
    BY <1>2, <2>8, <2>11, <2>12 DEF Keeps
<1> QED
  BY <1>3, <1>4

(* A step that leaves the records and what is read of them, and makes tags *)
(* or looks at them.                                                       *)
LEMMA TagsOn ==
  ASSUME IInv, IInv', NEW c \in Calls, Moving(c),
         NEW j \in Jobs, Repeatable(j), Repeated(j), j.tool \in MakingTools,
         rec' = rec, copy'[c] = copy[c], OnlyMade,
         \A t \in TagIds : t > lastTag' => tag'[t] = NoLabel,
         \A t \in TagIds : seen'[c][t] # NoLabel => tag'[t] = seen'[c][t],
         outcome'[c] = "open" =>
           /\ \A t \in TagIds : seen[c][t] # NoLabel => seen'[c][t] = seen[c][t]
           /\ drops'[c] = drops[c] \/ Dropping(c)',
         GoesOn(c) => /\ Now(c).do # "make"
                      /\ Now(c).do = "untag" => Dropping(c)'
                      /\ \A role : Now(c).do = role => Landed(role, j)'
  PROVE  Repeated(j)'
<1>1. AllAsked(j) /\ j.tool \in Idempotent
  BY DEF Repeatable
<1>2. \A role \in Does(Path(j)) : Landed(role, j) => Landed(role, j)'
  BY <1>1, LandedStays
<1>3. \A d \in Calls : AllLanded(d)'
  BY <1>1, <1>2, LandedOn DEF Repeated
<1>4. \A t \in TagIds : StartTag[t] \in {NoLabel, tag'[t]}
  BY DEF Repeated, OnlyMade
<1>5. \A d \in Calls : KnowsTags(d)
  BY DEF Repeated
<1>6. \A d \in Calls : KnowsTags(d)'
  BY <1>1, <1>5, KnowsOn
<1>7. ASSUME j.tool \in EditTools PROVE \A d \in Calls : CopyOfStart(d)'
  <2>1. \A d \in Calls : CopyOfStart(d)
    BY <1>7 DEF Repeated
  <2>2. Saved(j) => Saved(j)'
    <3> SUFFICES ASSUME Saved(j) PROVE Saved(j)'
      OBVIOUS
    <3>1. /\ AreMade(j.adds) /\ AreMade(j.removes) /\ AreMade(j.adds \cup j.removes)
          /\ j.adds \in SUBSET Labels /\ j.removes \in SUBSET Labels
          /\ j.adds \cup j.removes \in SUBSET Labels
      BY JobsAssumption DEF Saved, AreMade
    <3>2. /\ AreMade(j.adds \cup j.removes)'
          /\ OfLabels(j.adds)' = OfLabels(j.adds)
          /\ OfLabels(j.removes)' = OfLabels(j.removes)
      BY <3>1, MadeBefore
    <3> QED
      BY <3>2 DEF Saved
  <2> QED
    BY <1>1, <2>1, <2>2, CopyOn
<1>8. j.tool # "tag_delete"
  BY DEF MakingTools, EditTools
<1>9. rec' = [r \in Records |-> rec'[r]]
  BY DEF Repeated
<1>10. repeats' # {} => \E d \in Calls : outcome'[d] = "done"
  BY DoneOn DEF Repeated
<1> QED
  BY <1>3, <1>4, <1>6, <1>7, <1>8, <1>9, <1>10 DEF Repeated

(* A step of a tool that neither makes tags nor deletes one. *)
LEMMA EditedOn ==
  ASSUME IInv, NEW c \in Calls, Moving(c),
         NEW j \in Jobs, Repeatable(j), Repeated(j),
         j.tool \notin MakingTools, j.tool # "tag_delete", rec' = rec,
         \A role \in Does(Path(j)) : Landed(role, j) => Landed(role, j)',
         \A role : GoesOn(c) /\ Now(c).do = role => Landed(role, j)'
  PROVE  Repeated(j)'
<1>1. \A d \in Calls : AllLanded(d)'
  BY LandedOn DEF Repeated, Repeatable
<1>2. j.tool \notin EditTools
  BY DEF MakingTools
<1>3. repeats' # {} => \E d \in Calls : outcome'[d] = "done"
  BY DoneOn DEF Repeated
<1> QED
  BY <1>1, <1>2, <1>3 DEF Repeated

-----------------------------------------------------------------------------
LEMMA ReadKeeps ==
  ASSUME IInv, IInv', NEW c \in Calls, ReadWhole(c),
         NEW j \in Jobs, Repeatable(j), Repeated(j)
  PROVE  Keeps(j)
<1>1. Moving(c) /\ (Goes(c) \/ Granted(c) \/ Fail(c))
  BY MovingStep DEF Goes
<1>2. /\ outcome[c] = "open" /\ ~Ended(c) /\ Now(c).do = "read"
      /\ UNCHANGED <<seen, drops, rec, tag, lastTag>>
  BY DEF ReadWhole, Doing, prowlarr
<1>3. CASE ~AllThere(c)
  <2>1. Fails(c) /\ UNCHANGED copy
    BY <1>3 DEF ReadWhole
  <2> QED
    BY <1>1, <1>2, <2>1, FailsKeeps
<1>4. CASE AllThere(c)
  <2>1. /\ AllAsked(j) /\ j.tool \in Idempotent /\ job[c] = j
        /\ \A d \in Calls : AllLanded(d)
        /\ rec = [r \in Records |-> rec[r]]
    BY DEF Repeatable, AllAsked, Repeated
  <2>2. j.tool \in EditTools
    BY <1>2, <2>1, NowFamiliar DEF RoleOfTool
  <2>3. j.tool \in MakingTools /\ \A d \in Calls : CopyOfStart(d)
    BY <2>2 DEF MakingTools, Repeated
  <2>4. PICK r \in Records : j.on = {r}
    BY <2>2, JobsAssumption
  <2>5. copy' = [copy EXCEPT ![c] = rec[r]]
    BY <1>4, <2>1, <2>4 DEF ReadWhole
  <2>6. Saved(j)' <=> Saved(j)
    BY <1>2 DEF Saved, AreMade, OfLabels
  <2>7. ASSUME NEW d \in Calls PROVE CopyOfStart(d)'
    <3>1. job'[d] = j /\ (copy'[d] = copy[d] \/ copy'[d] = rec[r])
      <4>1. DOMAIN copy = Calls
        BY InParts DEF AllParts, Local
      <4> QED
        BY <1>1, <2>1, <2>5, <4>1 DEF Moving, AllAsked
    <3>2. /\ rec[r] = StartRec[r] \/ Saved(j)
          /\ copy[d] \in {Gone, StartRec[r]} \/ (copy[d] = rec[r] /\ Saved(j))
      BY <2>1, <2>3, <2>4 DEF CopyOfStart, AllAsked
    <3>3. copy'[d] \in {Gone, StartRec[r]} \/ (copy'[d] = rec[r] /\ Saved(j))
      BY <3>1, <3>2
    <3> QED
      BY <1>2, <2>4, <2>6, <3>1, <3>2, <3>3 DEF CopyOfStart
  <2>8. \A role \in Does(Path(j)) : Landed(role, j) => Landed(role, j)'
    BY <1>2, <2>1, LandedStays
  <2>9. GoesOn(c) => /\ Now(c).do \notin {"make", "untag"}
                     /\ \A role : Now(c).do = role => Landed(role, j)'
    BY <1>2 DEF Landed
  <2>10. rec' = [s \in Records |-> rec'[s]]
    BY <1>2, <2>1
  <2>11. Repeated(j)'
    <3> HIDE <1>4, <2>4, <2>5
    <3> QED
      BY <1>1, <1>2, <2>3, <2>7, <2>8, <2>9, <2>10, RecordsPut
  <2> QED
    BY <1>2, <2>11 DEF Keeps
<1> QED
  BY <1>3, <1>4

LEMMA LookKeeps ==
  ASSUME IInv, IInv', NEW c \in Calls, LookAtTags(c),
         NEW j \in Jobs, Repeatable(j), Repeated(j)
  PROVE  Keeps(j)
<1>1. Moving(c)
  BY MovingStep DEF Goes
<1>2. /\ Now(c).do = "look"
      /\ UNCHANGED <<copy, drops, rec, tag, lastTag>>
      /\ seen' = [seen EXCEPT ![c] = tag]
      /\ j.tool \in Idempotent
  BY DEF LookAtTags, Doing, prowlarr, Repeatable
<1>3. seen'[c] = tag
  BY <1>2, InParts DEF AllParts, Local
<1>4. \A role : GoesOn(c) /\ Now(c).do = role => Landed(role, j)'
  BY <1>2 DEF Landed
<1>5. \A role \in Does(Path(j)) : Landed(role, j) => Landed(role, j)'
  BY <1>2, LandedStays
<1>6. OnlyMade
  BY <1>2 DEF OnlyMade
<1>7. CASE j.tool \in MakingTools
  <2>1. KnowsTags(c) /\ \A t \in TagIds : t > lastTag => tag[t] = NoLabel
    BY <1>7 DEF Repeated
  <2>2. \A t \in TagIds : seen[c][t] # NoLabel => seen'[c][t] = seen[c][t]
    BY <1>3, <2>1 DEF KnowsTags
  <2>3. Repeated(j)'
    BY <1>1, <1>2, <1>3, <1>4, <1>6, <1>7, <2>1, <2>2, TagsOn
  <2> QED
    BY <1>2, <2>3 DEF Keeps
<1>8. CASE j.tool \notin MakingTools /\ j.tool # "tag_delete"
  BY <1>1, <1>2, <1>4, <1>5, <1>8, EditedOn DEF Keeps
<1>9. CASE j.tool = "tag_delete"
  <2>1. Familiar(Path(j), j)
    BY <1>2, FormedJobs, PathFamiliar
  <2>2. "look" \notin Does(Path(j))
    BY <1>9, <2>1 DEF Familiar, Only, Does
  <2>3. AllAsked(j) /\ AllLanded(c) /\ outcome[c] = "open" /\ ~Ended(c)
    BY DEF Repeatable, Repeated, LookAtTags, Doing
  <2> QED
    BY <1>2, <2>2, <2>3, NowFamiliar
<1> QED
  BY <1>7, <1>8, <1>9

LEMMA LookUpKeeps ==
  ASSUME IInv, IInv', NEW c \in Calls, LookUpRemoved(c),
         NEW j \in Jobs, Repeatable(j), Repeated(j)
  PROVE  Keeps(j)
<1>1. Moving(c) /\ (Goes(c) \/ Granted(c) \/ Fail(c))
  BY MovingStep DEF Goes
<1>2. /\ outcome[c] = "open" /\ ~Ended(c) /\ Now(c).do = "untag"
      /\ UNCHANGED <<copy, seen, rec, tag, lastTag>>
      /\ AllAsked(j) /\ j.tool \in Idempotent /\ job[c] = j /\ AllLanded(c)
  BY DEF LookUpRemoved, Doing, prowlarr, Repeatable, AllAsked, Repeated
<1>3. CASE ~\A l \in job[c].removes : TagWith(l, tag) # 0
  <2>1. Fails(c) /\ UNCHANGED drops
    BY <1>3 DEF LookUpRemoved
  <2> QED
    BY <1>1, <1>2, <2>1, FailsKeeps
<1>4. CASE \A l \in job[c].removes : TagWith(l, tag) # 0
  <2>1. j.tool \in MakingTools
    BY <1>2, NowFamiliar DEF RoleOfTool, MakingTools
  <2>2. drops'[c] = TagsWith(j.removes, tag)
    BY <1>2, <1>4, InParts DEF LookUpRemoved, AllParts, Local
  <2>3. TagsWith(j.removes, tag) = OfLabels(j.removes) /\ AreMade(j.removes)
    <3>1. TagOK /\ j.removes \in SUBSET Labels
      BY InParts, JobsAssumption DEF AllParts
    <3> QED
      BY <1>2, <1>4, <3>1, KnownTags
  <2>4. Dropping(c)'
    BY <1>1, <1>2, <2>2, <2>3 DEF Dropping, AreMade, OfLabels, Moving
  <2>5. OnlyMade
    BY <1>2 DEF OnlyMade
  <2>6. KnowsTags(c) /\ \A t \in TagIds : t > lastTag => tag[t] = NoLabel
    BY <2>1 DEF Repeated
  <2>7. \A role : GoesOn(c) /\ Now(c).do = role => Landed(role, j)'
    BY <1>2 DEF Landed
  <2>8. \A t \in TagIds : seen'[c][t] # NoLabel => tag'[t] = seen'[c][t]
    BY <1>2, <2>6 DEF KnowsTags
  <2>9. Repeated(j)'
    BY <1>1, <1>2, <2>1, <2>4, <2>5, <2>6, <2>7, <2>8, TagsOn
  <2> QED
    BY <1>2, <2>9 DEF Keeps
<1> QED
  BY <1>3, <1>4

LEMMA MakeKeeps ==
  ASSUME IInv, IInv', NEW c \in Calls, MakeTag(c),
         NEW j \in Jobs, Repeatable(j), Repeated(j)
  PROVE  Keeps(j)
<1>1. Moving(c)
  BY MovingStep DEF Goes
<1>2. /\ outcome[c] = "open" /\ ~Ended(c) /\ Now(c).do = "make"
      /\ UNCHANGED <<todo, copy, drops, rec>>
      /\ AllAsked(j) /\ j.tool \in Idempotent /\ job[c] = j /\ AllLanded(c)
  BY DEF MakeTag, Doing, Repeatable, AllAsked, Repeated
<1>3. PICK l \in j.adds : TagWith(l, seen[c]) = 0 /\ Post(c, l)
  BY <1>2 DEF MakeTag
<1>4. l \in Labels
  BY <1>3, JobsAssumption
<1>5. Now(c).do \in Does(Path(j)) /\ j.tool \in MakingTools
  BY <1>2, NowFamiliar DEF RoleOfTool, MakingTools
<1>6. SeesTags(c)
  BY <1>2, WritesTags DEF TagRoles, LabelRoles
<1>7. \A t \in TagIds : tag[t] # l
  BY <1>3, <1>6, TagWithIs DEF SeesTags
<1>8. \A t \in TagIds : t > lastTag => tag[t] = NoLabel
  BY <1>5 DEF Repeated
<1>9. /\ OnlyMade /\ seen'[c] = tag'
      /\ \A t \in TagIds : t > lastTag' => tag'[t] = NoLabel
  BY <1>3, <1>4, <1>6, <1>7, <1>8, TagPosted
<1>10. ~GoesOn(c)
  BY <1>2, TailDiffers, InParts DEF AllParts, Walking, GoesOn, Ended
<1>11. \A t \in TagIds : seen[c][t] # NoLabel => seen'[c][t] = seen[c][t]
  BY <1>6, <1>9 DEF SeesTags, OnlyMade
<1>12. Repeated(j)'
  <2> HIDE <1>3
  <2> QED
    BY <1>1, <1>2, <1>5, <1>9, <1>10, <1>11, TagsOn
<1>13. ~Settled(j)
  <2>1. Settled(j) => AreMade(j.adds)
    BY <1>2, <1>5 DEF Settled, Landed
  <2> QED
    BY <1>3, <1>7, <2>1 DEF AreMade
<1> QED
  BY <1>12, <1>13 DEF Keeps

LEMMA CreateTagKeeps ==
  ASSUME IInv, IInv', NEW c \in Calls, CreateTag(c),
         NEW j \in Jobs, Repeatable(j), Repeated(j)
  PROVE  Keeps(j)
<1> DEFINE l == TheLabel(j.adds)
<1>1. Moving(c) /\ (Goes(c) \/ Granted(c) \/ Fail(c))
  BY MovingStep DEF Goes
<1>2. /\ outcome[c] = "open" /\ ~Ended(c) /\ Now(c).do = "make one"
      /\ UNCHANGED <<copy, drops, rec>>
      /\ AllAsked(j) /\ j.tool \in Idempotent /\ job[c] = j /\ AllLanded(c)
  BY DEF CreateTag, Doing, Repeatable, AllAsked, Repeated
<1>3. CASE Taken(l, 0, seen[c])
  <2>1. Fails(c) /\ UNCHANGED <<tag, lastTag, seen>>
    BY <1>2, <1>3 DEF CreateTag
  <2> QED
    BY <1>1, <1>2, <2>1, FailsKeeps
<1>4. CASE ~Taken(l, 0, seen[c])
  <2>1. Post(c, l)
    BY <1>2, <1>4 DEF CreateTag
  <2>2. l \in Labels
    BY <1>2, NamesLabel
  <2> HIDE DEF l
  <2>3. Now(c).do \in Does(Path(j)) /\ j.tool \in MakingTools
    BY <1>2, NowFamiliar DEF RoleOfTool, MakingTools
  <2>4. SeesTags(c)
    BY <1>2, WritesTags DEF TagRoles, LabelRoles
  <2>5. \A t \in TagIds : tag[t] # l
    <3>1. \A t \in TagIds : t # 0
      BY DEF TagIds
    <3> QED
      BY <1>4, <2>4, <3>1 DEF SeesTags, Taken
  <2>6. \A t \in TagIds : t > lastTag => tag[t] = NoLabel
    BY <2>3 DEF Repeated
  <2>7. /\ OnlyMade /\ seen'[c] = tag'
        /\ \A t \in TagIds : t > lastTag' => tag'[t] = NoLabel
        /\ \E t \in TagIds : tag'[t] = l
    BY <2>1, <2>2, <2>4, <2>5, <2>6, TagPosted
  <2>8. \A t \in TagIds : seen[c][t] # NoLabel => seen'[c][t] = seen[c][t]
    BY <2>4, <2>7 DEF SeesTags, OnlyMade
  <2>9. \A role : GoesOn(c) /\ Now(c).do = role => Landed(role, j)'
    BY <1>2, <2>7 DEF Landed, AreMade, l
  <2>10. Repeated(j)'
    <3> HIDE <1>4, <2>1
    <3> QED
      BY <1>1, <1>2, <2>3, <2>7, <2>8, <2>9, TagsOn
  <2>11. ~Settled(j)
    <3>1. Settled(j) => AreMade({l})
      BY <1>2, <2>3 DEF Settled, Landed, l
    <3> QED
      BY <2>5, <3>1 DEF AreMade
  <2> QED
    BY <2>10, <2>11 DEF Keeps
<1> QED
  BY <1>3, <1>4

(* A tag is renamed once: then none has the label there was. *)
LEMMA RenameKeeps ==
  ASSUME IInv, IInv', NEW c \in Calls, RenameTag(c),
         NEW j \in Jobs, Repeatable(j), Repeated(j)
  PROVE  Keeps(j)
<1> DEFINE old == TheLabel(j.removes)
           new == TheLabel(j.adds)
           t == TagWith(old, seen[c])
<1>1. Moving(c) /\ (Goes(c) \/ Granted(c) \/ Fail(c))
  BY MovingStep DEF Goes
<1>2. /\ outcome[c] = "open" /\ ~Ended(c) /\ Now(c).do = "rename"
      /\ UNCHANGED <<copy, seen, drops, rec, lastTag>>
      /\ AllAsked(j) /\ j.tool \in Idempotent /\ job[c] = j /\ AllLanded(c)
  BY DEF RenameTag, Doing, Repeatable, AllAsked, Repeated, local
<1>3. CASE t = 0 \/ Taken(new, t, seen[c]) \/ tag[t] = NoLabel
  <2>1. Fails(c) /\ UNCHANGED tag
    BY <1>2, <1>3 DEF RenameTag
  <2> QED
    BY <1>1, <1>2, <2>1, FailsKeeps
<1>4. CASE ~(t = 0 \/ Taken(new, t, seen[c]) \/ tag[t] = NoLabel)
  <2>1. tag' = [tag EXCEPT ![t] = new]
    BY <1>2, <1>4 DEF RenameTag
  <2>2. SeesTags(c)
    BY <1>2, WritesTags DEF TagRoles, LabelRoles
  <2>3. t \in TagIds /\ tag[t] = old /\ old # NoLabel
    BY <1>4, <2>2, TagWithIs DEF SeesTags
  <2>4. Now(c).do \in Does(Path(j)) /\ j.tool = "tag_edit"
    BY <1>2, NowFamiliar DEF RoleOfTool
  <2> HIDE DEF t, old, new
  <2>5. /\ DOMAIN tag = TagIds /\ tag = [u \in TagIds |-> tag[u]]
        /\ \A u \in TagIds : tag[u] = old => u = t
    <3>1. TagIds = Serially!TagIds
      BY DEF TagIds, Serially!TagIds
    <3> QED
      BY <2>3, <3>1, InParts DEF AllParts, TagOK, LabelsApart, Serially!LabelsApart
  <2>6. new = old => tag' = tag
    BY <2>1, <2>3, <2>5
  <2>7. new # old => \A u \in TagIds : tag'[u] # old
    BY <2>1, <2>3, <2>5
  <2>8. new = old \/ Lost(old)'
    BY <2>7 DEF Lost
  <2>9. \A role : role = "rename" => Landed(role, j)'
    <3>1. new = old \/ \A u \in TagIds : tag'[u] = old => old = NoLabel
      BY <2>7
    <3> QED
      BY <3>1 DEF Landed, Lost, old, new
  <2>10. j.tool \notin MakingTools /\ j.tool # "tag_delete"
    BY <2>4 DEF MakingTools, EditTools
  <2>11. ASSUME NEW role \in Does(Path(j)), Landed(role, j) PROVE Landed(role, j)'
    <3>1. role \notin {"make", "save", "bulk", "unbulk", "make one", "drop"}
      <4>1. RoleOfTool(role, j.tool)
        BY <1>2, RolesFamiliar
      <4> QED
        BY <2>4, <4>1 DEF RoleOfTool, EditTools
    <3> QED
      BY <2>9, <3>1 DEF Landed
  <2>12. Repeated(j)'
    <3>1. \A role : GoesOn(c) /\ Now(c).do = role => Landed(role, j)'
      BY <1>2, <2>9
    <3> QED
      BY <1>1, <1>2, <2>10, <2>11, <3>1, EditedOn
  <2>13. Settled(j) => new = old
    <3>1. Settled(j) => new = old \/ Lost(old)
      BY <1>2, <2>4 DEF Settled, Landed, new, old
    <3> QED
      BY <2>3, <3>1 DEF Lost
  <2> QED
    BY <1>2, <2>6, <2>12, <2>13 DEF Keeps
<1> QED
  BY <1>3, <1>4

-----------------------------------------------------------------------------
(* A step of tag_delete. *)
LEMMA DeletedOn ==
  ASSUME IInv, NEW c \in Calls, Moving(c),
         NEW j \in Jobs, Repeatable(j), Repeated(j), j.tool = "tag_delete", rec' = rec,
         \A role \in Does(Path(j)) : Landed(role, j) => Landed(role, j)',
         \A role : GoesOn(c) /\ Now(c).do = role => Landed(role, j)',
         \A d \in Calls : DropsIt(d)'
  PROVE  Repeated(j)'
<1>1. \A d \in Calls : AllLanded(d)'
  BY LandedOn DEF Repeated, Repeatable
<1>2. j.tool \notin MakingTools /\ j.tool \notin EditTools
  BY DEF MakingTools, EditTools
<1>3. repeats' # {} => \E d \in Calls : outcome'[d] = "done"
  BY DoneOn DEF Repeated
<1> QED
  BY <1>1, <1>2, <1>3 DEF Repeated

LEMMA DetailKeeps ==
  ASSUME IInv, IInv', NEW c \in Calls, TagDetail(c),
         NEW j \in Jobs, Repeatable(j), Repeated(j)
  PROVE  Keeps(j)
<1> DEFINE l == TheLabel(j.removes)
           t == TagWith(l, tag)
<1>1. Moving(c)
  BY MovingStep DEF Goes
<1>2. /\ outcome[c] = "open" /\ ~Ended(c) /\ Now(c).do = "detail"
      /\ UNCHANGED <<rec, tag, lastTag>>
      /\ AllAsked(j) /\ j.tool \in Idempotent /\ job[c] = j /\ AllLanded(c)
  BY DEF TagDetail, Doing, prowlarr, Repeatable, AllAsked, Repeated
<1>3. j.tool = "tag_delete" /\ todo'[c] = Tail(todo[c]) /\ outcome'[c] = "open"
  <2>1. Onward(c)
    BY DEF TagDetail
  <2> QED
    BY <1>2, <2>1, NowFamiliar, InParts DEF RoleOfTool, Onward, AllParts, Frame
<1>4. drops'[c] = {t} \ {0}
  BY <1>2, InParts DEF TagDetail, AllParts, Local
<1>5. Told(drops[c], l)'
  <2>1. t # 0 => t \in TagIds /\ tag[t] = l
    BY TagWithIs
  <2> HIDE DEF t, l
  <2>2. t # 0 => \A u \in TagIds : tag[u] = l /\ l # NoLabel => u = t
    <3>1. TagIds = Serially!TagIds
      BY DEF TagIds, Serially!TagIds
    <3> QED
      BY <2>1, <3>1, InParts DEF AllParts, TagOK, LabelsApart, Serially!LabelsApart
  <2>3. \A x \in drops'[c] : x = t /\ t # 0 /\ drops'[c] = {t}
    BY <1>4
  <2> QED
    BY <1>2, <2>1, <2>2, <2>3 DEF Told, l
<1>6. \A d \in Calls : DropsIt(d)'
  <2>1. \A d \in Calls : DropsIt(d)
    BY <1>3 DEF Repeated
  <2>2. GoesOn(c)
    BY <1>2, <1>3 DEF GoesOn
  <2> QED
    BY <1>1, <1>2, <1>5, <2>1, <2>2, DropsOn
<1>7. \A role \in Does(Path(j)) : Landed(role, j) => Landed(role, j)'
  BY <1>2, LandedStays
<1>8. \A role : GoesOn(c) /\ Now(c).do = role => Landed(role, j)'
  BY <1>2 DEF Landed
<1>9. Repeated(j)'
  BY <1>1, <1>2, <1>3, <1>6, <1>7, <1>8, DeletedOn
<1> QED
  BY <1>2, <1>9 DEF Keeps

LEMMA DropKeeps ==
  ASSUME IInv, IInv', NEW c \in Calls, DropTag(c),
         NEW j \in Jobs, Repeatable(j), Repeated(j)
  PROVE  Keeps(j)
<1> DEFINE l == TheLabel(j.removes)
           t == CHOOSE x \in drops[c] : TRUE
<1>1. Moving(c) /\ (Goes(c) \/ Granted(c) \/ Fail(c))
  BY MovingStep DEF Goes
<1>2. /\ outcome[c] = "open" /\ ~Ended(c) /\ Now(c).do = "drop"
      /\ UNCHANGED <<copy, seen, drops, rec, lastTag>>
      /\ AllAsked(j) /\ j.tool \in Idempotent /\ job[c] = j /\ AllLanded(c)
  BY DEF DropTag, Doing, Repeatable, AllAsked, Repeated, local
<1>3. CASE RoutedCarriers(t) # {}
  <2>1. Fails(c) /\ UNCHANGED tag
    BY <1>3 DEF DropTag
  <2> QED
    BY <1>1, <1>2, <2>1, FailsKeeps
<1>4. CASE RoutedCarriers(t) = {}
  <2>1. tag' = [tag EXCEPT ![t] = NoLabel]
    BY <1>4 DEF DropTag
  <2>2. Now(c).do \in Does(Path(j)) /\ j.tool = "tag_delete"
    BY <1>2, NowFamiliar DEF RoleOfTool
  <2>3. \A d \in Calls : DropsIt(d)
    BY <2>2 DEF Repeated
  <2>4. drops[c] # {}
    <3>1. /\ IsPath(todo[c]) /\ todo[c] # <<>> /\ Head(todo[c]).do \in {"drop"}
          /\ (drops[c] # {}) \in BOOLEAN
      BY <1>2, InParts DEF AllParts, Walking, Ended, Now
    <3>2. Sound(drops[c] # {}, todo[c], {"drop"}, Namings, {"detail"})
      BY <1>2, <2>3 DEF DropsIt
    <3> QED
      BY <3>1, <3>2, SoundNow
  <2>5. /\ t \in TagIds /\ tag[t] \in {l, NoLabel}
        /\ \A u \in TagIds : tag[u] = l /\ l # NoLabel => u = t
    <3>1. t \in drops[c]
      BY <2>4
    <3>2. drops[c] \subseteq TagIds
      BY InParts DEF AllParts, Local
    <3> HIDE DEF t
    <3> QED
      BY <1>2, <2>3, <3>1, <3>2 DEF DropsIt
  <2> HIDE DEF t
  <2>6. tag = [u \in TagIds |-> tag[u]]
    BY InParts DEF AllParts, TagOK
  <2>7. \A u \in TagIds : tag'[u] = IF u = t THEN NoLabel ELSE tag[u]
    BY <2>1, <2>6
  <2>8. /\ \A u \in TagIds : tag'[u] \in {tag[u], NoLabel}
        /\ \A u \in TagIds : tag'[u] = l => l = NoLabel
    BY <2>5, <2>7
  <2>9. \A role : role = "drop" => Landed(role, j)'
    BY <2>8 DEF Landed, Lost
  <2>10. ASSUME NEW role \in Does(Path(j)), Landed(role, j) PROVE Landed(role, j)'
    <3>1. role \notin {"make", "save", "bulk", "unbulk", "make one", "rename"}
      <4>1. RoleOfTool(role, j.tool)
        BY <1>2, RolesFamiliar
      <4> QED
        BY <2>2, <4>1 DEF RoleOfTool, EditTools
    <3> QED
      BY <2>9, <3>1 DEF Landed
  <2>11. \A d \in Calls : DropsIt(d)'
    BY <1>1, <1>2, <2>3, <2>4, <2>8, DropsOn
  <2>12. Repeated(j)'
    <3>1. \A role : GoesOn(c) /\ Now(c).do = role => Landed(role, j)'
      BY <1>2, <2>9
    <3> QED
      BY <1>1, <1>2, <2>2, <2>10, <2>11, <3>1, DeletedOn
  <2>13. Settled(j) => tag' = tag
    <3>1. Settled(j) => Lost(l)
      BY <1>2, <2>2 DEF Settled, Landed
    <3>2. Settled(j) => tag[t] = NoLabel
      BY <2>5, <3>1 DEF Lost
    <3> QED
      BY <2>1, <2>5, <2>6, <3>2
  <2> QED
    BY <1>2, <2>12, <2>13 DEF Keeps
<1> QED
  BY <1>3, <1>4

(* Steps that ask, wait for locks or let them go, or fail. *)
LEMMA AskingKeeps ==
  ASSUME IInv, IInv', NEW c \in Calls,
         \/ PassBy(c) \/ Resolve(c) \/ AskLocks(c) \/ Granted(c) \/ Unlocks(c)
         \/ TagsMade(c) \/ ListCarriers(c) \/ NameCarriers(c) \/ Fail(c),
         NEW j \in Jobs, Repeatable(j), Repeated(j)
  PROVE  Keeps(j)
<1>1. Moving(c) /\ Frame
  BY MovingStep, InParts DEF Goes, AllParts
<1>2. UNCHANGED <<rec, tag, lastTag, copy, seen, drops>>
  BY DEF PassBy, Resolve, AskLocks, Granted, Unlocks, TagsMade, ListCarriers,
         NameCarriers, Fail, local, prowlarr
<1>3. CASE PassBy(c)
  <2>1. Now(c).do \in Silent
    BY <1>3 DEF PassBy, Doing
  <2> HIDE <1>3
  <2> QED
    BY <1>1, <1>2, <2>1, AsBefore DEF Silent
<1>4. CASE Resolve(c) \/ AskLocks(c) \/ Granted(c) \/ Unlocks(c) \/ ListCarriers(c)
  <2>1. Now(c).do \in {"find", "lock", "unlock", "list"}
    BY <1>4 DEF Resolve, AskLocks, Granted, Unlocks, ListCarriers, Doing
  <2> HIDE <1>4
  <2> QED
    BY <1>1, <1>2, <2>1, AsBefore
<1>5. CASE TagsMade(c)
  <2>1. Now(c).do = "make" /\ Given(c)
    BY <1>5 DEF TagsMade, Doing, Given
  <2> HIDE <1>5
  <2> QED
    BY <1>1, <1>2, <2>1, AsBefore
<1>6. CASE NameCarriers(c)
  <2>1. Now(c).do = "names"
    BY <1>6 DEF NameCarriers, Doing
  <2>2. drops[c] # {} \/ Fails(c)
    BY <1>6 DEF NameCarriers
  <2>3. Fails(c) => ~GoesOn(c)
    BY <1>1 DEF Fails, GoesOn, Frame
  <2> HIDE <1>6
  <2> QED
    BY <1>1, <1>2, <2>1, <2>2, <2>3, AsBefore
<1>7. CASE Fail(c)
  <2>1. Fails(c)
    BY <1>7 DEF Fail
  <2> QED
    BY <1>2, <1>7, <2>1, FailsKeeps
<1> QED
  BY <1>3, <1>4, <1>5, <1>6, <1>7

LEMMA ReturnKeeps ==
  ASSUME IInv, IInv', NEW c \in Calls, Return(c),
         NEW j \in Jobs, Repeatable(j), Repeated(j)
  PROVE  Keeps(j)
<1>1. Moving(c) /\ Frame /\ Local
  BY MovingStep, InParts DEF Goes, AllParts
<1>2. /\ outcome' = [outcome EXCEPT ![c] = IF @ = "open" THEN "done" ELSE "failed"]
      /\ copy' = [copy EXCEPT ![c] = Gone]
      /\ seen' = [seen EXCEPT ![c] = StartTag]
      /\ drops' = [drops EXCEPT ![c] = {}]
      /\ UNCHANGED <<rec, tag, lastTag>>
  BY DEF Return, Forget, prowlarr
<1>3. /\ outcome'[c] # "open" /\ copy'[c] = Gone
      /\ seen'[c] = StartTag /\ drops'[c] = {}
  BY <1>1, <1>2 DEF Frame, Local
<1>4. ~GoesOn(c)
  BY <1>3 DEF GoesOn
<1> QED
  BY <1>1, <1>2, <1>3, <1>4, AsBefore

(* No call that may be repeated adds or deletes a record, or restarts. *)
LEMMA NoneElse ==
  ASSUME IInv, NEW c \in Calls, NEW j \in Jobs, Repeatable(j), Repeated(j)
  PROVE  ~(Create(c) \/ SwitchOn(c) \/ Delete(c) \/ Restore(c) \/ Restart(c))
<1> SUFFICES ASSUME Create(c) \/ SwitchOn(c) \/ Delete(c) \/ Restore(c) \/ Restart(c)
             PROVE  FALSE
  OBVIOUS
<1>1. /\ outcome[c] = "open" /\ ~Ended(c)
      /\ Now(c).do \in {"create", "create off", "update", "delete", "restore", "restart"}
  BY DEF Create, SwitchOn, Delete, Restore, Restart, Doing
<1>2. RoleOfTool(Now(c).do, j.tool)
  BY <1>1, NowFamiliar DEF Repeatable, Repeated
<1> QED
  BY <1>1, <1>2 DEF RoleOfTool

LEMMA NextKeeps ==
  ASSUME IInv, IInv', Next, ~UNCHANGED vars, NEW j \in Jobs, Repeatable(j), Repeated(j)
  PROVE  Keeps(j)
<1>1. PICK c \in Calls : Goes(c) \/ Granted(c) \/ Fail(c)
  BY DEF Next, TurnOver
<1>2. CASE \/ PassBy(c) \/ Resolve(c) \/ AskLocks(c) \/ Granted(c) \/ Unlocks(c)
           \/ TagsMade(c) \/ ListCarriers(c) \/ NameCarriers(c) \/ Fail(c)
  BY <1>2, AskingKeeps
<1>3. CASE ReadWhole(c) \/ LookAtTags(c) \/ LookUpRemoved(c) \/ MakeTag(c) \/ Return(c)
  BY <1>3, ReadKeeps, LookKeeps, LookUpKeeps, MakeKeeps, ReturnKeeps
<1>4. CASE SaveWhole(c) \/ BulkChange(c) \/ BulkRemove(c)
  BY <1>4, SaveKeeps, BulkKeeps, UnbulkKeeps
<1>5. CASE CreateTag(c) \/ RenameTag(c) \/ TagDetail(c) \/ DropTag(c)
  BY <1>5, CreateTagKeeps, RenameKeeps, DetailKeeps, DropKeeps
<1>6. CASE Create(c) \/ SwitchOn(c) \/ Delete(c) \/ Restore(c) \/ Restart(c)
  BY <1>6, NoneElse
<1> QED
  BY <1>1, <1>2, <1>3, <1>4, <1>5, <1>6 DEF Goes

LEMMA InitRepeat == Init => RepeatInv
<1> SUFFICES ASSUME Init, NEW j \in Jobs, Repeatable(j) PROVE Repeated(j)
  BY DEF RepeatInv
<1> USE DEF Init
<1>1. Prepared(Path(j), j)
  BY FormedJobs, PathFamiliar DEF Repeatable
<1>2. \A c \in Calls : job[c] = j /\ todo[c] = Path(j) /\ outcome[c] = "open"
  BY DEF Repeatable, AllAsked
<1>3. \A now, p, roles, opens, closes :
        Kept(p, roles, opens, closes) => Sound(now, p, roles, opens, closes)
  BY DEF Sound, Kept, KeptOn
<1>4. \A p, roles, opens : Sound(TRUE, p, roles, opens, {})
  BY DEF Sound, KeptOn
<1>5. rec = [r \in Records |-> rec[r]] /\ repeats = {}
  BY DEF StartRec
<1>6. \A c \in Calls : AllLanded(c)
  BY <1>2 DEF AllLanded
<1>7. \A t \in TagIds : /\ t > lastTag => tag[t] = NoLabel
                        /\ StartTag[t] \in {NoLabel, tag[t]}
  BY DEF StartTag, TagIds
<1>8. ASSUME NEW c \in Calls PROVE KnowsTags(c)
  <2>1. Sound(Given(c), todo[c], Puts, Makes, {})
    <3>1. CASE j.adds = {}
      <4>1. Given(c) = TRUE
        BY <1>2, <3>1 DEF Given
      <4> QED
        BY <1>4, <4>1
    <3>2. CASE j.adds # {}
      BY <1>1, <1>2, <1>3, <3>2 DEF Prepared
    <3> QED
      BY <3>1, <3>2
  <2>2. Sound(Dropping(c), todo[c], Puts, Untags, {})
    <3>1. CASE j.removes = {}
      <4>1. Dropping(c) = TRUE
        BY <1>2, <3>1 DEF Dropping, AreMade, OfLabels
      <4> QED
        BY <1>4, <4>1
    <3>2. CASE j.removes # {}
      BY <1>1, <1>2, <1>3, <3>2 DEF Prepared
    <3> QED
      BY <3>1, <3>2
  <2>3. \A t \in TagIds : seen[c][t] # NoLabel => tag[t] = seen[c][t]
    OBVIOUS
  <2> QED
    BY <2>1, <2>2, <2>3 DEF KnowsTags
<1>9. \A c \in Calls : CopyOfStart(c)
  BY DEF CopyOfStart
<1>10. ASSUME NEW c \in Calls PROVE DropsIt(c)
  <2>1. Sound(drops[c] # {}, todo[c], {"drop"}, Namings, {"detail"})
    BY <1>1, <1>2, <1>3 DEF Prepared
  <2> QED
    BY <2>1 DEF DropsIt
<1> QED
  BY <1>5, <1>6, <1>7, <1>8, <1>9, <1>10 DEF Repeated

LEMMA NextRepeat == IInv /\ RepeatInv /\ [Next]_vars => RepeatInv'
<1> SUFFICES ASSUME IInv, RepeatInv, [Next]_vars, NEW j \in Jobs, Repeatable(j)'
             PROVE  Repeated(j)'
  BY DEF RepeatInv
<1>1. IInv'
  BY NextIInv
<1>2. CASE ~UNCHANGED vars
  <2>1. Next
    BY <1>2
  <2>2. job' = job
    <3>1. PICK c \in Calls : Goes(c) \/ Granted(c) \/ Fail(c)
      BY <1>2, <2>1 DEF Next, TurnOver
    <3> QED
      BY <3>1, MovingStep DEF Moving
  <2>3. Repeatable(j)
    BY <2>2 DEF Repeatable, AllAsked
  <2>4. Repeated(j)
    BY <2>3 DEF RepeatInv
  <2>5. Keeps(j)
    <3> HIDE <2>2
    <3> QED
      BY <1>1, <1>2, <2>1, <2>3, <2>4, NextKeeps
  <2> QED
    BY <2>5 DEF Keeps
<1>3. CASE UNCHANGED vars
  <2>1. /\ job' = job /\ todo' = todo /\ outcome' = outcome /\ repeats' = repeats
        /\ copy' = copy /\ seen' = seen /\ drops' = drops
        /\ rec' = rec /\ tag' = tag /\ lastTag' = lastTag
    BY <1>3 DEF vars, local, prowlarr
  <2>2. Repeatable(j)
    BY <2>1 DEF Repeatable, AllAsked
  <2>3. Repeated(j)
    BY <2>2 DEF RepeatInv
  <2>4. \A role : Landed(role, j)' <=> Landed(role, j)
    BY <2>1 DEF Landed, Saved, BulkSaved, BulkRemoved, AreMade, OfLabels, Lost
  <2>5. ASSUME NEW c \in Calls
        PROVE  /\ AllLanded(c) => AllLanded(c)'
               /\ KnowsTags(c) => KnowsTags(c)'
               /\ CopyOfStart(c) => CopyOfStart(c)'
               /\ DropsIt(c) => DropsIt(c)'
    <3>1. job[c] = j /\ job'[c] = j
      BY <2>1, <2>2 DEF Repeatable, AllAsked
    <3>2. AllLanded(c) => AllLanded(c)'
      BY <2>1, <2>4, <3>1 DEF AllLanded, Ended
    <3>3. KnowsTags(c) => KnowsTags(c)'
      BY <2>1 DEF KnowsTags, Given, Dropping, AreMade, OfLabels
    <3>4. CopyOfStart(c) => CopyOfStart(c)'
      BY <2>1 DEF CopyOfStart, Saved, AreMade, OfLabels
    <3>5. DropsIt(c) => DropsIt(c)'
      BY <2>1 DEF DropsIt
    <3> QED
      BY <3>2, <3>3, <3>4, <3>5
  <2> QED
    BY <2>1, <2>3, <2>5 DEF Repeated
<1> QED
  BY <1>2, <1>3

(* A call made again, word for word, of a tool hinted idempotent changes   *)
(* neither a record nor a tag more than the call that was answered did,    *)
(* whatever calls asked the same are about it and wherever each fails      *)
(* (tools/all_tools.go, toolHints), but for a bulk edit told to add a tag  *)
(* and take it off as well.                                                *)
THEOREM RepeatsChangeNothing ==
  ASSUME \A j \in Jobs : Apart(j)
  PROVE  Spec => RepeatChangesNothing
<1>1. Init => IInv /\ RepeatInv
  BY InitIInv, InitRepeat
<1>2. IInv /\ RepeatInv /\ [Next]_vars => (IInv /\ RepeatInv)'
  BY NextIInv, NextRepeat
<1>3. ASSUME IInv, RepeatInv, [Next]_vars, NEW c \in repeats, Tool(c) \in Idempotent,
             \A d \in Calls : job[d] = job[c]
      PROVE  UNCHANGED <<rec, tag>>
  <2>1. IInv' /\ c \in Calls /\ job[c] \in Jobs
    BY <1>3, NextIInv DEF IInv, TypeOK, ShapesOK
  <2>2. PICK j \in Jobs : job[c] = j
    BY <2>1
  <2>3. Repeatable(j)
    BY <1>3, <2>1, <2>2 DEF Repeatable, AllAsked, Tool
  <2>4. Repeated(j)
    BY <1>3, <2>3 DEF RepeatInv
  <2>5. PICK d \in Calls : outcome[d] = "done"
    BY <1>3, <2>4 DEF Repeated
  <2>6. AllLanded(d) /\ todo[d] = <<>> /\ job[d] = j
    BY <1>3, <2>2, <2>4, <2>5 DEF Repeated, AllLanded, Ended
  <2>7. Settled(j)
    BY <2>5, <2>6 DEF AllLanded, Does, Settled
  <2>8. CASE UNCHANGED vars
    BY <2>8 DEF vars, prowlarr
  <2>9. CASE ~UNCHANGED vars
    <3>1. Next
      BY <1>3, <2>9
    <3>2. Keeps(j)
      BY <1>3, <2>1, <2>3, <2>4, <2>9, <3>1, NextKeeps
    <3> QED
      BY <2>7, <3>2 DEF Keeps
  <2> QED
    BY <2>8, <2>9
<1>4. IInv /\ RepeatInv /\ [Next]_vars =>
        [\A c \in repeats :
           Tool(c) \in Idempotent /\ Moves(c) /\ (\A d \in Calls : job[d] = job[c])
             => UNCHANGED <<rec, tag>>]_vars
  BY <1>3
<1> QED
  BY <1>1, <1>2, <1>4, PTL DEF Spec, RepeatChangesNothing
=============================================================================
