----------------------------- MODULE SessionProofs -----------------------------
(***************************************************************************)
(* Proofs about Session, for any tools to serve, records, orders of the    *)
(* list and limits: what the calls of a session can change follows from    *)
(* the steps their paths may have (PathsProofs).                           *)
(***************************************************************************)
EXTENDS TLAPS, Session, PathsProofs, FiniteSetTheorems, WellFoundedInduction

-----------------------------------------------------------------------------
(* A set that holds 0 and, with each number, the next, holds them all.     *)
LEMMA AllNumbers ==
  ASSUME NEW S, 0 \in S, \A n \in Nat : n \in S => n + 1 \in S
  PROVE  Nat \subseteq S
<1> DEFINE T == Nat \ S
           R == OpToRel(<, Nat)
<1> SUFFICES ASSUME T # {} PROVE FALSE
  OBVIOUS
<1>1. PICK n \in T : \A m \in T : <<m, n>> \notin R
  <2> HIDE DEF R
  <2>1. T \subseteq Nat
    OBVIOUS
  <2>2. IsWellFoundedOn(R, Nat)
    BY NatLessThanWellFounded DEF R
  <2> QED
    BY <2>1, <2>2, WFMin
<1>2. n \in Nat /\ n - 1 \in Nat /\ n - 1 < n /\ (n - 1) + 1 = n
  <2>1. n \in Nat /\ n # 0
    BY <1>1
  <2> HIDE DEF T, R
  <2> QED
    BY <2>1
<1>3. n - 1 \notin T
  BY <1>1, <1>2 DEF OpToRel
<1> QED
  BY <1>1, <1>2, <1>3

-----------------------------------------------------------------------------
(* What the tools' paths may hold, by what a tool says of itself. *)

(* A tool that says it only reads does. *)
LEMMA ReadPaths ==
  ASSUME NEW j, j.tool \in ReadTools
  PROVE  Mild(Path(j))
BY MildIndexers, MildApps, MildClients, MildKept, MildServer, MildAudits
   DEF ReadTools, AllTools, Core, Audits, Curation, Setup, Grabbing, Admin, WriteTools,
       Additive, Idempotent, EditTools, DeleteTools

(* What a tool that says it only adds may do. *)
AddRoles ==
  MildRoles \cup {"lock", "unlock", "look", "make", "make one", "create", "create off",
                  "update"}
Adding(p) == Only(p, AddRoles)

LEMMA AddingSteps ==
  /\ AddRoles \subseteq Roles
  /\ \A p : Mild(p) => Adding(p)
  /\ \A p, q : Adding(p) /\ Adding(q) => Adding(p \o q)
  /\ \A a : a.do \in AddRoles => Adding(<<a>>)
  /\ \A a, b : a.do \in AddRoles /\ b.do \in AddRoles => Adding(<<a, b>>)
<1>1. AddRoles \subseteq Roles /\ MildRoles \subseteq AddRoles
  BY DEF AddRoles, MildRoles, Silent, Roles
<1> QED
  BY <1>1, OnlyOne, OnlyTwo, OnlyJoined DEF Adding, Mild, Only

LEMMA AddingTags == Adding(MakeTags) /\ Adding(TagCreate)
<1> DEFINE a == Lock({"tags"})
           b == Step("look", GetTag)
           d == Step("make", PostTag)
           e == Step("make one", PostTag)
           S == {a, b, e}
<1>1. /\ {a.do, b.do, d.do, e.do, Unlock.do} \subseteq AddRoles
      /\ AddRoles \subseteq Roles
  BY AddingSteps DEF Lock, Step, Unlock, AddRoles
<1>2. Adding(TagCreate)
  <2>1. TagCreate = <<a, b, e>>
    BY DEF TagCreate
  <2> HIDE DEF a, b, e
  <2>2. <<a, b, e>> \in Seq(S) /\ \A s \in S : s.do \in AddRoles
    BY <1>1, Triple
  <2> HIDE DEF S
  <2>3. Only(<<a, b, e>>, AddRoles)
    BY <1>1, <2>2, OnlySteps
  <2> QED
    BY <2>1, <2>3 DEF Adding
<1>3. Adding(MakeTags)
  <2>1. MakeTags = (<<a>> \o <<b, d>>) \o <<Unlock>>
    BY DEF MakeTags, ResolveTags
  <2> HIDE DEF a, b, d
  <2> QED
    BY <1>1, <2>1, AddingSteps
<1> QED
  BY <1>2, <1>3

LEMMA AddPaths ==
  ASSUME NEW j, j.tool \in Additive
  PROVE  Adding(Path(j))
<1>1. \A force, create, update : Adding(ForcedAdd(force, create, update))
  <2>1. \A r : /\ Step("create", r).do \in AddRoles
               /\ Step("create off", r).do \in AddRoles
               /\ Step("update", r).do \in AddRoles
    BY DEF Step, AddRoles
  <2> QED
    BY <2>1, AddingSteps DEF ForcedAdd
<1>2. /\ Adding(Lookups) /\ Adding(AppNames)
      /\ \A r : Adding(<<Ask(r)>>)
      /\ \A r, q : Adding(<<Ask(r), Ask(q)>>)
  BY MildParts, MildSteps, MildNames, AddingSteps
<1>3. \A schema, create, update : Adding(AddPath(schema, j, create, update))
  BY <1>1, <1>2, AddingTags, AddingSteps DEF AddPath
<1>4. /\ Adding(AppAdd(j)) /\ Adding(ProxyAdd(j))
      /\ Adding(DownloadClientAdd(j)) /\ Adding(NotificationAdd(j))
  BY <1>2, <1>3, AddingSteps DEF AppAdd, ProxyAdd, DownloadClientAdd, NotificationAdd
<1>5. Adding(IndexerAdd(j))
  BY <1>1, <1>2, AddingTags, AddingSteps DEF IndexerAdd
<1>6. Adding(ProfileCreate) /\ Adding(FilterCreate)
  <2>1. \A r : Step("create", r).do \in AddRoles
    BY DEF Step, AddRoles
  <2> QED
    BY <2>1, AddingSteps DEF ProfileCreate, FilterCreate
<1>7. /\ j.tool = "indexer_add" => Path(j) = IndexerAdd(j)
      /\ j.tool = "app_add" => Path(j) = AppAdd(j)
      /\ j.tool = "proxy_add" => Path(j) = ProxyAdd(j)
      /\ j.tool = "downloadclient_add" => Path(j) = DownloadClientAdd(j)
      /\ j.tool = "notification_add" => Path(j) = NotificationAdd(j)
  BY DEF Path
<1>8. /\ j.tool = "profile_create" => Path(j) = ProfileCreate
      /\ j.tool = "filter_create" => Path(j) = FilterCreate
      /\ j.tool = "tag_create" => Path(j) = TagCreate
  BY DEF Path
<1>9. j.tool \in {"release_grab", "backup_create"} => Adding(Path(j))
  BY MildIndexers, MildKept, AddingSteps
<1> QED
  BY <1>4, <1>5, <1>6, <1>7, <1>8, <1>9, AddingTags DEF Additive

(* indexer_bulk_edit makes tags and changes the indexers it names. *)
BulkRoles == AddRoles \cup {"bulk", "unbulk", "untag"}

LEMMA BulkPath ==
  ASSUME NEW j, j.tool = "indexer_bulk_edit"
  PROVE  Only(Path(j), BulkRoles)
<1>1. BulkRoles \subseteq Roles /\ AddRoles \subseteq BulkRoles
  BY DEF BulkRoles, AddRoles, MildRoles, Silent, Roles
<1>2. \A p : Adding(p) => Only(p, BulkRoles)
  BY <1>1 DEF Adding, Only
<1>3. /\ Only(<<Find(GetIndexer)>>, BulkRoles) /\ Only(Lookups, BulkRoles)
      /\ Only(<<Ask(GetAppProfile)>>, BulkRoles) /\ Only(MakeTags, BulkRoles)
  BY <1>2, MildParts, MildSteps, MildNames, AddingSteps, AddingTags
<1>4. /\ Only(FindRemoved, BulkRoles)
      /\ Only(<<Step("bulk", PutIndexerBulk)>>, BulkRoles)
      /\ Only(<<Step("unbulk", PutIndexerBulk)>>, BulkRoles)
  <2>1. /\ Step("untag", GetTag).do \in BulkRoles
        /\ Step("bulk", PutIndexerBulk).do \in BulkRoles
        /\ Step("unbulk", PutIndexerBulk).do \in BulkRoles
    BY DEF Step, BulkRoles
  <2> QED
    BY <1>1, <2>1, OnlyOne DEF FindRemoved
<1>5. Only(IndexerBulkEdit(j), BulkRoles)
  BY <1>1, <1>3, <1>4, OnlyJoined, OnlyWhen DEF IndexerBulkEdit
<1> QED
  BY <1>5 DEF Path

(* Only a tool that deletes does, and only when that was confirmed. *)
LEMMA ConfirmedDeletes ==
  ASSUME NEW j, Formed(j), NEW i \in DOMAIN Path(j), Path(j)[i].do = "delete"
  PROVE  j.tool \in DeleteTools /\ Asked(j, "confirm")
<1>1. j.tool \notin UnlockedTools
  <2>1. "delete" \notin BulkRoles /\ "delete" \notin AddRoles
    BY DEF BulkRoles, AddRoles, MildRoles, Silent
  <2>2. j.tool \in UnlockedTools => j.tool = "indexer_bulk_edit" \/ j.tool \in Additive
    BY DEF UnlockedTools, Additive
  <2> QED
    BY <2>1, <2>2, BulkPath, AddPaths DEF Adding, Only
<1>2. j.tool \in DeleteTools
  <2>1. Serves(Path(j), j)
    BY <1>1, PathCourse DEF Orderly, Course, Fit
  <2> QED
    BY <2>1 DEF Serves
<1>3. ASSUME ~Asked(j, "confirm") PROVE FALSE
  <2>1. CASE j.tool = "backup_delete"
    <3>1. Mild(Path(j))
      BY <2>1, MildKept
    <3> QED
      BY <3>1 DEF Mild, Only, MildRoles, Silent
  <2>2. CASE j.tool # "backup_delete"
    <3>1. PICK p : DeletesAfter(j, p)
      BY <1>2, <2>2, DeletePaths DEF DeleteTools
    <3>2. Path(j) = p \o <<>> /\ Mild(p)
      BY <1>3, <3>1 DEF DeletesAfter, Deleting, When
    <3>3. Mild(Path(j))
      BY <3>2, MildParts, MildJoined
    <3> QED
      BY <3>3 DEF Mild, Only, MildRoles, Silent
  <2> QED
    BY <2>1, <2>2
<1> QED
  BY <1>2, <1>3

-----------------------------------------------------------------------------
(* What a call may leave. *)

(* The function that Outcomes goes along a path by is there. *)
Along(path, h, k, f) ==
  f = [n \in 0..k |-> IF n = 0 THEN {h} ELSE Onwards(path[n], f[n - 1])]

LEMMA AlongIsThere ==
  ASSUME NEW path, NEW h
  PROVE  \A k \in Nat : \E f : Along(path, h, k, f)
<1> DEFINE S == {k \in Nat : \E f : Along(path, h, k, f)}
<1>1. 0 \in S
  <2> DEFINE f == [n \in 0..0 |-> {h}]
  <2>1. Along(path, h, 0, f)
    BY DEF Along
  <2> QED
    BY <2>1
<1>2. ASSUME NEW k \in Nat, k \in S PROVE k + 1 \in S
  <2>1. PICK f : Along(path, h, k, f)
    BY <1>2
  <2> DEFINE g == [n \in 0..(k + 1) |->
                     IF n = k + 1 THEN Onwards(path[k + 1], f[k]) ELSE f[n]]
  <2>2. \A n \in 0..k : g[n] = f[n]
    OBVIOUS
  <2>3. ASSUME NEW n \in 0..(k + 1)
        PROVE  g[n] = IF n = 0 THEN {h} ELSE Onwards(path[n], g[n - 1])
    <3>1. CASE n = k + 1
      <4>1. n # 0 /\ n - 1 = k /\ k \in 0..k
        BY <3>1
      <4>2. g[n] = Onwards(path[k + 1], f[k]) /\ g[n - 1] = f[k]
        BY <2>2, <3>1, <4>1
      <4> HIDE DEF g
      <4> QED
        BY <3>1, <4>1, <4>2
    <3>2. CASE n # k + 1
      <4>1. n \in 0..k /\ (n # 0 => n - 1 \in 0..k)
        BY <3>2
      <4>2. g[n] = f[n] /\ (n # 0 => g[n - 1] = f[n - 1])
        BY <2>2, <4>1
      <4>3. f[n] = IF n = 0 THEN {h} ELSE Onwards(path[n], f[n - 1])
        BY <2>1, <4>1 DEF Along
      <4> HIDE DEF g
      <4> QED
        BY <4>2, <4>3
    <3> QED
      BY <3>1, <3>2
  <2>4. g = [n \in 0..(k + 1) |-> g[n]]
    OBVIOUS
  <2> HIDE DEF g
  <2>5. Along(path, h, k + 1, g)
    BY <2>3, <2>4 DEF Along
  <2> QED
    BY <2>5
<1> HIDE DEF S
<1>3. Nat \subseteq S
  BY <1>1, <1>2, AllNumbers
<1> QED
  BY <1>3 DEF S

(* What every step of a call leaves within a set, the call does. *)
LEMMA OutcomesWithin ==
  ASSUME NEW path, IsPath(path), NEW S, NEW h \in S,
         \A i \in DOMAIN path : path[i].do \in Changing =>
           \A g \in S : After(path[i], g) \subseteq S
  PROVE  Outcomes(path, h) \subseteq S
<1>1. Len(path) \in Nat /\ DOMAIN path = 1..Len(path)
  BY PathLength
<1> DEFINE f == CHOOSE u : Along(path, h, Len(path), u)
<1>2. Along(path, h, Len(path), f)
  BY <1>1, AlongIsThere
<1>3. Outcomes(path, h) = f[Len(path)]
  BY DEF Outcomes, Along
<1> HIDE DEF f
<1> DEFINE T == {n \in Nat : n <= Len(path) => f[n] \subseteq S}
<1>4. 0 \in T
  BY <1>1, <1>2 DEF Along
<1>5. ASSUME NEW n \in Nat, n \in T, n + 1 <= Len(path) PROVE f[n + 1] \subseteq S
  <2>1. n + 1 \in 0..Len(path) /\ n + 1 # 0 /\ (n + 1) - 1 = n /\ n <= Len(path)
    BY <1>1, <1>5
  <2>2. f[n + 1] = Onwards(path[n + 1], f[n])
    BY <1>2, <2>1 DEF Along
  <2>3. f[n] \subseteq S /\ n + 1 \in DOMAIN path
    BY <1>1, <1>5, <2>1
  <2> QED
    BY <2>2, <2>3 DEF Onwards
<1>6. Nat \subseteq T
  <2>1. \A n \in Nat : n \in T => n + 1 \in T
    BY <1>1, <1>5
  <2> HIDE DEF T
  <2> QED
    BY <1>4, <2>1, AllNumbers
<1> QED
  BY <1>1, <1>3, <1>6

-----------------------------------------------------------------------------
(* The paths that a session's calls take. *)

LEMMA AskedFor ==
  ASSUME NEW tool \in AllTools, NEW with \in Arguments
  PROVE  /\ PathOf[tool][with] = Path(Asking(tool, with))
         /\ IsPath(PathOf[tool][with])
         /\ Formed(Asking(tool, with))
         /\ Asking(tool, with).tool = tool
         /\ Asked(Asking(tool, with), "confirm") => "confirm" \in with
<1> DEFINE j == Asking(tool, with)
<1>1. /\ j.tool = tool
      /\ j.on = {"a record"}
      /\ j.adds = (IF tool \in Untagged THEN {} ELSE {"a tag"})
      /\ j.removes = (IF tool \in Untagged THEN {} ELSE {"a tag"})
      /\ j.with = with \cup {"host"}
  BY DEF Asking
<1> HIDE DEF j
<1>2. Formed(j)
  <2>1. tool \in {"tag_create", "tag_edit"} => tool \notin Untagged
    BY DEF Untagged
  <2>2. Asked(j, "host")
    BY <1>1 DEF Asked
  <2> QED
    BY <1>1, <2>1, <2>2 DEF Formed, Untagged
<1>3. PathOf[tool][with] = Path(j)
  BY DEF PathOf, j
<1>4. IsPath(Path(j))
  BY <1>2, PathProper DEF Proper
<1> QED
  BY <1>1, <1>2, <1>3, <1>4 DEF Asked, j

(* What a session has, by what it was started with. *)
LEMMA ServedTools ==
  ASSUME sel \in Selections
  PROVE  /\ Served \subseteq AllTools
         /\ sel.readOnly => Served \subseteq ReadTools
         /\ \A tool \in Served : tool \in DeleteTools => sel.enableDelete
<1> DEFINE o == ToolOptions(sel)
<1>1. o.readOnly = sel.readOnly /\ o.enableDelete = sel.enableDelete
  BY SelectionsAssumption DEF ToolOptions, Selection
<1>2. Served = Selected(o, Families)
  BY DEF Served, ServedBy
<1> HIDE DEF o
<1> QED
  BY <1>1, <1>2 DEF Selected

-----------------------------------------------------------------------------
(* What one step leaves: a record more or another, or one less. *)
Taking == {"delete", "drop"}

LEMMA HeldForms ==
  ASSUME NEW h \in Holdings, NEW x \in Things, h[x] # Gone
  PROVE  h[x] \in Forms[x]
BY DEF Holdings

LEMMA PutLeaves ==
  ASSUME NEW h \in Holdings, NEW x \in Things, NEW g \in Put(h, x)
  PROVE  /\ g \in Holdings
         /\ g[x] \in Forms[x] /\ g[x] # Gone /\ Fits(g[x], h)
         /\ \A y \in Things \ {x} : g[y] = h[y]
         /\ h[x] # Gone => g[x].of = h[x].of
<1>1. PICK f \in Forms[x] : Fits(f, h) /\ g = [h EXCEPT ![x] = f]
  BY DEF Put
<1>2. DOMAIN h = Things /\ g[x] = f /\ \A y \in Things \ {x} : g[y] = h[y]
  BY <1>1 DEF Holdings
<1>3. g \in Holdings
  BY <1>1, <1>2 DEF Holdings
<1>4. h[x] # Gone => f.of = h[x].of
  BY <1>1, HeldForms, FormsAssumption
<1> QED
  BY <1>1, <1>2, <1>3, <1>4, FormsAssumption

LEMMA WithoutLeaves ==
  ASSUME NEW h \in Holdings, NEW x \in Things
  PROVE  /\ Without(h, x) \in Holdings
         /\ Without(h, x)[x] = Gone
         /\ \A y \in Things \ {x} : Without(h, x)[y] = h[y]
<1> DEFINE g == Without(h, x)
<1>1. DOMAIN h = Things /\ g[x] = Gone /\ \A y \in Things \ {x} : g[y] = h[y]
  BY DEF Holdings, Without
<1>2. g \in Holdings
  BY <1>1 DEF Holdings, Without
<1> QED
  BY <1>1, <1>2

LEMMA StepLeaves ==
  ASSUME NEW step, step.do \in Changing, NEW h \in Holdings, NEW g \in After(step, h)
  PROVE  \/ g = h
         \/ \E x \in Things : /\ step.do \notin Taking /\ g \in Put(h, x)
                              /\ step.do \in AddRoles => h[x] = Gone
         \/ /\ step.do = "delete"
            /\ \E x \in Things : h[x] # Gone /\ MayGo(x, h) /\ g = Without(h, x)
         \/ /\ step.do = "drop"
            /\ \E x \in Things : h[x] # Gone /\ h[x].of = "tag" /\ g = Without(h, x)
<1>1. CASE step.do \in {"create", "create off", "make", "make one"}
  <2>1. \E x \in Things : h[x] = Gone /\ g \in Put(h, x)
    BY <1>1 DEF After, Missing
  <2> QED
    BY <1>1, <2>1 DEF Taking
<1>2. CASE step.do \in {"save", "bulk", "unbulk", "rename"}
  <2>1. \E x \in Things : g \in Put(h, x)
    BY <1>2 DEF After, Are
  <2> QED
    BY <1>2, <2>1 DEF Taking, AddRoles, MildRoles, Silent
<1>3. CASE step.do = "delete"
  BY <1>3 DEF After, Are
<1>4. CASE step.do = "drop"
  BY <1>4 DEF After, Are
<1>5. CASE step.do = "restore"
  BY <1>5 DEF After
<1> QED
  BY <1>1, <1>2, <1>3, <1>4, <1>5 DEF Changing

(* A profile an indexer has stays: one that is used is not deleted. *)
LEMMA StepProfiled ==
  ASSUME NEW step, step.do \in Changing,
         NEW h \in Holdings, Profiled(h), NEW g \in After(step, h)
  PROVE  g \in Holdings /\ Profiled(g)
<1>1. CASE g = h
  BY <1>1
<1>2. ASSUME NEW x \in Things, g \in Put(h, x) PROVE g \in Holdings /\ Profiled(g)
  <2>1. /\ g \in Holdings /\ g[x] # Gone /\ Fits(g[x], h)
        /\ \A y \in Things \ {x} : g[y] = h[y]
        /\ h[x] # Gone => g[x].of = h[x].of
    BY <1>2, PutLeaves
  <2>2. \A y \in Are("appprofile", h) : y \in Are("appprofile", g)
    BY <2>1 DEF Are
  <2>3. ASSUME NEW i \in Are("indexer", g) PROVE g[i].profile \in Are("appprofile", h)
    <3>1. CASE i = x
      BY <2>1, <2>3, <3>1 DEF Fits, Are
    <3>2. CASE i # x
      BY <2>1, <2>3, <3>2 DEF Profiled, Are
    <3> QED
      BY <3>1, <3>2
  <2> QED
    BY <2>1, <2>2, <2>3 DEF Profiled
<1>3. ASSUME NEW x \in Things, g = Without(h, x),
             \A i \in Are("indexer", h) : h[i].profile # x
      PROVE  g \in Holdings /\ Profiled(g)
  <2>1. /\ g \in Holdings /\ g[x] = Gone
        /\ \A y \in Things \ {x} : g[y] = h[y]
    BY <1>3, WithoutLeaves
  <2>2. Are("indexer", g) \subseteq Are("indexer", h)
    BY <2>1 DEF Are
  <2>3. ASSUME NEW i \in Are("indexer", g) PROVE g[i].profile \in Are("appprofile", g)
    <3>1. i \in Are("indexer", h) /\ g[i] = h[i]
      BY <2>1, <2>2 DEF Are
    <3>2. h[i].profile \in Are("appprofile", h) /\ h[i].profile # x
      BY <1>3, <3>1 DEF Profiled
    <3> QED
      BY <2>1, <3>1, <3>2 DEF Are
  <2> QED
    BY <2>1, <2>3 DEF Profiled
<1>4. ASSUME NEW x \in Things, h[x] # Gone, h[x].of # "appprofile" \/ MayGo(x, h)
      PROVE  \A i \in Are("indexer", h) : h[i].profile # x
  <2>1. CASE h[x].of # "appprofile"
    BY <2>1 DEF Profiled, Are
  <2>2. CASE h[x].of = "appprofile" /\ MayGo(x, h)
    BY <2>2 DEF MayGo
  <2> QED
    BY <1>4, <2>1, <2>2
<1> QED
  BY <1>1, <1>2, <1>3, <1>4, StepLeaves

(* A thing of no tag that is there stays, the same sort of thing, unless   *)
(* the step deletes.                                                       *)
LEMMA StepKeeps ==
  ASSUME NEW step, step.do \in Changing, step.do # "delete",
         NEW h \in Holdings, NEW g \in After(step, h),
         NEW x \in Things, h[x] # Gone, h[x].of # "tag"
  PROVE  g \in Holdings /\ g[x] # Gone /\ g[x].of # "tag"
<1>1. ASSUME NEW y \in Things, g \in Put(h, y)
      PROVE  g \in Holdings /\ g[x] # Gone /\ g[x].of # "tag"
  BY <1>1, PutLeaves
<1>2. ASSUME NEW y \in Things, h[y] # Gone, h[y].of = "tag", g = Without(h, y)
      PROVE  g \in Holdings /\ g[x] # Gone /\ g[x].of # "tag"
  BY <1>2, WithoutLeaves
<1> QED
  BY <1>1, <1>2, StepLeaves

(* A step of those that add leaves all there was as it was. *)
LEMMA StepAdds ==
  ASSUME NEW step, step.do \in Changing, step.do \in AddRoles,
         NEW h \in Holdings, NEW g \in After(step, h)
  PROVE  g \in Holdings /\ \A x \in Things : h[x] # Gone => g[x] = h[x]
<1>1. step.do \notin Taking
  BY DEF AddRoles, MildRoles, Silent, Taking
<1>2. ASSUME NEW y \in Things, g \in Put(h, y), h[y] = Gone
      PROVE  g \in Holdings /\ \A x \in Things : h[x] # Gone => g[x] = h[x]
  BY <1>2, PutLeaves
<1> QED
  BY <1>1, <1>2, StepLeaves DEF Taking

-----------------------------------------------------------------------------
(* What a call leaves is within what its steps leave, or it restarts       *)
(* Prowlarr with a backup restored.                                        *)
LEMMA CallWithin ==
  ASSUME sel \in Selections, NEW tool \in Served, NEW with \in Given[tool],
         Call(tool, with), NEW S, held \in S,
         \A i \in DOMAIN PathOf[tool][with] :
           PathOf[tool][with][i].do \in Changing =>
             \A g \in S : After(PathOf[tool][with][i], g) \subseteq S
  PROVE  held' \in S \/ (staged /\ Restarts(tool) /\ held' = Start)
<1>1. tool \in AllTools /\ with \in Arguments
  BY ServedTools DEF Given
<1>2. IsPath(PathOf[tool][with])
  BY <1>1, AskedFor
<1>3. Outcomes(PathOf[tool][with], held) \subseteq S
  BY <1>2, OutcomesWithin
<1> QED
  BY <1>3 DEF Call

-----------------------------------------------------------------------------
(* What a call never does. *)

LEMMA ReadOnlyStep ==
  ASSUME TypeOK, [Next]_vars, sel.readOnly
  PROVE  UNCHANGED held
<1>1. ASSUME NEW tool \in Served, NEW with \in Given[tool], Call(tool, with)
      PROVE  held' = held
  <2>1. tool \in AllTools /\ with \in Arguments /\ tool \in ReadTools
    BY ServedTools DEF TypeOK, Given
  <2>2. ~Restarts(tool)
    BY <2>1 DEF Restarts, ReadTools, WriteTools
  <2>3. Mild(PathOf[tool][with])
    BY <2>1, AskedFor, ReadPaths
  <2>4. \A i \in DOMAIN PathOf[tool][with] : PathOf[tool][with][i].do \notin Changing
    BY <2>3 DEF Mild, Only, MildRoles, Silent, Changing
  <2>5. held' \in {held}
    BY <1>1, <2>2, <2>4, CallWithin DEF TypeOK
  <2> QED
    BY <2>5
<1>2. CASE \E tool \in Served : \E with \in Given[tool] : Call(tool, with)
  BY <1>1, <1>2
<1>3. CASE ~\E tool \in Served : \E with \in Given[tool] : Call(tool, with)
  BY <1>3 DEF Next, Tell, StartWalk, NextPage, vars
<1> QED
  BY <1>2, <1>3

LEMMA TakingStep ==
  ASSUME TypeOK, [Next]_vars,
         NEW x \in Things, held[x] # Gone, held'[x] = Gone, held[x].of # "tag"
  PROVE  \/ sel.enableDelete /\ "confirm" \in did'.with
         \/ staged /\ Restarts(did'.tool)
<1>1. held' # held
  OBVIOUS
<1>2. PICK tool \in Served : \E with \in Given[tool] : Call(tool, with)
  BY <1>1 DEF Next, Tell, StartWalk, NextPage, vars
<1>3. PICK with \in Given[tool] : Call(tool, with)
  BY <1>2
<1>4. /\ tool \in AllTools /\ with \in Arguments /\ sel \in Selections
      /\ did'.tool = tool /\ did'.with = with
  BY <1>3, ServedTools DEF TypeOK, Given, Call
<1> DEFINE j == Asking(tool, with)
           p == PathOf[tool][with]
<1>5. /\ p = Path(j) /\ IsPath(p) /\ Formed(j) /\ j.tool = tool
      /\ Asked(j, "confirm") => "confirm" \in with
  BY <1>4, AskedFor
<1>6. CASE \E i \in DOMAIN p : p[i].do = "delete"
  <2> HIDE DEF j, p
  <2>1. PICK i \in DOMAIN Path(j) : Path(j)[i].do = "delete"
    BY <1>5, <1>6
  <2>2. j.tool \in DeleteTools /\ Asked(j, "confirm")
    BY <1>5, <2>1, ConfirmedDeletes
  <2> QED
    BY <1>4, <1>5, <2>2, ServedTools
<1>7. CASE \A i \in DOMAIN p : p[i].do # "delete"
  <2> DEFINE S == {h \in Holdings : h[x] # Gone /\ h[x].of # "tag"}
  <2>1. held \in S
    BY DEF TypeOK
  <2>2. ASSUME NEW i \in DOMAIN p, p[i].do \in Changing, NEW g \in S, NEW h \in After(p[i], g)
        PROVE  h \in S
    <3>1. p[i].do # "delete" /\ g \in Holdings /\ g[x] # Gone /\ g[x].of # "tag"
      BY <1>7, <2>2
    <3> HIDE DEF p
    <3>2. h \in Holdings /\ h[x] # Gone /\ h[x].of # "tag"
      BY <2>2, <3>1, StepKeeps
    <3> QED
      BY <3>2
  <2>3. \A i \in DOMAIN PathOf[tool][with] : PathOf[tool][with][i].do \in Changing =>
          \A g \in S : After(PathOf[tool][with][i], g) \subseteq S
    BY <2>2
  <2>4. held' \notin S
    OBVIOUS
  <2> HIDE DEF S
  <2>5. staged /\ Restarts(tool)
    BY <1>3, <1>4, <2>1, <2>3, <2>4, CallWithin
  <2> QED
    BY <1>4, <2>5
<1> QED
  BY <1>6, <1>7

LEMMA AddingStep ==
  ASSUME TypeOK, [Next]_vars, did'.tool \in Additive,
         NEW x \in Things, held[x] # Gone
  PROVE  held'[x] = held[x]
<1>1. CASE held' = held
  BY <1>1
<1>2. CASE held' # held
  <2>1. PICK tool \in Served : \E with \in Given[tool] : Call(tool, with)
    BY <1>2 DEF Next, Tell, StartWalk, NextPage, vars
  <2>2. PICK with \in Given[tool] : Call(tool, with)
    BY <2>1
  <2>3. /\ tool \in AllTools /\ with \in Arguments /\ sel \in Selections
        /\ tool \in Additive /\ ~Restarts(tool)
    BY <2>2, ServedTools DEF TypeOK, Given, Call, Additive, Restarts
  <2> DEFINE p == PathOf[tool][with]
             S == {h \in Holdings : h[x] = held[x]}
  <2>4. Adding(p)
    BY <2>3, AskedFor, AddPaths
  <2>5. held \in S
    BY DEF TypeOK
  <2>6. ASSUME NEW i \in DOMAIN p, p[i].do \in Changing, NEW g \in S, NEW h \in After(p[i], g)
        PROVE  h \in S
    <3>1. p[i].do \in AddRoles /\ g \in Holdings /\ g[x] # Gone /\ g[x] = held[x]
      BY <2>4, <2>6 DEF Adding, Only
    <3> HIDE DEF p
    <3>2. h \in Holdings /\ h[x] = g[x]
      BY <2>6, <3>1, StepAdds
    <3> QED
      BY <3>1, <3>2
  <2>7. \A i \in DOMAIN PathOf[tool][with] : PathOf[tool][with][i].do \in Changing =>
          \A g \in S : After(PathOf[tool][with][i], g) \subseteq S
    BY <2>6
  <2> HIDE DEF S
  <2>8. held' \in S
    BY <2>2, <2>3, <2>5, <2>7, CallWithin
  <2> QED
    BY <2>8 DEF S
<1> QED
  BY <1>1, <1>2

-----------------------------------------------------------------------------
(* A page of a list, whatever the list, the limit and the offset: the rows *)
(* from the offset on are in it, or after where the next one starts; and   *)
(* the next starts further on, or the list is over (tools/paging.go).      *)
THEOREM PageCovers ==
  ASSUME NEW S, NEW rows \in Seq(S), NEW asked \in Int, NEW from \in Nat
  PROVE  LET page == Paged(rows, asked, from)
         IN /\ page.rows \in Seq(S)
            /\ page.next \in 0..Len(rows)
            /\ page.next # 0 => from < page.next
            /\ \A k \in 1..Len(rows) : from < k =>
                 \/ \E i \in DOMAIN page.rows : page.rows[i] = rows[k]
                 \/ page.next # 0 /\ page.next < k
<1> DEFINE limit == PageLimit(asked)
           total == Len(rows)
           offset == AtMost(PageOffset(from), total)
           last == AtMost(offset + limit, total)
           part == SubSeq(rows, offset + 1, last)
           next == NextOffset(offset, Len(part), total)
<1>1. limit \in Nat /\ limit > 0
  BY LimitAssumption DEF PageLimit, LimitOr, AtMost
<1>2. total \in Nat
  BY LenProperties
<1>3. offset \in 0..total /\ (from < total <=> offset < total) /\ (offset < total => offset = from)
  BY <1>2 DEF AtMost, PageOffset
<1>4. last \in offset..total /\ (offset < total => offset < last)
  <2> HIDE DEF limit, total, offset
  <2> QED
    BY <1>1, <1>2, <1>3 DEF AtMost
<1>5. /\ part \in Seq(S) /\ Len(part) = last - offset
      /\ DOMAIN part = 1..(last - offset)
      /\ \A i \in 1..(last - offset) : part[i] = rows[offset + i]
  <2> HIDE DEF offset, last, total
  <2>1. offset + 1 \in Int /\ last \in Int /\ last - (offset + 1) + 1 = last - offset
    BY <1>2, <1>3, <1>4
  <2>2. \A k \in (offset + 1)..last : rows[k] \in S
    BY <1>2, <1>3, <1>4, ElementOfSeq DEF total
  <2>3. /\ part \in Seq(S)
        /\ Len(part) = IF offset + 1 <= last THEN last - (offset + 1) + 1 ELSE 0
        /\ \A i \in 1..(last - (offset + 1) + 1) : part[i] = rows[(offset + 1) + i - 1]
    BY <2>1, <2>2, SubSeqProperties
  <2>4. Len(part) = last - offset
    BY <1>2, <1>3, <1>4, <2>1, <2>3
  <2>5. DOMAIN part = 1..(last - offset)
    BY <2>3, <2>4, LenProperties
  <2>6. \A i \in 1..(last - offset) : (offset + 1) + i - 1 = offset + i
    BY <2>1, <1>2, <1>3
  <2> HIDE DEF part
  <2> QED
    BY <2>1, <2>3, <2>4, <2>5, <2>6
<1>6. Paged(rows, asked, from).rows = part /\ Paged(rows, asked, from).next = next
  BY DEF Paged
<1> HIDE DEF limit, total, offset, last, part
<1>7. next = IF last >= total \/ last = offset THEN 0 ELSE last
  BY <1>2, <1>3, <1>4, <1>5 DEF NextOffset
<1> HIDE DEF next
<1>8. ASSUME NEW k \in 1..total, from < k
      PROVE  (\E i \in DOMAIN part : part[i] = rows[k]) \/ (next # 0 /\ next < k)
  <2>1. offset = from /\ offset < total
    BY <1>2, <1>3, <1>8
  <2>2. CASE k <= last
    <3>1. k - offset \in 1..(last - offset) /\ offset + (k - offset) = k
      BY <1>3, <1>4, <1>8, <2>1, <2>2
    <3> QED
      BY <1>5, <3>1
  <2>3. CASE last < k
    BY <1>2, <1>3, <1>4, <1>7, <1>8, <2>1, <2>3
  <2> QED
    BY <1>3, <1>4, <2>2, <2>3
<1>9. next \in 0..total /\ (next # 0 => from < next)
  <2>1. offset \in Nat /\ last \in Nat /\ offset <= last /\ last <= total
    BY <1>2, <1>3, <1>4
  <2>2. CASE last >= total \/ last = offset
    BY <1>2, <1>7, <2>2
  <2>3. CASE last < total /\ last # offset
    <3>1. next = last
      BY <1>2, <1>7, <2>1, <2>3
    <3>2. offset < last /\ offset < total
      BY <1>2, <2>1, <2>3
    <3>3. offset = from
      BY <1>3, <3>2
    <3> QED
      BY <1>2, <2>1, <2>3, <3>1, <3>2, <3>3
  <2> QED
    BY <1>2, <2>1, <2>2, <2>3
<1>10. /\ part \in Seq(S)
       /\ next \in 0..Len(rows)
       /\ next # 0 => from < next
       /\ \A k \in 1..Len(rows) : from < k =>
            (\E i \in DOMAIN part : part[i] = rows[k]) \/ (next # 0 /\ next < k)
  BY <1>5, <1>8, <1>9 DEF total
<1> QED
  BY <1>6, <1>10

-----------------------------------------------------------------------------
(* The rows of the list: each filter there is has one. *)
Under(x) == {y \in Filters : ListedBefore(y, x)}

LEMMA FiltersAre ==
  ASSUME held \in Holdings
  PROVE  /\ Filters \subseteq Things /\ IsFiniteSet(Filters)
         /\ Cardinality(Filters) \in 0..Cardinality(Listable)
         /\ Cardinality(Listable) \in Nat
         /\ \A x \in Filters : held[x] \in Forms[x] /\ held[x].label \in Int
<1>1. Filters \subseteq Things /\ Listable \subseteq Things
  BY DEF Filters, Are, Listable
<1>2. IsFiniteSet(Listable) /\ Cardinality(Listable) \in Nat
  BY <1>1, FormsAssumption, FS_Subset, FS_CardinalityType
<1>3. \A x \in Filters : held[x] \in Forms[x] /\ held[x].label \in Int
  BY HeldForms, FormsAssumption DEF Filters, Are
<1>4. Filters \subseteq Listable
  BY <1>1, <1>3 DEF Filters, Are, Listable
<1>5. IsFiniteSet(Filters) /\ Cardinality(Filters) <= Cardinality(Listable)
  BY <1>2, <1>4, FS_Subset
<1>6. Cardinality(Filters) \in Nat
  BY <1>5, FS_CardinalityType
<1> QED
  BY <1>1, <1>2, <1>3, <1>5, <1>6

(* One filter is listed before another, or the other before it. *)
LEMMA ListedInOrder ==
  ASSUME held \in Holdings
  PROVE  \A x, y, z \in Filters :
           /\ ~ListedBefore(x, x)
           /\ x # y => ListedBefore(x, y) \/ ListedBefore(y, x)
           /\ ListedBefore(x, y) /\ ListedBefore(y, z) => ListedBefore(x, z)
BY FiltersAre, OrderAssumption DEF ListedBefore

LEMMA RankIs ==
  ASSUME held \in Holdings
  PROVE  /\ \A x \in Filters : Rank(x) \in 0..(Cardinality(Filters) - 1)
         /\ \A x, y \in Filters : Rank(x) = Rank(y) => x = y
<1>1. \A x : /\ Rank(x) = Cardinality(Under(x))
             /\ Under(x) \subseteq Filters /\ IsFiniteSet(Under(x))
             /\ Rank(x) \in Nat
  <2>1. \A x : Rank(x) = Cardinality(Under(x)) /\ Under(x) \subseteq Filters
    BY DEF Rank, Under, Filters
  <2>2. \A x : IsFiniteSet(Under(x))
    BY <2>1, FiltersAre, FS_Subset
  <2> QED
    BY <2>1, <2>2, FS_CardinalityType
<1>2. ASSUME NEW x \in Filters, NEW y \in Filters, ListedBefore(x, y)
      PROVE  Rank(x) < Rank(y)
  <2>1. Under(x) \subseteq Under(y) /\ x \in Under(y) /\ x \notin Under(x)
    BY <1>2, ListedInOrder DEF Under
  <2>2. Cardinality(Under(x)) <= Cardinality(Under(y))
    BY <1>1, <2>1, FS_Subset
  <2>3. Cardinality(Under(x)) # Cardinality(Under(y))
    BY <1>1, <2>1, FS_Subset
  <2> QED
    BY <1>1, <2>2, <2>3
<1>3. ASSUME NEW x \in Filters PROVE Rank(x) \in 0..(Cardinality(Filters) - 1)
  <2>1. x \notin Under(x)
    BY <1>3, ListedInOrder DEF Under
  <2>2. Cardinality(Under(x)) <= Cardinality(Filters)
    BY <1>1, FiltersAre, FS_Subset
  <2>3. Cardinality(Under(x)) # Cardinality(Filters)
    BY <1>1, <1>3, <2>1, FiltersAre, FS_Subset
  <2> QED
    BY <1>1, <2>2, <2>3, FiltersAre
<1>4. ASSUME NEW x \in Filters, NEW y \in Filters, Rank(x) = Rank(y) PROVE x = y
  <2>1. CASE ListedBefore(x, y)
    BY <1>1, <1>2, <1>4, <2>1
  <2>2. CASE ListedBefore(y, x)
    BY <1>1, <1>2, <1>4, <2>2
  <2> QED
    BY <2>1, <2>2, ListedInOrder
<1> QED
  BY <1>3, <1>4

(* As many ranks as filters: every row of the list is a filter. *)
LEMMA RowsAre ==
  ASSUME held \in Holdings
  PROVE  /\ Rows \in Seq(Filters)
         /\ Len(Rows) = Cardinality(Filters)
         /\ \A x \in Filters : Rows[Rank(x) + 1] = x
<1> DEFINE N == Cardinality(Filters)
           T == 0..(N - 1)
           f == [x \in Filters |-> Rank(x)]
<1>1. N \in Nat /\ IsFiniteSet(Filters)
  BY FiltersAre
<1>2. IsFiniteSet(T) /\ Cardinality(T) = N
  BY <1>1, FS_Interval
<1>3. f \in Injection(Filters, T)
  BY RankIs DEF Injection, IsInjective
<1>4. f \in Surjection(Filters, T)
  BY <1>1, <1>2, <1>3, FS_Injection
<1>5. \A n \in 1..N : \E x \in Filters : Rank(x) = n - 1
  <2> SUFFICES ASSUME NEW n \in 1..N PROVE \E x \in Filters : Rank(x) = n - 1
    OBVIOUS
  <2>1. n - 1 \in T
    BY <1>1
  <2> QED
    BY <1>4, <2>1 DEF Surjection
<1>6. Rows = [n \in 1..N |-> CHOOSE x \in Filters : Rank(x) = n - 1]
  BY DEF Rows, Filters
<1> HIDE DEF N
<1>7. \A n \in 1..N : Rows[n] \in Filters /\ Rank(Rows[n]) = n - 1
  BY <1>5, <1>6
<1>8. Rows \in [1..N -> Filters]
  BY <1>6, <1>7
<1>9. Rows \in Seq(Filters) /\ Len(Rows) = N
  <2>1. \A S : Seq(S) = UNION {[1..k -> S] : k \in Nat}
    OBVIOUS
  <2>2. Rows \in Seq(Filters) /\ DOMAIN Rows = 1..N
    BY <1>1, <1>8, <2>1
  <2> QED
    BY <1>1, <2>2, LenProperties
<1>10. ASSUME NEW x \in Filters PROVE Rows[Rank(x) + 1] = x
  <2>1. Rank(x) + 1 \in 1..N /\ (Rank(x) + 1) - 1 = Rank(x)
    BY <1>1, RankIs DEF N
  <2>2. Rows[Rank(x) + 1] \in Filters /\ Rank(Rows[Rank(x) + 1]) = Rank(x)
    BY <1>7, <2>1
  <2> QED
    BY <2>2, RankIs
<1> QED
  BY <1>9, <1>10 DEF N

-----------------------------------------------------------------------------
(* The invariant is inductive. *)

LEMMA SessionInit == Init => IInv
<1> SUFFICES ASSUME Init PROVE IInv
  OBVIOUS
<1>1. Cardinality(Listable) \in Nat
  <2>1. Listable \subseteq Things
    BY DEF Listable
  <2> QED
    BY <2>1, FormsAssumption, FS_Subset, FS_CardinalityType
<1>2. TypeOK
  <2>1. walk \in [at : {"none", "page", "over"}, asked : Asks \cup {0},
                  offset : 0..Cardinality(Listable), got : SUBSET Things,
                  rows : SUBSET Things, calm : BOOLEAN]
    BY <1>1 DEF Init, NoWalk
  <2>2. calls \in 0..MaxCalls
    <3>1. MaxCalls \in Nat /\ calls = 0
      BY BoundAssumption DEF Init
    <3> QED
      BY <3>1
  <2>3. did.tool = ""
    BY DEF Init, NoCall
  <2> QED
    BY <2>1, <2>2, <2>3, StartAssumption DEF Init, TypeOK
<1> QED
  BY <1>2, StartAssumption DEF Init, IInv, WalkOn, WalkSeesAll, NoWalk

(* What a call leaves of the walk. *)
LEMMA CallWalk ==
  ASSUME TypeOK, NEW tool, NEW with, Call(tool, with)
  PROVE  /\ walk'.at = walk.at /\ walk'.asked = walk.asked
         /\ walk'.offset = walk.offset /\ walk'.got = walk.got
         /\ walk'.rows = walk.rows
         /\ walk'.calm \in BOOLEAN
         /\ walk'.calm => walk.calm
         /\ walk'.calm /\ walk.at = "page" => AsListed
         /\ walk' \in [at : {"none", "page", "over"}, asked : Asks \cup {0},
                       offset : 0..Cardinality(Listable), got : SUBSET Things,
                       rows : SUBSET Things, calm : BOOLEAN]
<1>1. walk' = [walk EXCEPT !.calm = @ /\ (walk.at = "page" => AsListed)]
  BY DEF Call
<1> QED
  BY <1>1 DEF TypeOK

(* Where none went or was renamed, the filters there were keep their order:*)
(* others may have come among them.                                        *)
LEMMA RanksGrow ==
  ASSUME held \in Holdings, held' \in Holdings, AsListed
  PROVE  /\ Filters \subseteq Filters'
         /\ \A x \in Filters : Rank(x) \in Nat /\ Rank(x)' \in Nat /\ Rank(x) <= Rank(x)'
<1>1. \A x \in Filters : /\ x \in Filters'
                         /\ held'[x].label = held[x].label
  <2> SUFFICES ASSUME NEW x \in Filters
               PROVE  x \in Filters' /\ held'[x].label = held[x].label
    OBVIOUS
  <2>1. /\ x \in Things /\ held[x] # Gone /\ held[x].of = "customfilter"
        /\ held'[x] # Gone /\ held'[x].label = held[x].label
    BY DEF AsListed, Filters, Are
  <2>2. held[x] \in Forms[x] /\ held'[x] \in Forms[x]
    BY <2>1, HeldForms
  <2>3. held'[x].of = "customfilter"
    BY <2>1, <2>2, FormsAssumption
  <2> QED
    BY <2>1, <2>3 DEF Filters, Are
<1>2. ASSUME NEW x \in Filters
      PROVE  Rank(x) \in Nat /\ Rank(x)' \in Nat /\ Rank(x) <= Rank(x)'
  <2>1. Under(x) \subseteq Under(x)'
    BY <1>1 DEF Under, ListedBefore
  <2>2. Under(x)' \subseteq Things /\ IsFiniteSet(Things)
    BY FormsAssumption DEF Under, Filters, Are
  <2>3. IsFiniteSet(Under(x)')
    BY <2>2, FS_Subset
  <2>4. IsFiniteSet(Under(x)) /\ Cardinality(Under(x)) <= Cardinality(Under(x)')
    BY <2>1, <2>3, FS_Subset
  <2>5. Rank(x) = Cardinality(Under(x)) /\ Rank(x)' = Cardinality(Under(x)')
    BY DEF Rank, Under, Filters
  <2> QED
    BY <2>3, <2>4, <2>5, FS_CardinalityType
<1> QED
  BY <1>1, <1>2

LEMMA CallInv ==
  ASSUME IInv, NEW tool \in Served, NEW with \in Given[tool], Call(tool, with)
  PROVE  IInv'
<1>1. TypeOK /\ tool \in AllTools /\ with \in Arguments /\ sel \in Selections
  BY ServedTools DEF IInv, TypeOK, Given
<1> DEFINE S == {h \in Holdings : Profiled(h)}
           p == PathOf[tool][with]
<1>2. held' \in Holdings /\ Profiled(held')
  <2>1. held \in S
    BY DEF IInv, TypeOK
  <2>2. ASSUME NEW i \in DOMAIN p, p[i].do \in Changing, NEW g \in S, NEW h \in After(p[i], g)
        PROVE  h \in S
    <3>1. g \in Holdings /\ Profiled(g)
      OBVIOUS
    <3> HIDE DEF p
    <3>2. h \in Holdings /\ Profiled(h)
      BY <2>2, <3>1, StepProfiled
    <3> QED
      BY <3>2
  <2>3. \A i \in DOMAIN PathOf[tool][with] : PathOf[tool][with][i].do \in Changing =>
          \A g \in S : After(PathOf[tool][with][i], g) \subseteq S
    BY <2>2
  <2>4. Start \in S
    BY StartAssumption
  <2> HIDE DEF S
  <2>5. held' \in S
    BY <1>1, <2>1, <2>3, <2>4, CallWithin
  <2> QED
    BY <2>5 DEF S
<1>3. TypeOK'
  <2>1. staged' \in BOOLEAN
    <3>1. staged' \in {staged, TRUE} \/ staged' \in {staged /\ ~(Restarts(tool) /\ held' = Start)}
      BY DEF Call
    <3> QED
      BY <1>1, <3>1 DEF TypeOK
  <2>2. calls' \in 0..MaxCalls
    <3>1. MaxCalls \in Nat /\ calls \in 0..MaxCalls
      BY <1>1, BoundAssumption DEF TypeOK
    <3>2. calls < MaxCalls /\ calls' = calls + 1
      BY DEF Call
    <3> QED
      BY <3>1, <3>2
  <2>3. sel' \in Selections /\ told' \in SUBSET Tellings /\ did'.tool \in AllTools \cup {""}
    BY <1>1 DEF Call, TypeOK
  <2>4. walk' \in [at : {"none", "page", "over"}, asked : Asks \cup {0},
                   offset : 0..Cardinality(Listable), got : SUBSET Things,
                   rows : SUBSET Things, calm : BOOLEAN]
    BY <1>1, CallWalk
  <2> QED
    BY <1>2, <2>1, <2>2, <2>3, <2>4 DEF TypeOK
<1>4. WalkOn'
  <2> SUFFICES ASSUME walk'.at = "page", walk'.calm
               PROVE  /\ walk'.rows \subseteq Filters'
                      /\ \A x \in walk'.rows : x \in walk'.got \/ walk'.offset <= Rank(x)'
    BY DEF WalkOn
  <2>1. /\ walk.at = "page" /\ walk.calm /\ AsListed
        /\ walk'.offset = walk.offset /\ walk'.got = walk.got /\ walk'.rows = walk.rows
    BY <1>1, CallWalk
  <2>2. /\ walk.rows \subseteq Filters
        /\ \A x \in walk.rows : x \in walk.got \/ walk.offset <= Rank(x)
    BY <2>1 DEF IInv, WalkOn
  <2>3. /\ Filters \subseteq Filters'
        /\ \A x \in Filters : Rank(x) \in Nat /\ Rank(x)' \in Nat /\ Rank(x) <= Rank(x)'
    BY <1>1, <1>2, <2>1, RanksGrow DEF TypeOK
  <2>4. walk.offset \in Nat
    <3>1. walk.offset \in 0..Cardinality(Listable)
      BY <1>1 DEF TypeOK
    <3> QED
      BY <3>1
  <2>5. ASSUME NEW x \in walk.rows PROVE x \in walk.got \/ walk.offset <= Rank(x)'
    <3>1. x \in Filters /\ (x \in walk.got \/ walk.offset <= Rank(x))
      BY <2>2
    <3>2. Rank(x) \in Nat /\ Rank(x)' \in Nat /\ Rank(x) <= Rank(x)'
      BY <2>3, <3>1
    <3> QED
      BY <2>4, <3>1, <3>2
  <2> QED
    BY <2>1, <2>2, <2>3, <2>5
<1>5. WalkSeesAll'
  BY <1>1, CallWalk DEF IInv, WalkSeesAll
<1>6. Profiled(held)'
  BY <1>2 DEF Profiled, Are
<1> QED
  BY <1>3, <1>4, <1>5, <1>6 DEF IInv

(* What happens without a call leaves the records as they are. *)
LEMMA StillHeld ==
  ASSUME held' = held
  PROVE  /\ Filters' = Filters /\ \A x : Rank(x)' = Rank(x)
         /\ Profiled(held) => Profiled(held)'
BY DEF Filters, Rank, ListedBefore, Are, Profiled

LEMMA TellInv ==
  ASSUME IInv, NEW t \in Tellings, Tell(t)
  PROVE  IInv'
<1>1. /\ held' = held /\ walk' = walk /\ sel' = sel /\ staged' = staged
      /\ told' = told \cup {t} /\ did' = NoCall
      /\ calls < MaxCalls /\ calls' = calls + 1
  BY DEF Tell
<1>2. calls' \in 0..MaxCalls
  <2>1. MaxCalls \in Nat /\ calls \in 0..MaxCalls
    BY BoundAssumption DEF IInv, TypeOK
  <2> QED
    BY <1>1, <2>1
<1>3. TypeOK'
  BY <1>1, <1>2 DEF IInv, TypeOK, NoCall
<1> QED
  BY <1>1, <1>3, StillHeld DEF IInv, WalkOn, WalkSeesAll

LEMMA StartWalkInv ==
  ASSUME IInv, NEW asked \in Asks, StartWalk(asked)
  PROVE  IInv'
<1>1. /\ walk' = [at |-> "page", asked |-> asked, offset |-> 0, got |-> {},
                  rows |-> Filters, calm |-> TRUE]
      /\ held' = held /\ UNCHANGED <<sel, told, staged, calls, did>>
  BY DEF StartWalk, Filters
<1>2. held \in Holdings
  BY DEF IInv, TypeOK
<1>3. walk' \in [at : {"none", "page", "over"}, asked : Asks \cup {0},
                 offset : 0..Cardinality(Listable), got : SUBSET Things,
                 rows : SUBSET Things, calm : BOOLEAN]
  <2>1. Cardinality(Listable) \in Nat /\ Filters \subseteq Things
    BY <1>2, FiltersAre
  <2>2. 0 \in 0..Cardinality(Listable)
    BY <2>1
  <2> QED
    BY <1>1, <2>1, <2>2
<1>4. TypeOK'
  BY <1>1, <1>3 DEF IInv, TypeOK
<1>5. \A x \in Filters : 0 <= Rank(x)
  BY <1>2, RankIs, FiltersAre
<1>6. /\ walk'.at = "page" /\ walk'.offset = 0 /\ walk'.rows = Filters
  BY <1>1
<1>7. WalkOn' /\ WalkSeesAll'
  BY <1>1, <1>5, <1>6, StillHeld DEF WalkOn, WalkSeesAll
<1> QED
  BY <1>1, <1>4, <1>7, StillHeld DEF IInv

LEMMA NextPageInv ==
  ASSUME IInv, NextPage
  PROVE  IInv'
<1> DEFINE page == Paged(Rows, walk.asked, walk.offset)
           N == Cardinality(Filters)
<1>1. /\ walk.at = "page"
      /\ walk' = [walk EXCEPT !.got = @ \cup {page.rows[i] : i \in DOMAIN page.rows},
                              !.offset = page.next,
                              !.at = IF page.next = 0 THEN "over" ELSE "page"]
      /\ held' = held /\ UNCHANGED <<sel, told, staged, calls, did>>
  BY DEF NextPage
<1>2. /\ held \in Holdings
      /\ walk \in [at : {"none", "page", "over"}, asked : Asks \cup {0},
                   offset : 0..Cardinality(Listable), got : SUBSET Things,
                   rows : SUBSET Things, calm : BOOLEAN]
  BY DEF IInv, TypeOK
<1>3. walk.asked \in Int /\ walk.offset \in Nat
  <2>1. walk.asked \in Asks \cup {0} /\ walk.offset \in 0..Cardinality(Listable)
    BY <1>2
  <2>2. walk.asked \in Int
    <3>1. Asks \subseteq Int
      BY BoundAssumption
    <3>2. \A n \in Asks \cup {0} : n \in Int
      BY <3>1
    <3> QED
      BY <2>1, <3>2
  <2>3. walk.offset \in Nat
    BY <2>1
  <2> QED
    BY <2>2, <2>3
<1>4. /\ Rows \in Seq(Filters) /\ Len(Rows) = N
      /\ \A x \in Filters : Rows[Rank(x) + 1] = x
      /\ Filters \subseteq Things /\ N \in 0..Cardinality(Listable)
      /\ Cardinality(Listable) \in Nat
      /\ \A x \in Filters : Rank(x) \in 0..(N - 1)
  BY <1>2, RowsAre, FiltersAre, RankIs
<1>5. /\ page.rows \in Seq(Filters)
      /\ page.next \in 0..N
      /\ \A k \in 1..N : walk.offset < k =>
           \/ \E i \in DOMAIN page.rows : page.rows[i] = Rows[k]
           \/ page.next # 0 /\ page.next < k
  BY <1>3, <1>4, PageCovers
<1> HIDE DEF page, N
<1> DEFINE seen == {page.rows[i] : i \in DOMAIN page.rows}
<1>6. seen \subseteq Filters
  <2>1. page.rows \in [1..Len(page.rows) -> Filters]
    BY <1>5, LenProperties
  <2> QED
    BY <2>1
<1>7. ASSUME NEW x \in Filters, walk.offset <= Rank(x)
      PROVE  x \in seen \/ (page.next # 0 /\ page.next <= Rank(x))
  <2>1. Rank(x) \in 0..(N - 1) /\ N \in Nat
    BY <1>4
  <2>2. Rank(x) + 1 \in 1..N /\ walk.offset < Rank(x) + 1
    BY <1>3, <1>7, <2>1
  <2>3. \/ \E i \in DOMAIN page.rows : page.rows[i] = x
        \/ page.next # 0 /\ page.next < Rank(x) + 1
    BY <1>4, <1>5, <2>2
  <2>4. page.next \in Nat
    BY <1>5, <2>1
  <2> QED
    BY <2>1, <2>3, <2>4
<1> HIDE DEF seen
<1>8. /\ walk'.got = walk.got \cup seen /\ walk'.offset = page.next
      /\ walk'.at = IF page.next = 0 THEN "over" ELSE "page"
      /\ walk'.rows = walk.rows /\ walk'.calm = walk.calm /\ walk'.asked = walk.asked
  BY <1>1, <1>2 DEF seen
<1>9. walk.calm =>
        /\ walk.rows \subseteq Filters
        /\ \A x \in walk.rows : x \in walk.got \/ walk.offset <= Rank(x)
  BY <1>1 DEF IInv, WalkOn
<1>10. walk.calm =>
         \A x \in walk.rows : \/ x \in walk'.got
                              \/ page.next # 0 /\ page.next <= Rank(x)
  BY <1>7, <1>8, <1>9
<1>11. WalkOn' /\ WalkSeesAll'
  BY <1>1, <1>8, <1>9, <1>10, StillHeld DEF WalkOn, WalkSeesAll
<1>12. TypeOK'
  <2>1. page.next \in 0..Cardinality(Listable) /\ seen \subseteq Things
    BY <1>4, <1>5, <1>6
  <2>2. walk' \in [at : {"none", "page", "over"}, asked : Asks \cup {0},
                   offset : 0..Cardinality(Listable), got : SUBSET Things,
                   rows : SUBSET Things, calm : BOOLEAN]
    BY <1>1, <1>2, <2>1 DEF seen
  <2> QED
    BY <1>1, <2>2 DEF IInv, TypeOK
<1> QED
  BY <1>1, <1>11, <1>12, StillHeld DEF IInv

LEMMA SessionNext == IInv /\ [Next]_vars => IInv'
<1> SUFFICES ASSUME IInv, [Next]_vars PROVE IInv'
  OBVIOUS
<1>1. ASSUME NEW tool \in Served, NEW with \in Given[tool], Call(tool, with)
      PROVE  IInv'
  BY <1>1, CallInv
<1>2. ASSUME NEW t \in Tellings, Tell(t) PROVE IInv'
  BY <1>2, TellInv
<1>3. ASSUME NEW asked \in Asks, StartWalk(asked) PROVE IInv'
  BY <1>3, StartWalkInv
<1>4. CASE NextPage
  BY <1>4, NextPageInv
<1>5. CASE UNCHANGED vars
  <2>1. /\ held' = held /\ walk' = walk
        /\ UNCHANGED <<sel, told, staged, calls, did>>
    BY <1>5 DEF vars
  <2>2. TypeOK'
    BY <2>1 DEF IInv, TypeOK
  <2> QED
    BY <2>1, <2>2, StillHeld DEF IInv, WalkOn, WalkSeesAll
<1> QED
  BY <1>1, <1>2, <1>3, <1>4, <1>5 DEF Next

-----------------------------------------------------------------------------
(* When no audit finds anything, the setup works, but for one without      *)
(* applications: by the audits' rules alone, and the profile that every    *)
(* indexer has (tools/audit*.go).                                          *)

LEMMA CleanAudits ==
  ASSUME Clean(held, told)
  PROVE  /\ Unsynced(held) = {} /\ Proxies(held) = {}
         /\ DownloadClients(held) = {} /\ Notifications(held) = {}
<1>1. {"audit_unsynced", "audit_proxies", "audit_download_clients",
       "audit_notifications"} \subseteq DOMAIN Fixes
  BY DEF Fixes
<1>2. /\ Found("audit_unsynced", held, told) = {}
      /\ Found("audit_proxies", held, told) = {}
      /\ Found("audit_download_clients", held, told) = {}
      /\ Found("audit_notifications", held, told) = {}
  BY <1>1 DEF Clean
<1> QED
  BY <1>2 DEF Found

LEMMA CleanWorks ==
  ASSUME IInv
  PROVE  CleanMeansWorking
<1> SUFFICES ASSUME Clean(held, told) PROVE CleanMeansWorking
  BY DEF CleanMeansWorking
<1>1. /\ Unsynced(held) = {} /\ Proxies(held) = {}
      /\ DownloadClients(held) = {} /\ Notifications(held) = {}
  BY CleanAudits
<1>2. ASSUME NEW i \in Enabled(held), ~Unconnected(held)
      PROVE  /\ \E a \in Are("applications", held) :
                  /\ held[a].on
                  /\ held[a].tags = {} \/ Share(held[a], held[i])
                  /\ Searches(held[a], held[i])
                  /\ held[a].cats \cap held[i].cats # {}
             /\ held[held[i].profile].uses
  <2> DEFINE lost == {k \in Enabled(held) : ReachedBy(k, held) = {}}
  <2>1. i \notin lost
    BY <1>1, <1>2 DEF Unsynced
  <2>2. PICK a \in Are("applications", held) : i \in Received(a, held)
    BY <2>1 DEF ReachedBy
  <2>3. Syncs(held[a], held[i]) = "synced"
    BY <2>2 DEF Received
  <2>4. /\ held[a].on
        /\ held[a].tags = {} \/ Share(held[a], held[i])
        /\ Searches(held[a], held[i])
        /\ held[a].cats \cap held[i].cats # {}
    BY <2>3 DEF Syncs
  <2>5. held[i].profile \notin Dead(held)
    BY <1>1, <1>2, <2>1 DEF Unsynced
  <2>6. held[i].profile \in Are("appprofile", held)
    BY DEF IInv, Profiled, Enabled
  <2> QED
    BY <2>4, <2>5, <2>6 DEF Dead
<1>3. ASSUME NEW i \in Enabled(held)
      PROVE  /\ held[i].cloudflare => Solved(i, held)
             /\ held[i].client # 0 =>
                  held[held[i].client] # Gone /\ held[held[i].client].on
  <2>1. held[i].cloudflare => Solved(i, held)
    BY <1>1 DEF Proxies
  <2>2. held[i].client # 0 =>
          /\ held[i].client \in Are("downloadclient", held)
          /\ held[held[i].client].on
    BY <1>1 DEF DownloadClients
  <2> QED
    BY <2>1, <2>2 DEF Are
<1>4. \E n \in Are("notification", held) :
        "health_issue" \in held[n].sent /\ held[n].warnings
  <2>1. Heard(held) # {}
    BY <1>1 DEF Notifications
  <2>2. \A n \in Heard(held) : held[n].warnings
    BY <1>1 DEF Notifications
  <2> QED
    BY <2>1, <2>2 DEF Heard
<1> QED
  BY <1>2, <1>3, <1>4 DEF CleanMeansWorking

-----------------------------------------------------------------------------
(* Whatever tools are served and called, and for how long: what is held    *)
(* stays what may be, every indexer has a profile that is there, and what  *)
(* a walk has still to see is ahead of it. *)
THEOREM Inductive == Spec => []IInv
<1>1. Init => IInv
  BY SessionInit
<1>2. IInv /\ [Next]_vars => IInv'
  BY SessionNext
<1> QED
  BY <1>1, <1>2, PTL DEF Spec

(* The variables keep to what they may be: the offset a walk goes on from  *)
(* is never past the end of the list (tools/paging.go, nextOffset). *)
THEOREM TypeCorrect == Spec => []TypeOK
<1>1. IInv => TypeOK
  BY DEF IInv
<1> QED
  BY <1>1, Inductive, PTL

(* When no audit finds anything, every enabled indexer gets past its site  *)
(* and sends to a client that is on, someone hears of warnings, and, if    *)
(* there is an application at all, every one is synced and used            *)
(* (tools/audit*.go; audit_routing.go leaves a setup without applications  *)
(* without a finding).                                                     *)
THEOREM CleanWorksAlways == Spec => []CleanMeansWorking
<1>1. IInv => CleanMeansWorking
  BY CleanWorks
<1> QED
  BY <1>1, Inductive, PTL

(* A walk that ends has seen every filter that was there when it began, by *)
(* pages of any limits, with filters added anywhere in the list while it   *)
(* went on (tools/filters.go, filter_list; tools/paging.go).               *)
THEOREM WalksSeeAll == Spec => []WalkSeesAll
<1>1. IInv => WalkSeesAll
  BY DEF IInv
<1> QED
  BY <1>1, Inductive, PTL

(* A read-only session changes nothing Prowlarr holds (cli/flags.go), with *)
(* whatever sets, families, allowed and denied tools it was started. *)
THEOREM ReadOnlyKeeps == Spec => ReadOnlyChangesNothing
<1>1. IInv /\ [Next]_vars => [sel.readOnly => UNCHANGED held]_vars
  BY ReadOnlyStep DEF IInv
<1> QED
  BY <1>1, Inductive, PTL DEF Spec, ReadOnlyChangesNothing

(* No record but a tag goes without the tools that delete and a confirmed  *)
(* call, or a restart with a backup restored (tools/all_tools.go). *)
THEOREM GoesOnlyAsked == Spec => NothingGoesUnasked
<1>1. IInv /\ [Next]_vars =>
        [\A x \in Things :
           held[x] # Gone /\ held'[x] = Gone /\ held[x].of # "tag" =>
             \/ sel.enableDelete /\ "confirm" \in did'.with
             \/ staged /\ Restarts(did'.tool)]_vars
  BY TakingStep DEF IInv
<1> QED
  BY <1>1, Inductive, PTL DEF Spec, NothingGoesUnasked

(* A call of a tool that says it only adds leaves what there was as it was *)
(* (tools/all_tools.go, toolHints), wherever its path ends. *)
THEOREM AddsOnlyAdd == Spec => AdditiveOnlyAdds
<1>1. IInv /\ [Next]_vars =>
        [did'.tool \in Additive =>
           \A x \in Things : held[x] # Gone => held'[x] = held[x]]_vars
  BY AddingStep DEF IInv
<1> QED
  BY <1>1, Inductive, PTL DEF Spec, AdditiveOnlyAdds
=============================================================================
