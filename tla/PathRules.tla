----------------------------- MODULE PathRules ------------------------------
(***************************************************************************)
(* What the path of every tool keeps to (Paths), whatever its call is      *)
(* asked: the order of its steps, and what each needs done before it and   *)
(* not undone since.  A rule is about a path alone: PathsProofs shows that *)
(* every path keeps to these, and Edits and Session rely on them.          *)
(***************************************************************************)
EXTENDS Naturals, Paths, Tools

(* What a step may be: its role.  The silent only ask. *)
Silent == {"ask", "test", "do"}
Roles ==
  Silent \cup {"find", "lock", "unlock", "read", "save", "look", "make", "untag",
               "bulk", "unbulk", "create", "create off", "update", "delete",
               "make one", "rename", "list", "detail", "names", "drop",
               "restore", "restart"}

(* A job as the program takes it: a tool there is; an edit is of a record; *)
(* a tag that is made or renamed is given a label; no tags are given to    *)
(* what has none; and a section of the settings is named.                  *)
Formed(j) ==
  /\ j.tool \in AllTools
  /\ j.tool \in EditTools => \E r \in j.on : j.on = {r}
  /\ j.tool \in {"tag_create", "tag_edit"} => j.adds # {}
  /\ j.tool \in {"profile_edit", "downloadclient_edit", "filter_edit",
                 "server_settings_edit"} => j.adds = {} /\ j.removes = {}
  /\ j.tool = "server_settings_edit" =>
       \E s \in {"host", "ui", "development"} : Asked(j, s)

(* A label to make or give is named where a path comes to it. *)
Named(p, j) ==
  \A i \in DOMAIN p : p[i].do \in {"make one", "rename"} => j.adds # {}

(* A path is a sequence of steps of known roles. *)
Steps(p) == {p[i] : i \in DOMAIN p}
IsPath(p) == p \in Seq(Steps(p)) /\ \A i \in DOMAIN p : p[i].do \in Roles

-----------------------------------------------------------------------------
(* Before step i of a path there is one that opens something, and none     *)
(* since that closes it. *)
Since(p, i, opens, closes) ==
  \E k \in 1..(i - 1) :
    /\ p[k] \in opens
    /\ \A m \in (k + 1)..(i - 1) : p[m].do \notin closes

(* Every step of these roles has what it needs opened, by the path itself, *)
Kept(p, roles, opens, closes) ==
  \A i \in DOMAIN p : p[i].do \in roles => Since(p, i, opens, closes)

(* or by what is open when the path begins. *)
KeptOn(p, roles, opens, closes) ==
  \A i \in DOMAIN p : p[i].do \in roles =>
    \/ Since(p, i, opens, closes)
    \/ \A m \in 1..(i - 1) : p[m].do \notin closes

(* The rest of a path is sound, with what is open now. *)
Sound(now, p, roles, opens, closes) ==
  KeptOn(p, roles, opens, closes) /\ (now \/ Kept(p, roles, opens, closes))

(* Tags are written, and read to be written, while they are locked; *)
TagRoles ==
  {"look", "make", "make one", "rename", "detail", "names", "drop", "restart"}
TagLocks == {Lock({"tags"}), Lock({"record", "tags"}), LockAll}
Unlocking == {"unlock"}

(* what is made and saved goes by tags as they still are; *)
LabelRoles(j) ==
  {"make", "make one", "rename"} \cup (IF j.adds # {} THEN {"save"} ELSE {})
Looks == {Step("look", GetTag)}
Outdating == {"unlock", "make one", "rename", "drop", "restart"}

(* a record is saved once it is read, *)
WholeReads ==
  {Read(get) : get \in {GetIndexerById, GetApplicationsById, GetAppProfileById,
                        GetIndexerProxyById, GetDownloadClientById,
                        GetNotificationById, GetCustomFilterById, GetConfigHost,
                        GetConfigUi, GetConfigDevelopment}}

(* and no lock is let go in between; *)
MakesTags == {Lock({"tags"})}

(* and, but for the calls that write a record without its lock, whatever   *)
(* is half way is done in a turn.                                          *)
HalfRoles ==
  {"make", "make one", "rename", "untag", "detail", "names", "drop", "read",
   "unbulk", "update"}
AnyLocks == TagLocks \cup {Lock({"record"})}
Locking(j) == j.tool # "indexer_bulk_edit" /\ ~Asked(j, "force")

-----------------------------------------------------------------------------
(* The tools whose calls write a record with no lock on it. *)
UnlockedTools ==
  {"indexer_bulk_edit", "indexer_add", "app_add", "profile_create", "proxy_add",
   "downloadclient_add", "notification_add", "filter_create"}
Orderly(j) == j.tool \notin UnlockedTools

(* A path sends what is its tool's to send: it reads and saves a record to *)
(* edit it, and gives it tags where Prowlarr names what carries them,      *)
Serves(p, j) ==
  \A i \in DOMAIN p :
    /\ p[i].do \notin {"unlock", "bulk", "unbulk", "create", "create off", "update"}
    /\ p[i].do \in {"read", "save"} => j.tool \in EditTools
    /\ p[i].do = "save" /\ j.adds # {} => p[i].what.of \in Routed
    /\ p[i].do = "detail" => j.tool \notin EditTools
    /\ p[i].do = "delete" => j.tool \in DeleteTools
    /\ p[i].do = "restore" => j.tool = "backup_restore"
    /\ p[i].do = "restart" => j.tool = "server_restart"

(* and changes Prowlarr's records once. *)
Changes == {"save", "delete", "restore", "restart"}
Once(p) == \A i, k \in DOMAIN p : p[i].do \in Changes /\ p[k].do \in Changes => i = k

(* A record is read and saved while it is locked, *)
RecordLocks == {Lock({"record"}), Lock({"record", "tags"})}

(* and a record is saved with tags that have been made. *)
Makes == {Step("make", PostTag)}
TaggedRoles(j) == IF j.adds # {} THEN {"save"} ELSE {}
-----------------------------------------------------------------------------
(* What the steps of a path are. *)
Does(p) == {p[i].do : i \in DOMAIN p}

(* A record is changed once the tags to give it have been made, and those  *)
(* to take off it looked up, and a tag is deleted once it was read of.     *)
Puts == {"save", "bulk", "unbulk"}
Untags == {Step("untag", GetTag)}
Namings == {Step("names", GetNotification)}
Prepared(p, j) ==
  /\ j.adds # {} => Kept(p, Puts, Makes, {})
  /\ j.removes # {} => Kept(p, Puts, Untags, {})
  /\ Kept(p, {"drop"}, Namings, {"detail"})

(* The tools that make tags and neither rename nor delete one. *)
MakingTools == EditTools \cup {"indexer_bulk_edit", "tag_create"}

(* A tag added by a bulk edit that takes it off as well is on for a moment.*)
Apart(j) == j.tool = "indexer_bulk_edit" => j.adds \cap j.removes = {}
=============================================================================
