-------------------------------- MODULE Tools --------------------------------
(***************************************************************************)
(* The tools there are, what each tells a client of itself, and which of   *)
(* them a session gets (tools/all_tools.go, cli/flags.go, and go-kt's      *)
(* registry, src/vendor/github.com/katbyte/go-kt/mcp/registry).            *)
(***************************************************************************)

(* The sets a session asks for by name: every tool is in one of them. *)
Core ==
  {"server_info", "indexer_list", "indexer_get", "app_list", "release_search",
   "history_list"}

Audits ==
  {"audit_all", "audit_failing", "audit_unreliable", "audit_slow", "audit_unused",
   "audit_unsynced", "audit_apps", "audit_duplicates", "audit_seeding", "audit_limits",
   "audit_vip", "audit_definitions", "audit_proxies", "audit_download_clients",
   "audit_tags", "audit_health", "audit_profiles", "audit_notifications",
   "audit_backups"}

Curation ==
  Audits \cup
  {"indexer_test", "indexer_edit", "indexer_bulk_edit", "indexer_stats", "app_get",
   "app_test", "app_edit", "app_sync", "profile_list", "profile_edit", "proxy_list",
   "proxy_test", "proxy_edit", "tag_list", "tag_edit", "tag_delete", "server_health"}

Setup ==
  {"indexer_catalog", "indexer_add", "app_add", "profile_create", "proxy_add",
   "downloadclient_add", "notification_add", "tag_create", "category_list"}

Grabbing ==
  {"release_grab", "downloadclient_list", "downloadclient_test", "downloadclient_edit"}

Admin ==
  {"task_list", "task_run", "command_list", "command_cancel", "server_logs",
   "server_log", "server_updates", "server_settings", "server_settings_edit",
   "server_restart", "backup_list", "backup_create", "backup_restore", "backup_delete",
   "notification_list", "notification_test", "notification_edit",
   "notification_delete", "filter_list", "filter_create", "filter_edit",
   "filter_delete", "indexer_delete", "app_delete", "profile_delete", "proxy_delete",
   "downloadclient_delete"}

Toolsets ==
  [core |-> Core, curation |-> Curation, setup |-> Setup, grab |-> Grabbing,
   admin |-> Admin]

AllTools == Core \cup Curation \cup Setup \cup Grabbing \cup Admin

-----------------------------------------------------------------------------
(* The kind each is added as. *)
DeleteTools ==
  {"indexer_delete", "app_delete", "profile_delete", "proxy_delete",
   "downloadclient_delete", "notification_delete", "filter_delete", "backup_delete"}

EditTools ==
  {"indexer_edit", "app_edit", "profile_edit", "proxy_edit", "downloadclient_edit",
   "notification_edit", "filter_edit", "server_settings_edit"}

(* Bug: an edit of many is taken for an add, since it can add tags. *)
AdditiveBulk ==
  {"indexer_add", "app_add", "profile_create", "proxy_add", "downloadclient_add",
   "tag_create", "release_grab", "backup_create", "notification_add", "filter_create",
   "indexer_bulk_edit"}

(* The hints of toolHints: a call only adds; *)
Additive ==
  {"indexer_add", "app_add", "profile_create", "proxy_add", "downloadclient_add",
   "tag_create", "release_grab", "backup_create", "notification_add", "filter_create"}

(* Bug: an add is taken for an edit, which can be made again. *)
IdempotentAdds ==
  EditTools \cup {"indexer_add", "indexer_bulk_edit", "tag_create"}

(* made again with the same arguments, it changes nothing more; *)
Idempotent ==
  EditTools \cup {"indexer_bulk_edit", "app_sync", "tag_create", "tag_edit",
                  "tag_delete", "command_cancel"}

(* and it reaches past Prowlarr and what that manages. *)
SendsOut == {"notification_test"}

WriteTools ==
  Additive \cup Idempotent \cup {"task_run", "backup_restore", "server_restart"}

ReadTools == AllTools \ (WriteTools \cup DeleteTools)

-----------------------------------------------------------------------------
(* What a session asks for: sets by name, or a family (the tools of one    *)
(* prefix); and tools to allow and to deny by patterns, each standing for  *)
(* the tools it matches.                                                   *)
Selection(readOnly, enableDelete, sets, allow, deny) ==
  [readOnly |-> readOnly, enableDelete |-> enableDelete, sets |-> sets,
   allow |-> allow, deny |-> deny]

(* A set's tools, or, when no set is called that, a family's. *)
NamedSet(name, families) ==
  IF name = "all" THEN AllTools
  ELSE IF name \in DOMAIN Toolsets THEN Toolsets[name] ELSE families[name]

(* Core is among the sets whenever any is asked for. *)
InSets(sets, families) ==
  IF sets = {} THEN {} ELSE Core \cup UNION {NamedSet(n, families) : n \in sets}

(* Bug: the tools allowed by name pass the gates of their kinds. *)
SelectedPastGates(sel, families) ==
  {t \in AllTools :
     /\ t \in DeleteTools => sel.enableDelete \/ t \in UNION sel.allow
     /\ t \notin ReadTools => ~sel.readOnly \/ t \in UNION sel.allow
     /\ \/ sel.sets = {} /\ sel.allow = {}
        \/ t \in InSets(sel.sets, families) \cup UNION sel.allow
     /\ t \notin UNION sel.deny}

(* The gates of the kinds, what was asked for, and what was denied. *)
Selected(sel, families) ==
  {t \in AllTools :
     /\ t \in DeleteTools => sel.enableDelete
     /\ t \notin ReadTools => ~sel.readOnly
     /\ \/ sel.sets = {} /\ sel.allow = {}
        \/ t \in InSets(sel.sets, families) \cup UNION sel.allow
     /\ t \notin UNION sel.deny}

(* The program serves core when it is told neither sets nor tools. *)
ToolOptions(sel) ==
  IF sel.sets = {} /\ sel.allow = {} THEN [sel EXCEPT !.sets = {"core"}] ELSE sel
=============================================================================
