-------------------------------- MODULE Paths --------------------------------
(***************************************************************************)
(* What each tool's handler does, step by step: the requests it sends to   *)
(* Prowlarr in their order, the locks it takes between them, and where it  *)
(* stops, as far as its arguments decide it.  A handler ends early when a  *)
(* request fails, or when what it read tells it to; an argument that is    *)
(* refused counts as a failure of the request before it.  What the steps   *)
(* do is for the modules that take them (Edits).                           *)
(*                                                                         *)
(* A job is what a call is asked: a tool, the records it names, the tags   *)
(* to add (or to put in place of those there are, with "replace") and to   *)
(* remove, and the other arguments that change the path, by their names.   *)
(***************************************************************************)
EXTENDS Sequences, Routes

Step(do, what) == [do |-> do, what |-> what]

Ask(req)   == Step("ask", req)     \* names for the answer, a value to check
Find(req)  == Step("find", req)    \* the records named are among those read
Read(req)  == Step("read", req)    \* the whole record, to send back changed
Save(req)  == Step("save", req)
Test(req)  == Step("test", req)    \* Prowlarr tries it and changes nothing
Do(req)    == Step("do", req)      \* Prowlarr does what no record shows
Lock(keys) == Step("lock", keys)   \* until the handler returns, or unlocks
LockAll    == Step("lock", {"all"})
Unlock     == Step("unlock", {})

When(condition, path) == IF condition THEN path ELSE <<>>
Asked(j, argument) == argument \in j.with

-----------------------------------------------------------------------------
(* Tags (common.go, locks.go).  Where a list of tags is empty the tags are *)
(* read for it all the same, to no end: left out.                          *)

(* resolveTags: the tags are read, and those that are not there made. *)
ResolveTags == <<Step("look", GetTag), Step("make", PostTag)>>

(* makeTags: the same, with the tags held for the length of it alone. *)
MakeTags == <<Lock({"tags"})>> \o ResolveTags \o <<Unlock>>

(* The tags to remove are looked up, and have to be there. *)
FindRemoved == <<Step("untag", GetTag)>>

(* Bug: an edit lets its locks go once its tags are made, as makeTags does.*)
EditTagsLetsGo(j) ==
  When(j.adds # {}, ResolveTags \o <<Unlock>>) \o When(j.removes # {}, FindRemoved)

EditTags(j) == When(j.adds # {}, ResolveTags) \o When(j.removes # {}, FindRemoved)

(* Bug: an edit that makes tags locks its record alone. *)
EditingNoTags(j) == <<Lock({"record"})>>

(* editing: the record, and the tags beside it when the edit may make one. *)
Editing(j) == <<Lock(IF j.adds # {} THEN {"record", "tags"} ELSE {"record"})>>

EditingAlone == <<Lock({"record"})>>

(* Bug: an edit reads its record before it has the lock. *)
EditPathReadsFirst(list, lock, get, between, put) ==
  <<Find(list), Read(get)>> \o lock \o between \o <<Save(put)>>

(* Every edit: the record is found, locked, read, and sent back whole. *)
EditPath(list, lock, get, between, put) ==
  <<Find(list)>> \o lock \o <<Read(get)>> \o between \o <<Save(put)>>

(* forcedAdd: created as it is to be, or, forced, switched off, so that it *)
(* is not tested, and switched on by an update that sends it whole again.  *)
ForcedAdd(force, create, update) ==
  IF force THEN <<Step("create off", create), Step("update", update)>>
           ELSE <<Step("create", create)>>

AddPath(schema, j, create, update) ==
  <<Ask(schema)>> \o MakeTags \o ForcedAdd(Asked(j, "force"), create, update)

(* Bug: what was to be shown first goes at once. *)
DeletingAtOnce(j, remove) == <<Step("delete", remove)>>

(* deleting: without confirm the handler only says what would go. *)
Deleting(j, remove) == When(Asked(j, "confirm"), <<Step("delete", remove)>>)

TestPath(list, j, one, all) ==
  IF j.on = {} THEN <<Ask(list), Test(all)>> ELSE <<Find(list), Test(one)>>

(* runCommand: queued, and waited for unless the call does not wait. *)
RunCommand(j) ==
  <<Do(PostCommand)>> \o When(~Asked(j, "no wait"), <<Ask(GetCommandById)>>)

-----------------------------------------------------------------------------
(* Indexers (indexers.go, indexer_edits.go, catalog.go).                   *)

Lookups == <<Ask(GetTag), Ask(GetAppProfile), Ask(GetIndexerStatus)>>

IndexerList == <<Ask(GetIndexer)>> \o Lookups

IndexerGet(j) ==
  <<Find(GetIndexer)>> \o Lookups
  \o When(Asked(j, "pinned"), <<Ask(GetDownloadClientById)>>)
  \o <<Ask(GetIndexerProxy), Ask(GetApplications), Ask(GetIndexerStatus),
       Ask(GetIndexerStats), Ask(GetHistoryIndexer)>>

IndexerTest(j) == TestPath(GetIndexer, j, PostIndexerTest, PostIndexerTestAll)

IndexerEdit(j) ==
  EditPath(GetIndexer, Editing(j), GetIndexerById,
           EditTags(j) \o When(Asked(j, "profile"), <<Ask(GetAppProfile)>>)
                       \o When(Asked(j, "client"), <<Ask(GetDownloadClient)>>),
           PutIndexerById) \o Lookups

(* One request for the settings and the tags to add, or to remove when     *)
(* none are to be added, and one more when there are both; no record of    *)
(* theirs is locked.                                                       *)
IndexerBulkEdit(j) ==
  <<Find(GetIndexer)>> \o Lookups
  \o When(Asked(j, "profile"), <<Ask(GetAppProfile)>>)
  \o When(j.adds # {}, MakeTags) \o When(j.removes # {}, FindRemoved)
  \o <<Step("bulk", PutIndexerBulk)>>
  \o When(j.adds # {} /\ j.removes # {}, <<Step("unbulk", PutIndexerBulk)>>)
  \o Lookups

IndexerDelete(j, several) ==
  <<Find(GetIndexer), Ask(GetApplications), Ask(GetTag)>>
  \o Deleting(j, IF several THEN DeleteIndexerBulk ELSE DeleteIndexerById)

(* The catalogue may be at hand from before: see Catalog. *)
IndexerCatalog == <<Ask(GetIndexerSchema), Ask(GetIndexer)>>

IndexerAdd(j) ==
  <<Ask(GetIndexerSchema), Ask(GetAppProfile)>> \o MakeTags
  \o ForcedAdd(Asked(j, "force") /\ ~Asked(j, "disabled"), PostIndexer, PutIndexerById)
  \o Lookups

CategoryList == <<Ask(GetIndexerCategories)>>

-----------------------------------------------------------------------------
(* Applications (apps.go).                                                 *)

AppNames == <<Ask(GetIndexer), Ask(GetTag)>>

AppList == <<Ask(GetApplications)>> \o AppNames

AppGet == <<Find(GetApplications)>> \o AppNames \o <<Ask(GetIndexerStatus)>>

AppAdd(j) ==
  AddPath(GetApplicationsSchema, j, PostApplications, PutApplicationsById) \o AppNames

AppEdit(j) ==
  EditPath(GetApplications, Editing(j), GetApplicationsById, EditTags(j),
           PutApplicationsById) \o AppNames

AppTest(j) == TestPath(GetApplications, j, PostApplicationsTest, PostApplicationsTestAll)

AppSync(j) == RunCommand(j) \o <<Ask(GetApplications)>> \o AppNames

AppDelete(j) ==
  <<Find(GetApplications)>> \o AppNames \o Deleting(j, DeleteApplicationsById)

-----------------------------------------------------------------------------
(* Sync profiles, proxies and download clients (profiles.go, proxies.go,   *)
(* downloadclients.go).                                                    *)

ProfileList == <<Ask(GetAppProfile), Ask(GetIndexer)>>

ProfileCreate == <<Step("create", PostAppProfile)>>

ProfileEdit ==
  EditPath(GetAppProfile, EditingAlone, GetAppProfileById, <<>>, PutAppProfileById)
  \o <<Ask(GetIndexer)>>

(* Refused while an indexer is found to use it. *)
ProfileDelete(j) ==
  <<Find(GetAppProfile), Ask(GetIndexer)>> \o Deleting(j, DeleteAppProfileById)

ProxyList == <<Ask(GetIndexerProxy)>> \o AppNames

ProxyAdd(j) ==
  AddPath(GetIndexerProxySchema, j, PostIndexerProxy, PutIndexerProxyById) \o AppNames

ProxyEdit(j) ==
  EditPath(GetIndexerProxy, Editing(j), GetIndexerProxyById, EditTags(j),
           PutIndexerProxyById) \o AppNames

ProxyTest(j) ==
  TestPath(GetIndexerProxy, j, PostIndexerProxyTest, PostIndexerProxyTestAll)

ProxyDelete(j) ==
  <<Find(GetIndexerProxy)>> \o AppNames \o Deleting(j, DeleteIndexerProxyById)

(* The names are read again for each client there is to show. *)
DownloadClientList == <<Ask(GetDownloadClient)>> \o AppNames

DownloadClientAdd(j) ==
  AddPath(GetDownloadClientSchema, j, PostDownloadClient, PutDownloadClientById)
  \o AppNames

DownloadClientEdit ==
  EditPath(GetDownloadClient, EditingAlone, GetDownloadClientById, <<>>,
           PutDownloadClientById) \o AppNames

DownloadClientTest(j) ==
  TestPath(GetDownloadClient, j, PostDownloadClientTest, PostDownloadClientTestAll)

DownloadClientDelete(j) ==
  <<Find(GetDownloadClient)>> \o AppNames \o Deleting(j, DeleteDownloadClientById)

-----------------------------------------------------------------------------
(* Notifications and tags (notifications.go, tags.go).                     *)

NotificationList == <<Ask(GetNotification), Ask(GetTag)>>

NotificationAdd(j) ==
  AddPath(GetNotificationSchema, j, PostNotification, PutNotificationById)
  \o <<Ask(GetTag)>>

NotificationEdit(j) ==
  EditPath(GetNotification, Editing(j), GetNotificationById, EditTags(j),
           PutNotificationById) \o <<Ask(GetTag)>>

(* A test of them all that cannot be sent is made again one by one. *)
NotificationTest(j) ==
  TestPath(GetNotification, j, PostNotificationTest, PostNotificationTestAll)
  \o When(Asked(j, "each"), <<Test(PostNotificationTest)>>)

NotificationDelete(j) ==
  <<Find(GetNotification)>> \o Deleting(j, DeleteNotificationById)

(* tagDetails: who carries each tag, as far as their names are known. *)
TagDetails ==
  <<Ask(GetIndexer), Ask(GetApplications), Ask(GetIndexerProxy),
    Ask(GetTagDetail), Ask(GetNotification)>>

TagList == TagDetails

TagCreate == <<Lock({"tags"}), Step("look", GetTag), Step("make one", PostTag)>>

TagEdit ==
  <<Lock({"tags"}), Step("look", GetTag), Step("rename", PutTagById)>> \o TagDetails

TagDelete ==
  <<Lock({"tags"}), Step("list", GetIndexer), Step("list", GetApplications),
    Step("list", GetIndexerProxy), Step("detail", GetTagDetail),
    Step("names", GetNotification), Step("drop", DeleteTagById)>>

-----------------------------------------------------------------------------
(* Saved filters, settings and backups (filters.go, settings.go,           *)
(* backups.go).                                                            *)

FilterList == <<Ask(GetCustomFilter)>>

FilterCreate == <<Step("create", PostCustomFilter)>>

FilterEdit ==
  EditPath(GetCustomFilter, EditingAlone, GetCustomFilterById, <<>>, PutCustomFilterById)

FilterDelete(j) == <<Find(GetCustomFilter)>> \o Deleting(j, DeleteCustomFilterById)

GetConfig(section) ==
  CASE section = "host" -> GetConfigHost
    [] section = "ui" -> GetConfigUi
    [] section = "development" -> GetConfigDevelopment

PutConfig(section) ==
  CASE section = "host" -> PutConfigHostById
    [] section = "ui" -> PutConfigUiById
    [] section = "development" -> PutConfigDevelopmentById

(* The sections in their order, or the one that is named. *)
ServerSettings(j) ==
  LET named == {s \in {"host", "ui", "development"} : Asked(j, s)}
      Section(s) == When(named = {} \/ s \in named, <<Ask(GetConfig(s))>>)
  IN Section("host") \o Section("ui") \o Section("development")

(* The section is locked by its name.  A setting that decides how Prowlarr *)
(* is reached is only sent when confirmed.  What was kept is read back.    *)
ServerSettingsEdit(j) ==
  LET section == CHOOSE s \in {"host", "ui", "development"} : Asked(j, s)
      again == Ask(GetConfig(section))
  IN EditingAlone \o <<Read(GetConfig(section))>>
     \o IF Asked(j, "reach") /\ ~Asked(j, "confirm") THEN <<again>>
        ELSE <<Save(PutConfig(section)), again>>

BackupList == <<Ask(GetSystemBackup)>>

(* With no wait there is no backup to answer with. *)
BackupCreate(j) ==
  RunCommand(j) \o When(~Asked(j, "no wait"), <<Ask(GetSystemBackup)>>)

BackupRestore(j) ==
  <<Ask(GetSystemBackup)>>
  \o When(Asked(j, "confirm"), <<LockAll, Step("restore", PostSystemBackupRestoreById)>>)

BackupDelete(j) ==
  <<Ask(GetSystemBackup)>> \o When(Asked(j, "confirm"), <<Do(DeleteSystemBackupById)>>)

-----------------------------------------------------------------------------
(* The server, its tasks and its logs (server.go, commands.go).            *)

ServerInfo ==
  <<Ask(GetSystemStatus), Ask(GetIndexer), Ask(GetIndexerStatus), Ask(GetApplications),
    Ask(GetDownloadClient), Ask(GetIndexerProxy), Ask(GetHealth)>>

ServerHealth(j) == When(Asked(j, "check"), RunCommand(j)) \o <<Ask(GetHealth)>>

ServerUpdates == <<Ask(GetSystemStatus), Ask(GetUpdate)>>

ServerLogs == <<Ask(GetLogFile), Ask(GetLogFileUpdate)>>

(* A named file is looked for among Prowlarr's own and then its updater's; *)
(* without a name the recorded entries are read, page by page.             *)
ServerLog(j) ==
  IF Asked(j, "updater")
  THEN <<Ask(GetLogFile), Ask(GetLogFileUpdate), Ask(GetLogFileUpdateByFilename)>>
  ELSE IF Asked(j, "file")
  THEN <<Ask(GetLogFile), Ask(GetLogFileUpdate), Ask(GetLogFileByFilename)>>
  ELSE <<Ask(GetLog), Ask(GetLog)>>

TaskList == <<Ask(GetSystemTask)>>

TaskRun(j) == <<Ask(GetSystemTask)>> \o RunCommand(j)

CommandList == <<Ask(GetCommand)>>

CommandCancel == <<Ask(GetCommandById), Do(DeleteCommandById)>>

(* The status is read before the lock is asked for, and again until it is  *)
(* another start's: see Restart.                                           *)
ServerRestart ==
  <<Ask(GetSystemStatus), LockAll, Step("restart", PostSystemRestart),
    Ask(GetSystemStatus)>>

-----------------------------------------------------------------------------
(* Releases, history and statistics (releases.go, stats.go).               *)

ReleaseSearch(j) ==
  When(Asked(j, "categories"), <<Ask(GetIndexerCategories)>>)
  \o When(j.on # {}, <<Find(GetIndexer)>>) \o <<Ask(GetSearch)>>

(* What was sent is named by the newest grabs of the history: see History. *)
ReleaseGrab(j) ==
  <<Find(GetIndexer)>> \o When(Asked(j, "client"), <<Ask(GetDownloadClient)>>)
  \o <<Do(IF Asked(j, "several") THEN PostSearchBulk ELSE PostSearch),
       Ask(GetHistoryIndexer)>>

HistoryList == <<Ask(GetIndexer), Ask(GetHistory)>>

IndexerStats(j) ==
  <<Ask(GetIndexer)>> \o When(j.removes # {}, <<Ask(GetTag)>>)
  \o <<Ask(GetIndexerStats)>>

-----------------------------------------------------------------------------
(* Audits (audit*.go): each reads a snapshot of the setup, and then the    *)
(* parts of it that only some audits need, once each.                      *)

Snap ==
  <<Ask(GetIndexer), Ask(GetIndexerStatus), Ask(GetApplications), Ask(GetAppProfile),
    Ask(GetIndexerProxy), Ask(GetDownloadClient), Ask(GetTag)>>

TagRows == <<Ask(GetTagDetail), Ask(GetNotification)>>

AuditFailing(j) ==
  Snap \o <<Ask(GetHistoryIndexer)>> \o When(Asked(j, "test"), <<Test(PostIndexerTest)>>)

AuditTraffic == Snap \o <<Ask(GetIndexerStats)>>

AuditApps(j) ==
  Snap \o <<Ask(GetHealth)>> \o When(Asked(j, "test"), <<Test(PostApplicationsTestAll)>>)

AuditProxies(j) ==
  Snap \o <<Ask(GetHealth)>> \o When(Asked(j, "test"), <<Test(PostIndexerProxyTestAll)>>)

AuditDownloadClients(j) ==
  Snap \o <<Ask(GetHealth)>> \o When(Asked(j, "test"), <<Test(PostDownloadClientTestAll)>>)

AuditTags == Snap \o TagRows

AuditDefinitions == Snap \o <<Ask(GetIndexerSchema), Ask(GetHealth)>>

AuditHealth == Snap \o <<Ask(GetHealth)>>

AuditNotifications(j) ==
  Snap \o <<Ask(GetNotification)>>
  \o When(Asked(j, "test"), <<Test(PostNotificationTest)>>)

AuditBackups == Snap \o <<Ask(GetSystemBackup), Ask(GetConfigHost)>>

(* Every audit over one snapshot, and none of the tests they can make. *)
AuditAll ==
  Snap \o <<Ask(GetHistoryIndexer), Ask(GetIndexerStats), Ask(GetHealth)>> \o TagRows
  \o <<Ask(GetIndexerSchema), Ask(GetNotification), Ask(GetSystemBackup),
       Ask(GetConfigHost)>>

-----------------------------------------------------------------------------
Path(j) ==
  CASE j.tool = "indexer_list" -> IndexerList
    [] j.tool = "indexer_get" -> IndexerGet(j)
    [] j.tool = "indexer_test" -> IndexerTest(j)
    [] j.tool = "indexer_edit" -> IndexerEdit(j)
    [] j.tool = "indexer_bulk_edit" -> IndexerBulkEdit(j)
    [] j.tool = "indexer_delete" -> IndexerDelete(j, Asked(j, "several"))
    [] j.tool = "indexer_catalog" -> IndexerCatalog
    [] j.tool = "indexer_add" -> IndexerAdd(j)
    [] j.tool = "category_list" -> CategoryList
    [] j.tool = "app_list" -> AppList
    [] j.tool = "app_get" -> AppGet
    [] j.tool = "app_add" -> AppAdd(j)
    [] j.tool = "app_edit" -> AppEdit(j)
    [] j.tool = "app_test" -> AppTest(j)
    [] j.tool = "app_sync" -> AppSync(j)
    [] j.tool = "app_delete" -> AppDelete(j)
    [] j.tool = "profile_list" -> ProfileList
    [] j.tool = "profile_create" -> ProfileCreate
    [] j.tool = "profile_edit" -> ProfileEdit
    [] j.tool = "profile_delete" -> ProfileDelete(j)
    [] j.tool = "proxy_list" -> ProxyList
    [] j.tool = "proxy_add" -> ProxyAdd(j)
    [] j.tool = "proxy_edit" -> ProxyEdit(j)
    [] j.tool = "proxy_test" -> ProxyTest(j)
    [] j.tool = "proxy_delete" -> ProxyDelete(j)
    [] j.tool = "downloadclient_list" -> DownloadClientList
    [] j.tool = "downloadclient_add" -> DownloadClientAdd(j)
    [] j.tool = "downloadclient_edit" -> DownloadClientEdit
    [] j.tool = "downloadclient_test" -> DownloadClientTest(j)
    [] j.tool = "downloadclient_delete" -> DownloadClientDelete(j)
    [] j.tool = "notification_list" -> NotificationList
    [] j.tool = "notification_add" -> NotificationAdd(j)
    [] j.tool = "notification_edit" -> NotificationEdit(j)
    [] j.tool = "notification_test" -> NotificationTest(j)
    [] j.tool = "notification_delete" -> NotificationDelete(j)
    [] j.tool = "tag_list" -> TagList
    [] j.tool = "tag_create" -> TagCreate
    [] j.tool = "tag_edit" -> TagEdit
    [] j.tool = "tag_delete" -> TagDelete
    [] j.tool = "filter_list" -> FilterList
    [] j.tool = "filter_create" -> FilterCreate
    [] j.tool = "filter_edit" -> FilterEdit
    [] j.tool = "filter_delete" -> FilterDelete(j)
    [] j.tool = "server_settings" -> ServerSettings(j)
    [] j.tool = "server_settings_edit" -> ServerSettingsEdit(j)
    [] j.tool = "backup_list" -> BackupList
    [] j.tool = "backup_create" -> BackupCreate(j)
    [] j.tool = "backup_restore" -> BackupRestore(j)
    [] j.tool = "backup_delete" -> BackupDelete(j)
    [] j.tool = "server_info" -> ServerInfo
    [] j.tool = "server_health" -> ServerHealth(j)
    [] j.tool = "server_updates" -> ServerUpdates
    [] j.tool = "server_logs" -> ServerLogs
    [] j.tool = "server_log" -> ServerLog(j)
    [] j.tool = "task_list" -> TaskList
    [] j.tool = "task_run" -> TaskRun(j)
    [] j.tool = "command_list" -> CommandList
    [] j.tool = "command_cancel" -> CommandCancel
    [] j.tool = "server_restart" -> ServerRestart
    [] j.tool = "release_search" -> ReleaseSearch(j)
    [] j.tool = "release_grab" -> ReleaseGrab(j)
    [] j.tool = "history_list" -> HistoryList
    [] j.tool = "indexer_stats" -> IndexerStats(j)
    [] j.tool = "audit_all" -> AuditAll
    [] j.tool = "audit_failing" -> AuditFailing(j)
    [] j.tool = "audit_apps" -> AuditApps(j)
    [] j.tool = "audit_proxies" -> AuditProxies(j)
    [] j.tool = "audit_download_clients" -> AuditDownloadClients(j)
    [] j.tool = "audit_tags" -> AuditTags
    [] j.tool = "audit_definitions" -> AuditDefinitions
    [] j.tool = "audit_health" -> AuditHealth
    [] j.tool = "audit_notifications" -> AuditNotifications(j)
    [] j.tool = "audit_backups" -> AuditBackups
    [] j.tool \in {"audit_unreliable", "audit_slow", "audit_unused", "audit_limits"} ->
         AuditTraffic
    [] j.tool \in {"audit_unsynced", "audit_profiles", "audit_duplicates",
                   "audit_seeding", "audit_vip"} -> Snap
=============================================================================
