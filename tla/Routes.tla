-------------------------------- MODULE Routes --------------------------------
(***************************************************************************)
(* What the tools ask of Prowlarr: each request they send is one method of *)
(* src/sdk/prowlarr, and named here as it is there.  A request is its verb,*)
(* the resource it is about and which part of it, and the statuses its     *)
(* answer may have; any other status is an error, even another 2xx         *)
(* (src/vendor/github.com/katbyte/pandorest/client/request.go).  What a    *)
(* request carries and what it answers belong to the module that sends it. *)
(***************************************************************************)

Request(verb, of, part, accepts) ==
  [verb |-> verb, of |-> of, part |-> part, accepts |-> accepts]

GET(of, part)    == Request("GET", of, part, {200})
PUT(of, part)    == Request("PUT", of, part, {202})
DELETE(of, part) == Request("DELETE", of, part, {200})

(* A POST makes a record, or has something run, which makes none. *)
CREATE(of)       == Request("POST", of, "all", {201})
RUN(of, part)    == Request("POST", of, part, {200})

(* When some of what a test of all tried fails, Prowlarr answers 400. *)
TESTALL(of)      == Request("POST", of, "testall", {200, 400})

(* It changes nothing: the operations marked Read. *)
Reads(req) == req.verb = "GET"

(* A request that only tries what it is sent, and keeps none of it. *)
Tests(req) == req.part \in {"test", "testall"}

(* Indexers, their state and their figures. *)
GetIndexer           == GET("indexer", "all")
GetIndexerById       == GET("indexer", "one")
GetIndexerSchema     == GET("indexer", "schema")
GetIndexerCategories == GET("indexer/categories", "all")
GetIndexerStatus     == GET("indexerstatus", "all")
GetIndexerStats      == GET("indexerstats", "all")
PostIndexer          == CREATE("indexer")
PutIndexerById       == PUT("indexer", "one")
PutIndexerBulk       == PUT("indexer", "bulk")
DeleteIndexerById    == DELETE("indexer", "one")
DeleteIndexerBulk    == DELETE("indexer", "bulk")
PostIndexerTest      == RUN("indexer", "test")
PostIndexerTestAll   == TESTALL("indexer")

(* Applications. *)
GetApplications         == GET("applications", "all")
GetApplicationsById     == GET("applications", "one")
GetApplicationsSchema   == GET("applications", "schema")
PostApplications        == CREATE("applications")
PutApplicationsById     == PUT("applications", "one")
DeleteApplicationsById  == DELETE("applications", "one")
PostApplicationsTest    == RUN("applications", "test")
PostApplicationsTestAll == TESTALL("applications")

(* Sync profiles. *)
GetAppProfile        == GET("appprofile", "all")
GetAppProfileById    == GET("appprofile", "one")
PostAppProfile       == CREATE("appprofile")
PutAppProfileById    == PUT("appprofile", "one")
DeleteAppProfileById == DELETE("appprofile", "one")

(* Proxies. *)
GetIndexerProxy         == GET("indexerproxy", "all")
GetIndexerProxyById     == GET("indexerproxy", "one")
GetIndexerProxySchema   == GET("indexerproxy", "schema")
PostIndexerProxy        == CREATE("indexerproxy")
PutIndexerProxyById     == PUT("indexerproxy", "one")
DeleteIndexerProxyById  == DELETE("indexerproxy", "one")
PostIndexerProxyTest    == RUN("indexerproxy", "test")
PostIndexerProxyTestAll == TESTALL("indexerproxy")

(* Download clients. *)
GetDownloadClient         == GET("downloadclient", "all")
GetDownloadClientById     == GET("downloadclient", "one")
GetDownloadClientSchema   == GET("downloadclient", "schema")
PostDownloadClient        == CREATE("downloadclient")
PutDownloadClientById     == PUT("downloadclient", "one")
DeleteDownloadClientById  == DELETE("downloadclient", "one")
PostDownloadClientTest    == RUN("downloadclient", "test")
PostDownloadClientTestAll == TESTALL("downloadclient")

(* Notifications. *)
GetNotification         == GET("notification", "all")
GetNotificationById     == GET("notification", "one")
GetNotificationSchema   == GET("notification", "schema")
PostNotification        == CREATE("notification")
PutNotificationById     == PUT("notification", "one")
DeleteNotificationById  == DELETE("notification", "one")
PostNotificationTest    == RUN("notification", "test")
PostNotificationTestAll == TESTALL("notification")

(* Tags. *)
GetTag        == GET("tag", "all")
GetTagDetail  == GET("tag/detail", "all")
PostTag       == CREATE("tag")
PutTagById    == PUT("tag", "one")
DeleteTagById == DELETE("tag", "one")

(* Saved filters. *)
GetCustomFilter        == GET("customfilter", "all")
GetCustomFilterById    == GET("customfilter", "one")
PostCustomFilter       == CREATE("customfilter")
PutCustomFilterById    == PUT("customfilter", "one")
DeleteCustomFilterById == DELETE("customfilter", "one")

(* Searches and history. *)
GetSearch         == GET("search", "all")
PostSearch        == RUN("search", "all")
PostSearchBulk    == RUN("search", "bulk")
GetHistory        == GET("history", "all")
GetHistoryIndexer == GET("history/indexer", "all")

(* The server: its state, tasks and commands. *)
GetSystemStatus   == GET("system/status", "all")
GetSystemTask     == GET("system/task", "all")
GetHealth         == GET("health", "all")
GetUpdate         == GET("update", "all")
GetCommand        == GET("command", "all")
GetCommandById    == GET("command", "one")
PostCommand       == CREATE("command")
DeleteCommandById == DELETE("command", "one")
PostSystemRestart == RUN("system/restart", "all")

(* Its settings. *)
GetConfigHost            == GET("config/host", "all")
GetConfigUi              == GET("config/ui", "all")
GetConfigDevelopment     == GET("config/development", "all")
PutConfigHostById        == PUT("config/host", "one")
PutConfigUiById          == PUT("config/ui", "one")
PutConfigDevelopmentById == PUT("config/development", "one")

(* Its backups and its log. *)
GetSystemBackup             == GET("system/backup", "all")
PostSystemBackupRestoreById == RUN("system/backup/restore", "one")
DeleteSystemBackupById      == DELETE("system/backup", "one")
GetLog                      == GET("log", "all")
GetLogFile                  == GET("log/file", "all")
GetLogFileUpdate            == GET("log/file/update", "all")
GetLogFileByFilename        == GET("log/file", "one")
GetLogFileUpdateByFilename  == GET("log/file/update", "one")

(* What Prowlarr names the carriers of a tag among (TagDetailsResource). *)
Routed == {"indexer", "applications", "indexerproxy", "notification"}
=============================================================================
