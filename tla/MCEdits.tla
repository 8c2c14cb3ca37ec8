------------------------------- MODULE MCEdits -------------------------------
(* Edits for TLC: three calls, or two, of a record of each kind and two    *)
(* labels besides the one the records start with.  Each call is asked any  *)
(* one of a list of jobs, so that all of them are tried together.          *)
EXTENDS Edits, TLC

CONSTANTS c1, c2, c3, i1, i2, app, proxy, client, note, profile, filter, host,
          first, new, other

MCCalls == {c1, c2, c3}
MCPair == {c1, c2}
MCLabels == {first, new, other}

MCResourceOf ==
  i1 :> "indexer" @@ i2 :> "indexer" @@ app :> "applications" @@ proxy :> "indexerproxy"
  @@ client :> "downloadclient" @@ note :> "notification" @@ profile :> "appprofile"
  @@ filter :> "customfilter" @@ host :> "config/host"

MCStarted == DOMAIN MCResourceOf

(* Fewer kinds, for three calls. *)
MCFew == {i1, i2, app}

(* The tag there is, and one for each call: a job makes at most one. *)
MCMaxTag == 4

Symmetry == Permutations(MCCalls)

Job(tool, on, adds, removes, prio, with) ==
  [tool |-> tool, on |-> on, adds |-> adds, removes |-> removes,
   prio |-> prio, with |-> with]

Plain(tool, on, with) == Job(tool, on, {}, {}, Keep, with)

EditJobs == {Job("indexer_edit", {i1}, {new}, {}, Keep, {}),
             Job("indexer_edit", {i1}, {}, {first}, Keep, {}),
             Job("indexer_edit", {i1}, {}, {}, 2, {"profile"}),
             Job("indexer_edit", {i2}, {new}, {first}, Keep, {}),
             Job("indexer_edit", {i2}, {other}, {}, 3, {"replace"}),
             Job("app_edit", {app}, {new}, {}, Keep, {"replace"})}

DeleteJobs == {Plain("indexer_delete", {i1}, {"confirm"})}

TagJobs == {Job("tag_create", {}, {new}, {}, Keep, {}),
            Job("tag_edit", {}, {new}, {first}, Keep, {}),
            Job("tag_edit", {}, {first}, {new}, Keep, {}),
            Job("tag_delete", {}, {}, {new}, Keep, {}),
            Job("tag_delete", {}, {}, {first}, Keep, {})}

AllJobs == {Plain("backup_restore", {}, {"confirm"}), Plain("server_restart", {}, {})}

LockingJobs == EditJobs \cup DeleteJobs \cup TagJobs \cup AllJobs

(* The calls that write a record without its lock. *)
UnlockedJobs == {Job("indexer_bulk_edit", {i1, i2}, {new}, {first}, Keep, {}),
                 Job("indexer_bulk_edit", {i1}, {}, {first}, 4, {}),
                 Job("indexer_bulk_edit", {i1}, {other}, {}, 5, {}),
                 Job("indexer_add", {}, {new}, {}, Keep, {"force"}),
                 Job("indexer_add", {}, {other}, {}, Keep, {}),
                 Job("proxy_add", {}, {new}, {}, Keep, {"force"})}

(* A call may also edit what another adds. *)
AddedJobs == {Job("indexer_edit", {c}, {}, {first}, 2, {}) : c \in Calls}

(* One record of every other kind, edited, added and deleted. *)
OtherEdits == {Job("proxy_edit", {proxy}, {new}, {first}, Keep, {}),
               Job("notification_edit", {note}, {}, {first}, Keep, {}),
               Job("profile_edit", {profile}, {}, {}, 2, {}),
               Job("downloadclient_edit", {client}, {}, {}, 2, {}),
               Job("filter_edit", {filter}, {}, {}, 2, {}),
               Job("server_settings_edit", {host}, {}, {}, 2, {"host"}),
               Job("server_settings_edit", {host}, {}, {}, 3, {"host", "reach"})}

OtherAdds == {Job("app_add", {}, {other}, {}, Keep, {"force"}),
              Job("notification_add", {}, {new}, {}, Keep, {}),
              Plain("downloadclient_add", {}, {"force"}),
              Plain("profile_create", {}, {}), Plain("filter_create", {}, {})}

Deletable == "indexer_delete" :> {i1, i2} @@ "app_delete" :> {app}
  @@ "profile_delete" :> {profile} @@ "proxy_delete" :> {proxy}
  @@ "downloadclient_delete" :> {client} @@ "notification_delete" :> {note}
  @@ "filter_delete" :> {filter}

OtherDeletes == {Plain(t, Deletable[t], {"confirm", "several"}) : t \in DOMAIN Deletable}
                \cup {Plain("app_delete", {app}, {})}

(* One tool of each way to change no record: the others' paths are taken   *)
(* in MCSession.                                                           *)
HarmlessJobs == {Plain("app_sync", {}, {}), Plain("indexer_test", {i1}, {}),
                 Plain("release_grab", {i1}, {}), Plain("backup_create", {}, {}),
                 Plain("tag_list", {}, {}), Plain("audit_tags", {}, {})}

MCAllJobs == LockingJobs \cup UnlockedJobs \cup AddedJobs \cup OtherEdits
             \cup OtherAdds \cup OtherDeletes \cup HarmlessJobs

(* An edit of a tag and a bulk edit of a setting of one indexer. *)
BulkJobs == {Job("indexer_edit", {i1}, {}, {first}, Keep, {}),
             Job("indexer_bulk_edit", {i1}, {}, {}, 4, {})}

(* A tag that only a download client carries, and its delete. *)
ClientJobs == {Job("downloadclient_add", {}, {new}, {}, Keep, {}),
               Job("tag_delete", {}, {}, {new}, Keep, {})}
=============================================================================
