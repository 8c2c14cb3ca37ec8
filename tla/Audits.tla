-------------------------------- MODULE Audits --------------------------------
(***************************************************************************)
(* What the audits find (tools/audit*.go, tools/sync.go): each goes over a *)
(* snapshot of what Prowlarr holds for what goes wrong, and names the      *)
(* tools that fix it.  They change nothing.                                *)
(*                                                                         *)
(* held is what Prowlarr holds: each thing's record, or Gone.  told is     *)
(* what Prowlarr says of it in its own records - failures, statistics,     *)
(* health checks, dates - as the problem an audit makes of it: such an     *)
(* audit only chooses whom to report.                                      *)
(***************************************************************************)
EXTENDS Integers, Routes

CONSTANTS Things,  \* what Prowlarr may hold, by name
          Gone,    \* a thing it does not hold
          Before   \* Before[x]: the things that a list shows before x

Are(of, held) == {x \in Things : held[x] # Gone /\ held[x].of = of}
Enabled(held) == {i \in Are("indexer", held) : held[i].on}
Share(x, y) == x.tags \cap y.tags # {}

Finding(problem, about) == [problem |-> problem, about |-> about]

-----------------------------------------------------------------------------
(* Which indexers reach which applications: the rules in their order, and  *)
(* the first the pair fails.                                               *)

(* The search an application needs, when an indexer has no plain one. *)
SearchNeeds == [Sonarr |-> "tv", Radarr |-> "movie", Lidarr |-> "music",
                Readarr |-> "book"]

Searches(app, idx) ==
  app.kind \in DOMAIN SearchNeeds =>
    {SearchNeeds[app.kind], "search"} \cap idx.searches # {}

(* Bug: an application with tags takes an indexer that has none. *)
SyncsUntagged(app, idx) ==
  IF ~app.on THEN "app_sync_disabled"
  ELSE IF ~idx.on THEN "indexer_disabled"
  ELSE IF app.tags # {} /\ idx.tags # {} /\ ~Share(app, idx) THEN "no_shared_tag"
  ELSE IF ~Searches(app, idx) THEN "no_search_type"
  ELSE IF app.cats \cap idx.cats = {} THEN "no_shared_category"
  ELSE "synced"

Syncs(app, idx) ==
  IF ~app.on THEN "app_sync_disabled"
  ELSE IF ~idx.on THEN "indexer_disabled"
  ELSE IF app.tags # {} /\ ~Share(app, idx) THEN "no_shared_tag"
  ELSE IF ~Searches(app, idx) THEN "no_search_type"
  ELSE IF app.cats \cap idx.cats = {} THEN "no_shared_category"
  ELSE "synced"

Received(a, held) ==
  {i \in Are("indexer", held) : Syncs(held[a], held[i]) = "synced"}
ReachedBy(i, held) == {a \in Are("applications", held) : i \in Received(a, held)}

-----------------------------------------------------------------------------
(* The audits of what is routed where. *)

(* Profiles that turn off RSS and both searches. *)
Dead(held) == {p \in Are("appprofile", held) : ~held[p].uses}

(* There is nothing to sync to: audit_unsynced notes that and stops there, *)
(* without a finding.                                                      *)
Unconnected(held) == Are("applications", held) = {}

Unsynced(held) ==
  LET apps == Are("applications", held)
      lost == {i \in Enabled(held) : ReachedBy(i, held) = {}}
  IN IF Unconnected(held) THEN {}
     ELSE {Finding("reaches_no_app", i) : i \in lost}
     \cup {Finding("profile_uses_nothing", i) :
             i \in {j \in Enabled(held) \ lost : held[j].profile \in Dead(held)}}
     \cup {Finding("app_gets_nothing", a) :
             a \in {b \in apps : /\ held[b].on
                                 /\ Enabled(held) # {}
                                 /\ Received(b, held) = {}}}

Apps(held) ==
  LET apps == Are("applications", held)
  IN {Finding("sync_disabled", a) : a \in {b \in apps : ~held[b].on}}
     \cup {Finding("prowlarr_url_local", a) : a \in {b \in apps : held[b].local}}
     \cup {Finding("no_sync_categories", a) : a \in {b \in apps : held[b].cats = {}}}
     \cup {Finding("duplicate", a) :
             a \in {b \in apps : \E d \in apps \cap Before[b] : held[d].at = held[b].at}}

Solved(i, held) ==
  \E p \in Are("indexerproxy", held) : held[p].solves /\ Share(held[p], held[i])

Proxies(held) ==
  {Finding("needs_flaresolverr", i) :
     i \in {j \in Enabled(held) : held[j].cloudflare /\ ~Solved(j, held)}}
  \cup {Finding("proxy_unused", p) :
     p \in {q \in Are("indexerproxy", held) :
              \A i \in Are("indexer", held) : ~Share(held[q], held[i])}}

(* A client of 0 is no client: the indexer is pinned to none. *)
DownloadClients(held) ==
  LET pinned == {i \in Enabled(held) : held[i].client # 0}
      clients == Are("downloadclient", held)
  IN {Finding("pinned_client_missing", i) : i \in {j \in pinned : held[j].client \notin clients}}
     \cup {Finding("pinned_client_disabled", i) :
             i \in {j \in pinned : held[j].client \in clients /\ ~held[held[j].client].on}}
     \cup {Finding("blackhole_takes_no_usenet", c) :
             c \in {d \in clients : held[d].blackhole /\ held[d].on}}

CarriersOf(t, of, held) == {x \in Are(of, held) : t \in held[x].tags}

Tags(held) ==
  {Finding("tag_unused", t) :
     t \in {u \in Are("tag", held) : \A of \in Routed : CarriersOf(u, of, held) = {}}}
  \cup {Finding("app_tag_matches_nothing", t) :
     t \in {u \in Are("tag", held) : /\ CarriersOf(u, "applications", held) # {}
                                     /\ CarriersOf(u, "indexer", held) = {}}}

Profiles(held) ==
  LET profiles == Are("appprofile", held)
      users(p) == {i \in Are("indexer", held) : held[i].profile = p}
  IN {Finding("profile_uses_nothing", p) : p \in Dead(held)}
     \cup {Finding("profile_unused", p) :
             p \in {q \in profiles : users(q) = {} /\ profiles # {q}}}

(* The audits of how things are set. *)

Duplicates(held) ==
  {Finding("duplicate", i) :
     i \in {j \in Are("indexer", held) :
              /\ \E k \in Are("indexer", held) \ {j} : held[k].site = held[j].site
              /\ \A k \in Are("indexer", held) \cap Before[j] :
                   held[k].site # held[j].site}}

Seeding(held) ==
  {Finding("no_seed_goal", i) : i \in {j \in Enabled(held) : held[j].private /\ ~held[j].goal}}

Heard(held) ==
  {n \in Are("notification", held) : "health_issue" \in held[n].sent}

(* Bug: any notification counts, whatever it is sent for. *)
NotificationsAny(held) ==
  {Finding("sent_for_nothing", n) :
     n \in {m \in Are("notification", held) : held[m].sent = {}}}
  \cup (IF Are("notification", held) # {} THEN {}
        ELSE {Finding("no_health_notification", "notifications")})

Notifications(held) ==
  {Finding("sent_for_nothing", n) :
     n \in {m \in Are("notification", held) : held[m].sent = {}}}
  \cup {Finding("health_warnings_off", n) : n \in {m \in Heard(held) : ~held[m].warnings}}
  \cup (IF Heard(held) # {} THEN {}
        ELSE {Finding("no_health_notification", "notifications")})

-----------------------------------------------------------------------------
(* The tools each finding's fix names, by audit and problem. *)
Fixes ==
  [audit_failing |->
     [held_back_after_failures |-> {"indexer_test", "indexer_edit"},
      last_request_failed |-> {"indexer_test", "indexer_edit"}],
   audit_unreliable |->
     [queries_failing |-> {"indexer_test", "audit_proxies", "indexer_edit"},
      logins_failing |-> {"indexer_edit", "indexer_test"},
      grabs_failing |-> {"indexer_edit"}],
   audit_slow |->
     [slow_queries |-> {"indexer_edit", "audit_proxies"},
      slow_grabs |-> {"indexer_edit"}],
   audit_unused |->
     [never_queried |-> {"audit_unsynced", "indexer_edit", "indexer_delete"},
      never_grabbed |-> {"indexer_edit", "indexer_delete", "profile_create"}],
   audit_limits |->
     [query_limit_near |-> {"indexer_edit"}, query_limit_reached |-> {"indexer_edit"},
      grab_limit_near |-> {"indexer_edit"}, grab_limit_reached |-> {"indexer_edit"}],
   audit_unsynced |->
     [reaches_no_app |-> {"indexer_edit", "app_edit", "app_sync"},
      profile_uses_nothing |-> {"indexer_edit", "profile_edit"},
      app_gets_nothing |-> {"app_edit", "indexer_bulk_edit", "app_sync"}],
   audit_apps |->
     [failing |-> {"app_test", "app_edit"}, test_failed |-> {"app_edit"},
      sync_disabled |-> {"app_edit", "app_delete"},
      prowlarr_url_local |-> {"app_edit", "app_sync"},
      no_sync_categories |-> {"app_edit"}, duplicate |-> {"app_delete"}],
   audit_proxies |->
     [needs_flaresolverr |-> {"proxy_add", "indexer_edit"},
      proxy_unused |-> {"proxy_edit", "indexer_edit", "proxy_delete"},
      proxy_failing |-> {"proxy_test", "proxy_edit", "proxy_delete"}],
   audit_download_clients |->
     [pinned_client_missing |-> {"indexer_edit"},
      pinned_client_disabled |-> {"downloadclient_edit", "indexer_edit"},
      blackhole_takes_no_usenet |-> {"downloadclient_add", "downloadclient_edit"},
      client_failing |-> {"downloadclient_test", "downloadclient_edit"}],
   audit_tags |->
     [tag_unused |-> {"tag_delete"},
      app_tag_matches_nothing |-> {"indexer_bulk_edit", "app_edit"}],
   audit_profiles |->
     [profile_uses_nothing |-> {"profile_edit", "indexer_bulk_edit"},
      profile_unused |-> {"profile_delete"}],
   audit_duplicates |-> [duplicate |-> {"indexer_delete", "indexer_edit"}],
   audit_seeding |-> [no_seed_goal |-> {"indexer_bulk_edit"}],
   audit_vip |->
     [vip_unreadable |-> {"indexer_edit"}, vip_expired |-> {"indexer_edit"},
      vip_expiring |-> {"indexer_edit"}],
   audit_definitions |->
     [definition_gone |-> {"indexer_catalog", "indexer_add", "indexer_delete"},
      definition_obsolete |-> {"indexer_catalog", "indexer_add", "indexer_delete"},
      definition_notice |-> {"indexer_catalog"},
      retired_url |-> {"indexer_edit"}, unlisted_url |-> {"indexer_edit"}],
   audit_health |->  \* by the check that says it
     [IndexerCheck |-> {"indexer_catalog", "indexer_add"},
      IndexerStatusCheck |-> {"audit_failing", "indexer_test"},
      UpdateCheck |-> {"server_updates"}, ProxyCheck |-> {},
      AllowedHostsCheck |-> {"server_settings_edit"}],
   audit_notifications |->
     [sent_for_nothing |-> {"notification_edit", "notification_delete"},
      health_warnings_off |-> {"notification_edit"},
      test_failed |-> {"notification_edit", "notification_delete"},
      no_health_notification |-> {"notification_add", "notification_edit"}],
   audit_backups |->
     [no_backup |-> {"backup_create", "task_run"},
      backup_time_unreadable |-> {"backup_create"},
      backup_stale |-> {"backup_create", "task_run", "server_log"}]]

-----------------------------------------------------------------------------
(* What Prowlarr tells of, as far as the audit reports it: of an indexer   *)
(* only while it is enabled, but for its definition; of anything else      *)
(* while it is there.                                                      *)
Reported(audit, held, told) ==
  {Finding(f.problem, f.about) : f \in
     {g \in told :
        /\ g.audit = audit
        /\ g.about \in Things =>
             /\ held[g.about] # Gone
             /\ held[g.about].of = "indexer" /\ audit # "audit_definitions" =>
                  held[g.about].on}}

(* The findings of an audit. *)
Found(audit, held, told) ==
  CASE audit = "audit_unsynced" -> Unsynced(held)
    [] audit = "audit_apps" -> Apps(held) \cup Reported(audit, held, told)
    [] audit = "audit_proxies" -> Proxies(held) \cup Reported(audit, held, told)
    [] audit = "audit_download_clients" ->
         DownloadClients(held) \cup Reported(audit, held, told)
    [] audit = "audit_tags" -> Tags(held)
    [] audit = "audit_profiles" -> Profiles(held)
    [] audit = "audit_duplicates" -> Duplicates(held)
    [] audit = "audit_seeding" -> Seeding(held)
    [] audit = "audit_notifications" ->
         Notifications(held) \cup Reported(audit, held, told)
    [] OTHER -> Reported(audit, held, told)

(* audit_all's counts: it runs each with what it takes by default. *)
Clean(held, told) == \A audit \in DOMAIN Fixes : Found(audit, held, told) = {}
=============================================================================
