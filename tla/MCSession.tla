------------------------------ MODULE MCSession ------------------------------
(* A setup in which all is well, what may become of each part of it, and   *)
(* the sessions that may have to do with it.                               *)
EXTENDS Session

CONSTANTS i1, i2, a1, a2, p1, p2, x1, c1, n1, t1, t2, f1, f2, f3, f4

Everything == {i1, i2, a1, a2, p1, p2, x1, c1, n1, t1, t2, f1, f2, f3, f4}

Listed == <<i1, i2, a1, a2, p1, p2, x1, c1, n1, t1, t2, f1, f2, f3, f4>>
Ahead == [x \in Everything |->
            {Listed[k] : k \in 1..(CHOOSE n \in DOMAIN Listed : Listed[n] = x) - 1}]

(* One indexer behind Cloudflare, pinned and tagged, and one plain. *)
Tagged == [of |-> "indexer", on |-> TRUE, tags |-> {t1}, searches |-> {"tv"},
           cats |-> {"TV"}, profile |-> p1, client |-> c1, site |-> "one",
           cloudflare |-> TRUE, private |-> TRUE, goal |-> TRUE]
Plain == [Tagged EXCEPT !.tags = {}, !.searches = {"search"}, !.client = 0,
                        !.site = "two", !.cloudflare = FALSE, !.private = FALSE]

Sonarr == [of |-> "applications", on |-> TRUE, tags |-> {t1}, kind |-> "Sonarr",
           cats |-> {"TV"}, at |-> "one", local |-> FALSE]
Other == [Sonarr EXCEPT !.tags = {}, !.kind = "Mylar", !.at = "two"]

Profile(uses) == [of |-> "appprofile", uses |-> uses, tags |-> {}]
Proxy(solves, tags) == [of |-> "indexerproxy", solves |-> solves, tags |-> tags]
Client(on, blackhole) ==
  [of |-> "downloadclient", on |-> on, blackhole |-> blackhole, tags |-> {}]
Note(sent, warnings) ==
  [of |-> "notification", sent |-> sent, warnings |-> warnings, tags |-> {}]
Tag == [of |-> "tag", tags |-> {}]
Filter(label) == [of |-> "customfilter", tags |-> {}, label |-> label]

MayBe ==
  [x \in Everything |->
     CASE x = i1 -> {Tagged, [Tagged EXCEPT !.on = FALSE], [Tagged EXCEPT !.tags = {t2}],
                     [Tagged EXCEPT !.searches = {"movie"}],
                     [Tagged EXCEPT !.profile = p2], [Tagged EXCEPT !.goal = FALSE]}
       [] x = i2 -> {Plain, [Plain EXCEPT !.on = FALSE], [Plain EXCEPT !.cats = {"Books"}],
                     [Plain EXCEPT !.site = "one"], [Plain EXCEPT !.tags = {t1}],
                     [Plain EXCEPT !.client = c1]}
       [] x = a1 -> {Sonarr, [Sonarr EXCEPT !.on = FALSE], [Sonarr EXCEPT !.cats = {}],
                     [Sonarr EXCEPT !.tags = {}]}
       [] x = a2 -> {Other, [Other EXCEPT !.tags = {t1}], [Other EXCEPT !.at = "one"],
                     [Other EXCEPT !.local = TRUE]}
       [] x \in {p1, p2} -> {Profile(TRUE), Profile(FALSE)}
       [] x = x1 -> {Proxy(TRUE, {t1}), Proxy(FALSE, {t1}), Proxy(TRUE, {})}
       [] x = c1 -> {Client(TRUE, FALSE), Client(FALSE, FALSE), Client(TRUE, TRUE)}
       [] x = n1 -> {Note({"health_issue"}, TRUE), Note({"health_issue"}, FALSE),
                     Note({"grab"}, FALSE), Note({}, FALSE)}
       [] x \in {t1, t2} -> {Tag}
       [] x = f1 -> {Filter(1), Filter(3)}
       [] x = f2 -> {Filter(2)}
       [] x = f3 -> {Filter(3)}
       [] x = f4 -> {Filter(1)}]

AllWell ==
  [x \in Everything |->
     CASE x = i1 -> Tagged
       [] x = i2 -> Plain
       [] x = a1 -> Sonarr
       [] x = a2 -> Other
       [] x = p1 -> Profile(TRUE)
       [] x = x1 -> Proxy(TRUE, {t1})
       [] x = c1 -> Client(TRUE, FALSE)
       [] x = n1 -> Note({"health_issue"}, TRUE)
       [] x = t1 -> Tag
       [] x = f1 -> Filter(1)
       [] x = f2 -> Filter(2)
       [] x = f3 -> Filter(3)
       [] OTHER -> Gone]

Says(audit, problem, about) == [audit |-> audit, problem |-> problem, about |-> about]
News == {Says("audit_backups", "backup_stale", "backups"),
         Says("audit_failing", "held_back_after_failures", i1),
         Says("audit_definitions", "definition_notice", i2)}

Limits == {0, 1, MaxLimit + 1}

FilterTools == {"filter_list", "filter_create", "filter_edit", "filter_delete"}
IndexerTools == {"indexer_list", "indexer_get", "indexer_test", "indexer_edit",
                 "indexer_bulk_edit", "indexer_stats", "indexer_catalog", "indexer_add",
                 "indexer_delete"}
ToolFamilies == [filter |-> FilterTools, indexer |-> IndexerTools]

(* What it is without arguments; read only, whatever is allowed by name;   *)
(* what adds and administers, without the tools that delete, though they   *)
(* are allowed by name; all of it; and some families.                      *)
Sessions ==
  {Selection(FALSE, FALSE, {}, {}, {}),
   Selection(TRUE, TRUE, {"all"}, {EditTools, DeleteTools}, {}),
   Selection(FALSE, FALSE, {"setup", "admin"}, {DeleteTools}, {}),
   Selection(FALSE, TRUE, {"all"}, {}, {}),
   Selection(FALSE, TRUE, {"indexer"}, {FilterTools}, {{"filter_edit"}})}

Curations == {Selection(FALSE, FALSE, {"curation"}, {}, {})}
=============================================================================
