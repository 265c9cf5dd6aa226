------------------------------ MODULE BeadStore ------------------------------
(***************************************************************************)
(* One bead and the requests about it: apps/api/core/bead_store.py with    *)
(* the update models of apps/api/models/beads.py, the routes of            *)
(* apps/api/routers/beads.py, campaigns.py, plugins.py and neurometric.py  *)
(* that write beads, and the tables of db/schema/init.sql.               *)
(*                                                                         *)
(* Every statement names one bead, so beads do not interact.  What a       *)
(* request reads is the snapshot of its transaction's first read; its      *)
(* commit merges the cells it changed into what others committed since,    *)
(* and is refused when both changed a cell to different values.  The cell  *)
(* updated_at, equal for the commits of one second, is left out: that it   *)
(* differs is one of the reasons of Fail.                                  *)
(***************************************************************************)
EXTENDS Naturals

CONSTANTS
  Sessions,  (* bound: the clients, each with one request                  *)
  Columns,   (* the columns that hold the bead's data                      *)
  Nobody,    (* the author of the data a bead is created with              *)
  Statuses   (* bound: the statuses clients send                           *)

ASSUME StoreAssumption == Nobody \notin Sessions

VARIABLES
  kind,     (* the bead's type; it never changes                           *)
  row,      (* the bead's row, as committed                                *)
  phase,    (* phase[r]: idle, serving, answered, refused or failed        *)
  request,  (* request[r]: what client r asks                              *)
  seen,     (* seen[r]: the bead as r got it before it asks to update it   *)
  snap      (* snap[r]: the row that r's open transaction has read         *)

vars == <<kind, row, phase, request, seen, snap>>
-----------------------------------------------------------------------------
\* The statuses that the ENUM of each table admits.

campaign_beads == {"draft", "active", "paused", "completed", "archived"}
lead_beads == {"new", "enriching", "enriched", "qualified", "contacted", "engaged",
               "converted", "dead"}
asset_beads == {"draft", "refinery_pending", "refinery_failed", "ready_for_approval",
                "approved", "published", "archived"}
competitor_beads == {"active", "paused", "archived"}
test_beads == {"draft", "running", "paused", "completed", "winner_pending_approval",
               "winner_promoted"}
icp_beads == {"active", "draft", "archived"}
journalist_beads == {"active", "cold", "do_not_contact", "archived"}
model_registry_beads == {"active", "archived"}
plugin_beads == {"active", "disabled", "failed", "archived"}

BEAD_TABLE_MAP ==
  [campaign |-> campaign_beads, lead |-> lead_beads, asset |-> asset_beads,
   competitor |-> competitor_beads, test |-> test_beads, icp |-> icp_beads,
   journalist |-> journalist_beads, model_registry |-> model_registry_beads,
   plugin |-> plugin_beads]

Kinds == DOMAIN BEAD_TABLE_MAP
Table == BEAD_TABLE_MAP[kind]

\* The statuses the update models admit, which are not always the table's;
\* "null" may be sent for any field.
BeadStatus == {"draft", "active", "paused", "completed", "archived"}

CampaignBeadUpdate == BeadStatus
LeadBeadUpdate == lead_beads
AssetBeadUpdate == asset_beads
CompetitorBeadUpdate == BeadStatus
TestBeadUpdate == test_beads
ICPBeadUpdate == BeadStatus
JournalistBeadUpdate == journalist_beads
ModelRegistryBeadUpdate == BeadStatus

\* The update that the routes take for a bead of this kind; no route takes one
\* for a plugin.
UpdateModel ==
  [campaign |-> CampaignBeadUpdate, lead |-> LeadBeadUpdate, asset |-> AssetBeadUpdate,
   competitor |-> CompetitorBeadUpdate, test |-> TestBeadUpdate, icp |-> ICPBeadUpdate,
   journalist |-> JournalistBeadUpdate, model_registry |-> ModelRegistryBeadUpdate,
   plugin |-> {}]

AllStatuses == UNION {BEAD_TABLE_MAP[k] : k \in Kinds}

Row == [status : {"absent"} \cup AllStatuses, version : Nat,
        data : [Columns -> Sessions \cup {Nobody}]]

RowOf(status, version) ==
  [status |-> status, version |-> version, data |-> [c \in Columns |-> Nobody]]
Absent == RowOf("absent", 0)
NoRow == RowOf("unread", 0)

\* The rows that the create methods and routes insert.
create_campaign == RowOf("draft", 1)
\* Faulty variant: a lead starts as a draft, like a campaign.
create_lead_Draft == RowOf("draft", 1)
create_lead == RowOf("new", 1)
create_asset == RowOf("draft", 1)
create_competitor == RowOf("active", 1)
create_test == RowOf("draft", 1)
create_icp == RowOf("active", 1)
create_journalist == RowOf("active", 1)
create_model_override == RowOf("active", 1)
register_plugin == RowOf("active", 1)

Created ==
  [campaign |-> create_campaign, lead |-> create_lead, asset |-> create_asset,
   competitor |-> create_competitor, test |-> create_test, icp |-> create_icp,
   journalist |-> create_journalist, model_registry |-> create_model_override,
   plugin |-> register_plugin][kind]

\* sends: the columns an update sets; status: "unset", or the status it sets;
\* guarded: it sends the version it has seen as expected_version.
Ask(op, sends, status, guarded) ==
  [op |-> op, sends |-> sends, status |-> status, guarded |-> guarded]

Plain(op) == Ask(op, {}, "unset", FALSE)

Updates(guards) ==
  {Ask("update", s, t, g) : s \in SUBSET Columns, g \in guards,
      t \in {"unset"} \cup (Statuses \cap (UpdateModel[kind] \cup {"null"}))}

\* What the routes offer for a bead of this kind.
Requests ==
  {Plain("create"), Plain("archive")} \cup
  (CASE kind = "plugin" ->
          {Plain(op) : op \in {"enable", "disable", "unregister"}}
          \cup {Ask("config", {c}, "unset", FALSE) : c \in Columns}
     [] kind = "model_registry" -> Updates({FALSE})
     [] OTHER -> Updates(BOOLEAN))
-----------------------------------------------------------------------------
Open(r) == phase[r] = "serving" /\ snap[r] # NoRow

\* Both sides changed a cell since the snapshot, to different values.
Conflict(old, new, now) ==
  \/ new.status # old.status /\ now.status \notin {old.status, new.status}
  \/ new.version # old.version /\ now.version \notin {old.version, new.version}
  \/ \E c \in Columns : /\ new.data[c] # old.data[c]
                        /\ now.data[c] \notin {old.data[c], new.data[c]}

\* The cells this transaction changed win.
Merge(old, new, now) ==
  [status |-> IF new.status # old.status THEN new.status ELSE now.status,
   version |-> IF new.version # old.version THEN new.version ELSE now.version,
   data |-> [c \in Columns |-> IF new.data[c] # old.data[c]
                               THEN new.data[c] ELSE now.data[c]]]

Ends(r, p) ==
  /\ phase' = [phase EXCEPT ![r] = p]
  /\ snap' = [snap EXCEPT ![r] = NoRow]
  /\ UNCHANGED <<kind, request, seen>>

\* Faulty variant: the UPDATE has a transaction of its own, after the read's.
Commits_Apart(r, new) ==
  /\ row' = Merge(snap[r], new, row)
  /\ \E p \in {"answered", "failed"} : Ends(r, p)

\* The commit of what a handler makes of the row it has read; the client, or
\* the read for the answer, may hear an error all the same.
Commits(r, new) ==
  /\ ~Conflict(snap[r], new, row)
  /\ row' = Merge(snap[r], new, row)
  /\ \E p \in {"answered", "failed"} : Ends(r, p)

AnswersOnly(r) == Ends(r, "answered") /\ UNCHANGED row

\* Faulty variant: the version check is left out.
Stale_Never(r) == FALSE

\* expected_version and current.version != expected_version
Stale(r) == request[r].guarded /\ snap[r].version # seen[r].version

Sends(r) == request[r].sends # {} \/ request[r].status # "unset"

\* Does the database take the status that is sent?
Storable(r) == request[r].status \in Table \cup {"unset"}

\* Faulty variant: the version stays as it was.
Updated_SameVersion(r) ==
  [status |-> IF request[r].status = "unset" THEN snap[r].status ELSE request[r].status,
   version |-> snap[r].version,
   data |-> [c \in Columns |-> IF c \in request[r].sends THEN r ELSE snap[r].data[c]]]

\* The fields sent and the next version, as the UPDATE sets them.
Updated(r) ==
  [status |-> IF request[r].status = "unset" THEN snap[r].status ELSE request[r].status,
   version |-> snap[r].version + 1,
   data |-> [c \in Columns |-> IF c \in request[r].sends THEN r ELSE snap[r].data[c]]]

Serves(r, k, op) == kind = k /\ Open(r) /\ request[r].op = op

\* What the update methods share: with nothing to set, the answer is the bead
\* as it was read.
Update(r, k) ==
  /\ Serves(r, k, "update") /\ snap[r] # Absent /\ ~Stale(r)
  /\ IF Sends(r)
     THEN Storable(r) /\ Commits(r, Updated(r))
     ELSE AnswersOnly(r)
-----------------------------------------------------------------------------
Init ==
  /\ kind \in Kinds
  /\ row \in {Absent, Created}
  /\ phase = [r \in Sessions |-> "idle"]
  /\ request = [r \in Sessions |-> Plain("none")]
  /\ seen = [r \in Sessions |-> NoRow]
  /\ snap = [r \in Sessions |-> NoRow]

\* The ids are random: no two clients create the same bead, unless its key is
\* a name (a plugin's, or the task class of an override).
Receive(r) ==
  /\ phase[r] = "idle"
  /\ \E q \in Requests :
       /\ \/ q.op # "create" \/ kind \in {"plugin", "model_registry"}
          \/ row = Absent /\ \A o \in Sessions : request[o].op # "create"
       /\ request' = [request EXCEPT ![r] = q]
  /\ phase' = [phase EXCEPT ![r] = "serving"]
  /\ UNCHANGED <<kind, row, seen, snap>>

\* get_X in a request of its own: a client that guards its update knows the
\* bead's version from there.
View(r) ==
  /\ phase[r] = "serving" /\ request[r].guarded /\ seen[r] = NoRow /\ row # Absent
  /\ seen' = [seen EXCEPT ![r] = row]
  /\ UNCHANGED <<kind, row, phase, request, snap>>

\* The first read of the request's transaction.
Read(r) ==
  /\ phase[r] = "serving" /\ snap[r] = NoRow
  /\ request[r].guarded => seen[r] # NoRow
  /\ snap' = [snap EXCEPT ![r] = row]
  /\ UNCHANGED <<kind, row, phase, request, seen>>

\* INSERT; a key that is there by the time of the commit is refused.
Create(r) ==
  /\ Open(r) /\ request[r].op = "create"
  /\ snap[r] = Absent /\ row = Absent
  /\ row' = Created
  /\ \E p \in {"answered", "failed"} : Ends(r, p)

update_campaign(r) == Update(r, "campaign")
update_lead(r) == Update(r, "lead")
update_asset(r) == Update(r, "asset")
update_competitor(r) == Update(r, "competitor")
update_test(r) == Update(r, "test")
update_icp(r) == Update(r, "icp")
update_journalist(r) == Update(r, "journalist")

\* An override is found by its task class, while it is active.
update_model_config(r) == snap[r].status = "active" /\ Update(r, "model_registry")

\* One UPDATE, of no row if there is none.
archive_bead(r) ==
  /\ Open(r) /\ request[r].op = "archive"
  /\ IF snap[r] = Absent
     THEN AnswersOnly(r)
     ELSE /\ "archived" \in Table
          /\ Commits(r, [status |-> "archived", version |-> snap[r].version + 1,
                          data |-> snap[r].data])

update_plugin_config(r) ==
  /\ Serves(r, "plugin", "config") /\ snap[r] # Absent
  /\ Commits(r, Updated(r))

\* Faulty variant: the UPDATE loses its condition on the status.
enable_plugin_AnyStatus(r) ==
  /\ Serves(r, "plugin", "enable") /\ snap[r] # Absent
  /\ Commits(r, [snap[r] EXCEPT !.status = "active"])

enable_plugin(r) ==
  /\ Serves(r, "plugin", "enable") /\ snap[r].status = "disabled"
  /\ Commits(r, [snap[r] EXCEPT !.status = "active"])

disable_plugin(r) ==
  /\ Serves(r, "plugin", "disable") /\ snap[r].status = "active"
  /\ Commits(r, [snap[r] EXCEPT !.status = "disabled"])

unregister_plugin(r) ==
  /\ Serves(r, "plugin", "unregister") /\ snap[r].status \notin {"absent", "archived"}
  /\ Commits(r, [snap[r] EXCEPT !.status = "archived"])

\* 404, a version conflict, a name that is taken, or a statement the database
\* rejects.
Refuse(r) ==
  LET s == snap[r].status
      op == request[r].op
  IN  /\ Open(r)
      /\ CASE op = "create" -> s # "absent"
           [] op = "archive" -> s # "absent" /\ "archived" \notin Table
           [] op = "update" -> \/ s = "absent" \/ Stale(r)
                               \/ kind = "model_registry" /\ s # "active"
                               \/ Sends(r) /\ ~Storable(r)
           [] op = "config" -> s = "absent"
           [] op = "enable" -> s # "disabled"
           [] op = "disable" -> s # "active"
           [] op = "unregister" -> s \in {"absent", "archived"}
      /\ Ends(r, "refused") /\ UNCHANGED row

\* The commit is refused, the database fails or the process dies: rolled back.
Fail(r) == phase[r] = "serving" /\ Ends(r, "failed") /\ UNCHANGED row

Next ==
  \E r \in Sessions :
    \/ Receive(r) \/ View(r) \/ Read(r) \/ Create(r) \/ archive_bead(r)
    \/ update_campaign(r) \/ update_lead(r) \/ update_asset(r)
    \/ update_competitor(r) \/ update_test(r) \/ update_icp(r)
    \/ update_journalist(r) \/ update_model_config(r)
    \/ update_plugin_config(r) \/ enable_plugin(r) \/ disable_plugin(r)
    \/ unregister_plugin(r) \/ Refuse(r) \/ Fail(r)

Spec == Init /\ [][Next]_vars
-----------------------------------------------------------------------------
\* Properties.

Phase == {"idle", "serving", "answered", "refused", "failed"}

\* Every variable has its shape, and the row a status that its table admits.
TypeOK ==
  /\ kind \in Kinds
  /\ row \in Row /\ row.status \in {"absent"} \cup Table
  /\ phase \in [Sessions -> Phase]
  /\ request \in [Sessions -> Requests \cup {Plain("none")}]
  /\ seen \in [Sessions -> Row \cup {NoRow}]
  /\ snap \in [Sessions -> Row \cup {NoRow}]

\* Optimistic locking: of the accepted updates whose clients saw the same
\* version and sent it as expected_version, no two set the same column.  (Those
\* of different columns may merge.  A column holds who set it, so no value comes
\* back; for a status, which may, this is not so: of two changes that merge under
\* one version, the second may make what a third client asks for no change.)
OneUpdatePerVersion ==
  \A r, q \in Sessions :
    /\ r # q /\ seen[r] # NoRow /\ seen[r].version = seen[q].version
    /\ phase[r] = "answered" /\ phase[q] = "answered"
    => request[r].sends \cap request[q].sends = {}

\* A change of the data shows in the version ("version field increments on each
\* update"), except when the change merges with another that the writer's
\* transaction could not see and that took the same version.
VersionTellsChange ==
  [][row'.data # row.data =>
       \/ row'.version > row.version
       \/ \E r \in Sessions : Open(r) /\ ~Open(r)' /\ snap[r].version < row.version]_vars

\* A bead leaves "archived" only by an update whose transaction read it so: one
\* that was under way when the bead was archived cannot bring it back.
ArchivedIsLeftKnowingly ==
  [][row.status = "archived" /\ row'.status # "archived" =>
       \E r \in Sessions : Open(r) /\ ~Open(r)' /\ snap[r].status = "archived"]_vars

\* A plugin that is unregistered, and an override that is archived, keep the
\* status archived. Their other columns may still change: configuring a plugin
\* (update_plugin_config) looks at no status.
ArchivedByNameStays ==
  [][row.status = "archived" /\ kind \in {"plugin", "model_registry"}
       => row'.status = "archived"]_vars
=============================================================================
