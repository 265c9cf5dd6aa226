--------------------------- MODULE BeadStore_proofs ---------------------------
(***************************************************************************)
(* Theorems about BeadStore, for any number of clients and columns and any *)
(* statuses that clients send.                                             *)
(***************************************************************************)
EXTENDS BeadStore, TLAPS

-----------------------------------------------------------------------------
(* What the tables and the requests look like.                             *)

LEMMA TablesNameNoMarker ==
  ASSUME kind \in Kinds
  PROVE  Table \subseteq AllStatuses /\ "absent" \notin Table
         /\ "unread" \notin Table /\ "unset" \notin Table
  BY DEF Kinds, Table, AllStatuses, BEAD_TABLE_MAP, campaign_beads, lead_beads,
     asset_beads, competitor_beads, test_beads, icp_beads, journalist_beads,
     model_registry_beads, plugin_beads

LEMMA PluginTable ==
  kind = "plugin" => {"active", "disabled", "archived"} \subseteq Table
  BY DEF Kinds, Table, BEAD_TABLE_MAP, plugin_beads

LEMMA CreatedIsFirst ==
  ASSUME kind \in Kinds
  PROVE  \E s \in Table : Created = RowOf(s, 1)
  <1> USE DEF Kinds, Table, Created, BEAD_TABLE_MAP
  <1>1. CASE kind = "campaign" BY <1>1 DEF create_campaign, campaign_beads
  <1>2. CASE kind = "lead" BY <1>2 DEF create_lead, lead_beads
  <1>3. CASE kind = "asset" BY <1>3 DEF create_asset, asset_beads
  <1>4. CASE kind = "competitor" BY <1>4 DEF create_competitor, competitor_beads
  <1>5. CASE kind = "test" BY <1>5 DEF create_test, test_beads
  <1>6. CASE kind = "icp" BY <1>6 DEF create_icp, icp_beads
  <1>7. CASE kind = "journalist" BY <1>7 DEF create_journalist, journalist_beads
  <1>8. CASE kind = "model_registry"
    BY <1>8 DEF create_model_override, model_registry_beads
  <1>9. CASE kind = "plugin" BY <1>9 DEF register_plugin, plugin_beads
  <1>10. QED BY <1>1, <1>2, <1>3, <1>4, <1>5, <1>6, <1>7, <1>8, <1>9

\* A request keeps its shape for as long as the bead keeps its type.
LEMMA RequestsStay ==
  ASSUME kind' = kind
  PROVE  Requests' = Requests /\ Table' = Table /\ Created' = Created
  BY DEF Requests, Updates, Table, Created

LEMMA RequestTable ==
  ASSUME NEW q \in Requests \cup {Plain("none")}
  PROVE  /\ q.sends \subseteq Columns
         /\ q.guarded => q.op = "update" /\ kind \notin {"plugin", "model_registry"}
         /\ q.op \notin {"update", "config"} => q.sends = {}
         /\ q.op = "config" => q.status = "unset"
  <1>1. CASE q = Plain("none") \/ q \in {Plain("create"), Plain("archive")}
    BY <1>1 DEF Plain, Ask
  <1>2. CASE kind = "plugin" /\ q \notin {Plain("none"), Plain("create"), Plain("archive")}
    BY <1>2 DEF Requests, Plain, Ask
  <1>3. CASE kind = "model_registry" /\ q \notin {Plain("none"), Plain("create"), Plain("archive")}
    BY <1>3 DEF Requests, Updates, Plain, Ask
  <1>4. CASE /\ kind \notin {"plugin", "model_registry"}
             /\ q \notin {Plain("none"), Plain("create"), Plain("archive")}
    BY <1>4 DEF Requests, Updates, Plain, Ask
  <1>5. QED BY <1>1, <1>2, <1>3, <1>4
-----------------------------------------------------------------------------
(* What a request may make of the row it has read.                         *)

\* A row that a transaction has read is one that its table admits.
Admitted ==
  \A r \in Sessions : snap[r] # NoRow => snap[r].status \in {"absent"} \cup Table

\* The row that request r asks the commit for.
Draft(r, new) ==
  /\ new \in Row /\ new.status \in {"absent"} \cup Table
  /\ snap[r] # Absent
  /\ new.version \in {snap[r].version, snap[r].version + 1}
  /\ \A c \in Columns :
       new.data[c] = IF c \in request[r].sends THEN r ELSE snap[r].data[c]
  /\ new.version = snap[r].version => kind = "plugin" /\ request[r].sends = {}
  /\ kind \in {"plugin", "model_registry"} /\ snap[r].status = "archived"
       => new.status = "archived"

Writes(r) ==
  /\ Open(r) /\ ~Stale(r)
  /\ \/ AnswersOnly(r) /\ request[r].sends = {}
     \/ \E new \in Row : Draft(r, new) /\ Commits(r, new)

LEMMA SnapIsRow ==
  ASSUME TypeOK, NEW r \in Sessions, Open(r)
  PROVE  /\ snap[r] \in Row
         /\ request[r].sends \subseteq Columns
         /\ request[r].guarded => request[r].op = "update"
         /\ request[r].op \notin {"update", "config"} => request[r].sends = {}
         /\ request[r].op = "config" => request[r].status = "unset"
  <1>1. request[r] \in Requests \cup {Plain("none")}
    BY DEF TypeOK
  <1>2. QED
    BY <1>1, RequestTable DEF TypeOK, Open

LEMMA UpdatedIsDraft ==
  ASSUME TypeOK, Admitted, NEW r \in Sessions, Open(r), snap[r] # Absent,
         Storable(r),
         kind \in {"plugin", "model_registry"} /\ snap[r].status = "archived"
           => request[r].status = "unset"
  PROVE  Updated(r) \in Row /\ Draft(r, Updated(r))
  <1> DEFINE new == Updated(r)
  <1>1. snap[r] \in Row /\ request[r].sends \subseteq Columns
    BY SnapIsRow
  <1>2. snap[r].status \in {"absent"} \cup Table /\ Table \subseteq AllStatuses
    BY TablesNameNoMarker DEF Admitted, Open, TypeOK
  <1>3. new.status \in {"absent"} \cup Table
    BY <1>2 DEF Updated, Storable
  <1>4. new.version = snap[r].version + 1 /\ snap[r].version \in Nat
    BY <1>1 DEF Updated, Row
  <1>5. new.data = [c \in Columns |-> IF c \in request[r].sends THEN r ELSE snap[r].data[c]]
    BY DEF Updated
  <1>6. new \in Row
    <2>1. new.data \in [Columns -> Sessions \cup {Nobody}]
      BY <1>1, <1>5 DEF Row
    <2>2. QED
      BY <1>2, <1>3, <1>4, <2>1 DEF Updated, Row
  <1>7. kind \in {"plugin", "model_registry"} /\ snap[r].status = "archived"
          => new.status = "archived"
    BY DEF Updated
  <1>8. QED
    BY <1>3, <1>4, <1>5, <1>6, <1>7 DEF Draft

LEMMA UpdateWrites ==
  ASSUME TypeOK, Admitted, NEW r \in Sessions, NEW k \in Kinds \ {"plugin"},
         Update(r, k), k = "model_registry" => snap[r].status = "active"
  PROVE  Writes(r)
  <1>1. Open(r) /\ ~Stale(r) /\ snap[r] # Absent /\ kind = k
    BY DEF Update, Serves
  <1>2. CASE Sends(r)
    <2>1. Storable(r) /\ Commits(r, Updated(r))
      BY <1>2 DEF Update
    <2>2. Updated(r) \in Row /\ Draft(r, Updated(r))
      BY <1>1, <2>1, UpdatedIsDraft
    <2>3. QED
      BY <1>1, <2>1, <2>2 DEF Writes
  <1>3. CASE ~Sends(r)
    BY <1>1, <1>3 DEF Update, Sends, Writes
  <1>4. QED
    BY <1>2, <1>3

\* A change of the status alone.
LEMMA StatusIsDraft ==
  ASSUME TypeOK, NEW r \in Sessions, Open(r), snap[r] # Absent,
         request[r].op \notin {"update", "config"},
         NEW new \in Row, new.status \in Table, new.data = snap[r].data,
         new.version \in {snap[r].version, snap[r].version + 1},
         new.version = snap[r].version => kind = "plugin",
         kind \in {"plugin", "model_registry"} /\ snap[r].status = "archived"
           => new.status = "archived"
  PROVE  Draft(r, new)
  <1>1. request[r].sends = {}
    BY SnapIsRow
  <1>2. QED
    BY <1>1 DEF Draft

LEMMA PluginStatusWrites ==
  ASSUME TypeOK, NEW r \in Sessions,
         enable_plugin(r) \/ disable_plugin(r) \/ unregister_plugin(r)
  PROVE  Writes(r)
  <1>1. /\ Open(r) /\ kind = "plugin" /\ snap[r].status \notin {"absent", "archived"}
        /\ request[r].op \in {"enable", "disable", "unregister"}
        /\ \E s \in {"active", "disabled", "archived"} :
             Commits(r, [snap[r] EXCEPT !.status = s])
    BY DEF enable_plugin, disable_plugin, unregister_plugin, Serves
  <1>2. PICK s \in {"active", "disabled", "archived"} :
          Commits(r, [snap[r] EXCEPT !.status = s])
    BY <1>1
  <1> DEFINE new == [snap[r] EXCEPT !.status = s]
  <1>3. snap[r] \in Row /\ ~request[r].guarded
    BY <1>1, SnapIsRow
  <1>4. s \in Table /\ s \in AllStatuses
    BY <1>1, PluginTable, TablesNameNoMarker DEF TypeOK
  <1>5. /\ new \in Row /\ new.status = s /\ new.data = snap[r].data
        /\ new.version = snap[r].version
    BY <1>3, <1>4 DEF Row
  <1>6. snap[r] # Absent
    BY <1>1 DEF Absent, RowOf
  <1>7. Draft(r, new)
    BY <1>1, <1>4, <1>5, <1>6, StatusIsDraft
  <1>8. QED
    BY <1>1, <1>2, <1>3, <1>5, <1>7 DEF Writes, Stale

LEMMA ArchiveWrites ==
  ASSUME TypeOK, NEW r \in Sessions, archive_bead(r)
  PROVE  Writes(r)
  <1>1. Open(r) /\ request[r].op = "archive"
    BY DEF archive_bead
  <1>2. snap[r] \in Row /\ ~request[r].guarded /\ request[r].sends = {}
    BY <1>1, SnapIsRow
  <1>3. CASE snap[r] = Absent
    BY <1>1, <1>2, <1>3 DEF archive_bead, Writes, Stale
  <1>4. CASE snap[r] # Absent
    <2> DEFINE new == [status |-> "archived", version |-> snap[r].version + 1,
                    data |-> snap[r].data]
    <2>1. "archived" \in Table /\ Commits(r, new)
      BY <1>4 DEF archive_bead
    <2>2. "archived" \in AllStatuses
      BY <2>1, TablesNameNoMarker DEF TypeOK
    <2>3. /\ new.status = "archived" /\ new.version = snap[r].version + 1
          /\ new.data = snap[r].data /\ new \in Row
      BY <1>2, <2>2 DEF Row
    <2>4. Draft(r, new)
      <3>1. snap[r].version + 1 # snap[r].version
        BY <1>2 DEF Row
      <3>2. QED
        BY <1>1, <1>4, <2>1, <2>3, <3>1, StatusIsDraft
    <2>5. QED
      BY <1>1, <1>2, <2>1, <2>3, <2>4 DEF Writes, Stale
  <1>5. QED
    BY <1>3, <1>4

LEMMA ConfigWrites ==
  ASSUME TypeOK, Admitted, NEW r \in Sessions, update_plugin_config(r)
  PROVE  Writes(r)
  <1>1. /\ Open(r) /\ snap[r] # Absent /\ request[r].op = "config"
        /\ Commits(r, Updated(r))
    BY DEF update_plugin_config, Serves
  <1>2. request[r].status = "unset" /\ ~request[r].guarded
    BY <1>1, SnapIsRow
  <1>3. Updated(r) \in Row /\ Draft(r, Updated(r))
    BY <1>1, <1>2, UpdatedIsDraft DEF Storable
  <1>4. QED
    BY <1>1, <1>2, <1>3 DEF Writes, Stale

\* The steps of a request: they leave the row alone, create it, or write it.
Aside(r) == (Receive(r) \/ View(r) \/ Read(r) \/ Refuse(r) \/ Fail(r)) /\ UNCHANGED <<kind, row>>

LEMMA StepKinds ==
  ASSUME TypeOK, Admitted, Next
  PROVE  \E r \in Sessions : Aside(r) \/ Create(r) \/ Writes(r)
  <1>1. PICK r \in Sessions :
          \/ Receive(r) \/ View(r) \/ Read(r) \/ Create(r) \/ archive_bead(r)
          \/ update_campaign(r) \/ update_lead(r) \/ update_asset(r)
          \/ update_competitor(r) \/ update_test(r) \/ update_icp(r)
          \/ update_journalist(r) \/ update_model_config(r)
          \/ update_plugin_config(r) \/ enable_plugin(r) \/ disable_plugin(r)
          \/ unregister_plugin(r) \/ Refuse(r) \/ Fail(r)
    BY DEF Next
  <1>2. CASE Receive(r) BY <1>2 DEF Receive, Aside
  <1>3. CASE View(r) BY <1>3 DEF View, Aside
  <1>4. CASE Read(r) BY <1>4 DEF Read, Aside
  <1>5. CASE Refuse(r) BY <1>5 DEF Refuse, Ends, Aside
  <1>6. CASE Fail(r) BY <1>6 DEF Fail, Ends, Aside
  <1>7. CASE \/ update_campaign(r) \/ update_lead(r) \/ update_asset(r)
             \/ update_competitor(r) \/ update_test(r) \/ update_icp(r)
             \/ update_journalist(r) \/ update_model_config(r)
    <2>1. \E k \in Kinds \ {"plugin"} :
            Update(r, k) /\ (k = "model_registry" => snap[r].status = "active")
      BY <1>7 DEF update_campaign, update_lead, update_asset, update_competitor,
         update_test, update_icp, update_journalist, update_model_config, Kinds,
         BEAD_TABLE_MAP
    <2>2. QED
      BY <2>1, UpdateWrites
  <1>8. CASE archive_bead(r)
    BY <1>8, ArchiveWrites
  <1>9. CASE update_plugin_config(r)
    BY <1>9, ConfigWrites
  <1>10. CASE enable_plugin(r) \/ disable_plugin(r) \/ unregister_plugin(r)
    BY <1>10, PluginStatusWrites
  <1>11. QED
    BY <1>1, <1>2, <1>3, <1>4, <1>5, <1>6, <1>7, <1>8, <1>9, <1>10
-----------------------------------------------------------------------------
(* Type correctness.                                                       *)

LEMMA TypeFrame ==
  ASSUME TypeOK, kind' = kind, row' \in Row, row'.status \in {"absent"} \cup Table,
         phase' \in [Sessions -> Phase],
         request' \in [Sessions -> Requests \cup {Plain("none")}],
         seen' \in [Sessions -> Row \cup {NoRow}], snap' \in [Sessions -> Row \cup {NoRow}]
  PROVE  TypeOK'
  BY RequestsStay DEF TypeOK

LEMMA FirstRows ==
  ASSUME kind \in Kinds
  PROVE  /\ Absent \in Row /\ Absent.version = 0 /\ Absent.status = "absent"
         /\ Created \in Row /\ Created.version = 1 /\ Created.status \in Table
         /\ \A c \in Columns : Absent.data[c] = Nobody /\ Created.data[c] = Nobody
  BY CreatedIsFirst, TablesNameNoMarker DEF Absent, RowOf, Row

LEMMA StoreInit == Init => TypeOK /\ Admitted
  <1>1. SUFFICES ASSUME Init PROVE TypeOK /\ Admitted
    OBVIOUS
  <1>2. row \in Row /\ row.status \in {"absent"} \cup Table
    BY <1>1, FirstRows DEF Init
  <1>3. QED
    BY <1>1, <1>2 DEF Init, TypeOK, Admitted, Phase

\* What the commit of a request does.
LEMMA CommitFacts ==
  ASSUME TypeOK, NEW r \in Sessions, Open(r), NEW new \in Row, Draft(r, new),
         Commits(r, new)
  PROVE  /\ row' \in Row /\ row'.status \in {"absent"} \cup Table
         /\ row'.status = IF new.status # snap[r].status THEN new.status ELSE row.status
         /\ row'.version = IF new.version # snap[r].version
                           THEN new.version ELSE row.version
         /\ \A c \in Columns :
              row'.data[c] = IF new.data[c] # snap[r].data[c]
                             THEN new.data[c] ELSE row.data[c]
         /\ \E p \in {"answered", "failed"} : Ends(r, p)
  <1>1. row \in Row /\ row.status \in {"absent"} \cup Table
    BY DEF TypeOK
  <1>2. row' = Merge(snap[r], new, row)
    BY DEF Commits
  <1>3. /\ row'.status = IF new.status # snap[r].status THEN new.status ELSE row.status
        /\ row'.version = IF new.version # snap[r].version
                          THEN new.version ELSE row.version
        /\ row'.data = [c \in Columns |-> IF new.data[c] # snap[r].data[c]
                                         THEN new.data[c] ELSE row.data[c]]
    BY <1>2 DEF Merge
  <1>4. row'.status \in {"absent"} \cup Table
    BY <1>1, <1>3 DEF Draft
  <1>5. row' \in Row
    BY <1>1, <1>2, <1>3 DEF Row, Merge
  <1>6. QED
    BY <1>3, <1>4, <1>5 DEF Commits

LEMMA TypeStep ==
  ASSUME TypeOK, Admitted, [Next]_vars
  PROVE  TypeOK' /\ Admitted'
  <1>1. CASE UNCHANGED vars
    BY <1>1, RequestsStay DEF vars, TypeOK, Admitted
  <1>2. CASE Next
    <2>1. PICK r \in Sessions : Aside(r) \/ Create(r) \/ Writes(r)
      BY <1>2, StepKinds
    <2>2. CASE Receive(r)
      <3>1. kind' = kind /\ request' \in [Sessions -> Requests \cup {Plain("none")}]
        BY <2>2 DEF Receive, TypeOK
      <3>2. phase' \in [Sessions -> Phase]
        BY <2>2 DEF Receive, TypeOK, Phase
      <3>3. TypeOK'
        BY <2>2, <3>1, <3>2, TypeFrame DEF Receive, TypeOK
      <3>4. QED
        BY <2>2, <3>1, <3>3, RequestsStay DEF Receive, Admitted
    <2>3. CASE View(r)
      <3>1. kind' = kind /\ seen' \in [Sessions -> Row \cup {NoRow}]
        BY <2>3 DEF View, TypeOK
      <3>2. TypeOK'
        BY <2>3, <3>1, TypeFrame DEF View, TypeOK
      <3>3. QED
        BY <2>3, <3>1, <3>2, RequestsStay DEF View, Admitted
    <2>4. CASE Read(r)
      <3>1. kind' = kind /\ snap' \in [Sessions -> Row \cup {NoRow}]
        BY <2>4 DEF Read, TypeOK
      <3>2. TypeOK'
        BY <2>4, <3>1, TypeFrame DEF Read, TypeOK
      <3>3. QED
        BY <2>4, <3>1, <3>2, RequestsStay DEF Read, Admitted, TypeOK
    <2>5. ASSUME NEW p \in Phase, Ends(r, p), row' \in Row,
                 row'.status \in {"absent"} \cup Table
          PROVE  TypeOK' /\ Admitted'
      <3>1. kind' = kind /\ snap' \in [Sessions -> Row \cup {NoRow}]
            /\ phase' \in [Sessions -> Phase]
        BY <2>5 DEF Ends, TypeOK
      <3>2. TypeOK'
        BY <2>5, <3>1, TypeFrame DEF Ends, TypeOK
      <3>3. QED
        BY <2>5, <3>1, <3>2, RequestsStay DEF Ends, Admitted, TypeOK
    <2>6. CASE Refuse(r) \/ Fail(r)
      BY <2>5, <2>6 DEF Refuse, Fail, Phase, TypeOK
    <2>7. CASE Create(r)
      BY <2>5, <2>7, FirstRows DEF Create, Phase, TypeOK
    <2>8. CASE Writes(r)
      <3>1. CASE AnswersOnly(r)
        BY <2>5, <3>1 DEF AnswersOnly, Phase, TypeOK
      <3>2. CASE \E new \in Row : Draft(r, new) /\ Commits(r, new)
        <4>1. PICK new \in Row : Draft(r, new) /\ Commits(r, new)
          BY <3>2
        <4>2. /\ row' \in Row /\ row'.status \in {"absent"} \cup Table
              /\ \E p \in Phase : Ends(r, p)
          BY <2>8, <4>1, CommitFacts DEF Writes, Phase
        <4>3. QED
          BY <2>5, <4>2
      <3>3. QED
        BY <2>8, <3>1, <3>2 DEF Writes
    <2>9. QED
      BY <2>1, <2>2, <2>3, <2>4, <2>6, <2>7, <2>8 DEF Aside
  <1>3. QED
    BY <1>1, <1>2

\* Every variable keeps its shape, and the row a status its table admits.
THEOREM StoreTypeCorrect == Spec => []TypeOK
  <1>1. TypeOK /\ Admitted /\ [Next]_vars => TypeOK' /\ Admitted'
    BY TypeStep
  <1>2. QED
    BY StoreInit, <1>1, PTL DEF Spec
-----------------------------------------------------------------------------
(* What a commit may do to the row.                                        *)

\* A row that changes is created, or written by a request that ends with it.
LEMMA RowChanges ==
  ASSUME TypeOK, Admitted, [Next]_vars, row' # row
  PROVE  \E r \in Sessions :
           \/ Create(r)
           \/ /\ Open(r) /\ ~Open(r)' /\ ~Stale(r)
              /\ \E new \in Row : Draft(r, new) /\ Commits(r, new)
  <1>1. PICK r \in Sessions : Aside(r) \/ Create(r) \/ Writes(r)
    BY StepKinds DEF vars
  <1>2. Create(r) \/ Writes(r)
    BY <1>1 DEF Aside
  <1>3. CASE Writes(r)
    <2>1. PICK new \in Row : Draft(r, new) /\ Commits(r, new)
      BY <1>3 DEF Writes, AnswersOnly
    <2>2. phase'[r] # "serving"
      BY <2>1 DEF Commits, Ends, TypeOK
    <2>3. QED
      BY <1>3, <2>1, <2>2 DEF Writes, Open
  <1>4. QED
    BY <1>2, <1>3

\* The commit is taken only if, of each cell it changes, the row holds what the
\* transaction read or what it writes.
LEMMA NoConflict ==
  ASSUME NEW r \in Sessions, NEW new \in Row, Commits(r, new)
  PROVE  /\ new.status # snap[r].status => row.status \in {snap[r].status, new.status}
         /\ new.version # snap[r].version
              => row.version \in {snap[r].version, new.version}
         /\ \A c \in Columns : new.data[c] # snap[r].data[c]
              => row.data[c] \in {snap[r].data[c], new.data[c]}
  BY DEF Commits, Conflict

LEMMA ArchivedStep ==
  ASSUME TypeOK, Admitted, [Next]_vars, row.status = "archived", row'.status # "archived"
  PROVE  \E r \in Sessions : /\ Open(r) /\ ~Open(r)' /\ snap[r].status = "archived"
                             /\ kind \notin {"plugin", "model_registry"}
  <1>1. PICK r \in Sessions :
           \/ Create(r)
           \/ /\ Open(r) /\ ~Open(r)' /\ ~Stale(r)
              /\ \E new \in Row : Draft(r, new) /\ Commits(r, new)
    BY RowChanges
  <1>2. ~Create(r)
    BY DEF Create, Absent, RowOf
  <1>3. PICK new \in Row : Draft(r, new) /\ Commits(r, new)
    BY <1>1, <1>2
  <1>4. row'.status = IF new.status # snap[r].status THEN new.status ELSE row.status
    BY <1>1, <1>2, <1>3, CommitFacts
  <1>5. new.status # snap[r].status /\ new.status # "archived"
    BY <1>4
  <1>6. snap[r].status = "archived"
    BY <1>3, <1>5, NoConflict
  <1>7. kind \notin {"plugin", "model_registry"}
    BY <1>3, <1>5, <1>6 DEF Draft
  <1>8. QED
    BY <1>1, <1>2, <1>6, <1>7

\* No request that was under way when the bead was archived brings it back.
THEOREM ArchivedIsLeftKnowinglyHolds == Spec => ArchivedIsLeftKnowingly
  <1>1. TypeOK /\ Admitted /\ [Next]_vars => TypeOK' /\ Admitted'
    BY TypeStep
  <1>2. TypeOK /\ Admitted /\ [Next]_vars =>
          [row.status = "archived" /\ row'.status # "archived" =>
             \E r \in Sessions : Open(r) /\ ~Open(r)' /\ snap[r].status = "archived"]_vars
    BY ArchivedStep
  <1>3. QED
    BY StoreInit, <1>1, <1>2, PTL DEF Spec, ArchivedIsLeftKnowingly

\* What is found by its name keeps the status archived; a plugin that is
\* archived can still be configured.
THEOREM ArchivedByNameStaysHolds == Spec => ArchivedByNameStays
  <1>1. TypeOK /\ Admitted /\ [Next]_vars => TypeOK' /\ Admitted'
    BY TypeStep
  <1>2. TypeOK /\ Admitted /\ [Next]_vars =>
          [row.status = "archived" /\ kind \in {"plugin", "model_registry"}
             => row'.status = "archived"]_vars
    BY ArchivedStep
  <1>3. QED
    BY StoreInit, <1>1, <1>2, PTL DEF Spec, ArchivedByNameStays

LEMMA VersionStep ==
  ASSUME TypeOK, Admitted, [Next]_vars, row'.data # row.data
  PROVE  \/ row'.version > row.version
         \/ \E r \in Sessions : Open(r) /\ ~Open(r)' /\ snap[r].version < row.version
  <1>1. PICK r \in Sessions :
           \/ Create(r)
           \/ /\ Open(r) /\ ~Open(r)' /\ ~Stale(r)
              /\ \E new \in Row : Draft(r, new) /\ Commits(r, new)
    BY RowChanges
  <1>2. CASE Create(r)
    BY <1>2, FirstRows DEF Create, TypeOK
  <1>3. CASE ~Create(r)
    <2>1. PICK new \in Row : Draft(r, new) /\ Commits(r, new)
      BY <1>1, <1>3
    <2>2. snap[r] \in Row /\ row \in Row
      BY <1>1, <1>3, SnapIsRow DEF TypeOK
    <2>3. row'.version = IF new.version # snap[r].version
                         THEN new.version ELSE row.version
      BY <1>1, <1>3, <2>1, CommitFacts
    <2>4. new.version = snap[r].version + 1
      <3>1. SUFFICES ASSUME new.version = snap[r].version PROVE FALSE
        BY <2>1 DEF Draft
      <3>2. \A c \in Columns : new.data[c] = snap[r].data[c]
        BY <2>1, <3>1 DEF Draft
      <3>3. row' = Merge(snap[r], new, row)
        BY <2>1 DEF Commits
      <3>4. row'.data = [c \in Columns |-> row.data[c]]
        BY <3>2, <3>3 DEF Merge
      <3>5. row.data = [c \in Columns |-> row.data[c]]
        BY <2>2 DEF Row
      <3>6. QED
        BY <3>4, <3>5
    <2>5. snap[r].version \in Nat /\ row.version \in Nat
      BY <2>2 DEF Row
    <2>6. row.version \in {snap[r].version, new.version}
      BY <2>1, <2>4, <2>5, NoConflict
    <2>7. QED
      BY <1>1, <1>3, <2>3, <2>4, <2>5, <2>6
  <1>4. QED
    BY <1>2, <1>3

\* A change of the data shows in the version, merges under one version aside.
THEOREM VersionTellsChangeHolds == Spec => VersionTellsChange
  <1>1. TypeOK /\ Admitted /\ [Next]_vars => TypeOK' /\ Admitted'
    BY TypeStep
  <1>2. TypeOK /\ Admitted /\ [Next]_vars =>
          [row'.data # row.data =>
             \/ row'.version > row.version
             \/ \E r \in Sessions :
                  Open(r) /\ ~Open(r)' /\ snap[r].version < row.version]_vars
    BY VersionStep
  <1>3. QED
    BY StoreInit, <1>1, <1>2, PTL DEF Spec, VersionTellsChange
-----------------------------------------------------------------------------
(* Optimistic locking.                                                     *)

\* What stands in a row was put there by requests that have ended, each under a
\* version above the one its client had seen.
Stamped(image) ==
  \A x \in Sessions, c \in Columns : image.data[c] = x =>
    /\ phase[x] \in {"answered", "failed"}
    /\ seen[x] # NoRow => image.version > seen[x].version

\* Who has seen the bead guards its update with a version from 1 on.
SeenByGuards ==
  \A r \in Sessions : seen[r] # NoRow =>
    request[r].guarded /\ phase[r] # "idle" /\ seen[r] \in Row /\ seen[r].version >= 1

\* An accepted update stands in the row for as long as its version is the last.
Accepted(r) ==
  phase[r] = "answered" /\ seen[r] # NoRow /\ request[r].sends # {}

Stands ==
  \A r \in Sessions : Accepted(r) =>
    /\ row.version > seen[r].version
    /\ row.version = seen[r].version + 1 => \A c \in request[r].sends : row.data[c] = r

\* Without a row nobody has read one; a row's version starts at 1.
Numbered ==
  \/ row = Absent /\ \A r \in Sessions : snap[r] \in {NoRow, Absent}
  \/ row.version >= 1

LockInv ==
  /\ TypeOK /\ Admitted
  /\ Numbered
  /\ SeenByGuards
  /\ Stamped(row)
  /\ \A r \in Sessions : snap[r] # NoRow => phase[r] = "serving" /\ Stamped(snap[r])
  /\ Stands
  /\ OneUpdatePerVersion

LEMMA LockInit == Init => LockInv
  <1>1. SUFFICES ASSUME Init PROVE LockInv
    OBVIOUS
  <1>2. /\ TypeOK /\ Admitted /\ row \in {Absent, Created}
        /\ \A r \in Sessions : phase[r] = "idle" /\ seen[r] = NoRow /\ snap[r] = NoRow
    BY <1>1, StoreInit DEF Init
  <1>3. Numbered
    BY <1>2, FirstRows DEF Numbered, TypeOK
  <1>4. Stamped(row)
    BY <1>2, FirstRows, StoreAssumption DEF Stamped, TypeOK
  <1>5. QED
    BY <1>2, <1>3, <1>4 DEF LockInv, SeenByGuards, Stands, Accepted, OneUpdatePerVersion

\* What a row holds of the requests is not disturbed by a step that ends none of
\* them otherwise, and shows no bead to one that has ended.
LEMMA StampedStays ==
  ASSUME NEW image, Stamped(image),
         \A x \in Sessions : phase[x] \in {"answered", "failed"} =>
           phase'[x] = phase[x] /\ seen'[x] = seen[x]
  PROVE  \A x \in Sessions, c \in Columns : image.data[c] = x =>
           /\ phase'[x] \in {"answered", "failed"}
           /\ seen'[x] # NoRow => image.version > seen'[x].version
  BY DEF Stamped

\* Steps before the end of a request: they leave the row alone.
LEMMA LockAside ==
  ASSUME LockInv, NEW r \in Sessions, Receive(r) \/ View(r) \/ Read(r), TypeOK', Admitted'
  PROVE  LockInv'
  <1>1. row' = row /\ phase[r] \in {"idle", "serving"} /\ kind' = kind
    BY DEF Receive, View, Read
  <1>2. \A x \in Sessions : x # r =>
          phase'[x] = phase[x] /\ seen'[x] = seen[x] /\ request'[x] = request[x]
          /\ snap'[x] = snap[x]
    BY DEF LockInv, TypeOK, Receive, View, Read
  <1>3. phase'[r] = "serving"
    BY DEF LockInv, TypeOK, Receive, View, Read
  <1>4. \A x \in Sessions : phase[x] \in {"answered", "failed"} =>
          phase'[x] = phase[x] /\ seen'[x] = seen[x]
    BY <1>1, <1>2
  <1>5. NoRow' = NoRow /\ Absent' = Absent /\ Row' = Row
    BY DEF NoRow, Absent, RowOf, Row
  <1>6. SeenByGuards'
    <2>1. CASE Receive(r)
      <3>1. seen[r] = NoRow /\ seen' = seen
        BY <2>1 DEF Receive, LockInv, SeenByGuards
      <3>2. QED
        BY <1>2, <1>3, <1>5, <3>1 DEF LockInv, SeenByGuards
    <2>2. CASE View(r)
      <3>1. /\ seen'[r] = row /\ row \in Row /\ row.version >= 1 /\ request'[r].guarded
        BY <2>2 DEF View, LockInv, Numbered, TypeOK
      <3>2. QED
        BY <1>2, <1>3, <1>5, <3>1 DEF LockInv, SeenByGuards
    <2>3. CASE Read(r)
      BY <2>3, <1>2, <1>3, <1>5 DEF Read, LockInv, SeenByGuards
    <2>4. QED
      BY <2>1, <2>2, <2>3
  <1>7. Stamped(row)'
    BY <1>1, <1>4, <1>5, StampedStays DEF LockInv, Stamped
  <1>8. \A x \in Sessions : snap'[x] # NoRow => phase'[x] = "serving" /\ Stamped(snap[x])'
    <2>1. TAKE x \in Sessions
    <2>2. HAVE snap'[x] # NoRow
    <2>3. phase'[x] = "serving"
      BY <1>2, <1>3, <2>2 DEF LockInv
    <2>4. snap'[x] = row \/ (snap'[x] = snap[x] /\ snap[x] # NoRow)
      BY <1>2, <2>2 DEF LockInv, TypeOK, Receive, View, Read
    <2>5. Stamped(row) /\ (snap[x] # NoRow => Stamped(snap[x]))
      BY DEF LockInv
    <2>6. Stamped(snap[x])'
      BY <1>4, <1>5, <2>4, <2>5, StampedStays DEF Stamped
    <2>7. QED
      BY <2>3, <2>6
  <1>9. \A x \in Sessions : Accepted(x)' =>
          x # r /\ Accepted(x) /\ seen'[x] = seen[x] /\ request'[x] = request[x]
    BY <1>2, <1>3, <1>5 DEF Accepted
  <1>10. Stands'
    BY <1>1, <1>9 DEF LockInv, Stands
  <1>11. OneUpdatePerVersion'
    BY <1>2, <1>3, <1>5 DEF LockInv, OneUpdatePerVersion
  <1>12. Numbered'
    <2>1. \A x \in Sessions : snap'[x] \in {snap[x], row}
      BY <1>2 DEF LockInv, TypeOK, Receive, View, Read
    <2>2. QED
      BY <1>1, <1>5, <2>1 DEF LockInv, Numbered
  <1>13. QED
    BY <1>6, <1>7, <1>8, <1>10, <1>11, <1>12 DEF LockInv

\* The end of a request that adds no accepted update, or adds this one.
LEMMA LockEnds ==
  ASSUME LockInv, NEW r \in Sessions, phase[r] = "serving",
         NEW p \in {"answered", "failed", "refused"}, Ends(r, p),
         TypeOK', Admitted', row' = Absent \/ row'.version >= 1,
         row'.version >= row.version,
         \A x \in Sessions, c \in Columns : row'.data[c] = x =>
           \/ row.data[c] = x
           \/ /\ x = r /\ p \in {"answered", "failed"}
              /\ seen[r] # NoRow => row'.version > seen[r].version,
         \A x \in Sessions : Accepted(x) /\ row'.version = seen[x].version + 1 =>
           row.version = row'.version /\ \A c \in request[x].sends : row'.data[c] = row.data[c],
         p = "answered" /\ seen[r] # NoRow /\ request[r].sends # {} =>
           /\ row'.version > seen[r].version
           /\ \A c \in request[r].sends : row'.data[c] = r
           /\ \A x \in Sessions : Accepted(x) /\ seen[x].version = seen[r].version =>
                request[x].sends \cap request[r].sends = {}
  PROVE  LockInv'
  <1>1. UNCHANGED <<kind, request, seen>> /\ snap'[r] = NoRow /\ phase'[r] = p
    BY DEF Ends, LockInv, TypeOK
  <1>2. \A x \in Sessions : x # r => phase'[x] = phase[x] /\ snap'[x] = snap[x]
    BY DEF Ends, LockInv, TypeOK
  <1>3. \A x \in Sessions : phase[x] \in {"answered", "failed"} =>
          phase'[x] = phase[x] /\ seen'[x] = seen[x]
    BY <1>1, <1>2
  <1>4. NoRow' = NoRow /\ Absent' = Absent /\ Row' = Row
    BY DEF NoRow, Absent, RowOf, Row
  <1>5. SeenByGuards'
    BY <1>1, <1>2, <1>4 DEF LockInv, SeenByGuards
  <1>6. row.version \in Nat /\ row'.version \in Nat
        /\ \A x \in Sessions : seen[x] # NoRow => seen[x].version \in Nat
                               /\ seen[x].version >= 1
    <2>1. row \in Row /\ row' \in Row /\ SeenByGuards
      BY <1>4 DEF LockInv, TypeOK
    <2>2. QED
      BY <2>1 DEF Row, SeenByGuards
  <1>7. Stamped(row)'
    <2>1. SUFFICES ASSUME NEW x \in Sessions, NEW c \in Columns, row'.data[c] = x
                   PROVE  /\ phase'[x] \in {"answered", "failed"}
                          /\ seen'[x] # NoRow => row'.version > seen'[x].version
      BY <1>4 DEF Stamped
    <2>2. CASE row.data[c] = x
      BY <1>1, <1>3, <1>6, <2>2, StampedStays DEF LockInv, Stamped
    <2>3. CASE row.data[c] # x
      BY <1>1, <2>1, <2>3
    <2>4. QED
      BY <2>2, <2>3
  <1>8. \A x \in Sessions : snap'[x] # NoRow => phase'[x] = "serving" /\ Stamped(snap[x])'
    <2>1. TAKE x \in Sessions
    <2>2. HAVE snap'[x] # NoRow
    <2>3. x # r /\ snap'[x] = snap[x] /\ phase'[x] = phase[x]
      BY <1>1, <1>2, <2>2
    <2>4. phase[x] = "serving" /\ Stamped(snap[x])
      BY <2>2, <2>3 DEF LockInv
    <2>5. Stamped(snap[x])'
      BY <1>3, <1>4, <2>3, <2>4, StampedStays DEF Stamped
    <2>6. QED
      BY <2>3, <2>4, <2>5
  <1>9. \A x \in Sessions : Accepted(x)' => IF x = r THEN p = "answered" /\ seen[r] # NoRow
                                                           /\ request[r].sends # {}
                                            ELSE Accepted(x)
    BY <1>1, <1>2, <1>4 DEF Accepted
  <1>10. Stands'
    <2>1. SUFFICES ASSUME NEW x \in Sessions, Accepted(x)'
                   PROVE  /\ row'.version > seen[x].version
                          /\ row'.version = seen[x].version + 1 =>
                               \A c \in request[x].sends : row'.data[c] = x
      BY <1>1 DEF Stands
    <2>2. CASE x = r
      BY <1>9, <2>1, <2>2
    <2>3. CASE x # r
      <3>1. Accepted(x) /\ row.version > seen[x].version /\ seen[x].version \in Nat
        BY <1>6, <1>9, <2>1, <2>3 DEF LockInv, Stands, Accepted
      <3>2. row'.version > seen[x].version
        BY <1>6, <3>1
      <3>3. row'.version = seen[x].version + 1 =>
              \A c \in request[x].sends : row'.data[c] = x
        BY <3>1 DEF LockInv, Stands
      <3>4. QED
        BY <3>2, <3>3
    <2>4. QED
      BY <2>2, <2>3
  <1>11. OneUpdatePerVersion'
    <2>1. SUFFICES ASSUME NEW x \in Sessions, NEW q \in Sessions, x # q,
                          seen[x] # NoRow, seen[x].version = seen[q].version,
                          phase'[x] = "answered", phase'[q] = "answered"
                   PROVE  request[x].sends \cap request[q].sends = {}
      BY <1>1, <1>4 DEF OneUpdatePerVersion
    <2>2. seen[q] # NoRow
      BY <1>6, <2>1 DEF NoRow, RowOf
    <2>3. CASE x # r /\ q # r
      BY <1>2, <2>1, <2>3 DEF LockInv, OneUpdatePerVersion
    <2>4. CASE request[x].sends = {} \/ request[q].sends = {}
      BY <2>4
    <2>5. CASE request[x].sends # {} /\ request[q].sends # {} /\ x = r
      <3>1. Accepted(q) /\ p = "answered"
        BY <1>1, <1>2, <2>1, <2>2, <2>5 DEF Accepted
      <3>2. QED
        BY <2>1, <2>5, <3>1
    <2>6. CASE request[x].sends # {} /\ request[q].sends # {} /\ q = r
      <3>1. Accepted(x) /\ p = "answered"
        BY <1>1, <1>2, <2>1, <2>6 DEF Accepted
      <3>2. QED
        BY <2>1, <2>2, <2>6, <3>1
    <2>7. QED
      BY <2>3, <2>4, <2>5, <2>6
  <1>12. Numbered'
    <2>1. CASE row' = Absent
      <3>1. row.version = 0 /\ row'.version = 0
        BY <1>6, <2>1, FirstRows DEF LockInv, TypeOK
      <3>2. row = Absent /\ \A x \in Sessions : snap[x] \in {NoRow, Absent}
        BY <3>1 DEF LockInv, Numbered
      <3>3. QED
        BY <1>1, <1>2, <1>4, <2>1, <3>2 DEF Numbered
    <2>2. CASE row'.version >= 1
      BY <2>2 DEF Numbered
    <2>3. QED
      BY <2>1, <2>2
  <1>13. QED
    BY <1>5, <1>7, <1>8, <1>10, <1>11, <1>12 DEF LockInv

LEMMA LockCommit ==
  ASSUME LockInv, NEW r \in Sessions, Open(r), ~Stale(r), NEW new \in Row, Draft(r, new),
         Commits(r, new), TypeOK', Admitted'
  PROVE  LockInv'
  <1>1. TypeOK /\ phase[r] = "serving" /\ snap[r] \in Row /\ row \in Row /\ row' \in Row
    BY SnapIsRow DEF LockInv, Open, TypeOK, Row
  <1>2. /\ row'.version = IF new.version # snap[r].version
                          THEN new.version ELSE row.version
        /\ \A c \in Columns :
             row'.data[c] = IF new.data[c] # snap[r].data[c]
                            THEN new.data[c] ELSE row.data[c]
    BY <1>1, CommitFacts
  <1>3. PICK p \in {"answered", "failed"} : Ends(r, p)
    BY DEF Commits
  <1>4. /\ row.version \in Nat /\ row'.version \in Nat /\ snap[r].version \in Nat
        /\ new.version \in {snap[r].version, snap[r].version + 1}
        /\ \A c \in Columns :
             new.data[c] = IF c \in request[r].sends THEN r ELSE snap[r].data[c]
        /\ request[r].sends # {} => new.version = snap[r].version + 1
        /\ request[r].sends \subseteq Columns
    BY <1>1, SnapIsRow DEF Draft, Row
  <1>5. /\ new.version # snap[r].version => row.version \in {snap[r].version, new.version}
        /\ \A c \in Columns : new.data[c] # snap[r].data[c]
              => row.data[c] \in {snap[r].data[c], new.data[c]}
    BY NoConflict
  <1>6. row'.version >= row.version
    BY <1>2, <1>4, <1>5
  <1>7. \A c \in Columns : row.data[c] # r /\ snap[r].data[c] # r
    BY <1>1 DEF LockInv, Stamped, Open
  <1>8. seen[r] # NoRow => snap[r].version = seen[r].version
    BY DEF LockInv, SeenByGuards, Stale
  <1>9. row'.version >= 1
    <2>1. snap[r] \notin {NoRow, Absent}
      BY DEF Draft, Open
    <2>2. row.version >= 1
      BY <2>1 DEF LockInv, Numbered
    <2>3. QED
      BY <1>4, <1>6, <2>2
  <1>10. \A x \in Sessions, c \in Columns : row'.data[c] = x =>
           \/ row.data[c] = x
           \/ /\ x = r /\ p \in {"answered", "failed"}
              /\ seen[r] # NoRow => row'.version > seen[r].version
    BY <1>2, <1>3, <1>4, <1>8
  <1>11. \A x \in Sessions : Accepted(x) =>
           /\ x # r /\ seen[x] # NoRow /\ seen[x].version \in Nat
           /\ request[x].sends \subseteq Columns
           /\ row.version > seen[x].version
           /\ row.version = seen[x].version + 1 =>
                \A c \in request[x].sends : row.data[c] = x
    <2>1. \A x \in Sessions : request[x].sends \subseteq Columns
      BY <1>1, RequestTable DEF TypeOK
    <2>2. \A x \in Sessions : seen[x] # NoRow => seen[x].version \in Nat
      BY DEF LockInv, SeenByGuards, Row
    <2>3. QED
      BY <1>1, <2>1, <2>2 DEF LockInv, Stands, Accepted
  <1>12. \A x \in Sessions, c \in Columns :
           row.data[c] = x /\ seen[x] # NoRow /\ c \in request[r].sends
             => snap[r].version > seen[x].version
    <2>1. SUFFICES ASSUME NEW x \in Sessions, NEW c \in Columns, row.data[c] = x,
                          seen[x] # NoRow, c \in request[r].sends
                   PROVE  snap[r].version > seen[x].version
      OBVIOUS
    <2>2. new.data[c] = r /\ new.data[c] # snap[r].data[c]
      BY <1>4, <1>7, <2>1
    <2>3. snap[r].data[c] = x
      BY <1>5, <1>7, <2>1, <2>2
    <2>4. QED
      BY <2>1, <2>3 DEF LockInv, Stamped, Open
  <1>13. \A x \in Sessions : Accepted(x) /\ row'.version = seen[x].version + 1 =>
           row.version = row'.version
           /\ \A c \in request[x].sends : row'.data[c] = row.data[c]
    <2>1. SUFFICES ASSUME NEW x \in Sessions, Accepted(x),
                          row'.version = seen[x].version + 1
                   PROVE  row.version = row'.version
                          /\ \A c \in request[x].sends : row'.data[c] = row.data[c]
      OBVIOUS
    <2>2. row.version = row'.version
      BY <1>4, <1>6, <1>11, <2>1
    <2>3. ASSUME NEW c \in request[x].sends, row'.data[c] # row.data[c]
          PROVE  FALSE
      <3>1. c \in Columns /\ row.data[c] = x
        BY <1>11, <2>1, <2>2, <2>3
      <3>2. c \in request[r].sends
        BY <1>2, <1>4, <2>3, <3>1
      <3>3. snap[r].version > seen[x].version
        BY <1>11, <1>12, <2>1, <3>1, <3>2
      <3>4. row'.version = snap[r].version + 1
        BY <1>2, <1>4, <3>2
      <3>5. QED
        BY <1>4, <1>11, <2>1, <3>3, <3>4
    <2>4. QED
      BY <2>2, <2>3
  <1>14. seen[r] # NoRow /\ request[r].sends # {} =>
           /\ row'.version > seen[r].version
           /\ \A c \in request[r].sends : row'.data[c] = r
           /\ \A x \in Sessions : Accepted(x) /\ seen[x].version = seen[r].version =>
                request[x].sends \cap request[r].sends = {}
    <2>1. SUFFICES ASSUME seen[r] # NoRow, request[r].sends # {}
                   PROVE  /\ row'.version > seen[r].version
                          /\ \A c \in request[r].sends : row'.data[c] = r
                          /\ \A x \in Sessions :
                               Accepted(x) /\ seen[x].version = seen[r].version =>
                                 request[x].sends \cap request[r].sends = {}
      OBVIOUS
    <2>2. new.version = snap[r].version + 1 /\ snap[r].version = seen[r].version
      BY <1>4, <1>8, <2>1
    <2>3. row'.version > seen[r].version
      BY <1>2, <1>4, <2>2
    <2>4. \A c \in request[r].sends : row'.data[c] = r
      BY <1>2, <1>4, <1>7
    <2>5. ASSUME NEW x \in Sessions, Accepted(x), seen[x].version = seen[r].version,
                 NEW c \in request[x].sends \cap request[r].sends
          PROVE  FALSE
      <3>1. row.version = seen[x].version + 1
        BY <1>4, <1>5, <1>11, <2>2, <2>5
      <3>2. c \in Columns /\ row.data[c] = x
        BY <1>4, <1>11, <2>5, <3>1
      <3>3. snap[r].version > seen[x].version
        BY <1>11, <1>12, <2>5, <3>2
      <3>4. QED
        BY <1>4, <2>2, <2>5, <3>3
    <2>6. QED
      BY <2>3, <2>4, <2>5
  <1>15. QED
    BY <1>1, <1>3, <1>6, <1>9, <1>10, <1>13, <1>14, LockEnds

LEMMA LockStep ==
  ASSUME LockInv, [Next]_vars
  PROVE  LockInv'
  <1>1. TypeOK' /\ Admitted'
    BY TypeStep DEF LockInv
  <1>2. CASE UNCHANGED vars
    <2>1. NoRow' = NoRow /\ Absent' = Absent /\ Row' = Row
      BY DEF NoRow, Absent, RowOf, Row
    <2>2. QED
      BY <1>1, <1>2, <2>1 DEF vars, LockInv, Numbered, SeenByGuards, Stamped, Stands, Accepted,
         OneUpdatePerVersion
  <1>3. CASE Next
    <2>1. PICK r \in Sessions : Aside(r) \/ Create(r) \/ Writes(r)
      BY <1>3, StepKinds DEF LockInv
    <2>2. CASE Receive(r) \/ View(r) \/ Read(r)
      BY <1>1, <2>2, LockAside
    <2>3. ASSUME phase[r] = "serving", NEW p \in {"answered", "failed", "refused"},
                 Ends(r, p), row' = row, p # "answered" \/ request[r].sends = {}
          PROVE  LockInv'
      BY <1>1, <2>3, LockEnds DEF LockInv, Numbered, TypeOK, Row, Stands
    <2>4. CASE Refuse(r) \/ Fail(r)
      BY <2>3, <2>4 DEF Refuse, Fail, Open
    <2>5. CASE Create(r)
      <3>1. /\ phase[r] = "serving" /\ row = Absent /\ row' = Created
            /\ request[r].sends = {}
        BY <2>5, SnapIsRow DEF Create, Open, LockInv
      <3>2. PICK p \in {"answered", "failed"} : Ends(r, p)
        BY <2>5 DEF Create
      <3>3. /\ row'.version = 1 /\ row.version = 0
            /\ \A c \in Columns : row'.data[c] \notin Sessions
        BY <3>1, FirstRows, StoreAssumption DEF LockInv, TypeOK
      <3>4. \A x \in Sessions : ~Accepted(x)
        <4>1. \A x \in Sessions : seen[x] # NoRow => seen[x].version \in Nat
          BY DEF LockInv, SeenByGuards, Row
        <4>2. QED
          BY <3>3, <4>1 DEF LockInv, Stands, Accepted
      <3>5. QED
        BY <1>1, <3>1, <3>2, <3>3, <3>4, LockEnds
    <2>6. CASE Writes(r)
      <3>1. CASE AnswersOnly(r) /\ request[r].sends = {}
        BY <2>3, <2>6, <3>1 DEF Writes, Open, AnswersOnly
      <3>2. CASE \E new \in Row : Draft(r, new) /\ Commits(r, new)
        BY <1>1, <2>6, <3>2, LockCommit DEF Writes
      <3>3. QED
        BY <2>6, <3>1, <3>2 DEF Writes
    <2>7. QED
      BY <2>1, <2>2, <2>4, <2>5, <2>6 DEF Aside
  <1>4. QED
    BY <1>2, <1>3

\* Of the accepted updates that send one version, no two set the same column.
THEOREM OneUpdatePerVersionHolds == Spec => []OneUpdatePerVersion
  <1>1. LockInv /\ [Next]_vars => LockInv'
    BY LockStep
  <1>2. LockInv => OneUpdatePerVersion
    BY DEF LockInv
  <1>3. QED
    BY LockInit, <1>1, <1>2, PTL DEF Spec
=============================================================================
