---------------------------- MODULE ApprovalQueue ----------------------------
(***************************************************************************)
(* The approval queue: apps/api/core/approval_store.py, the decision       *)
(* routes of apps/api/routers/approval.py and the hourly expiry of         *)
(* apps/api/core/deacon.py.                                                *)
(*                                                                         *)
(* Requests and sweeps are coroutines of several processes that meet only  *)
(* in the database.  A request reads and writes in one transaction up to   *)
(* each commit, so what it sees is the snapshot of its first read; the     *)
(* commit merges its changes cell by cell into what others committed since *)
(* and is refused when both changed a cell to different values.            *)
(***************************************************************************)
EXTENDS Naturals, Sequences

CONSTANTS
  Items,      (* the ids of the approval items                             *)
  Users,      (* the users who decide                                      *)
  NoOne,      (* NULL in decided_by and in the audit log's user_id         *)
  OrgOf,      (* the organization of each item and each user               *)
  Requests,   (* what a request may ask: [user, items, decision]           *)
  Sessions,   (* bound: the requests served, each in a database session    *)
  Sweepers    (* the runs of _check_approval_expiration that may overlap   *)

\* ApprovalDecision.decision is any ApprovalStatus, pending and expired too.
ApprovalStatus == {"pending", "approved", "rejected", "sent_back", "expired"}
Closed == ApprovalStatus \ {"pending"}

Row == [status : {"absent"} \cup ApprovalStatus, decided_by : Users \cup {NoOne}]

Processes == Sessions \cup Sweepers

Entry == [action : {"created"} \cup ApprovalStatus, item : Items,
          user_id : Users \cup {NoOne}]

RequestShape == [user : Users, items : Seq(Items), decision : ApprovalStatus]

ASSUME QueueAssumption ==
  /\ NoOne \notin Users
  /\ Requests \subseteq RequestShape
  /\ Sessions \cap Sweepers = {}

VARIABLES
  row,       (* row[i]: status and decided_by of item i, as committed       *)
  audit,     (* the entries in the audit log                                *)
  overdue,   (* the items whose expires_at is past                          *)
  phase,     (* phase[p]: idle, serving, answered or failed                 *)
  request,   (* request[r]: what session r is asked                         *)
  snap,      (* snap[p]: the rows that p's open transaction has read        *)
  handled,   (* handled[r]: how many of its items request r is done with    *)
  processed  (* processed[r]: the items it reports as processed             *)

vars == <<row, audit, overdue, phase, request, snap, handled, processed>>
-----------------------------------------------------------------------------
NoRows == [i \in {} |-> NoOne]
Open(p) == snap[p] # NoRows
Close(p) == snap' = [snap EXCEPT ![p] = NoRows]

\* The item request r handles next, while there is one.
Busy(r) == phase[r] = "serving" /\ handled[r] < Len(request[r].items)
Current(r) == request[r].items[handled[r] + 1]

\* Both sides changed a cell since the snapshot, to different values.
Conflict(old, new, now) ==
  \/ new.status # old.status /\ now.status \notin {old.status, new.status}
  \/ new.decided_by # old.decided_by
     /\ now.decided_by \notin {old.decided_by, new.decided_by}

\* What the merge makes of a row: the cells this transaction changed win.
Merge(old, new, now) ==
  [status |-> IF new.status # old.status THEN new.status ELSE now.status,
   decided_by |-> IF new.decided_by # old.decided_by
                  THEN new.decided_by ELSE now.decided_by]

\* Faulty variant: the status the item was read with is not looked at.
Decidable_AnyStatus(v) == v.status # "absent"

\* The check of make_decision and bulk_decide, of decide, and of its UPDATE.
Decidable(v) == v.status = "pending"

DecidedRow(r) ==
  [status |-> request[r].decision, decided_by |-> request[r].user]

\* Faulty variant: the entry does not name the user.
DecisionEntry_Unsigned(r) ==
  [action |-> request[r].decision, item |-> Current(r), user_id |-> NoOne]

DecisionEntry(r) ==
  [action |-> request[r].decision, item |-> Current(r),
   user_id |-> request[r].user]

\* Faulty variants: the sweep's SELECT loses its status condition, or compares
\* expires_at the wrong way.
Expirable_AnyStatus(i) == row[i].status # "absent" /\ i \in overdue
Expirable_NotYet(i) == row[i].status = "pending" /\ i \notin overdue

Expirable(i) == row[i].status = "pending" /\ i \in overdue

ExpiryEntry(i) == [action |-> "expired", item |-> i, user_id |-> NoOne]
CreatedEntry(i) == [action |-> "created", item |-> i, user_id |-> NoOne]
-----------------------------------------------------------------------------
Init ==
  /\ row = [i \in Items |-> [status |-> "absent", decided_by |-> NoOne]]
  /\ audit = {}
  /\ overdue = {}
  /\ phase = [p \in Processes |-> "idle"]
  /\ request \in [Sessions -> Requests]
  /\ snap = [p \in Processes |-> NoRows]
  /\ handled = [r \in Sessions |-> 0]
  /\ processed = [r \in Sessions |-> {}]

\* Faulty variant: the audit action ends up in the status column.
Create_WrongColumn(i) ==
  /\ row[i].status = "absent"
  /\ row' = [row EXCEPT ![i] = [status |-> "created", decided_by |-> NoOne]]
  /\ audit' = audit \cup {CreatedEntry(i)}
  /\ UNCHANGED <<overdue, phase, request, snap, handled, processed>>

\* create: an executor queues an item; row and audit entry in one commit.
Create(i) ==
  /\ row[i].status = "absent"
  /\ row' = [row EXCEPT ![i] = [status |-> "pending", decided_by |-> NoOne]]
  /\ audit' = audit \cup {CreatedEntry(i)}
  /\ UNCHANGED <<overdue, phase, request, snap, handled, processed>>

\* The clock passes expires_at of item i.
PassExpiry(i) ==
  /\ row[i].status # "absent" /\ i \notin overdue
  /\ overdue' = overdue \cup {i}
  /\ UNCHANGED <<row, audit, phase, request, snap, handled, processed>>

\* A request arrives: decide, approve, reject or bulk-decide.
Receive(r) ==
  /\ phase[r] = "idle"
  /\ phase' = [phase EXCEPT ![r] = "serving"]
  /\ UNCHANGED <<row, audit, overdue, request, snap, handled, processed>>

\* The first read of a request, or its first after a commit.
Read(r) ==
  /\ Busy(r) /\ ~Open(r)
  /\ snap' = [snap EXCEPT ![r] = row]
  /\ UNCHANGED <<row, audit, overdue, phase, request, handled, processed>>

\* Faulty variant: the organization of the item is not compared.
Allowed_AnyOrg(r) == Decidable(snap[r][Current(r)])

\* May request r act on the item, as the open transaction shows it?
Allowed(r) == /\ OrgOf[Current(r)] = OrgOf[request[r].user]
              /\ Decidable(snap[r][Current(r)])

\* The item is missing, another organization's or not pending: it is left
\* alone (404, 400 or a line in the bulk answer); the transaction stays open.
Skip(r) ==
  /\ Busy(r) /\ Open(r) /\ ~Allowed(r)
  /\ handled' = [handled EXCEPT ![r] = @ + 1]
  /\ UNCHANGED <<row, audit, overdue, phase, request, snap, processed>>

\* decide: update the item, log the decision, commit.
CommitDecision(r) ==
  LET i == Current(r)
  IN  /\ Busy(r) /\ Open(r) /\ Allowed(r)
      /\ ~Conflict(snap[r][i], DecidedRow(r), row[i])
      /\ row' = [row EXCEPT ![i] = Merge(snap[r][i], DecidedRow(r), row[i])]
      /\ audit' = audit \cup {DecisionEntry(r)}

Decide(r) ==
  /\ CommitDecision(r)
  /\ handled' = [handled EXCEPT ![r] = @ + 1]
  /\ processed' = [processed EXCEPT ![r] = @ \cup {Current(r)}]
  /\ Close(r)
  /\ UNCHANGED <<overdue, phase, request>>

\* The commit took effect, but the session heard an error.
LoseCommit(r) ==
  /\ CommitDecision(r)
  /\ phase' = [phase EXCEPT ![r] = "failed"]
  /\ Close(r)
  /\ UNCHANGED <<overdue, request, handled, processed>>

\* The commit is refused (two decisions made in different seconds also differ
\* in decided_at), the database fails or the process dies: rolled back.
Fail(r) ==
  /\ phase[r] = "serving"
  /\ phase' = [phase EXCEPT ![r] = "failed"]
  /\ Close(r)
  /\ UNCHANGED <<row, audit, overdue, request, handled, processed>>

Answer(r) ==
  /\ phase[r] = "serving" /\ ~Busy(r)
  /\ phase' = [phase EXCEPT ![r] = "answered"]
  /\ Close(r)
  /\ UNCHANGED <<row, audit, overdue, request, handled, processed>>

\* expire_items: its SELECT finds items to expire (else it returns).
BeginSweep(w) ==
  LET found == {i \in Items : Expirable(i)}
  IN  /\ phase[w] = "idle" /\ found # {}
      /\ phase' = [phase EXCEPT ![w] = "serving"]
      /\ snap' = [snap EXCEPT ![w] = [i \in found |-> row[i]]]
      /\ UNCHANGED <<row, audit, overdue, request, handled, processed>>

\* Its UPDATE, one audit entry for each item found, and the commit of it all.
CommitSweep(w) ==
  LET found == DOMAIN snap[w]
      expired == {i \in found : snap[w][i].status = "pending"}
      new(i) == [status |-> "expired", decided_by |-> snap[w][i].decided_by]
  IN  /\ phase[w] = "serving"
      /\ \A i \in expired : ~Conflict(snap[w][i], new(i), row[i])
      /\ row' = [i \in Items |-> IF i \in expired
                                 THEN Merge(snap[w][i], new(i), row[i])
                                 ELSE row[i]]
      /\ audit' = audit \cup {ExpiryEntry(i) : i \in found}
      /\ phase' = [phase EXCEPT ![w] = "idle"]
      /\ Close(w)
      /\ UNCHANGED <<overdue, request, handled, processed>>

\* One refused item, or a failure, rolls the whole sweep back.
FailSweep(w) ==
  /\ phase[w] = "serving"
  /\ phase' = [phase EXCEPT ![w] = "idle"]
  /\ Close(w)
  /\ UNCHANGED <<row, audit, overdue, request, handled, processed>>

Next ==
  \/ \E i \in Items : Create(i) \/ PassExpiry(i)
  \/ \E r \in Sessions : \/ Receive(r) \/ Read(r) \/ Skip(r) \/ Decide(r)
                         \/ LoseCommit(r) \/ Fail(r) \/ Answer(r)
  \/ \E w \in Sweepers : BeginSweep(w) \/ CommitSweep(w) \/ FailSweep(w)

Spec == Init /\ [][Next]_vars

\* The Deacon sweeps every hour, and the database does not refuse it for ever.
FairSpec ==
  /\ Spec
  /\ \A w \in Sweepers : /\ WF_vars(BeginSweep(w))
                         /\ WF_vars(CommitSweep(w) \/ FailSweep(w))
                         /\ SF_vars(CommitSweep(w))
-----------------------------------------------------------------------------
\* Properties.

\* Every variable has its shape.
TypeOK ==
  /\ row \in [Items -> Row]
  /\ audit \subseteq Entry
  /\ overdue \subseteq Items
  /\ phase \in [Processes -> {"idle", "serving", "answered", "failed"}]
  /\ request \in [Sessions -> Requests]
  /\ snap \in [Processes -> UNION {[S -> Row] : S \in SUBSET Items}]
  /\ handled \in [Sessions -> Nat]
  /\ processed \in [Sessions -> SUBSET Items]

\* The actions the audit log has for item i that close an item.
Closings(i) == {e \in audit : e.item = i /\ e.action \in Closed}

\* An item that has been decided or has expired keeps that status: neither a
\* decision nor a sweep that read it as pending can overtake another.
DecisionIsFinal ==
  [][\A i \in Items : row[i].status \in Closed
                        => row'[i].status = row[i].status]_vars

\* An item that a request reports as processed has the decision that request
\* made ("pending", which decides nothing, excepted), whoever else decided it.
ReportedIsRecorded ==
  \A r \in Sessions : \A i \in processed[r] :
    request[r].decision \in Closed => row[i].status = request[r].decision

\* The audit log tells what became of an item: it holds a closing entry for
\* each closed item, none for a pending one, and never one of another kind.
AuditTellsTheStatus ==
  \A i \in Items :
    /\ row[i].status \in Closed => Closings(i) # {}
    /\ \A e \in Closings(i) : e.action = row[i].status

\* An approval, rejection or return is signed: the log has an entry by the
\* user the row names ("signed with the authenticated user's identity").  An
\* item also "decided" as pending is excepted: two decisions of one second may
\* then merge into the status of one and the name of the other.
DecisionsAreSigned ==
  \A i \in Items :
    /\ row[i].status \in {"approved", "rejected", "sent_back"}
    /\ \A e \in audit : e.item = i => e.action # "pending"
    => \E e \in Closings(i) : e.user_id = row[i].decided_by /\ e.user_id # NoOne

\* An item past its expiry does not stay in the queue.
OverdueIsClosed ==
  \A i \in Items :
    (row[i].status = "pending" /\ i \in overdue) ~> row[i].status \in Closed

\* What the requests so far report as processed, with their decision.
Told == UNION {{<<i, request[r].decision>> : i \in processed[r]} : r \in Sessions}

\* The refinement of the contract.
Contract == INSTANCE ApprovalContract WITH
  status <- [i \in Items |-> row[i].status], log <- audit, reported <- Told

\* Reads, waits, merges and lost answers notwithstanding, the queue behaves as
\* if each request and each sweep were one step: an item is closed once, by its
\* own organization or after its expiry, with its log entry and its report.
QueueContractKept == Contract!Spec

\* "Make a decision on an approval item" (approved, rejected or sent_back):
\* an item reported as processed is no longer pending.  The code breaks this:
\* the route takes any ApprovalStatus, and "pending" closes nothing.
ProcessedIsDecided ==
  \A r \in Sessions : \A i \in processed[r] : row[i].status \in Closed
=============================================================================
