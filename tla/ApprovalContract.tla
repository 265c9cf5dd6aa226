--------------------------- MODULE ApprovalContract --------------------------
(***************************************************************************)
(* What the approval queue promises the people who use it, as if every     *)
(* request and every sweep were one indivisible step: an item is closed    *)
(* once, by somebody of its organization or by its expiry; what closes it  *)
(* is logged and, where a request says so, reported in that same step.     *)
(***************************************************************************)
CONSTANTS Items, Users, NoOne, OrgOf

VARIABLES
  status,     (* status[i]: absent, pending, or how item i was closed      *)
  overdue,    (* the items that may expire                                 *)
  log,        (* the entries written: [action, item, user_id]              *)
  reported    (* the pairs <<i, d>>: somebody was told that i is decided d *)

vars == <<status, overdue, log, reported>>

Decisions == {"pending", "approved", "rejected", "sent_back", "expired"}

Write(d, i, u) == [action |-> d, item |-> i, user_id |-> u]

Init ==
  /\ status = [i \in Items |-> "absent"]
  /\ overdue = {}
  /\ log = {}
  /\ reported = {}

Submit(i) ==
  /\ status[i] = "absent"
  /\ status' = [status EXCEPT ![i] = "pending"]
  /\ log' = log \cup {Write("created", i, NoOne)}
  /\ UNCHANGED <<overdue, reported>>

PassExpiry(i) ==
  /\ status[i] # "absent"
  /\ overdue' = overdue \cup {i}
  /\ UNCHANGED <<status, log, reported>>

\* User u closes item i as d, or agrees with somebody who just did.  To decide
\* "pending" signs the log and closes nothing.
Decide(u, i, d) ==
  /\ OrgOf[i] = OrgOf[u]
  /\ \/ d = "pending" /\ status[i] # "absent" /\ status' = status
     \/ /\ d # "pending" /\ status[i] \in {"pending", d}
        /\ status' = [status EXCEPT ![i] = d]
  /\ log' = log \cup {Write(d, i, u)}
  /\ reported' \in {reported, reported \cup {<<i, d>>}}
  /\ UNCHANGED overdue

\* The items S expire together; no user is named, and nobody is told.
Expire(S) ==
  /\ \A i \in S : status[i] \in {"pending", "expired"}
  /\ status' = [i \in Items |-> IF i \in S THEN "expired" ELSE status[i]]
  /\ log' = log \cup {Write("expired", i, NoOne) : i \in S}
  /\ UNCHANGED <<overdue, reported>>

Next ==
  \/ \E i \in Items : Submit(i) \/ PassExpiry(i)
  \/ \E u \in Users, i \in Items, d \in Decisions : Decide(u, i, d)
  \/ \E S \in SUBSET overdue : Expire(S)

Spec == Init /\ [][Next]_vars
=============================================================================
