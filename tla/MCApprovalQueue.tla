--------------------------- MODULE MCApprovalQueue ---------------------------
(***************************************************************************)
(* Small instances of ApprovalQueue for TLC.                               *)
(***************************************************************************)
EXTENDS ApprovalQueue

CONSTANTS i1, i2, ann, bob, eve, acme, other

\* eve is of another organization than the items and the other users.
Orgs == [x \in Items \cup Users |-> IF x = eve THEN other ELSE acme]

Ask(u, s, d) == [user |-> u, items |-> s, decision |-> d]

\* Single and bulk decisions, an expiry by hand, and a foreign user.
SomeRequests == {
  Ask(ann, <<i1, i2>>, "approved"),
  Ask(bob, <<i1>>, "rejected"),
  Ask(bob, <<i2, i1>>, "sent_back"),
  Ask(bob, <<i1>>, "expired"),
  Ask(ann, <<i1>>, "pending"),
  Ask(eve, <<i1>>, "approved")}
=============================================================================
