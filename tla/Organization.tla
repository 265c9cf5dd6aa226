----------------------------- MODULE Organization -----------------------------
(***************************************************************************)
(* One organization, its members, their tokens, its settings:              *)
(* apps/api/routers/orgs.py, login and refresh of apps/api/routers/auth.py *)
(* and the authentication of apps/api/dependencies.py.                     *)
(*                                                                         *)
(* A request has the role that its access token carries, which was read    *)
(* when the token was issued.  What its handler checks is the snapshot of  *)
(* its transaction; the commit merges what it changed into what others     *)
(* committed since and is refused when both changed the same thing         *)
(* differently.  Settings merge key by key: a database that takes the      *)
(* document as one cell refuses more, which is one of the reasons of Fail. *)
(***************************************************************************)
EXTENDS Naturals

CONSTANTS
  Org,        (* the organization                                          *)
  Users,      (* the users that have signed up                             *)
  Founder,    (* the one that signed up with the organization's name       *)
  Invites,    (* bound: the invitations there may be                       *)
  Keys,       (* the top-level keys of the organization's settings         *)
  Values,     (* what a settings key may be set to                         *)
  Unset,      (* a key that the settings do not have                       *)
  Documents,  (* bound: the settings that requests send                    *)
  Sessions,   (* bound: the requests served at a time                      *)
  MaxOrders   (* bound: the requests of administrators                     *)

Document == [Keys -> Values \cup {Unset}]

ASSUME OrganizationAssumption ==
  /\ Founder \in Users /\ Unset \notin Values
  /\ Users \cap Invites = {} /\ Org \notin Users \cup Invites
  /\ Documents \subseteq Document /\ MaxOrders \in Nat

VARIABLES
  member,    (* member[u]: u's role in org_members, or "none"              *)
  invite,    (* invite[v]: the email (its user), role and status           *)
  settings,  (* settings[k], as committed                                  *)
  tokens,    (* tokens[u]: the roles that u's live access tokens carry     *)
  request,   (* request[s]: what session s serves                          *)
  snap,      (* snap[s]: what its open transaction sees                    *)
  orders     (* the number of administrators' requests so far              *)

vars == <<member, invite, settings, tokens, request, snap, orders>>
-----------------------------------------------------------------------------
Role == {"owner", "admin", "member"}
Standing == Role \cup {"none"}

NoInvite == [email |-> Founder, role |-> "member", status |-> "absent"]
Invitation == [email : Users, role : Role,
               status : {"absent", "pending", "cancelled", "accepted"}]

Empty == [k \in Keys |-> Unset]

\* by, role: the user and the role its token carries; whom: the user, invitation
\* or organization it is about; to: the role it gives; doc: the settings it sends.
Ask(op, by, role, whom, to, doc) ==
  [op |-> op, by |-> by, role |-> role, whom |-> whom, to |-> to, doc |-> doc]

Idle == Ask("idle", Founder, "none", Founder, "none", Empty)

\* What an administrator's token may ask.
Orders(by, role) ==
  {Ask(op, by, role, u, r, Empty) : op \in {"invite", "update"}, u \in Users, r \in Role}
  \cup {Ask("remove", by, role, u, "none", Empty) : u \in Users}
  \cup {Ask("cancel", by, role, v, "none", Empty) : v \in Invites}
  \cup {Ask(op, by, role, Org, "none", d) : op \in {"patch", "replace"}, d \in Documents}

\* A user logs in, or refreshes its token, which may have expired.
Logins(u) == {Ask("login", u, "none", u, "none", Empty)}
Refreshes(u) ==
  {Ask("refresh", u, r, u, "none", Empty) :
      r \in IF tokens[u] = {} THEN {"none"} ELSE tokens[u]}

\* require_role(["owner", "admin"])
AdminUser(role) == role \in {"owner", "admin"}

Unread == [open |-> FALSE, members |-> [u \in Users |-> "none"],
           invites |-> [v \in Invites |-> NoInvite], settings |-> Empty]

\* The rows that the statements of request q read.
Rows(q) ==
  [open |-> TRUE,
   members |-> [u \in Users |-> IF u = q.whom THEN member[u] ELSE "none"],
   invites |-> IF q.op \in {"invite", "cancel"} THEN invite ELSE Unread.invites,
   settings |-> IF q.op \in {"patch", "replace"} THEN settings ELSE Empty]
-----------------------------------------------------------------------------
Serves(s, op) == snap[s].open /\ request[s].op = op

\* Both sides changed an entry of a table since the snapshot, differently.
Conflict(old, new, now) ==
  \E x \in DOMAIN old : new[x] # old[x] /\ now[x] \notin {old[x], new[x]}

\* The entries this transaction changed win.
Merge(old, new, now) ==
  [x \in DOMAIN old |-> IF new[x] # old[x] THEN new[x] ELSE now[x]]

Ends(s) ==
  /\ request' = [request EXCEPT ![s] = Idle]
  /\ snap' = [snap EXCEPT ![s] = Unread]
  /\ UNCHANGED orders

\* Faulty variant: the check and the UPDATE are in transactions of their own.
CommitMember_Apart(s, u, standing) ==
  /\ member' = [member EXCEPT ![u] = standing]
  /\ Ends(s) /\ UNCHANGED <<invite, settings, tokens>>

\* The commit of a change to the members, the invitations or the settings.
CommitMember(s, u, standing) ==
  LET new == [snap[s].members EXCEPT ![u] = standing]
  IN  /\ ~Conflict(snap[s].members, new, member)
      /\ member' = Merge(snap[s].members, new, member)
      /\ Ends(s) /\ UNCHANGED <<invite, settings, tokens>>

CommitInvite(s, v, record) ==
  LET new == [snap[s].invites EXCEPT ![v] = record]
  IN  /\ ~Conflict(snap[s].invites, new, invite)
      /\ invite' = Merge(snap[s].invites, new, invite)
      /\ Ends(s) /\ UNCHANGED <<member, settings, tokens>>

\* Faulty variant: the settings are read in a transaction of their own.
CommitSettings_Apart(s, new) ==
  /\ settings' = new
  /\ Ends(s) /\ UNCHANGED <<member, invite, tokens>>

CommitSettings(s, new) ==
  /\ ~Conflict(snap[s].settings, new, settings)
  /\ settings' = Merge(snap[s].settings, new, settings)
  /\ Ends(s) /\ UNCHANGED <<member, invite, tokens>>
-----------------------------------------------------------------------------
\* The founder's signup made the organization and its first member; how other
\* users became members is not in this code.
Init ==
  /\ member \in {m \in [Users -> Standing] : m[Founder] = "owner"}
  /\ invite = [v \in Invites |-> NoInvite]
  /\ settings = Empty
  /\ tokens = [u \in Users |-> IF u = Founder THEN {"owner"} ELSE {}]
  /\ request = [s \in Sessions |-> Idle]
  /\ snap = [s \in Sessions |-> Unread]
  /\ orders = 0

\* A request of an administrator; the token's role is not looked up again.
Order(s) ==
  /\ request[s] = Idle /\ orders < MaxOrders
  /\ \E u \in Users : \E r \in {r \in tokens[u] : AdminUser(r)} :
       \E q \in Orders(u, r) : request' = [request EXCEPT ![s] = q]
  /\ orders' = orders + 1
  /\ UNCHANGED <<member, invite, settings, tokens, snap>>

AskToken(s) ==
  /\ request[s] = Idle
  /\ \E u \in Users : \E q \in Logins(u) \cup Refreshes(u) :
       request' = [request EXCEPT ![s] = q]
  /\ UNCHANGED <<member, invite, settings, tokens, snap, orders>>

\* The first read of the request's transaction.
Read(s) ==
  /\ request[s] # Idle /\ ~snap[s].open
  /\ snap' = [snap EXCEPT ![s] = Rows(request[s])]
  /\ UNCHANGED <<member, invite, settings, tokens, request, orders>>

\* Faulty variant: a user without a membership gets a token that says so.
Issue_AnyRole(s, role) ==
  /\ tokens' = [tokens EXCEPT ![request[s].by] = @ \cup {role}]
  /\ Ends(s) /\ UNCHANGED <<member, invite, settings>>

\* A token for a user without a membership names no organization: no route
\* takes it.
Issue(s, role) ==
  /\ tokens' = [tokens EXCEPT ![request[s].by] = @ \cup ({role} \ {"none"})]
  /\ Ends(s) /\ UNCHANGED <<member, invite, settings>>

login(s) == Serves(s, "login") /\ Issue(s, snap[s].members[request[s].by])

\* Faulty variant: the new token has the role of the one it replaces.
refresh_token_SameRole(s) == Serves(s, "refresh") /\ Issue(s, request[s].role)

refresh_token(s) == Serves(s, "refresh") /\ Issue(s, snap[s].members[request[s].by])

\* The clock passes the expiry of u's tokens with role r.
Expire(u, r) ==
  /\ r \in tokens[u]
  /\ tokens' = [tokens EXCEPT ![u] = @ \ {r}]
  /\ UNCHANGED <<member, invite, settings, request, snap, orders>>

\* The user is no member and has no pending invitation, as far as this
\* transaction sees: two invitations may cross.
CanInvite(s) ==
  LET q == request[s]
  IN  /\ q.to = "owner" => q.role = "owner"
      /\ snap[s].members[q.whom] = "none"
      /\ \A v \in Invites : ~(/\ snap[s].invites[v].email = q.whom
                              /\ snap[s].invites[v].status = "pending")

invite_member(s) ==
  /\ Serves(s, "invite") /\ CanInvite(s)
  /\ \E v \in Invites :
       /\ invite[v].status = "absent"
       /\ CommitInvite(s, v, [email |-> request[s].whom, role |-> request[s].to,
                              status |-> "pending"])

\* Faulty variant: only promotions are reserved to owners.
CanUpdate_Promotion(s) ==
  /\ snap[s].members[request[s].whom] # "none"
  /\ request[s].to = "owner" => request[s].role = "owner"

CanUpdate(s) ==
  /\ snap[s].members[request[s].whom] # "none"
  /\ "owner" \in {request[s].to, snap[s].members[request[s].whom]}
       => request[s].role = "owner"

update_member(s) ==
  /\ Serves(s, "update") /\ CanUpdate(s)
  /\ CommitMember(s, request[s].whom, request[s].to)

CanRemove(s) ==
  /\ request[s].whom # request[s].by
  /\ snap[s].members[request[s].whom] # "none"
  /\ snap[s].members[request[s].whom] = "owner" => request[s].role = "owner"

remove_member(s) ==
  /\ Serves(s, "remove") /\ CanRemove(s)
  /\ CommitMember(s, request[s].whom, "none")

CanCancel(s) == snap[s].invites[request[s].whom].status = "pending"

cancel_invitation(s) ==
  /\ Serves(s, "cancel") /\ CanCancel(s)
  /\ CommitInvite(s, request[s].whom,
                  [snap[s].invites[request[s].whom] EXCEPT !.status = "cancelled"])

\* The new keys go into the settings that were read.
update_organization_settings(s) ==
  /\ Serves(s, "patch")
  /\ CommitSettings(s, [k \in Keys |-> IF request[s].doc[k] # Unset
                                       THEN request[s].doc[k] ELSE snap[s].settings[k]])

\* PATCH of the organization takes the settings as a whole.
update_current_organization(s) ==
  Serves(s, "replace") /\ CommitSettings(s, request[s].doc)

\* An answer with an error, and nothing changed.
Refuse(s) ==
  /\ \/ Serves(s, "invite") /\ ~CanInvite(s)
     \/ Serves(s, "update") /\ ~CanUpdate(s)
     \/ Serves(s, "remove") /\ ~CanRemove(s)
     \/ Serves(s, "cancel") /\ ~CanCancel(s)
  /\ Ends(s) /\ UNCHANGED <<member, invite, settings, tokens>>

\* The commit is refused, the database fails or the process dies: rolled back.
Fail(s) ==
  /\ request[s] # Idle
  /\ Ends(s) /\ UNCHANGED <<member, invite, settings, tokens>>

\* A user accepts an invitation, by means that are not in this code; no request
\* about that user or invitation has a transaction of so long.
Accept(v) ==
  LET i == invite[v]
  IN  /\ i.status = "pending" /\ member[i.email] = "none"
      /\ \A s \in Sessions : snap[s].open => request[s].whom \notin {i.email, v}
      /\ member' = [member EXCEPT ![i.email] = i.role]
      /\ invite' = [invite EXCEPT ![v].status = "accepted"]
      /\ UNCHANGED <<settings, tokens, request, snap, orders>>

Next ==
  \/ \E s \in Sessions :
       \/ Order(s) \/ AskToken(s) \/ Read(s) \/ login(s) \/ refresh_token(s)
       \/ invite_member(s) \/ update_member(s) \/ remove_member(s)
       \/ cancel_invitation(s) \/ update_organization_settings(s)
       \/ update_current_organization(s) \/ Refuse(s) \/ Fail(s)
  \/ \E u \in Users, r \in Role : Expire(u, r)
  \/ \E v \in Invites : Accept(v)

Spec == Init /\ [][Next]_vars

\* Tokens expire with the clock.
FairSpec == Spec /\ \A u \in Users, r \in Role : WF_vars(Expire(u, r))
-----------------------------------------------------------------------------
\* Properties.

Op == {"idle", "login", "refresh", "invite", "update", "remove", "cancel", "patch", "replace"}

\* Every variable has its shape.
TypeOK ==
  /\ member \in [Users -> Standing]
  /\ invite \in [Invites -> Invitation]
  /\ settings \in Document
  /\ tokens \in [Users -> SUBSET Role]
  /\ request \in [Sessions -> [op : Op, by : Users, role : Standing,
                               whom : Users \cup Invites \cup {Org}, to : Standing, doc : Document]]
  /\ snap \in [Sessions -> [open : BOOLEAN, members : [Users -> Standing],
                            invites : [Invites -> Invitation], settings : Document]]
  /\ orders \in 0 .. MaxOrders

\* The session whose transaction ends in this step.
Ending(s) == snap[s].open /\ ~snap'[s].open

\* "Only owners can change owner roles", remove owners or invite owners: who is
\* an owner changes only by a request with an owner's token, or by accepting an
\* invitation that such a request made.  An administrator's request that read
\* the role before it changed does not get round this.
OwnersAnswerToOwners ==
  [][/\ \A u \in Users :
          (member[u] = "owner") # (member'[u] = "owner")
          => \/ \E s \in Sessions : Ending(s) /\ request[s].role = "owner"
             \/ \E v \in Invites :
                  /\ invite[v] = [email |-> u, role |-> "owner", status |-> "pending"]
                  /\ invite'[v].status = "accepted"
     /\ \A v \in Invites :
          invite[v].status = "absent" /\ invite'[v].role = "owner"
          => \E s \in Sessions : Ending(s) /\ request[s].role = "owner"]_vars

\* A user who is removed is back only with an invitation: a change of the role
\* that was under way does not restore the membership.
RemovedStaysOut ==
  [][\A u \in Users :
       member[u] = "none" /\ member'[u] # "none"
       => \E v \in Invites : /\ invite[v].email = u /\ invite[v].status = "pending"
                             /\ invite'[v].status = "accepted"]_vars

\* No change of the settings is lost to another: a key changes only by a request
\* that sends it, or by one that replaces the settings as they were.
SettingsAreNotLost ==
  [][\A k \in Keys :
       settings'[k] # settings[k]
       => \E s \in Sessions :
            /\ Ending(s)
            /\ \/ request[s].doc[k] # Unset
               \/ request[s].op = "replace" /\ snap[s].settings[k] = settings[k]]_vars

\* A role that a user has lost for good is in the end in no live token of it,
\* though tokens are not revoked and may be refreshed for ever.
LostRolesExpire ==
  \A u \in Users, r \in Role :
    <>[](member[u] # r) => <>[](r \notin tokens[u])
=============================================================================
