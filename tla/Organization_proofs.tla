-------------------------- MODULE Organization_proofs --------------------------
(***************************************************************************)
(* Theorems about Organization, for any users, invitations, settings and   *)
(* number of requests served at a time.                                    *)
(***************************************************************************)
EXTENDS Organization, TLAPS

-----------------------------------------------------------------------------
(* What a commit may change: an entry that its transaction read as it is.  *)

LEMMA SnapTypes ==
  ASSUME TypeOK, NEW s \in Sessions
  PROVE  /\ snap[s].members \in [Users -> Standing]
         /\ snap[s].invites \in [Invites -> Invitation]
         /\ snap[s].settings \in Document
         /\ request[s].by \in Users /\ request[s].role \in Standing
         /\ request[s].to \in Standing /\ request[s].doc \in Document
  BY DEF TypeOK

LEMMA MemberCommit ==
  ASSUME TypeOK, NEW s \in Sessions, NEW u, NEW standing \in Standing,
         CommitMember(s, u, standing)
  PROVE  /\ member' \in [Users -> Standing]
         /\ \A x \in Users :
              \/ member'[x] = member[x]
              \/ x = u /\ member[x] = snap[s].members[x] /\ member'[x] = standing
  <1> DEFINE new == [snap[s].members EXCEPT ![u] = standing]
  <1>1. /\ snap[s].members \in [Users -> Standing] /\ member \in [Users -> Standing]
        /\ member' = Merge(snap[s].members, new, member)
        /\ ~Conflict(snap[s].members, new, member)
    BY SnapTypes DEF TypeOK, CommitMember
  <1>2. \A x \in Users : new[x] = IF x = u THEN standing ELSE snap[s].members[x]
    BY <1>1
  <1>3. \A x \in Users :
          /\ new[x] # snap[s].members[x] => member[x] \in {snap[s].members[x], new[x]}
          /\ member'[x] = IF new[x] # snap[s].members[x] THEN new[x] ELSE member[x]
    BY <1>1 DEF Conflict, Merge
  <1>4. member' \in [Users -> Standing]
    <2>1. member' = [x \in Users |-> IF new[x] # snap[s].members[x]
                                     THEN new[x] ELSE member[x]]
      BY <1>1 DEF Merge
    <2>2. \A x \in Users : new[x] \in Standing
      BY <1>1, <1>2
    <2>3. QED
      BY <1>1, <2>1, <2>2
  <1>5. QED
    BY <1>2, <1>3, <1>4

LEMMA InviteCommit ==
  ASSUME TypeOK, NEW s \in Sessions, NEW v, NEW record,
         v \in Invites => record \in Invitation,
         CommitInvite(s, v, record)
  PROVE  /\ invite' \in [Invites -> Invitation]
         /\ \A x \in Invites :
              \/ invite'[x] = invite[x]
              \/ x = v /\ invite[x] = snap[s].invites[x] /\ invite'[x] = record
  <1> DEFINE new == [snap[s].invites EXCEPT ![v] = record]
  <1>1. /\ snap[s].invites \in [Invites -> Invitation] /\ invite \in [Invites -> Invitation]
        /\ invite' = Merge(snap[s].invites, new, invite)
        /\ ~Conflict(snap[s].invites, new, invite)
    BY SnapTypes DEF TypeOK, CommitInvite
  <1>2. \A x \in Invites : new[x] = IF x = v THEN record ELSE snap[s].invites[x]
    BY <1>1
  <1>3. \A x \in Invites :
          /\ new[x] # snap[s].invites[x] => invite[x] \in {snap[s].invites[x], new[x]}
          /\ invite'[x] = IF new[x] # snap[s].invites[x] THEN new[x] ELSE invite[x]
    BY <1>1 DEF Conflict, Merge
  <1>4. invite' \in [Invites -> Invitation]
    <2>1. invite' = [x \in Invites |-> IF new[x] # snap[s].invites[x]
                                       THEN new[x] ELSE invite[x]]
      BY <1>1 DEF Merge
    <2>2. \A x \in Invites : new[x] \in Invitation
      BY <1>1, <1>2
    <2>3. QED
      BY <1>1, <2>1, <2>2
  <1>5. QED
    BY <1>2, <1>3, <1>4

LEMMA SettingsCommit ==
  ASSUME TypeOK, NEW s \in Sessions, NEW new \in Document, CommitSettings(s, new)
  PROVE  /\ settings' \in Document
         /\ \A k \in Keys :
              \/ settings'[k] = settings[k]
              \/ /\ settings[k] = snap[s].settings[k] /\ settings'[k] = new[k]
                 /\ new[k] # snap[s].settings[k]
  <1>1. /\ snap[s].settings \in Document /\ settings \in Document
        /\ settings' = Merge(snap[s].settings, new, settings)
        /\ ~Conflict(snap[s].settings, new, settings)
    BY SnapTypes DEF TypeOK, CommitSettings
  <1>2. settings' = [k \in Keys |-> IF new[k] # snap[s].settings[k]
                                    THEN new[k] ELSE settings[k]]
    BY <1>1 DEF Merge, Document
  <1>3. \A k \in Keys : new[k] # snap[s].settings[k]
          => settings[k] \in {snap[s].settings[k], new[k]}
    BY <1>1 DEF Conflict, Document
  <1>4. QED
    BY <1>1, <1>2, <1>3 DEF Document
-----------------------------------------------------------------------------
(* Type correctness.                                                       *)

\* An invitation that is not there has no role to give.
AbsentIsBlank == \A v \in Invites : invite[v].status = "absent" => invite[v].role = "member"

\* Users are invited, to a role that members have.
Inviting(q) == q.op = "invite" => q.whom \in Users /\ q.to \in Role

TypeInv == TypeOK /\ AbsentIsBlank /\ \A s \in Sessions : Inviting(request[s])

Request == [op : Op, by : Users, role : Standing,
            whom : Users \cup Invites \cup {Org}, to : Standing, doc : Document]
Snapshot == [open : BOOLEAN, members : [Users -> Standing],
             invites : [Invites -> Invitation], settings : Document]

LEMMA AskedHasShape ==
  ASSUME NEW op \in Op, NEW by \in Users, NEW role \in Standing,
         NEW whom \in Users \cup Invites \cup {Org}, NEW to \in Standing,
         NEW doc \in Document,
         op = "invite" => whom \in Users /\ to \in Role
  PROVE  Ask(op, by, role, whom, to, doc) \in Request
         /\ Inviting(Ask(op, by, role, whom, to, doc))
  BY DEF Ask, Request, Inviting

LEMMA Blanks ==
  /\ Idle \in Request /\ Unread \in Snapshot /\ Empty \in Document
  /\ NoInvite \in Invitation /\ NoInvite.role = "member" /\ ~Unread.open
  /\ Inviting(Idle)
  <1>1. Empty \in Document
    BY DEF Empty, Document
  <1>2. NoInvite \in Invitation /\ NoInvite.role = "member"
    BY OrganizationAssumption DEF NoInvite, Invitation, Role
  <1>3. Idle \in Request /\ Inviting(Idle)
    BY <1>1, AskedHasShape, OrganizationAssumption DEF Idle, Standing, Op
  <1>4. Unread \in Snapshot /\ ~Unread.open
    BY <1>1, <1>2 DEF Unread, Snapshot, Standing
  <1>5. QED
    BY <1>1, <1>2, <1>3, <1>4

LEMMA OrganizationInit == Init => TypeInv
  BY Blanks, OrganizationAssumption DEF Init, TypeInv, TypeOK, AbsentIsBlank, Standing, Role,
     Request, Snapshot

LEMMA AskedIsRequest ==
  ASSUME TypeOK, NEW u \in Users, NEW r \in Role,
         NEW q \in Orders(u, r) \cup Logins(u) \cup Refreshes(u)
  PROVE  q \in Request /\ Inviting(q)
  <1>1. /\ r \in Standing /\ "none" \in Standing /\ Role \subseteq Standing
        /\ Empty \in Document /\ Documents \subseteq Document
    BY Blanks, OrganizationAssumption DEF Standing
  <1>2. CASE q \in {Ask(op, u, r, x, t, Empty) : op \in {"invite", "update"},
                     x \in Users, t \in Role}
    <2>1. PICK op \in {"invite", "update"}, x \in Users, t \in Role :
            q = Ask(op, u, r, x, t, Empty)
      BY <1>2
    <2>2. op \in Op /\ t \in Standing
      BY <1>1 DEF Op
    <2>3. QED
      BY <1>1, <2>1, <2>2, AskedHasShape
  <1>3. CASE q \in {Ask("remove", u, r, x, "none", Empty) : x \in Users}
    <2>1. PICK x \in Users : q = Ask("remove", u, r, x, "none", Empty)
      BY <1>3
    <2>2. QED
      BY <1>1, <2>1, AskedHasShape DEF Op
  <1>4. CASE q \in {Ask("cancel", u, r, v, "none", Empty) : v \in Invites}
    <2>1. PICK v \in Invites : q = Ask("cancel", u, r, v, "none", Empty)
      BY <1>4
    <2>2. QED
      BY <1>1, <2>1, AskedHasShape DEF Op
  <1>5. CASE q \in {Ask(op, u, r, Org, "none", d) : op \in {"patch", "replace"},
                     d \in Documents}
    <2>1. PICK op \in {"patch", "replace"}, d \in Documents :
            q = Ask(op, u, r, Org, "none", d)
      BY <1>5
    <2>2. op \in Op /\ op # "invite" /\ d \in Document
      BY <1>1 DEF Op
    <2>3. QED
      BY <1>1, <2>1, <2>2, AskedHasShape
  <1>6. CASE q \in Logins(u)
    <2>1. q = Ask("login", u, "none", u, "none", Empty)
      BY <1>6 DEF Logins
    <2>2. QED
      BY <1>1, <2>1, AskedHasShape DEF Op
  <1>7. CASE q \in Refreshes(u)
    <2>1. PICK t \in IF tokens[u] = {} THEN {"none"} ELSE tokens[u] :
            q = Ask("refresh", u, t, u, "none", Empty)
      BY <1>7 DEF Refreshes
    <2>2. t \in Standing
      BY <2>1 DEF TypeOK, Standing
    <2>3. QED
      BY <1>1, <2>1, <2>2, AskedHasShape DEF Op
  <1>8. QED
    BY <1>2, <1>3, <1>4, <1>5, <1>6, <1>7 DEF Orders

LEMMA RowsAreSnapshot ==
  ASSUME TypeOK, NEW q \in Request
  PROVE  Rows(q) \in Snapshot
  BY Blanks DEF TypeOK, Rows, Snapshot, Standing

LEMMA TypeStep ==
  ASSUME TypeInv, [Next]_vars
  PROVE  TypeInv'
  <1>1. CASE UNCHANGED vars
    BY <1>1 DEF vars, TypeInv, TypeOK, AbsentIsBlank
  <1>2. ASSUME NEW s \in Sessions, Ends(s), member' \in [Users -> Standing],
               invite' \in [Invites -> Invitation], settings' \in Document,
               tokens' \in [Users -> SUBSET Role],
               \A v \in Invites : invite'[v] = invite[v] \/ invite'[v].status # "absent"
        PROVE  TypeInv'
    <2>1. /\ request' \in [Sessions -> Request] /\ snap' \in [Sessions -> Snapshot]
          /\ \A x \in Sessions : Inviting(request'[x])
      BY <1>2, Blanks DEF Ends, TypeInv, TypeOK, Request, Snapshot
    <2>2. AbsentIsBlank'
      BY <1>2 DEF TypeInv, AbsentIsBlank
    <2>3. QED
      BY <1>2, <2>1, <2>2 DEF Ends, TypeInv, TypeOK, Request, Snapshot
  <1>3. ASSUME NEW s \in Sessions, Order(s)
        PROVE  TypeInv'
    <2>1. \E q \in Request : Inviting(q) /\ request' = [request EXCEPT ![s] = q]
      BY <1>3, AskedIsRequest DEF Order, TypeInv, TypeOK
    <2>2. request' \in [Sessions -> Request] /\ \A x \in Sessions : Inviting(request'[x])
      BY <2>1 DEF TypeInv, TypeOK, Request
    <2>3. orders' \in 0 .. MaxOrders
      BY <1>3, OrganizationAssumption DEF Order, TypeInv, TypeOK
    <2>4. QED
      BY <1>3, <2>2, <2>3 DEF Order, TypeInv, TypeOK, AbsentIsBlank, Request
  <1>4. ASSUME NEW s \in Sessions, AskToken(s)
        PROVE  TypeInv'
    <2>1. \E q \in Request : Inviting(q) /\ request' = [request EXCEPT ![s] = q]
      <3>1. PICK u \in Users : \E q \in Logins(u) \cup Refreshes(u) :
              request' = [request EXCEPT ![s] = q]
        BY <1>4 DEF AskToken
      <3>2. "owner" \in Role
        BY DEF Role
      <3>3. QED
        BY <3>1, <3>2, AskedIsRequest DEF TypeInv
    <2>2. request' \in [Sessions -> Request] /\ \A x \in Sessions : Inviting(request'[x])
      BY <2>1 DEF TypeInv, TypeOK, Request
    <2>3. QED
      BY <1>4, <2>2 DEF AskToken, TypeInv, TypeOK, AbsentIsBlank, Request
  <1>5. ASSUME NEW s \in Sessions, Read(s)
        PROVE  TypeInv'
    <2>1. Rows(request[s]) \in Snapshot
      BY RowsAreSnapshot DEF TypeInv, TypeOK, Request
    <2>2. snap' \in [Sessions -> Snapshot]
      BY <1>5, <2>1 DEF Read, TypeInv, TypeOK, Snapshot
    <2>3. QED
      BY <1>5, <2>2 DEF Read, TypeInv, TypeOK, AbsentIsBlank, Snapshot
  <1>6. ASSUME NEW s \in Sessions, login(s) \/ refresh_token(s)
        PROVE  TypeInv'
    <2>1. PICK role \in {snap[s].members[request[s].by]} : Issue(s, role)
      BY <1>6 DEF login, refresh_token
    <2>2. role \in Standing /\ request[s].by \in Users
      BY <2>1, SnapTypes DEF TypeInv
    <2>3. tokens' \in [Users -> SUBSET Role]
      BY <2>1, <2>2 DEF Issue, TypeInv, TypeOK, Standing
    <2>4. QED
      BY <1>2, <2>1, <2>3 DEF Issue, TypeInv, TypeOK
  <1>7. ASSUME NEW s \in Sessions, invite_member(s)
        PROVE  TypeInv'
    <2>1. PICK v \in Invites :
            CommitInvite(s, v, [email |-> request[s].whom, role |-> request[s].to,
                                status |-> "pending"])
      BY <1>7 DEF invite_member
    <2>2. request[s].whom \in Users /\ request[s].to \in Role
      BY <1>7 DEF invite_member, Serves, TypeInv, Inviting
    <2>3. /\ invite' \in [Invites -> Invitation]
          /\ \A x \in Invites : invite'[x] = invite[x] \/ invite'[x].status # "absent"
      BY <2>1, <2>2, InviteCommit DEF TypeInv, Invitation
    <2>4. QED
      BY <1>2, <2>1, <2>3 DEF CommitInvite, TypeInv, TypeOK
  <1>8. ASSUME NEW s \in Sessions, update_member(s) \/ remove_member(s)
        PROVE  TypeInv'
    <2>1. PICK standing \in {request[s].to, "none"} :
            CommitMember(s, request[s].whom, standing)
      BY <1>8 DEF update_member, remove_member
    <2>2. standing \in Standing
      BY <2>1, SnapTypes DEF TypeInv, Standing
    <2>3. member' \in [Users -> Standing]
      BY <2>1, <2>2, MemberCommit DEF TypeInv
    <2>4. QED
      BY <1>2, <2>1, <2>3 DEF CommitMember, TypeInv, TypeOK
  <1>9. ASSUME NEW s \in Sessions, cancel_invitation(s)
        PROVE  TypeInv'
    <2> DEFINE record == [snap[s].invites[request[s].whom] EXCEPT !.status = "cancelled"]
    <2>1. CommitInvite(s, request[s].whom, record)
      BY <1>9 DEF cancel_invitation
    <2>2. request[s].whom \in Invites => record \in Invitation /\ record.status # "absent"
      BY SnapTypes DEF TypeInv, Invitation
    <2> HIDE DEF record
    <2>3. /\ invite' \in [Invites -> Invitation]
          /\ \A x \in Invites :
               \/ invite'[x] = invite[x]
               \/ x = request[s].whom /\ invite'[x] = record
      BY <2>1, <2>2, InviteCommit DEF TypeInv
    <2>4. \A x \in Invites : invite'[x] = invite[x] \/ invite'[x].status # "absent"
      BY <2>2, <2>3
    <2>5. QED
      BY <1>2, <2>1, <2>3, <2>4 DEF CommitInvite, TypeInv, TypeOK
  <1>10. ASSUME NEW s \in Sessions,
                update_organization_settings(s) \/ update_current_organization(s)
         PROVE  TypeInv'
    <2>1. \E new \in Document : CommitSettings(s, new)
      BY <1>10, SnapTypes DEF update_organization_settings, update_current_organization,
         TypeInv, Document
    <2>2. settings' \in Document
      BY <2>1, SettingsCommit DEF TypeInv
    <2>3. QED
      BY <1>2, <2>1, <2>2 DEF CommitSettings, TypeInv, TypeOK
  <1>11. ASSUME NEW s \in Sessions, Refuse(s) \/ Fail(s)
         PROVE  TypeInv'
    BY <1>2, <1>11 DEF Refuse, Fail, TypeInv, TypeOK
  <1>12. ASSUME NEW u \in Users, NEW r \in Role, Expire(u, r)
         PROVE  TypeInv'
    BY <1>12 DEF Expire, TypeInv, TypeOK, AbsentIsBlank
  <1>13. ASSUME NEW v \in Invites, Accept(v)
         PROVE  TypeInv'
    <2>1. /\ invite \in [Invites -> Invitation] /\ AbsentIsBlank
          /\ invite' = [invite EXCEPT ![v].status = "accepted"]
          /\ member \in [Users -> Standing]
          /\ member' = [member EXCEPT ![invite[v].email] = invite[v].role]
      BY <1>13 DEF Accept, TypeInv, TypeOK
    <2>2. /\ invite' \in [Invites -> Invitation]
          /\ invite'[v].status = "accepted"
          /\ \A x \in Invites : x # v => invite'[x] = invite[x]
      BY <2>1 DEF Invitation
    <2>3. invite[v].role \in Standing
      BY <2>1 DEF Invitation, Standing
    <2>4. member' \in [Users -> Standing]
      BY <2>1, <2>3
    <2>5. AbsentIsBlank'
      BY <2>1, <2>2 DEF AbsentIsBlank
    <2>6. QED
      BY <1>13, <2>2, <2>4, <2>5 DEF Accept, TypeInv, TypeOK
  <1>14. QED
    BY <1>1, <1>3, <1>4, <1>5, <1>6, <1>7, <1>8, <1>9, <1>10, <1>11, <1>12, <1>13
       DEF Next

\* Every variable keeps its shape.
THEOREM OrganizationTypeCorrect == Spec => []TypeOK
  <1>1. TypeInv /\ [Next]_vars => TypeInv'
    BY TypeStep
  <1>2. TypeInv => TypeOK
    BY DEF TypeInv
  <1>3. QED
    BY OrganizationInit, <1>1, <1>2, PTL DEF Spec
-----------------------------------------------------------------------------
(* What a step may do to the memberships, the invitations and the settings. *)

LEMMA SnapCloses ==
  ASSUME TypeOK, NEW s \in Sessions, snap[s].open, Ends(s)
  PROVE  Ending(s)
  BY Blanks DEF TypeOK, Ends, Ending

LEMMA MemberStep ==
  ASSUME TypeInv, [Next]_vars, NEW u \in Users, member'[u] # member[u]
  PROVE  \/ \E s \in Sessions :
              /\ Ending(s) /\ member[u] = snap[s].members[u] /\ member[u] # "none"
              /\ \/ /\ member'[u] = request[s].to
                    /\ "owner" \in {member[u], member'[u]} => request[s].role = "owner"
                 \/ /\ member'[u] = "none"
                    /\ member[u] = "owner" => request[s].role = "owner"
         \/ \E v \in Invites :
              /\ invite[v].email = u /\ invite[v].status = "pending"
              /\ invite[v].role = member'[u] /\ member[u] = "none"
              /\ invite'[v].status = "accepted"
  <1> USE DEF TypeInv
  <1>1. \/ \E s \in Sessions : update_member(s) \/ remove_member(s)
        \/ \E v \in Invites : Accept(v)
    BY DEF vars, Next, Order, AskToken, Read, login, refresh_token, Issue, invite_member,
       CommitInvite, cancel_invitation, update_organization_settings,
       update_current_organization, CommitSettings, Refuse, Fail, Expire
  <1>2. ASSUME NEW s \in Sessions, update_member(s)
        PROVE  /\ Ending(s) /\ member[u] = snap[s].members[u] /\ member[u] # "none"
               /\ member'[u] = request[s].to
               /\ "owner" \in {member[u], member'[u]} => request[s].role = "owner"
    <2>1. CommitMember(s, request[s].whom, request[s].to) /\ CanUpdate(s)
          /\ snap[s].open /\ request[s].to \in Standing
      BY <1>2, SnapTypes DEF update_member, Serves
    <2>2. u = request[s].whom /\ member[u] = snap[s].members[u]
          /\ member'[u] = request[s].to
      BY <2>1, MemberCommit
    <2>3. Ending(s)
      BY <2>1, SnapCloses DEF CommitMember
    <2>4. QED
      BY <2>1, <2>2, <2>3 DEF CanUpdate
  <1>3. ASSUME NEW s \in Sessions, remove_member(s)
        PROVE  /\ Ending(s) /\ member[u] = snap[s].members[u] /\ member[u] # "none"
               /\ member'[u] = "none"
               /\ member[u] = "owner" => request[s].role = "owner"
    <2>1. CommitMember(s, request[s].whom, "none") /\ CanRemove(s)
          /\ snap[s].open /\ "none" \in Standing
      BY <1>3 DEF remove_member, Serves, Standing
    <2>2. u = request[s].whom /\ member[u] = snap[s].members[u] /\ member'[u] = "none"
      BY <2>1, MemberCommit
    <2>3. Ending(s)
      BY <2>1, SnapCloses DEF CommitMember
    <2>4. QED
      BY <2>1, <2>2, <2>3 DEF CanRemove
  <1>4. ASSUME NEW v \in Invites, Accept(v)
        PROVE  /\ invite[v].email = u /\ invite[v].status = "pending"
               /\ invite[v].role = member'[u] /\ member[u] = "none"
               /\ invite'[v].status = "accepted"
    BY <1>4 DEF Accept, TypeOK, Invitation
  <1>5. QED
    BY <1>1, <1>2, <1>3, <1>4

LEMMA InviteStep ==
  ASSUME TypeInv, [Next]_vars, NEW v \in Invites, invite[v].status = "absent",
         invite'[v].role = "owner"
  PROVE  \E s \in Sessions : Ending(s) /\ request[s].role = "owner"
  <1> USE DEF TypeInv
  <1>1. invite'[v] # invite[v] /\ invite[v].status # "pending"
    BY DEF AbsentIsBlank
  <1>2. \/ \E s \in Sessions : invite_member(s) \/ cancel_invitation(s)
        \/ \E x \in Invites : Accept(x)
    BY <1>1 DEF vars, Next, Order, AskToken, Read, login, refresh_token, Issue,
       update_member, remove_member, CommitMember, update_organization_settings,
       update_current_organization, CommitSettings, Refuse, Fail, Expire
  <1>3. CASE \E x \in Invites : Accept(x)
    BY <1>1, <1>3 DEF Accept, TypeOK
  <1>4. ASSUME NEW s \in Sessions, cancel_invitation(s)
        PROVE  FALSE
    <2> DEFINE record == [snap[s].invites[request[s].whom] EXCEPT !.status = "cancelled"]
    <2>1. CommitInvite(s, request[s].whom, record)
          /\ snap[s].invites[request[s].whom].status = "pending"
      BY <1>4 DEF cancel_invitation, CanCancel
    <2>2. request[s].whom \in Invites => record \in Invitation
      BY SnapTypes DEF Invitation
    <2> HIDE DEF record
    <2>3. v = request[s].whom /\ invite[v] = snap[s].invites[v]
      BY <1>1, <2>1, <2>2, InviteCommit
    <2>4. QED
      BY <1>1, <2>1, <2>3
  <1>5. ASSUME NEW s \in Sessions, invite_member(s)
        PROVE  Ending(s) /\ request[s].role = "owner"
    <2> DEFINE record == [email |-> request[s].whom, role |-> request[s].to,
                          status |-> "pending"]
    <2>1. PICK x \in Invites : CommitInvite(s, x, record)
      BY <1>5 DEF invite_member
    <2>2. record \in Invitation /\ record.role = request[s].to
      BY <1>5 DEF invite_member, Serves, Inviting, Invitation
    <2> HIDE DEF record
    <2>3. invite'[v] = record
      BY <1>1, <2>1, <2>2, InviteCommit
    <2>4. snap[s].open /\ CanInvite(s)
      BY <1>5 DEF invite_member, Serves
    <2>5. Ending(s)
      BY <2>1, <2>4, SnapCloses DEF CommitInvite
    <2>6. QED
      BY <2>2, <2>3, <2>4, <2>5 DEF CanInvite
  <1>6. QED
    BY <1>2, <1>3, <1>4, <1>5

LEMMA SettingsStep ==
  ASSUME TypeInv, [Next]_vars, NEW k \in Keys, settings'[k] # settings[k]
  PROVE  \E s \in Sessions :
           /\ Ending(s)
           /\ \/ request[s].doc[k] # Unset
              \/ request[s].op = "replace" /\ snap[s].settings[k] = settings[k]
  <1> USE DEF TypeInv
  <1>1. \E s \in Sessions :
          update_organization_settings(s) \/ update_current_organization(s)
    BY DEF vars, Next, Order, AskToken, Read, login, refresh_token, Issue, invite_member,
       CommitInvite, cancel_invitation, update_member, remove_member, CommitMember,
       Refuse, Fail, Expire, Accept
  <1>2. ASSUME NEW s \in Sessions, update_organization_settings(s)
        PROVE  Ending(s) /\ request[s].doc[k] # Unset
    <2> DEFINE new == [j \in Keys |-> IF request[s].doc[j] # Unset
                                      THEN request[s].doc[j] ELSE snap[s].settings[j]]
    <2>1. CommitSettings(s, new) /\ snap[s].open
      BY <1>2 DEF update_organization_settings, Serves
    <2>2. new \in Document
      BY SnapTypes DEF Document
    <2>3. new[k] # snap[s].settings[k] => request[s].doc[k] # Unset
      OBVIOUS
    <2> HIDE DEF new
    <2>4. new[k] # snap[s].settings[k]
      BY <2>1, <2>2, SettingsCommit
    <2>5. Ending(s)
      BY <2>1, SnapCloses DEF CommitSettings
    <2>6. QED
      BY <2>3, <2>4, <2>5
  <1>3. ASSUME NEW s \in Sessions, update_current_organization(s)
        PROVE  /\ Ending(s)
               /\ request[s].op = "replace" /\ snap[s].settings[k] = settings[k]
    <2>1. CommitSettings(s, request[s].doc) /\ snap[s].open /\ request[s].op = "replace"
      BY <1>3 DEF update_current_organization, Serves
    <2>2. snap[s].settings[k] = settings[k]
      BY <2>1, SnapTypes, SettingsCommit
    <2>3. Ending(s)
      BY <2>1, SnapCloses DEF CommitSettings
    <2>4. QED
      BY <2>1, <2>2, <2>3
  <1>4. QED
    BY <1>1, <1>2, <1>3
-----------------------------------------------------------------------------
\* Who is an owner, or is invited to be one, changes only under an owner's token.
THEOREM OwnersAnswerToOwnersHolds == Spec => OwnersAnswerToOwners
  <1> DEFINE Answer ==
        /\ \A u \in Users :
             (member[u] = "owner") # (member'[u] = "owner")
             => \/ \E s \in Sessions : Ending(s) /\ request[s].role = "owner"
                \/ \E v \in Invites :
                     /\ invite[v] = [email |-> u, role |-> "owner", status |-> "pending"]
                     /\ invite'[v].status = "accepted"
        /\ \A v \in Invites :
             invite[v].status = "absent" /\ invite'[v].role = "owner"
             => \E s \in Sessions : Ending(s) /\ request[s].role = "owner"
  <1>1. TypeInv /\ [Next]_vars => TypeInv'
    BY TypeStep
  <1>2. TypeInv /\ [Next]_vars => Answer
    <2>1. SUFFICES ASSUME TypeInv, [Next]_vars PROVE Answer
      OBVIOUS
    <2>2. ASSUME NEW u \in Users, (member[u] = "owner") # (member'[u] = "owner")
          PROVE  \/ \E s \in Sessions : Ending(s) /\ request[s].role = "owner"
                 \/ \E v \in Invites :
                      /\ invite[v] = [email |-> u, role |-> "owner", status |-> "pending"]
                      /\ invite'[v].status = "accepted"
      <3>1. member'[u] # member[u] /\ "owner" \in {member[u], member'[u]}
        BY <2>2
      <3>2. CASE \E s \in Sessions : Ending(s) /\ request[s].role = "owner"
        BY <3>2
      <3>3. CASE ~\E s \in Sessions : Ending(s) /\ request[s].role = "owner"
        <4>1. PICK v \in Invites :
                /\ invite[v].email = u /\ invite[v].status = "pending"
                /\ invite[v].role = member'[u] /\ member[u] = "none"
                /\ invite'[v].status = "accepted"
          BY <2>1, <3>1, <3>3, MemberStep
        <4>2. invite[v] \in Invitation /\ invite[v].role = "owner"
          BY <2>1, <3>1, <4>1 DEF TypeInv, TypeOK
        <4>3. invite[v] = [email |-> u, role |-> "owner", status |-> "pending"]
          BY <4>1, <4>2 DEF Invitation
        <4>4. QED
          BY <4>1, <4>3
      <3>4. QED
        BY <3>2, <3>3
    <2>3. \A v \in Invites :
            invite[v].status = "absent" /\ invite'[v].role = "owner"
            => \E s \in Sessions : Ending(s) /\ request[s].role = "owner"
      BY <2>1, InviteStep
    <2>4. QED
      BY <2>2, <2>3
  <1>3. TypeInv /\ [Next]_vars => [Answer]_vars
    BY <1>2
  <1>4. QED
    BY OrganizationInit, <1>1, <1>3, PTL DEF Spec, OwnersAnswerToOwners

\* No change of a role restores the membership of a user who was removed.
THEOREM RemovedStaysOutHolds == Spec => RemovedStaysOut
  <1>1. TypeInv /\ [Next]_vars => TypeInv'
    BY TypeStep
  <1>2. TypeInv /\ [Next]_vars =>
          [\A u \in Users :
             member[u] = "none" /\ member'[u] # "none"
             => \E v \in Invites : /\ invite[v].email = u /\ invite[v].status = "pending"
                                   /\ invite'[v].status = "accepted"]_vars
    BY MemberStep
  <1>3. QED
    BY OrganizationInit, <1>1, <1>2, PTL DEF Spec, RemovedStaysOut

\* A settings key changes only by a request that is about it.
THEOREM SettingsAreNotLostHolds == Spec => SettingsAreNotLost
  <1>1. TypeInv /\ [Next]_vars => TypeInv'
    BY TypeStep
  <1>2. TypeInv /\ [Next]_vars =>
          [\A k \in Keys :
             settings'[k] # settings[k]
             => \E s \in Sessions :
                  /\ Ending(s)
                  /\ \/ request[s].doc[k] # Unset
                     \/ request[s].op = "replace"
                        /\ snap[s].settings[k] = settings[k]]_vars
    BY SettingsStep
  <1>3. QED
    BY OrganizationInit, <1>1, <1>2, PTL DEF Spec, SettingsAreNotLost
=============================================================================
