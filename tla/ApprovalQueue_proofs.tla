------------------------ MODULE ApprovalQueue_proofs ------------------------
(***************************************************************************)
(* Theorems about ApprovalQueue, for any number of items, users, requests  *)
(* and overlapping sweeps.                                                 *)
(***************************************************************************)
EXTENDS ApprovalQueue, TLAPS

\* A request that is busy has a current item.
LEMMA CurrentIsItem ==
  ASSUME TypeOK, NEW r \in Sessions, Busy(r)
  PROVE  /\ Current(r) \in Items
         /\ request[r].user \in Users /\ request[r].decision \in ApprovalStatus
  <1>1. request[r] \in RequestShape
    BY QueueAssumption DEF TypeOK
  <1>2. /\ request[r].items \in Seq(Items)
        /\ request[r].user \in Users /\ request[r].decision \in ApprovalStatus
    BY <1>1 DEF RequestShape
  <1>3. handled[r] + 1 \in 1..Len(request[r].items)
    BY <1>2 DEF TypeOK, Busy
  <1>4. QED
    BY <1>2, <1>3 DEF Current

\* What a committed decision does to the rows and to the log.
LEMMA DecisionEffect ==
  ASSUME TypeOK, NEW r \in Sessions, CommitDecision(r)
  PROVE  LET i == Current(r)
             d == request[r].decision
         IN  /\ i \in Items /\ snap[r][i].status = "pending"
             /\ d \in ApprovalStatus /\ request[r].user \in Users
             /\ row' = [row EXCEPT ![i] = Merge(snap[r][i], DecidedRow(r), row[i])]
             /\ row'[i].status = IF d = "pending" THEN row[i].status ELSE d
             /\ d # "pending" => row[i].status \in {"pending", d}
             /\ \A j \in Items : j # i => row'[j] = row[j]
             /\ audit' = audit \cup {DecisionEntry(r)}
             /\ DecisionEntry(r).item = i /\ DecisionEntry(r).action = d
             /\ DecisionEntry(r).user_id = request[r].user
  <1> DEFINE i == Current(r)
             d == request[r].decision
  <1>1. /\ i \in Items /\ d \in ApprovalStatus /\ request[r].user \in Users
    BY CurrentIsItem DEF CommitDecision
  <1>2. /\ snap[r][i].status = "pending"
        /\ ~Conflict(snap[r][i], DecidedRow(r), row[i])
        /\ row' = [row EXCEPT ![i] = Merge(snap[r][i], DecidedRow(r), row[i])]
        /\ audit' = audit \cup {DecisionEntry(r)}
    BY DEF CommitDecision, Allowed, Decidable
  <1>3. row'[i] = Merge(snap[r][i], DecidedRow(r), row[i])
        /\ \A j \in Items : j # i => row'[j] = row[j]
    BY <1>1, <1>2 DEF TypeOK
  <1>4. /\ row'[i].status = IF d = "pending" THEN row[i].status ELSE d
        /\ d # "pending" => row[i].status \in {"pending", d}
    BY <1>2, <1>3 DEF Merge, Conflict, DecidedRow
  <1>5. QED
    BY <1>1, <1>2, <1>3, <1>4 DEF DecisionEntry

-----------------------------------------------------------------------------
(* Type correctness.                                                       *)

LEMMA SnapType ==
  ASSUME TypeOK, NEW p \in Processes, NEW S \in SUBSET Items, NEW g \in [S -> Row],
         snap' = [snap EXCEPT ![p] = g]
  PROVE  snap' \in [Processes -> UNION {[T -> Row] : T \in SUBSET Items}]
  BY DEF TypeOK

LEMMA NoRowsType == NoRows \in [{} -> Row]
  BY DEF NoRows

LEMMA QueueTypeInit == Init => TypeOK
  <1> SUFFICES ASSUME Init PROVE TypeOK
    OBVIOUS
  <1>1. row \in [Items -> Row]
    BY DEF Init, Row
  <1>2. snap \in [Processes -> UNION {[S -> Row] : S \in SUBSET Items}]
    BY NoRowsType DEF Init
  <1>3. QED
    BY <1>1, <1>2 DEF Init, TypeOK

LEMMA CloseType ==
  ASSUME TypeOK, NEW p \in Processes, Close(p)
  PROVE  snap' \in [Processes -> UNION {[S -> Row] : S \in SUBSET Items}]
  BY NoRowsType, SnapType DEF Close

\* A merged row is a row, whatever the snapshot was.
LEMMA MergedRowType ==
  ASSUME NEW old, NEW new \in Row, NEW now \in Row
  PROVE  Merge(old, new, now) \in Row
  BY DEF Merge, Row

LEMMA QueueTypeDecision ==
  ASSUME TypeOK, NEW r \in Sessions, CommitDecision(r)
  PROVE  row' \in [Items -> Row] /\ audit' \subseteq Entry
  <1>1. DecidedRow(r) \in Row /\ DecisionEntry(r) \in Entry /\ Current(r) \in Items
    BY DecisionEffect, CurrentIsItem DEF DecidedRow, Row, DecisionEntry, Entry, CommitDecision
  <1>2. Merge(snap[r][Current(r)], DecidedRow(r), row[Current(r)]) \in Row
    BY <1>1, MergedRowType DEF TypeOK
  <1>3. QED
    BY <1>1, <1>2, DecisionEffect DEF TypeOK

LEMMA QueueTypeStep == TypeOK /\ [Next]_vars => TypeOK'
  <1> SUFFICES ASSUME TypeOK, [Next]_vars PROVE TypeOK'
    OBVIOUS
  <1> USE DEF Processes
  <1>1. ASSUME NEW i \in Items, Create(i) PROVE TypeOK'
    <2>1. CreatedEntry(i) \in Entry
      BY DEF CreatedEntry, Entry
    <2>2. [status |-> "pending", decided_by |-> NoOne] \in Row
      BY DEF Row, ApprovalStatus
    <2>3. QED
      BY <1>1, <2>1, <2>2 DEF Create, TypeOK
  <1>2. ASSUME NEW i \in Items, PassExpiry(i) PROVE TypeOK'
    BY <1>2 DEF PassExpiry, TypeOK
  <1>3. ASSUME NEW r \in Sessions, Receive(r) PROVE TypeOK'
    BY <1>3 DEF Receive, TypeOK
  <1>4. ASSUME NEW r \in Sessions, Read(r) PROVE TypeOK'
    <2>1. snap' \in [Processes -> UNION {[S -> Row] : S \in SUBSET Items}]
      BY <1>4, SnapType DEF Read, TypeOK
    <2>2. QED
      BY <1>4, <2>1 DEF Read, TypeOK
  <1>5. ASSUME NEW r \in Sessions, Skip(r) PROVE TypeOK'
    BY <1>5 DEF Skip, TypeOK
  <1>6. ASSUME NEW r \in Sessions, Decide(r) \/ LoseCommit(r) PROVE TypeOK'
    <2>1. CommitDecision(r) /\ Close(r)
      BY <1>6 DEF Decide, LoseCommit
    <2>2. row' \in [Items -> Row] /\ audit' \subseteq Entry /\ Current(r) \in Items
      BY <2>1, QueueTypeDecision, CurrentIsItem DEF CommitDecision
    <2>3. snap' \in [Processes -> UNION {[S -> Row] : S \in SUBSET Items}]
      BY <2>1, CloseType
    <2>4. CASE Decide(r)
      BY <2>2, <2>3, <2>4 DEF Decide, TypeOK
    <2>5. CASE LoseCommit(r)
      BY <2>2, <2>3, <2>5 DEF LoseCommit, TypeOK
    <2>6. QED
      BY <1>6, <2>4, <2>5
  <1>7. ASSUME NEW p \in Processes,
               \/ p \in Sessions /\ (Fail(p) \/ Answer(p))
               \/ p \in Sweepers /\ FailSweep(p)
        PROVE  TypeOK'
    <2>1. Close(p)
      BY <1>7 DEF Fail, Answer, FailSweep
    <2>2. snap' \in [Processes -> UNION {[S -> Row] : S \in SUBSET Items}]
      BY <2>1, CloseType
    <2>3. QED
      BY <1>7, <2>2 DEF Fail, Answer, FailSweep, TypeOK
  <1>8. ASSUME NEW w \in Sweepers, BeginSweep(w) PROVE TypeOK'
    <2> DEFINE found == {i \in Items : Expirable(i)}
    <2>1. [i \in found |-> row[i]] \in [found -> Row]
      BY DEF TypeOK
    <2>2. snap' \in [Processes -> UNION {[S -> Row] : S \in SUBSET Items}]
      BY <1>8, <2>1, SnapType DEF BeginSweep
    <2>3. QED
      BY <1>8, <2>2 DEF BeginSweep, TypeOK
  <1>9. ASSUME NEW w \in Sweepers, CommitSweep(w) PROVE TypeOK'
    <2> DEFINE found == DOMAIN snap[w]
               expired == {i \in found : snap[w][i].status = "pending"}
               new(i) == [status |-> "expired", decided_by |-> snap[w][i].decided_by]
    <2>1. found \subseteq Items /\ \A i \in found : snap[w][i] \in Row
      BY DEF TypeOK
    <2>2. \A i \in found : new(i) \in Row /\ ExpiryEntry(i) \in Entry
      BY <2>1 DEF Row, Entry, ExpiryEntry, ApprovalStatus
    <2>3. /\ row' = [i \in Items |-> IF i \in expired
                                     THEN Merge(snap[w][i], new(i), row[i])
                                     ELSE row[i]]
          /\ audit' = audit \cup {ExpiryEntry(i) : i \in found}
          /\ Close(w)
      BY <1>9 DEF CommitSweep
    <2>4. \A i \in expired : Merge(snap[w][i], new(i), row[i]) \in Row
      BY <2>1, <2>2, MergedRowType DEF TypeOK
    <2>5. row' \in [Items -> Row]
      BY <2>3, <2>4 DEF TypeOK
    <2>6. audit' \subseteq Entry
      BY <2>2, <2>3 DEF TypeOK
    <2>7. snap' \in [Processes -> UNION {[S -> Row] : S \in SUBSET Items}]
      BY <2>3, CloseType
    <2>8. QED
      BY <1>9, <2>5, <2>6, <2>7 DEF CommitSweep, TypeOK
  <1>10. CASE UNCHANGED vars
    BY <1>10 DEF vars, TypeOK
  <1>11. QED
    BY <1>1, <1>2, <1>3, <1>4, <1>5, <1>6, <1>7, <1>8, <1>9, <1>10 DEF Next

\* Every variable of the queue keeps its shape.
THEOREM QueueTypeCorrect == Spec => []TypeOK
  BY QueueTypeInit, QueueTypeStep, PTL DEF Spec

-----------------------------------------------------------------------------
(* What one step does to one item.                                         *)

\* A sweep only holds rows that were pending when it read them.
SweepsReadPending ==
  \A w \in Sweepers : \A i \in DOMAIN snap[w] : snap[w][i].status = "pending"

LEMMA SweepsReadPendingInit == Init => SweepsReadPending
  BY DEF Init, SweepsReadPending, NoRows, Processes

LEMMA SweepsReadPendingStep ==
  ASSUME TypeOK, SweepsReadPending, [Next]_vars
  PROVE  SweepsReadPending'
  <1> SUFFICES ASSUME NEW w \in Sweepers, NEW i \in DOMAIN snap'[w]
               PROVE  snap'[w][i].status = "pending"
    BY DEF SweepsReadPending
  <1> USE DEF Processes
  <1>1. CASE snap'[w] = snap[w]
    BY <1>1 DEF SweepsReadPending
  <1>2. ASSUME NEW p \in Processes, Close(p) PROVE snap'[w] \in {snap[w], NoRows}
    BY <1>2 DEF Close, TypeOK
  <1>3. ASSUME NEW v \in Sweepers, BeginSweep(v)
        PROVE  snap'[w] = snap[w] \/ \A j \in DOMAIN snap'[w] : snap'[w][j].status = "pending"
    BY <1>3 DEF BeginSweep, Expirable, TypeOK
  <1>4. ASSUME NEW r \in Sessions, Read(r) PROVE snap'[w] = snap[w]
    BY <1>4, QueueAssumption DEF Read, TypeOK
  <1>5. ASSUME NEW j \in Items, Create(j) \/ PassExpiry(j) PROVE snap' = snap
    BY <1>5 DEF Create, PassExpiry
  <1>6. ASSUME NEW r \in Sessions, Receive(r) \/ Skip(r) PROVE snap' = snap
    BY <1>6 DEF Receive, Skip
  <1>7. DOMAIN NoRows = {}
    BY DEF NoRows
  <1>8. QED
    BY <1>1, <1>2, <1>3, <1>4, <1>5, <1>6, <1>7
    DEF Next, vars, Decide, LoseCommit, Fail, Answer, CommitSweep, FailSweep

\* The snapshot of a session is of the whole queue.
SessionsReadAll == \A r \in Sessions : Open(r) => DOMAIN snap[r] = Items

LEMMA SessionsReadAllStep ==
  ASSUME TypeOK, SessionsReadAll, [Next]_vars
  PROVE  SessionsReadAll'
  <1> SUFFICES ASSUME NEW r \in Sessions, Open(r)' PROVE DOMAIN snap'[r] = Items
    BY DEF SessionsReadAll
  <1> USE DEF Processes
  <1>1. snap'[r] # NoRows
    BY DEF Open
  <1>2. CASE snap'[r] = snap[r]
    BY <1>1, <1>2 DEF SessionsReadAll, Open
  <1>3. ASSUME NEW p \in Processes, Close(p) PROVE snap'[r] \in {snap[r], NoRows}
    BY <1>3 DEF Close, TypeOK
  <1>4. ASSUME NEW q \in Sessions, Read(q)
        PROVE  snap'[r] = snap[r] \/ DOMAIN snap'[r] = Items
    BY <1>4 DEF Read, TypeOK
  <1>5. ASSUME NEW w \in Sweepers, BeginSweep(w) PROVE snap'[r] = snap[r]
    BY <1>5, QueueAssumption DEF BeginSweep, TypeOK
  <1>6. ASSUME \/ \E j \in Items : Create(j) \/ PassExpiry(j)
               \/ \E q \in Sessions : Receive(q) \/ Skip(q)
               \/ UNCHANGED vars
        PROVE  snap' = snap
    BY <1>6 DEF Create, PassExpiry, Receive, Skip, vars
  <1>7. QED
    BY <1>1, <1>2, <1>3, <1>4, <1>5, <1>6
    DEF Next, Decide, LoseCommit, Fail, Answer, CommitSweep, FailSweep

\* Nothing of item i changes.
Untouched(i) == row'[i] = row[i] /\ Closings(i)' = Closings(i)

Created(i) ==
  /\ row[i].status = "absent"
  /\ row'[i] = [status |-> "pending", decided_by |-> NoOne]
  /\ Closings(i)' = Closings(i)

Expired(i) ==
  /\ row[i].status \in {"pending", "expired"}
  /\ row'[i] = [status |-> "expired", decided_by |-> row[i].decided_by]
  /\ Closings(i)' = Closings(i) \cup {ExpiryEntry(i)}

LEMMA ItemStep ==
  ASSUME TypeOK, SweepsReadPending, [Next]_vars, NEW i \in Items
  PROVE  /\ audit \subseteq audit'
         /\ \/ Untouched(i) \/ Created(i) \/ Expired(i)
            \/ \E r \in Sessions : CommitDecision(r) /\ Current(r) = i
  <1> USE DEF Processes
  <1>1. ASSUME NEW j \in Items, Create(j)
        PROVE  audit \subseteq audit' /\ (Untouched(i) \/ Created(i))
    <2>1. Closings(i)' = Closings(i)
      BY <1>1 DEF Create, Closings, CreatedEntry, Closed, ApprovalStatus
    <2>2. QED
      BY <1>1, <2>1 DEF Create, Created, Untouched, TypeOK
  <1>2. ASSUME NEW r \in Sessions, CommitDecision(r)
        PROVE  audit \subseteq audit' /\ (Untouched(i) \/ Current(r) = i)
    <2>1. CASE Current(r) # i
      <3>1. row'[i] = row[i] /\ audit' = audit \cup {DecisionEntry(r)}
            /\ DecisionEntry(r).item # i
        BY <1>2, <2>1, DecisionEffect
      <3>2. Closings(i)' = Closings(i)
        BY <3>1 DEF Closings
      <3>3. QED
        BY <3>1, <3>2 DEF Untouched
    <2>2. QED
      BY <1>2, <2>1, DecisionEffect
  <1>3. ASSUME NEW w \in Sweepers, CommitSweep(w)
        PROVE  audit \subseteq audit' /\ (Untouched(i) \/ Expired(i))
    <2> DEFINE found == DOMAIN snap[w]
               new(j) == [status |-> "expired", decided_by |-> snap[w][j].decided_by]
    <2>1. /\ \A j \in found : ~Conflict(snap[w][j], new(j), row[j])
          /\ row' = [j \in Items |-> IF j \in found
                                     THEN Merge(snap[w][j], new(j), row[j])
                                     ELSE row[j]]
          /\ audit' = audit \cup {ExpiryEntry(j) : j \in found}
          /\ \A j \in found : snap[w][j].status = "pending"
      BY <1>3 DEF CommitSweep, SweepsReadPending
    <2>2. CASE i \notin found
      <3>1. Closings(i)' = Closings(i)
        BY <2>1, <2>2 DEF Closings, ExpiryEntry
      <3>2. QED
        BY <2>1, <2>2, <3>1 DEF Untouched
    <2>3. CASE i \in found
      <3>1. row'[i] = Merge(snap[w][i], new(i), row[i]) /\ ~Conflict(snap[w][i], new(i), row[i])
            /\ snap[w][i].status = "pending"
        BY <2>1, <2>3
      <3>2. /\ row'[i] = [status |-> "expired", decided_by |-> row[i].decided_by]
            /\ row[i].status \in {"pending", "expired"}
        BY <3>1 DEF Merge, Conflict
      <3>3. Closings(i)' = Closings(i) \cup {ExpiryEntry(i)}
        BY <2>1, <2>3 DEF Closings, ExpiryEntry, Closed, ApprovalStatus
      <3>4. QED
        BY <2>1, <3>2, <3>3 DEF Expired
    <2>4. QED
      BY <2>1, <2>2, <2>3
  <1>4. CASE UNCHANGED <<row, audit>>
    BY <1>4 DEF Untouched, Closings
  <1>5. QED
    BY <1>1, <1>2, <1>3, <1>4
    DEF Next, vars, PassExpiry, Receive, Read, Skip, Decide, LoseCommit, Fail,
        Answer, BeginSweep, FailSweep

\* A closed item keeps its status, through every merge.
LEMMA ClosedStays ==
  ASSUME TypeOK, SweepsReadPending, [Next]_vars, NEW i \in Items,
         row[i].status \in Closed
  PROVE  row'[i].status = row[i].status
  <1>1. CASE Untouched(i) \/ Created(i) \/ Expired(i)
    BY <1>1 DEF Untouched, Created, Expired, Closed, ApprovalStatus
  <1>2. ASSUME NEW r \in Sessions, CommitDecision(r), Current(r) = i
        PROVE  row'[i].status = row[i].status
    BY <1>2, DecisionEffect DEF Closed
  <1>3. QED
    BY <1>1, <1>2, ItemStep

-----------------------------------------------------------------------------
(* The invariants of the queue.                                            *)

\* No decision of "pending" has been logged for item i.
Unmarked(i) == \A e \in audit : e.item = i => e.action # "pending"

\* Then a row of i that reads pending names nobody, in every snapshot too.
UndecidedIsUnnamed ==
  \A i \in Items : Unmarked(i) =>
    /\ row[i].status = "pending" => row[i].decided_by = NoOne
    /\ \A r \in Sessions :
         (i \in DOMAIN snap[r] /\ snap[r][i].status = "pending")
           => snap[r][i].decided_by = NoOne

QueueInv == /\ TypeOK
            /\ SweepsReadPending
            /\ SessionsReadAll
            /\ AuditTellsTheStatus
            /\ ReportedIsRecorded
            /\ UndecidedIsUnnamed
            /\ DecisionsAreSigned

LEMMA QueueInvInit == Init => QueueInv
  <1> SUFFICES ASSUME Init PROVE QueueInv
    OBVIOUS
  <1>1. TypeOK /\ SweepsReadPending
    BY QueueTypeInit, SweepsReadPendingInit
  <1>2. AuditTellsTheStatus /\ ReportedIsRecorded /\ DecisionsAreSigned
    BY DEF Init, AuditTellsTheStatus, ReportedIsRecorded, DecisionsAreSigned,
           Closings, Closed, ApprovalStatus
  <1>3. UndecidedIsUnnamed /\ SessionsReadAll
    BY DEF Init, UndecidedIsUnnamed, SessionsReadAll, Open, NoRows, Processes
  <1>4. QED
    BY <1>1, <1>2, <1>3 DEF QueueInv

LEMMA AuditStep ==
  ASSUME QueueInv, [Next]_vars
  PROVE  AuditTellsTheStatus'
  <1> SUFFICES ASSUME NEW i \in Items
               PROVE  /\ row'[i].status \in Closed => Closings(i)' # {}
                      /\ \A e \in Closings(i)' : e.action = row'[i].status
    BY DEF AuditTellsTheStatus
  <1>0. /\ TypeOK /\ SweepsReadPending
        /\ row[i].status \in Closed => Closings(i) # {}
        /\ \A e \in Closings(i) : e.action = row[i].status /\ e.action \in Closed
    BY DEF QueueInv, AuditTellsTheStatus, Closings
  <1>1. CASE Untouched(i)
    BY <1>0, <1>1 DEF Untouched
  <1>2. CASE Created(i)
    BY <1>0, <1>2 DEF Created, Closed, ApprovalStatus
  <1>3. CASE Expired(i)
    <2>1. /\ row[i].status \in {"pending", "expired"} /\ row'[i].status = "expired"
          /\ Closings(i)' = Closings(i) \cup {ExpiryEntry(i)}
          /\ ExpiryEntry(i).action = "expired"
      BY <1>3 DEF Expired, ExpiryEntry
    <2>2. \A e \in Closings(i) : e.action = "expired"
      BY <1>0, <2>1 DEF Closed
    <2>3. QED
      BY <2>1, <2>2
  <1>4. ASSUME NEW r \in Sessions, CommitDecision(r), Current(r) = i
        PROVE  /\ row'[i].status \in Closed => Closings(i)' # {}
               /\ \A e \in Closings(i)' : e.action = row'[i].status
    <2> DEFINE d == request[r].decision
    <2>1. /\ d \in ApprovalStatus /\ audit' = audit \cup {DecisionEntry(r)}
          /\ DecisionEntry(r).item = i /\ DecisionEntry(r).action = d
          /\ row'[i].status = IF d = "pending" THEN row[i].status ELSE d
          /\ d # "pending" => row[i].status \in {"pending", d}
      BY <1>0, <1>4, DecisionEffect
    <2>2. Closings(i)' = IF d = "pending" THEN Closings(i)
                         ELSE Closings(i) \cup {DecisionEntry(r)}
      BY <2>1 DEF Closings, Closed
    <2>3. QED
      BY <1>0, <2>1, <2>2 DEF Closed
  <1>5. QED
    BY <1>0, <1>1, <1>2, <1>3, <1>4, ItemStep

LEMMA ReportedStep ==
  ASSUME QueueInv, [Next]_vars
  PROVE  ReportedIsRecorded'
  <1> SUFFICES ASSUME NEW r \in Sessions, NEW i \in processed'[r],
                      request'[r].decision \in Closed
               PROVE  row'[i].status = request'[r].decision
    BY DEF ReportedIsRecorded
  <1>0. TypeOK /\ SweepsReadPending /\ request' = request
    BY DEF QueueInv, Next, vars, Create, PassExpiry, Receive, Read, Skip, Decide,
           LoseCommit, Fail, Answer, BeginSweep, CommitSweep, FailSweep
  <1>1. CASE i \in processed[r]
    <2>1. row[i].status = request[r].decision /\ i \in Items
      BY <1>0, <1>1 DEF QueueInv, ReportedIsRecorded, TypeOK
    <2>2. QED
      BY <1>0, <2>1, ClosedStays
  <1>2. CASE i \notin processed[r]
    <2>1. Decide(r) /\ i = Current(r)
      <3>1. \E q \in Sessions : Decide(q)
        BY <1>2 DEF Next, vars, Create, PassExpiry, Receive, Read, Skip,
           LoseCommit, Fail, Answer, BeginSweep, CommitSweep, FailSweep
      <3>2. PICK q \in Sessions : Decide(q)
        BY <3>1
      <3>3. processed' = [processed EXCEPT ![q] = @ \cup {Current(q)}]
        BY <3>2 DEF Decide
      <3>4. q = r /\ i = Current(r)
        BY <1>0, <1>2, <3>3 DEF TypeOK
      <3>5. QED
        BY <3>2, <3>4
    <2>2. QED
      BY <1>0, <2>1, DecisionEffect DEF Decide, Closed
  <1>3. QED
    BY <1>1, <1>2

\* Unmarked can only be lost, and a decision of "pending" loses it.
LEMMA UnmarkedStep ==
  ASSUME TypeOK, SweepsReadPending, [Next]_vars, NEW i \in Items, Unmarked(i)'
  PROVE  /\ Unmarked(i)
         /\ \A r \in Sessions : (CommitDecision(r) /\ Current(r) = i)
              => request[r].decision # "pending"
  <1>1. Unmarked(i)
    BY ItemStep DEF Unmarked
  <1>2. ASSUME NEW r \in Sessions, CommitDecision(r), Current(r) = i
        PROVE  request[r].decision # "pending"
    <2>1. DecisionEntry(r) \in audit' /\ DecisionEntry(r).item = i
          /\ DecisionEntry(r).action = request[r].decision
      BY <1>2, DecisionEffect
    <2>2. QED
      BY <2>1 DEF Unmarked
  <1>3. QED
    BY <1>1, <1>2

LEMMA UnnamedStep ==
  ASSUME QueueInv, [Next]_vars
  PROVE  UndecidedIsUnnamed'
  <1> SUFFICES ASSUME NEW i \in Items, Unmarked(i)'
               PROVE  /\ row'[i].status = "pending" => row'[i].decided_by = NoOne
                      /\ \A r \in Sessions :
                           (i \in DOMAIN snap'[r] /\ snap'[r][i].status = "pending")
                             => snap'[r][i].decided_by = NoOne
    BY DEF UndecidedIsUnnamed
  <1>0. TypeOK /\ SweepsReadPending /\ Unmarked(i)
    BY UnmarkedStep DEF QueueInv
  <1>a. /\ row[i].status = "pending" => row[i].decided_by = NoOne
        /\ \A r \in Sessions :
             (i \in DOMAIN snap[r] /\ snap[r][i].status = "pending")
               => snap[r][i].decided_by = NoOne
    BY <1>0 DEF QueueInv, UndecidedIsUnnamed
  <1>1. row'[i].status = "pending" => row'[i].decided_by = NoOne
    <2>1. CASE Untouched(i) \/ Created(i) \/ Expired(i)
      BY <1>a, <2>1 DEF Untouched, Created, Expired
    <2>2. ASSUME NEW r \in Sessions, CommitDecision(r), Current(r) = i
          PROVE  row'[i].status # "pending"
      BY <1>0, <2>2, UnmarkedStep, DecisionEffect
    <2>3. QED
      BY <1>0, <2>1, <2>2, ItemStep
  <1>2. ASSUME NEW r \in Sessions, i \in DOMAIN snap'[r], snap'[r][i].status = "pending"
        PROVE  snap'[r][i].decided_by = NoOne
    <2> USE DEF Processes
    <2>1. CASE snap'[r] = snap[r]
      BY <1>a, <1>2, <2>1
    <2>2. CASE snap'[r] = row
      BY <1>a, <1>2, <2>2
    <2>3. snap'[r] # NoRows
      BY <1>2 DEF NoRows
    <2>4. ASSUME NEW p \in Processes, Close(p) PROVE snap'[r] \in {snap[r], NoRows}
      BY <2>4 DEF Close, TypeOK
    <2>5. ASSUME NEW q \in Sessions, Read(q) PROVE snap'[r] \in {snap[r], row}
      BY <1>0, <2>5 DEF Read, TypeOK
    <2>6. ASSUME NEW w \in Sweepers, BeginSweep(w) PROVE snap'[r] = snap[r]
      BY <1>0, <2>6, QueueAssumption DEF BeginSweep, TypeOK
    <2>7. ASSUME \/ \E j \in Items : Create(j) \/ PassExpiry(j)
                 \/ \E q \in Sessions : Receive(q) \/ Skip(q)
                 \/ UNCHANGED vars
          PROVE  snap' = snap
      BY <2>7 DEF Create, PassExpiry, Receive, Skip, vars
    <2>8. QED
      BY <2>1, <2>2, <2>3, <2>4, <2>5, <2>6, <2>7
      DEF Next, Decide, LoseCommit, Fail, Answer, CommitSweep, FailSweep
  <1>3. QED
    BY <1>1, <1>2

LEMMA SignedStep ==
  ASSUME QueueInv, [Next]_vars
  PROVE  DecisionsAreSigned'
  <1> SUFFICES ASSUME NEW i \in Items, Unmarked(i)',
                      row'[i].status \in {"approved", "rejected", "sent_back"}
               PROVE  \E e \in Closings(i)' : e.user_id = row'[i].decided_by
                                              /\ e.user_id # NoOne
    BY DEF DecisionsAreSigned, Unmarked
  <1>0. TypeOK /\ SweepsReadPending /\ Unmarked(i)
    BY UnmarkedStep DEF QueueInv
  <1>a. row[i].status \in {"approved", "rejected", "sent_back"} =>
          \E e \in Closings(i) : e.user_id = row[i].decided_by /\ e.user_id # NoOne
    BY <1>0 DEF QueueInv, DecisionsAreSigned, Unmarked
  <1>1. CASE Untouched(i) \/ Created(i) \/ Expired(i)
    BY <1>a, <1>1 DEF Untouched, Created, Expired
  <1>2. ASSUME NEW r \in Sessions, CommitDecision(r), Current(r) = i
        PROVE  \E e \in Closings(i)' : e.user_id = row'[i].decided_by
                                       /\ e.user_id # NoOne
    <2> DEFINE d == request[r].decision
    <2>1. /\ d \in ApprovalStatus \ {"pending"} /\ request[r].user \in Users
          /\ audit' = audit \cup {DecisionEntry(r)}
          /\ DecisionEntry(r).item = i /\ DecisionEntry(r).action = d
          /\ DecisionEntry(r).user_id = request[r].user
          /\ snap[r][i].status = "pending"
          /\ row' = [row EXCEPT ![i] = Merge(snap[r][i], DecidedRow(r), row[i])]
      BY <1>0, <1>2, DecisionEffect, UnmarkedStep
    <2>2. snap[r][i].decided_by = NoOne
      <3>1. Open(r) /\ r \in Processes
        BY <1>2 DEF CommitDecision, Processes
      <3>2. i \in DOMAIN snap[r]
        BY <1>0, <1>2, <3>1, CurrentIsItem
        DEF QueueInv, SessionsReadAll, CommitDecision
      <3>3. QED
        BY <1>0, <2>1, <3>2 DEF QueueInv, UndecidedIsUnnamed
    <2>3. row'[i].decided_by = request[r].user
      BY <1>0, <2>1, <2>2, QueueAssumption DEF Merge, DecidedRow, TypeOK
    <2>4. DecisionEntry(r) \in Closings(i)'
      BY <2>1 DEF Closings, Closed
    <2>5. QED
      BY <2>1, <2>3, <2>4, QueueAssumption
  <1>3. QED
    BY <1>0, <1>1, <1>2, ItemStep

LEMMA QueueInvStep == QueueInv /\ [Next]_vars => QueueInv'
  <1> SUFFICES ASSUME QueueInv, [Next]_vars PROVE QueueInv'
    OBVIOUS
  <1>1. TypeOK' /\ SweepsReadPending' /\ SessionsReadAll'
    BY QueueTypeStep, SweepsReadPendingStep, SessionsReadAllStep DEF QueueInv
  <1>2. QED
    BY <1>1, AuditStep, ReportedStep, UnnamedStep, SignedStep DEF QueueInv

LEMMA QueueInvariant == Spec => []QueueInv
  BY QueueInvInit, QueueInvStep, PTL DEF Spec

\* However requests and sweeps overlap, a closed item keeps its status.
THEOREM DecisionsAreFinal == Spec => DecisionIsFinal
  <1>1. QueueInv /\ [Next]_vars =>
          [\A i \in Items : row[i].status \in Closed
                              => row'[i].status = row[i].status]_vars
    BY ClosedStays DEF QueueInv
  <1>2. QED
    BY <1>1, QueueInvariant, PTL DEF Spec, DecisionIsFinal

\* A request is told "processed" only of items that keep its decision.
THEOREM ReportsAreTrue == Spec => []ReportedIsRecorded
  <1>1. QueueInv => ReportedIsRecorded
    BY DEF QueueInv
  <1>2. QED
    BY <1>1, QueueInvariant, PTL

\* The log and the queue never disagree on what became of an item.
THEOREM AuditIsTrue == Spec => []AuditTellsTheStatus
  <1>1. QueueInv => AuditTellsTheStatus
    BY DEF QueueInv
  <1>2. QED
    BY <1>1, QueueInvariant, PTL

\* Every decision is signed by the user the row names.
THEOREM SignaturesMatch == Spec => []DecisionsAreSigned
  <1>1. QueueInv => DecisionsAreSigned
    BY DEF QueueInv
  <1>2. QED
    BY <1>1, QueueInvariant, PTL

-----------------------------------------------------------------------------
(* The queue implements ApprovalContract.                                  *)

\* What a process has read may be old, but it was so: a sweep's items are
\* overdue, and an item a request saw is there.
SnapsWereTrue ==
  /\ \A w \in Sweepers : DOMAIN snap[w] \subseteq overdue
  /\ \A r \in Sessions : \A i \in DOMAIN snap[r] :
       snap[r][i].status # "absent" => row[i].status # "absent"

LEMMA SnapsWereTrueInit == Init => SnapsWereTrue
  BY DEF Init, SnapsWereTrue, NoRows, Processes

\* An item that is there stays there.
LEMMA PresentStays ==
  ASSUME TypeOK, SweepsReadPending, [Next]_vars, NEW i \in Items,
         row[i].status # "absent"
  PROVE  row'[i].status # "absent"
  <1>1. CASE Untouched(i) \/ Created(i) \/ Expired(i)
    BY <1>1 DEF Untouched, Created, Expired
  <1>2. ASSUME NEW r \in Sessions, CommitDecision(r), Current(r) = i
        PROVE  row'[i].status # "absent"
    BY <1>2, DecisionEffect DEF ApprovalStatus
  <1>3. QED
    BY <1>1, <1>2, ItemStep

LEMMA SnapsWereTrueStep ==
  ASSUME QueueInv, SnapsWereTrue, [Next]_vars
  PROVE  SnapsWereTrue'
  <1> USE DEF Processes
  <1>0. TypeOK /\ SweepsReadPending /\ overdue \subseteq overdue'
    BY DEF QueueInv, Next, vars, Create, PassExpiry, Receive, Read, Skip, Decide,
           LoseCommit, Fail, Answer, BeginSweep, CommitSweep, FailSweep
  <1>1. ASSUME NEW p \in Processes
        PROVE  \/ snap'[p] = snap[p] \/ snap'[p] = NoRows
               \/ p \in Sessions /\ snap'[p] = row
               \/ p \in Sweepers /\ DOMAIN snap'[p] \subseteq overdue
    <2>1. ASSUME NEW q \in Processes, Close(q) PROVE snap'[p] \in {snap[p], NoRows}
      BY <1>0, <2>1 DEF Close, TypeOK
    <2>2. ASSUME NEW q \in Sessions, Read(q)
          PROVE  snap'[p] = snap[p] \/ (p \in Sessions /\ snap'[p] = row)
      BY <1>0, <2>2 DEF Read, TypeOK
    <2>3. ASSUME NEW w \in Sweepers, BeginSweep(w)
          PROVE  \/ snap'[p] = snap[p]
                 \/ p \in Sweepers /\ DOMAIN snap'[p] \subseteq overdue
      BY <1>0, <2>3 DEF BeginSweep, Expirable, TypeOK
    <2>4. ASSUME \/ \E j \in Items : Create(j) \/ PassExpiry(j)
                 \/ \E q \in Sessions : Receive(q) \/ Skip(q)
                 \/ UNCHANGED vars
          PROVE  snap' = snap
      BY <2>4 DEF Create, PassExpiry, Receive, Skip, vars
    <2>5. QED
      BY <2>1, <2>2, <2>3, <2>4
      DEF Next, Decide, LoseCommit, Fail, Answer, CommitSweep, FailSweep
  <1>2. DOMAIN NoRows = {}
    BY DEF NoRows
  <1>3. ASSUME NEW w \in Sweepers PROVE DOMAIN snap'[w] \subseteq overdue'
    <2>1. DOMAIN snap[w] \subseteq overdue
      BY DEF SnapsWereTrue
    <2>2. w \notin Sessions /\ w \in Processes
      BY QueueAssumption
    <2>3. QED
      BY <1>0, <1>1, <1>2, <2>1, <2>2
  <1>4. ASSUME NEW r \in Sessions, NEW i \in DOMAIN snap'[r],
               snap'[r][i].status # "absent"
        PROVE  row'[i].status # "absent"
    <2>1. r \notin Sweepers /\ r \in Processes
      BY QueueAssumption
    <2>2. i \in Items /\ row[i].status # "absent"
      <3>1. CASE snap'[r] = snap[r]
        BY <1>0, <1>4, <2>1, <3>1 DEF SnapsWereTrue, TypeOK
      <3>2. CASE snap'[r] = row
        BY <1>0, <1>4, <3>2 DEF TypeOK
      <3>3. QED
        BY <1>1, <1>2, <1>4, <2>1, <3>1, <3>2
    <2>3. QED
      BY <1>0, <2>2, PresentStays
  <1>5. QED
    BY <1>3, <1>4 DEF SnapsWereTrue

LEMMA ContractInit == Init => Contract!Init
  <1> SUFFICES ASSUME Init PROVE Contract!Init
    OBVIOUS
  <1>1. [i \in Items |-> row[i].status] = [i \in Items |-> "absent"]
    BY DEF Init
  <1>2. Told = {}
    BY DEF Init, Told
  <1>3. QED
    BY <1>1, <1>2 DEF Init, Contract!Init

\* A report adds one pair to what has been told.
LEMMA ToldMore ==
  ASSUME TypeOK, NEW r \in Sessions, NEW i, request' = request,
         processed' = [processed EXCEPT ![r] = @ \cup {i}]
  PROVE  Told' = Told \cup {<<i, request[r].decision>>}
  <1> DEFINE pairs(q, done) == {<<j, request[q].decision>> : j \in done[q]}
  <1>1. Told' = UNION {pairs(q, processed') : q \in Sessions}
    BY DEF Told
  <1>2. \A q \in Sessions : pairs(q, processed') =
          IF q = r THEN pairs(q, processed) \cup {<<i, request[r].decision>>}
          ELSE pairs(q, processed)
    BY DEF TypeOK
  <1>3. QED
    BY <1>1, <1>2 DEF Told

\* A committed decision, reported or not, is a decision of the contract.
LEMMA ContractDecision ==
  ASSUME QueueInv, SnapsWereTrue, NEW r \in Sessions, Decide(r) \/ LoseCommit(r)
  PROVE  Contract!Next
  <1> DEFINE i == Current(r)
             d == request[r].decision
             u == request[r].user
             St == [j \in Items |-> row[j].status]
  <1>0. TypeOK /\ CommitDecision(r) /\ UNCHANGED <<overdue, request>>
    BY DEF QueueInv, Decide, LoseCommit
  <1>1. /\ i \in Items /\ u \in Users /\ d \in ApprovalStatus
        /\ row'[i].status = IF d = "pending" THEN row[i].status ELSE d
        /\ d # "pending" => row[i].status \in {"pending", d}
        /\ \A j \in Items : j # i => row'[j] = row[j]
        /\ audit' = audit \cup {DecisionEntry(r)}
        /\ snap[r][i].status = "pending"
    BY <1>0, DecisionEffect
  <1>2. OrgOf[i] = OrgOf[u] /\ Open(r)
    BY <1>0 DEF CommitDecision, Allowed
  <1>3. row[i].status # "absent"
    <2>1. i \in DOMAIN snap[r]
      BY <1>1, <1>2 DEF QueueInv, SessionsReadAll
    <2>2. QED
      BY <1>1, <2>1 DEF SnapsWereTrue
  <1>4. St' = IF d = "pending" THEN St ELSE [St EXCEPT ![i] = d]
    BY <1>1
  <1>5. DecisionEntry(r) = Contract!Write(d, i, u)
    BY DEF DecisionEntry, Contract!Write
  <1>6. Told' \in {Told, Told \cup {<<i, d>>}}
    <2>1. CASE Decide(r)
      BY <1>0, <2>1, ToldMore DEF Decide
    <2>2. CASE LoseCommit(r)
      BY <2>2 DEF LoseCommit, Told
    <2>3. QED
      BY <2>1, <2>2
  <1>7. St[i] = row[i].status /\ d \in Contract!Decisions
    BY <1>1 DEF ApprovalStatus, Contract!Decisions
  <1>8. PICK by, of, as : by = u /\ of = i /\ as = d
    OBVIOUS
  <1> HIDE DEF i, d, u, St
  <1>9. Contract!Decide(by, of, as)
    BY <1>0, <1>1, <1>2, <1>3, <1>4, <1>5, <1>6, <1>7, <1>8 DEF Contract!Decide, St
  <1>10. QED
    BY <1>1, <1>7, <1>8, <1>9 DEF Contract!Next

\* A sweep's commit is one expiry of the contract, of all the items it found.
LEMMA ContractSweep ==
  ASSUME QueueInv, SnapsWereTrue, NEW w \in Sweepers, CommitSweep(w)
  PROVE  Contract!Next
  <1> DEFINE found == DOMAIN snap[w]
             new(j) == [status |-> "expired", decided_by |-> snap[w][j].decided_by]
             St == [j \in Items |-> row[j].status]
  <1>1. /\ \A j \in found : ~Conflict(snap[w][j], new(j), row[j])
        /\ row' = [j \in Items |-> IF j \in found
                                   THEN Merge(snap[w][j], new(j), row[j])
                                   ELSE row[j]]
        /\ audit' = audit \cup {ExpiryEntry(j) : j \in found}
        /\ \A j \in found : snap[w][j].status = "pending"
        /\ UNCHANGED <<overdue, request, processed>>
    BY DEF CommitSweep, QueueInv, SweepsReadPending
  <1>2. found \in SUBSET overdue /\ found \subseteq Items
    BY DEF SnapsWereTrue, QueueInv, TypeOK, Processes
  <1>3. \A j \in found : row[j].status \in {"pending", "expired"}
    BY <1>1 DEF Conflict
  <1>4. \A j \in Items : row'[j].status = IF j \in found THEN "expired" ELSE row[j].status
    BY <1>1 DEF Merge
  <1>5. St' = [j \in Items |-> IF j \in found THEN "expired" ELSE St[j]]
    BY <1>4
  <1>6. audit' = audit \cup {Contract!Write("expired", j, NoOne) : j \in found}
    BY <1>1 DEF ExpiryEntry, Contract!Write
  <1>7. UNCHANGED Told /\ \A j \in found : St[j] \in {"pending", "expired"}
    BY <1>1, <1>2, <1>3 DEF Told
  <1>8. PICK S : S = found
    OBVIOUS
  <1> HIDE DEF found, St
  <1>9. Contract!Expire(S)
    BY <1>1, <1>5, <1>6, <1>7, <1>8 DEF Contract!Expire, St
  <1>10. QED
    BY <1>2, <1>8, <1>9 DEF Contract!Next

LEMMA ContractStep ==
  QueueInv /\ SnapsWereTrue /\ [Next]_vars => [Contract!Next]_(Contract!vars)
  <1> SUFFICES ASSUME QueueInv, SnapsWereTrue, [Next]_vars
               PROVE  Contract!Next \/ UNCHANGED Contract!vars
    OBVIOUS
  <1> DEFINE St == [j \in Items |-> row[j].status]
  <1>0. TypeOK
    BY DEF QueueInv
  <1>1. ASSUME NEW i \in Items, Create(i) PROVE Contract!Next
    <2>1. St[i] = "absent" /\ St' = [St EXCEPT ![i] = "pending"]
      BY <1>0, <1>1 DEF Create, TypeOK
    <2>2. audit' = audit \cup {Contract!Write("created", i, NoOne)}
      BY <1>1 DEF Create, CreatedEntry, Contract!Write
    <2>3. UNCHANGED <<overdue, Told>>
      BY <1>1 DEF Create, Told
    <2>4. Contract!Submit(i)
      BY <2>1, <2>2, <2>3 DEF Contract!Submit
    <2>5. QED
      BY <2>4 DEF Contract!Next
  <1>2. ASSUME NEW i \in Items, PassExpiry(i) PROVE Contract!Next
    <2>1. St[i] # "absent" /\ UNCHANGED <<St, audit, Told>>
      BY <1>2 DEF PassExpiry, Told
    <2>2. Contract!PassExpiry(i)
      BY <1>2, <2>1 DEF PassExpiry, Contract!PassExpiry
    <2>3. QED
      BY <2>2 DEF Contract!Next
  <1>3. CASE UNCHANGED <<row, audit, overdue, request, processed>>
    BY <1>3 DEF Contract!vars, Told
  <1>4. QED
    BY <1>1, <1>2, <1>3, ContractDecision, ContractSweep
    DEF Next, vars, Receive, Read, Skip, Fail, Answer, BeginSweep, FailSweep

\* However the transactions of requests and sweeps overlap, are refused or lose
\* their answers, the queue behaves as if each were one indivisible step.
THEOREM QueueContractIsKept == Spec => QueueContractKept
  <1>1. Init => QueueInv /\ SnapsWereTrue
    BY QueueInvInit, SnapsWereTrueInit
  <1>2. QueueInv /\ SnapsWereTrue /\ [Next]_vars => (QueueInv /\ SnapsWereTrue)'
    BY QueueInvStep, SnapsWereTrueStep
  <1>3. QED
    BY <1>1, <1>2, ContractInit, ContractStep, PTL
    DEF Spec, QueueContractKept, Contract!Spec

-----------------------------------------------------------------------------
(* What the contract is worth: it alone makes the promises below.          *)

\* What a step of the contract can do to item i.
Unmoved(i) ==
  /\ row'[i].status = row[i].status /\ Closings(i)' = Closings(i)
  /\ \A d \in Closed : <<i, d>> \in Told' => <<i, d>> \in Told

Submitted(i) ==
  /\ row[i].status = "absent" /\ row'[i].status = "pending"
  /\ Closings(i)' = Closings(i) /\ Told' = Told

ClosedAs(i, d) ==
  /\ row[i].status \in {"pending", d} /\ row'[i].status = d
  /\ \E e : e.action = d /\ Closings(i)' = Closings(i) \cup {e}
  /\ \A c \in Closed : <<i, c>> \in Told' => c = d \/ <<i, c>> \in Told

LEMMA ContractItemStep ==
  ASSUME [Contract!Next]_(Contract!vars), NEW i \in Items
  PROVE  Unmoved(i) \/ Submitted(i) \/ \E d \in Closed : ClosedAs(i, d)
  <1> DEFINE St == [j \in Items |-> row[j].status]
  <1>0. St[i] = row[i].status /\ St'[i] = row'[i].status
    OBVIOUS
  <1>1. CASE UNCHANGED Contract!vars
    <2>1. UNCHANGED <<St, audit, Told>>
      BY <1>1 DEF Contract!vars
    <2>2. QED
      BY <1>0, <2>1 DEF Unmoved, Closings
  <1>2. ASSUME NEW j \in Items, Contract!Submit(j)
        PROVE  Unmoved(i) \/ Submitted(i)
    <2>1. /\ St[j] = "absent" /\ St' = [St EXCEPT ![j] = "pending"]
          /\ audit' = audit \cup {Contract!Write("created", j, NoOne)} /\ Told' = Told
      BY <1>2 DEF Contract!Submit
    <2>2. Closings(i)' = Closings(i)
      BY <2>1 DEF Closings, Contract!Write, Closed, ApprovalStatus
    <2>3. QED
      BY <1>0, <2>1, <2>2 DEF Unmoved, Submitted
  <1>3. ASSUME NEW j \in Items, Contract!PassExpiry(j)
        PROVE  Unmoved(i)
    <2>1. UNCHANGED <<St, audit, Told>>
      BY <1>3 DEF Contract!PassExpiry
    <2>2. QED
      BY <1>0, <2>1 DEF Unmoved, Closings
  <1>4. ASSUME NEW u \in Users, NEW j \in Items, NEW d \in Contract!Decisions,
               Contract!Decide(u, j, d)
        PROVE  Unmoved(i) \/ \E c \in Closed : ClosedAs(i, c)
    <2> DEFINE e == Contract!Write(d, j, u)
    <2>1. /\ \/ d = "pending" /\ St' = St
             \/ d # "pending" /\ St[j] \in {"pending", d} /\ St' = [St EXCEPT ![j] = d]
          /\ audit' = audit \cup {e}
          /\ Told' \in {Told, Told \cup {<<j, d>>}}
      BY <1>4 DEF Contract!Decide
    <2>2. e.action = d /\ e.item = j
      BY DEF Contract!Write
    <2>3. Closings(i)' = IF d \in Closed /\ i = j THEN Closings(i) \cup {e} ELSE Closings(i)
      BY <2>1, <2>2 DEF Closings
    <2>4. d \in Closed <=> d # "pending"
      BY DEF Closed, ApprovalStatus, Contract!Decisions
    <2>5. CASE d \in Closed /\ i = j
      <3>1. ClosedAs(i, d)
        BY <1>0, <2>1, <2>2, <2>3, <2>4, <2>5 DEF ClosedAs
      <3>2. QED
        BY <2>5, <3>1
    <2>6. CASE ~(d \in Closed /\ i = j)
      <3>1. St'[i] = St[i]
        BY <2>1, <2>4, <2>6
      <3>2. \A c \in Closed : <<i, c>> # <<j, d>>
        BY <2>6
      <3>3. QED
        BY <1>0, <2>1, <2>3, <2>6, <3>1, <3>2 DEF Unmoved
    <2>7. QED
      BY <2>5, <2>6
  <1>5. ASSUME NEW S \in SUBSET overdue, Contract!Expire(S)
        PROVE  Unmoved(i) \/ ClosedAs(i, "expired")
    <2> DEFINE e(j) == Contract!Write("expired", j, NoOne)
    <2>1. /\ \A j \in S : St[j] \in {"pending", "expired"}
          /\ St' = [j \in Items |-> IF j \in S THEN "expired" ELSE St[j]]
          /\ audit' = audit \cup {e(j) : j \in S} /\ Told' = Told
      BY <1>5 DEF Contract!Expire
    <2>2. \A j : e(j).action = "expired" /\ e(j).item = j
      BY DEF Contract!Write
    <2>3. "expired" \in Closed
      BY DEF Closed, ApprovalStatus
    <2> HIDE DEF e
    <2>4. Closings(i)' = IF i \in S THEN Closings(i) \cup {e(i)} ELSE Closings(i)
      BY <2>1, <2>2, <2>3 DEF Closings
    <2>5. QED
      BY <1>0, <2>1, <2>2, <2>4 DEF Unmoved, ClosedAs
  <1>6. "expired" \in Closed
    BY DEF Closed, ApprovalStatus
  <1>7. QED
    BY <1>1, <1>2, <1>3, <1>4, <1>5, <1>6 DEF Contract!Next

\* Reports, log and statuses agree.
Agreement ==
  /\ \A i \in Items, d \in Closed : <<i, d>> \in Told => row[i].status = d
  /\ AuditTellsTheStatus

LEMMA AgreementInit == Contract!Init => Agreement
  <1> SUFFICES ASSUME Contract!Init PROVE Agreement
    OBVIOUS
  <1> DEFINE St == [j \in Items |-> row[j].status]
  <1>1. St = [j \in Items |-> "absent"] /\ audit = {} /\ Told = {}
    BY DEF Contract!Init
  <1>2. \A i \in Items : row[i].status = "absent" /\ Closings(i) = {}
    <2> SUFFICES ASSUME NEW i \in Items PROVE row[i].status = "absent" /\ Closings(i) = {}
      OBVIOUS
    <2>1. St[i] = row[i].status /\ St[i] = "absent"
      BY <1>1
    <2>2. QED
      BY <1>1, <2>1 DEF Closings
  <1>3. QED
    BY <1>1, <1>2 DEF Agreement, AuditTellsTheStatus, Closed, ApprovalStatus

LEMMA AgreementStep ==
  ASSUME Agreement, [Contract!Next]_(Contract!vars)
  PROVE  Agreement'
  <1> SUFFICES ASSUME NEW i \in Items
               PROVE  /\ \A d \in Closed : <<i, d>> \in Told' => row'[i].status = d
                      /\ row'[i].status \in Closed => Closings(i)' # {}
                      /\ \A e \in Closings(i)' : e.action = row'[i].status
    BY DEF Agreement, AuditTellsTheStatus
  <1>1. /\ \A d \in Closed : <<i, d>> \in Told => row[i].status = d
        /\ row[i].status \in Closed => Closings(i) # {}
        /\ \A e \in Closings(i) : e.action = row[i].status /\ e.action \in Closed
    BY DEF Agreement, AuditTellsTheStatus, Closings
  <1>2. CASE Unmoved(i)
    BY <1>1, <1>2 DEF Unmoved
  <1>3. CASE Submitted(i)
    <2>1. "absent" \notin Closed /\ "pending" \notin Closed
      BY DEF Closed, ApprovalStatus
    <2>2. QED
      BY <1>1, <1>3, <2>1 DEF Submitted
  <1>4. ASSUME NEW d \in Closed, ClosedAs(i, d)
        PROVE  /\ \A c \in Closed : <<i, c>> \in Told' => row'[i].status = c
               /\ row'[i].status \in Closed => Closings(i)' # {}
               /\ \A e \in Closings(i)' : e.action = row'[i].status
    <2>1. "pending" \notin Closed
      BY DEF Closed
    <2>2. QED
      BY <1>1, <1>4, <2>1 DEF ClosedAs
  <1>5. QED
    BY <1>2, <1>3, <1>4, ContractItemStep

\* A system that keeps the contract, however it is built, decides once, logs
\* what it decides and tells nobody otherwise.
THEOREM ContractSuffices ==
  QueueContractKept => DecisionIsFinal /\ []AuditTellsTheStatus
                       /\ [](\A i \in Items, d \in Closed :
                               <<i, d>> \in Told => row[i].status = d)
  <1>1. Agreement /\ [Contract!Next]_(Contract!vars) => Agreement'
    BY AgreementStep
  <1>2. [Contract!Next]_(Contract!vars) =>
          [\A i \in Items : row[i].status \in Closed
                              => row'[i].status = row[i].status]_vars
    <2>1. ASSUME [Contract!Next]_(Contract!vars), NEW i \in Items,
                 row[i].status \in Closed
          PROVE  row'[i].status = row[i].status
      <3>1. "absent" \notin Closed /\ "pending" \notin Closed
        BY DEF Closed, ApprovalStatus
      <3>2. QED
        BY <2>1, <3>1, ContractItemStep DEF Unmoved, Submitted, ClosedAs
    <2>2. QED
      BY <2>1
  <1>3. Agreement => /\ AuditTellsTheStatus
                     /\ \A i \in Items, d \in Closed :
                          <<i, d>> \in Told => row[i].status = d
    BY DEF Agreement
  <1>4. QED
    BY <1>1, <1>2, <1>3, AgreementInit, PTL
    DEF QueueContractKept, Contract!Spec, DecisionIsFinal
=============================================================================
