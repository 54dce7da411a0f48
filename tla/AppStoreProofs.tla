--------------------------- MODULE AppStoreProofs ---------------------------
(***************************************************************************)
(* Theorems about AppStore, for every set of runs, approvals, work items   *)
(* and batches, and every bound.                                           *)
(***************************************************************************)
EXTENDS AppStore, FiniteSetTheorems, TLAPS

-----------------------------------------------------------------------------
(* The transactions of RunTables.                                          *)

(* The transactions, with whatever arguments the components pass.          *)
Unconfirming ==
    \/ \E r \in Runs : CreateRun(r)
    \/ \E r \in Runs, to \in RunStatus, p \in Providers \cup {None} :
          TransitionRun(r, runStatus[r], to, p)
    \/ \E a \in Approvals, r \in Runs : \E q : RecordPendingApproval(a, r, q)
    \/ \E a \in Approvals, d \in Decisions : BeginApprovalResponse(a, d)

Transaction == Unconfirming \/ \E a \in Approvals : ConfirmApprovalResponse(a)

(* Voiding the open approvals of a run leaves a table of approvals.        *)
LEMMA VoidPendingType ==
    ASSUME NEW r \in Runs, approval \in [Approvals -> ApprovalRow]
    PROVE  VoidPending(r) \in [Approvals -> ApprovalRow]
  BY DEF VoidPending, ApprovalRow

(* The three transactions on approvals and the two on runs write rows of   *)
(* their tables.                                                           *)
LEMMA TablesType ==
    ASSUME TablesTypeOK,
           \/ \E r \in Runs : CreateRun(r)
           \/ \E r \in Runs, from \in RunStatus \cup {"absent"}, to \in RunStatus,
                 p \in Providers \cup {None} : TransitionRun(r, from, to, p)
           \/ \E a \in Approvals, r \in Runs, q \in Requests :
                 RecordPendingApproval(a, r, q)
           \/ \E a \in Approvals, d \in Decisions : BeginApprovalResponse(a, d)
           \/ \E a \in Approvals : ConfirmApprovalResponse(a)
    PROVE  TablesTypeOK'
  <1>1. ASSUME NEW r \in Runs, CreateRun(r) PROVE TablesTypeOK'
    BY <1>1 DEF CreateRun, TablesTypeOK, RunStatus, Unsettled
  <1>2. ASSUME NEW r \in Runs, NEW from \in RunStatus \cup {"absent"},
               NEW to \in RunStatus, NEW p \in Providers \cup {None},
               TransitionRun(r, from, to, p)
        PROVE  TablesTypeOK'
    BY <1>2, VoidPendingType DEF TransitionRun, TablesTypeOK
  <1>3. ASSUME NEW a \in Approvals, NEW r \in Runs, NEW q \in Requests,
               RecordPendingApproval(a, r, q)
        PROVE  TablesTypeOK'
    BY <1>3 DEF RecordPendingApproval, TablesTypeOK, ApprovalRow
  <1>4. ASSUME NEW a \in Approvals, NEW d \in Decisions, BeginApprovalResponse(a, d)
        PROVE  TablesTypeOK'
    BY <1>4 DEF BeginApprovalResponse, TablesTypeOK, ApprovalRow
  <1>5. ASSUME NEW a \in Approvals, ConfirmApprovalResponse(a)
        PROVE  TablesTypeOK'
    BY <1>5 DEF ConfirmApprovalResponse, TablesTypeOK, ApprovalRow
  <1> QED BY <1>1, <1>2, <1>3, <1>4, <1>5

(* What a transition writes: the run's status, and "voided" on the open    *)
(* approvals of that run if the new status is terminal.                    *)
LEMMA TransitionEffect ==
    ASSUME TablesTypeOK, NEW r \in Runs, NEW to \in RunStatus,
           NEW p \in Providers \cup {None},
           TransitionRun(r, runStatus[r], to, p)
    PROVE  /\ runStatus[r] \in Unsettled
           /\ \A q \in Runs : runStatus'[q] = IF q = r THEN to ELSE runStatus[q]
           /\ \A a \in Approvals :
                /\ approval'[a].run = approval[a].run
                /\ approval'[a].decision = approval[a].decision
                /\ approval'[a].status =
                     IF /\ to \in Terminal
                        /\ approval[a].run = r
                        /\ approval[a].status = "pending"
                     THEN "voided" ELSE approval[a].status
  <1>1. runStatus[r] \in Unsettled
    BY DEF TransitionRun, TransitionAllowed, CanTransitionTo, Unsettled
  <1>2. ASSUME NEW a \in Approvals
        PROVE  /\ approval'[a].run = approval[a].run
               /\ approval'[a].decision = approval[a].decision
               /\ approval'[a].status =
                    IF /\ to \in Terminal
                       /\ approval[a].run = r
                       /\ approval[a].status = "pending"
                    THEN "voided" ELSE approval[a].status
    <2>2. approval[a] \in ApprovalRow
      BY DEF TablesTypeOK
    <2> QED BY <2>2 DEF TransitionRun, VoidPending, IsTerminal, ApprovalRow
  <1>3. \A q \in Runs : runStatus'[q] = IF q = r THEN to ELSE runStatus[q]
    BY DEF TransitionRun, TablesTypeOK
  <1> QED BY <1>1, <1>2, <1>3

(* What AskOf says of a row, by its status.                                *)
LEMMA AskOfRow ==
    ASSUME NEW row \in ApprovalRow
    PROVE  /\ AskOf(row).run = row.run
           /\ AskOf(row).decision = row.decision
           /\ row.status = "absent" <=> AskOf(row).state = "absent"
           /\ row.status = "pending" <=> AskOf(row).state = "open"
           /\ row.status \in {"responding", "resolved"} <=> AskOf(row).state = "decided"
           /\ row.status = "voided" <=> AskOf(row).state = "void"
           /\ AskOf(row) = [state |-> AskOf(row).state, run |-> row.run,
                            decision |-> row.decision]
  BY DEF AskOf, ApprovalRow

(* A transaction on the run tables is a step of the lifecycle, or none.    *)
LEMMA TablesImplementLifecycle ==
    ASSUME TablesTypeOK, Transaction \/ UNCHANGED tableVars
    PROVE  [Lifecycle!Next]_(Lifecycle!lifecycleVars)
  <1> DEFINE Phase == [r \in Runs |-> PhaseOf(runStatus[r])]
             Ask == [a \in Approvals |-> AskOf(approval[a])]
  <1> USE DEF TablesTypeOK
  <1>1. ASSUME NEW r \in Runs, CreateRun(r)
        PROVE  Lifecycle!Create(r)
    BY <1>1 DEF CreateRun, Lifecycle!Create, PhaseOf, IsTerminal, Terminal
  <1>2. ASSUME NEW r \in Runs, NEW to \in RunStatus, NEW p \in Providers \cup {None},
               TransitionRun(r, runStatus[r], to, p), to \in Terminal
        PROVE  Lifecycle!End(r, to)
    <2>1. Phase[r] = "active"
      BY <1>2, TransitionEffect DEF PhaseOf, IsTerminal, Unsettled, Terminal
    <2>2. Phase' = [Phase EXCEPT ![r] = to]
      <3>1. \A q \in Runs : runStatus'[q] = IF q = r THEN to ELSE runStatus[q]
        BY <1>2, TransitionEffect
      <3>2. PhaseOf(to) = to
        BY <1>2 DEF PhaseOf, IsTerminal
      <3>3. \A q \in Runs : Phase'[q] = IF q = r THEN to ELSE Phase[q]
        BY <3>1, <3>2
      <3> QED BY <3>3
    <2>3. Ask' = [a \in Approvals |->
                    IF Ask[a].state = "open" /\ Ask[a].run = r
                    THEN [Ask[a] EXCEPT !.state = "void"] ELSE Ask[a]]
      <3> SUFFICES ASSUME NEW a \in Approvals
                   PROVE  AskOf(approval'[a]) =
                            IF AskOf(approval[a]).state = "open" /\ AskOf(approval[a]).run = r
                            THEN [AskOf(approval[a]) EXCEPT !.state = "void"]
                            ELSE AskOf(approval[a])
        OBVIOUS
      <3>1. approval[a] \in ApprovalRow OBVIOUS
      <3>2. CASE approval[a].run = r /\ approval[a].status = "pending"
        <4>1. approval'[a] = [approval[a] EXCEPT !.status = "voided"]
          BY <1>2, <3>2 DEF TransitionRun, VoidPending, IsTerminal
        <4> QED BY <3>1, <3>2, <4>1 DEF AskOf, ApprovalRow
      <3>3. CASE ~(approval[a].run = r /\ approval[a].status = "pending")
        <4>1. approval'[a] = approval[a]
          BY <1>2, <3>3 DEF TransitionRun, VoidPending, IsTerminal
        <4> QED BY <3>1, <3>3, <4>1, AskOfRow
      <3> QED BY <3>2, <3>3
    <2> QED BY <2>1, <2>2, <2>3 DEF Lifecycle!End
  <1>3. ASSUME NEW r \in Runs, NEW to \in RunStatus, NEW p \in Providers \cup {None},
               TransitionRun(r, runStatus[r], to, p), to \notin Terminal
        PROVE  UNCHANGED Lifecycle!lifecycleVars
    <2>1. Phase' = Phase
      BY <1>3, TransitionEffect DEF PhaseOf, IsTerminal, Unsettled, Terminal, RunStatus
    <2>2. Ask' = Ask
      BY <1>3 DEF TransitionRun, IsTerminal
    <2> QED BY <2>1, <2>2 DEF Lifecycle!lifecycleVars
  <1>4. ASSUME NEW a \in Approvals, NEW r \in Runs, NEW q,
               RecordPendingApproval(a, r, q)
        PROVE  Lifecycle!Ask(a, r)
    <2>1. Phase[r] = "active"
      BY <1>4 DEF RecordPendingApproval, PhaseOf, IsTerminal, Terminal
    <2>2. Ask[a].state = "absent"
      BY <1>4 DEF RecordPendingApproval, AskOf
    <2>3. Ask' = [Ask EXCEPT ![a] = [state |-> "open", run |-> r, decision |-> None]]
      BY <1>4 DEF RecordPendingApproval, AskOf
    <2>4. Phase' = Phase
      BY <1>4 DEF RecordPendingApproval
    <2> QED BY <2>1, <2>2, <2>3, <2>4 DEF Lifecycle!Ask
  <1>5. ASSUME NEW a \in Approvals, NEW d \in Decisions, BeginApprovalResponse(a, d)
        PROVE  Lifecycle!Decide(a, d)
    <2>1. Ask[a].state = "open"
      BY <1>5 DEF BeginApprovalResponse, AskOf
    <2>2. /\ approval'[a].status = "responding"
          /\ approval'[a].decision = d
          /\ approval'[a].run = approval[a].run
      BY <1>5 DEF BeginApprovalResponse, ApprovalRow
    <2>3. AskOf(approval'[a]) =
            [state |-> "decided", run |-> AskOf(approval[a]).run, decision |-> d]
      BY <2>2 DEF AskOf
    <2>4. \A b \in Approvals \ {a} : approval'[b] = approval[b]
      BY <1>5 DEF BeginApprovalResponse
    <2>5. Ask' = [Ask EXCEPT ![a] =
                    [state |-> "decided", run |-> Ask[a].run, decision |-> d]]
      BY <2>3, <2>4
    <2>6. Phase' = Phase
      BY <1>5 DEF BeginApprovalResponse
    <2> QED BY <2>1, <2>5, <2>6 DEF Lifecycle!Decide
  <1>6. ASSUME NEW a \in Approvals, ConfirmApprovalResponse(a)
        PROVE  UNCHANGED Lifecycle!lifecycleVars
    <2>1. /\ approval[a].status = "responding"
          /\ approval'[a].status = "resolved"
          /\ approval'[a].decision = approval[a].decision
          /\ approval'[a].run = approval[a].run
      BY <1>6 DEF ConfirmApprovalResponse, ApprovalRow
    <2>2. AskOf(approval'[a]) = AskOf(approval[a])
      BY <2>1 DEF AskOf
    <2>3. \A b \in Approvals \ {a} : approval'[b] = approval[b]
      BY <1>6 DEF ConfirmApprovalResponse
    <2>4. Ask' = Ask
      BY <2>2, <2>3
    <2>5. Phase' = Phase
      BY <1>6 DEF ConfirmApprovalResponse
    <2> QED BY <2>4, <2>5 DEF Lifecycle!lifecycleVars
  <1>7. CASE UNCHANGED tableVars
    BY <1>7 DEF tableVars, Lifecycle!lifecycleVars
  <1> QED BY <1>1, <1>2, <1>3, <1>4, <1>5, <1>6, <1>7 DEF Lifecycle!Next, Transaction,
    Unconfirming

-----------------------------------------------------------------------------
(* Types.                                                                  *)

(* A revision moved by one is a revision.                                  *)
LEMMA BumpType ==
    ASSUME NEW w, Bump(w), workItem \in [WorkItems -> WorkItemRow]
    PROVE  workItem' \in [WorkItems -> WorkItemRow]
  <1>1. CASE w \in WorkItems
    <2>1. workItem[w] \in WorkItemRow
      BY <1>1
    <2>2. [workItem[w] EXCEPT !.revision = @ + 1] \in WorkItemRow
      BY <2>1 DEF WorkItemRow
    <2> QED BY <1>1, <2>2 DEF Bump
  <1>2. CASE w \notin WorkItems
    BY <1>2 DEF Bump
  <1> QED BY <1>1, <1>2

(* The rows of a batch that was issued.                                    *)
LEMMA RowsOfType ==
    ASSUME NEW b \in Batches, issued[b] \in Batch
    PROVE  /\ issued[b].items \in Seq(ProviderItems \cup {None})
           /\ Len(issued[b].items) \in Nat \ {0}
           /\ DOMAIN issued[b].items = 1..Len(issued[b].items)
           /\ RowsOf(b) \in Seq(TimelineRow)
           /\ Len(RowsOf(b)) = Len(issued[b].items)
  <1> DEFINE items == issued[b].items
  <1>1. PICK n \in 1..MaxBatchItems : items \in [1..n -> ProviderItems \cup {None}]
    BY DEF Batch
  <1>2. n \in Nat \ {0}
    BY BoundsAssumption
  <1>3. items \in Seq(ProviderItems \cup {None}) /\ Len(items) = n
    BY <1>1, <1>2
  <1>4. RowsOf(b) \in [1..n -> TimelineRow]
    <2> SUFFICES ASSUME NEW i \in 1..n
                 PROVE  [batch |-> b, index |-> i, stream |-> issued[b].stream,
                         item |-> issued[b].items[i]] \in TimelineRow
      BY <1>1 DEF RowsOf
    <2>1. i \in 1..MaxBatchItems
      BY BoundsAssumption
    <2> QED BY <1>1, <2>1 DEF TimelineRow, Batch
  <1> HIDE DEF items
  <1> QED BY <1>2, <1>3, <1>4 DEF items

(* Every column keeps its type in every step; that a confirmed answer has  *)
(* a decision to put into the audit trail needs RowsAreComplete.           *)
LEMMA TypeStep ==
    ASSUME TypeOK, RowsAreComplete, [Next]_vars PROVE TypeOK'
  <1> USE DEF TypeOK
  <1>1. ASSUME NEW r \in Runs, NEW w \in WorkItems, StoreCreateRun(r, w)
        PROVE  TypeOK'
    <2>1. TablesTypeOK' BY <1>1, TablesType DEF StoreCreateRun
    <2>2. workItem' \in [WorkItems -> WorkItemRow]
      BY <1>1, BumpType DEF StoreCreateRun
    <2> QED BY <1>1, <2>1, <2>2 DEF StoreCreateRun, clientVars
  <1>2. ASSUME NEW r \in Runs, NEW to \in RunStatus, NEW p \in Providers \cup {None},
               StoreTransitionRun(r, runStatus[r], to, p)
        PROVE  TypeOK'
    <2>1. TablesTypeOK'
      <3>1. runStatus[r] \in RunStatus \cup {"absent"} BY DEF TablesTypeOK
      <3>2. TransitionRun(r, runStatus[r], to, p) BY <1>2 DEF StoreTransitionRun
      <3> QED BY <3>1, <3>2, TablesType
    <2>2. workItem' \in [WorkItems -> WorkItemRow]
      BY <1>2, BumpType DEF StoreTransitionRun
    <2>3. runStatus[r] \in RunStatus
      BY <1>2 DEF StoreTransitionRun, TransitionRun, TransitionAllowed,
                  CanTransitionTo, RunStatus, Unsettled
    <2>4. [event |-> "run_transitioned", from |-> runStatus[r], to |-> to] \in AuditRow
      BY <2>3 DEF AuditRow
    <2>5. audit' \in [Runs \cup Approvals -> Seq(AuditRow)]
      BY <1>2, <2>4 DEF StoreTransitionRun
    <2> QED BY <1>2, <2>1, <2>2, <2>5 DEF StoreTransitionRun, clientVars
  <1>3. ASSUME NEW a \in Approvals, NEW r \in Runs, NEW q \in Requests,
               StoreRecordApproval(a, r, q)
        PROVE  TypeOK'
    <2>1. TablesTypeOK' BY <1>3, TablesType DEF StoreRecordApproval
    <2>2. workItem' \in [WorkItems -> WorkItemRow]
      BY <1>3, BumpType DEF StoreRecordApproval
    <2> QED BY <1>3, <2>1, <2>2 DEF StoreRecordApproval, clientVars
  <1>4. ASSUME NEW a \in Approvals, NEW d \in Decisions, StoreBeginResponse(a, d)
        PROVE  TypeOK'
    <2>1. TablesTypeOK' BY <1>4, TablesType DEF StoreBeginResponse
    <2>2. workItem' \in [WorkItems -> WorkItemRow]
      BY <1>4, BumpType DEF StoreBeginResponse
    <2>3. [event |-> "response_begun", from |-> None, to |-> d] \in AuditRow
      BY DEF AuditRow
    <2>4. audit' \in [Runs \cup Approvals -> Seq(AuditRow)]
      BY <1>4, <2>3 DEF StoreBeginResponse
    <2> QED BY <1>4, <2>1, <2>2, <2>4 DEF StoreBeginResponse, clientVars
  <1>5. ASSUME NEW a \in Approvals, StoreConfirmResponse(a)
        PROVE  TypeOK'
    <2>1. TablesTypeOK' BY <1>5, TablesType DEF StoreConfirmResponse
    <2>2. workItem' \in [WorkItems -> WorkItemRow]
      BY <1>5, BumpType DEF StoreConfirmResponse
    <2>3. approval[a].decision \in Decisions
      BY <1>5 DEF StoreConfirmResponse, ConfirmApprovalResponse, RowsAreComplete,
                  ApprovalsHaveRuns
    <2>4. [event |-> "response_confirmed", from |-> None,
           to |-> approval[a].decision] \in AuditRow
      BY <2>3 DEF AuditRow
    <2>5. audit' \in [Runs \cup Approvals -> Seq(AuditRow)]
      BY <1>5, <2>4 DEF StoreConfirmResponse
    <2> QED BY <1>5, <2>1, <2>2, <2>5 DEF StoreConfirmResponse, clientVars
  <1>6. ASSUME NEW w \in WorkItems, NEW p \in Projects, NEW v \in WorkItems \cup {None},
               CreateWorkItem(w, p, v)
        PROVE  TypeOK'
    BY <1>6 DEF CreateWorkItem, WorkItemRow, TablesTypeOK, tableVars, clientVars
  <1>7. ASSUME NEW w \in WorkItems, ArchiveWorkSubtree(w)
        PROVE  TypeOK'
    <2>1. ASSUME NEW v \in WorkItems
          PROVE  [workItem[v] EXCEPT !.status = "archived", !.revision = @ + 1]
                    \in WorkItemRow
      <3> DEFINE n == workItem[v].revision + 1
      <3>1. workItem[v] \in WorkItemRow OBVIOUS
      <3>2. n \in Nat BY <3>1 DEF WorkItemRow
      <3> HIDE DEF n
      <3>3. [workItem[v] EXCEPT !.status = "archived", !.revision = n] \in WorkItemRow
        BY <3>1, <3>2 DEF WorkItemRow
      <3> QED BY <3>3 DEF n
    <2>2. workItem' \in [WorkItems -> WorkItemRow]
      BY <1>7, <2>1 DEF ArchiveWorkSubtree
    <2> QED BY <1>7, <2>2 DEF ArchiveWorkSubtree, TablesTypeOK, tableVars, clientVars
  <1>8. ASSUME NEW b \in Batches, NEW r \in Runs, NEW s \in Streams,
               NEW n \in 1..MaxBatchItems,
               NEW items \in [1..n -> ProviderItems \cup {None}],
               IssueBatch(b, r, s, items)
        PROVE  TypeOK'
    <2>1. cursor[r][s].at \in Nat
      BY DEF CursorRow
    <2>2. [run |-> r, stream |-> s, start |-> cursor[r][s].at, items |-> items] \in Batch
      BY <2>1 DEF Batch
    <2> QED BY <1>8, <2>2 DEF IssueBatch, TablesTypeOK, tableVars, storeVars
  <1>9. ASSUME NEW b \in Batches, AppendTimelineBatch(b)
        PROVE  TypeOK'
    <2>1. issued[b] \in Batch BY <1>9 DEF AppendTimelineBatch
    <2>2. /\ RowsOf(b) \in Seq(TimelineRow)
          /\ Len(issued[b].items) \in Nat
      BY <2>1, RowsOfType
    <2>3. issued[b].run \in Runs /\ issued[b].stream \in Streams /\ issued[b].start \in Nat
      BY <2>1 DEF Batch
    <2>4. workItem' \in [WorkItems -> WorkItemRow]
      BY <1>9, BumpType DEF AppendTimelineBatch
    <2>5. timeline' \in [Runs -> Seq(TimelineRow)]
      BY <1>9, <2>2, <2>3 DEF AppendTimelineBatch
    <2>6. [at |-> issued[b].start + Len(issued[b].items), batch |-> b,
           start |-> issued[b].start] \in CursorRow
      BY <2>2, <2>3 DEF CursorRow
    <2>7. cursor' \in [Runs -> [Streams -> CursorRow]]
      BY <1>9, <2>3, <2>6 DEF AppendTimelineBatch
    <2>8. reply' \in [Batches -> {"none", "ok", "conflict"}]
      BY <1>9 DEF AppendTimelineBatch
    <2>9. UNCHANGED <<runStatus, runProvider, approval, runWork, audit, issued>>
      BY <1>9 DEF AppendTimelineBatch, tableVars
    <2> QED BY <2>4, <2>5, <2>7, <2>8, <2>9 DEF TablesTypeOK
  <1>10. ASSUME NEW b \in Batches, AppendAgain(b) \/ AppendConflict(b)
         PROVE  TypeOK'
    BY <1>10 DEF AppendAgain, AppendConflict, TablesTypeOK, tableVars, storeVars
  <1>11. CASE UNCHANGED vars
    BY <1>11 DEF vars, TablesTypeOK, tableVars, storeVars, clientVars
  <1> QED
    BY <1>1, <1>2, <1>3, <1>4, <1>5, <1>6, <1>7, <1>8, <1>9, <1>10, <1>11
    DEF Next, RunStep, ApprovalStep, WorkStep, TimelineStep

(* A step never deletes a work item or a run, nor moves one elsewhere; a   *)
(* new work item or run is tied to a row that was there before.            *)
LEMMA WorkRowsStay ==
    ASSUME TypeOK, [Next]_vars, NEW v \in WorkItems
    PROVE  /\ workItem[v].status # "absent" =>
                /\ workItem'[v].status # "absent"
                /\ workItem'[v].parent = workItem[v].parent
           /\ workItem[v].status = "absent" /\ workItem'[v].status # "absent" =>
                \/ workItem'[v].parent = None
                \/ workItem[workItem'[v].parent].status # "absent"
           /\ workItem'[v].parent \in WorkItems \cup {None}
  <1>1. workItem \in [WorkItems -> WorkItemRow] /\ workItem[v] \in WorkItemRow
    BY DEF TypeOK
  <1>2. ASSUME NEW w, Bump(w)
        PROVE  /\ workItem'[v].status = workItem[v].status
               /\ workItem'[v].parent = workItem[v].parent
    BY <1>1, <1>2 DEF Bump, WorkItemRow
  <1>3. ASSUME NEW w \in WorkItems, NEW p \in Projects, NEW u \in WorkItems \cup {None},
               CreateWorkItem(w, p, u)
        PROVE  \/ workItem'[v] = workItem[v]
               \/ /\ workItem[v].status = "absent"
                  /\ workItem'[v].parent = u
                  /\ u # None => workItem[u].status # "absent"
    BY <1>1, <1>3 DEF CreateWorkItem
  <1>4. ASSUME NEW w \in WorkItems, ArchiveWorkSubtree(w)
        PROVE  /\ workItem'[v].status = "absent" <=> workItem[v].status = "absent"
               /\ workItem'[v].parent = workItem[v].parent
    BY <1>1, <1>4 DEF ArchiveWorkSubtree, WorkItemRow
  <1>5. workItem[v].parent \in WorkItems \cup {None}
    BY <1>1 DEF WorkItemRow
  <1>6. CASE RunStep \/ ApprovalStep
    BY <1>2, <1>5, <1>6
    DEF RunStep, ApprovalStep, StoreCreateRun, StoreTransitionRun, StoreRecordApproval,
        StoreBeginResponse, StoreConfirmResponse
  <1>7. CASE WorkStep
    BY <1>3, <1>4, <1>5, <1>7 DEF WorkStep
  <1>8. CASE TimelineStep
    BY <1>2, <1>5, <1>8
    DEF TimelineStep, IssueBatch, AppendTimelineBatch, AppendAgain, AppendConflict, storeVars
  <1>9. CASE UNCHANGED vars
    BY <1>5, <1>9 DEF vars, storeVars
  <1> QED BY <1>6, <1>7, <1>8, <1>9 DEF Next

LEMMA RunRowsStay ==
    ASSUME TypeOK, [Next]_vars, NEW r \in Runs
    PROVE  /\ runStatus[r] # "absent" =>
                runStatus'[r] # "absent" /\ runWork'[r] = runWork[r]
           /\ runStatus[r] = "absent" /\ runStatus'[r] # "absent" =>
                runWork'[r] \in WorkItems /\ workItem[runWork'[r]].status # "absent"
  <1> USE DEF TypeOK, TablesTypeOK
  <1>1. ASSUME NEW q \in Runs, NEW w \in WorkItems, StoreCreateRun(q, w)
        PROVE  \/ runStatus'[r] = runStatus[r] /\ runWork'[r] = runWork[r]
               \/ /\ runStatus[r] = "absent" /\ runWork'[r] = w
                  /\ workItem[w].status # "absent"
    BY <1>1 DEF StoreCreateRun, CreateRun
  <1>2. ASSUME NEW q \in Runs, NEW to \in RunStatus, NEW p \in Providers \cup {None},
               StoreTransitionRun(q, runStatus[q], to, p)
        PROVE  /\ runStatus'[r] = "absent" <=> runStatus[r] = "absent"
               /\ runWork'[r] = runWork[r]
    BY <1>2 DEF StoreTransitionRun, TransitionRun, TransitionAllowed, CanTransitionTo,
                RunStatus, Unsettled, Terminal
  <1>3. CASE RunStep
    BY <1>1, <1>2, <1>3 DEF RunStep
  <1>4. CASE ApprovalStep
    BY <1>4 DEF ApprovalStep, StoreRecordApproval, RecordPendingApproval,
                StoreBeginResponse, BeginApprovalResponse, StoreConfirmResponse,
                ConfirmApprovalResponse
  <1>5. CASE WorkStep \/ TimelineStep \/ UNCHANGED vars
    BY <1>5 DEF WorkStep, TimelineStep, CreateWorkItem, ArchiveWorkSubtree, IssueBatch,
                AppendTimelineBatch, AppendAgain, AppendConflict, tableVars, storeVars, vars
  <1> QED BY <1>3, <1>4, <1>5 DEF Next

(* What a step may do to one approval.                                     *)
LEMMA ApprovalRowsStay ==
    ASSUME TypeOK, [Next]_vars, NEW a \in Approvals
    PROVE  \/ /\ approval'[a].run = approval[a].run
              /\ approval'[a].status = "absent" <=> approval[a].status = "absent"
              /\ \/ approval'[a].decision = approval[a].decision
                 \/ approval'[a].decision \in Decisions
              /\ approval'[a].status \in {"responding", "resolved"} =>
                   \/ approval[a].status \in {"responding", "resolved"}
                   \/ approval'[a].decision \in Decisions
           \/ /\ approval[a].status = "absent" /\ approval'[a].status = "pending"
              /\ approval'[a].run \in Runs
              /\ runStatus[approval'[a].run] # "absent"
  <1> USE DEF TypeOK, TablesTypeOK
  <1>1. approval[a] \in ApprovalRow OBVIOUS
  <1>2. ASSUME NEW q \in Runs, NEW to \in RunStatus, NEW p \in Providers \cup {None},
               StoreTransitionRun(q, runStatus[q], to, p)
        PROVE  \/ approval'[a] = approval[a]
               \/ /\ approval[a].status = "pending"
                  /\ approval'[a] = [approval[a] EXCEPT !.status = "voided"]
    BY <1>2 DEF StoreTransitionRun, TransitionRun, VoidPending
  <1>3. ASSUME NEW b \in Approvals, NEW q \in Runs, NEW c \in Requests,
               StoreRecordApproval(b, q, c)
        PROVE  \/ approval'[a] = approval[a]
               \/ /\ approval[a].status = "absent" /\ approval'[a].status = "pending"
                  /\ approval'[a].run = q /\ runStatus[q] # "absent"
    BY <1>3 DEF StoreRecordApproval, RecordPendingApproval
  <1>4. ASSUME NEW b \in Approvals, NEW d \in Decisions, StoreBeginResponse(b, d)
        PROVE  \/ approval'[a] = approval[a]
               \/ /\ approval[a].status = "pending" /\ approval'[a].status = "responding"
                  /\ approval'[a].run = approval[a].run /\ approval'[a].decision = d
    BY <1>1, <1>4 DEF StoreBeginResponse, BeginApprovalResponse, ApprovalRow
  <1>5. ASSUME NEW b \in Approvals, StoreConfirmResponse(b)
        PROVE  \/ approval'[a] = approval[a]
               \/ /\ approval[a].status = "responding" /\ approval'[a].status = "resolved"
                  /\ approval'[a].run = approval[a].run
                  /\ approval'[a].decision = approval[a].decision
    BY <1>1, <1>5 DEF StoreConfirmResponse, ConfirmApprovalResponse, ApprovalRow
  <1>6. CASE RunStep
    BY <1>1, <1>2, <1>6 DEF RunStep, StoreCreateRun, CreateRun, ApprovalRow
  <1>7. CASE ApprovalStep
    BY <1>3, <1>4, <1>5, <1>7 DEF ApprovalStep
  <1>8. CASE WorkStep \/ TimelineStep \/ UNCHANGED vars
    BY <1>8 DEF WorkStep, TimelineStep, CreateWorkItem, ArchiveWorkSubtree, IssueBatch,
                AppendTimelineBatch, AppendAgain, AppendConflict, tableVars, vars
  <1> QED BY <1>6, <1>7, <1>8 DEF Next

(* The references between rows survive every step.                         *)
LEMMA CompleteStep ==
    ASSUME TypeOK, RowsAreComplete, [Next]_vars PROVE RowsAreComplete'
  <1> USE DEF RowsAreComplete
  <1>1. ParentsExist'
    BY WorkRowsStay DEF ParentsExist
  <1>2. RunsHaveWork'
    BY WorkRowsStay, RunRowsStay DEF RunsHaveWork
  <1>3. ApprovalsHaveRuns'
    <2> SUFFICES ASSUME NEW a \in Approvals
                 PROVE  /\ approval'[a].status # "absent" =>
                             /\ approval'[a].run \in Runs
                             /\ runStatus'[approval'[a].run] # "absent"
                        /\ approval'[a].status \in {"responding", "resolved"} =>
                             approval'[a].decision \in Decisions
      BY DEF ApprovalsHaveRuns
    <2> QED BY RunRowsStay, ApprovalRowsStay DEF ApprovalsHaveRuns
  <1>4. BatchesHaveRuns'
    <2>1. ASSUME NEW b \in Batches
          PROVE  \/ issued'[b] = issued[b]
                 \/ issued'[b].run \in Runs /\ runStatus[issued'[b].run] # "absent"
      <3>1. ASSUME NEW c \in Batches, NEW r \in Runs, NEW s \in Streams, NEW items,
                   IssueBatch(c, r, s, items)
            PROVE  \/ issued'[b] = issued[b]
                   \/ issued'[b].run = r /\ runStatus[r] # "absent"
        BY <3>1 DEF IssueBatch, TypeOK
      <3>2. CASE RunStep \/ ApprovalStep \/ WorkStep \/ UNCHANGED vars
        BY <3>2 DEF RunStep, ApprovalStep, WorkStep, StoreCreateRun, StoreTransitionRun,
                    StoreRecordApproval, StoreBeginResponse, StoreConfirmResponse,
                    CreateWorkItem, ArchiveWorkSubtree, vars, clientVars
      <3>3. ASSUME NEW c \in Batches,
                   AppendTimelineBatch(c) \/ AppendAgain(c) \/ AppendConflict(c)
            PROVE  issued' = issued
        BY <3>3 DEF AppendTimelineBatch, AppendAgain, AppendConflict
      <3> QED BY <3>1, <3>2, <3>3 DEF Next, TimelineStep
    <2>2. ASSUME NEW b \in Batches, issued[b] # None
          PROVE  issued[b].run \in Runs
      BY <2>2 DEF TypeOK, Batch
    <2> QED BY <2>1, <2>2, RunRowsStay DEF BatchesHaveRuns
  <1> QED BY <1>1, <1>2, <1>3, <1>4

(* Every column of the database keeps its type and every reference points  *)
(* to a row, under any clients.                                            *)
THEOREM TypeCorrect == Spec => [](TypeOK /\ RowsAreComplete)
  <1>1. Init => TypeOK /\ RowsAreComplete
    BY DEF Init, TablesInit, TypeOK, TablesTypeOK, NoWorkItem, NoApproval,
           WorkItemRow, ApprovalRow, CursorRow, RunStatus, RowsAreComplete,
           ParentsExist, RunsHaveWork, ApprovalsHaveRuns, BatchesHaveRuns
  <1>2. (TypeOK /\ RowsAreComplete) /\ [Next]_vars => (TypeOK /\ RowsAreComplete)'
    BY TypeStep, CompleteStep
  <1> QED BY <1>1, <1>2, PTL DEF Spec

-----------------------------------------------------------------------------
(* Runs and approvals.                                                     *)

(* No step of the timeline or of the work tree writes the run tables.      *)
LEMMA OtherStepsKeepTables ==
    ASSUME WorkStep \/ TimelineStep PROVE UNCHANGED tableVars
  BY DEF WorkStep, TimelineStep, CreateWorkItem, ArchiveWorkSubtree, IssueBatch,
         AppendTimelineBatch, AppendAgain, AppendConflict

(* An approval nobody has answered never outlives its run, for any number  *)
(* of runs, approvals and clients: apply_run_transition voids it in the    *)
(* transaction that ends the run.                                          *)
THEOREM OpenApprovalsAreLive == Spec => []NoOpenApprovalOfEndedRun
  <1>1. Init => NoOpenApprovalOfEndedRun
    BY DEF Init, TablesInit, NoApproval, NoOpenApprovalOfEndedRun
  <1>2. ASSUME TypeOK, RowsAreComplete, NoOpenApprovalOfEndedRun, [Next]_vars
        PROVE  NoOpenApprovalOfEndedRun'
    <2> USE <1>2 DEF TypeOK, TablesTypeOK, NoOpenApprovalOfEndedRun
    <2>1. ASSUME NEW r \in Runs, NEW w \in WorkItems, StoreCreateRun(r, w)
          PROVE  NoOpenApprovalOfEndedRun'
      BY <2>1 DEF StoreCreateRun, CreateRun, Unsettled, RowsAreComplete, ApprovalsHaveRuns
    <2>2. ASSUME NEW r \in Runs, NEW to \in RunStatus, NEW p \in Providers \cup {None},
                 StoreTransitionRun(r, runStatus[r], to, p)
          PROVE  NoOpenApprovalOfEndedRun'
      <3>1. TransitionRun(r, runStatus[r], to, p) BY <2>2 DEF StoreTransitionRun
      <3> SUFFICES ASSUME NEW a \in Approvals, approval'[a].status = "pending"
                   PROVE  runStatus'[approval'[a].run] \in Unsettled
        OBVIOUS
      <3>2. /\ approval[a].status = "pending"
            /\ approval'[a].run = approval[a].run
            /\ ~(to \in Terminal /\ approval[a].run = r)
        BY <3>1, TransitionEffect
      <3>3. approval[a].run \in Runs BY <3>2 DEF RowsAreComplete, ApprovalsHaveRuns
      <3> QED BY <3>1, <3>2, <3>3, TransitionEffect DEF RunStatus
    <2>3. ASSUME NEW a \in Approvals, NEW r \in Runs, NEW q \in Requests,
                 StoreRecordApproval(a, r, q)
          PROVE  NoOpenApprovalOfEndedRun'
      BY <2>3 DEF StoreRecordApproval, RecordPendingApproval, Unsettled
    <2>4. ASSUME NEW a \in Approvals, NEW d \in Decisions, StoreBeginResponse(a, d)
          PROVE  NoOpenApprovalOfEndedRun'
      BY <2>4 DEF StoreBeginResponse, BeginApprovalResponse, ApprovalRow
    <2>5. ASSUME NEW a \in Approvals, StoreConfirmResponse(a)
          PROVE  NoOpenApprovalOfEndedRun'
      BY <2>5 DEF StoreConfirmResponse, ConfirmApprovalResponse, ApprovalRow
    <2>6. CASE WorkStep \/ TimelineStep \/ UNCHANGED vars
      BY <2>6, OtherStepsKeepTables DEF vars, tableVars
    <2> QED BY <2>1, <2>2, <2>3, <2>4, <2>5, <2>6 DEF Next, RunStep, ApprovalStep
  <1> QED BY <1>1, <1>2, TypeCorrect, PTL DEF Spec

(* One provider run never belongs to two application runs: the check of    *)
(* the identity and its write are one transaction.                         *)
THEOREM ProviderRunsAreUnique == Spec => []ProviderRunBelongsToOneRun
  <1>1. Init => ProviderRunBelongsToOneRun
    BY DEF Init, TablesInit, ProviderRunBelongsToOneRun
  <1>2. ASSUME TypeOK, ProviderRunBelongsToOneRun, [Next]_vars
        PROVE  ProviderRunBelongsToOneRun'
    <2> USE <1>2 DEF TypeOK, TablesTypeOK, ProviderRunBelongsToOneRun
    <2>1. ASSUME NEW r \in Runs, NEW to \in RunStatus, NEW p \in Providers \cup {None},
                 StoreTransitionRun(r, runStatus[r], to, p)
          PROVE  ProviderRunBelongsToOneRun'
      BY <2>1 DEF StoreTransitionRun, TransitionRun, TransitionAllowed
    <2>2. CASE \/ \E r \in Runs, w \in WorkItems : StoreCreateRun(r, w)
               \/ ApprovalStep
      BY <2>2 DEF ApprovalStep, StoreCreateRun, CreateRun, StoreRecordApproval,
                  RecordPendingApproval, StoreBeginResponse, BeginApprovalResponse,
                  StoreConfirmResponse, ConfirmApprovalResponse
    <2>3. CASE WorkStep \/ TimelineStep \/ UNCHANGED vars
      BY <2>3, OtherStepsKeepTables DEF vars, tableVars
    <2> QED BY <2>1, <2>2, <2>3 DEF Next, RunStep
  <1> QED BY <1>1, <1>2, TypeCorrect, PTL DEF Spec

-----------------------------------------------------------------------------
(* Work items.                                                             *)

(* Subtree(root) is closed downwards and holds its root.                   *)
LEMMA SubtreeClosed ==
    ASSUME NEW root \in WorkItems
    PROVE  /\ root \in Subtree(root)
           /\ \A w \in WorkItems :
                workItem[w].parent \in Subtree(root) => w \in Subtree(root)
  BY DEF Subtree

(* Archiving and creating keep archived subtrees closed for a tree of any  *)
(* size and depth, whatever the order of the two.                          *)
THEOREM ArchivesAreClosed == Spec => []ArchivedSubtreesAreClosed
  <1>1. Init => ArchivedSubtreesAreClosed
    BY DEF Init, NoWorkItem, ArchivedSubtreesAreClosed
  <1>2. ASSUME TypeOK, RowsAreComplete, ArchivedSubtreesAreClosed, [Next]_vars
        PROVE  ArchivedSubtreesAreClosed'
    <2> USE <1>2 DEF TypeOK
    <2>1. \A v \in WorkItems : workItem[v] \in WorkItemRow
      OBVIOUS
    <2>2. ASSUME NEW w \in WorkItems, NEW p \in Projects,
                 NEW v \in WorkItems \cup {None}, CreateWorkItem(w, p, v)
          PROVE  ArchivedSubtreesAreClosed'
      BY <2>1, <2>2, BoundsAssumption
      DEF CreateWorkItem, RowsAreComplete, ParentsExist, ArchivedSubtreesAreClosed, WorkItemRow
    <2>3. ASSUME NEW w \in WorkItems, ArchiveWorkSubtree(w)
          PROVE  ArchivedSubtreesAreClosed'
      <3>1. ASSUME NEW v \in WorkItems
            PROVE  /\ workItem'[v].project = workItem[v].project
                   /\ workItem'[v].parent = workItem[v].parent
                   /\ workItem[v].parent \in WorkItems \cup {None}
                   /\ workItem'[v].status =
                        IF v \in Subtree(w) /\ workItem[v].status = "ready"
                        THEN "archived" ELSE workItem[v].status
                   /\ workItem[v].status \in {"absent", "ready", "archived"}
        BY <2>1, <2>3, <3>1 DEF ArchiveWorkSubtree, WorkItemRow
      <3> QED BY <3>1, SubtreeClosed DEF ArchivedSubtreesAreClosed
    <2>4. ASSUME NEW w, Bump(w)
          PROVE  ArchivedSubtreesAreClosed'
      <3>1. ASSUME NEW v \in WorkItems
            PROVE  /\ workItem'[v].project = workItem[v].project
                   /\ workItem'[v].parent = workItem[v].parent
                   /\ workItem'[v].status = workItem[v].status
                   /\ workItem[v].parent \in WorkItems \cup {None}
        BY <2>1, <2>4, <3>1 DEF Bump, WorkItemRow
      <3> SUFFICES ASSUME NEW v \in WorkItems,
                          workItem'[v].status # "absent", workItem'[v].parent # None
                   PROVE  /\ workItem'[workItem'[v].parent].project = workItem'[v].project
                          /\ workItem'[workItem'[v].parent].status = "archived"
                               => workItem'[v].status = "archived"
        BY DEF ArchivedSubtreesAreClosed
      <3> DEFINE p == workItem[v].parent
      <3>2. p \in WorkItems /\ workItem'[v].parent = p
        BY <3>1
      <3>3. workItem[v].status # "absent"
        BY <3>1
      <3>4. /\ workItem[p].project = workItem[v].project
            /\ workItem[p].status = "archived" => workItem[v].status = "archived"
        BY <3>1, <3>2, <3>3, BoundsAssumption DEF ArchivedSubtreesAreClosed
      <3>5. workItem'[p].project = workItem'[v].project
        BY <3>1, <3>2, <3>4
      <3>6. workItem'[p].status = workItem[p].status /\ workItem'[v].status = workItem[v].status
        BY <3>1, <3>2
      <3> QED BY <3>2, <3>4, <3>5, <3>6
    <2>5. CASE RunStep \/ ApprovalStep
      BY <2>4, <2>5 DEF RunStep, ApprovalStep, StoreCreateRun, StoreTransitionRun,
                        StoreRecordApproval, StoreBeginResponse, StoreConfirmResponse
    <2>6. CASE TimelineStep
      BY <2>4, <2>6 DEF TimelineStep, IssueBatch, AppendTimelineBatch, AppendAgain,
                        AppendConflict, storeVars, ArchivedSubtreesAreClosed
    <2>7. CASE UNCHANGED vars
      BY <2>7 DEF vars, storeVars, ArchivedSubtreesAreClosed
    <2> QED BY <2>2, <2>3, <2>5, <2>6, <2>7 DEF Next, WorkStep
  <1> QED BY <1>1, <1>2, TypeCorrect, PTL DEF Spec

-----------------------------------------------------------------------------
(* Revisions.                                                              *)

(* What a step says about a run, in the words of the property.             *)
LEMMA RevisionStep ==
    ASSUME TypeOK, RowsAreComplete, Next, NEW r \in Runs,
           \/ runStatus'[r] # runStatus[r]
           \/ timeline'[r] # timeline[r]
           \/ \E a \in Approvals : approval'[a] # approval[a] /\ approval'[a].run = r
    PROVE  workItem'[runWork'[r]].revision = workItem[runWork'[r]].revision + 1
  <1> USE DEF TypeOK, TablesTypeOK
  <1>1. ASSUME NEW w \in WorkItems, Bump(w)
        PROVE  workItem'[w].revision = workItem[w].revision + 1
    <2>1. workItem[w] \in WorkItemRow OBVIOUS
    <2> QED BY <1>1, <2>1 DEF Bump, WorkItemRow
  <1>2. ASSUME runStatus[r] # "absent"
        PROVE  runWork[r] \in WorkItems
    BY <1>2 DEF RowsAreComplete, RunsHaveWork
  <1>3. ASSUME NEW q \in Runs, NEW w \in WorkItems, StoreCreateRun(q, w)
        PROVE  runWork'[r] \in WorkItems /\ Bump(runWork'[r])
    BY <1>3 DEF StoreCreateRun, CreateRun
  <1>4. ASSUME NEW q \in Runs, NEW to \in RunStatus, NEW p \in Providers \cup {None},
               StoreTransitionRun(q, runStatus[q], to, p)
        PROVE  runWork'[r] \in WorkItems /\ Bump(runWork'[r])
    <2>1. TransitionRun(q, runStatus[q], to, p) /\ UNCHANGED <<timeline, runWork>>
      BY <1>4 DEF StoreTransitionRun
    <2>2. \A a \in Approvals : approval'[a] # approval[a] => approval'[a].run = q
      <3> SUFFICES ASSUME NEW a \in Approvals, approval'[a] # approval[a]
                   PROVE  approval'[a].run = q
        OBVIOUS
      <3>1. approval[a].run = q
        BY <2>1 DEF TransitionRun, VoidPending
      <3> QED BY <2>1, <3>1, TransitionEffect
    <2>3. r = q
      BY <2>1, <2>2, TransitionEffect
    <2>4. runStatus[r] # "absent"
      BY <2>1, <2>3, TransitionEffect DEF Unsettled
    <2> QED BY <1>2, <1>4, <2>1, <2>3, <2>4 DEF StoreTransitionRun
  <1>5. ASSUME NEW a \in Approvals, NEW q \in Runs, NEW c \in Requests,
               StoreRecordApproval(a, q, c)
        PROVE  runWork'[r] \in WorkItems /\ Bump(runWork'[r])
    <2>1. r = q /\ runStatus[r] # "absent"
      BY <1>5 DEF StoreRecordApproval, RecordPendingApproval
    <2> QED BY <1>2, <1>5, <2>1 DEF StoreRecordApproval
  <1>6. ASSUME NEW a \in Approvals, approval[a].status # "absent",
               UNCHANGED <<runStatus, runWork, timeline>>,
               approval'[a].run = approval[a].run,
               \A b \in Approvals \ {a} : approval'[b] = approval[b],
               Bump(runWork[approval[a].run])
        PROVE  runWork'[r] \in WorkItems /\ Bump(runWork'[r])
    <2>1. r = approval[a].run
      BY <1>6
    <2>2. runStatus[r] # "absent"
      BY <1>6, <2>1 DEF RowsAreComplete, ApprovalsHaveRuns
    <2> QED BY <1>2, <1>6, <2>1, <2>2
  <1>7. ASSUME NEW a \in Approvals, NEW d \in Decisions, StoreBeginResponse(a, d)
        PROVE  runWork'[r] \in WorkItems /\ Bump(runWork'[r])
    BY <1>6, <1>7 DEF StoreBeginResponse, BeginApprovalResponse, ApprovalRow
  <1>8. ASSUME NEW a \in Approvals, StoreConfirmResponse(a)
        PROVE  runWork'[r] \in WorkItems /\ Bump(runWork'[r])
    BY <1>6, <1>8 DEF StoreConfirmResponse, ConfirmApprovalResponse, ApprovalRow
  <1>9. ASSUME NEW b \in Batches, AppendTimelineBatch(b)
        PROVE  runWork'[r] \in WorkItems /\ Bump(runWork'[r])
    <2>1. r = issued[b].run
      BY <1>9 DEF AppendTimelineBatch, tableVars
    <2>2. runStatus[r] # "absent"
      BY <1>9, <2>1 DEF AppendTimelineBatch, RowsAreComplete, BatchesHaveRuns
    <2> QED BY <1>2, <1>9, <2>1, <2>2 DEF AppendTimelineBatch
  <1>10. CASE WorkStep
    BY <1>10 DEF WorkStep, CreateWorkItem, ArchiveWorkSubtree, tableVars
  <1>11. ASSUME NEW b \in Batches, NEW q \in Runs, NEW s \in Streams, NEW items,
                IssueBatch(b, q, s, items)
         PROVE  FALSE
    BY <1>11 DEF IssueBatch, tableVars, storeVars
  <1>12. ASSUME NEW b \in Batches, AppendAgain(b) \/ AppendConflict(b)
         PROVE  FALSE
    BY <1>12 DEF AppendAgain, AppendConflict, tableVars, storeVars
  <1> QED
    BY <1>1, <1>3, <1>4, <1>5, <1>7, <1>8, <1>9, <1>10, <1>11, <1>12
    DEF Next, RunStep, ApprovalStep, TimelineStep

(* Every transaction that changes a run, an approval of it or its timeline *)
(* moves the revision of its work item by exactly one, in that step.       *)
THEOREM CommitsMoveRevisions == Spec => EveryCommitMovesRevisionByOne
  <1>1. ASSUME TypeOK, RowsAreComplete, [Next]_vars
        PROVE  [\A r \in Runs :
                  (\/ runStatus'[r] # runStatus[r]
                   \/ timeline'[r] # timeline[r]
                   \/ \E a \in Approvals : approval'[a] # approval[a] /\ approval'[a].run = r)
                  => workItem'[runWork'[r]].revision
                       = workItem[runWork'[r]].revision + 1]_vars
    BY <1>1, RevisionStep
  <1> QED BY <1>1, TypeCorrect, PTL DEF Spec, EveryCommitMovesRevisionByOne

-----------------------------------------------------------------------------
(* The timeline.                                                           *)

(* The places of the rows of one stream in a timeline.                     *)
RowsIn(rows, t) == {i \in DOMAIN rows : rows[i].stream = t}

(* Appending rows of stream s adds their number to the count of s and      *)
(* leaves the count of every other stream alone.                           *)
LEMMA AppendCounts ==
    ASSUME NEW rows \in Seq(TimelineRow), NEW new \in Seq(TimelineRow),
           NEW s \in Streams, \A i \in 1..Len(new) : new[i].stream = s,
           NEW t \in Streams
    PROVE  Cardinality(RowsIn(rows \o new, t)) =
             Cardinality(RowsIn(rows, t)) + (IF t = s THEN Len(new) ELSE 0)
  <1> DEFINE n == Len(rows)
             m == Len(new)
             added == (n + 1)..(n + m)
  <1>1. n \in Nat /\ m \in Nat
    OBVIOUS
  <1>2. /\ DOMAIN (rows \o new) = 1..(n + m)
        /\ \A i \in 1..n : (rows \o new)[i] = rows[i]
        /\ \A i \in added : (rows \o new)[i] = new[i - n] /\ i - n \in 1..m
    OBVIOUS
  <1>3. RowsIn(rows, t) \subseteq 1..n
    BY DEF RowsIn
  <1>4. IsFiniteSet(RowsIn(rows, t))
    <2>1. IsFiniteSet(1..n)
      <3> HIDE DEF n
      <3> QED BY <1>1, FS_Interval
    <2> QED BY <1>3, <2>1, FS_Subset
  <1>5. CASE t = s
    <2>1. RowsIn(rows \o new, t) = RowsIn(rows, t) \cup added
      BY <1>1, <1>2, <1>5 DEF RowsIn
    <2>2. RowsIn(rows, t) \cap added = {}
      BY <1>1, <1>3
    <2>3. IsFiniteSet(added) /\ Cardinality(added) = m
      <3>1. n + 1 \in Int /\ n + m \in Int
        BY <1>1
      <3> HIDE DEF n, m
      <3>2. /\ IsFiniteSet((n + 1)..(n + m))
            /\ Cardinality((n + 1)..(n + m)) =
                 IF n + 1 > n + m THEN 0 ELSE (n + m) - (n + 1) + 1
        BY <3>1, FS_Interval
      <3>3. (IF n + 1 > n + m THEN 0 ELSE (n + m) - (n + 1) + 1) = m
        BY <1>1
      <3> QED BY <3>2, <3>3
    <2>4. Cardinality(RowsIn(rows, t)) \in Nat
      BY <1>4, FS_CardinalityType
    <2>5. Cardinality(RowsIn(rows \o new, t)) =
            Cardinality(RowsIn(rows, t)) + Cardinality(added)
              - Cardinality(RowsIn(rows, t) \cap added)
      <3> HIDE DEF added
      <3> QED BY <1>4, <2>1, <2>3, FS_Union
    <2>6. Cardinality(RowsIn(rows, t) \cap added) = 0
      BY <2>2, FS_EmptySet
    <2> HIDE DEF added, m, n
    <2> QED BY <1>1, <1>5, <2>3, <2>4, <2>5, <2>6 DEF m
  <1>6. CASE t # s
    <2>1. RowsIn(rows \o new, t) = RowsIn(rows, t)
      BY <1>1, <1>2, <1>6 DEF RowsIn
    <2>2. Cardinality(RowsIn(rows, t)) \in Nat
      BY <1>4, FS_CardinalityType
    <2> QED BY <1>6, <2>1, <2>2
  <1> QED BY <1>5, <1>6

(* A stream's cursor counts its items, for any number of writers holding   *)
(* stale cursors: the compare in append_timeline_batch and the write of    *)
(* the new cursor are one transaction.                                     *)
THEOREM CursorsCountItems == Spec => []CursorCountsItems
  <1>1. Init => CursorCountsItems
    <2> SUFFICES ASSUME Init, NEW r \in Runs, NEW s \in Streams
                 PROVE  cursor[r][s].at = Cardinality(RowsIn(timeline[r], s))
      BY DEF CursorCountsItems, RowsIn
    <2>1. cursor[r][s].at = 0 /\ timeline[r] = <<>>
      BY DEF Init
    <2>2. RowsIn(timeline[r], s) = {}
      BY <2>1 DEF RowsIn
    <2> QED BY <2>1, <2>2, FS_EmptySet
  <1>2. ASSUME TypeOK, CursorCountsItems, [Next]_vars
        PROVE  CursorCountsItems'
    <2> USE <1>2 DEF TypeOK
    <2>1. ASSUME NEW b \in Batches, AppendTimelineBatch(b)
          PROVE  CursorCountsItems'
      <3> DEFINE q == issued[b].run
                 s == issued[b].stream
      <3>1. issued[b] \in Batch
        BY <2>1 DEF AppendTimelineBatch
      <3>2. q \in Runs /\ s \in Streams /\ issued[b].start \in Nat
        BY <3>1 DEF Batch
      <3>3. /\ RowsOf(b) \in Seq(TimelineRow)
            /\ Len(RowsOf(b)) = Len(issued[b].items)
            /\ Len(issued[b].items) \in Nat
            /\ \A i \in 1..Len(RowsOf(b)) : RowsOf(b)[i].stream = s
        BY <3>1, RowsOfType DEF RowsOf
      <3>4. issued[b].start = Cardinality(RowsIn(timeline[q], s))
        BY <2>1, <3>2 DEF AppendTimelineBatch, AppendAllowed, CursorCountsItems, RowsIn
      <3>5. /\ timeline' = [timeline EXCEPT ![q] = @ \o RowsOf(b)]
            /\ cursor' = [cursor EXCEPT ![q][s] =
                            [at |-> issued[b].start + Len(issued[b].items),
                             batch |-> b, start |-> issued[b].start]]
        BY <2>1 DEF AppendTimelineBatch
      <3> SUFFICES ASSUME NEW r \in Runs, NEW t \in Streams
                   PROVE  cursor'[r][t].at = Cardinality(RowsIn(timeline'[r], t))
        BY DEF CursorCountsItems, RowsIn
      <3>6. cursor[r][t].at = Cardinality(RowsIn(timeline[r], t)) /\ cursor[r][t].at \in Nat
        BY DEF CursorCountsItems, RowsIn, CursorRow
      <3> HIDE DEF q, s
      <3>7. CASE r = q
        <4>1. timeline'[r] = timeline[r] \o RowsOf(b)
          BY <3>2, <3>5, <3>7
        <4>2. Cardinality(RowsIn(timeline'[r], t)) =
                cursor[r][t].at + (IF t = s THEN Len(RowsOf(b)) ELSE 0)
          <5>1. timeline[r] \in Seq(TimelineRow)
            OBVIOUS
          <5>2. Cardinality(RowsIn(timeline[r] \o RowsOf(b), t)) =
                  Cardinality(RowsIn(timeline[r], t))
                    + (IF t = s THEN Len(RowsOf(b)) ELSE 0)
            <6> DEFINE rows == timeline[r]
                       new == RowsOf(b)
            <6>1. /\ rows \in Seq(TimelineRow) /\ new \in Seq(TimelineRow)
                  /\ s \in Streams
                  /\ \A i \in 1..Len(new) : new[i].stream = s
              BY <3>2, <3>3, <5>1
            <6> HIDE DEF rows, new
            <6>2. Cardinality(RowsIn(rows \o new, t)) =
                    Cardinality(RowsIn(rows, t)) + (IF t = s THEN Len(new) ELSE 0)
              BY ZenonT(60), <6>1, AppendCounts
            <6> QED BY <6>2 DEF rows, new
          <5> QED BY <3>6, <4>1, <5>2
        <4>3. CASE t = s
          <5>1. cursor'[r][t].at = issued[b].start + Len(issued[b].items)
            BY <3>2, <3>5, <3>7, <4>3
          <5>2. cursor[r][t].at = issued[b].start
            BY <3>4, <3>6, <3>7, <4>3
          <5> QED BY <3>3, <4>2, <4>3, <5>1, <5>2
        <4>4. CASE t # s
          <5>1. cursor'[r][t] = cursor[r][t]
            BY <3>2, <3>5, <3>7, <4>4
          <5> QED BY <3>6, <4>2, <4>4, <5>1
        <4> QED BY <4>3, <4>4
      <3>8. CASE r # q
        BY <3>2, <3>5, <3>6, <3>8
      <3> QED BY <3>7, <3>8
    <2>2. ASSUME UNCHANGED <<timeline, cursor>>
          PROVE  CursorCountsItems'
      BY <2>2 DEF CursorCountsItems
    <2>3. CASE RunStep \/ ApprovalStep \/ WorkStep
      BY <2>2, <2>3 DEF RunStep, ApprovalStep, WorkStep, StoreCreateRun, StoreTransitionRun,
                        StoreRecordApproval, StoreBeginResponse, StoreConfirmResponse,
                        CreateWorkItem, ArchiveWorkSubtree
    <2>4. ASSUME NEW b \in Batches, NEW r \in Runs, NEW s \in Streams, NEW items,
                 IssueBatch(b, r, s, items)
          PROVE  CursorCountsItems'
      BY <2>2, <2>4 DEF IssueBatch, storeVars
    <2>5. ASSUME NEW b \in Batches, AppendAgain(b) \/ AppendConflict(b)
          PROVE  CursorCountsItems'
      BY <2>2, <2>5 DEF AppendAgain, AppendConflict, storeVars
    <2>6. CASE UNCHANGED vars
      BY <2>2, <2>6 DEF vars, storeVars
    <2> QED BY <2>1, <2>3, <2>4, <2>5, <2>6 DEF Next, TimelineStep
  <1> QED BY <1>1, <1>2, TypeCorrect, PTL DEF Spec

-----------------------------------------------------------------------------
(* The audit trail.                                                        *)

(* What AuditReplaysTables says of one run and of one approval.            *)
RunTrail(trail, status) ==
    /\ trail = <<>> => status \in {"absent", "starting"}
    /\ trail # <<>> => trail[1].from = "starting" /\ trail[Len(trail)].to = status
    /\ \A i \in 1..(Len(trail) - 1) : trail[i].to = trail[i + 1].from
    /\ \A i \in 1..Len(trail) : CanTransitionTo(trail[i].from, trail[i].to)

ApprovalTrail(trail, row) ==
    trail = CASE row.status = "responding" ->
                   <<[event |-> "response_begun", from |-> None, to |-> row.decision]>>
              [] row.status = "resolved" ->
                   <<[event |-> "response_begun", from |-> None, to |-> row.decision],
                     [event |-> "response_confirmed", from |-> None, to |-> row.decision]>>
              [] OTHER -> <<>>

LEMMA AuditByTrail ==
    AuditReplaysTables <=> /\ \A r \in Runs : RunTrail(audit[r], runStatus[r])
                           /\ \A a \in Approvals : ApprovalTrail(audit[a], approval[a])
  BY DEF AuditReplaysTables, RunTrail, ApprovalTrail

(* A legal transition from the status that the trail ends with.            *)
LEMMA RunTrailGrows ==
    ASSUME NEW trail \in Seq(AuditRow), NEW from, NEW to, RunTrail(trail, from),
           CanTransitionTo(from, to),
           [event |-> "run_transitioned", from |-> from, to |-> to] \in AuditRow
    PROVE  RunTrail(Append(trail, [event |-> "run_transitioned", from |-> from, to |-> to]), to)
  <1> DEFINE row == [event |-> "run_transitioned", from |-> from, to |-> to]
             n == Len(trail)
             longer == Append(trail, row)
  <1>1. row \in AuditRow /\ row.from = from /\ row.to = to
    OBVIOUS
  <1> HIDE DEF row
  <1>2. /\ n \in Nat /\ Len(longer) = n + 1 /\ longer[n + 1] = row
        /\ \A i \in 1..n : longer[i] = trail[i]
        /\ longer # <<>>
    BY <1>1
  <1>3. longer[1].from = "starting"
    <2>1. CASE n = 0
      <3>1. trail = <<>>
        BY <2>1
      <3>2. from \in {"absent", "starting"}
        BY <3>1 DEF RunTrail
      <3>3. from = "starting"
        BY <3>2 DEF CanTransitionTo
      <3> QED BY <1>1, <1>2, <2>1, <3>3
    <2>2. CASE n # 0
      BY <1>2, <2>2 DEF RunTrail
    <2> QED BY <2>1, <2>2
  <1>4. ASSUME NEW i \in 1..n PROVE longer[i].to = longer[i + 1].from
    <2>1. CASE i = n
      <3>1. trail # <<>> /\ trail[n].to = from
        BY <1>2, <2>1 DEF RunTrail
      <3> QED BY <1>1, <1>2, <2>1, <3>1
    <2>2. CASE i # n
      <3>1. i \in 1..(n - 1) /\ i + 1 \in 1..n
        BY <1>2, <2>2
      <3>2. trail[i].to = trail[i + 1].from
        BY <3>1 DEF RunTrail
      <3> QED BY <1>2, <3>1, <3>2
    <2> QED BY <2>1, <2>2
  <1>5. ASSUME NEW i \in 1..(n + 1) PROVE CanTransitionTo(longer[i].from, longer[i].to)
    <2>1. CASE i = n + 1
      BY <1>1, <1>2, <2>1
    <2>2. CASE i # n + 1
      <3>1. i \in 1..n
        BY <1>2, <2>2
      <3>2. CanTransitionTo(trail[i].from, trail[i].to)
        BY <3>1 DEF RunTrail
      <3> QED BY <1>2, <3>1, <3>2
    <2> QED BY <2>1, <2>2
  <1>6. (n + 1) - 1 = n
    BY <1>2
  <1> HIDE DEF longer, n
  <1>7. RunTrail(longer, to)
    BY <1>1, <1>2, <1>3, <1>4, <1>5, <1>6 DEF RunTrail
  <1> QED BY <1>7 DEF longer, row

LEMMA AppendToOne ==
    ASSUME NEW S, NEW x \in S, NEW y \in S
    PROVE  Append(<<x>>, y) = <<x, y>>
  <1> DEFINE longer == Append(<<x>>, y)
             pair == <<x, y>>
  <1>1. <<x>> \in Seq(S) /\ Len(<<x>>) = 1
    OBVIOUS
  <1>2. longer \in Seq(S) /\ pair \in Seq(S) /\ Len(longer) = 2 /\ Len(pair) = 2
    BY <1>1
  <1>3. \A i \in 1..2 : longer[i] = pair[i]
    BY <1>1
  <1> HIDE DEF longer, pair
  <1>4. longer = pair
    BY <1>2, <1>3
  <1> QED BY <1>4 DEF longer, pair

(* The trail alone tells the state: every run's entries are one unbroken   *)
(* chain of legal transitions to its present status, and an approval's are *)
(* the answer that is recorded, because each transaction of                *)
(* apply_run_transition and of the responses writes its audit row with the *)
(* row it changes.                                                         *)
THEOREM AuditsReplay == Spec => []AuditReplaysTables
  <1>1. Init => AuditReplaysTables
    BY DEF Init, TablesInit, NoApproval, AuditReplaysTables
  <1>2. ASSUME TypeOK, AuditReplaysTables, [Next]_vars
        PROVE  AuditReplaysTables'
    <2>1. /\ \A r \in Runs : RunTrail(audit[r], runStatus[r])
          /\ \A a \in Approvals : ApprovalTrail(audit[a], approval[a])
      BY <1>2, AuditByTrail
    <2>2. /\ TablesTypeOK /\ audit \in [Runs \cup Approvals -> Seq(AuditRow)]
      BY <1>2 DEF TypeOK
    <2> SUFFICES /\ \A r \in Runs : RunTrail(audit'[r], runStatus'[r])
                 /\ \A a \in Approvals : ApprovalTrail(audit'[a], approval'[a])
      BY AuditByTrail DEF AuditReplaysTables, RunTrail, ApprovalTrail
    <2>3. ASSUME NEW r \in Runs, NEW w \in WorkItems, StoreCreateRun(r, w)
          PROVE  /\ \A q \in Runs : RunTrail(audit'[q], runStatus'[q])
                 /\ \A a \in Approvals : ApprovalTrail(audit'[a], approval'[a])
      <3>1. /\ audit' = audit /\ approval' = approval /\ runStatus[r] = "absent"
            /\ \A q \in Runs : runStatus'[q] = IF q = r THEN "starting" ELSE runStatus[q]
        BY <2>2, <2>3 DEF StoreCreateRun, CreateRun, TablesTypeOK
      <3>2. audit[r] = <<>>
        <4>1. audit[r] \in Seq(AuditRow)
          BY <2>2
        <4>2. ASSUME audit[r] # <<>> PROVE FALSE
          <5>1. Len(audit[r]) \in 1..Len(audit[r])
            BY <4>1, <4>2
          <5>2. CanTransitionTo(audit[r][Len(audit[r])].from, "absent")
            BY <2>1, <3>1, <4>2, <5>1 DEF RunTrail
          <5> QED BY <5>2 DEF CanTransitionTo
        <4> QED BY <4>2
      <3>3. RunTrail(audit[r], "starting")
        BY <2>1, <3>2 DEF RunTrail
      <3> QED BY <2>1, <3>1, <3>3
    <2>4. ASSUME NEW r \in Runs, NEW to \in RunStatus, NEW p \in Providers \cup {None},
                 StoreTransitionRun(r, runStatus[r], to, p)
          PROVE  /\ \A q \in Runs : RunTrail(audit'[q], runStatus'[q])
                 /\ \A a \in Approvals : ApprovalTrail(audit'[a], approval'[a])
      <3> DEFINE row == [event |-> "run_transitioned", from |-> runStatus[r], to |-> to]
      <3>1. TransitionRun(r, runStatus[r], to, p) /\ CanTransitionTo(runStatus[r], to)
            /\ audit' = [audit EXCEPT ![r] = Append(@, row)]
        BY <2>4 DEF StoreTransitionRun, TransitionRun, TransitionAllowed
      <3>2. /\ runStatus[r] \in Unsettled
            /\ \A q \in Runs : runStatus'[q] = IF q = r THEN to ELSE runStatus[q]
            /\ \A a \in Approvals :
                   /\ approval'[a].decision = approval[a].decision
                   /\ approval'[a].status =
                        IF /\ to \in Terminal
                           /\ approval[a].run = r
                           /\ approval[a].status = "pending"
                        THEN "voided" ELSE approval[a].status
        BY <2>2, <3>1, TransitionEffect
      <3>3. row \in AuditRow
        BY <3>2 DEF AuditRow, RunStatus
      <3>4. /\ audit'[r] = Append(audit[r], row)
            /\ \A q \in Runs \ {r} : audit'[q] = audit[q]
            /\ \A a \in Approvals : audit'[a] = audit[a]
        BY <2>2, <3>1, BoundsAssumption
      <3> HIDE DEF row
      <3>5. RunTrail(audit'[r], to)
        <4>1. audit[r] \in Seq(AuditRow) /\ RunTrail(audit[r], runStatus[r])
          BY <2>1, <2>2
        <4> QED BY <3>1, <3>3, <3>4, <4>1, RunTrailGrows DEF row
      <3>6. ASSUME NEW a \in Approvals PROVE ApprovalTrail(audit'[a], approval'[a])
        BY <2>1, <3>2, <3>4 DEF ApprovalTrail
      <3> QED BY <2>1, <3>2, <3>4, <3>5, <3>6
    <2>5. ASSUME NEW a \in Approvals, NEW r \in Runs, NEW q \in Requests,
                 StoreRecordApproval(a, r, q)
          PROVE  /\ \A s \in Runs : RunTrail(audit'[s], runStatus'[s])
                 /\ \A b \in Approvals : ApprovalTrail(audit'[b], approval'[b])
      <3>1. /\ audit' = audit /\ runStatus' = runStatus /\ approval[a].status = "absent"
            /\ approval'[a].status = "pending"
            /\ \A b \in Approvals \ {a} : approval'[b] = approval[b]
        BY <2>2, <2>5 DEF StoreRecordApproval, RecordPendingApproval, TablesTypeOK
      <3>2. ApprovalTrail(audit[a], approval'[a])
        BY <2>1, <3>1 DEF ApprovalTrail
      <3> QED BY <2>1, <3>1, <3>2
    <2>6. ASSUME NEW a \in Approvals, NEW d \in Decisions, StoreBeginResponse(a, d)
          PROVE  /\ \A s \in Runs : RunTrail(audit'[s], runStatus'[s])
                 /\ \A b \in Approvals : ApprovalTrail(audit'[b], approval'[b])
      <3> DEFINE row == [event |-> "response_begun", from |-> None, to |-> d]
      <3>1. /\ runStatus' = runStatus /\ approval[a].status = "pending"
            /\ approval'[a].status = "responding" /\ approval'[a].decision = d
            /\ \A b \in Approvals \ {a} : approval'[b] = approval[b]
        <4>1. approval[a] \in ApprovalRow
          BY <2>2 DEF TablesTypeOK
        <4> QED BY <2>2, <2>6, <4>1 DEF StoreBeginResponse, BeginApprovalResponse, TablesTypeOK,
                                        ApprovalRow
      <3>2. audit' = [audit EXCEPT ![a] = Append(@, row)]
        BY <2>6 DEF StoreBeginResponse
      <3>3. /\ audit'[a] = Append(audit[a], row)
            /\ \A s \in Runs : audit'[s] = audit[s]
            /\ \A b \in Approvals \ {a} : audit'[b] = audit[b]
        BY <2>2, <3>2, BoundsAssumption
      <3>4. ApprovalTrail(audit'[a], approval'[a])
        <4>1. audit[a] = <<>>
          BY <2>1, <3>1 DEF ApprovalTrail
        <4>2. audit'[a] = <<row>>
          BY <3>3, <4>1
        <4> QED BY <3>1, <4>2 DEF ApprovalTrail
      <3> QED BY <2>1, <3>1, <3>3, <3>4
    <2>7. ASSUME NEW a \in Approvals, StoreConfirmResponse(a)
          PROVE  /\ \A s \in Runs : RunTrail(audit'[s], runStatus'[s])
                 /\ \A b \in Approvals : ApprovalTrail(audit'[b], approval'[b])
      <3> DEFINE d == approval[a].decision
                 begun == [event |-> "response_begun", from |-> None, to |-> d]
                 row == [event |-> "response_confirmed", from |-> None, to |-> d]
      <3>1. /\ runStatus' = runStatus /\ approval[a].status = "responding"
            /\ approval'[a].status = "resolved" /\ approval'[a].decision = d
            /\ \A b \in Approvals \ {a} : approval'[b] = approval[b]
        <4>1. approval[a] \in ApprovalRow
          BY <2>2 DEF TablesTypeOK
        <4> QED BY <2>2, <2>7, <4>1 DEF StoreConfirmResponse, ConfirmApprovalResponse,
                                        TablesTypeOK, ApprovalRow
      <3>2. audit' = [audit EXCEPT ![a] = Append(@, row)]
        BY <2>7 DEF StoreConfirmResponse
      <3>3. /\ audit'[a] = Append(audit[a], row)
            /\ \A s \in Runs : audit'[s] = audit[s]
            /\ \A b \in Approvals \ {a} : audit'[b] = audit[b]
        BY <2>2, <3>2, BoundsAssumption
      <3>4. ApprovalTrail(audit'[a], approval'[a])
        <4>1. audit[a] = <<begun>>
          BY <2>1, <3>1 DEF ApprovalTrail
        <4> HIDE DEF begun, row
        <4>2. Append(<<begun>>, row) = <<begun, row>>
          <5>1. begun \in {begun, row} /\ row \in {begun, row}
            OBVIOUS
          <5> QED BY <5>1, AppendToOne
        <4>3. audit'[a] = <<begun, row>>
          BY <3>3, <4>1, <4>2
        <4> QED BY <3>1, <4>3 DEF ApprovalTrail, begun, row
      <3> QED BY <2>1, <3>1, <3>3, <3>4
    <2>8. ASSUME UNCHANGED <<audit, runStatus, approval>>
          PROVE  /\ \A s \in Runs : RunTrail(audit'[s], runStatus'[s])
                 /\ \A b \in Approvals : ApprovalTrail(audit'[b], approval'[b])
      BY <2>1, <2>8
    <2>9. CASE WorkStep \/ TimelineStep
      <3>1. UNCHANGED <<audit, runStatus, approval>>
        BY <2>9 DEF WorkStep, TimelineStep, CreateWorkItem, ArchiveWorkSubtree, IssueBatch,
                    AppendTimelineBatch, AppendAgain, AppendConflict, tableVars, storeVars
      <3> QED BY <2>8, <3>1
    <2>10. CASE UNCHANGED vars
      BY <2>8, <2>10 DEF vars, tableVars, storeVars
    <2> QED BY <1>2, <2>3, <2>4, <2>5, <2>6, <2>7, <2>9, <2>10 DEF Next, RunStep, ApprovalStep
  <1> QED BY <1>1, <1>2, TypeCorrect, PTL DEF Spec

-----------------------------------------------------------------------------
(* Replies.                                                                *)

(* A batch is in the timeline: its rows are those of one stretch of it,    *)
(* and these are its items.                                                *)
LaidDown(b, rows, items) ==
    \E k \in 0..Len(rows) :
        /\ k + Len(items) <= Len(rows)
        /\ \A i \in 1..Len(rows) :
               rows[i].batch = b <=> i \in (k + 1)..(k + Len(items))
        /\ \A i \in 1..Len(items) : rows[k + i].item = items[i]

Laid(b) == issued[b] # None /\ LaidDown(b, timeline[issued[b].run], issued[b].items)

(* Whatever was answered with success or has the receipt of some stream is *)
(* in the timeline.                                                        *)
HasAnyReceipt(b) == \E r \in Runs, s \in Streams : cursor[r][s].batch = b

RepliesInv == \A b \in Batches : reply[b] = "ok" \/ HasAnyReceipt(b) => Laid(b)

LEMMA LaidByAppend ==
    ASSUME NEW rows \in Seq(TimelineRow), NEW new \in Seq(TimelineRow), NEW b, NEW items,
           Len(new) = Len(items),
           \A i \in 1..Len(rows) : rows[i].batch # b,
           \A i \in 1..Len(new) : new[i].batch = b /\ new[i].item = items[i]
    PROVE  LaidDown(b, rows \o new, items)
  <1> DEFINE n == Len(rows)
             m == Len(new)
             all == rows \o new
  <1>1. n \in Nat /\ m \in Nat /\ Len(all) = n + m
    <2>1. n \in Nat /\ m \in Nat
      BY rows \in Seq(TimelineRow), new \in Seq(TimelineRow) DEF n, m
    <2>2. Len(rows \o new) = Len(rows) + Len(new)
      BY ONLY rows \in Seq(TimelineRow), new \in Seq(TimelineRow)
    <2> QED BY <2>1, <2>2 DEF all, n, m
  <1>2. /\ \A i \in 1..n : all[i] = rows[i]
        /\ \A i \in 1..m : all[n + i] = new[i]
        /\ \A i \in (n + 1)..(n + m) : all[i] = new[i - n] /\ i - n \in 1..m
    OBVIOUS
  <1> HIDE DEF n, m, all
  <1>3. \A i \in 1..Len(all) : all[i].batch = b <=> i \in (n + 1)..(n + m)
    BY <1>1, <1>2 DEF n, m
  <1>4. \A i \in 1..m : all[n + i].item = items[i]
    BY <1>2 DEF m
  <1>5. n \in 0..Len(all) /\ n + m <= Len(all) /\ m = Len(items)
    BY <1>1 DEF m
  <1> QED BY <1>3, <1>4, <1>5 DEF LaidDown, all

LEMMA LaidStays ==
    ASSUME NEW rows \in Seq(TimelineRow), NEW new \in Seq(TimelineRow), NEW b, NEW items,
           Len(items) \in Nat, LaidDown(b, rows, items),
           \A i \in 1..Len(new) : new[i].batch # b
    PROVE  LaidDown(b, rows \o new, items)
  <1> DEFINE n == Len(rows)
             m == Len(new)
             all == rows \o new
  <1>1. n \in Nat /\ m \in Nat /\ Len(all) = n + m
    <2>1. n \in Nat /\ m \in Nat
      BY rows \in Seq(TimelineRow), new \in Seq(TimelineRow) DEF n, m
    <2>2. Len(rows \o new) = Len(rows) + Len(new)
      BY ONLY rows \in Seq(TimelineRow), new \in Seq(TimelineRow)
    <2> QED BY <2>1, <2>2 DEF all, n, m
  <1>2. /\ \A i \in 1..n : all[i] = rows[i]
        /\ \A i \in (n + 1)..(n + m) : all[i] = new[i - n] /\ i - n \in 1..m
    OBVIOUS
  <1>3. PICK k \in 0..n :
            /\ k + Len(items) <= n
            /\ \A i \in 1..n : rows[i].batch = b <=> i \in (k + 1)..(k + Len(items))
            /\ \A i \in 1..Len(items) : rows[k + i].item = items[i]
    BY DEF LaidDown
  <1> HIDE DEF n, m, all
  <1>4. \A i \in 1..Len(all) : all[i].batch = b <=> i \in (k + 1)..(k + Len(items))
    BY <1>1, <1>2, <1>3 DEF m
  <1>5. \A i \in 1..Len(items) : all[k + i].item = items[i]
    BY <1>1, <1>2, <1>3
  <1>6. k \in 0..Len(all) /\ k + Len(items) <= Len(all)
    BY <1>1, <1>3
  <1> QED BY <1>4, <1>5, <1>6 DEF LaidDown, all

(* The places of a batch's rows in a timeline.                             *)
Places(b, rows) == {i \in DOMAIN rows : rows[i].batch = b}

(* They are as many as its items and stand together and in order.           *)
AppliedOnce(b, rows, items) ==
    /\ Cardinality(Places(b, rows)) = Len(items)
    /\ \E k \in 0..Len(rows) :
           \A i \in DOMAIN items : k + i \in Places(b, rows) /\ rows[k + i].item = items[i]

LEMMA LaidMeansOnce ==
    ASSUME NEW rows \in Seq(TimelineRow), NEW b, NEW items,
           Len(items) \in Nat, DOMAIN items = 1..Len(items), LaidDown(b, rows, items)
    PROVE  AppliedOnce(b, rows, items)
  <1> DEFINE own == Places(b, rows)
             m == Len(items)
  <1>1. PICK k \in 0..Len(rows) :
            /\ k + m <= Len(rows)
            /\ \A i \in 1..Len(rows) : rows[i].batch = b <=> i \in (k + 1)..(k + m)
            /\ \A i \in 1..m : rows[k + i].item = items[i]
    BY DEF LaidDown
  <1>2. Len(rows) \in Nat /\ DOMAIN rows = 1..Len(rows) /\ m \in Nat /\ k \in Nat
    OBVIOUS
  <1>3. own = (k + 1)..(k + m)
    BY <1>1, <1>2 DEF Places
  <1>4. Cardinality((k + 1)..(k + m)) = m
    <2>1. k + 1 \in Int /\ k + m \in Int
      BY <1>2
    <2> HIDE DEF m
    <2>2. Cardinality((k + 1)..(k + m)) =
              IF k + 1 > k + m THEN 0 ELSE (k + m) - (k + 1) + 1
      BY <2>1, FS_Interval
    <2> QED BY <1>2, <2>2
  <1>5. \A i \in DOMAIN items : k + i \in own /\ rows[k + i].item = items[i]
    BY <1>1, <1>2, <1>3
  <1> HIDE DEF own, m
  <1>6. Cardinality(own) = Len(items)
    BY <1>3, <1>4 DEF m
  <1> QED BY <1>5, <1>6 DEF own, AppliedOnce

LEMMA RepliesMeanOnce == TypeOK /\ RepliesInv => OkMeansAppliedOnce
  <1> SUFFICES ASSUME TypeOK, RepliesInv, NEW b \in Batches, reply[b] = "ok"
               PROVE  AppliedOnce(b, timeline[issued[b].run], issued[b].items)
    BY DEF OkMeansAppliedOnce, AppliedOnce, Places
  <1> DEFINE rows == timeline[issued[b].run]
             items == issued[b].items
  <1>1. issued[b] # None /\ LaidDown(b, rows, items)
    BY DEF RepliesInv, Laid
  <1>2. issued[b] \in Batch
    BY <1>1 DEF TypeOK
  <1>3. rows \in Seq(TimelineRow) /\ Len(items) \in Nat /\ DOMAIN items = 1..Len(items)
    BY <1>2, RowsOfType DEF TypeOK, Batch
  <1> HIDE DEF rows, items
  <1>4. AppliedOnce(b, rows, items)
    BY <1>1, <1>3, LaidMeansOnce
  <1> QED BY <1>4 DEF rows, items

LEMMA AppendKeepsReplies ==
    ASSUME TypeOK, RepliesInv, NEW b \in Batches, AppendTimelineBatch(b)
    PROVE  RepliesInv'
  <1> DEFINE q == issued[b].run
             s == issued[b].stream
             items == issued[b].items
             rows == timeline[q]
             new == RowsOf(b)
  <1>1. issued[b] # None /\ issued[b] \in Batch /\ issued' = issued
    BY DEF AppendTimelineBatch, TypeOK
  <1>2. q \in Runs /\ s \in Streams /\ rows \in Seq(TimelineRow)
    BY <1>1 DEF Batch, TypeOK
  <1>3. /\ new \in Seq(TimelineRow) /\ Len(new) = Len(items) /\ Len(items) \in Nat
        /\ DOMAIN items = 1..Len(items)
    BY <1>1, RowsOfType
  <1>4. \A i \in 1..Len(new) : new[i].batch = b /\ new[i].item = items[i]
    BY <1>3 DEF RowsOf
  <1>5. \A i \in 1..Len(rows) : rows[i].batch # b
    <2>1. RowsAreNew(b)
      BY DEF AppendTimelineBatch, AppendAllowed
    <2>2. \A i \in DOMAIN rows : rows[i].batch # b
      BY <2>1 DEF RowsAreNew
    <2>3. DOMAIN rows = 1..Len(rows)
      BY ONLY <1>2
    <2> QED BY ONLY <2>2, <2>3
  <1>6. /\ timeline'[q] = rows \o new
        /\ \A r \in Runs \ {q} : timeline'[r] = timeline[r]
    BY <1>2 DEF AppendTimelineBatch, TypeOK
  <1>7. \A c \in Batches \ {b} : reply'[c] = reply[c] /\ (HasAnyReceipt(c)' => HasAnyReceipt(c))
    <2>1. \A c \in Batches \ {b} : reply'[c] = reply[c]
      BY DEF AppendTimelineBatch, TypeOK
    <2>2. \A r \in Runs, t \in Streams :
              cursor'[r][t].batch = b \/ cursor'[r][t] = cursor[r][t]
      BY <1>2 DEF AppendTimelineBatch, TypeOK
    <2> QED BY <2>1, <2>2 DEF HasAnyReceipt
  <1>8. Laid(b)'
    <2> HIDE DEF items, rows, new
    <2>1. LaidDown(b, rows \o new, items)
      BY <1>2, <1>3, <1>4, <1>5, LaidByAppend
    <2> QED BY <1>1, <1>6, <2>1 DEF Laid, items
  <1>9. ASSUME NEW c \in Batches \ {b}, Laid(c) PROVE Laid(c)'
    <2> DEFINE others == issued[c].items
    <2>1. /\ issued[c] # None /\ issued[c] \in Batch
          /\ LaidDown(c, timeline[issued[c].run], others)
      BY <1>9 DEF Laid, TypeOK
    <2>2. issued[c].run \in Runs /\ Len(others) \in Nat
      BY <2>1, RowsOfType DEF Batch
    <2>3. CASE issued[c].run = q
      <3>1. LaidDown(c, rows, others) /\ \A i \in 1..Len(new) : new[i].batch # c
        BY <1>4, <2>1, <2>3
      <3> HIDE DEF rows, new, others
      <3>2. LaidDown(c, rows \o new, others)
        BY <1>2, <1>3, <2>2, <3>1, LaidStays
      <3> QED BY <1>1, <1>6, <2>1, <2>3, <3>2 DEF Laid, others
    <2>4. CASE issued[c].run # q
      BY <1>1, <1>6, <2>1, <2>2, <2>4 DEF Laid
    <2> QED BY <2>3, <2>4
  <1> HIDE DEF q, s, items, rows, new
  <1> QED BY <1>7, <1>8, <1>9 DEF RepliesInv

(* Whoever was told that an append succeeded finds its items in the        *)
(* timeline once, together and in order, however late or often the batch   *)
(* was sent: the receipt in the cursor is written with the rows, and a     *)
(* batch without one whose rows are there is refused.                      *)
THEOREM RepliesAreTrue == Spec => []OkMeansAppliedOnce
  <1>1. Init => RepliesInv
    BY NoneAssumption, BoundsAssumption DEF Init, RepliesInv, HasAnyReceipt
  <1>2. ASSUME TypeOK, RepliesInv, [Next]_vars PROVE RepliesInv'
    <2>1. ASSUME UNCHANGED <<timeline, cursor, issued, reply>> PROVE RepliesInv'
      BY <1>2, <2>1 DEF RepliesInv, HasAnyReceipt, Laid, LaidDown
    <2>2. CASE RunStep \/ ApprovalStep \/ WorkStep
      <3>1. UNCHANGED <<timeline, cursor, issued, reply>>
        BY <2>2 DEF RunStep, ApprovalStep, WorkStep, StoreCreateRun, StoreTransitionRun,
                    StoreRecordApproval, StoreBeginResponse, StoreConfirmResponse,
                    CreateWorkItem, ArchiveWorkSubtree, clientVars
      <3> QED BY <2>1, <3>1
    <2>3. ASSUME NEW b \in Batches, NEW r \in Runs, NEW s \in Streams, NEW items,
                 IssueBatch(b, r, s, items)
          PROVE  RepliesInv'
      <3>1. /\ timeline' = timeline /\ cursor' = cursor /\ reply' = reply /\ issued[b] = None
            /\ \A c \in Batches \ {b} : issued'[c] = issued[c]
        BY <1>2, <2>3 DEF IssueBatch, storeVars, TypeOK
      <3>2. \A c \in Batches : HasAnyReceipt(c)' => HasAnyReceipt(c)
        BY <3>1 DEF HasAnyReceipt
      <3>3. ASSUME NEW c \in Batches, Laid(c) PROVE Laid(c)'
        <4>1. c # b /\ issued'[c] = issued[c]
          BY <3>1, <3>3 DEF Laid
        <4> QED BY <3>1, <3>3, <4>1 DEF Laid
      <3> QED BY <1>2, <3>1, <3>2, <3>3 DEF RepliesInv
    <2>4. ASSUME NEW b \in Batches, AppendTimelineBatch(b) PROVE RepliesInv'
      BY <1>2, <2>4, AppendKeepsReplies
    <2>5. ASSUME NEW b \in Batches, AppendAgain(b) \/ AppendConflict(b) PROVE RepliesInv'
      <3>1. /\ timeline' = timeline /\ cursor' = cursor /\ issued' = issued
            /\ \A c \in Batches \ {b} : reply'[c] = reply[c]
            /\ reply'[b] = "ok" => HasReceipt(b)
        BY <1>2, <2>5 DEF AppendAgain, AppendConflict, storeVars, TypeOK
      <3>2. HasReceipt(b) => HasAnyReceipt(b)
        <4>1. issued[b] \in Batch
          BY <1>2, <2>5 DEF AppendAgain, AppendConflict, TypeOK
        <4> QED BY <4>1 DEF HasReceipt, HasAnyReceipt, Batch
      <3>3. \A c \in Batches : /\ HasAnyReceipt(c)' => HasAnyReceipt(c)
                               /\ Laid(c) => Laid(c)'
        BY <3>1 DEF HasAnyReceipt, Laid
      <3>4. \A c \in Batches : reply'[c] = "ok" => reply[c] = "ok" \/ HasAnyReceipt(c)
        BY <3>1, <3>2
      <3> QED BY <1>2, <3>3, <3>4 DEF RepliesInv
    <2>6. CASE UNCHANGED vars
      BY <2>1, <2>6 DEF vars, storeVars, clientVars
    <2> QED BY <1>2, <2>2, <2>3, <2>4, <2>5, <2>6 DEF Next, TimelineStep
  <1> QED BY <1>1, <1>2, RepliesMeanOnce, TypeCorrect, PTL DEF Spec

-----------------------------------------------------------------------------
(* The refinement of RunLifecycle.                                         *)

(* The database implements the lifecycle the application promises, for     *)
(* every set of runs, approvals and decisions.                             *)
THEOREM StoreImplementsLifecycle == Spec => ImplementsLifecycle
  <1>1. Init => Lifecycle!Init
    BY DEF Init, TablesInit, Lifecycle!Init, NoApproval, PhaseOf, AskOf
  <1>2. ASSUME TypeOK, [Next]_vars
        PROVE  [Lifecycle!Next]_(Lifecycle!lifecycleVars)
    <2>1. TablesTypeOK BY <1>2 DEF TypeOK
    <2>2. CASE RunStep
      BY <2>1, <2>2, TablesImplementLifecycle
      DEF RunStep, StoreCreateRun, StoreTransitionRun, Transaction, Unconfirming
    <2>3. CASE ApprovalStep
      BY <2>1, <2>3, TablesImplementLifecycle
      DEF ApprovalStep, StoreRecordApproval, StoreBeginResponse, StoreConfirmResponse,
          Transaction, Unconfirming
    <2>4. CASE WorkStep \/ TimelineStep \/ UNCHANGED vars
      <3>1. UNCHANGED tableVars BY <2>4, OtherStepsKeepTables DEF vars
      <3> QED BY <2>1, <3>1, TablesImplementLifecycle
    <2> QED BY <1>2, <2>2, <2>3, <2>4 DEF Next
  <1> QED BY <1>1, <1>2, TypeCorrect, PTL DEF Spec, ImplementsLifecycle, Lifecycle!Spec

=============================================================================
