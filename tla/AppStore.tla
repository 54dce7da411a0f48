------------------------------ MODULE AppStore ------------------------------
(***************************************************************************)
(* SqliteAppStore: the whole of the application database that carries      *)
(* work, under clients that call it in any order, repeat calls whose reply *)
(* they lost, and append from a cursor they read earlier.                  *)
(*                                                                         *)
(* On top of RunTables it keeps the work items and their tree, the         *)
(* per-work-item revision that the user interface follows, the audit       *)
(* trail, the timeline of each run, and the projection cursors that make   *)
(* an append safe to repeat.  Projects are taken as existing, and there is *)
(* one connection.  Every bound below stands for an unbounded counter.     *)
(***************************************************************************)
EXTENDS RunTables, Integers, Sequences, FiniteSets

CONSTANTS
    WorkItems,       \* work item ids
    Projects,        \* project ids, all of them existing
    Streams,         \* projection streams of a run (provider, application)
    Batches,         \* timeline batch ids
    ProviderItems,   \* the provider's ids of timeline items
    MaxTransitions,  \* bound: transitions recorded for one run
    MaxBatchItems    \* bound: items in one batch

ASSUME BoundsAssumption ==
    /\ MaxTransitions \in Nat
    /\ MaxBatchItems \in Nat \ {0}
    /\ None \notin WorkItems \cup Projects \cup Batches \cup ProviderItems
    /\ Runs \cap Approvals = {}

VARIABLES
    workItem,   \* the rows of work_items with their work_edges parent
    runWork,    \* runs.work_item_id
    audit,      \* audit_events, in order, of each run and approval
    timeline,   \* timeline_items of each run, in order of their revision
    cursor,     \* projection_cursors, with the receipt of the last batch
    issued,     \* client side: the batch built under each batch id
    reply       \* client side: the last reply seen for each batch id

storeVars == <<workItem, runWork, audit, timeline, cursor>>
clientVars == <<issued, reply>>
vars == <<tableVars, storeVars, clientVars>>

-----------------------------------------------------------------------------
WorkItemRow == [status : {"absent", "ready", "archived"},
                project : Projects \cup {None},
                parent : WorkItems \cup {None},
                revision : Nat]

NoWorkItem == [status |-> "absent", project |-> None, parent |-> None,
               revision |-> 0]

(* A timeline row: the item's primary key (its batch and its place in it), *)
(* the stream it came from, and the provider's id for it, if it has one.   *)
TimelineRow == [batch : Batches, index : 1..MaxBatchItems, stream : Streams,
                item : ProviderItems \cup {None}]

CursorRow == [at : Nat, batch : Batches \cup {None}, start : Nat]

Batch == [run : Runs, stream : Streams, start : Nat,
          items : UNION {[1..n -> ProviderItems \cup {None}] :
                            n \in 1..MaxBatchItems}]

AuditRow == [event : {"run_transitioned", "response_begun", "response_confirmed"},
             from : RunStatus \cup {None},
             to : RunStatus \cup Decisions]

(* The columns have their types.                                           *)
TypeOK ==
    /\ TablesTypeOK
    /\ workItem \in [WorkItems -> WorkItemRow]
    /\ runWork \in [Runs -> WorkItems \cup {None}]
    /\ audit \in [Runs \cup Approvals -> Seq(AuditRow)]
    /\ timeline \in [Runs -> Seq(TimelineRow)]
    /\ cursor \in [Runs -> [Streams -> CursorRow]]
    /\ issued \in [Batches -> Batch \cup {None}]
    /\ reply \in [Batches -> {"none", "ok", "conflict"}]

Init ==
    /\ TablesInit
    /\ workItem = [w \in WorkItems |-> NoWorkItem]
    /\ runWork = [r \in Runs |-> None]
    /\ audit = [e \in Runs \cup Approvals |-> <<>>]
    /\ timeline = [r \in Runs |-> <<>>]
    /\ cursor = [r \in Runs |-> [s \in Streams |->
                   [at |-> 0, batch |-> None, start |-> 0]]]
    /\ issued = [b \in Batches |-> None]
    /\ reply = [b \in Batches |-> "none"]

-----------------------------------------------------------------------------
(* Work items.                                                             *)

(* create_work_item: a child joins a parent of its own project that is not *)
(* archived.                                                               *)
CreateWorkItem(w, p, parent) ==
    /\ workItem[w].status = "absent"
    /\ parent # None => /\ workItem[parent].status = "ready"
                        /\ workItem[parent].project = p
    /\ workItem' = [workItem EXCEPT ![w] =
                      [status |-> "ready", project |-> p, parent |-> parent,
                       revision |-> 1]]
    /\ UNCHANGED <<tableVars, runWork, audit, timeline, cursor, clientVars>>

(* A mutant of Subtree: one level of children only.                        *)
RootAndChildren(root) ==
    {w \in WorkItems : w = root \/ workItem[w].parent = root}

(* The recursive query of archive_work_subtree: the least set of work      *)
(* items that holds the root and the children of its members.              *)
Subtree(root) ==
    {w \in WorkItems :
        \A S \in SUBSET WorkItems :
            (/\ root \in S
             /\ \A v \in WorkItems : workItem[v].parent \in S => v \in S)
            => w \in S}

ArchiveWorkSubtree(root) ==
    /\ workItem[root].status # "absent"
    /\ workItem' = [w \in WorkItems |->
                      IF w \in Subtree(root) /\ workItem[w].status = "ready"
                      THEN [workItem[w] EXCEPT !.status = "archived",
                                               !.revision = @ + 1]
                      ELSE workItem[w]]
    /\ UNCHANGED <<tableVars, runWork, audit, timeline, cursor, clientVars>>

(* A mutant of Bump: the revision stays.                                   *)
BumpForgotten(w) == UNCHANGED workItem

(* bump_work_item_revision, called by every transaction about a run.       *)
Bump(w) == workItem' = [workItem EXCEPT ![w].revision = @ + 1]

-----------------------------------------------------------------------------
(* Runs and approvals.                                                     *)

StoreCreateRun(r, w) ==
    /\ workItem[w].status = "ready"
    /\ CreateRun(r)
    /\ runWork' = [runWork EXCEPT ![r] = w]
    /\ Bump(w)
    /\ UNCHANGED <<audit, timeline, cursor, clientVars>>

StoreTransitionRun(r, from, to, p) ==
    /\ Len(audit[r]) < MaxTransitions
    /\ TransitionRun(r, from, to, p)
    /\ audit' = [audit EXCEPT ![r] =
                   Append(@, [event |-> "run_transitioned", from |-> from, to |-> to])]
    /\ Bump(runWork[r])
    /\ UNCHANGED <<runWork, timeline, cursor, clientVars>>

StoreRecordApproval(a, r, q) ==
    /\ RecordPendingApproval(a, r, q)
    /\ Bump(runWork[r])
    /\ UNCHANGED <<runWork, audit, timeline, cursor, clientVars>>

StoreBeginResponse(a, d) ==
    /\ BeginApprovalResponse(a, d)
    /\ audit' = [audit EXCEPT ![a] =
                   Append(@, [event |-> "response_begun", from |-> None, to |-> d])]
    /\ Bump(runWork[approval[a].run])
    /\ UNCHANGED <<runWork, timeline, cursor, clientVars>>

StoreConfirmResponse(a) ==
    /\ ConfirmApprovalResponse(a)
    /\ audit' = [audit EXCEPT ![a] =
                   Append(@, [event |-> "response_confirmed", from |-> None,
                              to |-> approval[a].decision])]
    /\ Bump(runWork[approval[a].run])
    /\ UNCHANGED <<runWork, timeline, cursor, clientVars>>

-----------------------------------------------------------------------------
(* Timeline batches.                                                       *)

(* A mutant of IssueBatch: the run need not be there.                      *)
IssueForAnyRun(b, r, s, items) ==
    /\ issued[b] = None
    /\ issued' = [issued EXCEPT ![b] =
                    [run |-> r, stream |-> s, start |-> cursor[r][s].at,
                     items |-> items]]
    /\ UNCHANGED <<tableVars, storeVars, reply>>

(* A client reads the cursor (get_stream_cursor) and builds a batch on it. *)
(* It may send that batch now, later, or again.                            *)
IssueBatch(b, r, s, items) ==
    /\ issued[b] = None
    /\ runStatus[r] # "absent"
    /\ issued' = [issued EXCEPT ![b] =
                    [run |-> r, stream |-> s, start |-> cursor[r][s].at,
                     items |-> items]]
    /\ UNCHANGED <<tableVars, storeVars, reply>>

(* The rows a batch inserts.                                               *)
RowsOf(b) ==
    [i \in DOMAIN issued[b].items |->
        [batch |-> b, index |-> i, stream |-> issued[b].stream,
         item |-> issued[b].items[i]]]

(* A mutant of HasReceipt: only the position is compared.                  *)
ReceiptByStart(b) ==
    LET row == cursor[issued[b].run][issued[b].stream] IN
    row.batch # None /\ row.start = issued[b].start

(* The committed receipt answers a repeated batch without writing.         *)
HasReceipt(b) ==
    LET row == cursor[issued[b].run][issued[b].stream] IN
    row.batch = b /\ row.start = issued[b].start

(* The constraints of timeline_items: the primary key, and one row per     *)
(* provider item of a run.                                                 *)
RowsAreNew(b) ==
    LET rows == timeline[issued[b].run] IN
    /\ \A i \in DOMAIN rows : rows[i].batch # b
    /\ \A j \in DOMAIN issued[b].items :
         issued[b].items[j] # None =>
           /\ \A i \in DOMAIN rows : rows[i].item # issued[b].items[j]
           /\ \A k \in DOMAIN issued[b].items \ {j} :
                issued[b].items[k] # issued[b].items[j]

(* A mutant of AppendAllowed: a stale cursor is accepted.                  *)
AppendFromAnyCursor(b) == RowsAreNew(b)

AppendAllowed(b) ==
    /\ cursor[issued[b].run][issued[b].stream].at = issued[b].start
    /\ RowsAreNew(b)

AppendTimelineBatch(b) ==
    LET r == issued[b].run
        s == issued[b].stream IN
    /\ issued[b] # None
    /\ ~HasReceipt(b)
    /\ AppendAllowed(b)
    /\ timeline' = [timeline EXCEPT ![r] = @ \o RowsOf(b)]
    /\ cursor' = [cursor EXCEPT ![r][s] =
                    [at |-> issued[b].start + Len(issued[b].items),
                     batch |-> b, start |-> issued[b].start]]
    /\ \/ reply' = [reply EXCEPT ![b] = "ok"]
       \/ UNCHANGED reply            \* committed, but the reply was lost
    /\ Bump(runWork[r])
    /\ UNCHANGED <<tableVars, runWork, audit, issued>>

AppendAgain(b) ==
    /\ issued[b] # None
    /\ HasReceipt(b)
    /\ reply' = [reply EXCEPT ![b] = "ok"]
    /\ UNCHANGED <<tableVars, storeVars, issued>>

AppendConflict(b) ==
    /\ issued[b] # None
    /\ ~HasReceipt(b)
    /\ ~AppendAllowed(b)
    /\ reply' = [reply EXCEPT ![b] = "conflict"]
    /\ UNCHANGED <<tableVars, storeVars, issued>>

-----------------------------------------------------------------------------
RunStep ==
    \/ \E r \in Runs, w \in WorkItems : StoreCreateRun(r, w)
    \/ \E r \in Runs, to \in RunStatus, p \in Providers \cup {None} :
          StoreTransitionRun(r, runStatus[r], to, p)

ApprovalStep ==
    \/ \E a \in Approvals, r \in Runs, q \in Requests :
          StoreRecordApproval(a, r, q)
    \/ \E a \in Approvals, d \in Decisions : StoreBeginResponse(a, d)
    \/ \E a \in Approvals : StoreConfirmResponse(a)

WorkStep ==
    \/ \E w \in WorkItems, p \in Projects, v \in WorkItems \cup {None} :
          CreateWorkItem(w, p, v)
    \/ \E w \in WorkItems : ArchiveWorkSubtree(w)

TimelineStep ==
    \/ \E b \in Batches, r \in Runs, s \in Streams, n \in 1..MaxBatchItems :
          \E items \in [1..n -> ProviderItems \cup {None}] :
             IssueBatch(b, r, s, items)
    \/ \E b \in Batches : \/ AppendTimelineBatch(b)
                          \/ AppendAgain(b)
                          \/ AppendConflict(b)

Next == RunStep \/ ApprovalStep \/ WorkStep \/ TimelineStep

Spec == Init /\ [][Next]_vars

-----------------------------------------------------------------------------
(* The properties.                                                         *)

(* A work item's parent, a run's work item, and the run of an approval and *)
(* of a batch are rows that exist, and an answer that is begun or resolved *)
(* says what was decided.                                                  *)
ParentsExist ==
    \A w \in WorkItems :
        workItem[w].status # "absent" /\ workItem[w].parent # None =>
            workItem[workItem[w].parent].status # "absent"

RunsHaveWork ==
    \A r \in Runs :
        runStatus[r] # "absent" =>
            runWork[r] \in WorkItems /\ workItem[runWork[r]].status # "absent"

ApprovalsHaveRuns ==
    \A a \in Approvals :
        /\ approval[a].status # "absent" =>
             approval[a].run \in Runs /\ runStatus[approval[a].run] # "absent"
        /\ approval[a].status \in {"responding", "resolved"} =>
             approval[a].decision \in Decisions

BatchesHaveRuns ==
    \A b \in Batches : issued[b] # None => runStatus[issued[b].run] # "absent"

(* The foreign keys of the schema hold between the tables under any order  *)
(* of the transactions, without the database enforcing one.                *)
RowsAreComplete ==
    ParentsExist /\ RunsHaveWork /\ ApprovalsHaveRuns /\ BatchesHaveRuns

(* An approval nobody has answered never outlives its run: the transition  *)
(* that ends a run voids it in the same transaction                        *)
(* (apply_run_transition), and a run that is not running cannot open one.  *)
NoOpenApprovalOfEndedRun ==
    \A a \in Approvals :
        approval[a].status = "pending" => runStatus[approval[a].run] \in Unsettled

(* One provider run never belongs to two application runs, although the    *)
(* identity arrives late and COALESCE keeps it through every transition.   *)
ProviderRunBelongsToOneRun ==
    \A q, r \in Runs :
        runProvider[q] = runProvider[r] /\ runProvider[r] # None => q = r

(* The audit trail alone tells the state: a run's entries form one         *)
(* unbroken chain of legal transitions from starting to its present        *)
(* status, and an approval's entries are the response that is recorded.    *)
AuditReplaysTables ==
    /\ \A r \in Runs :
         LET trail == audit[r] IN
         /\ trail = <<>> => runStatus[r] \in {"absent", "starting"}
         /\ trail # <<>> => /\ trail[1].from = "starting"
                            /\ trail[Len(trail)].to = runStatus[r]
         /\ \A i \in 1..(Len(trail) - 1) : trail[i].to = trail[i + 1].from
         /\ \A i \in 1..Len(trail) : CanTransitionTo(trail[i].from, trail[i].to)
    /\ \A a \in Approvals :
         audit[a] =
           CASE approval[a].status = "responding" ->
                  <<[event |-> "response_begun", from |-> None,
                     to |-> approval[a].decision]>>
             [] approval[a].status = "resolved" ->
                  <<[event |-> "response_begun", from |-> None,
                     to |-> approval[a].decision],
                    [event |-> "response_confirmed", from |-> None,
                     to |-> approval[a].decision]>>
             [] OTHER -> <<>>

(* No active work item hangs under an archived one: archiving takes the    *)
(* whole subtree, and a new item cannot join an archived parent.           *)
ArchivedSubtreesAreClosed ==
    \A w \in WorkItems :
        workItem[w].status # "absent" /\ workItem[w].parent # None =>
            /\ workItem[workItem[w].parent].project = workItem[w].project
            /\ workItem[workItem[w].parent].status = "archived"
                 => workItem[w].status = "archived"

(* A stream's cursor counts the items of that stream in the timeline, so   *)
(* two writers that read the same cursor cannot both append from it.       *)
CursorCountsItems ==
    \A r \in Runs, s \in Streams :
        cursor[r][s].at =
            Cardinality({i \in DOMAIN timeline[r] : timeline[r][i].stream = s})

(* An append that was answered with success, to its first call or to a     *)
(* repeat of it, has left its items in the timeline once, together and in  *)
(* order.                                                                  *)
OkMeansAppliedOnce ==
    \A b \in Batches :
        reply[b] = "ok" =>
            LET rows == timeline[issued[b].run]
                own == {i \in DOMAIN rows : rows[i].batch = b} IN
            /\ Cardinality(own) = Len(issued[b].items)
            /\ \E k \in 0..Len(rows) :
                 \A i \in DOMAIN issued[b].items :
                    /\ k + i \in own
                    /\ rows[k + i].item = issued[b].items[i]

(* Whatever a transaction changes about a run moves the revision of its    *)
(* work item by exactly one in the same step: a client that sees no gap in *)
(* the revisions has missed nothing.                                       *)
EveryCommitMovesRevisionByOne ==
    [][\A r \in Runs :
          (\/ runStatus'[r] # runStatus[r]
           \/ timeline'[r] # timeline[r]
           \/ \E a \in Approvals : approval'[a] # approval[a] /\ approval'[a].run = r)
          => workItem'[runWork'[r]].revision = workItem[runWork'[r]].revision + 1]_vars

(* The database implements the lifecycle the application promises.         *)
ImplementsLifecycle == Lifecycle!Spec

=============================================================================
