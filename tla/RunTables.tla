------------------------------ MODULE RunTables ------------------------------
(***************************************************************************)
(* The tables `runs` and `approval_requests` of the application database   *)
(* and the transactions that write them.  The SQLite worker runs one       *)
(* closure at a time, each in one transaction, so a transaction is one     *)
(* step; one that returns an error rolls back and changes nothing, so it   *)
(* is no step at all.  AppStore closes these transactions under an         *)
(* arbitrary client; RunSupervisor calls them from its handlers.           *)
(***************************************************************************)
CONSTANTS
    Runs,          \* application run ids
    Providers,     \* provider run identities
    Approvals,     \* approval request ids
    Requests,      \* the provider's own ids of its approval requests
    Decisions,     \* approved, denied
    None           \* the absent value of every optional column

ASSUME NoneAssumption ==
    /\ None \notin Providers \cup Runs \cup Approvals \cup Requests
    /\ None \notin Decisions

VARIABLES
    runStatus,     \* runs.status, "absent" for a row that is not there
    runProvider,   \* runs.provider_*: the provider identity, or None
    approval       \* the rows of approval_requests

tableVars == <<runStatus, runProvider, approval>>

-----------------------------------------------------------------------------
(* The status columns.                                                     *)

Terminal == {"completed", "failed", "interrupted"}

Unsettled == {"starting", "running", "disconnected", "outcome_unknown"}

RunStatus == Unsettled \cup Terminal

IsTerminal(s) == s \in Terminal

(* A mutant of CanTransitionTo: any change of status is legal.             *)
AnyTransition(from, to) == from \in RunStatus /\ from # to

(* RunStatus::can_transition_to.                                           *)
CanTransitionTo(from, to) ==
    \/ from = "starting"
       /\ to \in {"running", "interrupted", "failed", "outcome_unknown"}
    \/ from = "running"
       /\ to \in {"completed", "failed", "interrupted", "disconnected",
                  "outcome_unknown"}
    \/ from = "disconnected"
       /\ to \in {"running", "interrupted", "outcome_unknown"}
    \/ from = "outcome_unknown"
       /\ to \in {"running", "completed", "failed", "interrupted",
                  "disconnected"}

(* A row of approval_requests; an id not used yet is the absent row.       *)
ApprovalRow == [status : {"absent", "pending", "responding", "resolved", "voided"},
                run : Runs \cup {None},
                request : Requests \cup {None},
                decision : Decisions \cup {None}]

NoApproval == [status |-> "absent", run |-> None, request |-> None,
               decision |-> None]

TablesTypeOK ==
    /\ runStatus \in [Runs -> RunStatus \cup {"absent"}]
    /\ runProvider \in [Runs -> Providers \cup {None}]
    /\ approval \in [Approvals -> ApprovalRow]

TablesInit ==
    /\ runStatus = [r \in Runs |-> "absent"]
    /\ runProvider = [r \in Runs |-> None]
    /\ approval = [a \in Approvals |-> NoApproval]

-----------------------------------------------------------------------------
(* The transactions.                                                       *)

(* create_run: a fresh id becomes a row with status starting.              *)
CreateRun(r) ==
    /\ runStatus[r] = "absent"
    /\ runStatus' = [runStatus EXCEPT ![r] = "starting"]
    /\ UNCHANGED <<runProvider, approval>>

(* A mutant of TransitionAllowed: the provider identity is not compared.   *)
TransitionAnyProvider(r, from, to, p) ==
    CanTransitionTo(from, to) /\ runStatus[r] = from

(* transition_run: the requested edge must be legal, the row must still    *)
(* have the status the caller saw, and a provider identity that comes with *)
(* it must not belong to another run.                                      *)
TransitionAllowed(r, from, to, p) ==
    /\ CanTransitionTo(from, to)
    /\ runStatus[r] = from
    /\ p # None => \A q \in Runs \ {r} : runProvider[q] # p

(* Mutants of VoidPending: nothing is voided; the status is misspelt.      *)
VoidNothing(r) == approval

VoidMisspelt(r) ==
    [a \in Approvals |->
        IF approval[a].run = r /\ approval[a].status = "pending"
        THEN [approval[a] EXCEPT !.status = "void"] ELSE approval[a]]

(* Ending a run voids the approvals of that run nobody has answered.       *)
VoidPending(r) ==
    [a \in Approvals |->
        IF approval[a].run = r /\ approval[a].status = "pending"
        THEN [approval[a] EXCEPT !.status = "voided"] ELSE approval[a]]

TransitionRun(r, from, to, p) ==
    /\ TransitionAllowed(r, from, to, p)
    /\ runStatus' = [runStatus EXCEPT ![r] = to]
    /\ runProvider' = IF p = None THEN runProvider
                                  ELSE [runProvider EXCEPT ![r] = p]
    /\ approval' = IF IsTerminal(to) THEN VoidPending(r) ELSE approval

(* record_pending_approval: only a run whose status is running may ask,    *)
(* and the provider's request id is new for that run.                      *)
RecordPendingApproval(a, r, q) ==
    /\ approval[a].status = "absent"
    /\ runStatus[r] = "running"
    /\ \A b \in Approvals : ~(approval[b].run = r /\ approval[b].request = q)
    /\ approval' = [approval EXCEPT ![a] =
                      [status |-> "pending", run |-> r, request |-> q,
                       decision |-> None]]
    /\ UNCHANGED <<runStatus, runProvider>>

(* A mutant of BeginApprovalResponse: an answer under way may be replaced. *)
BeginResponseAgain(a, d) ==
    /\ approval[a].status \in {"pending", "responding"}
    /\ approval' = [approval EXCEPT ![a].status = "responding",
                                    ![a].decision = d]
    /\ UNCHANGED <<runStatus, runProvider>>

(* begin_approval_response: the decision is durable before it is sent.     *)
BeginApprovalResponse(a, d) ==
    /\ approval[a].status = "pending"
    /\ approval' = [approval EXCEPT ![a].status = "responding",
                                    ![a].decision = d]
    /\ UNCHANGED <<runStatus, runProvider>>

(* confirm_approval_response: the provider has taken the decision.         *)
ConfirmApprovalResponse(a) ==
    /\ approval[a].status = "responding"
    /\ approval' = [approval EXCEPT ![a].status = "resolved"]
    /\ UNCHANGED <<runStatus, runProvider>>

-----------------------------------------------------------------------------
(* The refinement mapping to RunLifecycle.                                 *)

PhaseOf(s) == IF s = "absent" \/ IsTerminal(s) THEN s ELSE "active"

AskOf(row) ==
    [state |-> CASE row.status = "absent" -> "absent"
                 [] row.status = "pending" -> "open"
                 [] row.status \in {"responding", "resolved"} -> "decided"
                 [] row.status = "voided" -> "void",
     run |-> row.run, decision |-> row.decision]

Lifecycle == INSTANCE RunLifecycle WITH
    Outcomes <- Terminal,
    phase <- [r \in Runs |-> PhaseOf(runStatus[r])],
    ask <- [a \in Approvals |-> AskOf(approval[a])]

=============================================================================
