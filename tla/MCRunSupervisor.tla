--------------------------- MODULE MCRunSupervisor ---------------------------
(***************************************************************************)
(* Small instances of RunSupervisor.                                       *)
(***************************************************************************)
EXTENDS RunSupervisor, TLC

(* No rule orders runs, approvals, channels or callers.  Not for the runs  *)
(* that check liveness.                                                    *)
SupervisorSymmetry ==
    Permutations(Runs) \cup Permutations(Approvals)
        \cup Permutations(Consumers) \cup Permutations(Clients)

Emitted == UNION {{sent[r][n] : n \in DOMAIN sent[r]} : r \in Runs}
Busy == {t \in Clients : task[t].pc # "idle"}

(* Items of a run, and one caller that reconciles or commands it.          *)
ItemScope ==
    /\ "approval" \notin Emitted
    /\ faults.crash = 0
    /\ Cardinality(Busy) <= 1

(* Approvals of a run, two callers that answer them, and a crash.          *)
ApprovalScope ==
    /\ "item" \notin Emitted
    /\ \A t \in Clients : task[t].pc \in
           {"idle", "begin", "remember", "respond", "confirm", "forget"}

Scope == ItemScope \/ ApprovalScope
=============================================================================
