----------------------------- MODULE MCAppStore -----------------------------
(***************************************************************************)
(* A small instance of AppStore.  Its two halves, runs with their          *)
(* approvals and work items with their timelines, meet in few rules, so    *)
(* the instance follows each half as far as its own scope and their        *)
(* meeting one step beyond.                                                *)
(***************************************************************************)
EXTENDS AppStore, TLC

(* Ids are interchangeable: no rule of the store orders them.              *)
StoreSymmetry ==
    Permutations(Runs) \cup Permutations(Approvals)
        \cup Permutations(WorkItems) \cup Permutations(Batches)
        \cup Permutations(Providers)

Created == {w \in WorkItems : workItem[w].status # "absent"}
Started == {r \in Runs : runStatus[r] # "absent"}
NoApprovals == \A a \in Approvals : approval[a].status = "absent"

(* Two runs of two work items, or two runs of one and an approval.         *)
RunScope ==
    /\ \A b \in Batches : issued[b] = None
    /\ \A w \in Created : workItem[w].project = "p"
    /\ Cardinality(Created) <= 1 \/ (Cardinality(Created) = 2 /\ NoApprovals)

(* Trees of three work items in two projects, and two batches of one run.  *)
TimelineScope ==
    /\ Cardinality(Started) <= 1
    /\ \A r \in Started : runStatus[r] = "starting"
    /\ NoApprovals

Scope == RunScope \/ TimelineScope
=============================================================================
