---------------------------- MODULE RunLifecycle ----------------------------
(***************************************************************************)
(* What the application promises about runs and about the approvals their  *)
(* agents ask for, whatever component happens to write the database.       *)
(*                                                                         *)
(* A run is created once, stays active for as long as its fate is open     *)
(* (starting, running, disconnected or outcome unknown, in any order) and  *)
(* ends at most once with an outcome that never changes.  An approval is   *)
(* asked for by an active run, is decided at most once, and is void as     *)
(* soon as its run ends undecided: in the same step, so no reader ever     *)
(* finds an open question of a run that has ended.                         *)
(***************************************************************************)
CONSTANTS Runs, Approvals, Decisions, Outcomes, None

VARIABLES phase, ask

lifecycleVars == <<phase, ask>>

(* The phases of a run: absent, active, or ended with one outcome.         *)
Phases == {"absent", "active"} \cup Outcomes

(* An approval: its state, the run that asked and what was decided.        *)
Asks == [state : {"absent", "open", "decided", "void"},
         run : Runs \cup {None}, decision : Decisions \cup {None}]

LifecycleTypeOK ==
    /\ phase \in [Runs -> Phases]
    /\ ask \in [Approvals -> Asks]

Init ==
    /\ phase = [r \in Runs |-> "absent"]
    /\ ask = [a \in Approvals |->
                [state |-> "absent", run |-> None, decision |-> None]]

Create(r) ==
    /\ phase[r] = "absent"
    /\ phase' = [phase EXCEPT ![r] = "active"]
    /\ UNCHANGED ask

End(r, o) ==
    /\ phase[r] = "active"
    /\ phase' = [phase EXCEPT ![r] = o]
    /\ ask' = [a \in Approvals |->
                 IF ask[a].state = "open" /\ ask[a].run = r
                 THEN [ask[a] EXCEPT !.state = "void"] ELSE ask[a]]

Ask(a, r) ==
    /\ phase[r] = "active"
    /\ ask[a].state = "absent"
    /\ ask' = [ask EXCEPT ![a] =
                 [state |-> "open", run |-> r, decision |-> None]]
    /\ UNCHANGED phase

Decide(a, d) ==
    /\ ask[a].state = "open"
    /\ ask' = [ask EXCEPT ![a] =
                 [state |-> "decided", run |-> ask[a].run, decision |-> d]]
    /\ UNCHANGED phase

Next ==
    \/ \E r \in Runs : Create(r) \/ \E o \in Outcomes : End(r, o)
    \/ \E a \in Approvals, r \in Runs : Ask(a, r)
    \/ \E a \in Approvals, d \in Decisions : Decide(a, d)

Spec == Init /\ [][Next]_lifecycleVars

=============================================================================
