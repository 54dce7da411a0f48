----------------------------- MODULE MCMockProvider -----------------------------
(***************************************************************************)
(* The plans that the deterministic provider is checked on.                *)
(***************************************************************************)
EXTENDS MockProvider

S(kind, id) == [kind |-> kind, id |-> id]
P(steps, fault) == [steps |-> steps, fault |-> fault]

Done == S("complete", None)

MCPlanLists == {
    \* Two messages alike, and no plan for a second run.
    <<P(<<S("message", "q"), S("message", "q"), Done>>, None)>>,
    \* An approval that is awaited, and one run after another.
    <<P(<<S("approval", "q"), S("await", "q"), S("message", "p"), Done>>, None),
      P(<<S("message", "p")>>, "emit")>>,
    \* An approval that is delayed, and an input that uses its id again.
    <<P(<<S("message", "p"), S("approval", "q"), S("await", "q"), Done>>, "delay")>>,
    <<P(<<S("input", "q"), S("await", "q"), S("approval", "q"), Done>>, None)>>,
    \* A runtime that exits, or runs that nothing drives.
    <<P(<<S("mutation", "p"), S("message", "p"), Done>>, "exit_mutation"),
      P(<<Done>>, "exit_accepted")>>,
    <<P(<<S("message", "p"), Done>>, "never"), P(<<Done>>, "reject")>>}
================================================================================
