---------------------------- MODULE MCCodexHarness ----------------------------
(* Small instances of CodexHarness.  The disturbances of one instance come *)
(* from one of the plans.                                                  *)
EXTENDS CodexHarness

CONSTANTS h1, h2, s1, s2

MCSettings == [Connections -> [home : {h1}, delegated : BOOLEAN, secret : {s1}]]

Plan(death, change, call, failure) ==
    [death |-> death, change |-> change, call |-> call, failure |-> failure]

MCPlans == {Plan(1, 0, 1, 0), Plan(0, 1, 0, 1), Plan(0, 1, 1, 0), Plan(1, 1, 0, 0)}
===============================================================================
