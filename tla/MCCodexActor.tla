----------------------------- MODULE MCCodexActor -----------------------------
(* Small instances of CodexActor: calls are interchangeable.               *)
EXTENDS CodexActor, TLC

ActorSymmetry == Permutations(Calls)
===============================================================================
