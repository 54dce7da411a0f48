---------------------------- MODULE MCArtifactStore ----------------------------
(* Small instances of ArtifactStore: publishers are interchangeable.  The  *)
(* faults of one instance come from one of the plans.                      *)
EXTENDS ArtifactStore, TLC

ArtifactSymmetry == Permutations(Publishers)

Plan(io, kill, power, rot) == [io |-> io, kill |-> kill, power |-> power, rot |-> rot]

(* Files that fail and a process that is killed, or power losses; a disk   *)
(* that spoils a blob in both.                                             *)
MCPlans == {Plan(2, 0, 0, 1), Plan(0, 1, 0, 1), Plan(0, 0, 1, 1)}

(* A process killed once and a power loss after it.                        *)
MCKilledPlans == {Plan(0, 1, 1, 0)}
===============================================================================
