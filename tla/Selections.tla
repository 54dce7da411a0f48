------------------------------ MODULE Selections ------------------------------
(***************************************************************************)
(* What the code keeps of a list (Iterator::filter, VecDeque::retain), as  *)
(* a recursive function: unlike SelectSeq it can be reasoned about.        *)
(***************************************************************************)
EXTENDS Naturals, Sequences

(* The entries of seq that are in the set keep, in their order.            *)
Among(seq, keep) ==
    LET upTo[n \in 0..Len(seq)] ==
            IF n = 0 THEN <<>>
            ELSE IF seq[n] \in keep THEN Append(upTo[n - 1], seq[n])
            ELSE upTo[n - 1]
    IN  upTo[Len(seq)]

===============================================================================
