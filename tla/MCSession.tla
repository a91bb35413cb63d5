----------------------------- MODULE MCSession ------------------------------
(* Instances of SessionControl: each .cfg chooses the sets, the kinds of   *)
(* updates and the faults that its question needs.                         *)
EXTENDS SessionProperties, TLC

CONSTANTS c1, c2, p1, s1, s2, t1, t2, q1, q2, h1, h2, v1

\* Every session belongs to the only project.
MCProjectOf == [s \in Sessions |-> p1]

\* No step and no property depends on which handler is which.
HandlerSymmetry == Permutations(Handlers)
=============================================================================
