------------------------------ MODULE MCRestart -----------------------------
(* Instances of Restart, chosen as in MCSession. *)
EXTENDS Restart

CONSTANTS c1, c2, p1, s1, s2, t1, t2, q1, q2, h1, h2, v1

\* Every session belongs to the only project.
MCProjectOf == [s \in Sessions |-> p1]
=============================================================================
