------------------------------- MODULE MCLocal ------------------------------
(* Two chats on a project; a session in its directory, another elsewhere,   *)
(* and one that OpenCode lists without a path.                              *)
EXTENDS LocalModes, TLC

CONSTANTS cA, cB, p1, here, there, bare, dP, dQ, n1, n2, n3

MCSessions == {here, there, bare}
MCDirOf == [p \in {p1} |-> dP]
MCPathOf == [s \in MCSessions |-> CASE s = here -> dP [] s = there -> dQ [] s = bare -> None]
MCNameOf == [s \in MCSessions |-> CASE s = here -> n1 [] s = there -> n2 [] s = bare -> n3]
\* The chats differ in nothing, and no liveness is checked.
ChatSymmetry == Permutations({cA, cB})
\* No property says anything once a directory is unsure.
Sure == ~unsure
=============================================================================
