----------------------------- MODULE MCCliMirror ----------------------------
(* Two chats and two sessions, so that a chat may change its session, two *)
(* chats may share one and one session may fail while the other goes on.  *)
EXTENDS CliMirror

CONSTANTS c1, c2, s1, s2

\* The second session gets two messages; that of the first gets longer.
MCMaxMessages == [s \in Sessions |-> IF s = s2 THEN 2 ELSE 1]
MCMaxParts == [s \in Sessions |-> IF s = s1 THEN 2 ELSE 1]
=============================================================================
