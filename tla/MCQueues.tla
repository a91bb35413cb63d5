------------------------------ MODULE MCQueues ------------------------------
(* Two chats.  Updates: a burst of three on one, two on the other; watcher:   *)
(* three events on one, one on the other.                                    *)
EXTENDS Queues

CONSTANTS cA, cB, a1, a2, a3, b1, b2, e1, e2, e3, f1

MCChats == {cA, cB}
MCJobs == {a1, a2, a3, b1, b2}
MCChatOf == [j \in MCJobs |-> IF j \in {b1, b2} THEN cB ELSE cA]
MCEvents == {e1, e2, e3, f1}
MCEventChat == [e \in MCEvents |-> IF e = f1 THEN cB ELSE cA]
=============================================================================
