---------------------------- MODULE DurableStore ----------------------------
(***************************************************************************)
(* What a persistence driver promises (PersistenceDriver.runInTransaction, *)
(* application/contracts.ts): a transaction takes effect as a whole and on *)
(* top of all those before it, or, if its caller is told that it failed,   *)
(* has no effect at all, then or later.  A transaction is known by what it *)
(* adds to the store, be it all of it or a part.                           *)
(*                                                                         *)
(* A driver that does not flush its files may lose the latest transactions *)
(* to a power failure: the store is again what it was after an earlier one.*)
(* A disk that damages what was written takes everything away.             *)
(***************************************************************************)
CONSTANT Txs

VARIABLES committed,    \* the transactions whose effect the store has
          earlier,      \* what it had before those that are not on the disk yet
          answered,     \* the transactions whose callers know that they took effect
          refused,      \* those whose callers know that they did not
          damaged       \* what was written is not readable any more

durableVars == <<committed, earlier, answered, refused, damaged>>

Init == committed = {} /\ earlier = {} /\ answered = {} /\ refused = {} /\ ~damaged

\* With a flush or without one.
Commit(t) ==
    /\ t \notin refused
    /\ committed' = committed \cup {t}
    /\ earlier' \in {earlier, earlier \cup {committed}}
    /\ UNCHANGED <<answered, refused, damaged>>

Answer(t) ==
    /\ t \in committed
    /\ answered' = answered \cup {t} /\ UNCHANGED <<committed, earlier, refused, damaged>>

Refuse(t) ==
    /\ t \notin committed \cup UNION earlier
    /\ refused' = refused \cup {t} /\ UNCHANGED <<committed, earlier, answered, damaged>>

Flush == earlier' = {} /\ UNCHANGED <<committed, answered, refused, damaged>>

PowerFails ==
    /\ committed' \in earlier /\ earlier' = {}
    /\ UNCHANGED <<answered, refused, damaged>>

Damage ==
    /\ committed' = {} /\ earlier' = {} /\ damaged' = TRUE
    /\ UNCHANGED <<answered, refused>>

Repair == damaged /\ damaged' = FALSE /\ UNCHANGED <<committed, earlier, answered, refused>>

\* What the store has is written again, and is not on the disk yet.
Rewrite ==
    /\ earlier' = earlier \cup {committed}
    /\ damaged' \in {damaged, FALSE}
    /\ UNCHANGED <<committed, answered, refused>>

Next ==
    \/ \E t \in Txs : Commit(t) \/ Answer(t) \/ Refuse(t)
    \/ Flush \/ PowerFails \/ Damage \/ Repair \/ Rewrite

Spec == Init /\ [][Next]_durableVars
=============================================================================
