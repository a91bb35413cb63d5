----------------------------- MODULE PromptLife -----------------------------
(***************************************************************************)
(* What a human confirmation goes through: it is raised once, open until   *)
(* somebody answers or the run goes on without an answer, and closed for   *)
(* good.  Only an open prompt can be submitted, and only a submitted one   *)
(* resolved or given back.  SessionControl implements this for every       *)
(* prompt at once; a step may move several.                                *)
(***************************************************************************)
CONSTANTS Prompts

VARIABLE status     \* status[p]

PromptStates == {"none", "active", "submitted", "resolved", "invalidated",
                 "expired", "cancelled"}

Moves ==
    {<<"none", "active">>,                                      \* raised
     <<"active", "submitted">>,                                 \* answered
     <<"submitted", "active">>, <<"submitted", "resolved">>,    \* refused, taken
     <<"active", "invalidated">>, <<"submitted", "invalidated">>,
     <<"active", "expired">>, <<"active", "cancelled">>}

Init == status = [p \in Prompts |-> "none"]

Next ==
    /\ status' \in [Prompts -> PromptStates]
    /\ \A p \in Prompts : status'[p] # status[p] => <<status[p], status'[p]>> \in Moves

Spec == Init /\ [][Next]_status
=============================================================================
