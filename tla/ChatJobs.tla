------------------------------ MODULE ChatJobs ------------------------------
(***************************************************************************)
(* The work that the bot puts in order per chat: calls of runExclusive in  *)
(* ChatLock, calls of enqueueByChat in PromiseQueue.                       *)
(***************************************************************************)
CONSTANTS Chats,    \* chat ids
          Jobs,     \* calls; each may be made again when it has settled
          ChatOf,   \* the chatId argument of each call
          None      \* no call

ASSUME ChatOfAssumption == ChatOf \in [Jobs -> Chats]
ASSUME NoneAssumption == None \notin Jobs
=============================================================================
