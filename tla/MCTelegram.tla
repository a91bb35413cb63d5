----------------------------- MODULE MCTelegram -----------------------------
(* One chat with a text, a command and a press at a time, and two updates     *)
(* of a stranger.  Messages of 12, chunks of 10: among the texts are one     *)
(* with a block over two chunks, one with a line too long for any   *)
(* chunk, and one that is too long with its tag in the long paragraph.        *)
EXTENDS Telegram

CONSTANTS cA, t1, k1, p1, p2, x1, x2

MCChats == {cA}
MCJobs == {t1, k1, p1, p2, x1, x2}
MCChatOf == [u \in MCJobs |-> cA]
MCKind == [u \in MCJobs |-> CASE u \in {t1, x1} -> "text"
                              [] u = k1 -> "command"
                              [] u \in {p1, p2, x2} -> "press"]
MCStrangers == {x1, x2}
MCChatless == {p2}
MCModes == {TRUE, FALSE}
Text(paragraphs, open, close) == [paragraphs |-> paragraphs, open |-> open, close |-> close]
MCNotice == Text(<<<<2>>>>, 0, 0)
MCAnswers == {Text(<<<<4, 3>>, <<2>>, <<5>>>>, 1, 2),
              Text(<<<<5>>, <<4>>, <<5>>>>, 2, 3),
              Text(<<<<1, 14, 2>>, <<3>>>>, 1, 2)}
MCParagraphs == UNION {[1..n -> {2, 5, 11}] : n \in 1..3}
MCSmallTexts == {Text(ps, 0, 0) : ps \in UNION {[1..n -> MCParagraphs] : n \in 1..2}}
MCBridgeFailures == {Timeout, ConnectionRefused}
=============================================================================
