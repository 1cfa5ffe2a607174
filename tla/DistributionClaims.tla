-------------------------- MODULE DistributionClaims --------------------------
(* What a comment promises about /exit and the poller's timing contradicts.  *)
EXTENDS MCDistribution

\* blueprints/distribution.py:1185 "Always cascades to bracket children ...
\* without this, an EXIT on a bracket parent would leave the SL+TP sitting at
\* broker and any one of them could match the market, re-opening the position":
\* an exit that reports success leaves no child of its signal open.  The
\* cascade reads the log, which the poller has yet to write the children to.
ExitLeavesNoChildren ==
    \A r \in Requests :
        req[r].pc = "done" /\ req[r].op = "exit" /\ req[r].out = "success" =>
            \A o \in 1 .. orders :
                book[o].id \in {<<req[r].s, "sl">>, <<req[r].s, "tp">>} => book[o].state # "open"
===============================================================================
