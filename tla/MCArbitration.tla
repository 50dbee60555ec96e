---------------------------- MODULE MCArbitration ----------------------------
(* A battle of two consoles.  a reports twice; the session of b may go and    *)
(* come back, that of a go for good.                                          *)
EXTENDS Arbitration, TLC

CONSTANTS a, b

MCMaxRapports == (a :> 2) @@ (b :> 1)
MCMaxVirages == (a :> 1) @@ (b :> 2)

(* The same in a room nobody leaves.                                          *)
CalmeMaxVirages == (a :> 0) @@ (b :> 0)
==============================================================================
