------------------------------- MODULE MCRooms -------------------------------
(* A host a and a guest b of room g, b joining twice.                        *)
(* Two streams follow the first session of b, as after a reconnect.          *)
EXTENDS GameRooms, TLC

CONSTANTS a, b, g, ua, ub, uc, f1, f2

MCJoueurDe == (ua :> a) @@ (ub :> b) @@ (uc :> b)
MCPartieDe == (ua :> g) @@ (ub :> g) @@ (uc :> g)
MCHoteDe == (g :> ua)
MCUssDe == (f1 :> ub) @@ (f2 :> ub)
MCMaxJetons == (ua :> 1) @@ (ub :> 2) @@ (uc :> 1)
==============================================================================
