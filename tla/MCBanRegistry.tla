---------------------------- MODULE MCBanRegistry ----------------------------
(* A small instance of BanRegistry for TLC.                                 *)
EXTENDS BanRegistry, TLC
CONSTANTS p1, p2, s1, o1
=============================================================================
