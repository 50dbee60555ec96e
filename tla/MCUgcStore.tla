----------------------------- MODULE MCUgcStore -----------------------------
(* A card the arbiter credits in two handlers, and a document both processes *)
(* write.                                                                    *)
EXTENDS UgcStore, TLC

CONSTANTS app, arb, r1, r2, l1, l2, carte, fiche

MCOu == r1 :> arb @@ r2 :> arb @@ l1 :> app @@ l2 :> app
Symetrie == Permutations({r1, r2}) \cup Permutations({l1, l2})

(* Nobody writes a document while a fallback has read its file.             *)
Patience == RepliFrais'
=============================================================================
