----------------------------- MODULE MCCloudSave -----------------------------
(* One account, two writes, one console that waits for each answer.          *)
EXTENDS CloudSave, TLC

CONSTANTS w1, w2, c1

Symetrie == Permutations({w1, w2})
=============================================================================
