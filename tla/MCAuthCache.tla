---------------------------- MODULE MCAuthCache ----------------------------
(* Small instances of AuthCache for TLC. *)
EXTENDS AuthCache

CONSTANTS w1, w2

MCThreads == {w1, w2}
=============================================================================
