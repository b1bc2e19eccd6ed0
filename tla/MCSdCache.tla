------------------------------ MODULE MCSdCache ------------------------------
(* A small instance of SdCache for TLC. *)
EXTENDS SdCache

CONSTANTS w1, w2

MCThreads == {w1, w2}

(* A system that is listed, loses its url, or is given another type. *)
MCRows == {[type |-> "http", is_enable |-> TRUE, url |-> TRUE],
           [type |-> "http", is_enable |-> TRUE, url |-> FALSE],
           [type |-> "LDAP", is_enable |-> TRUE, url |-> TRUE]}
=============================================================================
