---------------------------- MODULE MCBlackboxLog ----------------------------
(* Small instances of BlackboxLog for TLC. *)
EXTENDS BlackboxLog

Http(about) ==
  [type |-> "HTTP", url |-> "u", node_id |-> Null, about |-> about]
Icmp(n) == [type |-> "ICMP", url |-> "u", node_id |-> n, about |-> "old"]

(* A service or a node; the service may be renamed, the node may be given  *)
(* a node_id, each may become the other, or go.  Or a second service is    *)
(* created with the same url; the node may be named like it.               *)
MCRows == [s |-> {Http("new"), Icmp("t")}, t |-> {Http("old")}]
MCSeeds == {[s |-> r, t |-> NoRow] :
              r \in {Http("old"), Icmp(Null), Icmp("t")}}
=============================================================================
