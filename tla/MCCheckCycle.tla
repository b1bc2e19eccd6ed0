---------------------------- MODULE MCCheckCycle ----------------------------
(* Small instances of CheckCycle, with the probes, for TLC. *)
EXTENDS Probes

MCOrder == <<"LDAP", "VERSION", "ELASTICSEARCH">>

On(t, n)  == [type |-> t, display_name |-> n, is_enable |-> TRUE,
              address |-> "good"]
Off(t, n) == [On(t, n) EXCEPT !.is_enable = FALSE]
Bad(t, n) == [On(t, n) EXCEPT !.address = "malformed"]
Part(t, n) == [On(t, n) EXCEPT !.address = "missing"]

(* Rows a system moves between: renamed, given another type, switched off, *)
(* given a url that does not parse, stripped of its port.                  *)
MCRows == {On("LDAP", "a"), On("LDAP", "b"), On("ELASTICSEARCH", "a"),
           On("VERSION", "a"), Off("LDAP", "a"), Part("ELASTICSEARCH", "a"),
           On("HTTP", "a"), Bad("LDAP", "a"), Bad("ELASTICSEARCH", "a")}

(* A second system that is checked last, not at all, or raises.            *)
MCSeeds == {[s1 |-> On("LDAP", "a"), s2 |-> r] :
              r \in {On("ELASTICSEARCH", "a"), Off("LDAP", "a"),
                     Bad("LDAP", "a")}}

TwoSystems == {[s1 |-> On("LDAP", "a"), s2 |-> On("ELASTICSEARCH", "a")]}
=============================================================================
