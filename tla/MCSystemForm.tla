---------------------------- MODULE MCSystemForm ----------------------------
(* Small instances of SystemForm for TLC. *)
EXTENDS SystemForm, Sequences

(* What users put in: numbers in range and past it, 0, garbage, blanks,    *)
(* nothing, the same with blanks around it, and a text that is too long    *)
(* for a group, but not for a host or a url; and what the forms put in     *)
(* themselves.                                                             *)
TooBig   == "9999999999"  \* past INT of Postgres
TooLong  == "a text of 150 characters"

Ports    == {"1", "0", TooBig}
Numerals == Ports \cup {"01", "00", "3306", "30"}
Choices  == {"http_2xx", "http_302", "tcp_connect", "spring_actuator",
             "openapi", "/auth/realms/master", "/realms/r"}

MCTexts  == {"", " ", "x", " x", " 1", TooLong} \cup Numerals \cup Choices
MCMirror(h, p) == h \o ":" \o p

MCEntries ==
  [t \in Types |-> [f \in Fields |->
     CASE f = "system_group"     -> {"", "x"} \cup
                                    (IF t \in {"SSL", "TCP"} THEN {TooLong} ELSE {})
       [] f = "url"              -> IF t = "TCP" THEN {" ", "x", " x"} ELSE {" ", "x"}
       [] f = "db_host"          -> {" ", " x"}
       [] f = "db_port"          -> {"x", " 1"} \cup Ports
       [] f = "timeout_seconds"  -> CASE t = "KEYCLOAK" -> {"", " ", "01", "00", "x"}
                                      [] t \in {"DATABASE", "HTTP"} -> {""}
                                      [] OTHER -> {"", "1"}
       [] f = "blackbox_module"  -> IF t = "TCP" THEN {"tcp_connect"}
                                    ELSE {"http_2xx", "http_302"}
       [] f = "realm_path"       -> {"", "/realms/r"}
       [] f = "version_strategy" -> {"spring_actuator", "openapi"}]]

(* The texts with a blank in front. *)
MCStrip(x) ==
  IF x # "" /\ SubSeq(x, 1, 1) = " " THEN SubSeq(x, 2, Len(x)) ELSE x

MCFits(f, x) == CASE f \in IntFields     -> x # TooBig
                  [] f = "system_group"  -> x # TooLong
                  [] OTHER               -> TRUE

MCCanonical ==
  [x \in Numerals \cup {" 1"} |-> CASE x \in {"01", " 1"} -> "1"
                                    [] x = "00" -> "0"
                                    [] OTHER -> x]
=============================================================================
