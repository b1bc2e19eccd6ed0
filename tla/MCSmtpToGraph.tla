---------------------------- MODULE MCSmtpToGraph ----------------------------
EXTENDS SmtpToGraph
CONSTANTS m1, m2, m3

(* Two readable messages and one that is not. *)
MCMessages == {m1, m2, m3}
MCUnreadable == {m3}
=============================================================================
