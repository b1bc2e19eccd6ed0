---------------------------- MODULE MCHistoryLog ----------------------------
(* Small instances of HistoryLog for TLC. *)
EXTENDS HistoryLog
=============================================================================
