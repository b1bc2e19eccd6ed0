------------------------------ MODULE MailRelay ------------------------------
(***************************************************************************)
(* What a mail relay promises those who send mail through it.              *)
(*                                                                         *)
(* The relay hands each message to a carrier at most once, one at a time,  *)
(* and never one whose sender already has an answer.  The carrier delivers *)
(* what it was handed whenever it likes, or never; it may leave the relay  *)
(* in doubt.  "250" is said only of a message that is delivered, or that   *)
(* the carrier was unclear about.  A message that was refused, or whose    *)
(* connection broke off, may be delivered all the same if it was handed    *)
(* over before, which is true of no more than one of those that are broken *)
(* off together.                                                           *)
(*                                                                         *)
(* Nothing is said of tokens, counters or the order of messages.           *)
(* SmtpToGraph is shown to implement this module.                          *)
(***************************************************************************)
CONSTANT Messages

VARIABLES
  told,       \* told[m]: what the sender of m knows of it
  handed,     \* the messages that the carrier has been given
  delivered,  \* those of them that are on their way to a mailbox
  unclear     \* those of them about which the carrier said neither

vars == <<told, handed, delivered, unclear>>

Open == {m \in Messages : told[m] = "sent"}

Init ==
  /\ told = [m \in Messages |-> "unsent"]
  /\ handed = {} /\ delivered = {} /\ unclear = {}

Send(m) ==
  /\ told[m] = "unsent"
  /\ told' = [told EXCEPT ![m] = "sent"]
  /\ UNCHANGED <<handed, delivered, unclear>>

Hand(m) ==
  /\ m \in Open
  /\ Open \cap handed = {}
  /\ handed' = handed \cup {m}
  /\ UNCHANGED <<told, delivered, unclear>>

Deliver(m) ==
  /\ m \in handed
  /\ delivered' = delivered \cup {m}
  /\ UNCHANGED <<told, handed, unclear>>

Doubt(m) ==
  /\ m \in Open \cap handed
  /\ unclear' = unclear \cup {m}
  /\ UNCHANGED <<told, handed, delivered>>

Relay(m) ==
  /\ m \in Open \cap (delivered \cup unclear)
  /\ told' = [told EXCEPT ![m] = "250"]
  /\ UNCHANGED <<handed, delivered, unclear>>

Refuse(m) ==
  /\ m \in Open
  /\ told' = [told EXCEPT ![m] = "550"]
  /\ UNCHANGED <<handed, delivered, unclear>>

BreakOff ==
  /\ told' = [m \in Messages |-> IF m \in Open THEN "broken off" ELSE told[m]]
  /\ UNCHANGED <<handed, delivered, unclear>>

Next == \/ BreakOff
        \/ \E m \in Messages :
             Send(m) \/ Hand(m) \/ Deliver(m) \/ Doubt(m) \/ Relay(m)
               \/ Refuse(m)

Spec == Init /\ [][Next]_vars
=============================================================================
