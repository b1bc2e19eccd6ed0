------------------------------ MODULE TtlReads ------------------------------
(***************************************************************************)
(* What a read-through cache with a time-to-live promises its callers.     *)
(*                                                                         *)
(* A source answers one value per key and the value changes over time.     *)
(* A request for a key may be answered with any value the source had at a  *)
(* moment later than TTL before the request began; it may also fail.       *)
(* Nothing is said of caches, locks or threads.  SdCache (the HTTP-SD      *)
(* endpoints) and AuthCache (the Grafana session check of the admin UI)    *)
(* are shown to implement this module.                                     *)
(***************************************************************************)
EXTENDS Integers

CONSTANTS
  Keys,       \* what can be asked for
  Values,     \* what the source can answer
  Requests,   \* slots in which requests run
  TTL         \* the age an answer may have, counted from the request's start

VARIABLES
  clock,      \* the time
  source,     \* source[k]: what the source answers for k now
  moments,    \* moments[k]: the pairs <<t, v>> such that source[k] was v at t
  phase,      \* phase[r]: what has become of the request in slot r
  key,        \* key[r]: what it asks for
  since,      \* since[r]: when it began
  answer      \* answer[r]: the value it was given

vars == <<clock, source, moments, phase, key, since, answer>>

Phase == {"idle", "open", "answered", "failed"}

Init ==
  /\ clock \in Nat
  /\ source \in [Keys -> Values]
  /\ moments = [k \in Keys |-> {<<clock, source[k]>>}]
  /\ phase = [r \in Requests |-> "idle"]
  /\ key \in [Requests -> Keys]
  /\ since \in [Requests -> Nat]
  /\ answer \in [Requests -> Values]

(* Time passes; every key's value is then also a value of the new time. *)
Tick ==
  /\ clock' = clock + 1
  /\ moments' = [k \in Keys |-> moments[k] \cup {<<clock + 1, source[k]>>}]
  /\ UNCHANGED <<source, phase, key, since, answer>>

(* The source changes, under any number of keys at once. *)
Change ==
  /\ source' \in [Keys -> Values]
  /\ moments' = [k \in Keys |-> moments[k] \cup {<<clock, source'[k]>>}]
  /\ UNCHANGED <<clock, phase, key, since, answer>>

(* A request starts in a slot whose previous request is over, and forgets  *)
(* that one's answer.                                                      *)
Ask(r) ==
  /\ phase[r] # "open"
  /\ phase' = [phase EXCEPT ![r] = "open"]
  /\ \E k \in Keys : key' = [key EXCEPT ![r] = k]
  /\ since' = [since EXCEPT ![r] = clock]
  /\ \E v \in Values : answer' = [answer EXCEPT ![r] = v]
  /\ UNCHANGED <<clock, source, moments>>

(* A request for something that is no key fails at once. *)
Refuse(r) ==
  /\ phase[r] # "open"
  /\ phase' = [phase EXCEPT ![r] = "failed"]
  /\ \E v \in Values : answer' = [answer EXCEPT ![r] = v]
  /\ UNCHANGED <<clock, source, moments, key, since>>

(* It is answered with a value of the last TTL before it began, or newer. *)
Answer(r) ==
  /\ phase[r] = "open"
  /\ phase' = [phase EXCEPT ![r] = "answered"]
  /\ \E m \in moments[key[r]] :
       /\ m[1] > since[r] - TTL
       /\ answer' = [answer EXCEPT ![r] = m[2]]
  /\ UNCHANGED <<clock, source, moments, key, since>>

(* It fails: its caller is told so and is given no value. *)
Fail(r) ==
  /\ phase[r] = "open"
  /\ phase' = [phase EXCEPT ![r] = "failed"]
  /\ UNCHANGED <<clock, source, moments, key, since, answer>>

Next ==
  \/ Tick
  \/ Change
  \/ \E r \in Requests : Ask(r) \/ Refuse(r) \/ Answer(r) \/ Fail(r)

Spec == Init /\ [][Next]_vars
=============================================================================
