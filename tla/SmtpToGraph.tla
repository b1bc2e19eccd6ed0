----------------------------- MODULE SmtpToGraph -----------------------------
(***************************************************************************)
(* The mail sidecar (smtp_to_graph/main.py): it takes messages from        *)
(* Grafana by SMTP and submits each to Microsoft Graph.  handle_DATA() is  *)
(* a coroutine but send() blocks it, and with it the event loop: sessions  *)
(* wait for each other and one message is handled at a time.               *)
(*                                                                         *)
(* The MSAL application is made on the first send; MSAL keeps a token      *)
(* until it expires.  The POST and Graph's reply to it are separate steps: *)
(* Graph accepts a message it was sent when it likes, also after the       *)
(* sidecar has given up, and the reply may be lost or be none that the     *)
(* code expects.  Any call may fail, and the pod may be restarted at any   *)
(* moment, which loses the counters and breaks the SMTP connections.       *)
(***************************************************************************)
EXTENDS Naturals, FiniteSets

CONSTANTS
  Messages,   \* what Grafana sends
  Unreadable  \* messages whose body _extract_body() cannot decode

ASSUME SmtpToGraphAssumption ==
  /\ Unreadable \subseteq Messages
  /\ IsFiniteSet(Messages)

VARIABLES
  state,      \* state[m]: "new", "waiting", "handled" or how it ended
  pc,         \* where send() is
  app,        \* GraphSender._app: "none" or "ready"
  token,      \* MSAL has a token that is not expired
  reply,      \* status_code of the POST under way, or "none"
  success, failure, refreshes, \* SENT by result, and TOKEN_REFRESH
  posted,     \* external: what has reached Graph
  accepted,   \* external: what Graph has accepted for delivery
  unclear,    \* history: what Graph answered with a 2xx that is not 202
  answered    \* history: messages answered since the process started

graph == <<posted, accepted, unclear>>
counters == <<success, failure, refreshes>>
vars == <<state, pc, app, token, reply, counters, graph, answered>>

Init ==
  /\ state = [m \in Messages |-> "new"]
  /\ pc = "idle"
  /\ app = "none" /\ token = FALSE /\ reply = "none"
  /\ success = 0 /\ failure = 0 /\ refreshes = 0
  /\ posted = {} /\ accepted = {} /\ unclear = {}
  /\ answered = {}

Handled(m) == state[m] = "handled"

(* handle_DATA() returns: "250 ..." or "550 ...". *)
Answer(m, code) ==
  /\ state' = [state EXCEPT ![m] = code]
  /\ answered' = answered \cup {m}
  /\ pc' = "idle" /\ reply' = "none"

(***************************************************************************)
(* The environment.                                                        *)
(***************************************************************************)
Submit(m) ==
  /\ state[m] = "new"
  /\ state' = [state EXCEPT ![m] = "waiting"]
  /\ UNCHANGED <<pc, app, token, reply, counters, graph, answered>>

TokenExpires ==
  /\ token
  /\ token' = FALSE
  /\ UNCHANGED <<state, pc, app, reply, counters, graph, answered>>

GraphAccepts(m) ==
  /\ m \in posted \ accepted
  /\ accepted' = accepted \cup {m}
  /\ UNCHANGED <<state, pc, app, token, reply, counters, posted, unclear,
                 answered>>

(* "202 Accepted" is Graph's word for it.  Another 2xx, from Graph or from *)
(* a proxy before it, says nothing, and an error may come after the fact.  *)
GraphReplies(m) ==
  /\ pc = "reply" /\ Handled(m)
  /\ reply = "none"
  /\ \/ m \in accepted /\ reply' = "202" /\ UNCHANGED unclear
     \/ reply' = "2xx" /\ unclear' = unclear \cup {m}
     \/ reply' = "error" /\ UNCHANGED unclear
  /\ UNCHANGED <<state, pc, app, token, counters, posted, accepted, answered>>

(* Whoever waits for an answer sees the connection close. *)
Restart ==
  /\ state' = [m \in Messages |-> IF state[m] \in {"waiting", "handled"}
                                  THEN "broken off" ELSE state[m]]
  /\ pc' = "idle" /\ app' = "none" /\ token' = FALSE /\ reply' = "none"
  /\ success' = 0 /\ failure' = 0 /\ refreshes' = 0
  /\ answered' = {}
  /\ UNCHANGED graph

(***************************************************************************)
(* send()                                                                  *)
(***************************************************************************)

(* BUG VARIANT of Extract: send() runs in a thread for each message. *)
ExtractTogether(m) ==
  /\ state[m] = "waiting"
  /\ IF m \in Unreadable THEN Answer(m, "550")
     ELSE /\ state' = [state EXCEPT ![m] = "handled"]
          /\ pc' = "app"
          /\ UNCHANGED <<reply, answered>>
  /\ UNCHANGED <<app, token, counters, graph>>

(* The body is extracted outside the try: what fails there is answered     *)
(* with 550 by handle_DATA() and not counted.                              *)
Extract(m) ==
  /\ pc = "idle"
  /\ state[m] = "waiting"
  /\ IF m \in Unreadable THEN Answer(m, "550")
     ELSE /\ state' = [state EXCEPT ![m] = "handled"]
          /\ pc' = "app"
          /\ UNCHANGED <<reply, answered>>
  /\ UNCHANGED <<app, token, counters, graph>>

(* BUG VARIANT of Fails: counted where the status is logged, and again. *)
FailsTwice(m) ==
  /\ failure' = failure + (IF reply = "error" THEN 2 ELSE 1)
  /\ Answer(m, "550")
  /\ UNCHANGED <<success, refreshes, graph>>

(* BUG VARIANT of Fails: the exception is counted but not raised again. *)
FailsQuietly(m) ==
  /\ failure' = failure + 1
  /\ Answer(m, "250")
  /\ UNCHANGED <<success, refreshes, graph>>

(* Any exception in the try: counted, raised again, answered with 550. *)
Fails(m) ==
  /\ failure' = failure + 1
  /\ Answer(m, "550")
  /\ UNCHANGED <<success, refreshes, graph>>

(* _msal_app(): it is there...                                             *)
CachedApp(m) ==
  /\ pc = "app" /\ Handled(m)
  /\ app = "ready"
  /\ pc' = "token"
  /\ UNCHANGED <<state, app, token, reply, counters, graph, answered>>

(* ... or made, with a tenant discovery in its constructor... *)
MakeApp(m) ==
  /\ pc = "app" /\ Handled(m)
  /\ app = "none"
  /\ app' = "ready"
  /\ pc' = "token"
  /\ UNCHANGED <<state, token, reply, counters, graph, answered>>

(* ... which may fail: _app stays None and the next message tries again.   *)
MakeAppFails(m) ==
  /\ pc = "app" /\ Handled(m)
  /\ app = "none"
  /\ Fails(m)
  /\ UNCHANGED <<app, token>>

(* acquire_token_for_client(): from MSAL's cache... *)
CachedToken(m) ==
  /\ pc = "token" /\ Handled(m)
  /\ token
  /\ pc' = "post"
  /\ UNCHANGED <<state, app, token, reply, counters, graph, answered>>

(* ... or from the identity provider, which is counted. *)
FreshToken(m) ==
  /\ pc = "token" /\ Handled(m)
  /\ ~token
  /\ token' = TRUE
  /\ refreshes' = refreshes + 1
  /\ pc' = "post"
  /\ UNCHANGED <<state, app, reply, success, failure, graph, answered>>

FreshTokenFails(m) ==
  /\ pc = "token" /\ Handled(m)
  /\ ~token
  /\ Fails(m)
  /\ UNCHANGED <<app, token>>

(* httpx.post(): the request reaches Graph...                              *)
Post(m) ==
  /\ pc = "post" /\ Handled(m)
  /\ posted' = posted \cup {m}
  /\ pc' = "reply"
  /\ UNCHANGED <<state, app, token, reply, counters, accepted, unclear,
                 answered>>

(* BUG VARIANT of PostFails: httpx.post() is called with timeout=None. *)
PostFailsAtOnce(m) ==
  /\ pc = "post" /\ Handled(m)
  /\ Fails(m)
  /\ UNCHANGED <<app, token>>

(* ... or does not, or is not answered within 30 seconds. *)
PostFails(m) ==
  /\ pc \in {"post", "reply"} /\ Handled(m)
  /\ reply = "none"
  /\ Fails(m)
  /\ UNCHANGED <<app, token>>

(* A status other than 202 is logged as "Graph rejected message", and then *)
(* raise_for_status() raises for it unless it is a 2xx...                  *)
Refused(m) ==
  /\ Handled(m)
  /\ reply = "error"
  /\ Fails(m)
  /\ UNCHANGED <<app, token>>

(* ... which is counted, and answered, like a 202.                         *)
Succeeds(m) ==
  /\ Handled(m)
  /\ reply \in {"202", "2xx"}
  /\ success' = success + 1
  /\ Answer(m, "250")
  /\ UNCHANGED <<app, token, failure, refreshes, graph>>

(* The steps that send() makes by itself, or within a time-out.            *)
Own(m) == \/ Extract(m) \/ CachedApp(m) \/ CachedToken(m)
          \/ Post(m) \/ PostFails(m) \/ Refused(m) \/ Succeeds(m)

(* MSAL's calls over the network, which have none.                         *)
Msal(m) == MakeApp(m) \/ MakeAppFails(m) \/ FreshToken(m) \/ FreshTokenFails(m)

Graph(m) == GraphAccepts(m) \/ GraphReplies(m)

Next == \/ \E m \in Messages : Submit(m) \/ Own(m) \/ Msal(m) \/ Graph(m)
        \/ TokenExpires \/ Restart

Spec == Init /\ [][Next]_vars

(* The event loop runs while a session has something for it, and the POST  *)
(* ends when Graph is silent for 30 seconds.  Nothing is assumed of MSAL's *)
(* calls: ConfidentialClientApplication is made without a timeout.         *)
FairSpec == Spec /\ \A m \in Messages : WF_vars(Own(m))

-----------------------------------------------------------------------------
Outcomes == {"250", "550", "broken off"}

TypeOK ==
  /\ state \in [Messages -> {"new", "waiting", "handled"} \cup Outcomes]
  /\ pc \in {"idle", "app", "token", "post", "reply"}
  /\ app \in {"none", "ready"}
  /\ token \in BOOLEAN
  /\ reply \in {"none", "202", "2xx", "error"}
  /\ success \in Nat /\ failure \in Nat /\ refreshes \in Nat
  /\ posted \subseteq Messages
  /\ accepted \subseteq Messages /\ unclear \subseteq Messages
  /\ answered \subseteq Messages

(* One message is handled while send() is under way, none otherwise.       *)
OneAtATime ==
  Cardinality({m \in Messages : Handled(m)}) = (IF pc = "idle" THEN 0 ELSE 1)

(* A message reaches Graph once, when send() is at its POST, and a reply   *)
(* is looked at only by the call of send() whose POST it answers.          *)
PostedOnce ==
  /\ accepted \cup unclear \subseteq posted
  /\ \A m \in posted : /\ state[m] \notin {"new", "waiting"}
                       /\ Handled(m) => pc = "reply"
  /\ reply # "none" => pc = "reply"
  /\ \A m \in Messages : Handled(m) => /\ pc = "reply" => m \in posted
                                       /\ reply = "202" => m \in accepted
                                       /\ reply = "2xx" => m \in unclear

(* The counters that the sidecar exports agree with what Grafana was      *)
(* told since the process started: each 250 is counted once as a success,  *)
(* each 550 once as a failure - whichever of the three calls failed -      *)
(* except the messages that were refused before anything was tried.        *)
Accounting ==
  /\ success = Cardinality({m \in answered : state[m] = "250"})
  /\ failure = Cardinality({m \in answered \ Unreadable : state[m] = "550"})
  /\ success > 0 => refreshes > 0

IInv == TypeOK /\ OneAtATime /\ PostedOnce /\ Accounting

(* Grafana is told "queued for Graph delivery" only of a message that      *)
(* Graph has accepted - or answered with a 2xx that is not 202, which the  *)
(* code takes for a success too - whatever failed, was answered late or    *)
(* was restarted before.                                                   *)
NoFalseSuccess ==
  \A m \in Messages : state[m] = "250" => m \in accepted \cup unclear

(* The sidecar is a mail relay, as MailRelay has it: whatever fails, times *)
(* out or is restarted between taking a message and answering it, only the *)
(* message that is being submitted can be delivered without its sender's   *)
(* knowing, and what a sender was told is never unsaid.                    *)
Promise == INSTANCE MailRelay WITH
  told <- [m \in Messages |->
             CASE state[m] = "new" -> "unsent"
               [] state[m] \in {"waiting", "handled"} -> "sent"
               [] OTHER -> state[m]],
  handed <- posted, delivered <- accepted

ImplementsMailRelay == Promise!Spec

AskingMsal == \/ pc = "app" /\ app = "none"
              \/ pc = "token" /\ ~token

(* A message that Grafana has submitted is answered, or its connection is  *)
(* broken off: neither a failure of one message nor a Graph that does not  *)
(* answer holds up the messages behind it.  Except for a call of MSAL that *)
(* never ends, behind which all wait for ever.                             *)
EveryMessageAnswered ==
  []<>~AskingMsal =>
    \A m \in Messages : state[m] = "waiting" ~> state[m] \in Outcomes
=============================================================================
