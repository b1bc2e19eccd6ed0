------------------------------- MODULE Probes -------------------------------
(***************************************************************************)
(* What the checks of monitor_exporter/exporter.py make of an answer.      *)
(*                                                                         *)
(* CheckCycle leaves the outcome of a check open: a target that is up or   *)
(* down, no report, or an exception.  Here it is a function of what the    *)
(* server does, check by check, and it is shown that CheckCycle foresees   *)
(* all of it, and when a report is not the truth.                          *)
(***************************************************************************)
EXTENDS CheckCycle

(* What comes of a check: a report, with the text that becomes the error   *)
(* of its label set; no report; an exception that leaves the cycle.        *)
Up(text)   == [kind |-> "report", up |-> TRUE, text |-> text]
Down(text) == [kind |-> "report", up |-> FALSE, text |-> text]
Nothing    == [kind |-> "nothing", up |-> FALSE, text |-> ""]
Raises     == [kind |-> "raises", up |-> FALSE, text |-> ""]

-----------------------------------------------------------------------------
(***************************************************************************)
(* The checks of a host and port                                           *)
(***************************************************************************)

(* A server takes the connection or does not, sends some bytes, perhaps    *)
(* none, and then closes it or waits.                                      *)
Unreachable == [accepts |-> FALSE, sends |-> <<>>, closes |-> FALSE]
Mute(closes) == [accepts |-> TRUE, sends |-> <<>>, closes |-> closes]
Sends(bytes) == [accepts |-> TRUE, sends |-> bytes, closes |-> FALSE]

(* What sock.recv() may return: a stream may be cut anywhere.              *)
TimedOut == <<"timeout">>
Received(server) ==
  IF server.sends # <<>>
  THEN {SubSeq(server.sends, 1, n) : n \in 1..Len(server.sends)}
  ELSE IF server.closes THEN {<<>>} ELSE {TimedOut}

StartsWith(data, word) ==
  Len(data) >= Len(word) /\ SubSeq(data, 1, Len(word)) = word

(* extract_mysql_version_from_greeting(): four bytes of header, one for    *)
(* the protocol, then the version up to a NUL.  data.index() raises where  *)
(* there is none; the function catches it.                                 *)
Nul == "NUL"
Greeting(data) ==
  IF data = TimedOut THEN Down("timeout")
  ELSE IF Len(data) < 5 \/ \E i \in 6..Len(data) : data[i] = Nul THEN Up("")
  ELSE Down("none")

(* BUG VARIANT of Startup: no reply is no sign of trouble. *)
StartupOrEnd(reply) ==
  IF reply = <<>> \/ reply[1] \in {"R", "E", "N"} THEN Up("") ELSE Down("reply")

(* check_postgres(): an authentication request, an error or a notice.      *)
Startup(reply) ==
  IF reply # <<>> /\ reply[1] \in {"R", "E", "N"} THEN Up("") ELSE Down("reply")

Pong   == <<"+", "P", "O", "N", "G">>
NoAuth == <<"-", "N", "O", "A", "U", "T", "H">>

(* check_redis() *)
Ping(reply) == IF StartsWith(reply, Pong) \/ StartsWith(reply, NoAuth)
               THEN Up("") ELSE Down("reply")

(* check_mongodb() is done when it is connected. *)
Spoken(t, data) == CASE t = "DATABASE" -> Greeting(data)
                     [] t = "POSTGRES" -> Startup(data)
                     [] t = "REDIS"    -> Ping(data)
                     [] t = "MONGODB"  -> Up("")

HostPort == {"DATABASE", "POSTGRES", "REDIS", "MONGODB"}

SocketResults(t, server) ==
  IF server.accepts THEN {Spoken(t, data) : data \in Received(server)}
                    ELSE {Down("refused")}

-----------------------------------------------------------------------------
(***************************************************************************)
(* The checks of a url                                                     *)
(***************************************************************************)

(* Of an answer to a GET, the checks look at the code, at what the body    *)
(* is, and, if it is a JSON object, at the value of one field - the        *)
(* status, the realm, or the field of a version strategy.                  *)
Missing == "missing"
Number  == "number"   \* something true that is no text
Values  == {Missing, Number, "", "green", "yellow", "red", "unknown"}
Bodies  == {"garbage", "null", "list", "object"}
Answer  == [code : {200, 503}, body : Bodies, value : Values]
NoAnswer == [code |-> 0, body |-> "garbage", value |-> Missing]

(* check_elasticsearch(), run_elasticsearch_checks() *)
ClusterHealth(a) ==
  CASE a.code # 200 \/ a.body = "garbage" -> Down("error")
    [] a.code = 200 /\ a.body \in {"null", "list"} -> Raises
    [] a.code = 200 /\ a.body = "object" ->
         LET status == IF a.value = Missing THEN "unknown" ELSE a.value
         IN  IF status \in {"green", "yellow", "red"} THEN Up(status)
                                                      ELSE Down(status)

(* check_keycloak(); the realm is another gauge's. *)
Realm(a) ==
  CASE a.code # 200 -> Down("error")
    [] a.code = 200 /\ a.body = "garbage" -> Up("invalid")
    [] a.code = 200 /\ a.body \in {"null", "list"} -> Raises
    [] a.code = 200 /\ a.body = "object" -> Up("")

(* _fetch_version_json(), which gives None for a failure as for a null, and *)
(* the strategies.                                                         *)
VersionOf(a) ==
  IF a.code = 200 /\ a.body = "list" THEN Raises ELSE Nothing

(* check_ldap(): a bind that is refused, in a reply or by an exception, is  *)
(* a sign of life; all exceptions are caught but those of the url's        *)
(* parsing, which are CheckCycle's Unparsable().                           *)
Binds == {"bound", "rejected", "LDAPBindError", "OSError", "Exception"}

(* BUG VARIANT of Bind: what is no LDAP error gets out. *)
BindOrRaise(b) == CASE b \in {"bound", "rejected", "LDAPBindError"} -> Up("")
                    [] b = "OSError" -> Down("error")
                    [] OTHER -> Raises

Bind(b) == IF b \in {"bound", "rejected", "LDAPBindError"}
           THEN Up("") ELSE Down("error")

UrlTypes == {"LDAP", "KEYCLOAK", "VERSION", "ELASTICSEARCH"}

UrlResults(t) ==
  LET answers == Answer \cup {NoAnswer}
  IN  CASE t = "LDAP"          -> {Bind(b) : b \in Binds}
        [] t = "KEYCLOAK"      -> {Realm(a) : a \in answers}
        [] t = "VERSION"       -> {VersionOf(a) : a \in answers}
        [] t = "ELASTICSEARCH" -> {ClusterHealth(a) : a \in answers}

-----------------------------------------------------------------------------
(***************************************************************************)
(* Properties                                                              *)
(***************************************************************************)

RaisingTypes == {t \in UrlTypes : Raises \in UrlResults(t)}
StatusTypes  == {t \in UrlTypes : Down(Number) \in UrlResults(t)}
MuteTypes    == {t \in UrlTypes : \A r \in UrlResults(t) : r.kind # "report"}

(* Nothing comes of a check that the cycle does not foresee: it raises on  *)
(* a JSON answer that is no object, reports a status that is no text, or   *)
(* reports nothing, where and only where the cycle takes it into account.  *)
ProbesAreForeseen ==
  pc \in {"check", "report"} =>
    /\ JsonObject = RaisingTypes
    /\ FreeStatus = StatusTypes
    /\ InfoOnly = MuteTypes

(* What servers say that speak the protocol and are well. *)
Speaks ==
  [DATABASE |-> {<<"h", "h", "h", "h", "10", "1", "1", Nul, "id", Nul>>},
   POSTGRES |-> {<<"R", "0", "0">>, <<"E", "0", "0">>},
   REDIS    |-> {Pong \o <<"CR">>, NoAuth \o <<"SP", "A">>},
   MONGODB  |-> {}]

SpeakersAreUp ==
  \A t \in HostPort : \A said \in Speaks[t] : \A data \in Received(Sends(said)) :
    \/ Spoken(t, data).up
    \/ t = "DATABASE" /\ Len(data) \in 5..7
    \/ t = "REDIS" /\ Len(data) < (IF said[1] = "+" THEN 5 ELSE 7)

SilentAreDown ==
  \A t \in HostPort :
    /\ \A r \in SocketResults(t, Unreachable) : ~r.up
    /\ \A hangs_up \in BOOLEAN : \A r \in SocketResults(t, Mute(hangs_up)) :
         r.up <=> t = "MONGODB" \/ (t = "DATABASE" /\ hangs_up)

(* However TCP cuts the stream, who speaks the protocol is up - unless the *)
(* first segment of a greeting or of a Redis reply is cut short, of which  *)
(* the check reads no more.  And who says nothing is not - unless it is a  *)
(* MongoDB, which is not asked, or a MySQL that hangs up.                  *)
AliveIsUpAndDeadIsDown == pc = "check" => SpeakersAreUp /\ SilentAreDown
=============================================================================
