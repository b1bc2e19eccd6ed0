----------------------------- MODULE CheckCycle -----------------------------
(***************************************************************************)
(* The check cycle of the exporter (monitor_exporter/exporter.py).         *)
(*                                                                         *)
(* run_all_checks() loads the enabled rows of monitored_system, one query  *)
(* per system type, then probes the loaded targets type by type, sets the  *)
(* up gauge of each and publishes its check result: the result's old label *)
(* set is removed, the new one is set.  main() runs it once before any     *)
(* server is started, then check_loop() runs it for ever, followed by the  *)
(* Blackbox log and the retention cleanup, and swallows what it raises.    *)
(* The admin UI edits the table and Prometheus scrapes the metrics between *)
(* any two steps.                                                          *)
(***************************************************************************)
EXTENDS Integers, Sequences

CONSTANTS
  Order,      \* the system types in the order they are loaded and checked
  InfoOnly,   \* types that publish a version only: {"VERSION"}
  UrlParsed,  \* types whose check parses the url itself: {"LDAP"}
  JsonObject, \* types whose check takes the answered JSON for an object
  FreeStatus, \* types that report the status answered: {"ELASTICSEARCH"}
  Systems,    \* system_ids
  Names,      \* display names
  Rows,       \* rows monitored_system may hold, as the loader looks at them
  Seeds,      \* catalogs to start from
  Ups, Downs, \* what a check may report of a target that is up, or down:
              \* the status and the error text
  MaxEdits,   \* bound: the admin UI commits so many statements
  MaxFaults   \* bound: so many loads fail, or kills happen

Types == {Order[i] : i \in DOMAIN Order}
N == Len(Order)

(* The address of a row: the url, or db_host and db_port. *)
Address == {"good", "malformed", "missing"}

NoRow == [type |-> "", display_name |-> "", is_enable |-> FALSE,
          address |-> "missing"]
Row == Rows \cup {NoRow}

ASSUME CheckCycleAssumption ==
  /\ Order \in Seq(STRING) /\ N > 0
  /\ \A i, j \in DOMAIN Order : Order[i] = Order[j] => i = j
  /\ Rows \subseteq [type : STRING, display_name : Names,
                     is_enable : BOOLEAN, address : Address]
  /\ Seeds \subseteq [Systems -> Row]
  /\ MaxEdits \in Nat /\ MaxFaults \in Nat

VARIABLES
  catalog,    \* monitored_system: the row of each system, or NoRow
  process,    \* "starting" (in main's first run), "serving" or "crashed"
  pc,         \* where the checking thread is
  at,         \* index in Order of the type being loaded or checked
  targets,    \* targets[i]: what was loaded for Order[i], less what is done
  current,    \* the target being reported, with its outcome
  gauges,     \* samples of the monitor_*_up gauges
  results,    \* label sets of CHECK_RESULT
  previous,   \* _previous_check_labels
  halfway,    \* history: checks whose gauge is set and whose result is not
  edits,      \* statements committed so far (for the bound only)
  faults,     \* loads failed, or kills, so far (for the bound only)
  settled,    \* history: systems not edited since the cycle began
  calm,       \* history: no load failed since the cycle began
  checked     \* history: how often each system was probed in this cycle

environment == <<catalog, edits>>
metrics     == <<gauges, results, previous, halfway>>
history     == <<settled, calm, checked>>
vars == <<environment, process, pc, at, targets, current, metrics, faults,
          history>>

Outcomes == Ups \cup Downs
Target == [system_id : Systems, display_name : Names,
           address : Address \ {"missing"}]
Report == [system_id : Systems, display_name : Names, check_type : Types,
           outcome : Outcomes]
NoReport == [system_id |-> "", display_name |-> "", check_type |-> "",
             outcome |-> ""]

(* The loader's WHERE clause and _shape_target(): enabled rows of the type *)
(* that have the columns the type needs.                                   *)
Due(cat, s, t) == /\ cat[s].type = t
                  /\ cat[s].is_enable
                  /\ cat[s].address # "missing"

Load(cat, t) ==
  {[system_id |-> s, display_name |-> cat[s].display_name,
    address |-> cat[s].address] : s \in {u \in Systems : Due(cat, u, t)}}

Init ==
  /\ catalog \in Seeds
  /\ process = "starting"
  /\ pc = "count"
  /\ at = 1
  /\ targets = [i \in 1..N |-> {}]
  /\ current = NoReport
  /\ gauges = {}
  /\ results = {}
  /\ previous = [s \in Systems |-> [t \in Types |-> NoReport]]
  /\ halfway = {}
  /\ edits = 0
  /\ faults = 0
  /\ settled = Systems
  /\ calm = TRUE
  /\ checked = [s \in Systems |-> 0]

(* One autocommitted statement of the admin UI, which main() starts in this *)
(* process after the first run.                                            *)
Edit(s) ==
  /\ process = "serving"
  /\ edits < MaxEdits
  /\ edits' = edits + 1
  /\ \E row \in Row \ {catalog[s]} : catalog' = [catalog EXCEPT ![s] = row]
  /\ settled' = settled \ {s}
  /\ UNCHANGED <<process, pc, at, targets, current, metrics, faults, calm,
                 checked>>

(***************************************************************************)
(* Control of a cycle.                                                     *)
(***************************************************************************)

(* run_all_checks() starts over with the first type. *)
BeginCycle ==
  /\ pc' = "load"
  /\ at' = 1
  /\ settled' = Systems
  /\ calm' = TRUE
  /\ checked' = [s \in Systems |-> 0]

(* An exception leaves run_all_checks(): check_loop() logs it and goes to  *)
(* sleep; main() does not catch it and the process ends.                   *)
Escapes ==
  IF process = "starting"
  THEN process' = "crashed" /\ pc' = "down"
  ELSE pc' = "sleep" /\ UNCHANGED process

(* main() counts the targets of four types for EXPORTER_INFO first. *)
Count ==
  /\ pc = "count"
  /\ BeginCycle
  /\ UNCHANGED <<environment, process, targets, current, metrics, faults>>

CountRaises ==
  /\ pc = "count"
  /\ faults < MaxFaults /\ faults' = faults + 1
  /\ Escapes
  /\ UNCHANGED <<environment, at, targets, current, metrics, history>>

(* The supervisor starts the container again; memory is empty. *)
Restart ==
  /\ process = "crashed"
  /\ process' = "starting"
  /\ pc' = "count"
  /\ at' = 1
  /\ targets' = [i \in 1..N |-> {}]
  /\ current' = NoReport
  /\ gauges' = {} /\ results' = {}
  /\ previous' = [s \in Systems |-> [t \in Types |-> NoReport]]
  /\ halfway' = {}
  /\ UNCHANGED <<environment, faults, history>>

(* The process is killed, at any instruction. *)
Killed ==
  /\ process # "crashed"
  /\ faults < MaxFaults /\ faults' = faults + 1
  /\ process' = "crashed" /\ pc' = "down"
  /\ UNCHANGED <<environment, at, targets, current, metrics, history>>

(***************************************************************************)
(* Loading: one connection and one query per type, all before any probe.   *)
(***************************************************************************)

(* BUG VARIANT of NextLoad: one load too many. *)
NextLoadPastEnd == IF at =< N THEN pc' = "load" /\ at' = at + 1
                              ELSE pc' = "check" /\ at' = 1

(* BUG VARIANT of NextLoad: the last type is not loaded. *)
NextLoadForgetsLast == IF at < N - 1 THEN pc' = "load" /\ at' = at + 1
                                     ELSE pc' = "check" /\ at' = 1

NextLoad == IF at < N THEN pc' = "load" /\ at' = at + 1
                      ELSE pc' = "check" /\ at' = 1

LoadType ==
  /\ pc = "load"
  /\ targets' = [targets EXCEPT ![at] = Load(catalog, Order[at])]
  /\ NextLoad
  /\ UNCHANGED <<environment, process, current, metrics, faults, history>>

(* connect() fails: the type has no targets in this cycle. *)
LoadCannotConnect ==
  /\ pc = "load"
  /\ faults < MaxFaults /\ faults' = faults + 1
  /\ targets' = [targets EXCEPT ![at] = {}]
  /\ NextLoad
  /\ calm' = FALSE
  /\ UNCHANGED <<environment, process, current, metrics, settled, checked>>

(* The connection is there but the query fails: nothing catches it. *)
LoadRaises ==
  /\ pc = "load"
  /\ faults < MaxFaults /\ faults' = faults + 1
  /\ Escapes
  /\ calm' = FALSE
  /\ UNCHANGED <<environment, at, targets, current, metrics, settled,
                 checked>>

(***************************************************************************)
(* Checking.                                                               *)
(***************************************************************************)
Type == Order[at]

(* The next type once this one's targets are done. *)
NextType ==
  /\ pc = "check"
  /\ targets[at] = {}
  /\ at < N
  /\ at' = at + 1
  /\ UNCHANGED <<environment, process, pc, targets, current, metrics, faults,
                 history>>

(* BUG VARIANT of StartServing: the first run is repeated for a result. *)
StartServingWithResults ==
  /\ pc = "check" /\ process = "starting"
  /\ targets[at] = {} /\ at = N
  /\ process' = IF results = {} THEN "starting" ELSE "serving"
  /\ BeginCycle
  /\ UNCHANGED <<environment, targets, current, metrics, faults>>

(* The last type is done.  main() starts the servers and the loop, whose   *)
(* first cycle follows at once; check_loop() goes on to its log.           *)
StartServing ==
  /\ pc = "check" /\ process = "starting"
  /\ targets[at] = {} /\ at = N
  /\ process' = "serving"
  /\ BeginCycle
  /\ UNCHANGED <<environment, targets, current, metrics, faults>>

EndCycle ==
  /\ pc = "check" /\ process = "serving"
  /\ targets[at] = {} /\ at = N
  /\ pc' = "post"
  /\ UNCHANGED <<environment, process, at, targets, current, metrics, faults,
                 history>>

Counted(s) == checked' = [checked EXCEPT ![s] = @ + 1]

SameSeries(a, b) == /\ a.system_id = b.system_id
                    /\ a.display_name = b.display_name
                    /\ a.check_type = b.check_type

(* urlparse(url).port raises for a malformed port, outside any try. *)
Unparsable(t) == Type \in UrlParsed /\ t.address = "malformed"

(* A probe answers, or does not, and the up gauge of its labels is set.    *)
Probe(t, o) ==
  /\ pc = "check"
  /\ Type \notin InfoOnly
  /\ ~Unparsable(t)
  /\ LET r == [system_id |-> t.system_id, display_name |-> t.display_name,
               check_type |-> Type, outcome |-> o]
     IN  /\ current' = r
         /\ gauges' = {g \in gauges : ~SameSeries(g, r)} \cup
                      {[system_id |-> t.system_id,
                        display_name |-> t.display_name,
                        check_type |-> Type, up |-> (o \in Ups)]}
  /\ halfway' = halfway \cup {<<t.system_id, Type>>}
  /\ pc' = "report"
  /\ targets' = [targets EXCEPT ![at] = @ \ {t}]
  /\ Counted(t.system_id)
  /\ UNCHANGED <<environment, process, at, results, previous, faults,
                 settled, calm>>

(* A version probe publishes a version, or nothing. *)
ProbeVersion(t) ==
  /\ pc = "check"
  /\ Type \in InfoOnly
  /\ targets' = [targets EXCEPT ![at] = @ \ {t}]
  /\ Counted(t.system_id)
  /\ UNCHANGED <<environment, process, pc, at, current, metrics, faults,
                 settled, calm>>

(* The check of a target raises and no one below run_all_checks() catches  *)
(* it: an LDAP url cannot be parsed, or a Keycloak, version or             *)
(* Elasticsearch endpoint answers JSON without .get().                     *)
ProbeRaises(t) ==
  /\ pc = "check"
  /\ Unparsable(t) \/ Type \in JsonObject
  /\ Escapes
  /\ UNCHANGED <<environment, at, targets, current, metrics, faults, history>>

(* The status an Elasticsearch answered is the result's error text; if it  *)
(* is no string, _set_check_result() raises before it touches a label set. *)
ReportRaises ==
  /\ pc = "report"
  /\ current.check_type \in FreeStatus
  /\ Escapes
  /\ UNCHANGED <<environment, at, targets, current, metrics, faults, history>>

(* What was last published for a system and check; .get(key).              *)
Last == previous[current.system_id][current.check_type]

(* BUG VARIANT of Retired: the old label set is never removed. *)
NothingRetired == {}

(* The label set a new report replaces, if it differs. *)
Retired == {Last} \ {current}

(* _set_check_result(): the row for Postgres is written (or lost), then    *)
(* the old label set is removed...                                         *)
RemoveOld ==
  /\ pc = "report"
  /\ results' = results \ Retired
  /\ pc' = "set"
  /\ UNCHANGED <<environment, process, at, targets, current, gauges,
                 previous, halfway, faults, history>>

(* BUG VARIANT of Published: a series is made for the first result only. *)
PublishedOnce == IF Last = NoReport THEN {current} ELSE {}

Published == {current}

(* ... and, in a later instruction that a scrape may precede, the new set. *)
SetNew ==
  /\ pc = "set"
  /\ results' = results \cup Published
  /\ previous' = [previous EXCEPT ![current.system_id][current.check_type] =
                               current]
  /\ halfway' = halfway \ {<<current.system_id, current.check_type>>}
  /\ pc' = "check"
  /\ UNCHANGED <<environment, process, at, targets, current, gauges, faults,
                 history>>

(* log_blackbox_results() and run_cleanup(): neither lets anything out. *)
LogAndCleanUp ==
  /\ pc = "post"
  /\ pc' = "sleep"
  /\ UNCHANGED <<environment, process, at, targets, current, metrics, faults,
                 history>>

(* time.sleep(interval) is over. *)
WakeUp ==
  /\ pc = "sleep"
  /\ BeginCycle
  /\ UNCHANGED <<environment, process, targets, current, metrics, faults>>

ProbeOne == \E t \in targets[at] :
              \/ \E o \in Outcomes : Probe(t, o)
              \/ ProbeVersion(t)

ProbeOneRaises == \E t \in targets[at] : ProbeRaises(t)

Advance ==
  \/ Count \/ LoadType \/ NextType \/ StartServing \/ EndCycle \/ ProbeOne
  \/ RemoveOld \/ SetNew \/ LogAndCleanUp \/ WakeUp \/ Restart

Next ==
  \/ Advance
  \/ CountRaises \/ LoadCannotConnect \/ LoadRaises \/ ProbeOneRaises
  \/ ReportRaises \/ Killed
  \/ \E s \in Systems : Edit(s)

Spec == Init /\ [][Next]_vars

(* The checking thread runs, to an exception where it must: every call it  *)
(* makes has a timeout, and the supervisor restarts the process.           *)
FairSpec == Spec /\ WF_vars(Advance \/ ProbeOneRaises \/ ReportRaises)

-----------------------------------------------------------------------------
(***************************************************************************)
(* Properties                                                              *)
(***************************************************************************)
Reporting == pc \in {"report", "set"}

TypeOK ==
  /\ catalog \in [Systems -> Row]
  /\ process \in {"starting", "serving", "crashed"}
  /\ pc \in {"count", "load", "check", "report", "set", "post", "sleep",
             "down"}
  /\ at \in 1..N
  /\ targets \in [1..N -> SUBSET Target]
  /\ current \in Report \cup {NoReport}
  /\ Reporting => current \in Report
  /\ gauges \subseteq [system_id : Systems, display_name : Names,
                       check_type : Types, up : BOOLEAN]
  /\ results \subseteq Report
  /\ previous \in [Systems -> [Types -> Report \cup {NoReport}]]
  /\ halfway \subseteq Systems \X Types
  /\ edits \in Nat /\ faults \in Nat
  /\ settled \subseteq Systems
  /\ calm \in BOOLEAN
  /\ checked \in [Systems -> Nat]

(* Whenever Prometheus scrapes, a check of a system has one result at most *)
(* - never UP and DOWN, or an old name and a new one, side by side.        *)
OneResultPerCheck ==
  \A a, b \in results :
    a.system_id = b.system_id /\ a.check_type = b.check_type => a = b

(* The up gauge has one sample with a report's labels, and it agrees.      *)
GaugeSays(r) ==
  /\ \E g \in gauges : SameSeries(g, r)
  /\ \A g \in gauges : SameSeries(g, r) => g.up = (r.outcome \in Ups)

(* Unless its report is, or was left, half done, the last result of every  *)
(* check is published and the up gauge of its labels says the same.        *)
ResultsAgreeWithGauges ==
  \A s \in Systems, t \in Types :
    LET r == previous[s][t] IN
      r # NoReport /\ <<s, t>> \notin halfway => r \in results /\ GaugeSays(r)


(* A cycle that ends and in which no load failed has checked each system   *)
(* that was not edited meanwhile once if it is due, and not at all if it   *)
(* is disabled, incomplete or deleted.                                     *)
CycleCoversCatalog ==
  pc = "post" /\ calm =>
    \A s \in settled :
      checked[s] = IF \E t \in Types : Due(catalog, s, t) THEN 1 ELSE 0

(* Changes take effect: a system that is due from some time on is checked  *)
(* in cycle after cycle.  Comment at exporter.py:959-961.                  *)
CheckedForEver(s) == []<>(checked[s] = 0) /\ []<>(checked[s] > 0)
StaysDue(s) == <>[](/\ \E t \in Types : Due(catalog, s, t)
                    /\ catalog[s].address = "good")
ChangesTakeEffect == \A s \in Systems : StaysDue(s) => CheckedForEver(s)

(* They do where checks stop raising in the end, whatever loads fail and   *)
(* whenever the process is killed meanwhile.                               *)
ChecksReturn == <>[][~(ProbeOneRaises \/ ReportRaises)]_vars
ChangesTakeEffectUnlessRaising ==
  \A s \in Systems : ChecksReturn /\ StaysDue(s) => CheckedForEver(s)

(* A process that was killed, or that a check has ended in main()'s first  *)
(* run, serves the metrics and the admin UI again, if checks stop raising: *)
(* whatever is in the catalog, and also if nothing is.                     *)
ServesAgain == ChecksReturn => []<>(process = "serving")

-----------------------------------------------------------------------------
(***************************************************************************)
(* The inductive invariants behind OneResultPerCheck and                   *)
(* ResultsAgreeWithGauges, and behind CycleCoversCatalog                   *)
(***************************************************************************)
(* A result that is published is the last one of its check. *)
PublishedIsLast ==
  \A r \in results : previous[r.system_id][r.check_type] = r

(* What is last for a system and check is a report of that system and      *)
(* check.                                                                  *)
LastIsOwn ==
  \A s \in Systems, t \in Types :
    previous[s][t] # NoReport =>
      previous[s][t].system_id = s /\ previous[s][t].check_type = t

(* The report in progress has set its gauge.  Before it is published the   *)
(* result it replaces is gone.                                             *)
ReportInProgress ==
  /\ Reporting => /\ GaugeSays(current)
                  /\ <<current.system_id, current.check_type>> \in halfway
  /\ pc = "set" /\ Last \in results => Last = current

MetricsInv ==
  TypeOK /\ PublishedIsLast /\ LastIsOwn /\ ReportInProgress
         /\ ResultsAgreeWithGauges

(* The cycle has loaded the types before `at` (while it loads), or has     *)
(* finished them (while it checks).                                        *)
Loading  == pc = "load"
Checking == pc \in {"check", "report", "set", "post"}

(* s still has a target for Order[i]. *)
Pending(s, i) == \E t \in targets[i] : t.system_id = s

(* The one target a settled system may have: what its row says. *)
TargetOf(s) == [system_id |-> s, display_name |-> catalog[s].display_name,
                address |-> catalog[s].address]

LoadedFaithfully ==
  Loading /\ calm =>
    \A s \in settled :
      /\ checked[s] = 0
      /\ \A i \in 1..(at - 1) :
           /\ Pending(s, i) <=> Due(catalog, s, Order[i])
           /\ \A t \in targets[i] : t.system_id = s => t = TargetOf(s)

CheckedFaithfully ==
  Checking /\ calm =>
    \A s \in settled :
      /\ \A i \in 1..N :
           \A t \in targets[i] :
             t.system_id = s => t = TargetOf(s) /\ Due(catalog, s, Order[i])
      /\ \A i \in 1..N :
           Due(catalog, s, Order[i]) =>
             checked[s] = IF Pending(s, i) THEN 0 ELSE 1
      /\ (\A i \in 1..N : ~Due(catalog, s, Order[i])) => checked[s] = 0

FinishedIsEmpty ==
  /\ Checking => \A i \in 1..(at - 1) : targets[i] = {}
  /\ pc = "post" => at = N /\ targets[N] = {}

CoverageInv ==
  TypeOK /\ LoadedFaithfully /\ CheckedFaithfully /\ FinishedIsEmpty

IInv == MetricsInv /\ CoverageInv
=============================================================================
