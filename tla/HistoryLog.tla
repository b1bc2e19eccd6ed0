----------------------------- MODULE HistoryLog -----------------------------
(***************************************************************************)
(* The health check log: HealthCheckLogger of monitor_exporter/exporter.py *)
(* on top of the catalog (module Catalog).                                 *)
(*                                                                         *)
(* The checking thread writes a row of health_check_history for every      *)
(* check, one by one for the systems it probes itself (log_check), in one  *)
(* batch for those Prometheus probes (log_check_batch), and then deletes   *)
(* the rows past retention, once per interval (run_cleanup).  A row refers *)
(* to the primary key of its system; the logger remembers the keys it has  *)
(* looked up, for as long as the process lives.  The admin UI creates,     *)
(* edits and deletes systems between any two statements.                   *)
(***************************************************************************)
EXTENDS Integers

CONSTANTS
  SystemIds,  \* values of monitored_system.system_id
  LabNames,   \* lab names, for the catalog
  Threads,    \* Flask request threads
  Probed,     \* systems the exporter probes itself, as long as they exist
  Blackbox,   \* systems Prometheus probes, as long as they exist
  Retention,  \* retention_days, in ticks
  Interval,   \* cleanup_interval_hours, in ticks
  MaxId,      \* bound: the sequences stop here
  MaxClock,   \* bound: the clock stops here
  MaxFaults   \* bound: so many statements fail and processes end

ASSUME HistoryLogAssumption ==
  /\ Probed \subseteq SystemIds /\ Blackbox \subseteq SystemIds
  /\ Retention \in Nat /\ Interval \in Nat
  /\ MaxId \in Nat \ {0} /\ MaxClock \in Nat /\ MaxFaults \in Nat

VARIABLES
  systems, system_seq, labs, lab_seq,  \* the catalog's tables
  pc, pk, name, unused,                \* and the admin UI's handlers
  clock,        \* NOW() and time.time()
  history,      \* the rows of health_check_history
  cache,        \* _system_id_cache; 0: not in it
  last_cleanup, \* _last_cleanup
  serving,      \* the first run of checks is over and check_loop() runs
  at,           \* where the checking thread is
  todo,         \* systems it still has to log in this cycle
  row,          \* log_check(): the key and the system to be inserted
  rows,         \* log_check_batch(): the same, collected
  targets,      \* the systems Prometheus has discovered
  faults,       \* statements failed, processes ended (for the bound only)
  logged,       \* history: systems logged since the cycle began
  overdue       \* history: the last cleanup attempted has failed

logger  == <<serving, cache, last_cleanup, at, todo, row, rows, logged,
             overdue>>
catalog == <<systems, system_seq, labs, lab_seq, pc, pk, name, unused>>
vars    == <<catalog, clock, history, logger, targets, faults>>

(* What the foreign key of health_check_history refers to. *)
Referenced == {h.system : h \in history}

C == INSTANCE Catalog WITH referenced <- Referenced

SystemIdsOf(rws) == {r.system_id : r \in rws}

NoRow == [system |-> 0, checked |-> ""]

(* time.time() is far past the epoch, where _last_cleanup starts: the      *)
(* first cleanup of a process is due.                                      *)
Init ==
  /\ history = {}
  /\ C!Init
  /\ clock = Interval
  /\ cache = [s \in SystemIds |-> 0]
  /\ last_cleanup = 0
  /\ serving = FALSE
  /\ at = "sleep"
  /\ todo = {} /\ row = NoRow /\ rows = {}
  /\ targets = {}
  /\ faults = 0
  /\ logged = {} /\ overdue = FALSE

Fault == faults < MaxFaults /\ faults' = faults + 1

(***************************************************************************)
(* The environment.                                                        *)
(***************************************************************************)
Tick ==
  /\ clock < MaxClock
  /\ clock' = clock + 1
  /\ UNCHANGED <<catalog, history, logger, targets, faults>>

(* main() starts the admin UI in this process after the first run. *)
AdminStep ==
  /\ serving
  /\ UNCHANGED <<clock, history, logger, targets, faults>>
  /\ C!Admin

(* Prometheus refreshes its targets from the SD endpoints. *)
Discover ==
  /\ targets' = SystemIdsOf(systems) \cap Blackbox
  /\ UNCHANGED <<catalog, clock, history, logger, faults>>

(* The process ends at any moment and is started again. *)
Restart ==
  /\ Fault
  /\ cache' = [s \in SystemIds |-> 0]
  /\ last_cleanup' = 0
  /\ serving' = FALSE
  /\ at' = "sleep"
  /\ todo' = {} /\ row' = NoRow /\ rows' = {}
  /\ UNCHANGED <<clock, history, targets, logged, overdue>>
  /\ C!ProcessEnds

(***************************************************************************)
(* log_check(), for the systems the exporter has loaded and probed.        *)
(***************************************************************************)
WakeUp ==
  /\ at = "sleep"
  /\ at' = "single"
  /\ todo' = SystemIdsOf(systems) \cap Probed
  /\ logged' = {}
  /\ UNCHANGED <<catalog, clock, serving, history, cache, last_cleanup, row, rows,
                 targets, faults, overdue>>

(* _get_system_pk(): from the cache, else from the table; 0 is None. *)
Key(s) ==
  IF cache[s] # 0 THEN cache[s]
  ELSE IF s \in SystemIdsOf(systems)
       THEN (CHOOSE r \in systems : r.system_id = s).id
       ELSE 0

(* A key is remembered; that there is none is not. *)
Remember(s) == cache' = [cache EXCEPT ![s] = Key(s)]

LookUp(s) ==
  /\ at = "single"
  /\ s \in todo
  /\ todo' = todo \ {s}
  /\ Remember(s)
  /\ IF Key(s) = 0 THEN UNCHANGED <<at, row>>
     ELSE at' = "insert" /\ row' = [system |-> Key(s), checked |-> s]
  /\ UNCHANGED <<catalog, clock, serving, history, last_cleanup, rows, targets, faults,
                 logged, overdue>>

(* connect() or the lookup fails; nothing is logged. *)
LookUpFails(s) ==
  /\ Fault
  /\ at = "single"
  /\ s \in todo
  /\ todo' = todo \ {s}
  /\ UNCHANGED <<catalog, clock, serving, history, cache, last_cleanup, at, row, rows,
                 targets, logged, overdue>>

(* An INSERT of rows that refer to systems that exist. *)
Inserted(rws) == {[system |-> r.system, checked |-> r.checked,
                   time |-> clock] : r \in rws}

(* BUG VARIANT of Accepted: the table has no foreign key. *)
AcceptedAlways(rws) == TRUE

Accepted(rws) == \A r \in rws : r.system \in C!IdsOf(systems)

Log(rws) ==
  IF Accepted(rws)
  THEN /\ history' = history \cup Inserted(rws)
       /\ logged' = logged \cup {r.checked : r \in rws}
  ELSE UNCHANGED <<history, logged>>

(* A refused or failed INSERT is swallowed. *)
Insert ==
  /\ at = "insert"
  /\ at' = "single"
  /\ Log({row})
  /\ row' = NoRow
  /\ UNCHANGED <<catalog, clock, serving, cache, last_cleanup, todo, rows, targets,
                 faults, overdue>>

InsertFails ==
  /\ Fault
  /\ at = "insert"
  /\ at' = "single"
  /\ row' = NoRow
  /\ UNCHANGED <<catalog, clock, serving, history, cache, last_cleanup, todo, rows,
                 targets, logged, overdue>>

(***************************************************************************)
(* log_blackbox_results() and log_check_batch().                           *)
(***************************************************************************)

(* main(): the first run is followed by neither batch nor cleanup. *)
StartServing ==
  /\ at = "single" /\ ~serving
  /\ todo = {}
  /\ serving' = TRUE
  /\ at' = "sleep"
  /\ UNCHANGED <<catalog, clock, history, cache, last_cleanup, todo, row, rows,
                 targets, faults, logged, overdue>>

(* BUG VARIANT of QueryPrometheus: no result has a system_id label. *)
QueryPrometheusUnlabelled ==
  /\ at = "single" /\ serving
  /\ todo = {}
  /\ at' = "batch"
  /\ todo' = {}
  /\ UNCHANGED <<catalog, clock, serving, history, cache, last_cleanup, row,
                 rows, targets, faults, logged, overdue>>

(* Prometheus answers with a result for each of its targets. *)
QueryPrometheus ==
  /\ at = "single" /\ serving
  /\ todo = {}
  /\ at' = "batch"
  /\ todo' = targets
  /\ UNCHANGED <<catalog, clock, serving, history, cache, last_cleanup, row, rows,
                 targets, faults, logged, overdue>>

(* run_all_checks() lets an exception out; the rest of the cycle is lost. *)
CycleAborts ==
  /\ Fault
  /\ at = "single" /\ serving
  /\ at' = "sleep"
  /\ todo' = {}
  /\ UNCHANGED <<catalog, clock, serving, history, cache, last_cleanup, row,
                 rows, targets, logged, overdue>>

(* Prometheus does not answer: there is no batch. *)
QueryFails ==
  /\ Fault
  /\ at = "single" /\ serving
  /\ todo = {}
  /\ at' = "cleanup"
  /\ UNCHANGED <<catalog, clock, serving, history, cache, last_cleanup, todo, row,
                 rows, targets, logged, overdue>>

BatchLookUp(s) ==
  /\ at = "batch"
  /\ s \in todo
  /\ todo' = todo \ {s}
  /\ Remember(s)
  /\ rows' = IF Key(s) = 0 THEN rows
             ELSE rows \cup {[system |-> Key(s), checked |-> s]}
  /\ UNCHANGED <<catalog, clock, serving, history, last_cleanup, at, row, targets,
                 faults, logged, overdue>>

(* executemany() sends the rows as one implicit transaction: one that is   *)
(* refused takes the others with it.                                       *)
BatchInsert ==
  /\ at = "batch"
  /\ todo = {}
  /\ at' = "cleanup"
  /\ Log(rows)
  /\ rows' = {}
  /\ UNCHANGED <<catalog, clock, serving, cache, last_cleanup, todo, row, targets,
                 faults, overdue>>

(* connect(), a lookup or the INSERT fails: the whole batch is lost. *)
BatchFails ==
  /\ Fault
  /\ at = "batch"
  /\ at' = "cleanup"
  /\ todo' = {} /\ rows' = {}
  /\ UNCHANGED <<catalog, clock, serving, history, cache, last_cleanup, row, targets,
                 logged, overdue>>

(***************************************************************************)
(* run_cleanup()                                                           *)
(***************************************************************************)
CleanupDue == clock - last_cleanup >= Interval

SkipCleanup ==
  /\ at = "cleanup"
  /\ ~CleanupDue
  /\ at' = "sleep"
  /\ UNCHANGED <<catalog, clock, serving, history, cache, last_cleanup, todo, row,
                 rows, targets, faults, logged, overdue>>

(* BUG VARIANT of Expired: a row goes one tick early. *)
ExpiredEarly(h) == h.time =< clock - Retention

Expired(h) == h.time < clock - Retention

(* BUG VARIANT of Cleanup: the DELETE is never committed. *)
CleanupWithoutDeleting ==
  /\ at = "cleanup"
  /\ CleanupDue
  /\ last_cleanup' = clock
  /\ overdue' = FALSE
  /\ at' = "sleep"
  /\ UNCHANGED <<catalog, clock, serving, history, cache, todo, row, rows, targets,
                 faults, logged>>

Cleanup ==
  /\ at = "cleanup"
  /\ CleanupDue
  /\ last_cleanup' = clock
  /\ history' = {h \in history : ~Expired(h)}
  /\ overdue' = FALSE
  /\ at' = "sleep"
  /\ UNCHANGED <<catalog, clock, serving, cache, todo, row, rows, targets, faults,
                 logged>>

(* The time is noted before the attempt: the next one is an interval away. *)
CleanupFails ==
  /\ Fault
  /\ at = "cleanup"
  /\ CleanupDue
  /\ last_cleanup' = clock
  /\ overdue' = TRUE
  /\ at' = "sleep"
  /\ UNCHANGED <<catalog, clock, serving, history, cache, todo, row, rows, targets,
                 logged>>

Logger ==
  \/ WakeUp \/ Insert \/ StartServing \/ QueryPrometheus \/ BatchInsert
  \/ \E s \in SystemIds : LookUp(s) \/ BatchLookUp(s)
  \/ SkipCleanup \/ Cleanup

Failure ==
  \/ InsertFails \/ CycleAborts \/ QueryFails \/ BatchFails \/ CleanupFails
  \/ \E s \in SystemIds : LookUpFails(s)
  \/ Restart

Next == Tick \/ AdminStep \/ Discover \/ Logger \/ Failure

Spec == Init /\ [][Next]_vars

(* The checking thread runs, and Prometheus refreshes its targets. *)
FairSpec == Spec /\ WF_vars(Logger) /\ WF_vars(Discover)

-----------------------------------------------------------------------------
(***************************************************************************)
(* Properties                                                              *)
(***************************************************************************)
LoggedRow == [system : C!Id, checked : SystemIds]

TypeOK ==
  /\ C!TypeOK
  /\ clock \in Nat
  /\ history \subseteq [system : C!Id, checked : SystemIds, time : Nat]
  /\ cache \in [SystemIds -> {0} \cup C!Id]
  /\ last_cleanup \in Nat
  /\ at \in {"sleep", "single", "insert", "batch", "cleanup"}
  /\ todo \subseteq SystemIds
  /\ row \in LoggedRow \cup {NoRow}
  /\ at = "insert" => row \in LoggedRow
  /\ rows \subseteq LoggedRow
  /\ targets \subseteq Blackbox
  /\ faults \in Nat
  /\ serving \in BOOLEAN
  /\ logged \subseteq SystemIds /\ overdue \in BOOLEAN

(* Every row of the log belongs to the system that was checked: not to     *)
(* one that was given the same key, or the same system_id, later - though  *)
(* the key was remembered from any earlier time and looked up long before  *)
(* the row was inserted.                                                   *)
RightSystem ==
  \A h \in history :
    \E r \in systems : r.id = h.system /\ r.system_id = h.checked

(* A row is deleted by the retention only, not before its time, and stays  *)
(* what it was; deleting a system takes no row of its log away.            *)
KeepsYoungRows ==
  [][\A h \in history \ history' : h.time < clock - Retention]_vars

(* When a cycle has run to its end, no row is older than the retention and *)
(* one interval, unless the last attempt to delete failed.                 *)
BoundedAge ==
  [][ at = "cleanup" /\ at' = "sleep" /\ ~overdue' /\ faults' = faults
      => \A h \in history' : clock - h.time =< Retention + Interval ]_vars

(* The logger is a client of the catalog like any other: what it does to   *)
(* the tables the catalog foresees.                                        *)
RespectsCatalog == C!Spec

(* What a row in the making says is true, as long as its system exists.    *)
TrueKey(r) == /\ r.system < system_seq
              /\ \A q \in systems : q.id = r.system => q.system_id = r.checked

KeysAreTrue ==
  /\ \A s \in SystemIds :
       cache[s] # 0 => TrueKey([system |-> cache[s], checked |-> s])
  /\ at = "insert" => TrueKey(row)
  /\ \A r \in rows : TrueKey(r)

IInv == TypeOK /\ C!Keyed /\ KeysAreTrue /\ RightSystem

(* "Writes check results to Postgres for the Grafana Health Check Logs     *)
(* panel." (exporter.py:148): a system that is there to stay is logged in  *)
(* cycle after cycle.                                                      *)
Listed(s) == s \in SystemIdsOf(systems)

ResultsAreLogged == \A s \in Probed : <>[]Listed(s) => []<>(s \in logged)

(* The logger does not know an outdated key for s. *)
KnowsKey(s) == cache[s] = 0 \/ cache[s] \in C!IdsOf(systems)

(* It is, unless the logger remembers the key of a deleted namesake.  In   *)
(* the batch, a key that is outdated for one system is so for all.         *)
LoggedUnlessReplaced ==
  /\ \A s \in Probed :
       <>[](Listed(s) /\ KnowsKey(s)) => []<>(s \in logged)
  /\ \A s \in Blackbox :
       <>[](Listed(s) /\ \A b \in targets : KnowsKey(b)) => []<>(s \in logged)
=============================================================================
