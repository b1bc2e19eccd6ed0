--------------------------- MODULE DatasourceSync ---------------------------
(***************************************************************************)
(* The reconciler of Grafana's data sources                                *)
(* (monitor_exporter/datasource_sync.py).  Once a minute it reads the      *)
(* enabled rows of the datasource table, lists what Grafana has, and then, *)
(* row by row, POSTs what is missing and PUTs what differs.  The admin UI  *)
(* edits the table, and people edit Grafana, between any two calls; any    *)
(* call may fail, and one that timed out may have been carried out.        *)
(*                                                                         *)
(* Grafana's API is external: a POST is refused if the name or the uid is  *)
(* taken, a PUT addresses a uid and is refused if there is none or if the  *)
(* name is another's.  Secrets are left out: they are sent along and never *)
(* compared.                                                               *)
(***************************************************************************)
EXTENDS Naturals

CONSTANTS
  Names,      \* names of rows and of data sources
  OtherUids,  \* uids that Grafana or its provisioning give
  Rows,       \* what a row may say
  Seeds,      \* the data sources Grafana may start with
  MaxEdits,   \* bound: so many statements of the admin UI
  MaxHands,   \* bound: so many edits in Grafana itself
  MaxFaults   \* bound: so many calls fail

(* Of the compared columns: the driver (SQL or not), whether the url has a *)
(* scheme, and everything else.                                            *)
Settings == [sql : BOOLEAN, scheme : BOOLEAN, rest : STRING]

(* _to_grafana_payload(): all but SQL drivers get a url with a scheme. *)
Wire(s) == IF s.sql \/ s.scheme THEN s ELSE [s EXCEPT !.scheme = TRUE]

Datasource == [name : Names, uid : Names \cup OtherUids,
               settings : {Wire(r.settings) : r \in Rows}]

ASSUME DatasourceSyncAssumption ==
  /\ Names \cap OtherUids = {}
  /\ Seeds \subseteq SUBSET Datasource
  /\ Rows \subseteq [settings : Settings, is_enable : BOOLEAN]
  /\ MaxEdits \in Nat /\ MaxHands \in Nat /\ MaxFaults \in Nat

VARIABLES
  table,      \* the datasource table: a row for each name, or NoRow
  grafana,    \* Grafana's data sources
  pc,         \* where the sync thread is
  rows,       \* the rows it has read and not yet dealt with
  existing,   \* what Grafana listed
  edits, hands, faults, \* (for the bounds only)
  settled,    \* history: names nobody else edited since the cycle began
  calm,       \* history: no call failed since the cycle began
  before      \* history: Grafana's data sources when the cycle began

bounds  == <<edits, hands, faults>>
history == <<settled, calm, before>>
vars    == <<table, grafana, pc, rows, existing, bounds, history>>

NoRow == [settings |-> [sql |-> FALSE, scheme |-> FALSE, rest |-> ""],
          is_enable |-> FALSE]

Init ==
  /\ table \in [Names -> Rows \cup {NoRow}]
  /\ grafana \in Seeds
  /\ pc = "sleep"
  /\ rows = {} /\ existing = {}
  /\ edits = 0 /\ hands = 0 /\ faults = 0
  /\ settled = Names /\ calm = TRUE /\ before = grafana

(***************************************************************************)
(* The environment.                                                        *)
(***************************************************************************)

(* The admin UI inserts, updates or deletes a row: one statement.  A name  *)
(* is never updated.                                                       *)
Edit(n) ==
  /\ edits < MaxEdits /\ edits' = edits + 1
  /\ \E row \in (Rows \cup {NoRow}) \ {table[n]} :
       table' = [table EXCEPT ![n] = row]
  /\ settled' = settled \ {n}
  /\ UNCHANGED <<grafana, pc, rows, existing, hands, faults, calm, before>>

(* What an edit in Grafana concerns: the name and the uid. *)
Unsettle(ds) == settled' = settled \ UNION {{d.name, d.uid} : d \in ds}

(* Somebody adds a data source in Grafana, changes one, or renames it.     *)
HandPut(d) ==
  /\ hands < MaxHands /\ hands' = hands + 1
  /\ \A e \in grafana : e.name = d.name => e.uid = d.uid
  /\ grafana' = {e \in grafana : e.uid # d.uid} \cup {d}
  /\ Unsettle({d} \cup {e \in grafana : e.uid = d.uid})
  /\ UNCHANGED <<table, pc, rows, existing, edits, faults, calm, before>>

HandDelete(d) ==
  /\ hands < MaxHands /\ hands' = hands + 1
  /\ grafana' = grafana \ {d}
  /\ Unsettle({d})
  /\ UNCHANGED <<table, pc, rows, existing, edits, faults, calm, before>>

(***************************************************************************)
(* sync_once(): reading.                                                   *)
(***************************************************************************)
Asleep == pc \in {"sleep", "done"}

(* _list_table(): the enabled rows.  Without any, Grafana is not called.   *)
ReadTable ==
  /\ Asleep
  /\ rows' = {[name |-> n, settings |-> table[n].settings] :
                n \in {m \in Names : table[m].is_enable}}
  /\ pc' = IF rows' = {} THEN "done" ELSE "list"
  /\ settled' = Names /\ calm' = TRUE /\ before' = grafana
  /\ UNCHANGED <<table, grafana, existing, bounds>>

(* Anything that fails outside a row's own response ends the cycle. *)
Abort ==
  /\ faults < MaxFaults /\ faults' = faults + 1
  /\ pc' = "sleep"
  /\ rows' = {}
  /\ calm' = FALSE
  /\ UNCHANGED <<table, existing, edits, hands, settled, before>>

ReadTableFails == Asleep /\ Abort /\ UNCHANGED grafana

ListGrafana ==
  /\ pc = "list"
  /\ existing' = grafana
  /\ pc' = "write"
  /\ UNCHANGED <<table, grafana, rows, bounds, history>>

(* A status other than 200, or no answer. *)
ListGrafanaFails == pc = "list" /\ Abort /\ UNCHANGED grafana

(***************************************************************************)
(* sync_once(): writing, one row after the other.                          *)
(***************************************************************************)

Payload(r) == [name |-> r.name, uid |-> r.name, settings |-> Wire(r.settings)]

Missing(r) == \A e \in existing : e.name # r.name

(* BUG VARIANT of Differs: _diff() does not compare the driver. *)
DiffersInRest(r) ==
  \E e \in existing :
    e.name = r.name /\ e.settings.rest # Payload(r).settings.rest

(* _diff() *)
Differs(r) ==
  \E e \in existing : e.name = r.name /\ e.settings # Payload(r).settings

(* Grafana, after it was sent a POST or a PUT for r. *)
Posted(r) ==
  IF \E e \in grafana : e.name = r.name \/ e.uid = r.name THEN grafana
  ELSE grafana \cup {Payload(r)}

Putted(r) ==
  IF /\ \E e \in grafana : e.uid = r.name
     /\ \A e \in grafana : e.name = r.name => e.uid = r.name
  THEN {e \in grafana : e.uid # r.name} \cup {Payload(r)}
  ELSE grafana

(* BUG VARIANT of Called: nothing but what is missing is sent. *)
CalledOnce(r) == IF Missing(r) THEN Posted(r) ELSE grafana

Called(r) ==
  IF Missing(r) THEN Posted(r) ELSE IF Differs(r) THEN Putted(r) ELSE grafana

Write(r) ==
  /\ pc = "write"
  /\ r \in rows
  /\ rows' = rows \ {r}
  /\ grafana' = Called(r)
  /\ UNCHANGED <<table, pc, existing, bounds, history>>

(* The response is an error status: on with the next row. *)
WriteRefused(r) ==
  /\ pc = "write"
  /\ r \in rows /\ (Missing(r) \/ Differs(r))
  /\ faults < MaxFaults /\ faults' = faults + 1
  /\ rows' = rows \ {r}
  /\ calm' = FALSE
  /\ UNCHANGED <<table, grafana, pc, existing, edits, hands, settled, before>>

(* No response: the exception takes the rest of the rows with it. *)
WriteLost(r) ==
  /\ pc = "write"
  /\ r \in rows /\ (Missing(r) \/ Differs(r))
  /\ grafana' \in {grafana, Called(r)}
  /\ Abort

EndCycle ==
  /\ pc = "write"
  /\ rows = {}
  /\ pc' = "done"
  /\ UNCHANGED <<table, grafana, rows, existing, bounds, history>>

Sync == ReadTable \/ ListGrafana \/ (\E r \in rows : Write(r)) \/ EndCycle

Failure == \/ ReadTableFails \/ ListGrafanaFails
           \/ \E r \in rows : WriteRefused(r) \/ WriteLost(r)

Next ==
  \/ Sync \/ Failure
  \/ \E n \in Names : Edit(n)
  \/ \E d \in Datasource : HandPut(d)
  \/ \E d \in grafana : HandDelete(d)

Spec == Init /\ [][Next]_vars

(* The thread runs, and every call it makes has a timeout. *)
FairSpec == Spec /\ WF_vars(Sync)

-----------------------------------------------------------------------------
(***************************************************************************)
(* Properties                                                              *)
(***************************************************************************)
TypeOK ==
  /\ table \in [Names -> Rows \cup {NoRow}]
  /\ grafana \subseteq Datasource
  /\ existing \subseteq Datasource
  /\ pc \in {"sleep", "list", "write", "done"}
  /\ rows \subseteq [name : Names, settings : {r.settings : r \in Rows}]
  /\ pc \in {"sleep", "done"} => rows = {}
  /\ edits \in Nat /\ hands \in Nat /\ faults \in Nat
  /\ settled \subseteq Names /\ calm \in BOOLEAN
  /\ before \subseteq Datasource

(* The row's name is known, if at all, by the uid the sync addresses.      *)
Compatible(ds, n) == \A d \in ds : d.name = n <=> d.uid = n

Agrees(n) ==
  \E d \in grafana : d.name = n /\ d.settings = Wire(table[n].settings)

Named(ds, n) == {d \in ds : d.name = n}

(* A cycle in which no call failed leaves Grafana in agreement with every  *)
(* enabled row that nobody edited meanwhile, on either side, and leaves    *)
(* alone what has no enabled row: neither an old listing nor another row's *)
(* POST or PUT gets in the way - unless a data source had the name of one  *)
(* and the uid of another: a PUT for the other takes it away.              *)
CycleSyncs ==
  pc = "done" /\ calm =>
    \A n \in settled :
      Compatible(before, n) =>
        IF table[n].is_enable THEN Agrees(n)
        ELSE Named(grafana, n) = Named(before, n)

IInv == TypeOK /\ CycleSyncs

(* An enabled row comes to agree with Grafana for good, whatever failed    *)
(* before and whatever an aborted cycle left behind.                       *)
Lockstep ==
  \A n \in Names :
    <>[](table[n].is_enable /\ Compatible(grafana, n)) => <>[]Agrees(n)
=============================================================================
