------------------------------- MODULE Catalog -------------------------------
(***************************************************************************)
(* The catalog the admin UI keeps in Postgres (monitor_exporter/           *)
(* admin_ui.py, docker/init-db): the tables monitored_system and lab.      *)
(*                                                                         *)
(* Every statement is committed by itself (db.connect() sets autocommit),  *)
(* so a handler that needs several is not one transaction: deleting a      *)
(* system takes two, deleting a lab three, and other handlers run between  *)
(* them in Flask threads of their own.  A handler of one statement is one  *)
(* action.  Foreign keys of other tables refer to monitored_system.id;     *)
(* which ids are referred to is all the catalog sees of them.              *)
(***************************************************************************)
EXTENDS Naturals

CONSTANTS
  SystemIds,  \* values of monitored_system.system_id
  LabNames,   \* values of lab.name, lab_group and system_group
  Threads,    \* Flask request threads
  MaxId       \* bound: the sequences stop here

ASSUME CatalogAssumption == MaxId \in Nat \ {0}

VARIABLES
  systems,    \* the rows of monitored_system
  system_seq, \* the sequence behind monitored_system.id
  labs,       \* the rows of lab
  lab_seq,    \* the sequence behind lab.id
  referenced, \* the ids that rows of other tables refer to
  pc,         \* pc[w]: where the handler in thread w is, or how it ended
  pk,         \* pk[w]: the id in its path
  name,       \* name[w]: the name _delete_lab() read
  unused      \* history: unused[w] iff no system used it at some moment since

tables   == <<systems, system_seq, labs, lab_seq>>
handlers == <<pc, pk, name, unused>>
vars     == <<tables, referenced, handlers>>

Id == 1..MaxId
NoName == ""

(* `labs`: the names the row has in system_group and lab_group. *)
SystemRow == [id : Id, system_id : SystemIds, labs : SUBSET LabNames]
LabRow    == [id : Id, name : LabNames]

IdsOf(rows) == {r.id : r \in rows}

Init ==
  /\ systems = {} /\ system_seq = 1
  /\ labs = {} /\ lab_seq = 1
  /\ referenced = {}
  /\ pc = [w \in Threads |-> "idle"]
  /\ pk = [w \in Threads |-> 1]
  /\ name = [w \in Threads |-> NoName]
  /\ unused = [w \in Threads |-> FALSE]

InUse(n) == \E r \in systems : n \in r.labs

(* History: which handlers' labs are unused after a step on systems. *)
Witness ==
  unused' = [w \in Threads |->
               unused[w] \/ \A r \in systems' : name[w] \notin r.labs]

(***************************************************************************)
(* Handlers of one statement.                                              *)
(***************************************************************************)

(* BUG VARIANT of NewId: an id that is free is given out again. *)
NewIdFromTable == CHOOSE i \in Id : i \notin IdsOf(systems)

(* SERIAL: the next value of the sequence. *)
NewId == system_seq

(* create(): the sequence moves on even when the UNIQUE constraint refuses *)
(* the row and the handler answers 409.                                    *)
CreateSystem(s, names) ==
  /\ system_seq =< MaxId
  /\ system_seq' = system_seq + 1
  /\ systems' = IF \E r \in systems : r.system_id = s THEN systems
                ELSE systems \cup {[id |-> NewId, system_id |-> s, labs |-> names]}
  /\ Witness
  /\ UNCHANGED <<labs, lab_seq, referenced, pc, pk, name>>

(* BUG VARIANT of Updated: the form's system_id is written as well. *)
UpdatedWithKey(r, s, names) == [r EXCEPT !.system_id = s, !.labs = names]

(* The SET clause of _update() has every column of the form but system_id. *)
Updated(r, s, names) == [r EXCEPT !.labs = names]

(* update(): of no row when the id is gone; "Updated" is flashed anyway. *)
UpdateSystem(i, s, names) ==
  /\ systems' = {IF r.id = i THEN Updated(r, s, names) ELSE r : r \in systems}
  /\ Witness
  /\ UNCHANGED <<system_seq, labs, lab_seq, referenced, pc, pk, name>>

(* labs_create(); name is UNIQUE. *)
CreateLab(n) ==
  /\ lab_seq =< MaxId
  /\ lab_seq' = lab_seq + 1
  /\ labs' = IF \E l \in labs : l.name = n THEN labs
             ELSE labs \cup {[id |-> lab_seq, name |-> n]}
  /\ UNCHANGED <<systems, system_seq, referenced, handlers>>

(***************************************************************************)
(* delete(): look the row up, then delete it.                              *)
(***************************************************************************)
AtRest(w) == pc[w] \notin {"delete", "count", "delete_lab"}

Goto(w, label) == pc' = [pc EXCEPT ![w] = label]

FindSystem(w, i) ==
  /\ AtRest(w)
  /\ pk' = [pk EXCEPT ![w] = i]
  /\ Goto(w, IF i \in IdsOf(systems) THEN "delete" ELSE "not_found")
  /\ UNCHANGED <<tables, referenced, name, unused>>

(* The statement succeeds, on one row or none: "Deleted" is flashed. *)
DeleteSystem(w) ==
  /\ pc[w] = "delete"
  /\ pk[w] \notin referenced
  /\ systems' = {r \in systems : r.id # pk[w]}
  /\ Witness
  /\ Goto(w, "deleted")
  /\ UNCHANGED <<system_seq, labs, lab_seq, referenced, pk, name>>

(* A foreign key forbids it: IntegrityError, which delete() lets through. *)
DeleteSystemFails(w) ==
  /\ pc[w] = "delete"
  /\ pk[w] \in referenced
  /\ Goto(w, "error")
  /\ UNCHANGED <<tables, referenced, pk, name, unused>>

(***************************************************************************)
(* _delete_lab(): select the name, count its systems, delete the row.       *)
(***************************************************************************)
FindLab(w, l) ==
  /\ AtRest(w)
  /\ pk' = [pk EXCEPT ![w] = l.id]
  /\ name' = [name EXCEPT ![w] = l.name]
  /\ unused' = [unused EXCEPT ![w] = ~InUse(l.name)]
  /\ Goto(w, "count")
  /\ UNCHANGED <<tables, referenced>>

LabNotFound(w, i) ==
  /\ AtRest(w)
  /\ i \notin IdsOf(labs)
  /\ pk' = [pk EXCEPT ![w] = i]
  /\ Goto(w, "not_found")
  /\ UNCHANGED <<tables, referenced, name, unused>>

(* BUG VARIANT of CountSystems: the count is not looked at. *)
CountSystemsInVain(w) ==
  /\ pc[w] = "count"
  /\ Goto(w, "delete_lab")
  /\ UNCHANGED <<tables, referenced, pk, name, unused>>

CountSystems(w) ==
  /\ pc[w] = "count"
  /\ Goto(w, IF InUse(name[w]) THEN "refused" ELSE "delete_lab")
  /\ UNCHANGED <<tables, referenced, pk, name, unused>>

DeleteLab(w) ==
  /\ pc[w] = "delete_lab"
  /\ labs' = {l \in labs : l.id # pk[w]}
  /\ Goto(w, "lab_deleted")
  /\ UNCHANGED <<systems, system_seq, lab_seq, referenced, pk, name, unused>>

Handler(w) ==
  \/ \E i \in Id : FindSystem(w, i) \/ LabNotFound(w, i)
  \/ \E l \in labs : FindLab(w, l)
  \/ DeleteSystem(w) \/ DeleteSystemFails(w)
  \/ CountSystems(w) \/ DeleteLab(w)

Admin ==
  \/ \E s \in SystemIds, names \in SUBSET LabNames :
       \/ CreateSystem(s, names)
       \/ \E i \in IdsOf(systems) : UpdateSystem(i, s, names)
  \/ \E n \in LabNames : CreateLab(n)
  \/ \E w \in Threads : Handler(w)

(* The exporter's process ends, and every handler with it: a statement is   *)
(* never half done, a handler may be.                                      *)
ProcessEnds ==
  /\ pc' = [w \in Threads |-> "idle"]
  /\ pk' = [w \in Threads |-> 1]
  /\ name' = [w \in Threads |-> NoName]
  /\ unused' = [w \in Threads |-> FALSE]
  /\ UNCHANGED <<tables, referenced>>

(* Rows of other tables come and go.  The foreign keys keep them to ids    *)
(* that exist.                                                             *)
Refer ==
  /\ referenced' \in SUBSET IdsOf(systems)
  /\ UNCHANGED <<tables, handlers>>

Next == Admin \/ ProcessEnds \/ Refer

Spec == Init /\ [][Next]_vars

-----------------------------------------------------------------------------
(***************************************************************************)
(* Properties                                                              *)
(***************************************************************************)
PC == {"idle", "delete", "deleted", "error", "not_found", "count",
       "refused", "delete_lab", "lab_deleted"}

TypeOK ==
  /\ systems \subseteq SystemRow /\ system_seq \in 1..(MaxId + 1)
  /\ labs \subseteq LabRow /\ lab_seq \in 1..(MaxId + 1)
  /\ referenced \subseteq Id
  /\ pc \in [Threads -> PC] /\ pk \in [Threads -> Id]
  /\ name \in [Threads -> LabNames \cup {NoName}]
  /\ unused \in [Threads -> BOOLEAN]

(* The ids in use were drawn from the sequence, each for one row; a        *)
(* system_id names one row; what other tables refer to exists.             *)
Keyed ==
  /\ \A r \in systems : r.id < system_seq
  /\ \A q, r \in systems : q.id = r.id \/ q.system_id = r.system_id => q = r
  /\ \A l \in labs : l.id < lab_seq
  /\ \A l, m \in labs : l.id = m.id \/ l.name = m.name => l = m
  /\ referenced \subseteq IdsOf(systems)

IInv == TypeOK /\ Keyed

(* Who was told that a system or a lab is deleted never sees it again:     *)
(* whatever is created later, and under which name, has another id.        *)
DeletedStaysDeleted ==
  \A w \in Threads :
    /\ pc[w] = "deleted" => pk[w] \notin IdsOf(systems)
    /\ pc[w] = "lab_deleted" => pk[w] \notin IdsOf(labs)

(* An id means one system for ever: a row is edited, or it goes, but its   *)
(* id never comes to mean another system.                                  *)
IdsKeepTheirSystem ==
  [][ /\ system_seq' >= system_seq
      /\ \A r \in systems' :
           \/ \E q \in systems : q.id = r.id /\ q.system_id = r.system_id
           \/ r.id >= system_seq ]_vars

(* A lab goes only if, at some moment while its deletion was handled, no   *)
(* system used its name.                                                   *)
LabWasUnused ==
  \A w \in Threads : pc[w] = "lab_deleted" => unused[w]

(* "Refuse to delete if any system still references the lab name."         *)
(* (docstring of _delete_lab, admin_ui.py:186)                             *)
DeletedLabIsUnused ==
  [][\A l \in labs \ labs' : ~InUse(l.name)]_vars
=============================================================================
