---------------------------- MODULE CatalogProofs ----------------------------
(***************************************************************************)
(* For all sets of systems, labs and threads and every range of ids: the   *)
(* keys of the catalog, and what its handlers of several statements still  *)
(* guarantee although other handlers run between their statements.         *)
(***************************************************************************)
EXTENDS Catalog, TLAPS

(* Ids and the sequences are numbers.                                      *)
LEMMA IdsAreNumbers == Id \subseteq Nat /\ 1 \in Id /\ MaxId \in Nat
BY CatalogAssumption DEF Id

(***************************************************************************)
(* Tables                                                                  *)
(***************************************************************************)
Tables ==
  /\ systems \subseteq SystemRow /\ system_seq \in 1..(MaxId + 1)
  /\ labs \subseteq LabRow /\ lab_seq \in 1..(MaxId + 1)
  /\ referenced \subseteq Id
  /\ Keyed

LEMMA CreateSystemTables ==
  ASSUME Tables, NEW s \in SystemIds, NEW names \in SUBSET LabNames,
         CreateSystem(s, names)
  PROVE  Tables'
<1>1. /\ system_seq =< MaxId /\ system_seq' = system_seq + 1
      /\ UNCHANGED <<labs, lab_seq, referenced>>
  BY DEF CreateSystem
<1>2. system_seq \in Id /\ system_seq' \in 1..(MaxId + 1)
  BY <1>1, IdsAreNumbers DEF Tables, Id
<1>3. \A r \in systems : r.id < system_seq' /\ r.id # system_seq
  <2>1. \A r \in systems : r.id \in Nat
    BY IdsAreNumbers DEF Tables, SystemRow
  <2> QED
    BY <1>1, <1>2, <2>1, IdsAreNumbers DEF Tables, Keyed
<1>4. CASE systems' = systems
  BY <1>1, <1>2, <1>3, <1>4 DEF Tables, Keyed, IdsOf
<1>5. CASE systems' # systems
  <2> DEFINE r == [id |-> system_seq, system_id |-> s, labs |-> names]
  <2>1. systems' = systems \cup {r} /\ \A q \in systems : q.system_id # s
    BY <1>5 DEF CreateSystem, NewId
  <2>2. r \in SystemRow
    BY <1>2 DEF SystemRow
  <2>3. system_seq < system_seq'
    BY <1>1 DEF Tables
  <2> QED
    BY <1>1, <1>2, <1>3, <2>1, <2>2, <2>3 DEF Tables, Keyed, IdsOf
<1> QED
  BY <1>4, <1>5

LEMMA UpdateSystemTables ==
  ASSUME Tables, NEW s \in SystemIds, NEW names \in SUBSET LabNames, NEW i,
         UpdateSystem(i, s, names)
  PROVE  /\ Tables'
         /\ \A r \in systems' : \E q \in systems :
              q.id = r.id /\ q.system_id = r.system_id
<1> DEFINE u(r) == IF r.id = i THEN Updated(r, s, names) ELSE r
<1>1. systems' = {u(r) : r \in systems}
  BY DEF UpdateSystem
<1>2. \A r \in systems : /\ u(r) \in SystemRow
                         /\ u(r).id = r.id /\ u(r).system_id = r.system_id
  BY DEF Updated, SystemRow, Tables
<1>3. IdsOf(systems') = IdsOf(systems)
  BY <1>1, <1>2 DEF IdsOf
<1>4. UNCHANGED <<system_seq, labs, lab_seq, referenced>>
  BY DEF UpdateSystem
<1>5. \A q, r \in systems' : q.id = r.id \/ q.system_id = r.system_id => q = r
  BY <1>1, <1>2 DEF Tables, Keyed
<1> HIDE DEF u
<1> QED
  BY <1>1, <1>2, <1>3, <1>4, <1>5 DEF Tables, Keyed

LEMMA CreateLabTables ==
  ASSUME Tables, NEW n \in LabNames, CreateLab(n)
  PROVE  Tables'
<1>1. /\ lab_seq =< MaxId /\ lab_seq' = lab_seq + 1
      /\ UNCHANGED <<systems, system_seq, referenced>>
  BY DEF CreateLab
<1>2. lab_seq \in Id /\ lab_seq' \in 1..(MaxId + 1)
  BY <1>1, IdsAreNumbers DEF Tables, Id
<1>3. \A l \in labs : l.id < lab_seq' /\ l.id # lab_seq
  <2>1. \A l \in labs : l.id \in Nat
    BY IdsAreNumbers DEF Tables, LabRow
  <2> QED
    BY <1>1, <1>2, <2>1, IdsAreNumbers DEF Tables, Keyed
<1>4. CASE labs' = labs
  BY <1>1, <1>2, <1>3, <1>4 DEF Tables, Keyed, IdsOf
<1>5. CASE labs' # labs
  <2> DEFINE l == [id |-> lab_seq, name |-> n]
  <2>1. labs' = labs \cup {l} /\ \A m \in labs : m.name # n
    BY <1>5 DEF CreateLab
  <2>2. l \in LabRow
    BY <1>2 DEF LabRow
  <2>3. lab_seq < lab_seq'
    BY <1>1 DEF Tables
  <2> QED
    BY <1>1, <1>2, <1>3, <2>1, <2>2, <2>3 DEF Tables, Keyed, IdsOf
<1> QED
  BY <1>4, <1>5

(* Statements that delete, and those that only look.                       *)
LEMMA DeleteTables ==
  ASSUME Tables,
         systems' \subseteq systems, labs' \subseteq labs,
         UNCHANGED <<system_seq, lab_seq>>,
         referenced' \subseteq IdsOf(systems')
  PROVE  Tables'
<1>1. referenced' \subseteq Id
  BY DEF Tables, SystemRow, IdsOf
<1> QED
  BY <1>1 DEF Tables, Keyed

(* No id comes to mean another row: what is new in a table has an id that  *)
(* was drawn from its sequence in this step.                               *)
IdsKept ==
  /\ system_seq' >= system_seq /\ lab_seq' >= lab_seq
  /\ \A r \in systems' :
       \/ \E q \in systems : q.id = r.id /\ q.system_id = r.system_id
       \/ r.id >= system_seq
  /\ \A l \in labs' : l \in labs \/ l.id >= lab_seq

LEMMA TablesStep == ASSUME Tables, [Next]_vars PROVE Tables' /\ IdsKept
<1>0. system_seq \in Nat /\ lab_seq \in Nat
  BY IdsAreNumbers DEF Tables
<1>1. ASSUME NEW s \in SystemIds, NEW names \in SUBSET LabNames,
             CreateSystem(s, names)
      PROVE  Tables' /\ IdsKept
  <2>1. \A r \in systems' : r \in systems \/ r.id = system_seq
    BY <1>1 DEF CreateSystem, NewId
  <2>2. system_seq' = system_seq + 1 /\ UNCHANGED <<labs, lab_seq>>
    BY <1>1 DEF CreateSystem
  <2> QED
    BY <1>0, <1>1, <2>1, <2>2, CreateSystemTables DEF IdsKept
<1>2. ASSUME NEW s \in SystemIds, NEW names \in SUBSET LabNames, NEW i,
             UpdateSystem(i, s, names)
      PROVE  Tables' /\ IdsKept
  <2>1. UNCHANGED <<system_seq, labs, lab_seq>>
    BY <1>2 DEF UpdateSystem
  <2> QED
    BY <1>0, <1>2, <2>1, UpdateSystemTables DEF IdsKept
<1>3. ASSUME NEW n \in LabNames, CreateLab(n) PROVE Tables' /\ IdsKept
  <2>1. \A l \in labs' : l \in labs \/ l.id = lab_seq
    BY <1>3 DEF CreateLab
  <2>2. lab_seq' = lab_seq + 1 /\ UNCHANGED <<systems, system_seq>>
    BY <1>3 DEF CreateLab
  <2> QED
    BY <1>0, <1>3, <2>1, <2>2, CreateLabTables DEF IdsKept
<1>4. ASSUME NEW w \in Threads, DeleteSystem(w) PROVE Tables' /\ IdsKept
  <2>1. /\ systems' = {r \in systems : r.id # pk[w]} /\ pk[w] \notin referenced
        /\ UNCHANGED <<system_seq, labs, lab_seq, referenced>>
    BY <1>4 DEF DeleteSystem
  <2>2. referenced' \subseteq IdsOf(systems')
    BY <2>1 DEF Tables, Keyed, IdsOf
  <2> QED
    BY <1>0, <2>1, <2>2, DeleteTables DEF IdsKept
<1>5. ASSUME NEW w \in Threads, DeleteLab(w) PROVE Tables' /\ IdsKept
  <2>1. /\ labs' \subseteq labs
        /\ UNCHANGED <<systems, system_seq, lab_seq, referenced>>
    BY <1>5 DEF DeleteLab
  <2> QED
    BY <1>0, <2>1, DeleteTables DEF IdsKept, Tables, Keyed
<1>6. CASE Refer
  <2>1. UNCHANGED tables /\ referenced' \subseteq IdsOf(systems)
    BY <1>6 DEF Refer
  <2> QED
    BY <1>0, <2>1, DeleteTables DEF IdsKept, tables
<1>7. CASE UNCHANGED <<tables, referenced>>
  BY <1>0, <1>7 DEF IdsKept, tables, Tables, Keyed, IdsOf
<1>8. ASSUME NEW w \in Threads, Handler(w) PROVE Tables' /\ IdsKept
  BY <1>4, <1>5, <1>7, <1>8
  DEF Handler, FindSystem, LabNotFound, FindLab, DeleteSystemFails,
      CountSystems
<1>9. CASE ProcessEnds
  BY <1>7, <1>9 DEF ProcessEnds
<1>10. CASE UNCHANGED vars
  BY <1>7, <1>10 DEF vars
<1> QED
  BY <1>1, <1>2, <1>3, <1>6, <1>8, <1>9, <1>10 DEF Next, Admin

(***************************************************************************)
(* Handlers                                                                *)
(***************************************************************************)
Handlers ==
  /\ pc \in [Threads -> PC] /\ pk \in [Threads -> Id]
  /\ name \in [Threads -> LabNames \cup {NoName}]
  /\ unused \in [Threads -> BOOLEAN]

LEMMA WitnessType ==
  ASSUME Handlers, Witness PROVE unused' \in [Threads -> BOOLEAN]
BY DEF Handlers, Witness

LEMMA HandlersStep ==
  ASSUME Tables, Handlers, [Next]_vars PROVE Handlers'
<1> USE DEF Handlers
<1>1. ASSUME NEW s \in SystemIds, NEW names \in SUBSET LabNames,
             CreateSystem(s, names)
      PROVE  Handlers'
  BY <1>1, WitnessType DEF CreateSystem
<1>2. ASSUME NEW s \in SystemIds, NEW names \in SUBSET LabNames, NEW i,
             UpdateSystem(i, s, names)
      PROVE  Handlers'
  BY <1>2, WitnessType DEF UpdateSystem
<1>3. ASSUME NEW n \in LabNames, CreateLab(n) PROVE Handlers'
  BY <1>3 DEF CreateLab, handlers
<1>4. ASSUME NEW w \in Threads, Handler(w) PROVE Handlers'
  <2>1. ASSUME NEW i \in Id, FindSystem(w, i) PROVE Handlers'
    BY <2>1 DEF FindSystem, Goto, PC
  <2>2. ASSUME NEW i \in Id, LabNotFound(w, i) PROVE Handlers'
    BY <2>2 DEF LabNotFound, Goto, PC
  <2>3. ASSUME NEW l \in labs, FindLab(w, l) PROVE Handlers'
    <3>1. l.id \in Id /\ l.name \in LabNames
      BY DEF Tables, LabRow
    <3>2. pc' \in [Threads -> PC]
      BY <2>3 DEF FindLab, Goto, PC
    <3>3. unused' \in [Threads -> BOOLEAN]
      BY <2>3 DEF FindLab, InUse
    <3> QED
      BY <2>3, <3>1, <3>2, <3>3 DEF FindLab
  <2>4. CASE DeleteSystem(w)
    BY <2>4, WitnessType DEF DeleteSystem, Goto, PC
  <2>5. CASE DeleteSystemFails(w)
    BY <2>5 DEF DeleteSystemFails, Goto, PC
  <2>6. CASE CountSystems(w)
    BY <2>6 DEF CountSystems, Goto, PC
  <2>7. CASE DeleteLab(w)
    BY <2>7 DEF DeleteLab, Goto, PC
  <2> QED
    BY <1>4, <2>1, <2>2, <2>3, <2>4, <2>5, <2>6, <2>7 DEF Handler
<1>5. CASE ProcessEnds
  BY <1>5, IdsAreNumbers DEF ProcessEnds, PC
<1>6. CASE Refer \/ UNCHANGED vars
  BY <1>6 DEF Refer, vars, handlers
<1> QED
  BY <1>1, <1>2, <1>3, <1>4, <1>5, <1>6 DEF Next, Admin

(***************************************************************************)
(* What holds of the tables in every state, and of their ids in every step.*)
(***************************************************************************)
LEMMA TypesAndKeys == TypeOK /\ Keyed <=> Tables /\ Handlers
BY DEF TypeOK, Tables, Handlers

LEMMA InitInvariant == Init => Tables /\ Handlers
BY IdsAreNumbers DEF Init, Tables, Handlers, Keyed, IdsOf, PC

(* Keys are unique and drawn from their sequences, and the foreign keys    *)
(* hold, for any number of handlers whose statements interleave.           *)
THEOREM Invariance == Spec => []IInv
<1>1. Tables /\ Handlers /\ [Next]_vars => Tables' /\ Handlers'
  BY TablesStep, HandlersStep
<1>2. Tables /\ Handlers => IInv
  BY TypesAndKeys DEF IInv
<1> QED
  BY <1>1, <1>2, InitInvariant, PTL DEF Spec

(* An id, once given to a system, is never given to another.               *)
THEOREM IdsKeepTheirSystemHolds == Spec => IdsKeepTheirSystem
<1>1. IInv /\ [Next]_vars =>
        [ /\ system_seq' >= system_seq
          /\ \A r \in systems' :
               \/ \E q \in systems : q.id = r.id /\ q.system_id = r.system_id
               \/ r.id >= system_seq ]_vars
  BY TablesStep, TypesAndKeys DEF IInv, IdsKept
<1> QED
  BY <1>1, Invariance, PTL DEF Spec, IdsKeepTheirSystem

(***************************************************************************)
(* What a handler still knows of the row it has found.                     *)
(*                                                                         *)
(* DeletedStaysDeleted is not inductive: it needs that the id a handler is *)
(* about to delete was drawn from the sequence, so that it cannot be drawn *)
(* again.  LabWasUnused needs that a lab that is in use when its systems   *)
(* are counted, and is not when it is deleted, was seen to be unused.      *)
(***************************************************************************)
Remembers(w) ==
  /\ pc[w] \in {"delete", "deleted"} => pk[w] < system_seq
  /\ pc[w] = "deleted" => pk[w] \notin IdsOf(systems)
  /\ pc[w] \in {"count", "delete_lab", "lab_deleted"} => pk[w] < lab_seq
  /\ pc[w] = "lab_deleted" => pk[w] \notin IdsOf(labs)

HasSeen(w) ==
  /\ pc[w] = "count" => unused[w] \/ InUse(name[w])
  /\ pc[w] \in {"delete_lab", "lab_deleted"} => unused[w]

HInv == Tables /\ Handlers /\ \A w \in Threads : Remembers(w) /\ HasSeen(w)

(* A handler that does not move keeps what it remembers.                   *)
LEMMA RemembersStays ==
  ASSUME Tables, Tables', IdsKept, Handlers, NEW w \in Threads, Remembers(w),
         pc'[w] = pc[w], pk'[w] = pk[w]
  PROVE  Remembers(w)'
<1>1. /\ system_seq \in Nat /\ system_seq' \in Nat
      /\ lab_seq \in Nat /\ lab_seq' \in Nat /\ pk[w] \in Nat
  <2>1. system_seq \in Nat /\ lab_seq \in Nat
    BY IdsAreNumbers DEF Tables
  <2>2. system_seq' \in Nat /\ lab_seq' \in Nat
    BY <2>1 DEF Tables, IdsKept
  <2>3. pk[w] \in Nat
    BY IdsAreNumbers DEF Handlers
  <2> QED
    BY <2>1, <2>2, <2>3
<1>2. pk[w] < system_seq /\ pk[w] \notin IdsOf(systems)
      => pk[w] \notin IdsOf(systems')
  BY <1>1 DEF IdsKept, IdsOf
<1>3. pk[w] < lab_seq /\ pk[w] \notin IdsOf(labs)
      => pk[w] \notin IdsOf(labs')
  BY <1>1 DEF IdsKept, IdsOf
<1> QED
  BY <1>1, <1>2, <1>3 DEF IdsKept, Remembers

(* A handler that does not move keeps what it has seen: the other steps    *)
(* either leave the systems alone or look at them for it.                  *)
LEMMA HasSeenStays ==
  ASSUME Handlers, NEW w \in Threads, HasSeen(w),
         pc'[w] = pc[w], name'[w] = name[w],
         Witness \/ (systems' = systems /\ unused'[w] = unused[w])
  PROVE  HasSeen(w)'
<1>1. CASE Witness
  <2>1. unused'[w] = (unused[w] \/ \A r \in systems' : name[w] \notin r.labs)
    BY <1>1 DEF Witness, Handlers
  <2>2. (\A r \in systems' : name[w] \notin r.labs) <=> ~InUse(name[w])'
    BY DEF InUse
  <2> QED
    BY <2>1, <2>2 DEF HasSeen
<1>2. CASE systems' = systems /\ unused'[w] = unused[w]
  BY <1>2 DEF HasSeen, InUse
<1> QED
  BY <1>1, <1>2

(* Nobody is disturbed by a step of another handler.                       *)
LEMMA OthersStay ==
  ASSUME HInv, Tables', IdsKept, NEW w \in Threads, Handler(w),
         NEW v \in Threads, v # w
  PROVE  Remembers(v)' /\ HasSeen(v)'
<1>1. /\ pc'[v] = pc[v] /\ pk'[v] = pk[v] /\ name'[v] = name[v]
      /\ Witness \/ (systems' = systems /\ unused'[v] = unused[v])
  <2> USE DEF HInv, Handlers, Goto, tables
  <2>1. CASE \E i \in Id : FindSystem(w, i) \/ LabNotFound(w, i)
    BY <2>1 DEF FindSystem, LabNotFound
  <2>2. CASE \E l \in labs : FindLab(w, l)
    BY <2>2 DEF FindLab
  <2>3. CASE DeleteSystem(w) \/ DeleteSystemFails(w)
    BY <2>3 DEF DeleteSystem, DeleteSystemFails
  <2>4. CASE CountSystems(w) \/ DeleteLab(w)
    BY <2>4 DEF CountSystems, DeleteLab
  <2> QED
    BY <2>1, <2>2, <2>3, <2>4 DEF Handler
<1> QED
  BY <1>1, RemembersStays, HasSeenStays DEF HInv

LEMMA HandlerKnows ==
  ASSUME HInv, NEW w \in Threads, Handler(w)
  PROVE  Remembers(w)' /\ HasSeen(w)'
<1> USE DEF HInv
<1>1. ASSUME NEW i \in Id, FindSystem(w, i)
      PROVE  Remembers(w)' /\ HasSeen(w)'
  <2>1. /\ pk'[w] = i /\ pc'[w] \in {"delete", "not_found"}
        /\ pc'[w] = "delete" => i \in IdsOf(systems)
        /\ UNCHANGED <<systems, system_seq>>
    BY <1>1 DEF FindSystem, Goto, Handlers, tables
  <2>2. pc'[w] = "delete" => pk'[w] < system_seq'
    BY <2>1 DEF Tables, Keyed, IdsOf
  <2> QED
    BY <2>1, <2>2 DEF Remembers, HasSeen
<1>2. ASSUME NEW i \in Id, LabNotFound(w, i)
      PROVE  Remembers(w)' /\ HasSeen(w)'
  BY <1>2 DEF LabNotFound, Goto, Handlers, Remembers, HasSeen
<1>3. ASSUME NEW l \in labs, FindLab(w, l)
      PROVE  Remembers(w)' /\ HasSeen(w)'
  <2>1. /\ pk'[w] = l.id /\ name'[w] = l.name /\ pc'[w] = "count"
        /\ unused'[w] = ~InUse(l.name)
        /\ UNCHANGED <<systems, lab_seq>>
    BY <1>3 DEF FindLab, Goto, Handlers, tables
  <2>2. l.id < lab_seq
    BY DEF Tables, Keyed
  <2> QED
    BY <2>1, <2>2 DEF Remembers, HasSeen, InUse
<1>4. CASE DeleteSystem(w)
  <2>1. /\ pc'[w] = "deleted" /\ pk'[w] = pk[w] /\ pc[w] = "delete"
        /\ systems' = {r \in systems : r.id # pk[w]}
        /\ UNCHANGED system_seq
    BY <1>4 DEF DeleteSystem, Goto, Handlers
  <2> QED
    BY <2>1 DEF Remembers, HasSeen, IdsOf
<1>5. CASE DeleteSystemFails(w)
  BY <1>5 DEF DeleteSystemFails, Goto, Handlers, Remembers, HasSeen
<1>6. CASE CountSystems(w)
  <2>1. /\ pc[w] = "count" /\ pk'[w] = pk[w] /\ unused'[w] = unused[w]
        /\ pc'[w] = IF InUse(name[w]) THEN "refused" ELSE "delete_lab"
        /\ UNCHANGED lab_seq
    BY <1>6 DEF CountSystems, Goto, Handlers, tables
  <2> QED
    BY <2>1 DEF Remembers, HasSeen
<1>7. CASE DeleteLab(w)
  <2>1. /\ pc[w] = "delete_lab" /\ pc'[w] = "lab_deleted"
        /\ pk'[w] = pk[w] /\ unused'[w] = unused[w]
        /\ labs' = {l \in labs : l.id # pk[w]} /\ UNCHANGED lab_seq
    BY <1>7 DEF DeleteLab, Goto, Handlers
  <2> QED
    BY <2>1 DEF Remembers, HasSeen, IdsOf
<1> QED
  BY <1>1, <1>2, <1>3, <1>4, <1>5, <1>6, <1>7 DEF Handler

LEMMA HInvInductive == ASSUME HInv, [Next]_vars PROVE HInv'
<1>1. Tables' /\ IdsKept /\ Handlers'
  BY TablesStep, HandlersStep DEF HInv
<1>2. ASSUME NEW w \in Threads, Handler(w) PROVE HInv'
  BY <1>1, <1>2, HandlerKnows, OthersStay DEF HInv
<1>3. ASSUME UNCHANGED <<pc, pk, name>>,
             Witness \/ UNCHANGED <<systems, unused>>
      PROVE  HInv'
  BY <1>1, <1>3, RemembersStays, HasSeenStays DEF HInv
<1>4. CASE ProcessEnds
  BY <1>1, <1>4 DEF ProcessEnds, HInv, Remembers, HasSeen
<1>5. CASE Refer \/ UNCHANGED vars
  BY <1>3, <1>5 DEF Refer, vars, handlers, tables
<1>6. ASSUME NEW n \in LabNames, CreateLab(n) PROVE HInv'
  BY <1>3, <1>6 DEF CreateLab, handlers
<1>7. ASSUME NEW s \in SystemIds, NEW names \in SUBSET LabNames,
             CreateSystem(s, names) \/ \E i : UpdateSystem(i, s, names)
      PROVE  HInv'
  BY <1>3, <1>7 DEF CreateSystem, UpdateSystem
<1> QED
  BY <1>2, <1>4, <1>5, <1>6, <1>7 DEF Next, Admin

LEMMA HInvHolds == Spec => []HInv
<1>1. Init => HInv
  BY InitInvariant DEF Init, HInv, Remembers, HasSeen
<1> QED
  BY <1>1, HInvInductive, PTL DEF Spec

(* Whoever was told that a system or a lab is deleted does not see its id  *)
(* again, though others create and delete between the statements.          *)
THEOREM DeletedStaysDeletedHolds == Spec => []DeletedStaysDeleted
<1>1. HInv => DeletedStaysDeleted
  BY DEF HInv, Remembers, DeletedStaysDeleted
<1> QED
  BY <1>1, HInvHolds, PTL

(* No lab is deleted that was in use all the time its deletion took.       *)
THEOREM LabWasUnusedHolds == Spec => []LabWasUnused
<1>1. HInv => LabWasUnused
  BY DEF HInv, HasSeen, LabWasUnused
<1> QED
  BY <1>1, HInvHolds, PTL
=============================================================================
