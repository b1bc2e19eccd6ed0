--------------------------- MODULE HistoryLogProofs ---------------------------
(***************************************************************************)
(* For all sets of systems, labs and threads, every retention and every    *)
(* number of failures: the logger on top of the catalog behaves as a       *)
(* client of the catalog, and its rows belong to the systems checked.      *)
(*                                                                         *)
(* What the catalog guarantees is not proved again: module CatalogProofs   *)
(* is instantiated with the keys the log refers to.                        *)
(***************************************************************************)
EXTENDS HistoryLog, TLAPS

CP == INSTANCE CatalogProofs WITH referenced <- Referenced

(***************************************************************************)
(* The two instances of Catalog say the same.                              *)
(***************************************************************************)
LEMMA SameAssumption == CP!CatalogAssumption
BY HistoryLogAssumption DEF HistoryLogAssumption, CP!CatalogAssumption

LEMMA SameStates == C!vars = CP!vars /\ (C!Init <=> CP!Init)
BY DEF C!vars, CP!vars, C!tables, CP!tables, C!handlers, CP!handlers,
       C!Init, CP!Init, C!NoName, CP!NoName

LEMMA SameInvariant == C!TypeOK /\ C!Keyed <=> CP!Tables /\ CP!Handlers
<1>1. C!TypeOK /\ C!Keyed <=> CP!TypeOK /\ CP!Keyed
  BY DEF C!TypeOK, CP!TypeOK, C!Keyed, CP!Keyed, C!SystemRow, CP!SystemRow,
         C!LabRow, CP!LabRow, C!PC, CP!PC, C!Id, CP!Id, C!IdsOf, CP!IdsOf,
         C!NoName, CP!NoName
<1> QED
  BY <1>1, SameAssumption, CP!TypesAndKeys

LEMMA SameNext == C!Next <=> CP!Next
<1> USE DEF C!Id, CP!Id, C!IdsOf, CP!IdsOf, C!NoName, CP!NoName,
            C!tables, CP!tables, C!handlers, CP!handlers, C!Goto, CP!Goto,
            C!InUse, CP!InUse, C!Witness, CP!Witness, C!AtRest, CP!AtRest
<1>1. \A s, names : C!CreateSystem(s, names) <=> CP!CreateSystem(s, names)
  BY DEF C!CreateSystem, CP!CreateSystem, C!NewId, CP!NewId
<1>2. \A i, s, names :
        C!UpdateSystem(i, s, names) <=> CP!UpdateSystem(i, s, names)
  BY DEF C!UpdateSystem, CP!UpdateSystem, C!Updated, CP!Updated
<1>3. \A n : C!CreateLab(n) <=> CP!CreateLab(n)
  BY DEF C!CreateLab, CP!CreateLab
<1>4. \A w, i : /\ C!FindSystem(w, i) <=> CP!FindSystem(w, i)
                /\ C!LabNotFound(w, i) <=> CP!LabNotFound(w, i)
  BY DEF C!FindSystem, CP!FindSystem, C!LabNotFound, CP!LabNotFound
<1>5. \A w, l : C!FindLab(w, l) <=> CP!FindLab(w, l)
  BY DEF C!FindLab, CP!FindLab
<1>6. \A w : /\ C!DeleteSystem(w) <=> CP!DeleteSystem(w)
             /\ C!DeleteSystemFails(w) <=> CP!DeleteSystemFails(w)
  BY DEF C!DeleteSystem, CP!DeleteSystem, C!DeleteSystemFails,
         CP!DeleteSystemFails
<1>7. \A w : /\ C!CountSystems(w) <=> CP!CountSystems(w)
             /\ C!DeleteLab(w) <=> CP!DeleteLab(w)
  BY DEF C!CountSystems, CP!CountSystems, C!DeleteLab, CP!DeleteLab
<1>8. (C!ProcessEnds <=> CP!ProcessEnds) /\ (C!Refer <=> CP!Refer)
  BY DEF C!ProcessEnds, CP!ProcessEnds, C!Refer, CP!Refer
<1> QED
  BY <1>1, <1>2, <1>3, <1>4, <1>5, <1>6, <1>7, <1>8
  DEF C!Next, CP!Next, C!Admin, CP!Admin, C!Handler, CP!Handler

(* What the catalog keeps, and that ids keep their meaning.                *)
LEMMA CatalogStep ==
  ASSUME C!TypeOK, C!Keyed, [C!Next]_(C!vars)
  PROVE  C!TypeOK' /\ C!Keyed' /\ CP!IdsKept
<1>1. [CP!Next]_(CP!vars)
  <2>1. C!vars' = CP!vars'
    BY DEF C!vars, CP!vars, C!tables, CP!tables, C!handlers, CP!handlers
  <2> QED
    BY <2>1, SameStates, SameNext
<1>2. CP!Tables /\ CP!Handlers
  BY SameInvariant
<1>3. CP!Tables' /\ CP!IdsKept /\ CP!Handlers'
  BY <1>1, <1>2, SameAssumption, CP!TablesStep, CP!HandlersStep
<1>4. (C!TypeOK /\ C!Keyed <=> CP!Tables /\ CP!Handlers)'
  BY SameInvariant, PTL
<1> QED
  BY <1>3, <1>4

(***************************************************************************)
(* The steps of the logger                                                 *)
(***************************************************************************)

(* Steps that leave the catalog's tables and handlers alone.               *)
Quiet == \/ Tick \/ Discover \/ Logger
         \/ InsertFails \/ CycleAborts \/ QueryFails \/ BatchFails
         \/ CleanupFails \/ \E s \in SystemIds : LookUpFails(s)

LEMMA NextCases == [Next]_vars <=> Quiet \/ AdminStep \/ Restart \/ UNCHANGED vars
BY DEF Next, Failure, Quiet

LEMMA QuietLeavesCatalog == ASSUME Quiet PROVE UNCHANGED catalog
BY DEF Quiet, Logger, Tick, Discover, WakeUp, Insert, StartServing,
       QueryPrometheus, BatchInsert, LookUp, BatchLookUp, SkipCleanup,
       Cleanup, InsertFails, CycleAborts, QueryFails, BatchFails,
       CleanupFails, LookUpFails

(* The rows that a step inserts were made by the logger.                   *)
Made == IF at = "insert" THEN {row} ELSE rows

LEMMA QuietHistory ==
  ASSUME Quiet
  PROVE  \/ history' \subseteq history
         \/ Accepted(Made) /\ history' = history \cup Inserted(Made)
<1>1. CASE Insert \/ BatchInsert
  BY <1>1 DEF Insert, BatchInsert, Log, Made
<1>2. CASE Cleanup
  BY <1>2 DEF Cleanup
<1>3. CASE UNCHANGED history
  BY <1>3
<1> QED
  BY <1>1, <1>2, <1>3
  DEF Quiet, Logger, Tick, Discover, WakeUp, StartServing, QueryPrometheus,
      LookUp, BatchLookUp, SkipCleanup, InsertFails, CycleAborts, QueryFails,
      BatchFails, CleanupFails, LookUpFails

(* Whatever the logger inserts refers to systems that exist.               *)
LEMMA QuietRefers ==
  ASSUME C!Keyed, Quiet PROVE Referenced' \subseteq C!IdsOf(systems)
<1>1. Referenced \subseteq C!IdsOf(systems)
  BY DEF C!Keyed
<1>2. Accepted(Made) => \A h \in Inserted(Made) : h.system \in C!IdsOf(systems)
  BY DEF Accepted, Inserted
<1> QED
  BY <1>1, <1>2, QuietHistory DEF Referenced

(* Every step of the composition is a step of the catalog or leaves it as  *)
(* it is.                                                                  *)
LEMMA StepRefines == ASSUME C!Keyed, [Next]_vars PROVE [C!Next]_(C!vars)
<1>1. CASE Quiet
  <2>1. UNCHANGED <<C!tables, C!handlers>>
    BY <1>1, QuietLeavesCatalog DEF catalog, C!tables, C!handlers
  <2>2. Referenced' \in SUBSET C!IdsOf(systems)
    BY <1>1, QuietRefers
  <2> QED
    BY <2>1, <2>2 DEF C!Refer, C!Next
<1>2. CASE AdminStep
  BY <1>2 DEF AdminStep, C!Next
<1>3. CASE Restart
  BY <1>3 DEF Restart, C!Next
<1>4. CASE UNCHANGED vars
  BY <1>4 DEF vars, catalog, C!vars, C!tables, C!handlers, Referenced
<1> QED
  BY <1>1, <1>2, <1>3, <1>4, NextCases

(***************************************************************************)
(* Keys                                                                    *)
(***************************************************************************)
LEMMA IdsAreNumbers == C!Id \subseteq Nat \ {0}
BY HistoryLogAssumption DEF HistoryLogAssumption, C!Id

(* What the catalog's rows are.                                            *)
LEMMA RowsOfSystems ==
  ASSUME C!TypeOK, NEW r \in systems
  PROVE  r.id \in C!Id /\ r.system_id \in SystemIds
BY DEF C!TypeOK, C!SystemRow

(* _get_system_pk() answers with a key that is true, or with none.         *)
LEMMA KeyIsTrue ==
  ASSUME IInv, NEW s \in SystemIds
  PROVE  /\ Key(s) \in {0} \cup C!Id
         /\ Key(s) # 0 => TrueKey([system |-> Key(s), checked |-> s])
<1>1. CASE cache[s] # 0
  BY <1>1 DEF IInv, TypeOK, KeysAreTrue, Key
<1>2. CASE cache[s] = 0 /\ s \in SystemIdsOf(systems)
  <2> DEFINE r == CHOOSE q \in systems : q.system_id = s
  <2>1. r \in systems /\ r.system_id = s
    BY <1>2 DEF SystemIdsOf
  <2>2. Key(s) = r.id
    BY <1>2 DEF Key
  <2> HIDE DEF r
  <2>3. r.id \in C!Id /\ r.id < system_seq
    BY <2>1, RowsOfSystems DEF IInv, TypeOK, C!Keyed
  <2>4. \A q \in systems : q.id = r.id => q.system_id = s
    BY <2>1 DEF IInv, C!Keyed
  <2> QED
    BY <2>2, <2>3, <2>4 DEF TrueKey
<1>3. CASE cache[s] = 0 /\ s \notin SystemIdsOf(systems)
  BY <1>3 DEF Key
<1> QED
  BY <1>1, <1>2, <1>3

(* A true key stays true whatever the catalog does: an id does not come to *)
(* mean another system.                                                    *)
LEMMA TrueKeyStays ==
  ASSUME C!TypeOK, C!TypeOK', CP!IdsKept, NEW r, r.system \in C!Id, TrueKey(r)
  PROVE  TrueKey(r)'
<1>1. system_seq \in Nat /\ system_seq' \in Nat /\ r.system \in Nat
  <2>1. system_seq \in 1..(MaxId + 1) /\ system_seq' \in 1..(MaxId + 1)
    BY DEF C!TypeOK
  <2>2. MaxId \in Nat
    BY HistoryLogAssumption DEF HistoryLogAssumption
  <2>3. r.system \in Nat
    BY IdsAreNumbers
  <2> QED
    BY <2>1, <2>2, <2>3
<1>2. \A q \in systems' : q.id \in Nat
  <2>1. \A q \in systems' : q.id \in C!Id
    BY DEF C!TypeOK, C!SystemRow
  <2> QED
    BY <2>1, IdsAreNumbers
<1>3. r.system < system_seq /\ system_seq' >= system_seq
  BY DEF TrueKey, CP!IdsKept
<1>4. ASSUME NEW q \in systems', q.id = r.system
      PROVE  q.system_id = r.checked
  BY <1>1, <1>2, <1>3, <1>4 DEF TrueKey, CP!IdsKept
<1> QED
  BY <1>1, <1>3, <1>4 DEF TrueKey

(***************************************************************************)
(* Types                                                                   *)
(***************************************************************************)
LEMMA LogTypes ==
  ASSUME TypeOK, NEW rws \in SUBSET LoggedRow, Log(rws)
  PROVE  /\ history' \subseteq [system : C!Id, checked : SystemIds, time : Nat]
         /\ logged' \subseteq SystemIds
<1>1. /\ Inserted(rws) \subseteq [system : C!Id, checked : SystemIds, time : Nat]
      /\ {r.checked : r \in rws} \subseteq SystemIds
  BY DEF Inserted, LoggedRow, TypeOK
<1> QED
  BY <1>1 DEF Log, TypeOK

LEMMA LoggedSystems ==
  ASSUME C!TypeOK PROVE SystemIdsOf(systems) \subseteq SystemIds
BY RowsOfSystems DEF SystemIdsOf

(* TypeOK without the catalog's part.                                      *)
LoggerTypes ==
  /\ clock \in Nat
  /\ history \subseteq [system : C!Id, checked : SystemIds, time : Nat]
  /\ cache \in [SystemIds -> {0} \cup C!Id]
  /\ last_cleanup \in Nat
  /\ at \in {"sleep", "single", "insert", "batch", "cleanup"}
  /\ todo \subseteq SystemIds
  /\ row \in LoggedRow \cup {NoRow}
  /\ at = "insert" => row \in LoggedRow
  /\ rows \subseteq LoggedRow
  /\ targets \subseteq Blackbox
  /\ faults \in Nat
  /\ serving \in BOOLEAN
  /\ logged \subseteq SystemIds /\ overdue \in BOOLEAN

LEMMA QuietTypes == ASSUME IInv, Quiet PROVE LoggerTypes'
<1>0. LoggerTypes /\ C!TypeOK
  BY DEF IInv, TypeOK, LoggerTypes
<1> USE DEF LoggerTypes
<1>1. CASE Tick
  BY <1>0, <1>1 DEF Tick, logger
<1>2. CASE Discover
  <2>1. targets' \subseteq Blackbox
    BY <1>2 DEF Discover
  <2> QED
    BY <1>0, <1>2, <2>1 DEF Discover, logger
<1>3. CASE WakeUp
  <2>1. todo' \subseteq SystemIds
    BY <1>0, <1>3, LoggedSystems DEF WakeUp
  <2> QED
    BY <1>0, <1>3, <2>1 DEF WakeUp
<1>4. ASSUME NEW s \in SystemIds, LookUp(s) PROVE LoggerTypes'
  <2>1. cache' \in [SystemIds -> {0} \cup C!Id] /\ todo' \subseteq SystemIds
    BY <1>0, <1>4, KeyIsTrue DEF LookUp, Remember
  <2>2. CASE Key(s) = 0
    BY <1>0, <1>4, <2>1, <2>2 DEF LookUp
  <2>3. CASE Key(s) # 0
    <3>1. at' = "insert" /\ row' \in LoggedRow
      BY <1>4, <2>3, KeyIsTrue DEF LookUp, LoggedRow
    <3> QED
      BY <1>0, <1>4, <2>1, <3>1 DEF LookUp
  <2> QED
    BY <2>2, <2>3
<1>5. ASSUME NEW s \in SystemIds, LookUpFails(s) PROVE LoggerTypes'
  BY <1>0, <1>5 DEF LookUpFails, Fault
<1>6. CASE Insert
  <2>1. {row} \in SUBSET LoggedRow
    BY <1>0, <1>6 DEF Insert
  <2>2. /\ history' \subseteq [system : C!Id, checked : SystemIds, time : Nat]
        /\ logged' \subseteq SystemIds
    BY <1>6, <2>1, LogTypes DEF Insert, IInv
  <2> QED
    BY <1>0, <1>6, <2>2 DEF Insert
<1>7. CASE InsertFails
  BY <1>0, <1>7 DEF InsertFails, Fault
<1>8. CASE StartServing
  BY <1>0, <1>8 DEF StartServing
<1>9. CASE QueryPrometheus
  <2>1. todo' \subseteq SystemIds
    BY <1>0, <1>9, HistoryLogAssumption
    DEF QueryPrometheus, HistoryLogAssumption
  <2> QED
    BY <1>0, <1>9, <2>1 DEF QueryPrometheus
<1>10. CASE CycleAborts \/ QueryFails
  BY <1>0, <1>10 DEF CycleAborts, QueryFails, Fault
<1>11. ASSUME NEW s \in SystemIds, BatchLookUp(s) PROVE LoggerTypes'
  <2>1. cache' \in [SystemIds -> {0} \cup C!Id] /\ todo' \subseteq SystemIds
    BY <1>0, <1>11, KeyIsTrue DEF BatchLookUp, Remember
  <2>2. rows' \subseteq LoggedRow
    BY <1>0, <1>11, KeyIsTrue DEF BatchLookUp, LoggedRow
  <2> QED
    BY <1>0, <1>11, <2>1, <2>2 DEF BatchLookUp
<1>12. CASE BatchInsert
  <2>1. /\ history' \subseteq [system : C!Id, checked : SystemIds, time : Nat]
        /\ logged' \subseteq SystemIds
    BY <1>0, <1>12, LogTypes DEF BatchInsert, IInv
  <2> QED
    BY <1>0, <1>12, <2>1 DEF BatchInsert
<1>13. CASE BatchFails
  BY <1>0, <1>13 DEF BatchFails, Fault
<1>14. CASE SkipCleanup
  BY <1>0, <1>14 DEF SkipCleanup
<1>15. CASE Cleanup
  BY <1>0, <1>15 DEF Cleanup
<1>16. CASE CleanupFails
  BY <1>0, <1>16 DEF CleanupFails, Fault
<1> QED
  BY <1>1, <1>2, <1>3, <1>4, <1>5, <1>6, <1>7, <1>8, <1>9, <1>10, <1>11,
     <1>12, <1>13, <1>14, <1>15, <1>16
  DEF Quiet, Logger

(***************************************************************************)
(* The invariant                                                           *)
(***************************************************************************)

(* The logger looks keys up, moves them from cache to row and rows, and    *)
(* forgets them; the catalog does not change meanwhile.                    *)
LEMMA QuietKeys == ASSUME IInv, Quiet PROVE KeysAreTrue'
<1>0. UNCHANGED <<systems, system_seq>> /\ KeysAreTrue
  BY QuietLeavesCatalog DEF catalog, IInv
<1>1. \A r : TrueKey(r)' <=> TrueKey(r)
  BY <1>0 DEF TrueKey
<1>2. ASSUME NEW s \in SystemIds, LookUp(s) PROVE KeysAreTrue'
  <2>1. \A t \in SystemIds :
          cache'[t] # 0 => TrueKey([system |-> cache'[t], checked |-> t])
    BY <1>0, <1>2, KeyIsTrue
    DEF LookUp, Remember, KeysAreTrue, IInv, TypeOK
  <2>2. at' = "insert" => TrueKey(row')
    BY <1>0, <1>2, KeyIsTrue DEF LookUp, KeysAreTrue
  <2>3. UNCHANGED rows
    BY <1>2 DEF LookUp
  <2> QED
    BY <1>0, <1>1, <2>1, <2>2, <2>3 DEF KeysAreTrue, TrueKey
<1>3. ASSUME NEW s \in SystemIds, BatchLookUp(s) PROVE KeysAreTrue'
  <2>1. \A t \in SystemIds :
          cache'[t] # 0 => TrueKey([system |-> cache'[t], checked |-> t])
    BY <1>0, <1>3, KeyIsTrue
    DEF BatchLookUp, Remember, KeysAreTrue, IInv, TypeOK
  <2>2. \A r \in rows' : TrueKey(r)
    BY <1>0, <1>3, KeyIsTrue DEF BatchLookUp, KeysAreTrue
  <2>3. UNCHANGED <<at, row>>
    BY <1>3 DEF BatchLookUp
  <2> QED
    BY <1>0, <1>1, <2>1, <2>2, <2>3 DEF KeysAreTrue, TrueKey
<1>4. ASSUME UNCHANGED cache,
             at' = "insert" => at = "insert" /\ row' = row,
             rows' \subseteq rows
      PROVE  KeysAreTrue'
  BY <1>0, <1>1, <1>4 DEF KeysAreTrue, TrueKey
<1>5. CASE Tick \/ Discover \/ WakeUp \/ Insert \/ StartServing
           \/ QueryPrometheus \/ BatchInsert \/ SkipCleanup \/ Cleanup
  BY <1>4, <1>5
  DEF Tick, Discover, WakeUp, Insert, StartServing, QueryPrometheus,
      BatchInsert, SkipCleanup, Cleanup, logger
<1>6. CASE \/ InsertFails \/ CycleAborts \/ QueryFails \/ BatchFails
           \/ CleanupFails \/ \E s \in SystemIds : LookUpFails(s)
  BY <1>4, <1>6
  DEF InsertFails, CycleAborts, QueryFails, BatchFails, CleanupFails,
      LookUpFails
<1> QED
  BY <1>2, <1>3, <1>5, <1>6 DEF Quiet, Logger

(* An accepted row with a true key belongs to the system that was checked. *)
LEMMA QuietRight == ASSUME IInv, Quiet PROVE RightSystem'
<1>1. UNCHANGED systems /\ RightSystem
  BY QuietLeavesCatalog DEF catalog, IInv
<1>2. \A r \in Made : TrueKey(r)
  BY DEF Made, IInv, KeysAreTrue
<1>3. ASSUME Accepted(Made), NEW h \in Inserted(Made)
      PROVE  \E r \in systems : r.id = h.system /\ r.system_id = h.checked
  BY <1>2, <1>3 DEF Accepted, Inserted, TrueKey, C!IdsOf
<1> QED
  BY <1>1, <1>3, QuietHistory DEF RightSystem

(* The catalog takes no system away that the log refers to, and gives its  *)
(* id to no other.                                                         *)
LEMMA CatalogRight ==
  ASSUME IInv, UNCHANGED history, C!TypeOK', C!Keyed', CP!IdsKept
  PROVE  RightSystem'
<1> SUFFICES ASSUME NEW h \in history
             PROVE  \E r \in systems' : r.id = h.system /\ r.system_id = h.checked
  BY DEF RightSystem
<1>1. PICK q \in systems : q.id = h.system /\ q.system_id = h.checked
  BY DEF IInv, RightSystem
<1>2. h.system \in Referenced'
  BY DEF Referenced
<1>3. PICK r \in systems' : r.id = h.system
  BY <1>2 DEF C!Keyed, C!IdsOf
<1>4. q.id < system_seq /\ q.id \in Nat
  BY <1>1, RowsOfSystems, IdsAreNumbers DEF IInv, TypeOK, C!Keyed
<1>5. system_seq \in Nat
  BY HistoryLogAssumption DEF HistoryLogAssumption, IInv, TypeOK, C!TypeOK
<1>6. PICK p \in systems : p.id = r.id /\ p.system_id = r.system_id
  BY <1>1, <1>3, <1>4, <1>5 DEF CP!IdsKept
<1>7. p = q
  BY <1>1, <1>3, <1>6 DEF IInv, C!Keyed
<1> QED
  BY <1>1, <1>3, <1>6, <1>7

LEMMA CatalogKeys ==
  ASSUME IInv, AdminStep, C!TypeOK', CP!IdsKept PROVE KeysAreTrue'
<1>1. UNCHANGED <<cache, at, row, rows>>
  BY DEF AdminStep, logger
<1>2. C!TypeOK /\ KeysAreTrue /\ LoggerTypes
  BY DEF IInv, TypeOK, LoggerTypes
<1>3. ASSUME NEW s \in SystemIds, cache[s] # 0
      PROVE  TrueKey([system |-> cache[s], checked |-> s])'
  <2> DEFINE r == [system |-> cache[s], checked |-> s]
  <2>1. TrueKey(r) /\ r.system \in C!Id
    BY <1>2, <1>3 DEF KeysAreTrue, LoggerTypes
  <2>2. TrueKey(r)'
    BY <1>1, <1>2, <2>1, TrueKeyStays DEF TrueKey
  <2> QED
    BY <2>2
<1>4. \A r \in LoggedRow : TrueKey(r) => TrueKey(r)'
  BY <1>2, TrueKeyStays DEF LoggedRow
<1>5. at' = "insert" => TrueKey(row)'
  BY <1>1, <1>2, <1>4 DEF KeysAreTrue, LoggerTypes, TrueKey
<1>6. \A r \in rows' : TrueKey(r)'
  BY <1>1, <1>2, <1>4 DEF KeysAreTrue, LoggerTypes
<1> QED
  BY <1>1, <1>3, <1>5, <1>6 DEF KeysAreTrue, TrueKey

LEMMA IInvInductive == ASSUME IInv, [Next]_vars PROVE IInv'
<1>1. C!TypeOK' /\ C!Keyed' /\ CP!IdsKept
  BY StepRefines, CatalogStep DEF IInv, TypeOK
<1>2. CASE Quiet
  <2>1. TypeOK'
    BY <1>1, <1>2, QuietTypes DEF LoggerTypes, TypeOK
  <2> QED
    BY <1>1, <1>2, <2>1, QuietKeys, QuietRight DEF IInv
<1>3. CASE AdminStep
  <2>1. TypeOK'
    BY <1>1, <1>3 DEF AdminStep, IInv, TypeOK, logger
  <2>2. UNCHANGED history
    BY <1>3 DEF AdminStep
  <2> QED
    BY <1>1, <1>3, <2>1, <2>2, CatalogKeys, CatalogRight DEF IInv
<1>4. CASE Restart
  <2>1. UNCHANGED <<history, systems>>
    BY <1>4 DEF Restart, C!ProcessEnds, C!tables
  <2>2. LoggerTypes'
    <3>1. faults' \in Nat
      BY <1>4 DEF Restart, Fault, IInv, TypeOK
    <3>2. cache' \in [SystemIds -> {0} \cup C!Id]
      BY <1>4 DEF Restart
    <3>3. /\ at' = "sleep" /\ todo' = {} /\ row' = NoRow /\ rows' = {}
          /\ last_cleanup' = 0 /\ serving' = FALSE
          /\ UNCHANGED <<clock, history, targets, logged, overdue>>
      BY <1>4 DEF Restart
    <3>4. LoggerTypes
      BY DEF IInv, TypeOK, LoggerTypes
    <3> QED
      BY <3>1, <3>2, <3>3, <3>4 DEF LoggerTypes
  <2>3. KeysAreTrue'
    BY <1>4 DEF Restart, KeysAreTrue
  <2>4. RightSystem'
    BY <2>1 DEF IInv, RightSystem
  <2> QED
    BY <1>1, <2>2, <2>3, <2>4 DEF IInv, TypeOK, LoggerTypes
<1>5. CASE UNCHANGED vars
  <2>1. UNCHANGED <<systems, system_seq, history, cache, at, row, rows>>
    BY <1>5 DEF vars, catalog, logger
  <2>2. LoggerTypes'
    BY <1>5 DEF vars, logger, IInv, TypeOK, LoggerTypes
  <2>3. KeysAreTrue' /\ RightSystem'
    BY <2>1 DEF IInv, KeysAreTrue, TrueKey, RightSystem
  <2> QED
    BY <1>1, <2>2, <2>3 DEF IInv, TypeOK, LoggerTypes
<1> QED
  BY <1>2, <1>3, <1>4, <1>5, NextCases

LEMMA InitIInv == Init => IInv
<1> SUFFICES ASSUME Init PROVE IInv
  OBVIOUS
<1>1. C!TypeOK /\ C!Keyed
  BY SameStates, SameInvariant, SameAssumption, CP!InitInvariant DEF Init
<1>2. LoggerTypes
  BY HistoryLogAssumption DEF HistoryLogAssumption, Init, LoggerTypes
<1>3. KeysAreTrue /\ RightSystem
  BY DEF Init, KeysAreTrue, RightSystem
<1> QED
  BY <1>1, <1>2, <1>3 DEF IInv, TypeOK, LoggerTypes

(* Every row of the log belongs to the system that was checked, though its *)
(* key may have been remembered since before the system was edited, or     *)
(* deleted and created again.                                              *)
THEOREM Invariance == Spec => []IInv
BY InitIInv, IInvInductive, PTL DEF Spec

(* The logger and the admin UI together do to the catalog what the catalog *)
(* foresees.                                                               *)
THEOREM Refinement == Spec => RespectsCatalog
<1>1. Init => C!Init
  BY DEF Init
<1>2. IInv /\ [Next]_vars => [C!Next]_(C!vars)
  BY StepRefines DEF IInv
<1> QED
  BY <1>1, <1>2, Invariance, PTL DEF Spec, RespectsCatalog, C!Spec

(***************************************************************************)
(* Retention                                                               *)
(***************************************************************************)

(* What a step of the logger does to the log, seen from the cleanup.       *)
LEMMA QuietDeletes ==
  ASSUME Quiet
  PROVE  \/ history \subseteq history'
         \/ Cleanup /\ history' = {h \in history : ~Expired(h)}
<1>1. CASE Insert \/ BatchInsert
  BY <1>1 DEF Insert, BatchInsert, Log
<1>2. CASE Cleanup
  BY <1>2 DEF Cleanup
<1>3. CASE UNCHANGED history
  BY <1>3
<1> QED
  BY <1>1, <1>2, <1>3
  DEF Quiet, Logger, Tick, Discover, WakeUp, StartServing, QueryPrometheus,
      LookUp, BatchLookUp, SkipCleanup, InsertFails, CycleAborts, QueryFails,
      BatchFails, CleanupFails, LookUpFails

(* The retention takes no row before its time, and nothing else takes any. *)
THEOREM KeepsYoungRowsHolds == Spec => KeepsYoungRows
<1>1. [Next]_vars => [\A h \in history \ history' : h.time < clock - Retention]_vars
  <2> SUFFICES ASSUME [Next]_vars, NEW h \in history, h \notin history'
               PROVE  h.time < clock - Retention
    BY DEF vars
  <2>1. Quiet
    BY NextCases DEF AdminStep, Restart, vars
  <2> QED
    BY <2>1, QuietDeletes DEF Expired
<1> QED
  BY <1>1, PTL DEF Spec, KeepsYoungRows

(* After the last successful cleanup no row was older than the retention,  *)
(* and rows written since are younger than that cleanup.                   *)
SweptAt ==
  /\ last_cleanup =< clock
  /\ ~overdue => \A h \in history : h.time >= last_cleanup - Retention

LEMMA SweptAtInductive ==
  ASSUME LoggerTypes, SweptAt, [Next]_vars PROVE SweptAt'
<1>0. /\ clock \in Nat /\ last_cleanup \in Nat /\ Retention \in Nat
      /\ \A h \in history : h.time \in Nat
  BY HistoryLogAssumption DEF HistoryLogAssumption, LoggerTypes
<1>1. CASE Insert \/ BatchInsert
  <2>1. /\ UNCHANGED <<clock, last_cleanup, overdue>>
        /\ \E rws : history' \subseteq history \cup Inserted(rws)
    BY <1>1 DEF Insert, BatchInsert, Log
  <2>2. \A h \in history' : h \in history \/ h.time = clock
    BY <2>1 DEF Inserted
  <2> QED
    BY <1>0, <2>1, <2>2 DEF SweptAt
<1>2. CASE Cleanup
  <2>1. /\ last_cleanup' = clock /\ UNCHANGED clock
        /\ history' = {h \in history : ~Expired(h)}
    BY <1>2 DEF Cleanup
  <2> QED
    BY <1>0, <2>1 DEF SweptAt, Expired
<1>3. CASE CleanupFails
  BY <1>0, <1>3 DEF CleanupFails, SweptAt
<1>4. CASE Restart
  <2>1. last_cleanup' = 0 /\ UNCHANGED <<clock, history, overdue>>
    BY <1>4 DEF Restart
  <2> QED
    BY <1>0, <2>1 DEF SweptAt
<1>5. CASE Tick
  <2>1. clock' = clock + 1 /\ UNCHANGED <<last_cleanup, history, overdue>>
    BY <1>5 DEF Tick, logger
  <2> QED
    BY <1>0, <2>1 DEF SweptAt
<1>6. CASE UNCHANGED <<clock, history, last_cleanup, overdue>>
  BY <1>6 DEF SweptAt
<1>7. CASE AdminStep \/ Discover \/ UNCHANGED vars
  BY <1>6, <1>7 DEF AdminStep, Discover, vars, logger
<1>8. CASE \/ WakeUp \/ StartServing \/ QueryPrometheus \/ SkipCleanup
           \/ InsertFails \/ CycleAborts \/ QueryFails \/ BatchFails
           \/ \E s \in SystemIds : LookUp(s) \/ BatchLookUp(s) \/ LookUpFails(s)
  BY <1>6, <1>8
  DEF WakeUp, StartServing, QueryPrometheus, SkipCleanup, InsertFails,
      CycleAborts, QueryFails, BatchFails, LookUp, BatchLookUp, LookUpFails
<1> QED
  BY <1>1, <1>2, <1>3, <1>4, <1>5, <1>7, <1>8, NextCases DEF Quiet, Logger

(* A cycle that ends, and whose last cleanup did not fail, leaves no row   *)
(* older than the retention and one interval.                              *)
THEOREM BoundedAgeHolds == Spec => BoundedAge
<1>1. Init => SweptAt
  BY HistoryLogAssumption DEF HistoryLogAssumption, Init, SweptAt
<1>2. IInv => LoggerTypes
  BY DEF IInv, TypeOK, LoggerTypes
<1>3. IInv /\ SweptAt /\ [Next]_vars =>
        [ at = "cleanup" /\ at' = "sleep" /\ ~overdue' /\ faults' = faults
          => \A h \in history' : clock - h.time =< Retention + Interval ]_vars
  <2> SUFFICES ASSUME LoggerTypes, SweptAt, [Next]_vars,
                      at = "cleanup", at' = "sleep", ~overdue',
                      faults' = faults, NEW h \in history'
               PROVE  clock - h.time =< Retention + Interval
    BY <1>2 DEF vars
  <2>0. /\ clock \in Nat /\ last_cleanup \in Nat
        /\ Retention \in Nat /\ Interval \in Nat
        /\ \A g \in history : g.time \in Nat
    BY HistoryLogAssumption DEF HistoryLogAssumption, LoggerTypes
  <2>1. CASE SkipCleanup
    <3>1. /\ clock - last_cleanup < Interval
          /\ UNCHANGED <<history, overdue>>
      BY <2>0, <2>1 DEF SkipCleanup, CleanupDue
    <3> QED
      BY <2>0, <3>1 DEF SweptAt
  <2>2. CASE Cleanup
    <3>1. h \in history /\ ~(h.time < clock - Retention)
      BY <2>2 DEF Cleanup, Expired
    <3> QED
      BY <2>0, <3>1
  <2>3. faults \in Nat
    BY DEF LoggerTypes
  <2>4. ~Fault
    BY <2>3 DEF Fault
  <2>5. ~Restart /\ ~CleanupFails
    BY <2>4 DEF Restart, CleanupFails
  <2>6. SkipCleanup \/ Cleanup
    BY <2>5, NextCases
    DEF Quiet, Logger, Tick, Discover, WakeUp, Insert, StartServing,
        QueryPrometheus, BatchInsert, LookUp, BatchLookUp, InsertFails,
        CycleAborts, QueryFails, BatchFails, LookUpFails, AdminStep, vars,
        logger
  <2> QED
    BY <2>1, <2>2, <2>6
<1>4. IInv /\ SweptAt /\ [Next]_vars => SweptAt'
  BY <1>2, SweptAtInductive
<1> QED
  BY <1>1, <1>3, <1>4, Invariance, PTL DEF Spec, BoundedAge
=============================================================================
