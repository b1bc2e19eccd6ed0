------------------------- MODULE DatasourceSyncProofs -------------------------
(***************************************************************************)
(* For all names, rows, data sources and bounds: what a cycle in which no  *)
(* call failed leaves behind in Grafana, whatever was edited on both sides *)
(* between its calls.                                                      *)
(***************************************************************************)
EXTENDS DatasourceSync, TLAPS

(***************************************************************************)
(* Types                                                                   *)
(***************************************************************************)
RowType == [name : Names, settings : {r.settings : r \in Rows}]

LEMMA PayloadType == \A r \in RowType : Payload(r) \in Datasource
BY DEF RowType, Payload, Datasource

LEMMA CalledType ==
  ASSUME grafana \subseteq Datasource, NEW r \in RowType
  PROVE  Called(r) \subseteq Datasource
BY PayloadType DEF Called, Posted, Putted

LEMMA InitTypeOK == Init => TypeOK
<1> SUFFICES ASSUME Init PROVE TypeOK
  OBVIOUS
<1>1. grafana \subseteq Datasource /\ before \subseteq Datasource
  BY DatasourceSyncAssumption DEF Init, DatasourceSyncAssumption
<1> QED
  BY <1>1 DEF Init, TypeOK

LEMMA AbortType ==
  ASSUME TypeOK, Abort, grafana' \subseteq Datasource PROVE TypeOK'
<1>0. faults \in Nat
  BY DEF TypeOK
<1>1. faults' \in Nat /\ pc' = "sleep" /\ rows' = {} /\ calm' = FALSE
  BY <1>0 DEF Abort
<1>2. UNCHANGED <<table, existing, edits, hands, settled, before>>
  BY DEF Abort
<1> QED
  BY <1>1, <1>2 DEF TypeOK

LEMMA TypeOKInductive == ASSUME TypeOK, [Next]_vars PROVE TypeOK'
<1>1. ASSUME NEW n \in Names, Edit(n) PROVE TypeOK'
  <2>1. /\ table' \in [Names -> Rows \cup {NoRow}]
        /\ edits' \in Nat /\ settled' \subseteq Names
    BY <1>1 DEF Edit, TypeOK
  <2> QED
    BY <1>1, <2>1 DEF Edit, TypeOK
<1>2. ASSUME NEW d \in Datasource, HandPut(d) PROVE TypeOK'
  <2>1. /\ grafana' \subseteq Datasource
        /\ hands' \in Nat /\ settled' \subseteq Names
    BY <1>2 DEF HandPut, Unsettle, TypeOK
  <2> QED
    BY <1>2, <2>1 DEF HandPut, TypeOK
<1>3. ASSUME NEW d \in grafana, HandDelete(d) PROVE TypeOK'
  <2>1. /\ grafana' \subseteq Datasource
        /\ hands' \in Nat /\ settled' \subseteq Names
    BY <1>3 DEF HandDelete, Unsettle, TypeOK
  <2> QED
    BY <1>3, <2>1 DEF HandDelete, TypeOK
<1>4. CASE ReadTable
  <2>1. \A m \in Names : table[m].is_enable => table[m] \in Rows
    <3>1. ~NoRow.is_enable
      BY DEF NoRow
    <3> QED
      BY <3>1 DEF TypeOK
  <2>2. rows' \subseteq RowType
    BY <1>4, <2>1 DEF ReadTable, RowType
  <2> QED
    BY <1>4, <2>2 DEF ReadTable, TypeOK, RowType, bounds
<1>5. CASE ListGrafana
  BY <1>5 DEF ListGrafana, TypeOK, bounds, history
<1>6. ASSUME NEW r \in rows, Write(r) PROVE TypeOK'
  <2>1. grafana' \subseteq Datasource
    BY <1>6, CalledType DEF Write, TypeOK, RowType
  <2> QED
    BY <1>6, <2>1 DEF Write, TypeOK, bounds, history
<1>7. CASE EndCycle
  BY <1>7 DEF EndCycle, TypeOK, bounds, history
<1>8. CASE ReadTableFails \/ ListGrafanaFails
  BY <1>8, AbortType DEF ReadTableFails, ListGrafanaFails, TypeOK
<1>9. ASSUME NEW r \in rows, WriteRefused(r) PROVE TypeOK'
  <2>0. faults \in Nat
    BY DEF TypeOK
  <2>1. faults' \in Nat /\ calm' = FALSE /\ rows' \subseteq rows
    BY <1>9, <2>0 DEF WriteRefused
  <2>2. /\ pc = "write"
        /\ UNCHANGED <<table, grafana, pc, existing, edits, hands, settled,
                       before>>
    BY <1>9 DEF WriteRefused
  <2> QED
    BY <2>1, <2>2 DEF TypeOK
<1>10. ASSUME NEW r \in rows, WriteLost(r) PROVE TypeOK'
  <2>1. grafana' \subseteq Datasource
    BY <1>10, CalledType DEF WriteLost, TypeOK, RowType
  <2> QED
    BY <1>10, <2>1, AbortType DEF WriteLost
<1>11. CASE UNCHANGED vars
  BY <1>11 DEF vars, bounds, history, TypeOK
<1> QED
  BY <1>1, <1>2, <1>3, <1>4, <1>5, <1>6, <1>7, <1>8, <1>9, <1>10, <1>11
  DEF Next, Sync, Failure

(* Every state of the sync has the shape TypeOK gives; in particular it    *)
(* sends nothing that is no data source.                                   *)
THEOREM TypeCorrect == Spec => []TypeOK
BY InitTypeOK, TypeOKInductive, PTL DEF Spec

(***************************************************************************)
(* A calm cycle, one name at a time                                        *)
(*                                                                         *)
(* Touch(ds, n) are the data sources that have to do with the name n.  As  *)
(* long as nobody edits them by hand, only the row n makes the sync change *)
(* them, if no uid was a different name when the cycle began; so until the *)
(* row's turn they are what was listed, and afterwards what was sent.      *)
(***************************************************************************)
Touch(ds, n) == {d \in ds : d.name = n \/ d.uid = n}

RowOf(n) == [name |-> n, settings |-> table[n].settings]

(* The row is read and still to be dealt with.                             *)
Pending(n) == RowOf(n) \in rows

Progress(n) ==
  /\ \A r \in rows : r.name = n => r = RowOf(n)
  /\ pc = "list" /\ table[n].is_enable => Pending(n)
  /\ Pending(n) => table[n].is_enable
  /\ pc = "write" => Touch(existing, n) = Touch(before, n)
  /\ IF table[n].is_enable /\ ~Pending(n)
     THEN Touch(grafana, n) # {} /\ \A d \in Touch(grafana, n) :
            d.name = n /\ d.uid = n /\ d.settings = Wire(table[n].settings)
     ELSE Touch(grafana, n) = Touch(before, n)

CalmCycle ==
  pc # "sleep" /\ calm =>
    \A n \in settled : Compatible(before, n) => Progress(n)

LEMMA Enough == ASSUME TypeOK, CalmCycle PROVE CycleSyncs
<1> SUFFICES ASSUME pc = "done", calm, NEW n \in settled, Compatible(before, n)
             PROVE  IF table[n].is_enable THEN Agrees(n)
                    ELSE Named(grafana, n) = Named(before, n)
  BY DEF CycleSyncs
<1>1. Progress(n) /\ ~Pending(n)
  BY DEF CalmCycle, TypeOK, Pending
<1>2. CASE table[n].is_enable
  BY <1>1, <1>2 DEF Progress, Agrees, Touch
<1>3. CASE ~table[n].is_enable
  <2>1. Touch(grafana, n) = Touch(before, n)
    BY <1>1, <1>3 DEF Progress
  <2> QED
    BY <1>3, <2>1 DEF Touch, Named
<1> QED
  BY <1>2, <1>3

(* A call for another row does not touch the name.                         *)
LEMMA OthersCalled ==
  ASSUME NEW n, NEW r, r.name # n, \A d \in Touch(grafana, n) : d.uid = n
  PROVE  Touch(Called(r), n) = Touch(grafana, n)
BY DEF Called, Posted, Putted, Touch, Payload

(* What the call for the row itself comes to, if the listing is right.     *)
LEMMA OwnCalled ==
  ASSUME NEW n, NEW r, r.name = n,
         Touch(existing, n) = Touch(grafana, n),
         \A d \in Touch(grafana, n) : d.name = n /\ d.uid = n
  PROVE  /\ Touch(Called(r), n) # {}
         /\ \A d \in Touch(Called(r), n) :
              d.name = n /\ d.uid = n /\ d.settings = Wire(r.settings)
<1> DEFINE p == Payload(r)
<1>1. p.name = n /\ p.uid = n /\ p.settings = Wire(r.settings)
  BY DEF Payload
<1>2. CASE Missing(r)
  <2>1. Touch(grafana, n) = {}
    BY <1>2 DEF Missing, Touch
  <2>2. Called(r) = grafana \cup {p}
    BY <1>2, <2>1 DEF Called, Posted, Touch
  <2> HIDE DEF p
  <2>3. Touch(Called(r), n) = {p}
    BY <1>1, <2>1, <2>2 DEF Touch
  <2> QED
    BY <1>1, <2>3
<1>3. CASE ~Missing(r) /\ Differs(r)
  <2>1. PICK e \in grafana : e.name = n /\ e.uid = n
    BY <1>3 DEF Missing, Touch
  <2>2. \A d \in grafana : d.name = n => d.uid = n
    BY DEF Touch
  <2>3. Called(r) = {d \in grafana : d.uid # n} \cup {p}
    BY <1>3, <2>1, <2>2 DEF Called, Putted
  <2> HIDE DEF p
  <2>4. Touch(Called(r), n) = {p}
    BY <1>1, <2>2, <2>3 DEF Touch
  <2> QED
    BY <1>1, <2>4
<1>4. CASE ~Missing(r) /\ ~Differs(r)
  <2>1. Called(r) = grafana
    BY <1>4 DEF Called
  <2>2. \E e \in existing : e.name = n
    BY <1>4 DEF Missing
  <2>3. \A e \in existing : e.name = n => e.settings = Wire(r.settings)
    BY <1>1, <1>4 DEF Differs
  <2> QED
    BY <2>1, <2>2, <2>3 DEF Touch
<1> QED
  BY <1>2, <1>3, <1>4

(* Steps that neither concern the name nor move the sync.                  *)
LEMMA ProgressStays ==
  ASSUME NEW n, Progress(n), table'[n] = table[n],
         Touch(grafana', n) = Touch(grafana, n),
         UNCHANGED <<pc, rows, existing, before>>
  PROVE  Progress(n)'
BY DEF Progress, Pending, RowOf, Touch

(* An edit by hand spares the names it leaves settled.                     *)
LEMMA HandsSpare ==
  ASSUME NEW ds, Unsettle(ds), NEW n \in settled'
  PROVE  n \in settled /\ \A d \in ds : d.name # n /\ d.uid # n
BY DEF Unsettle

LEMMA WriteProgress ==
  ASSUME TypeOK, NEW r \in rows, Write(r), NEW n \in settled,
         Compatible(before, n), Progress(n)
  PROVE  Progress(n)'
<1>1. /\ pc = "write" /\ rows' = rows \ {r} /\ grafana' = Called(r)
      /\ UNCHANGED <<table, pc, existing, before>>
  BY DEF Write, history
<1>2. \A d \in Touch(before, n) : d.name = n /\ d.uid = n
  BY DEF Compatible, Touch
<1>3. CASE r.name = n
  <2>1. r = RowOf(n)
    BY <1>3 DEF Progress
  <2>2. Pending(n) /\ r.settings = table[n].settings
    BY <2>1 DEF Pending, RowOf
  <2>3. /\ table[n].is_enable /\ Touch(grafana, n) = Touch(before, n)
        /\ Touch(existing, n) = Touch(before, n)
    BY <1>1, <2>2 DEF Progress
  <2>4. /\ Touch(grafana', n) # {}
        /\ \A d \in Touch(grafana', n) :
             d.name = n /\ d.uid = n /\ d.settings = Wire(table[n].settings)
    BY <1>1, <1>2, <1>3, <2>2, <2>3, OwnCalled
  <2>5. ~Pending(n)'
    BY <1>1, <2>1 DEF Pending, RowOf
  <2> QED
    BY <1>1, <2>3, <2>4, <2>5 DEF Progress, Touch, RowOf
<1>4. CASE r.name # n
  <2>1. \A d \in Touch(grafana, n) : d.uid = n
    BY <1>2 DEF Progress
  <2>2. Touch(grafana', n) = Touch(grafana, n)
    BY <1>1, <1>4, <2>1, OthersCalled
  <2>3. Pending(n)' <=> Pending(n)
    BY <1>1, <1>4 DEF Pending, RowOf
  <2> QED
    BY <1>1, <2>2, <2>3 DEF Progress, Touch, RowOf
<1> QED
  BY <1>3, <1>4

LEMMA CalmCycleInductive ==
  ASSUME TypeOK, TypeOK', CalmCycle, [Next]_vars PROVE CalmCycle'
<1>1. ASSUME NEW m \in Names, Edit(m) PROVE CalmCycle'
  <2>1. /\ UNCHANGED <<grafana, pc, rows, existing, calm, before>>
        /\ settled' = settled \ {m}
        /\ \A n \in Names \ {m} : table'[n] = table[n]
    BY <1>1 DEF Edit, TypeOK
  <2>2. settled \subseteq Names
    BY DEF TypeOK
  <2>3. \A n : Touch(grafana', n) = Touch(grafana, n)
    BY <2>1 DEF Touch
  <2> QED
    BY <2>1, <2>2, <2>3, ProgressStays DEF CalmCycle, Compatible
<1>2. ASSUME NEW d \in Datasource, HandPut(d) PROVE CalmCycle'
  <2>1. /\ UNCHANGED <<table, pc, rows, existing, calm, before>>
        /\ grafana' = {e \in grafana : e.uid # d.uid} \cup {d}
        /\ Unsettle({d} \cup {e \in grafana : e.uid = d.uid})
    BY <1>2 DEF HandPut
  <2>2. \A n \in settled' : n \in settled /\ Touch(grafana', n) = Touch(grafana, n)
    BY <2>1, HandsSpare DEF Touch
  <2> QED
    BY <2>1, <2>2, ProgressStays DEF CalmCycle, Compatible
<1>3. ASSUME NEW d \in grafana, HandDelete(d) PROVE CalmCycle'
  <2>1. /\ UNCHANGED <<table, pc, rows, existing, calm, before>>
        /\ grafana' = grafana \ {d} /\ Unsettle({d})
    BY <1>3 DEF HandDelete
  <2>2. \A n \in settled' : n \in settled /\ Touch(grafana', n) = Touch(grafana, n)
    BY <2>1, HandsSpare DEF Touch
  <2> QED
    BY <2>1, <2>2, ProgressStays DEF CalmCycle, Compatible
<1>4. CASE ReadTable
  <2>1. /\ rows' = {RowOf(m) : m \in {k \in Names : table[k].is_enable}}
        /\ settled' = Names /\ before' = grafana
        /\ pc' = (IF rows' = {} THEN "done" ELSE "list")
        /\ UNCHANGED <<table, grafana>>
    BY <1>4 DEF ReadTable, RowOf
  <2>2. ASSUME NEW n \in Names PROVE Progress(n)'
    <3>1. RowOf(n) \in rows' <=> table[n].is_enable
      BY <2>1 DEF RowOf
    <3>2. \A r \in rows' : r.name = n => r = RowOf(n)
      BY <2>1 DEF RowOf
    <3>3. Touch(grafana', n) = Touch(before', n)
      BY <2>1
    <3> QED
      BY <2>1, <3>1, <3>2, <3>3 DEF Progress, Pending, RowOf, Touch
  <2> QED
    BY <2>1, <2>2 DEF CalmCycle
<1>5. CASE ListGrafana
  <2>1. /\ pc = "list" /\ pc' = "write" /\ existing' = grafana
        /\ UNCHANGED <<table, grafana, rows, settled, calm, before>>
    BY <1>5 DEF ListGrafana, history
  <2>2. ASSUME NEW n, Progress(n) PROVE Progress(n)'
    <3>1. Touch(grafana, n) = Touch(before, n)
      BY <2>1, <2>2 DEF Progress
    <3> QED
      BY <2>1, <2>2, <3>1 DEF Progress, Pending, RowOf, Touch
  <2> QED
    BY <2>1, <2>2 DEF CalmCycle, Compatible
<1>6. ASSUME NEW r \in rows, Write(r) PROVE CalmCycle'
  <2>1. UNCHANGED <<pc, settled, calm, before>>
    BY <1>6 DEF Write, history
  <2> QED
    BY <1>6, <2>1, WriteProgress DEF CalmCycle, Compatible
<1>7. CASE EndCycle
  <2>1. /\ pc = "write" /\ pc' = "done"
        /\ UNCHANGED <<table, grafana, rows, existing, settled, calm, before>>
    BY <1>7 DEF EndCycle, history
  <2>2. ASSUME NEW n, Progress(n) PROVE Progress(n)'
    BY <2>1, <2>2 DEF Progress, Pending, RowOf, Touch
  <2> QED
    BY <2>1, <2>2 DEF CalmCycle, Compatible
<1>8. CASE Failure
  <2>1. ~calm'
    BY <1>8 DEF Failure, ReadTableFails, ListGrafanaFails, WriteRefused,
                WriteLost, Abort
  <2> QED
    BY <2>1 DEF CalmCycle
<1>9. CASE UNCHANGED vars
  <2>1. UNCHANGED <<table, grafana, pc, rows, existing, settled, calm, before>>
    BY <1>9 DEF vars, history
  <2> QED
    BY <2>1 DEF CalmCycle, Compatible, Progress, Pending, RowOf, Touch
<1> QED
  BY <1>1, <1>2, <1>3, <1>4, <1>5, <1>6, <1>7, <1>8, <1>9 DEF Next, Sync

(* After a cycle in which no call failed, Grafana agrees with every        *)
(* enabled row nobody edited meanwhile, and what has no enabled row was    *)
(* left alone, whatever happened to the others.                            *)
THEOREM Invariance == Spec => []IInv
<1>1. Init => CalmCycle
  BY DEF Init, CalmCycle
<1>2. TypeOK /\ CalmCycle => IInv
  BY Enough DEF IInv
<1>3. TypeOK /\ TypeOK' /\ CalmCycle /\ [Next]_vars => CalmCycle'
  BY CalmCycleInductive
<1> QED
  BY <1>1, <1>2, <1>3, TypeCorrect, PTL DEF Spec
=============================================================================
