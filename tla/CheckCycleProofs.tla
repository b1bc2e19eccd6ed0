-------------------------- MODULE CheckCycleProofs --------------------------
(***************************************************************************)
(* For every order of types, every catalog and every number of edits and   *)
(* faults: the metrics of the exporter are consistent whenever they are    *)
(* scraped, and a complete cycle covers the catalog.  And of the probes:   *)
(* nothing comes of a check that the cycle does not foresee, and what a    *)
(* check of a host and port says of a server is true.                      *)
(***************************************************************************)
EXTENDS Probes, SequenceTheorems, TLAPS

LEMMA OrderFacts ==
  /\ N \in Nat /\ N > 0
  /\ DOMAIN Order = 1..N
  /\ \A i \in 1..N : Order[i] \in Types
  /\ \A i, j \in 1..N : Order[i] = Order[j] => i = j
  /\ \A t \in Types : \E i \in 1..N : Order[i] = t
<1>1. Order \in Seq(STRING) /\ N > 0
  BY CheckCycleAssumption
<1>2. N \in Nat /\ DOMAIN Order = 1..N
  BY <1>1 DEF N
<1>3. \A i \in 1..N : Order[i] \in Types
  BY <1>2 DEF Types
<1>4. \A i, j \in 1..N : Order[i] = Order[j] => i = j
  BY <1>2, CheckCycleAssumption
<1>5. \A t \in Types : \E i \in 1..N : Order[i] = t
  BY <1>2 DEF Types
<1> QED
  BY <1>1, <1>2, <1>3, <1>4, <1>5

(* A row that is due has a display name and an address. *)
LEMMA LoadIsTyped ==
  ASSUME NEW cat \in [Systems -> Row], NEW t
  PROVE  Load(cat, t) \in SUBSET Target
<1> SUFFICES ASSUME NEW s \in Systems, Due(cat, s, t)
             PROVE  [system_id |-> s, display_name |-> cat[s].display_name,
                     address |-> cat[s].address] \in Target
  BY DEF Load
<1>1. cat[s] # NoRow
  <2>1. cat[s].address # "missing"
    BY DEF Due
  <2>2. NoRow.address = "missing"
    BY DEF NoRow
  <2> QED
    BY <2>1, <2>2
<1>2. cat[s] \in Rows
  BY <1>1 DEF Row
<1>3. cat[s].display_name \in Names /\ cat[s].address \in Address
  BY <1>2, CheckCycleAssumption
<1> QED
  BY <1>3 DEF Due, Target

(***************************************************************************)
(* Types.                                                                  *)
(***************************************************************************)
LEMMA InitTypeOK == Init => TypeOK
<1> SUFFICES ASSUME Init PROVE TypeOK
  OBVIOUS
<1> USE OrderFacts
<1>1. catalog \in [Systems -> Row]
  BY CheckCycleAssumption DEF Init
<1>2. at \in 1..N /\ targets \in [1..N -> SUBSET Target]
  BY DEF Init
<1>3. previous \in [Systems -> [Types -> Report \cup {NoReport}]]
  BY DEF Init
<1> QED
  BY <1>1, <1>2, <1>3 DEF Init, TypeOK, Reporting

LEMMA StepTypeOK == TypeOK /\ [Next]_vars => TypeOK'
<1> SUFFICES ASSUME TypeOK, [Next]_vars PROVE TypeOK'
  OBVIOUS
<1> USE OrderFacts DEF environment, metrics, history, Reporting
<1>1. ASSUME NEW s \in Systems, Edit(s) PROVE TypeOK'
  BY <1>1 DEF Edit, TypeOK
<1>2. CASE Count
  BY <1>2 DEF Count, BeginCycle, TypeOK
<1>3. CASE CountRaises
  BY <1>3 DEF CountRaises, Escapes, TypeOK
<1>4. CASE Restart
  BY <1>4 DEF Restart, TypeOK
<1>5. CASE LoadType
  <2>1. Load(catalog, Order[at]) \in SUBSET Target
    BY LoadIsTyped DEF TypeOK
  <2>2. targets' \in [1..N -> SUBSET Target]
    BY <1>5, <2>1 DEF LoadType, TypeOK
  <2>3. at' \in 1..N /\ pc' \in {"load", "check"}
    BY <1>5 DEF LoadType, NextLoad, TypeOK
  <2> QED
    BY <1>5, <2>2, <2>3 DEF LoadType, TypeOK
<1>6. CASE LoadCannotConnect
  <2>1. targets' \in [1..N -> SUBSET Target]
    BY <1>6 DEF LoadCannotConnect, TypeOK
  <2>2. at' \in 1..N /\ pc' \in {"load", "check"}
    BY <1>6 DEF LoadCannotConnect, NextLoad, TypeOK
  <2>3. faults' \in Nat
    BY <1>6 DEF LoadCannotConnect, TypeOK
  <2> QED
    BY <1>6, <2>1, <2>2, <2>3 DEF LoadCannotConnect, TypeOK
<1>7. CASE LoadRaises
  <2>1. faults' \in Nat
    BY <1>7 DEF LoadRaises, TypeOK
  <2> QED
    BY <1>7, <2>1 DEF LoadRaises, Escapes, TypeOK
<1>8. CASE NextType
  BY <1>8 DEF NextType, TypeOK
<1>9. CASE StartServing
  BY <1>9 DEF StartServing, BeginCycle, TypeOK
<1>10. CASE EndCycle
  BY <1>10 DEF EndCycle, TypeOK
<1>11. ASSUME NEW t \in targets[at], NEW o \in Outcomes, Probe(t, o)
       PROVE  TypeOK'
  <2>1. t \in Target /\ Type \in Types
    BY DEF TypeOK, Type
  <2>2. current' \in Report
    BY <1>11, <2>1 DEF Probe, Report, Target
  <2>3. gauges' \subseteq [system_id : Systems, display_name : Names,
                           check_type : Types, up : BOOLEAN]
    <3> DEFINE g == [system_id |-> t.system_id,
                     display_name |-> t.display_name,
                     check_type |-> Type, up |-> (o \in Ups)]
    <3>1. g \in [system_id : Systems, display_name : Names,
                 check_type : Types, up : BOOLEAN]
      BY <2>1 DEF Target
    <3>2. gauges' \subseteq gauges \cup {g}
      BY <1>11 DEF Probe
    <3> QED
      BY <3>1, <3>2 DEF TypeOK
  <2>4. checked' \in [Systems -> Nat]
    BY <1>11, <2>1 DEF Probe, Counted, Target, TypeOK
  <2>5. targets' \in [1..N -> SUBSET Target]
    BY <1>11 DEF Probe, TypeOK
  <2>6. halfway' \subseteq Systems \X Types
    BY <1>11, <2>1 DEF Probe, Target, TypeOK
  <2>7. UNCHANGED <<catalog, process, at, results, previous, edits, faults,
                    settled, calm>> /\ pc' = "report"
    BY <1>11 DEF Probe
  <2> QED
    BY <2>2, <2>3, <2>4, <2>5, <2>6, <2>7 DEF TypeOK
<1>12. ASSUME NEW t \in targets[at], ProbeVersion(t) PROVE TypeOK'
  <2>1. t \in Target
    BY DEF TypeOK
  <2>2. checked' \in [Systems -> Nat]
    BY <1>12, <2>1 DEF ProbeVersion, Counted, Target, TypeOK
  <2>3. targets' \in [1..N -> SUBSET Target]
    BY <1>12 DEF ProbeVersion, TypeOK
  <2> QED
    BY <1>12, <2>2, <2>3 DEF ProbeVersion, TypeOK
<1>13. ASSUME NEW t \in targets[at], ProbeRaises(t) PROVE TypeOK'
  BY <1>13 DEF ProbeRaises, Escapes, TypeOK
<1>14. CASE RemoveOld
  BY <1>14 DEF RemoveOld, TypeOK
<1>15. CASE SetNew
  <2>1. current \in Report
    BY <1>15 DEF SetNew, TypeOK
  <2>2. results' \subseteq Report
    BY <1>15, <2>1 DEF SetNew, Published, TypeOK
  <2>3. previous' \in [Systems -> [Types -> Report \cup {NoReport}]]
    BY <1>15, <2>1 DEF SetNew, TypeOK
  <2> QED
    BY <1>15, <2>2, <2>3 DEF SetNew, TypeOK
<1>16. CASE LogAndCleanUp
  BY <1>16 DEF LogAndCleanUp, TypeOK
<1>17. CASE WakeUp
  BY <1>17 DEF WakeUp, BeginCycle, TypeOK
<1>18. CASE ReportRaises
  BY <1>18 DEF ReportRaises, Escapes, TypeOK
<1>19. CASE Killed
  BY <1>19 DEF Killed, TypeOK
<1>20. CASE UNCHANGED vars
  BY <1>20 DEF vars, TypeOK
<1> QED
  BY <1>1, <1>2, <1>3, <1>4, <1>5, <1>6, <1>7, <1>8, <1>9, <1>10, <1>11,
     <1>12, <1>13, <1>14, <1>15, <1>16, <1>17, <1>18, <1>19, <1>20
  DEF Next, Advance, ProbeOne, ProbeOneRaises

(* Every state of the exporter has the shape TypeOK gives: in particular   *)
(* `at` never runs past the last type, and every loaded target has a name  *)
(* and an address.                                                         *)
THEOREM TypeCorrect == Spec => []TypeOK
BY InitTypeOK, StepTypeOK, PTL DEF Spec

(***************************************************************************)
(* The metrics.                                                            *)
(***************************************************************************)
MetricsParts == PublishedIsLast /\ LastIsOwn /\ ReportInProgress
                                /\ ResultsAgreeWithGauges

(* A step outside the two reporting instructions that leaves the metrics   *)
(* alone keeps what is said of them.                                       *)
LEMMA Quiet ==
  ASSUME MetricsParts, UNCHANGED <<metrics, current>>,
         pc' \notin {"report", "set"}
  PROVE  MetricsParts'
<1> USE DEF metrics, Reporting
<1>1. PublishedIsLast'
  BY DEF MetricsParts, PublishedIsLast
<1>2. LastIsOwn'
  BY DEF MetricsParts, LastIsOwn
<1>3. ReportInProgress'
  BY DEF ReportInProgress
<1>4. ResultsAgreeWithGauges'
  BY DEF MetricsParts, ResultsAgreeWithGauges, GaugeSays
<1> QED
  BY <1>1, <1>2, <1>3, <1>4 DEF MetricsParts

(* A probe sets the gauge of its own labels and touches no other check's.  *)
LEMMA ProbeKeepsMetrics ==
  ASSUME TypeOK, MetricsParts,
         NEW t \in targets[at], NEW o \in Outcomes, Probe(t, o)
  PROVE  MetricsParts'
<1> DEFINE r == [system_id |-> t.system_id, display_name |-> t.display_name,
                 check_type |-> Type, outcome |-> o]
           g == [system_id |-> t.system_id, display_name |-> t.display_name,
                 check_type |-> Type, up |-> (o \in Ups)]
<1>1. /\ current' = r /\ pc' = "report" /\ pc = "check"
      /\ gauges' = {h \in gauges : ~SameSeries(h, r)} \cup {g}
      /\ halfway' = halfway \cup {<<r.system_id, r.check_type>>}
      /\ UNCHANGED <<results, previous>>
  BY DEF Probe
<1>2. SameSeries(g, r) /\ g.up = (r.outcome \in Ups)
  BY DEF SameSeries
<1>3. PublishedIsLast' /\ LastIsOwn'
  BY <1>1 DEF MetricsParts, PublishedIsLast, LastIsOwn
<1>4. GaugeSays(current)'
  <2> HIDE DEF r, g
  <2>1. \A h \in gauges' : SameSeries(h, r) => h = g
    BY <1>1
  <2>2. /\ \E h \in gauges' : SameSeries(h, r)
        /\ \A h \in gauges' :
             SameSeries(h, r) => h.up = (r.outcome \in Ups)
    BY <1>1, <1>2, <2>1
  <2> QED
    BY <1>1, <2>2 DEF GaugeSays, SameSeries
<1>5. ReportInProgress'
  BY <1>1, <1>4 DEF ReportInProgress, Reporting
<1>6. ResultsAgreeWithGauges'
  <2> SUFFICES ASSUME NEW s \in Systems, NEW u \in Types,
                      previous[s][u] # NoReport, <<s, u>> \notin halfway,
                      ~(s = r.system_id /\ u = r.check_type)
               PROVE  /\ previous[s][u] \in results
                      /\ GaugeSays(previous[s][u])'
    BY <1>1 DEF ResultsAgreeWithGauges
  <2> DEFINE p == previous[s][u]
  <2>1. p \in results /\ GaugeSays(p)
    BY <1>1 DEF MetricsParts, ResultsAgreeWithGauges, Reporting
  <2>2. p.system_id = s /\ p.check_type = u
    BY DEF MetricsParts, LastIsOwn
  <2>3. ~SameSeries(g, p)
    BY <2>2 DEF SameSeries
  <2>4. \A h : SameSeries(h, p) => ~SameSeries(h, r)
    BY <2>2 DEF SameSeries
  <2> HIDE DEF p, r, g
  <2>5. \A h : h \in gauges' /\ SameSeries(h, p)
                <=> h \in gauges /\ SameSeries(h, p)
    BY <1>1, <2>3, <2>4
  <2>6. /\ \E h \in gauges' : SameSeries(h, p)
        /\ \A h \in gauges' :
             SameSeries(h, p) => h.up = (p.outcome \in Ups)
    BY <2>1, <2>5 DEF GaugeSays
  <2> QED
    BY <1>1, <2>1, <2>6 DEF GaugeSays, SameSeries, p
<1> QED
  BY <1>3, <1>5, <1>6 DEF MetricsParts

(* The old label set goes, and no other check's.                           *)
LEMMA RemoveOldKeepsMetrics ==
  ASSUME TypeOK, MetricsParts, RemoveOld
  PROVE  MetricsParts'
<1>1. /\ pc = "report" /\ pc' = "set"
      /\ results' = results \ ({Last} \ {current})
      /\ UNCHANGED <<current, gauges, previous, halfway>>
  BY DEF RemoveOld, Retired
<1>2. PublishedIsLast' /\ LastIsOwn'
  BY <1>1 DEF MetricsParts, PublishedIsLast, LastIsOwn
<1>3. ReportInProgress'
  BY <1>1 DEF MetricsParts, ReportInProgress, Reporting, GaugeSays, Last
<1>4. ResultsAgreeWithGauges'
  <2> SUFFICES ASSUME NEW s \in Systems, NEW u \in Types,
                      previous[s][u] # NoReport, <<s, u>> \notin halfway
               PROVE  /\ previous[s][u] \in results'
                      /\ GaugeSays(previous[s][u])'
    BY <1>1 DEF ResultsAgreeWithGauges, Reporting
  <2>1. previous[s][u] \in results /\ GaugeSays(previous[s][u])
    BY <1>1 DEF MetricsParts, ResultsAgreeWithGauges
  <2>2. /\ previous[s][u].system_id = s
        /\ previous[s][u].check_type = u
    BY DEF MetricsParts, LastIsOwn
  <2>3. current \in Report
    BY <1>1 DEF TypeOK, Reporting
  <2>4. Last # NoReport => /\ Last.system_id = current.system_id
                           /\ Last.check_type = current.check_type
    BY <2>3 DEF MetricsParts, LastIsOwn, Last, Report
  <2>5. ~(s = current.system_id /\ u = current.check_type)
    BY <1>1 DEF MetricsParts, ReportInProgress, Reporting
  <2>6. previous[s][u] # Last
    BY <2>2, <2>4, <2>5
  <2> QED
    BY <1>1, <2>1, <2>6 DEF GaugeSays
<1> QED
  BY <1>2, <1>3, <1>4 DEF MetricsParts

(* The new label set comes when the one it replaces is gone.               *)
LEMMA SetNewKeepsMetrics ==
  ASSUME TypeOK, MetricsParts, SetNew
  PROVE  MetricsParts'
<1>1. /\ pc = "set" /\ pc' = "check"
      /\ results' = results \cup {current}
      /\ UNCHANGED <<current, gauges>>
      /\ halfway' = halfway \ {<<current.system_id, current.check_type>>}
      /\ previous' = [previous EXCEPT
                        ![current.system_id][current.check_type] = current]
  BY DEF SetNew, Published
<1>2. /\ current \in Report
      /\ current.system_id \in Systems /\ current.check_type \in Types
  BY <1>1 DEF TypeOK, Reporting, Report
<1>3. previous'[current.system_id][current.check_type] = current
  BY <1>1, <1>2 DEF TypeOK
<1>4. \A s \in Systems, u \in Types :
        ~(s = current.system_id /\ u = current.check_type) =>
          previous'[s][u] = previous[s][u]
  BY <1>1, <1>2 DEF TypeOK
<1>5. PublishedIsLast'
  <2> SUFFICES ASSUME NEW r \in results'
               PROVE  previous'[r.system_id][r.check_type] = r
    BY DEF PublishedIsLast
  <2>1. CASE r = current
    BY <1>3, <2>1
  <2>2. CASE r # current
    <3>1. r \in results /\ previous[r.system_id][r.check_type] = r
      BY <1>1, <2>2 DEF MetricsParts, PublishedIsLast
    <3>2. r.system_id \in Systems /\ r.check_type \in Types
      BY <3>1 DEF TypeOK, Report
    <3>3. ~( /\ r.system_id = current.system_id
             /\ r.check_type = current.check_type)
      BY <1>1, <2>2, <3>1 DEF MetricsParts, ReportInProgress, Last
    <3> QED
      BY <1>4, <3>1, <3>2, <3>3
  <2> QED
    BY <2>1, <2>2
<1>6. LastIsOwn'
  BY <1>3, <1>4 DEF MetricsParts, LastIsOwn
<1>7. ReportInProgress'
  BY <1>1 DEF ReportInProgress, Reporting
<1>8. ResultsAgreeWithGauges'
  <2> SUFFICES ASSUME NEW s \in Systems, NEW u \in Types,
                      previous'[s][u] # NoReport, <<s, u>> \notin halfway'
               PROVE  /\ previous'[s][u] \in results'
                      /\ GaugeSays(previous[s][u])'
    BY DEF ResultsAgreeWithGauges
  <2>1. CASE s = current.system_id /\ u = current.check_type
    <3>1. GaugeSays(current)
      BY <1>1 DEF MetricsParts, ReportInProgress, Reporting
    <3> QED
      BY <1>1, <1>3, <2>1, <3>1 DEF GaugeSays
  <2>2. CASE ~(s = current.system_id /\ u = current.check_type)
    <3>1. previous'[s][u] = previous[s][u]
      BY <1>4, <2>2
    <3>2. previous[s][u] \in results /\ GaugeSays(previous[s][u])
      BY <1>1, <2>2, <3>1 DEF MetricsParts, ResultsAgreeWithGauges
    <3> QED
      BY <1>1, <3>1, <3>2 DEF GaugeSays
  <2> QED
    BY <2>1, <2>2
<1> QED
  BY <1>5, <1>6, <1>7, <1>8 DEF MetricsParts

LEMMA InitMetrics == Init => MetricsParts
<1> SUFFICES ASSUME Init PROVE MetricsParts
  OBVIOUS
<1>1. \A s \in Systems, t \in Types : previous[s][t] = NoReport
  BY DEF Init
<1>2. results = {} /\ pc = "count"
  BY DEF Init
<1> QED
  BY <1>1, <1>2 DEF MetricsParts, PublishedIsLast, LastIsOwn,
     ReportInProgress, ResultsAgreeWithGauges, Reporting

LEMMA StepKeepsMetrics ==
  ASSUME TypeOK, MetricsParts, [Next]_vars
  PROVE  MetricsParts'
<1> USE DEF environment, metrics
<1>1. ASSUME NEW s \in Systems, Edit(s) PROVE MetricsParts'
  <2>1. UNCHANGED <<metrics, current, pc>>
    BY <1>1 DEF Edit
  <2> QED
    BY <2>1 DEF MetricsParts, PublishedIsLast, LastIsOwn, ReportInProgress,
       ResultsAgreeWithGauges, Reporting, GaugeSays, Last
<1>2. CASE Count \/ CountRaises \/ LoadType \/ LoadCannotConnect \/ LoadRaises
  <2>1. UNCHANGED <<metrics, current>>
    BY <1>2 DEF Count, CountRaises, LoadType, LoadCannotConnect, LoadRaises
  <2>2. pc' \notin {"report", "set"}
    BY <1>2 DEF Count, CountRaises, LoadType, LoadCannotConnect, LoadRaises,
       BeginCycle, Escapes, NextLoad
  <2> QED
    BY <2>1, <2>2, Quiet
<1>3. CASE Restart
  <2>1. \A s \in Systems, t \in Types : previous'[s][t] = NoReport
    BY <1>3 DEF Restart
  <2>2. results' = {} /\ pc' = "count"
    BY <1>3 DEF Restart
  <2> QED
    BY <2>1, <2>2 DEF MetricsParts, PublishedIsLast, LastIsOwn,
       ReportInProgress, ResultsAgreeWithGauges, Reporting
<1>4. CASE \/ NextType \/ StartServing \/ EndCycle \/ LogAndCleanUp \/ WakeUp
  <2>1. UNCHANGED <<metrics, current>>
    BY <1>4 DEF NextType, StartServing, EndCycle, LogAndCleanUp, WakeUp
  <2>2. pc' \notin {"report", "set"}
    BY <1>4 DEF NextType, StartServing, EndCycle, LogAndCleanUp, WakeUp,
       BeginCycle
  <2> QED
    BY <2>1, <2>2, Quiet
<1>5. ASSUME NEW t \in targets[at], ProbeVersion(t) \/ ProbeRaises(t)
      PROVE  MetricsParts'
  <2>1. UNCHANGED <<metrics, current>>
    BY <1>5 DEF ProbeVersion, ProbeRaises
  <2>2. pc' \notin {"report", "set"}
    BY <1>5 DEF ProbeVersion, ProbeRaises, Escapes
  <2> QED
    BY <2>1, <2>2, Quiet
<1>6. ASSUME NEW t \in targets[at], NEW o \in Outcomes, Probe(t, o)
      PROVE  MetricsParts'
  BY <1>6, ProbeKeepsMetrics
<1>7. CASE RemoveOld
  BY <1>7, RemoveOldKeepsMetrics
<1>8. CASE SetNew
  BY <1>8, SetNewKeepsMetrics
<1>9. CASE ReportRaises \/ Killed
  <2>1. UNCHANGED <<metrics, current>> /\ pc' \notin {"report", "set"}
    BY <1>9 DEF ReportRaises, Killed, Escapes
  <2> QED
    BY <2>1, Quiet
<1>10. CASE UNCHANGED vars
  BY <1>10 DEF vars, MetricsParts, PublishedIsLast, LastIsOwn,
     ReportInProgress, ResultsAgreeWithGauges, Reporting, GaugeSays, Last
<1> QED
  BY <1>1, <1>2, <1>3, <1>4, <1>5, <1>6, <1>7, <1>8, <1>9, <1>10
  DEF Next, Advance, ProbeOne, ProbeOneRaises

(* The metrics invariant holds in every state.                             *)
THEOREM MetricsInvariant == Spec => []MetricsInv
<1>1. Init => MetricsInv
  BY InitTypeOK, InitMetrics DEF MetricsInv, MetricsParts
<1>2. MetricsInv /\ [Next]_vars => MetricsInv'
  BY StepTypeOK, StepKeepsMetrics DEF MetricsInv, MetricsParts
<1> QED
  BY <1>1, <1>2, PTL DEF Spec

(* However the checks, the edits of the table and Prometheus's scrapes     *)
(* interleave, no scrape sees two results of one check of a system.        *)
THEOREM OneResult == Spec => []OneResultPerCheck
<1>1. MetricsInv => OneResultPerCheck
  BY DEF MetricsInv, PublishedIsLast, OneResultPerCheck
<1> QED
  BY <1>1, MetricsInvariant, PTL

(* Every check's last result is published and the up gauge of the same     *)
(* labels agrees with it, unless its report is, or was left, half done.    *)
THEOREM ResultsAgree == Spec => []ResultsAgreeWithGauges
<1>1. MetricsInv => ResultsAgreeWithGauges
  BY DEF MetricsInv
<1> QED
  BY <1>1, MetricsInvariant, PTL

(***************************************************************************)
(* Coverage.                                                               *)
(***************************************************************************)
CoverageParts == LoadedFaithfully /\ CheckedFaithfully /\ FinishedIsEmpty

(* At most one type has a given system due.                                *)
LEMMA DueOnce ==
  \A s : \A i, j \in 1..N :
    Due(catalog, s, Order[i]) /\ Due(catalog, s, Order[j]) => i = j
BY OrderFacts DEF Due

(* A cycle begins with nothing loaded and nothing checked.                 *)
LEMMA CycleBegins == BeginCycle => CoverageParts'
<1> SUFFICES ASSUME BeginCycle PROVE CoverageParts'
  OBVIOUS
<1>1. pc' = "load" /\ at' = 1
  BY DEF BeginCycle
<1>2. settled' = Systems /\ \A s \in Systems : checked'[s] = 0
  BY DEF BeginCycle
<1>3. LoadedFaithfully'
  BY <1>1, <1>2 DEF LoadedFaithfully
<1> QED
  BY <1>1, <1>3
  DEF CoverageParts, CheckedFaithfully, FinishedIsEmpty, Loading, Checking

(* Outside the loads and the checks nothing is claimed.                    *)
LEMMA OutOfCycle ==
  pc' \notin {"load", "check", "report", "set", "post"} => CoverageParts'
BY DEF CoverageParts, LoadedFaithfully, CheckedFaithfully, FinishedIsEmpty,
   Loading, Checking

(* A step of the reporting instructions changes no target and no count.    *)
LEMMA CheckingGoesOn ==
  ASSUME CoverageParts, UNCHANGED <<catalog, targets, at, history>>,
         pc \in {"check", "report", "set"},
         pc' \in {"check", "report", "set"}
  PROVE  CoverageParts'
<1> USE DEF history
<1>1. CheckedFaithfully'
  BY DEF CoverageParts, CheckedFaithfully, Checking, Pending, TargetOf
<1> QED
  BY <1>1
  DEF CoverageParts, LoadedFaithfully, FinishedIsEmpty, Loading, Checking

(* A load extends what is loaded faithfully by one type.                   *)
LEMMA LoadKeepsCoverage ==
  ASSUME TypeOK, CoverageParts, LoadType
  PROVE  CoverageParts'
<1> USE OrderFacts DEF history, environment
<1>1. /\ pc = "load" /\ at \in 1..N
      /\ targets \in [1..N -> SUBSET Target]
      /\ targets' = [targets EXCEPT ![at] = Load(catalog, Order[at])]
      /\ UNCHANGED <<catalog, settled, calm, checked>>
      /\ settled \subseteq Systems
  BY DEF LoadType, TypeOK
<1>2. ASSUME calm, NEW s \in settled
      PROVE  /\ checked[s] = 0
             /\ \A i \in 1..at :
                  /\ Pending(s, i)' <=> Due(catalog, s, Order[i])
                  /\ \A t \in targets'[i] :
                       t.system_id = s => t = TargetOf(s)
  <2>1. /\ checked[s] = 0
        /\ \A i \in 1..(at - 1) :
             /\ Pending(s, i) <=> Due(catalog, s, Order[i])
             /\ \A t \in targets[i] : t.system_id = s => t = TargetOf(s)
    BY <1>1, <1>2 DEF CoverageParts, LoadedFaithfully, Loading
  <2>2. \A i \in 1..(at - 1) : targets'[i] = targets[i]
    BY <1>1
  <2>3. targets'[at] = Load(catalog, Order[at])
    BY <1>1
  <2>4. \A t \in Load(catalog, Order[at]) :
          t.system_id = s => t = TargetOf(s) /\ Due(catalog, s, Order[at])
    BY DEF Load, TargetOf
  <2>5. Due(catalog, s, Order[at]) => TargetOf(s) \in Load(catalog, Order[at])
    BY <1>1, <1>2 DEF Load, TargetOf
  <2>6. TargetOf(s).system_id = s
    BY DEF TargetOf
  <2>7. (\E t \in targets'[at] : t.system_id = s)
          <=> Due(catalog, s, Order[at])
    BY <2>3, <2>4, <2>5, <2>6
  <2>8. ASSUME NEW i \in 1..at
        PROVE  /\ Pending(s, i)' <=> Due(catalog, s, Order[i])
               /\ \A t \in targets'[i] : t.system_id = s => t = TargetOf(s)
    <3>1. CASE i = at
      BY <2>3, <2>4, <2>7, <3>1 DEF Pending
    <3>2. CASE i # at
      <4>1. i \in 1..(at - 1)
        BY <1>1, <3>2
      <4> QED
        BY <2>1, <2>2, <4>1 DEF Pending
    <3> QED
      BY <3>1, <3>2
  <2> QED
    BY <2>1, <2>8
<1>3. CASE at < N
  <2>1. pc' = "load" /\ at' = at + 1
    BY <1>3 DEF LoadType, NextLoad
  <2>2. at' - 1 = at
    BY <1>1, <2>1
  <2>3. LoadedFaithfully'
    BY <1>1, <1>2, <2>2 DEF LoadedFaithfully, TargetOf
  <2> QED
    BY <2>1, <2>3
    DEF CoverageParts, CheckedFaithfully, FinishedIsEmpty, Checking
<1>4. CASE ~(at < N)
  <2>1. pc' = "check" /\ at' = 1
    BY <1>4 DEF LoadType, NextLoad
  <2>2. at = N
    BY <1>1, <1>4
  <2>3. CheckedFaithfully'
    <3> SUFFICES ASSUME calm, NEW s \in settled
                 PROVE  /\ checked[s] = 0
                        /\ \A i \in 1..N :
                             /\ Pending(s, i)' <=> Due(catalog, s, Order[i])
                             /\ \A t \in targets'[i] :
                                  t.system_id = s => t = TargetOf(s)
      BY <1>1 DEF CheckedFaithfully, TargetOf, Pending
    <3> QED
      BY <1>2, <2>2
  <2>4. FinishedIsEmpty'
    BY <2>1 DEF FinishedIsEmpty
  <2> QED
    BY <2>1, <2>3, <2>4 DEF CoverageParts, LoadedFaithfully, Loading
<1> QED
  BY <1>3, <1>4

(* A probe takes the one target its system has.                            *)
LEMMA ProbeKeepsCoverage ==
  ASSUME TypeOK, CoverageParts, NEW t \in targets[at],
         pc = "check", pc' \in {"check", "report"},
         targets' = [targets EXCEPT ![at] = @ \ {t}],
         Counted(t.system_id),
         UNCHANGED <<catalog, at, settled, calm>>
  PROVE  CoverageParts'
<1> USE OrderFacts
<1>1. /\ at \in 1..N /\ targets \in [1..N -> SUBSET Target]
      /\ checked \in [Systems -> Nat] /\ settled \subseteq Systems
      /\ t.system_id \in Systems
  BY DEF TypeOK, Target
<1>2. /\ targets'[at] = targets[at] \ {t}
      /\ \A i \in 1..N : i # at => targets'[i] = targets[i]
  BY <1>1
<1>3. /\ checked'[t.system_id] = checked[t.system_id] + 1
      /\ \A s \in Systems : s # t.system_id => checked'[s] = checked[s]
  BY <1>1 DEF Counted
<1>4. FinishedIsEmpty'
  BY <1>1, <1>2 DEF CoverageParts, FinishedIsEmpty, Checking
<1>5. ASSUME calm, NEW s \in settled
      PROVE  /\ \A i \in 1..N : \A x \in targets'[i] : x.system_id = s =>
                  x = TargetOf(s) /\ Due(catalog, s, Order[i])
             /\ \A i \in 1..N : Due(catalog, s, Order[i]) =>
                  checked'[s] = IF Pending(s, i)' THEN 0 ELSE 1
             /\ (\A i \in 1..N : ~Due(catalog, s, Order[i])) =>
                  checked'[s] = 0
  <2>1. /\ \A i \in 1..N : \A x \in targets[i] : x.system_id = s =>
             x = TargetOf(s) /\ Due(catalog, s, Order[i])
        /\ \A i \in 1..N : Due(catalog, s, Order[i]) =>
             checked[s] = IF Pending(s, i) THEN 0 ELSE 1
        /\ (\A i \in 1..N : ~Due(catalog, s, Order[i])) => checked[s] = 0
    BY <1>5 DEF CoverageParts, CheckedFaithfully, Checking
  <2>2. \A i \in 1..N : targets'[i] \subseteq targets[i]
    BY <1>1, <1>2
  <2>3. CASE s # t.system_id
    <3>1. checked'[s] = checked[s]
      BY <1>1, <1>3, <1>5, <2>3
    <3>2. \A i \in 1..N : Pending(s, i)' <=> Pending(s, i)
      BY <1>1, <1>2, <2>3 DEF Pending
    <3> QED
      BY <2>1, <2>2, <3>1, <3>2
  <2>4. CASE s = t.system_id
    <3>1. t = TargetOf(s) /\ Due(catalog, s, Order[at]) /\ Pending(s, at)
      BY <1>1, <2>1, <2>4 DEF Pending
    <3>2. checked'[s] = 1
      BY <1>1, <1>3, <2>1, <2>4, <3>1
    <3>3. ~Pending(s, at)'
      BY <1>1, <1>2, <2>1, <3>1 DEF Pending
    <3>4. \A i \in 1..N : Due(catalog, s, Order[i]) => i = at
      BY <1>1, <3>1, DueOnce
    <3> QED
      BY <1>1, <2>1, <2>2, <3>1, <3>2, <3>3, <3>4
  <2> QED
    BY <2>3, <2>4
<1>6. CheckedFaithfully'
  BY <1>5 DEF CheckedFaithfully, TargetOf
<1> QED
  BY <1>4, <1>6 DEF CoverageParts, LoadedFaithfully, Loading

(* An edited system is not settled any more; the others are as they were.  *)
LEMMA EditKeepsCoverage ==
  ASSUME TypeOK, CoverageParts, NEW s \in Systems, Edit(s)
  PROVE  CoverageParts'
<1> USE DEF metrics
<1>1. /\ settled' = settled \ {s} /\ settled \subseteq Systems
      /\ UNCHANGED <<pc, at, targets, calm, checked>>
      /\ \A u \in Systems \ {s} : catalog'[u] = catalog[u]
  BY DEF Edit, TypeOK
<1>2. \A u \in settled' : /\ TargetOf(u)' = TargetOf(u)
                          /\ \A t : Due(catalog', u, t) <=> Due(catalog, u, t)
  BY <1>1 DEF TargetOf, Due
<1>3. LoadedFaithfully'
  BY <1>1, <1>2 DEF CoverageParts, LoadedFaithfully, Loading, Pending
<1>4. CheckedFaithfully'
  BY <1>1, <1>2 DEF CoverageParts, CheckedFaithfully, Checking, Pending
<1>5. FinishedIsEmpty'
  BY <1>1 DEF CoverageParts, FinishedIsEmpty, Checking
<1> QED
  BY <1>3, <1>4, <1>5 DEF CoverageParts

LEMMA StepKeepsCoverage ==
  ASSUME TypeOK, CoverageParts, [Next]_vars
  PROVE  CoverageParts'
<1> USE DEF environment, history
<1>1. ASSUME NEW s \in Systems, Edit(s) PROVE CoverageParts'
  BY <1>1, EditKeepsCoverage
<1>2. CASE Count \/ StartServing \/ WakeUp
  BY <1>2, CycleBegins DEF Count, StartServing, WakeUp
<1>3. CASE \/ CountRaises \/ Restart \/ LoadRaises \/ LogAndCleanUp
           \/ ReportRaises \/ Killed
  <2>1. pc' \notin {"load", "check", "report", "set", "post"}
    BY <1>3 DEF CountRaises, Restart, LoadRaises, LogAndCleanUp,
       ReportRaises, Killed, Escapes
  <2> QED
    BY <2>1, OutOfCycle
<1>4. CASE LoadType
  BY <1>4, LoadKeepsCoverage
<1>5. CASE LoadCannotConnect
  <2>1. ~calm' /\ (pc' = "load" \/ (pc' = "check" /\ at' = 1))
    BY <1>5 DEF LoadCannotConnect, NextLoad
  <2>2. FinishedIsEmpty'
    BY <2>1 DEF FinishedIsEmpty, Checking
  <2> QED
    BY <2>1, <2>2 DEF CoverageParts, LoadedFaithfully, CheckedFaithfully
<1>6. CASE NextType
  <2>1. /\ pc = "check" /\ pc' = "check" /\ targets[at] = {}
        /\ at' = at + 1 /\ at \in Nat
        /\ UNCHANGED <<catalog, targets, settled, calm, checked>>
    BY <1>6, OrderFacts DEF NextType, TypeOK
  <2>2. FinishedIsEmpty'
    BY <2>1 DEF CoverageParts, FinishedIsEmpty, Checking
  <2>3. CheckedFaithfully'
    BY <2>1 DEF CoverageParts, CheckedFaithfully, Checking, Pending, TargetOf
  <2> QED
    BY <2>1, <2>2, <2>3 DEF CoverageParts, LoadedFaithfully, Loading
<1>7. CASE EndCycle
  <2>1. /\ pc = "check" /\ pc' = "post" /\ targets[at] = {} /\ at = N
        /\ UNCHANGED <<catalog, at, targets, settled, calm, checked>>
    BY <1>7 DEF EndCycle
  <2>2. FinishedIsEmpty'
    BY <2>1 DEF CoverageParts, FinishedIsEmpty, Checking
  <2>3. CheckedFaithfully'
    BY <2>1 DEF CoverageParts, CheckedFaithfully, Checking, Pending, TargetOf
  <2> QED
    BY <2>1, <2>2, <2>3 DEF CoverageParts, LoadedFaithfully, Loading
<1>8. ASSUME NEW t \in targets[at], NEW o \in Outcomes, Probe(t, o)
      PROVE  CoverageParts'
  BY <1>8, ProbeKeepsCoverage DEF Probe
<1>9. ASSUME NEW t \in targets[at], ProbeVersion(t) PROVE CoverageParts'
  BY <1>9, ProbeKeepsCoverage DEF ProbeVersion
<1>10. ASSUME NEW t \in targets[at], ProbeRaises(t) PROVE CoverageParts'
  <2>1. pc' \notin {"load", "check", "report", "set", "post"}
    BY <1>10 DEF ProbeRaises, Escapes
  <2> QED
    BY <2>1, OutOfCycle
<1>11. CASE RemoveOld \/ SetNew
  BY <1>11, CheckingGoesOn DEF RemoveOld, SetNew
<1>12. CASE UNCHANGED vars
  BY <1>12 DEF vars, CoverageParts, LoadedFaithfully, CheckedFaithfully,
     FinishedIsEmpty, Loading, Checking, Pending, TargetOf
<1> QED
  BY <1>1, <1>2, <1>3, <1>4, <1>5, <1>6, <1>7, <1>8, <1>9, <1>10, <1>11,
     <1>12 DEF Next, Advance, ProbeOne, ProbeOneRaises

(* The coverage invariant holds in every state.                            *)
THEOREM CoverageInvariant == Spec => []CoverageInv
<1>1. Init => CoverageInv
  BY InitTypeOK DEF Init, CoverageInv, LoadedFaithfully, CheckedFaithfully,
     FinishedIsEmpty, Loading, Checking
<1>2. CoverageInv /\ [Next]_vars => CoverageInv'
  BY StepTypeOK, StepKeepsCoverage DEF CoverageInv, CoverageParts
<1> QED
  BY <1>1, <1>2, PTL DEF Spec

(* Whatever is edited while it runs, a cycle that ends with no load failed *)
(* has checked every settled system once if it is due, else not at all.    *)
THEOREM Coverage == Spec => []CycleCoversCatalog
<1>1. CoverageInv => CycleCoversCatalog
  <2> SUFFICES ASSUME CoverageInv, pc = "post", calm, NEW s \in settled
               PROVE  checked[s] = IF \E t \in Types : Due(catalog, s, t)
                                   THEN 1 ELSE 0
    BY DEF CycleCoversCatalog
  <2>1. \A i \in 1..N : ~Pending(s, i)
    <3>1. \A i \in 1..N : targets[i] = {}
      BY OrderFacts DEF CoverageInv, FinishedIsEmpty, Checking, TypeOK
    <3> QED
      BY <3>1 DEF Pending
  <2>2. /\ \A i \in 1..N : Due(catalog, s, Order[i]) => checked[s] = 1
        /\ (\A i \in 1..N : ~Due(catalog, s, Order[i])) => checked[s] = 0
    BY <2>1 DEF CoverageInv, CheckedFaithfully, Checking
  <2> QED
    BY <2>2, OrderFacts
<1> QED
  BY <1>1, CoverageInvariant, PTL

(* Both invariants together: what the runs check of every state.           *)
THEOREM Invariance == Spec => []IInv
BY MetricsInvariant, CoverageInvariant, PTL DEF IInv

-----------------------------------------------------------------------------

(***************************************************************************)
(* The checks of a url                                                     *)
(***************************************************************************)
LEMMA Reports ==
  /\ \A x : Up(x).kind = "report" /\ Up(x).text = x
  /\ \A x : Down(x).kind = "report" /\ Down(x).text = x
  /\ Raises.kind = "raises" /\ Raises.text = "" /\ Nothing.kind = "nothing"
BY DEF Up, Down, Raises, Nothing

LEMMA LdapResults ==
  \A r \in UrlResults("LDAP") :
    r.kind = "report" /\ r # Raises /\ r # Down(Number)
<1>1. \A b : Bind(b) \in {Up(""), Down("error")}
  BY DEF Bind
<1>2. UrlResults("LDAP") = {Bind(b) : b \in Binds}
  BY DEF UrlResults
<1>3. \A r \in {Up(""), Down("error")} :
        r.kind = "report" /\ r.text # Number /\ r # Raises
  BY Reports DEF Number
<1>4. Down(Number).text = Number
  BY Reports
<1> QED
  BY <1>1, <1>2, <1>3, <1>4

LEMMA KeycloakResults ==
  /\ Raises \in UrlResults("KEYCLOAK") /\ Down(Number) \notin UrlResults("KEYCLOAK")
  /\ \E r \in UrlResults("KEYCLOAK") : r.kind = "report"
<1>1. \A a \in Answer \cup {NoAnswer} : Realm(a) # Down(Number)
  <2>1. \A a \in Answer \cup {NoAnswer} : a.code # 200 \/ a.body \in Bodies
    <3>1. \A a \in Answer : a.body \in Bodies
      BY DEF Answer
    <3>2. NoAnswer.code # 200
      BY DEF NoAnswer
    <3> QED
      BY <3>1, <3>2
  <2>2. \A a \in Answer \cup {NoAnswer} :
          Realm(a) \in {Down("error"), Up("invalid"), Raises, Up("")}
    BY <2>1 DEF Realm, Bodies
  <2>3. \A r \in {Down("error"), Up("invalid"), Raises, Up("")} :
          r.text # Number
    BY Reports DEF Number
  <2> QED
    BY <2>2, <2>3, Reports
<1>2. Realm(NoAnswer) = Down("error")
  BY DEF Realm, NoAnswer
<1>3. [code |-> 200, body |-> "list", value |-> Missing] \in Answer
  BY DEF Answer, Bodies, Values
<1>4. Realm([code |-> 200, body |-> "list", value |-> Missing]) = Raises
  BY DEF Realm
<1>5. UrlResults("KEYCLOAK") = {Realm(a) : a \in Answer \cup {NoAnswer}}
  BY DEF UrlResults
<1>6. Down("error").kind = "report"
  BY DEF Down
<1> QED
  BY <1>1, <1>2, <1>3, <1>4, <1>5, <1>6

LEMMA VersionResults ==
  /\ Raises \in UrlResults("VERSION")
  /\ \A r \in UrlResults("VERSION") : r.kind # "report" /\ r # Down(Number)
<1>1. [code |-> 200, body |-> "list", value |-> Missing] \in Answer
  BY DEF Answer, Bodies, Values
<1>2. VersionOf([code |-> 200, body |-> "list", value |-> Missing]) = Raises
  BY DEF VersionOf
<1>3. \A a : VersionOf(a).kind # "report"
  BY DEF VersionOf, Raises, Nothing
<1>4. UrlResults("VERSION") = {VersionOf(a) : a \in Answer \cup {NoAnswer}}
  BY DEF UrlResults
<1>5. Down(Number).kind = "report"
  BY DEF Down
<1> QED
  BY <1>1, <1>2, <1>3, <1>4, <1>5

LEMMA ElasticsearchResults ==
  /\ Raises \in UrlResults("ELASTICSEARCH")
  /\ Down(Number) \in UrlResults("ELASTICSEARCH")
<1>1. /\ [code |-> 200, body |-> "list", value |-> Missing] \in Answer
      /\ [code |-> 200, body |-> "object", value |-> Number] \in Answer
  BY DEF Answer, Bodies, Values
<1>2. ClusterHealth([code |-> 200, body |-> "list", value |-> Missing]) = Raises
  BY DEF ClusterHealth
<1>3. ClusterHealth([code |-> 200, body |-> "object", value |-> Number]) = Down(Number)
  BY DEF ClusterHealth, Number, Missing
<1>4. UrlResults("ELASTICSEARCH") = {ClusterHealth(a) : a \in Answer \cup {NoAnswer}}
  BY DEF UrlResults
<1> QED
  BY <1>1, <1>2, <1>3, <1>4

LEMMA ForeseenTypes ==
  /\ RaisingTypes = {"KEYCLOAK", "VERSION", "ELASTICSEARCH"}
  /\ StatusTypes = {"ELASTICSEARCH"}
  /\ MuteTypes = {"VERSION"}
<1>1. Down(Number).kind = "report"
  BY DEF Down
<1>2. \E b \in Binds : Bind(b).kind = "report"
  BY DEF Binds, Bind, Up
<1>3. \E r \in UrlResults("LDAP") : r.kind = "report"
  BY <1>2 DEF UrlResults
<1> QED
  BY <1>1, <1>3, LdapResults, KeycloakResults, VersionResults, ElasticsearchResults
  DEF RaisingTypes, StatusTypes, MuteTypes, UrlTypes

(***************************************************************************)
(* The checks of a host and port                                           *)
(***************************************************************************)

(* The first n places of t, as a sequence. *)
LEMMA Prefix ==
  ASSUME NEW S, NEW t, NEW n \in Nat, \A i \in 1..n : t[i] \in S
  PROVE  \E x \in Seq(S) : /\ x = SubSeq(t, 1, n) /\ Len(x) = n
                            /\ \A i \in 1..n : x[i] = t[i]
<1> DEFINE x == SubSeq(t, 1, n)
<1>1. /\ x \in Seq(S) /\ Len(x) = IF 1 <= n THEN n - 1 + 1 ELSE 0
      /\ \A i \in 1..n - 1 + 1 : x[i] = t[1 + i - 1]
  BY SubSeqProperties
<1>2. x = SubSeq(t, 1, n)
  OBVIOUS
<1> HIDE DEF x
<1>3. Len(x) = n
  BY <1>1
<1>4. \A i \in 1..n : x[i] = t[i]
  BY <1>1
<1> QED
  BY <1>1, <1>2, <1>3, <1>4

LEMMA IsSequence ==
  ASSUME NEW S, NEW n \in Nat, NEW f \in [1..n -> S]
  PROVE  f \in Seq(S) /\ Len(f) = n
OBVIOUS

LEMMA WholeWord ==
  ASSUME NEW S, NEW word \in Seq(S), NEW t,
         \A i \in 1..Len(word) : t[i] = word[i]
  PROVE  SubSeq(t, 1, Len(word)) = word
<1>1. \A i \in 1..Len(word) : t[i] \in S
  OBVIOUS
<1>2. Len(word) \in Nat
  OBVIOUS
<1>3. PICK x \in Seq(S) : /\ x = SubSeq(t, 1, Len(word)) /\ Len(x) = Len(word)
                         /\ \A i \in 1..Len(word) : x[i] = t[i]
  BY <1>1, <1>2, Prefix
<1>4. Len(x) = Len(word) /\ \A i \in 1..Len(x) : x[i] = word[i]
  BY <1>3
<1>5. x = word
  BY <1>4, SeqEqual
<1> QED
  BY <1>3, <1>5

(* A segment is a prefix of what was sent.                                 *)
LEMMA Segment ==
  ASSUME NEW said, said # <<>>, Len(said) \in Nat,
         NEW data \in Received(Sends(said))
  PROVE  /\ data \in Seq({said[i] : i \in 1..Len(said)})
         /\ Len(data) \in 1..Len(said)
         /\ \A i \in 1..Len(data) : data[i] = said[i]
<1> DEFINE S == {said[i] : i \in 1..Len(said)}
<1>1. PICK n \in 1..Len(said) : data = SubSeq(said, 1, n)
  BY DEF Received, Sends
<1>2. \A i \in 1..n : said[i] \in S
  BY <1>1
<1>3. n \in Nat
  BY <1>1
<1> HIDE DEF S
<1>4. /\ data \in Seq(S) /\ Len(data) = n
      /\ \A i \in 1..n : data[i] = said[i]
  BY <1>1, <1>2, <1>3, Prefix
<1> QED
  BY <1>1, <1>4 DEF S

(* Greetings, replies to a startup packet and to PING, of any length.      *)
LEMMA GreetingIsUp ==
  ASSUME NEW said, said # <<>>, Len(said) \in Nat, said[1] # "timeout",
         NEW k \in Nat, 6 <= k, k <= Len(said), said[k] = Nul,
         NEW data \in Received(Sends(said)),
         Len(data) < 5 \/ k <= Len(data)
  PROVE  Greeting(data) = Up("")
<1>1. /\ Len(data) \in 1..Len(said)
      /\ \A i \in 1..Len(data) : data[i] = said[i]
  BY Segment
<1>2. data # TimedOut
  <2>1. data[1] # "timeout"
    BY <1>1
  <2> QED
    BY <2>1 DEF TimedOut
<1>3. Len(data) < 5 \/ \E i \in 6..Len(data) : data[i] = Nul
  <2>1. Len(data) >= k => k \in 6..Len(data) /\ data[k] = Nul
    BY <1>1
  <2> QED
    BY <1>1, <2>1
<1> QED
  BY <1>2, <1>3 DEF Greeting

LEMMA StartupIsUp ==
  ASSUME NEW said, said # <<>>, Len(said) \in Nat, said[1] \in {"R", "E", "N"},
         NEW data \in Received(Sends(said))
  PROVE  Startup(data) = Up("")
<1>1. /\ Len(data) \in 1..Len(said)
      /\ \A i \in 1..Len(data) : data[i] = said[i]
  BY Segment
<1>2. data # <<>> /\ data[1] = said[1]
  BY <1>1
<1> QED
  BY <1>2 DEF Startup

(* The two words that check_redis() knows, as sequences.                   *)
Letters == {"+", "P", "O", "N", "G", "-", "A", "U", "T", "H", "CR", "SP"}

LEMMA Words ==
  /\ Pong \in Seq(Letters) /\ Len(Pong) = 5
  /\ NoAuth \in Seq(Letters) /\ Len(NoAuth) = 7
<1>1. /\ Pong[1] = "+" /\ Pong[2] = "P" /\ Pong[3] = "O" /\ Pong[4] = "N"
      /\ Pong[5] = "G"
  BY DEF Pong
<1>2. /\ NoAuth[1] = "-" /\ NoAuth[2] = "N" /\ NoAuth[3] = "O"
      /\ NoAuth[4] = "A" /\ NoAuth[5] = "U" /\ NoAuth[6] = "T" /\ NoAuth[7] = "H"
  BY DEF NoAuth
<1>3. \A i \in 1..5 : Pong[i] \in Letters
  <2>1. \A i \in 1..5 : i = 1 \/ i = 2 \/ i = 3 \/ i = 4 \/ i = 5
    OBVIOUS
  <2> QED
    BY <1>1, <2>1 DEF Letters
<1>4. \A i \in 1..7 : NoAuth[i] \in Letters
  <2>1. \A i \in 1..7 :
          i = 1 \/ i = 2 \/ i = 3 \/ i = 4 \/ i = 5 \/ i = 6 \/ i = 7
    OBVIOUS
  <2> QED
    BY <1>2, <2>1 DEF Letters
<1>5. ASSUME NEW w, w = [i \in 1..5 |-> Pong[i]]
      PROVE  w \in Seq(Letters) /\ w = Pong
  <2>1. w \in [1..5 -> Letters]
    BY <1>3, <1>5
  <2>2. w \in Seq(Letters) /\ Len(w) = 5
    BY <2>1, IsSequence
  <2>3. w[1] = "+" /\ w[2] = "P" /\ w[3] = "O" /\ w[4] = "N" /\ w[5] = "G"
    BY <1>1, <1>5
  <2>4. w = Pong
    BY <2>2, <2>3 DEF Pong
  <2> QED
    BY <2>2, <2>4
<1>6. ASSUME NEW w, w = [i \in 1..7 |-> NoAuth[i]]
      PROVE  w \in Seq(Letters) /\ w = NoAuth
  <2>1. w \in [1..7 -> Letters]
    BY <1>4, <1>6
  <2>2. w \in Seq(Letters) /\ Len(w) = 7
    BY <2>1, IsSequence
  <2>3. /\ w[1] = "-" /\ w[2] = "N" /\ w[3] = "O" /\ w[4] = "A"
        /\ w[5] = "U" /\ w[6] = "T" /\ w[7] = "H"
    BY <1>2, <1>6
  <2>4. w = NoAuth
    BY <2>2, <2>3 DEF NoAuth
  <2> QED
    BY <2>2, <2>4
<1>7. Len(Pong) = 5 /\ Len(NoAuth) = 7
  BY DEF Pong, NoAuth
<1> QED
  BY <1>5, <1>6, <1>7

LEMMA PingIsUp ==
  ASSUME NEW said, said # <<>>, Len(said) \in Nat, NEW word \in {Pong, NoAuth},
         Len(word) <= Len(said),
         \A i \in 1..Len(word) : said[i] = word[i],
         NEW data \in Received(Sends(said)), Len(data) >= Len(word)
  PROVE  Ping(data) = Up("")
<1>1. word \in Seq(Letters) /\ Len(word) \in Nat
  BY Words
<1>2. /\ Len(data) \in 1..Len(said)
      /\ \A i \in 1..Len(data) : data[i] = said[i]
  BY Segment
<1>3. SubSeq(data, 1, Len(word)) = word
  <2>1. \A i \in 1..Len(word) : data[i] = word[i]
    BY <1>1, <1>2
  <2> QED
    BY <1>1, <2>1, WholeWord
<1> QED
  BY <1>3 DEF Ping, StartsWith

(* What is said to a MySQL client, to a Postgres and to a Redis client.    *)
LEMMA PingWords ==
  ASSUME NEW word \in Seq(Letters), NEW rest \in Seq(Letters),
         Len(word) > 0
  PROVE  /\ word \o rest # <<>>
         /\ Len(word \o rest) \in Nat
         /\ Len(word) <= Len(word \o rest)
         /\ \A i \in 1..Len(word) : (word \o rest)[i] = word[i]
<1> DEFINE said == word \o rest
<1>1. /\ said \in Seq(Letters) /\ Len(said) = Len(word) + Len(rest)
      /\ \A i \in 1..Len(word) + Len(rest) :
           said[i] = IF i <= Len(word) THEN word[i] ELSE rest[i - Len(word)]
  BY ConcatProperties
<1> HIDE DEF said
<1>2. Len(word) \in Nat /\ Len(rest) \in Nat
  OBVIOUS
<1>3. Len(said) \in Nat /\ Len(word) <= Len(said) /\ said # <<>>
  BY <1>1, <1>2
<1>4. \A i \in 1..Len(word) : said[i] = word[i]
  BY <1>1, <1>2
<1> QED
  BY <1>3, <1>4 DEF said

LEMMA Rests == <<"CR">> \in Seq(Letters) /\ <<"SP", "A">> \in Seq(Letters)
<1>1. ASSUME NEW w, w = [i \in 1..1 |-> "CR"]
      PROVE  w \in Seq(Letters) /\ w = <<"CR">>
  <2>1. w \in [1..1 -> Letters]
    BY <1>1 DEF Letters
  <2>2. w \in Seq(Letters) /\ Len(w) = 1 /\ w[1] = "CR"
    BY <1>1, <2>1, IsSequence
  <2> QED
    BY <2>2
<1>2. ASSUME NEW w, w = [i \in 1..2 |-> IF i = 1 THEN "SP" ELSE "A"]
      PROVE  w \in Seq(Letters) /\ w = <<"SP", "A">>
  <2>1. w \in [1..2 -> Letters]
    BY <1>2 DEF Letters
  <2>2. w \in Seq(Letters) /\ Len(w) = 2 /\ w[1] = "SP" /\ w[2] = "A"
    BY <1>2, <2>1, IsSequence
  <2> QED
    BY <2>2
<1> QED
  BY <1>1, <1>2

LEMMA RedisSpeaks ==
  ASSUME NEW said \in Speaks.REDIS, NEW data \in Received(Sends(said))
  PROVE  \/ Spoken("REDIS", data).up
         \/ Len(data) < (IF said[1] = "+" THEN 5 ELSE 7)
<1>1. \/ said = Pong \o <<"CR">>
      \/ said = NoAuth \o <<"SP", "A">>
  BY DEF Speaks
<1>2. Pong[1] = "+" /\ NoAuth[1] = "-"
  BY DEF Pong, NoAuth
<1>3. ASSUME NEW word \in {Pong, NoAuth}, NEW rest \in Seq(Letters),
             said = word \o rest, Len(data) >= Len(word)
      PROVE  Ping(data) = Up("") /\ said[1] = word[1]
  <2>1. word \in Seq(Letters) /\ Len(word) > 0
    <3>1. CASE word = Pong
      BY <3>1, Words
    <3>2. CASE word = NoAuth
      BY <3>2, Words
    <3> QED
      BY <3>1, <3>2
  <2>2. /\ said # <<>> /\ Len(said) \in Nat /\ Len(word) <= Len(said)
        /\ \A i \in 1..Len(word) : said[i] = word[i]
    BY <1>3, <2>1, PingWords
  <2>3. Ping(data) = Up("")
    BY <1>3, <2>2, PingIsUp
  <2>4. 1 \in 1..Len(word)
    BY <2>1
  <2> QED
    BY <2>2, <2>3, <2>4
<1>4. Up("").up /\ Spoken("REDIS", data) = Ping(data)
  BY DEF Up, Spoken
<1>5. CASE said = Pong \o <<"CR">>
  <2>1. Len(Pong) = 5 /\ <<"CR">> \in Seq(Letters)
    BY Words, Rests
  <2>2. Len(data) >= 5 => Ping(data) = Up("") /\ said[1] = Pong[1]
    BY <1>3, <1>5, <2>1
  <2>3. said[1] = Pong[1]
    BY <1>2, <1>5, <2>1, Words, PingWords
  <2>4. Len(data) \in Int
    BY <1>5, <2>1, Words, PingWords, Segment
  <2>5. CASE Len(data) >= 5
    BY <1>4, <2>2, <2>5
  <2>6. CASE Len(data) < 5
    <3>1. said[1] = "+"
      BY <1>2, <2>3
    <3> QED
      BY <2>6, <3>1
  <2> QED
    BY <2>4, <2>5, <2>6
<1>6. CASE said = NoAuth \o <<"SP", "A">>
  <2>1. Len(NoAuth) = 7 /\ <<"SP", "A">> \in Seq(Letters)
    BY Words, Rests
  <2>2. Len(data) >= 7 => Ping(data) = Up("") /\ said[1] = NoAuth[1]
    BY <1>3, <1>6, <2>1
  <2>3. said[1] = NoAuth[1]
    BY <1>2, <1>6, <2>1, Words, PingWords
  <2>4. Len(data) \in Int
    BY <1>6, <2>1, Words, PingWords, Segment
  <2>5. CASE Len(data) >= 7
    BY <1>4, <2>2, <2>5
  <2>6. CASE Len(data) < 7
    <3>1. said[1] # "+"
      BY <1>2, <2>3
    <3> QED
      BY <2>6, <3>1
  <2> QED
    BY <2>4, <2>5, <2>6
<1> QED
  BY <1>1, <1>5, <1>6

LEMMA DatabaseSpeaks ==
  ASSUME NEW said \in Speaks.DATABASE, NEW data \in Received(Sends(said))
  PROVE  Spoken("DATABASE", data).up \/ Len(data) \in 5..7
<1>1. said = <<"h", "h", "h", "h", "10", "1", "1", Nul, "id", Nul>>
  BY DEF Speaks
<1>2. said # <<>> /\ Len(said) = 10 /\ said[1] # "timeout" /\ said[8] = Nul
  BY <1>1
<1>3. Len(data) \in 1..10
  <2>1. Len(said) \in Nat
    BY <1>2
  <2>2. Len(data) \in 1..Len(said)
    BY <1>2, <2>1, Segment
  <2> QED
    BY <1>2, <2>2
<1>4. CASE Len(data) < 5 \/ 8 <= Len(data)
  <2>1. Greeting(data) = Up("")
    <3>1. Len(said) \in Nat /\ 8 \in Nat /\ 6 <= 8 /\ 8 <= Len(said)
      BY <1>2
    <3> QED
      BY <1>2, <1>4, <3>1, GreetingIsUp
  <2>2. Up("").up /\ Spoken("DATABASE", data) = Greeting(data)
    BY DEF Up, Spoken
  <2> QED
    BY <2>1, <2>2
<1>5. CASE ~(Len(data) < 5 \/ 8 <= Len(data))
  <2> DEFINE n == Len(data)
  <2>1. n \in 1..10 /\ ~(n < 5 \/ 8 <= n)
    BY <1>3, <1>5
  <2> HIDE DEF n
  <2>2. n \in 5..7
    BY <2>1
  <2> QED
    BY <2>2 DEF n
<1> QED
  BY <1>4, <1>5

LEMMA PostgresSpeaks ==
  ASSUME NEW said \in Speaks.POSTGRES, NEW data \in Received(Sends(said))
  PROVE  Spoken("POSTGRES", data).up
<1>1. said = <<"R", "0", "0">> \/ said = <<"E", "0", "0">>
  BY DEF Speaks
<1>2. said # <<>> /\ Len(said) = 3 /\ said[1] \in {"R", "E"}
  BY <1>1
<1>3. Startup(data) = Up("")
  <2>1. Len(said) \in Nat /\ said[1] \in {"R", "E", "N"}
    BY <1>2
  <2> QED
    BY <1>2, <2>1, StartupIsUp
<1>4. Up("").up /\ Spoken("POSTGRES", data) = Startup(data)
  BY DEF Up, Spoken
<1> QED
  BY <1>3, <1>4

LEMMA Speakers == SpeakersAreUp
<1> SUFFICES ASSUME NEW t \in HostPort, NEW said \in Speaks[t],
                    NEW data \in Received(Sends(said))
             PROVE  \/ Spoken(t, data).up
                    \/ t = "DATABASE" /\ Len(data) \in 5..7
                    \/ /\ t = "REDIS"
                       /\ Len(data) < (IF said[1] = "+" THEN 5 ELSE 7)
  BY DEF SpeakersAreUp
<1>1. CASE t = "DATABASE"
  <2>1. said \in Speaks.DATABASE
    BY <1>1
  <2> QED
    BY <1>1, <2>1, DatabaseSpeaks
<1>2. CASE t = "POSTGRES"
  <2>1. said \in Speaks.POSTGRES
    BY <1>2
  <2> QED
    BY <1>2, <2>1, PostgresSpeaks
<1>3. CASE t = "REDIS"
  <2>1. said \in Speaks.REDIS
    BY <1>3
  <2> QED
    BY <1>3, <2>1, RedisSpeaks
<1>4. CASE t = "MONGODB"
  BY <1>4 DEF Speaks
<1> QED
  BY <1>1, <1>2, <1>3, <1>4 DEF HostPort

(* A server that says nothing, hanging up or not, or that is not there.    *)
LEMMA Silence ==
  /\ Spoken("DATABASE", <<>>).up /\ ~Spoken("DATABASE", TimedOut).up
  /\ ~Spoken("POSTGRES", <<>>).up /\ ~Spoken("POSTGRES", TimedOut).up
  /\ ~Spoken("REDIS", <<>>).up /\ ~Spoken("REDIS", TimedOut).up
  /\ Spoken("MONGODB", <<>>).up /\ Spoken("MONGODB", TimedOut).up
<1>1. \A x : Up(x).up /\ ~Down(x).up
  BY DEF Up, Down
<1>2. <<>> # TimedOut /\ Len(<<>>) = 0 /\ Len(TimedOut) = 1
      /\ TimedOut[1] = "timeout"
  BY DEF TimedOut
<1>3. Greeting(<<>>) = Up("") /\ Greeting(TimedOut) = Down("timeout")
  BY <1>2 DEF Greeting
<1>4. Startup(<<>>) = Down("reply") /\ Startup(TimedOut) = Down("reply")
  BY <1>2 DEF Startup
<1>5. Ping(<<>>) = Down("reply") /\ Ping(TimedOut) = Down("reply")
  BY <1>2, Words DEF Ping, StartsWith
<1>6. \A d : /\ Spoken("DATABASE", d) = Greeting(d)
             /\ Spoken("POSTGRES", d) = Startup(d)
             /\ Spoken("REDIS", d) = Ping(d)
             /\ Spoken("MONGODB", d) = Up("")
  BY DEF Spoken
<1> QED
  BY <1>1, <1>3, <1>4, <1>5, <1>6

LEMMA Silent == SilentAreDown
<1>1. \A t : \A r \in SocketResults(t, Unreachable) : ~r.up
  BY DEF SocketResults, Unreachable, Down
<1>2. \A t : \A hangs_up \in BOOLEAN :
        SocketResults(t, Mute(hangs_up)) =
          {Spoken(t, IF hangs_up THEN <<>> ELSE TimedOut)}
  BY DEF SocketResults, Mute, Received
<1>3. \A t \in HostPort : \A hangs_up \in BOOLEAN :
        Spoken(t, IF hangs_up THEN <<>> ELSE TimedOut).up
          <=> t = "MONGODB" \/ (t = "DATABASE" /\ hangs_up)
  BY Silence DEF HostPort
<1> QED
  BY <1>1, <1>2, <1>3 DEF SilentAreDown

(***************************************************************************)
(* What the cycle foresees is what the checks make of their answers: with  *)
(* the tables of exporter.py as the constants, no check of a url raises,   *)
(* reports a status that is no text, or reports nothing, where CheckCycle  *)
(* leaves it out, and none of these is allowed for where it cannot happen. *)
(***************************************************************************)
THEOREM ProbesAreForeseenHolds ==
  ASSUME JsonObject = {"KEYCLOAK", "VERSION", "ELASTICSEARCH"},
         FreeStatus = {"ELASTICSEARCH"}, InfoOnly = {"VERSION"}
  PROVE  Spec => []ProbesAreForeseen
<1>1. ProbesAreForeseen
  BY ForeseenTypes DEF ProbesAreForeseen
<1> QED
  BY <1>1, PTL

(***************************************************************************)
(* However TCP cuts what a server says, a MySQL, a Postgres or a Redis     *)
(* that speaks its protocol is reported up - unless the first segment of a *)
(* greeting ends within the version, or that of a Redis reply within the   *)
(* word - and a server that is not there or says nothing is reported down  *)
(* - unless it is a MongoDB, or a MySQL that hangs up.                     *)
(***************************************************************************)
THEOREM AliveIsUpAndDeadIsDownHolds == Spec => []AliveIsUpAndDeadIsDown
<1>1. AliveIsUpAndDeadIsDown
  BY Speakers, Silent DEF AliveIsUpAndDeadIsDown
<1> QED
  BY <1>1, PTL
=============================================================================
