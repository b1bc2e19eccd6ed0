-------------------------- MODULE BlackboxLogProofs --------------------------
(***************************************************************************)
(* For all systems, nodes, urls, rows and bounds: what the join of three   *)
(* answers of Prometheus says of a probe, though targets are scraped,      *)
(* expire and are discovered between the questions.                        *)
(***************************************************************************)
EXTENDS BlackboxLog, TLAPS

(***************************************************************************)
(* Targets                                                                 *)
(***************************************************************************)
LEMMA JobsNamed == /\ \A t \in LoggedTypes : JobOf[t] \in Jobs
                   /\ "" \notin Jobs /\ "ICMP" \in LoggedTypes
<1>1. JobOf["HTTP"] = "blackbox_http" /\ JobOf["TCP"] = "blackbox_tcp"
      /\ JobOf["ICMP"] = "blackbox_icmp"
  BY DEF JobOf
<1>2. LoggedTypes = {"HTTP", "TCP", "ICMP"}
  BY DEF LoggedTypes, JobOf
<1> QED
  BY <1>1, <1>2 DEF Jobs

LEMMA NoRowIsRow == NoRow \in Row
BY DEF NoRow, Row

LEMMA NoTargetIsNone == NoTarget \notin Target
BY JobsNamed DEF NoTarget, Target

(* Whatever is served can be told by its job and url, and has a name.      *)
Identified == {t \in Target : Name(t) # Null}

LEMMA ServedIsIdentified ==
  ASSUME catalog \in [SystemIds -> Row], NEW s \in SystemIds, Listed(catalog, s)
  PROVE  TargetOf(catalog, s) \in Identified
<1>1. /\ catalog[s].type \in LoggedTypes /\ catalog[s].url \in Urls
      /\ catalog[s].node_id \in NodeIds \cup {Null}
      /\ catalog[s].about \in Abouts \cup {Null}
  BY DEF Listed, Row
<1>2. s # Null /\ Null \notin NodeIds
  BY BlackboxLogAssumption DEF BlackboxLogAssumption
<1>3. Service(s, catalog[s]) \in Identified
  BY <1>1, <1>2, JobsNamed DEF Service, Identified, Target, Name
<1>4. Node(s, catalog[s]) \in Identified
  BY <1>1, <1>2, JobsNamed DEF Node, Identified, Target, Name
<1> QED
  BY <1>3, <1>4 DEF TargetOf

LEMMA KeyIsKey == \A t \in Target : KeyOf(t) \in Key
BY DEF KeyOf, Key, Target

(***************************************************************************)
(* Types                                                                   *)
(***************************************************************************)
ThreadTypes ==
  /\ pc \in {"sleep", "query", "join"}
  /\ query \in {1, 2, 3}
  /\ labels \in [Key -> Target \cup {NoTarget}]
  /\ value \in [Query -> [Key -> Sample \cup {NoSample}]]
  /\ seen \subseteq Sample

LEMMA QueriesAre ==
  /\ Queries[1] = "success" /\ Queries[2] = "duration"
  /\ Queries[3] = "http_code" /\ Len(Queries) = 3
BY DEF Queries

LEMMA QueryIsOne == ThreadTypes => Queries[query] \in Query
BY QueriesAre DEF ThreadTypes, Query

LEMMA NextQueryTypes ==
  ASSUME ThreadTypes, pc = "query", NextQuery
  PROVE  /\ pc' \in {"query", "join"} /\ query' \in {1, 2, 3}
         /\ pc' = "query" => query' # 1
BY QueriesAre DEF ThreadTypes, NextQuery

(* What an answer enters for a key it has: items of the answer, of the key.*)
LEMMA AnswerSteps ==
  ASSUME ThreadTypes, samples \subseteq Sample,
         \A x \in samples : x.target \in Identified, Answer
  PROVE  LET q  == Queries[query]
             xs == Selected(q)
         IN  /\ xs \subseteq samples
             /\ seen' = IF q = "success" THEN xs ELSE seen
             /\ \A k \in Key :
                  /\ k \in KeysOf(xs) =>
                       /\ \E x \in xs : KeyOf(x.target) = k
                                       /\ value'[q][k] = Reading(q, x)
                       /\ IF labels[k] = NoTarget
                          THEN \E x \in xs : KeyOf(x.target) = k
                                            /\ labels'[k] = x.target
                          ELSE labels'[k] = labels[k]
                  /\ k \notin KeysOf(xs) =>
                       value'[q][k] = NoSample /\ labels'[k] = labels[k]
             /\ \A p \in Query \ {q} : value'[p] = value[p]
             /\ labels' \in [Key -> Target \cup {NoTarget}]
             /\ value' \in [Query -> [Key -> Sample \cup {NoSample}]]
<1> DEFINE q  == Queries[query]
           xs == Selected(q)
<1>1. q \in Query
  BY QueryIsOne
<1>2. xs \subseteq samples
  BY DEF Selected
<1>3. seen' = IF q = "success" THEN xs ELSE seen
  BY DEF Answer
<1>4. PICK first \in [KeysOf(xs) -> xs], last \in [KeysOf(xs) -> xs] :
        /\ FirstAndLast(first, last, xs)
        /\ labels' = [k \in Key |->
             IF labels[k] = NoTarget /\ k \in KeysOf(xs)
             THEN first[k].target ELSE labels[k]]
        /\ value' = [value EXCEPT ![q] = [k \in Key |->
             IF k \in KeysOf(xs) THEN Reading(q, last[k]) ELSE NoSample]]
  BY DEF Answer
<1> HIDE DEF q, xs
<1>5. \A k \in KeysOf(xs) : /\ first[k] \in xs /\ KeyOf(first[k].target) = k
                            /\ last[k] \in xs /\ KeyOf(last[k].target) = k
  BY <1>4 DEF FirstAndLast
<1>6. value'[q] = [k \in Key |->
        IF k \in KeysOf(xs) THEN Reading(q, last[k]) ELSE NoSample]
  BY <1>1, <1>4 DEF ThreadTypes
<1>7. \A p \in Query \ {q} : value'[p] = value[p]
  BY <1>4 DEF ThreadTypes
<1>8. \A x \in xs : Reading(q, x) \in Sample /\ x.target \in Target
  BY <1>2 DEF Reading, Sample
<1>9. value'[q] \in [Key -> Sample \cup {NoSample}]
  BY <1>5, <1>6, <1>8
<1>10. value' \in [Query -> [Key -> Sample \cup {NoSample}]]
  BY <1>4, <1>6, <1>9 DEF ThreadTypes
<1>11. labels' \in [Key -> Target \cup {NoTarget}]
  BY <1>4, <1>5, <1>8 DEF ThreadTypes
<1>12. ASSUME NEW k \in Key
       PROVE  /\ k \in KeysOf(xs) =>
                   /\ \E x \in xs : KeyOf(x.target) = k
                                   /\ value'[q][k] = Reading(q, x)
                   /\ IF labels[k] = NoTarget
                      THEN \E x \in xs : KeyOf(x.target) = k
                                        /\ labels'[k] = x.target
                      ELSE labels'[k] = labels[k]
              /\ k \notin KeysOf(xs) =>
                   value'[q][k] = NoSample /\ labels'[k] = labels[k]
  BY <1>4, <1>5, <1>6
<1> QED
  BY <1>2, <1>3, <1>7, <1>10, <1>11, <1>12 DEF q, xs

LEMMA ThreadTypesInductive ==
  ASSUME ThreadTypes, samples \subseteq Sample,
         \A x \in samples : x.target \in Identified, [Next]_vars
  PROVE  ThreadTypes'
<1>1. CASE WakeUp
  BY <1>1 DEF WakeUp, ThreadTypes
<1>2. CASE Answer
  <2>1. seen' \subseteq Sample
    BY <1>2, AnswerSteps DEF ThreadTypes
  <2>2. /\ labels' \in [Key -> Target \cup {NoTarget}]
        /\ value' \in [Query -> [Key -> Sample \cup {NoSample}]]
    BY <1>2, AnswerSteps
  <2>3. pc = "query" /\ NextQuery
    BY <1>2 DEF Answer
  <2> QED
    BY <2>1, <2>2, <2>3, NextQueryTypes DEF ThreadTypes
<1>3. CASE LogBatch
  <2>1. query' = 1 /\ pc' = "sleep" /\ seen' = {}
        /\ labels' \in [Key -> Target \cup {NoTarget}]
    BY <1>3 DEF LogBatch
  <2>2. value' \in [Query -> [Key -> Sample \cup {NoSample}]]
    BY <1>3 DEF LogBatch
  <2> QED
    BY <2>1, <2>2 DEF ThreadTypes
<1>4. CASE AnswerFails
  BY <1>4, NextQueryTypes DEF AnswerFails, ThreadTypes
<1>5. CASE UNCHANGED thread
  BY <1>5 DEF thread, ThreadTypes
<1>6. CASE \/ \E s \in SystemIds : Edit(s)
           \/ \E job \in Jobs : Discover(job)
           \/ \E t \in discovered : Scrape(t)
           \/ \E x \in samples : Expire(x)
           \/ UNCHANGED vars
  BY <1>5, <1>6 DEF Edit, Discover, Scrape, Expire, vars
<1> QED
  BY <1>1, <1>2, <1>3, <1>4, <1>6 DEF Next, Cycle

(***************************************************************************)
(* Prometheus                                                              *)
(***************************************************************************)
PrometheusOK ==
  /\ catalog \in [SystemIds -> Row]
  /\ discovered \subseteq Identified
  /\ samples \subseteq Sample /\ scrapes \in Nat
  /\ \A x \in samples : x.target \in Identified /\ x.n =< scrapes
  /\ \A x, y \in samples : x.target = y.target => x = y
  /\ pc = "sleep" => scrapes = 0

LEMMA PrometheusInductive ==
  ASSUME PrometheusOK, [Next]_vars PROVE PrometheusOK'
<1>1. ASSUME NEW s \in SystemIds, Edit(s) PROVE PrometheusOK'
  <2>1. catalog' \in [SystemIds -> Row]
    <3>1. Rows[s] \subseteq Row
      <4>1. Rows \in [SystemIds -> SUBSET Row]
        BY BlackboxLogAssumption DEF BlackboxLogAssumption
      <4> QED
        BY <4>1
    <3>2. PICK row \in Rows[s] \cup {NoRow} :
            catalog' = [catalog EXCEPT ![s] = row]
      BY <1>1 DEF Edit
    <3>3. row \in Row
      BY <3>1, NoRowIsRow
    <3> QED
      BY <3>2, <3>3 DEF PrometheusOK
  <2> QED
    BY <1>1, <2>1 DEF Edit, PrometheusOK, prometheus, thread
<1>2. ASSUME NEW job \in Jobs, Discover(job) PROVE PrometheusOK'
  <2>1. discovered' \subseteq Identified
    BY <1>2, ServedIsIdentified DEF Discover, PrometheusOK
  <2> QED
    BY <1>2, <2>1 DEF Discover, PrometheusOK, thread
<1>3. ASSUME NEW t \in discovered, Scrape(t) PROVE PrometheusOK'
  <2>1. PICK up \in BOOLEAN :
          samples' = {x \in samples : x.target # t} \cup
                     {[target |-> t, up |-> up, n |-> scrapes']}
    BY <1>3 DEF Scrape
  <2>2. /\ scrapes' \in Nat /\ scrapes' >= scrapes
        /\ pc' = "sleep" => scrapes' = 0
        /\ UNCHANGED <<catalog, discovered, pc>>
    BY <1>3 DEF Scrape, PrometheusOK, thread
  <2>3. t \in Identified /\ t \in Target
    BY DEF PrometheusOK, Identified
  <2> DEFINE y == [target |-> t, up |-> up, n |-> scrapes']
  <2>4. y \in Sample /\ y.target = t /\ y.n = scrapes'
    BY <2>2, <2>3 DEF Sample
  <2> HIDE DEF y
  <2>5. samples' = {x \in samples : x.target # t} \cup {y}
    BY <2>1 DEF y
  <2>6. \A x \in samples : x.n \in Nat
    BY DEF PrometheusOK, Sample
  <2>7. samples' \subseteq Sample
    BY <2>4, <2>5 DEF PrometheusOK
  <2>8. \A x \in samples' : x.target \in Identified /\ x.n =< scrapes'
    BY <2>2, <2>3, <2>4, <2>5, <2>6 DEF PrometheusOK
  <2>9. \A x, z \in samples' : x.target = z.target => x = z
    BY <2>4, <2>5 DEF PrometheusOK
  <2> QED
    BY <2>2, <2>7, <2>8, <2>9 DEF PrometheusOK
<1>4. ASSUME NEW x \in samples, Expire(x) PROVE PrometheusOK'
  BY <1>4 DEF Expire, PrometheusOK, thread
<1>5. CASE LogBatch
  <2> DEFINE reset(x) == [x EXCEPT !.n = 0]
  <2>1. samples' = {reset(x) : x \in samples} /\ scrapes' = 0
        /\ UNCHANGED <<catalog, discovered>>
    BY <1>5 DEF LogBatch
  <2>2. \A x \in samples : /\ reset(x) \in Sample /\ reset(x).n = 0
                           /\ reset(x).target = x.target
    BY DEF PrometheusOK, Sample
  <2> HIDE DEF reset
  <2>3. \A x, y \in samples' : x.target = y.target => x = y
    BY <2>1, <2>2 DEF PrometheusOK
  <2> QED
    BY <2>1, <2>2, <2>3 DEF PrometheusOK
<1>6. CASE WakeUp \/ Answer \/ AnswerFails
  <2>1. UNCHANGED <<catalog, prometheus>> /\ pc' # "sleep"
    BY <1>6 DEF WakeUp, Answer, AnswerFails, NextQuery
  <2> QED
    BY <2>1 DEF PrometheusOK, prometheus
<1>7. CASE UNCHANGED vars
  BY <1>7 DEF vars, prometheus, thread, PrometheusOK
<1> QED
  BY <1>1, <1>2, <1>3, <1>4, <1>5, <1>6, <1>7 DEF Next, Cycle

(***************************************************************************)
(* What the answers have entered so far                                    *)
(***************************************************************************)
LaterQuery == {"duration", "http_code"}

(* Nothing, before success was asked for.                                  *)
Unasked ==
  /\ pc = "sleep" => query = 1
  /\ pc # "join" /\ query = 1 =>
       /\ seen = {}
       /\ \A k \in Key : labels[k] = NoTarget
       /\ \A q \in Query, k \in Key : value[q][k] = NoSample

(* A success is that of a series seen, of its key; every key seen has one, *)
(* and labels of a series seen.                                            *)
Joined ==
  /\ \A k \in Key : value["success"][k] # NoSample =>
       value["success"][k] \in seen /\ KeyOf(value["success"][k].target) = k
  /\ \A x \in seen :
       /\ x.target \in Identified
       /\ value["success"][KeyOf(x.target)] \in seen
       /\ \E y \in seen : KeyOf(y.target) = KeyOf(x.target)
                          /\ labels[KeyOf(x.target)] = y.target

(* z is a reading of a sample that was seen with x, or is newer than x.    *)
SeenOrNewer(z, x) ==
  (\E y \in seen : y.target = z.target /\ y.n = z.n) \/ z.n >= x.n

(* What Prometheus has, and what a later answer had, was seen when success *)
(* was asked for, or is newer than all that was.                           *)
NothingOlder ==
  /\ \A x, y \in seen : x.target = y.target => x = y
  /\ \A x \in seen :
       /\ x.n =< scrapes
       /\ \A z \in samples : SeenOrNewer(z, x)
       /\ \A q \in LaterQuery, k \in Key :
            value[q][k] # NoSample => SeenOrNewer(value[q][k], x)
  /\ \A q \in LaterQuery, k \in Key :
       value[q][k] # NoSample => KeyOf(value[q][k].target) = k

Recorded == Unasked /\ Joined /\ NothingOlder

IInv == ThreadTypes /\ PrometheusOK /\ Recorded

LEMMA ReadingKeeps ==
  ASSUME NEW q, NEW x \in Sample
  PROVE  /\ Reading(q, x).target = x.target /\ Reading(q, x).n = x.n
         /\ Reading("success", x) = x
BY DEF Reading, Sample

LEMMA FirstAnswer ==
  ASSUME IInv, Answer, query = 1
  PROVE  Recorded'
<1> USE DEF IInv
<1>1. Queries[query] = "success" /\ Selected("success") = samples
  BY QueriesAre DEF Selected
<1>2. pc = "query"
  BY DEF Answer
<1>3. /\ seen = {}
      /\ \A k \in Key : labels[k] = NoTarget
      /\ \A q \in Query, k \in Key : value[q][k] = NoSample
  BY <1>2 DEF Recorded, Unasked
<1>4. samples \subseteq Sample /\ \A x \in samples : x.target \in Identified
  BY DEF PrometheusOK
<1>5. /\ seen' = samples
      /\ \A k \in Key :
           /\ k \in KeysOf(samples) =>
                /\ \E x \in samples : KeyOf(x.target) = k
                                      /\ value'["success"][k] = x
                /\ \E x \in samples : KeyOf(x.target) = k
                                      /\ labels'[k] = x.target
           /\ k \notin KeysOf(samples) => value'["success"][k] = NoSample
      /\ \A p \in Query \ {"success"} : value'[p] = value[p]
  BY <1>1, <1>3, <1>4, AnswerSteps, ReadingKeeps
<1>6. UNCHANGED <<samples, scrapes>>
  BY DEF Answer, prometheus
<1>7. pc' # "sleep" /\ query' # 1
  BY <1>2, QueriesAre DEF Answer, NextQuery
<1>8. Unasked'
  BY <1>7 DEF Unasked
<1>9. Joined'
  <2>1. \A k \in Key : value'["success"][k] # NoSample =>
          value'["success"][k] \in seen'
          /\ KeyOf(value'["success"][k].target) = k
    BY <1>5
  <2>2. ASSUME NEW x \in seen'
        PROVE  /\ x.target \in Identified
               /\ value'["success"][KeyOf(x.target)] \in seen'
               /\ \E y \in seen' : KeyOf(y.target) = KeyOf(x.target)
                                  /\ labels'[KeyOf(x.target)] = y.target
    <3>1. x \in samples /\ x.target \in Identified
      BY <1>4, <1>5
    <3>2. KeyOf(x.target) \in Key
      BY <3>1, KeyIsKey DEF Identified
    <3>3. KeyOf(x.target) \in KeysOf(samples)
      BY <3>1 DEF KeysOf
    <3> QED
      BY <1>5, <3>1, <3>2, <3>3
  <2> QED
    BY <2>1, <2>2 DEF Joined
<1>10. NothingOlder'
  <2>1. \A q \in LaterQuery, k \in Key : value'[q][k] = NoSample
    BY <1>3, <1>5 DEF LaterQuery, Query
  <2>2. \A x, z \in samples : x.n =< scrapes /\ SeenOrNewer(z, x)'
    BY <1>5 DEF SeenOrNewer, PrometheusOK
  <2>3. \A x, y \in samples : x.target = y.target => x = y
    BY DEF PrometheusOK
  <2> QED
    BY <1>5, <1>6, <2>1, <2>2, <2>3 DEF NothingOlder
<1> QED
  BY <1>8, <1>9, <1>10 DEF Recorded

LEMMA LaterAnswer ==
  ASSUME IInv, Answer, query # 1
  PROVE  Recorded'
<1> USE DEF IInv
<1> DEFINE q == Queries[query]
<1>1. q \in LaterQuery /\ q \in Query /\ q # "success"
  BY QueriesAre DEF LaterQuery, Query, ThreadTypes
<1> HIDE DEF q
<1>2. samples \subseteq Sample /\ \A x \in samples : x.target \in Identified
  BY DEF PrometheusOK
<1>3. /\ Selected(q) \subseteq samples
      /\ seen' = seen
      /\ \A k \in Key :
           /\ k \in KeysOf(Selected(q)) =>
                \E x \in samples : KeyOf(x.target) = k
                                   /\ value'[q][k] = Reading(q, x)
           /\ k \notin KeysOf(Selected(q)) => value'[q][k] = NoSample
           /\ labels[k] # NoTarget => labels'[k] = labels[k]
      /\ \A p \in Query \ {q} : value'[p] = value[p]
  BY <1>1, <1>2, AnswerSteps DEF q
<1>4. UNCHANGED <<samples, scrapes>>
  BY DEF Answer, prometheus
<1>5. pc' # "sleep" /\ query' # 1
  BY QueriesAre DEF Answer, NextQuery, ThreadTypes
<1>6. Unasked'
  BY <1>5 DEF Unasked
<1>7. value'["success"] = value["success"]
  BY <1>1, <1>3 DEF Query
<1>8. Joined'
  <2>1. ASSUME NEW x \in seen
        PROVE  labels'[KeyOf(x.target)] = labels[KeyOf(x.target)]
    <3>1. PICK y \in seen : labels[KeyOf(x.target)] = y.target
      BY DEF Recorded, Joined
    <3>2. x.target \in Target /\ y.target \in Target
      BY DEF Recorded, Joined, Identified
    <3> QED
      BY <1>3, <3>1, <3>2, KeyIsKey, NoTargetIsNone
  <2> QED
    BY <1>3, <1>7, <2>1 DEF Recorded, Joined
<1>9. NothingOlder'
  <2>1. ASSUME NEW p \in LaterQuery, NEW k \in Key, value'[p][k] # NoSample
        PROVE  /\ KeyOf(value'[p][k].target) = k
               /\ \A x \in seen : SeenOrNewer(value'[p][k], x)
    <3>1. CASE p = q
      <4>1. PICK z \in samples : /\ KeyOf(z.target) = k
                                 /\ value'[q][k] = Reading(q, z)
        BY <1>3, <2>1, <3>1
      <4>2. \A x \in seen : SeenOrNewer(z, x)
        BY DEF Recorded, NothingOlder
      <4>3. Reading(q, z).target = z.target /\ Reading(q, z).n = z.n
        BY <1>2, ReadingKeeps
      <4> QED
        BY <3>1, <4>1, <4>2, <4>3 DEF SeenOrNewer
    <3>2. CASE p # q
      <4>1. value'[p] = value[p]
        BY <1>3, <3>2 DEF LaterQuery, Query
      <4> QED
        BY <2>1, <4>1 DEF Recorded, NothingOlder
    <3> QED
      BY <3>1, <3>2
  <2>2. \A z : \A x \in seen : SeenOrNewer(z, x) => SeenOrNewer(z, x)'
    BY <1>3 DEF SeenOrNewer
  <2> QED
    BY <1>3, <1>4, <2>1, <2>2 DEF Recorded, NothingOlder
<1> QED
  BY <1>6, <1>8, <1>9 DEF Recorded

LEMMA RecordedInductive ==
  ASSUME IInv, [Next]_vars PROVE Recorded'
<1> USE DEF IInv
<1>1. CASE WakeUp
  <2>1. pc' = "query" /\ query' = 1 /\ UNCHANGED <<labels, value, seen>>
        /\ UNCHANGED <<samples, scrapes>> /\ pc = "sleep" /\ query = 1
    BY <1>1 DEF WakeUp, prometheus, Recorded, Unasked
  <2> QED
    BY <2>1 DEF Recorded, Unasked, Joined, NothingOlder, SeenOrNewer
<1>2. CASE Answer
  BY <1>2, FirstAnswer, LaterAnswer
<1>3. CASE LogBatch
  <2>1. /\ pc' = "sleep" /\ query' = 1 /\ seen' = {}
        /\ \A k \in Key : labels'[k] = NoTarget
        /\ \A q \in Query, k \in Key : value'[q][k] = NoSample
    BY <1>3 DEF LogBatch
  <2>2. Unasked'
    BY <2>1 DEF Unasked
  <2>3. Joined'
    BY <2>1 DEF Joined, Query
  <2>4. NothingOlder'
    BY <2>1 DEF NothingOlder, LaterQuery, Query
  <2> QED
    BY <2>2, <2>3, <2>4 DEF Recorded
<1>4. CASE AnswerFails
  <2>1. /\ UNCHANGED <<samples, scrapes, labels, value, seen>>
        /\ pc' # "sleep" /\ (pc' = "join" \/ query' # 1)
    BY <1>4, QueriesAre DEF AnswerFails, NextQuery, ThreadTypes, prometheus
  <2>2. Unasked'
    BY <2>1 DEF Unasked
  <2>3. Joined' /\ NothingOlder'
    BY <2>1 DEF Recorded, Joined, NothingOlder, SeenOrNewer
  <2> QED
    BY <2>2, <2>3 DEF Recorded
<1>5. CASE UNCHANGED <<thread, samples, scrapes>>
  BY <1>5 DEF thread, Recorded, Unasked, Joined, NothingOlder, SeenOrNewer
<1>6. ASSUME NEW t \in discovered, Scrape(t) PROVE Recorded'
  <2>1. UNCHANGED <<pc, query, labels, value, seen>>
    BY <1>6 DEF Scrape, thread
  <2>2. Unasked' /\ Joined'
    BY <2>1 DEF Recorded, Unasked, Joined
  <2>3. CASE pc = "sleep"
    BY <2>1, <2>2, <2>3 DEF Recorded, Unasked, NothingOlder
  <2>4. CASE pc # "sleep"
    <3>1. scrapes' = scrapes + 1
      BY <1>6, <2>4 DEF Scrape
    <3>2. \A y \in samples' : y \in samples \/ y.n = scrapes'
      BY <1>6 DEF Scrape
    <3>3. ASSUME NEW x \in seen
          PROVE  /\ x.n =< scrapes'
                 /\ \A z \in samples' : SeenOrNewer(z, x)
      <4>1. x.n \in Nat /\ scrapes \in Nat /\ x.n =< scrapes
        BY DEF ThreadTypes, Sample, PrometheusOK, Recorded, NothingOlder
      <4>2. \A z \in samples : SeenOrNewer(z, x)
        BY DEF Recorded, NothingOlder
      <4> QED
        BY <3>1, <3>2, <4>1, <4>2 DEF SeenOrNewer
    <3>4. \A z : \A x \in seen : SeenOrNewer(z, x) => SeenOrNewer(z, x)'
      BY <2>1 DEF SeenOrNewer
    <3> QED
      BY <2>1, <2>2, <3>3, <3>4 DEF Recorded, NothingOlder
  <2> QED
    BY <2>3, <2>4
<1>7. ASSUME NEW z \in samples, Expire(z) PROVE Recorded'
  <2>1. /\ UNCHANGED <<pc, query, labels, value, seen, scrapes>>
        /\ samples' \subseteq samples
    BY <1>7 DEF Expire, thread
  <2> QED
    BY <2>1 DEF Recorded, Unasked, Joined, NothingOlder, SeenOrNewer
<1>8. CASE \/ \E s \in SystemIds : Edit(s)
           \/ \E job \in Jobs : Discover(job)
           \/ UNCHANGED vars
  BY <1>5, <1>8 DEF Edit, Discover, vars, prometheus
<1> QED
  BY <1>1, <1>2, <1>3, <1>4, <1>6, <1>7, <1>8 DEF Next, Cycle

(* Every reachable state has IInv: what the join holds are results of one  *)
(* asking for success, and nothing of an earlier cycle.                    *)
THEOREM Invariance == Spec => []IInv
<1>1. Init => IInv
  <2> SUFFICES ASSUME Init PROVE IInv
    OBVIOUS
  <2>1. ThreadTypes
    <3>1. value \in [Query -> [Key -> Sample \cup {NoSample}]]
      BY DEF Init
    <3> QED
      BY <3>1 DEF Init, ThreadTypes
  <2>2. PrometheusOK
    <3>1. catalog \in [SystemIds -> Row]
      BY BlackboxLogAssumption DEF BlackboxLogAssumption, Init
    <3> QED
      BY <3>1 DEF Init, PrometheusOK
  <2>3. Recorded
    BY DEF Init, Recorded, Unasked, Joined, NothingOlder, LaterQuery, Query
  <2> QED
    BY <2>1, <2>2, <2>3 DEF IInv
<1>2. IInv /\ [Next]_vars => IInv'
  <2> SUFFICES ASSUME IInv, [Next]_vars PROVE IInv'
    OBVIOUS
  <2>1. ThreadTypes'
    BY ThreadTypesInductive DEF IInv, PrometheusOK
  <2> QED
    BY <2>1, PrometheusInductive, RecordedInductive DEF IInv
<1> QED
  BY <1>1, <1>2, PTL DEF Spec

(* The variables of the join and of Prometheus have their types; every name *)
(* logged is that of a system or a node.                                   *)
THEOREM TypeCorrect == Spec => []TypeOK
<1> DEFINE Rest == /\ logged \subseteq SystemIds \cup NodeIds
                   /\ edits \in Nat /\ faults \in Nat
<1>1. Init => Rest
  BY DEF Init
<1>2. IInv /\ Rest /\ [Next]_vars => Rest'
  <2> SUFFICES ASSUME IInv, Rest, [Next]_vars PROVE Rest'
    OBVIOUS
  <2>1. ASSUME NEW s \in SystemIds, Edit(s) PROVE Rest'
    BY <2>1 DEF Edit, thread
  <2>2. CASE LogBatch
    <3>1. \A e \in Batch : e.system_id \in SystemIds \cup NodeIds
      <4> SUFFICES ASSUME NEW k \in Key, Complete(k)
                   PROVE  Entry(k).system_id \in SystemIds \cup NodeIds
        BY DEF Batch
      <4>1. labels[k] \in Target \cup {NoTarget} /\ Name(labels[k]) # Null
        BY DEF IInv, ThreadTypes, Complete
      <4>2. Name(labels[k]) \in SystemIds \cup NodeIds
        <5>1. CASE labels[k] \in Target
          BY <4>1, <5>1 DEF Target, Name
        <5>2. CASE labels[k] = NoTarget
          <6>1. NoTarget.system_id = Null /\ NoTarget.node_id = Null
            BY DEF NoTarget
          <6> QED
            BY <4>1, <5>2, <6>1 DEF Name
        <5> QED
          BY <4>1, <5>1, <5>2
      <4> QED
        BY <4>2 DEF Entry
    <3> QED
      BY <2>2, <3>1 DEF LogBatch
  <2>3. CASE WakeUp \/ Answer \/ AnswerFails
    BY <2>3 DEF WakeUp, Answer, AnswerFails
  <2>4. CASE \/ \E job \in Jobs : Discover(job)
             \/ \E t \in discovered : Scrape(t)
             \/ \E x \in samples : Expire(x)
             \/ UNCHANGED vars
    BY <2>4 DEF Discover, Scrape, Expire, vars, thread
  <2> QED
    BY <2>1, <2>2, <2>3, <2>4 DEF Next, Cycle
<1>3. IInv /\ Rest => TypeOK
  <2>1. Identified \subseteq Target
    BY DEF Identified
  <2> QED
    BY <2>1, QueriesAre DEF IInv, ThreadTypes, PrometheusOK, TypeOK
<1> HIDE DEF Rest
<1> QED
  BY <1>1, <1>2, <1>3, Invariance, PTL DEF Spec

(* log_blackbox_results() logs every result Prometheus has when it is      *)
(* asked for success, under its own name, once for its job and url, unless *)
(* a series of another name has the same job and url: for any number of    *)
(* systems, renamings, edits and scrapes.                                  *)
THEOREM EveryResultIsLoggedHolds == Spec => []EveryResultIsLogged
<1>1. IInv => EveryResultIsLogged
  <2> SUFFICES ASSUME IInv, NEW x \in seen,
                      \A y \in SameKey(x) : Name(y.target) = Name(x.target)
               PROVE  \E e \in Batch :
                        /\ e.key = KeyOf(x.target)
                        /\ e.system_id = Name(x.target)
                        /\ e.success \in SameKey(x)
                        /\ \A f \in Batch :
                             f.key = e.key \/ f.success \in SameKey(x) => f = e
    BY DEF EveryResultIsLogged
  <2> USE DEF IInv
  <2> DEFINE k == KeyOf(x.target)
  <2>1. /\ value["success"][k] \in seen /\ x.target \in Identified
        /\ \E y \in seen : KeyOf(y.target) = k /\ labels[k] = y.target
    BY DEF Recorded, Joined
  <2>2. k \in Key
    BY <2>1, KeyIsKey DEF Identified
  <2>3. \A y \in seen : y # NoSample
    BY NoTargetIsNone DEF ThreadTypes, Sample, NoSample
  <2> HIDE DEF k
  <2>4. value["success"][k] \in SameKey(x)
    BY <2>1, <2>2, <2>3 DEF Recorded, Joined, SameKey, k
  <2>5. Name(labels[k]) = Name(x.target)
    BY <2>1 DEF SameKey, k
  <2>6. Complete(k)
    BY <2>1, <2>3, <2>5 DEF Complete, Identified
  <2>7. Entry(k) \in Batch
    BY <2>2, <2>6 DEF Batch
  <2>8. /\ Entry(k).success \in SameKey(x) /\ Entry(k).key = k
        /\ Entry(k).system_id = Name(x.target)
    BY <2>4, <2>5 DEF Entry
  <2>9. ASSUME NEW f \in Batch, f.key = k \/ f.success \in SameKey(x)
        PROVE  f = Entry(k)
    <3>1. PICK l \in Key : f = Entry(l) /\ Complete(l)
      BY DEF Batch
    <3>2. f.key = l /\ f.success = value["success"][l]
      BY <3>1 DEF Entry
    <3>3. KeyOf(f.success.target) = l
      BY <3>1, <3>2 DEF Complete, Recorded, Joined
    <3>4. f.success \in SameKey(x) => l = k
      BY <3>3 DEF SameKey, k
    <3> QED
      BY <2>9, <3>1, <3>2, <3>4
  <2> QED
    BY <2>7, <2>8, <2>9 DEF k
<1> QED
  BY <1>1, Invariance, PTL

(* log_blackbox_results(): no row of the log pairs a result with an older  *)
(* duration or code, however the scrapes fall between the questions,       *)
(* unless two series had the row's job and url when success was asked for. *)
THEOREM AnswersInOrderHolds == Spec => []AnswersInOrder
<1>1. IInv => AnswersInOrder
  <2> SUFFICES ASSUME IInv, NEW e \in Batch
               PROVE  NotOlder(e.duration, e) /\ NotOlder(e.http_code, e)
    BY DEF AnswersInOrder
  <2> USE DEF IInv
  <2>1. PICK k \in Key : Complete(k) /\ e = Entry(k)
    BY DEF Batch
  <2>2. /\ e.success = value["success"][k] /\ e.key = k
        /\ e.duration = value["duration"][k]
        /\ e.http_code = value["http_code"][k]
    BY <2>1 DEF Entry
  <2>3. e.success \in seen /\ KeyOf(e.success.target) = k /\ e.success.n \in Nat
    BY <2>1, <2>2 DEF Complete, Recorded, Joined, ThreadTypes, Sample
  <2>4. ASSUME NEW q \in LaterQuery PROVE NotOlder(value[q][k], e)
    <3> SUFFICES ASSUME value[q][k] # NoSample,
                        \/ value[q][k].target = e.success.target
                        \/ ~Shared(seen, k)
                 PROVE  value[q][k].n >= e.success.n
      BY <2>2 DEF NotOlder
    <3>1. SeenOrNewer(value[q][k], e.success) /\ KeyOf(value[q][k].target) = k
      BY <2>3 DEF Recorded, NothingOlder
    <3>2. CASE \E y \in seen : /\ y.target = value[q][k].target
                               /\ y.n = value[q][k].n
      <4>1. PICK y \in seen : /\ y.target = value[q][k].target
                              /\ y.n = value[q][k].n
        BY <3>2
      <4>2. y = e.success
        <5>1. CASE value[q][k].target = e.success.target
          BY <2>3, <4>1, <5>1 DEF Recorded, NothingOlder
        <5>2. CASE ~Shared(seen, k)
          BY <2>3, <3>1, <4>1, <5>2 DEF Shared
        <5> QED
          BY <5>1, <5>2
      <4> QED
        BY <2>3, <4>1, <4>2
    <3>3. CASE value[q][k].n >= e.success.n
      BY <3>3
    <3> QED
      BY <3>1, <3>2, <3>3 DEF SeenOrNewer
  <2> QED
    BY <2>2, <2>4 DEF LaterQuery
<1> QED
  BY <1>1, Invariance, PTL
=============================================================================
