----------------------------- MODULE BlackboxLog -----------------------------
(***************************************************************************)
(* The results of the Blackbox probes, from the catalog to the health      *)
(* check log (log_blackbox_results() of monitor_exporter/exporter.py, the  *)
(* mappers of monitor_exporter/sd_endpoints.py).                           *)
(*                                                                         *)
(* The exporter does not run these probes.  Prometheus discovers one       *)
(* target per system and job from /sd/<type>, probes it whenever it likes, *)
(* and keeps the last sample of each series.  Once per cycle the checking  *)
(* thread asks Prometheus three questions, one after the other - success,  *)
(* duration, HTTP code - joins the answers by job and instance, and logs   *)
(* what came out under the system's name.  Scrapes, discovery and the      *)
(* admin UI go on between the questions.                                   *)
(***************************************************************************)
EXTENDS Integers, Sequences

CONSTANTS
  SystemIds,  \* values of monitored_system.system_id
  NodeIds,    \* values of monitored_system.node_id, besides NULL
  Urls,       \* values of monitored_system.url
  Abouts,     \* values of the columns that become the other labels
  Rows,       \* Rows[s]: the rows a user may give the system s
  Seeds,      \* catalogs to start from
  MaxEdits,   \* bound: the admin UI commits so many statements
  MaxScrapes, \* bound: so many scrapes in a cycle
  MaxFaults   \* bound: so many queries fail

Null == ""

(* The jobs whose results are logged, and the system type each discovers. *)
JobOf == [HTTP |-> "blackbox_http", TCP |-> "blackbox_tcp",
          ICMP |-> "blackbox_icmp"]
LoggedTypes == DOMAIN JobOf
Jobs == {JobOf[t] : t \in LoggedTypes}

(* about stands for the columns that only describe a system: display_name  *)
(* and system_group, or node_name, lab_group and node_type.                *)
NoRow == [type |-> Null, url |-> Null, node_id |-> Null, about |-> Null]
Row == [type : LoggedTypes \cup {Null}, url : Urls \cup {Null},
        node_id : NodeIds \cup {Null}, about : Abouts \cup {Null}]

ASSUME BlackboxLogAssumption ==
  /\ SystemIds \subseteq STRING \ {Null}
  /\ NodeIds \subseteq STRING \ {Null}
  /\ Urls \subseteq STRING \ {Null}
  /\ Rows \in [SystemIds -> SUBSET Row]
  /\ Seeds \subseteq [SystemIds -> Row]
  /\ MaxEdits \in Nat /\ MaxScrapes \in Nat /\ MaxFaults \in Nat

VARIABLES
  catalog,    \* each system's row, or NoRow: none, disabled, another type
  discovered, \* Prometheus: the targets of its jobs
  samples,    \* Prometheus: the last sample of each series
  pc,         \* where the checking thread is
  query,      \* index in Queries of the question to ask next
  labels,     \* data[key]["labels"]
  value,      \* value[q][key]: the sample behind data[key][q]
  logged,     \* the names log_check_batch() was handed last
  scrapes,    \* history: scrapes since the queries began
  edits,      \* statements committed so far (for the bound only)
  faults,     \* queries failed so far (for the bound only)
  seen        \* history: what success was asked of, in this cycle

prometheus == <<discovered, samples, scrapes>>
thread     == <<pc, query, labels, value, logged, seen>>
vars       == <<catalog, prometheus, thread, edits, faults>>

(* The labels of a series.  The instance is the url the target was given;  *)
(* what describes a system is part of them, so that a system that is       *)
(* renamed or regrouped gets new series beside its old ones.               *)
Target == [job : Jobs, instance : Urls,
           system_id : SystemIds \cup {Null},
           node_id : SystemIds \cup NodeIds \cup {Null},
           about : Abouts \cup {Null}]
NoTarget == [job |-> "", instance |-> Null, system_id |-> Null,
             node_id |-> Null, about |-> Null]

(* One scrape writes the three values of a series at once.  n tells which  *)
(* scrape it was since the queries began, 0 for those before (history).    *)
Sample == [target : Target, up : BOOLEAN, n : Nat]
NoSample == [target |-> NoTarget, up |-> FALSE, n |-> 0]

Key == Jobs \X Urls
KeyOf(t) == <<t.job, t.instance>>
KeysOf(xs) == {KeyOf(x.target) : x \in xs}

(* BUG VARIANT of Queries: the codes are asked for first. *)
QueriesCodeFirst == <<"http_code", "success", "duration">>

Queries == <<"success", "duration", "http_code">>
Query == {"success", "duration", "http_code"}

Init ==
  /\ catalog \in Seeds
  /\ discovered = {}
  /\ samples = {} /\ scrapes = 0
  /\ pc = "sleep"
  /\ query = 1
  /\ labels = [k \in Key |-> NoTarget]
  /\ value = [q \in Query |-> [k \in Key |-> NoSample]]
  /\ logged = {}
  /\ edits = 0 /\ faults = 0
  /\ seen = {}

(***************************************************************************)
(* The catalog and Prometheus.                                             *)
(***************************************************************************)
Edit(s) ==
  /\ edits < MaxEdits
  /\ edits' = edits + 1
  /\ \E row \in (Rows[s] \cup {NoRow}) \ {catalog[s]} :
       catalog' = [catalog EXCEPT ![s] = row]
  /\ UNCHANGED <<prometheus, thread, faults>>

(* Only rows with a url are served. *)
Listed(cat, s) == cat[s].type # Null /\ cat[s].url # Null

(* _http() and _tcp() *)
Service(s, r) == [job |-> JobOf[r.type], instance |-> r.url,
                  system_id |-> s, node_id |-> Null, about |-> r.about]

(* _icmp(): a node has no system_id label. *)
Node(s, r) == [job |-> JobOf[r.type], instance |-> r.url, system_id |-> Null,
               node_id |-> IF r.node_id # Null THEN r.node_id ELSE s,
               about |-> r.about]

TargetOf(cat, s) ==
  IF cat[s].type = "ICMP" THEN Node(s, cat[s]) ELSE Service(s, cat[s])

(* A job's target list is fetched again. *)
Discover(job) ==
  /\ discovered' = {t \in discovered : t.job # job} \cup
       {t \in {TargetOf(catalog, s) : s \in {u \in SystemIds : Listed(catalog, u)}}
          : t.job = job}
  /\ UNCHANGED <<catalog, samples, scrapes, thread, edits, faults>>

Scraped(t) == \E x \in samples : x.target = t

(* A target is probed and its series get new values. *)
Scrape(t) ==
  /\ scrapes < MaxScrapes
  /\ scrapes' = IF pc = "sleep" THEN 0 ELSE scrapes + 1
  /\ \E up \in BOOLEAN :
       samples' = {x \in samples : x.target # t} \cup
                  {[target |-> t, up |-> up, n |-> scrapes']}
  /\ UNCHANGED <<catalog, discovered, thread, edits, faults>>

(* A target that is no longer discovered, or whose last scrape is as long  *)
(* ago as Prometheus looks back, has no value.                             *)
Expire(x) ==
  /\ samples' = samples \ {x}
  /\ UNCHANGED <<catalog, discovered, scrapes, thread, edits, faults>>

(***************************************************************************)
(* log_blackbox_results()                                                  *)
(***************************************************************************)
WakeUp ==
  /\ pc = "sleep"
  /\ pc' = "query"
  /\ logged' = {}
  /\ UNCHANGED <<catalog, prometheus, query, labels, value, edits, faults,
                 seen>>

(* What a query selects. *)
Selected(q) ==
  {x \in samples : q = "http_code" => x.target.job = "blackbox_http"}

(* The first and the last item of an answer, of each key it has: two items *)
(* if it has two or more, in any order.                                    *)
FirstAndLast(first, last, xs) ==
  \A k \in KeysOf(xs) :
    /\ KeyOf(first[k].target) = k /\ KeyOf(last[k].target) = k
    /\ first[k] = last[k] =>
         \A x \in xs : KeyOf(x.target) = k => x = first[k]

(* BUG VARIANT of NextQuery: one question too many. *)
NextQueryPastEnd ==
  IF query =< Len(Queries) THEN query' = query + 1 /\ UNCHANGED pc
                           ELSE pc' = "join" /\ UNCHANGED query

NextQuery == IF query < Len(Queries) THEN query' = query + 1 /\ UNCHANGED pc
                                     ELSE pc' = "join" /\ UNCHANGED query

(* What an item says of its sample: only success tells whether it was up. *)
Reading(q, x) == IF q = "success" THEN x ELSE [x EXCEPT !.up = FALSE]

(* The answer's items are entered one by one: the first item of a key      *)
(* gives the labels, unless an earlier answer did, and the last the value. *)
Answer ==
  /\ pc = "query"
  /\ LET q  == Queries[query]
         xs == Selected(q)
     IN  /\ \E first, last \in [KeysOf(xs) -> xs] :
              /\ FirstAndLast(first, last, xs)
              /\ labels' = [k \in Key |->
                   IF labels[k] = NoTarget /\ k \in KeysOf(xs)
                   THEN first[k].target ELSE labels[k]]
              /\ value' = [value EXCEPT ![q] = [k \in Key |->
                   IF k \in KeysOf(xs) THEN Reading(q, last[k]) ELSE NoSample]]
         /\ seen' = IF q = "success" THEN xs ELSE seen
  /\ NextQuery
  /\ UNCHANGED <<catalog, prometheus, logged, edits, faults>>

(* No answer, or not 200: the question is passed over. *)
AnswerFails ==
  /\ pc = "query"
  /\ faults < MaxFaults /\ faults' = faults + 1
  /\ NextQuery
  /\ UNCHANGED <<catalog, prometheus, labels, value, logged, edits, seen>>

(* BUG VARIANT of Name: nodes are forgotten. *)
NameOfService(t) == t.system_id

(* The name a result is logged under. *)
Name(t) == IF t.system_id # Null THEN t.system_id ELSE t.node_id

(* BUG VARIANT of Complete: systems that are down are not logged. *)
CompleteIfUp(k) == value["success"][k].up /\ Name(labels[k]) # Null

(* What is known of a key makes an entry of the batch. *)
Complete(k) == value["success"][k] # NoSample /\ Name(labels[k]) # Null

Entry(k) == [system_id |-> Name(labels[k]), key |-> k,
             success |-> value["success"][k],
             duration |-> value["duration"][k],
             http_code |-> value["http_code"][k]]

Batch == {Entry(k) : k \in {l \in Key : Complete(l)}}

(* The join, and log_check_batch(), whose inside is module HistoryLog's.   *)
(* The dictionary goes with the call.                                      *)
LogBatch ==
  /\ pc = "join"
  /\ logged' = {e.system_id : e \in Batch}
  /\ pc' = "sleep"
  /\ query' = 1
  /\ labels' = [k \in Key |-> NoTarget]
  /\ value' = [q \in Query |-> [k \in Key |-> NoSample]]
  /\ seen' = {}
  /\ scrapes' = 0
  /\ samples' = {[x EXCEPT !.n = 0] : x \in samples}
  /\ UNCHANGED <<catalog, discovered, edits, faults>>

Cycle == WakeUp \/ Answer \/ LogBatch

Next ==
  \/ Cycle \/ AnswerFails
  \/ \E s \in SystemIds : Edit(s)
  \/ \E job \in Jobs : Discover(job)
  \/ \E t \in discovered : Scrape(t)
  \/ \E x \in samples : Expire(x)

Spec == Init /\ [][Next]_vars

(* The checking thread runs: a query is answered or times out. *)
FairSpec == Spec /\ WF_vars(Cycle)

-----------------------------------------------------------------------------
(***************************************************************************)
(* Properties                                                              *)
(***************************************************************************)
TypeOK ==
  /\ catalog \in [SystemIds -> Row]
  /\ discovered \subseteq Target
  /\ samples \subseteq Sample
  /\ pc \in {"sleep", "query", "join"}
  /\ query \in 1..Len(Queries)
  /\ labels \in [Key -> Target \cup {NoTarget}]
  /\ value \in [Query -> [Key -> Sample \cup {NoSample}]]
  /\ logged \subseteq SystemIds \cup NodeIds
  /\ scrapes \in Nat
  /\ edits \in Nat /\ faults \in Nat
  /\ seen \subseteq Sample

(* Two series of one job and instance: two systems of a type with one url, *)
(* or one system under its old labels and its new.                         *)
Shared(xs, k) == \E x, y \in xs : x # y /\ KeyOf(x.target) = k
                                        /\ KeyOf(y.target) = k

SameKey(x) == {y \in seen : KeyOf(y.target) = KeyOf(x.target)}

(* Every result Prometheus has when it is asked for success, up or down,   *)
(* is logged: one entry for its job and url, with its own name and one of  *)
(* its series' results - the only one there is, unless the system was      *)
(* renamed or regrouped just before and its old series are still there.    *)
(* This holds whatever is edited, discovered and scraped between the       *)
(* queries - unless a series of the same job and url has another name:     *)
(* another system's, or the node_id that the node had before.              *)
EveryResultIsLogged ==
  pc = "join" =>
    \A x \in seen :
      (\A y \in SameKey(x) : Name(y.target) = Name(x.target)) =>
        \E e \in Batch :
          /\ e.key = KeyOf(x.target)
          /\ e.system_id = Name(x.target)
          /\ e.success \in SameKey(x)
          /\ \A f \in Batch : f.key = e.key \/ f.success \in SameKey(x) => f = e

(* The duration and the HTTP code of an entry are never older than the     *)
(* success they stand beside: the row does not say that the probe failed   *)
(* with the code of the success before it.  Except where the key was       *)
(* shared by two series when success was asked for: a duration or code may *)
(* then be an older one, of the other series.                              *)
NotOlder(part, e) ==
  /\ part # NoSample
  /\ part.target = e.success.target \/ ~Shared(seen, e.key)
  => part.n >= e.success.n

AnswersInOrder ==
  pc = "join" => \A e \in Batch : /\ NotOlder(e.duration, e)
                                  /\ NotOlder(e.http_code, e)

(* A system whose url is its own, and which keeps having a sample, is      *)
(* logged again and again, under its own name - unless it is a node with a *)
(* node_id: that is the name then.                                         *)
Known(s) ==
  /\ Listed(catalog, s)
  /\ Scraped(TargetOf(catalog, s))
  /\ catalog[s].type = "ICMP" => catalog[s].node_id = Null
  /\ ~Shared(samples, KeyOf(TargetOf(catalog, s)))

LoggedAgainAndAgain ==
  \A s \in SystemIds : <>[]Known(s) => []<>(s \in logged)
=============================================================================
