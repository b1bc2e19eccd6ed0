------------------------------- MODULE SdCache -------------------------------
(***************************************************************************)
(* The Prometheus HTTP-SD endpoints GET /sd/<type>                         *)
(* (monitor_exporter/sd_endpoints.py).  Flask serves every request in a    *)
(* thread of its own.  A request looks its type up in a module-level cache *)
(* under a lock, queries monitored_system WITHOUT the lock when the entry  *)
(* is missing or expired, and stores what it read under the lock again.    *)
(* Two threads may therefore fetch the same type at once and store in      *)
(* either order, while the admin UI edits the table between any two steps. *)
(*                                                                         *)
(* A section under _cache_lock is one action: it makes no call that waits. *)
(* The payload is the set of systems listed; the labels of an entry are a  *)
(* function of its row and are left out.                                   *)
(***************************************************************************)
EXTENDS Integers

CONSTANTS
  SdTypes,    \* the keys of _MAPPERS: "http", "tcp", "icmp", ...
  OtherPaths, \* other values of <type> in a request's path
  Rows,       \* the rows monitored_system may hold, as fetch() looks at them
  Systems,    \* identities a row of monitored_system may have
  Threads,    \* Flask request threads
  TTL,        \* SD_CACHE_TTL_S
  MaxClock,   \* bound: the clock stops here
  MaxEdits    \* bound: the admin UI commits so many statements

ASSUME SdCacheAssumption ==
  /\ TTL \in Nat \ {0}
  /\ MaxClock \in Nat
  /\ MaxEdits \in Nat
  /\ SdTypes # {} /\ SdTypes \cap OtherPaths = {}
  /\ Rows \subseteq [type : STRING, is_enable : BOOLEAN, url : BOOLEAN]

VARIABLES
  clock,      \* time.monotonic()
  catalog,    \* catalog[s]: the row of system s, or NoRow
  edits,      \* how many statements were committed (for the bound only)
  cache,      \* _cache: expiry and payload per type
  pc,         \* pc[w]: where thread w is in sd() and cached_fetch()
  sd_type,    \* sd_type[w]: the type it was asked for
  now,        \* now[w]: the clock it read on entry
  payload,    \* payload[w]: the list it fetched or found
  moments     \* history: moments[t] has <<c, p>> iff fetch(t) gave p at time c

vars == <<clock, catalog, edits, cache, pc, sd_type, now, payload, moments>>

(* A system that has no row: it was deleted or never created.              *)
NoRow == [type |-> "", is_enable |-> FALSE, url |-> FALSE]
Row == Rows \cup {NoRow}

PC == {"idle", "lookup", "fetch", "store", "ok", "error", "not_found"}

(* The rows fetch() returns: enabled, of the type, with a url. *)
Listed(cat, t) ==
  {s \in Systems : /\ cat[s].type = t
                   /\ cat[s].is_enable
                   /\ cat[s].url}

(* Before the first store of a type it has no entry: `entry and ...` is    *)
(* false, as it is for an entry that expired at time 0.                    *)
Init ==
  /\ clock = 0
  /\ catalog \in [Systems -> Row]
  /\ edits = 0
  /\ cache = [t \in SdTypes |-> [expires |-> 0, payload |-> {}]]
  /\ pc = [w \in Threads |-> "idle"]
  /\ sd_type = [w \in Threads |-> CHOOSE t \in SdTypes : TRUE]
  /\ now = [w \in Threads |-> 0]
  /\ payload = [w \in Threads |-> {}]
  /\ moments = [t \in SdTypes |-> {<<clock, Listed(catalog, t)>>}]

(***************************************************************************)
(* The environment: time, and the admin UI's committed statements.         *)
(***************************************************************************)
Tick ==
  /\ clock < MaxClock
  /\ clock' = clock + 1
  /\ moments' = [t \in SdTypes |->
                   moments[t] \cup {<<clock + 1, Listed(catalog, t)>>}]
  /\ UNCHANGED <<catalog, edits, cache, pc, sd_type, now, payload>>

(* One autocommitted statement: insert, update, enable, disable, delete. *)
Edit(s) ==
  /\ edits < MaxEdits
  /\ edits' = edits + 1
  /\ \E row \in Row \ {catalog[s]} :
       catalog' = [catalog EXCEPT ![s] = row]
  /\ moments' = [t \in SdTypes |->
                   moments[t] \cup {<<clock, Listed(catalog', t)>>}]
  /\ UNCHANGED <<clock, cache, pc, sd_type, now, payload>>

(***************************************************************************)
(* A request thread.                                                       *)
(***************************************************************************)
AtRest(w) == pc[w] \in {"idle", "ok", "error", "not_found"}

(* sd(): a known type goes on to cached_fetch(), which reads the clock. *)
Request(w) ==
  /\ AtRest(w)
  /\ \E t \in SdTypes : sd_type' = [sd_type EXCEPT ![w] = t]
  /\ now' = [now EXCEPT ![w] = clock]
  /\ pc' = [pc EXCEPT ![w] = "lookup"]
  /\ payload' = [payload EXCEPT ![w] = {}]
  /\ UNCHANGED <<clock, catalog, edits, cache, moments>>

(* sd(): any other type is answered 404 at once. *)
RequestUnknown(w) ==
  /\ AtRest(w)
  /\ OtherPaths # {}
  /\ pc' = [pc EXCEPT ![w] = "not_found"]
  /\ payload' = [payload EXCEPT ![w] = {}]
  /\ UNCHANGED <<clock, catalog, edits, cache, sd_type, now, moments>>

(* BUG VARIANT of Valid: any entry is good, however old. *)
ValidForever(w) == cache[sd_type[w]].expires # 0

(* `entry and entry[0] > now`, with the clock read before the lock. *)
Valid(w) == cache[sd_type[w]].expires > now[w]

Hit(w) ==
  /\ pc[w] = "lookup"
  /\ Valid(w)
  /\ payload' = [payload EXCEPT ![w] = cache[sd_type[w]].payload]
  /\ pc' = [pc EXCEPT ![w] = "ok"]
  /\ UNCHANGED <<clock, catalog, edits, cache, sd_type, now, moments>>

Miss(w) ==
  /\ pc[w] = "lookup"
  /\ ~Valid(w)
  /\ pc' = [pc EXCEPT ![w] = "fetch"]
  /\ UNCHANGED <<clock, catalog, edits, cache, sd_type, now, payload, moments>>

(* fetch(): one SELECT outside the lock. *)
Fetch(w) ==
  /\ pc[w] = "fetch"
  /\ payload' = [payload EXCEPT ![w] = Listed(catalog, sd_type[w])]
  /\ pc' = [pc EXCEPT ![w] = "store"]
  /\ UNCHANGED <<clock, catalog, edits, cache, sd_type, now, moments>>

(* BUG VARIANT of FetchFails: the failed fetch is tried again for ever. *)
FetchFailsAndRetries(w) ==
  /\ pc[w] = "fetch"
  /\ pc' = [pc EXCEPT ![w] = "lookup"]
  /\ UNCHANGED <<clock, catalog, edits, cache, sd_type, now, payload, moments>>

(* connect() or the query raises: sd() answers 500, the cache is as it was. *)
FetchFails(w) ==
  /\ pc[w] = "fetch"
  /\ pc' = [pc EXCEPT ![w] = "error"]
  /\ UNCHANGED <<clock, catalog, edits, cache, sd_type, now, payload, moments>>

(* BUG VARIANT of Expiry: the time-to-live counts from the store. *)
ExpiryAtStore(w) == clock + TTL

(* `now + SD_CACHE_TTL_S`: the time-to-live counts from before the fetch. *)
Expiry(w) == now[w] + TTL

(* The second locked section overwrites whatever entry is there. *)
Store(w) ==
  /\ pc[w] = "store"
  /\ cache' = [cache EXCEPT ![sd_type[w]] =
                 [expires |-> Expiry(w), payload |-> payload[w]]]
  /\ pc' = [pc EXCEPT ![w] = "ok"]
  /\ UNCHANGED <<clock, catalog, edits, sd_type, now, payload, moments>>

Step(w) == Hit(w) \/ Miss(w) \/ Fetch(w) \/ FetchFails(w) \/ Store(w)

Next ==
  \/ Tick
  \/ \E s \in Systems : Edit(s)
  \/ \E w \in Threads : Request(w) \/ RequestUnknown(w) \/ Step(w)

Spec == Init /\ [][Next]_vars

(* A thread that handles a request is scheduled, and its query ends. *)
FairSpec == Spec /\ \A w \in Threads : WF_vars(Step(w))

-----------------------------------------------------------------------------
(***************************************************************************)
(* Properties                                                              *)
(***************************************************************************)
TypeOK ==
  /\ clock \in Nat
  /\ catalog \in [Systems -> Row]
  /\ edits \in Nat
  /\ cache \in [SdTypes -> [expires : Nat, payload : SUBSET Systems]]
  /\ pc \in [Threads -> PC]
  /\ sd_type \in [Threads -> SdTypes]
  /\ now \in [Threads -> Nat]
  /\ payload \in [Threads -> SUBSET Systems]
  /\ moments \in [SdTypes -> SUBSET (Nat \X SUBSET Systems)]

(* An edit is visible once it is TTL old: when the rows of a type were the *)
(* same from TTL before a request began until now, the request is answered *)
(* with exactly those rows, whichever thread filled the cache, however     *)
(* long its query took and whoever stored last.                            *)
EditsVisibleAfterTTL ==
  \A w \in Threads : \A p \in SUBSET Systems :
    ( /\ pc[w] = "ok"
      /\ \A m \in moments[sd_type[w]] : m[1] > now[w] - TTL => m[2] = p )
    => payload[w] = p

(* The endpoints promise what TtlReads says: an answer is what the table   *)
(* held at one moment no earlier than TTL before the request began.        *)
Source == [t \in SdTypes |-> Listed(catalog, t)]

PhaseOf(p) ==
  CASE p = "idle"                          -> "idle"
    [] p \in {"lookup", "fetch", "store"}  -> "open"
    [] p = "ok"                            -> "answered"
    [] p \in {"error", "not_found"}        -> "failed"

Phase == [w \in Threads |-> PhaseOf(pc[w])]

Given == [w \in Threads |-> IF pc[w] = "ok" THEN payload[w] ELSE {}]

Promise == INSTANCE TtlReads WITH
  Keys <- SdTypes, Values <- SUBSET Systems, Requests <- Threads,
  source <- Source, phase <- Phase, key <- sd_type, since <- now,
  answer <- Given

ImplementsTtlReads == Promise!Spec

(* Every discovery request is answered, the database failing or not: no    *)
(* thread waits on another one's query.                                    *)
EveryRequestAnswered ==
  \A w \in Threads : pc[w] = "lookup" ~> AtRest(w)

-----------------------------------------------------------------------------
(***************************************************************************)
(* The inductive invariant behind ImplementsTtlReads                       *)
(***************************************************************************)

(* The history is up to date: it has the present moment. *)
PresentRecorded ==
  \A t \in SdTypes : <<clock, Listed(catalog, t)>> \in moments[t]

(* No thread started in the future. *)
StartedInThePast == \A w \in Threads : now[w] =< clock

(* What a thread is about to store was true after the thread started. *)
FetchedSinceStart ==
  \A w \in Threads : pc[w] = "store" =>
    \E m \in moments[sd_type[w]] : m[1] >= now[w] /\ m[2] = payload[w]

(* What is cached was true at most TTL before it expires. *)
CachedWithinTTL ==
  \A t \in SdTypes : cache[t].expires # 0 =>
    \E m \in moments[t] :
      m[1] >= cache[t].expires - TTL /\ m[2] = cache[t].payload

(* What a request was answered was true after TTL before it began. *)
AnsweredWithinTTL ==
  \A w \in Threads : pc[w] = "ok" =>
    \E m \in moments[sd_type[w]] : m[1] > now[w] - TTL /\ m[2] = payload[w]

IInv ==
  /\ TypeOK
  /\ PresentRecorded
  /\ StartedInThePast
  /\ FetchedSinceStart
  /\ CachedWithinTTL
  /\ AnsweredWithinTTL
=============================================================================
