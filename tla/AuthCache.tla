------------------------------ MODULE AuthCache ------------------------------
(***************************************************************************)
(* Authorisation of the admin UI (monitor_exporter/admin_ui.py):           *)
(* require_grafana_auth() asks Grafana who is behind the grafana_session   *)
(* cookie and lets the request through if the user's role is high enough.  *)
(* The answer, "nobody" and a failed call included, is cached per cookie   *)
(* for AUTH_CACHE_TTL_S.  As in SdCache, the call is made without the      *)
(* lock, and the threads that made it store their answers in any order.    *)
(*                                                                         *)
(* A user is the rank of its role, the only thing the verdict depends on.  *)
(* A section under _auth_lock is one action.                               *)
(***************************************************************************)
EXTENDS Integers

CONSTANTS
  Cookies,    \* values of the grafana_session cookie
  Ranks,      \* ranks a user may have: 1, 2, 3 by role_rank, 0 any other role
  Threads,    \* Flask request threads
  TTL,        \* AUTH_CACHE_TTL_S
  MaxClock,   \* bound: the clock stops here
  MaxChanges  \* bound: Grafana's answers change so many times

ASSUME AuthCacheAssumption ==
  /\ Cookies # {}
  /\ Ranks \subseteq 0..3
  /\ TTL \in Nat \ {0}
  /\ MaxClock \in Nat
  /\ MaxChanges \in Nat

None == -1              \* no user at all
Who == Ranks \cup {None}

VARIABLES
  clock,      \* time.monotonic()
  sessions,   \* Grafana's sessions: who is behind each cookie, or None
  reachable,  \* Grafana answers within the two seconds of the call
  changes,    \* how often the two have changed (for the bound only)
  cache,      \* _auth_cache: expiry and user per cookie
  pc,         \* pc[w]: where thread w is in the decorator
  cookie,     \* cookie[w]: the cookie of its request
  required,   \* required[w]: the rank its route requires
  now,        \* now[w]: the clock it read on entry
  user,       \* user[w]: who Grafana or the cache said it is
  moments     \* history: moments[c] has <<t, u>> iff a call gave u at time t

vars == <<clock, sessions, reachable, changes, cache, pc, cookie, required,
          now, user, moments>>

(* What a call to /api/user comes to: the user of a 200; None for any      *)
(* other status and for an exception, which is swallowed.                  *)
Called(who, up) == [c \in Cookies |-> IF up THEN who[c] ELSE None]

Verdicts == {"admitted", "forbidden", "login"}

(* A cookie never seen has no entry: as good as one that expired at 0.     *)
Init ==
  /\ clock = 0
  /\ sessions \in [Cookies -> Who]
  /\ reachable \in BOOLEAN
  /\ changes = 0
  /\ cache = [c \in Cookies |-> [expires |-> 0, user |-> None]]
  /\ pc = [w \in Threads |-> "idle"]
  /\ cookie = [w \in Threads |-> CHOOSE c \in Cookies : TRUE]
  /\ required = [w \in Threads |-> 1]
  /\ now = [w \in Threads |-> 0]
  /\ user = [w \in Threads |-> None]
  /\ moments = [c \in Cookies |-> {<<clock, Called(sessions, reachable)[c]>>}]

(***************************************************************************)
(* The environment: time, and Grafana.                                     *)
(***************************************************************************)
Tick ==
  /\ clock < MaxClock
  /\ clock' = clock + 1
  /\ moments' = [c \in Cookies |-> moments[c] \cup
                   {<<clock + 1, Called(sessions, reachable)[c]>>}]
  /\ UNCHANGED <<sessions, reachable, changes, cache, pc, cookie, required,
                 now, user>>

(* A login, a logout, a session that expires, a role granted or revoked;   *)
(* Grafana restarts, hangs, or comes back.                                 *)
GrafanaChanges ==
  /\ changes < MaxChanges
  /\ changes' = changes + 1
  /\ \/ /\ \E c \in Cookies : \E u \in Who \ {sessions[c]} :
            sessions' = [sessions EXCEPT ![c] = u]
        /\ reachable' = reachable
     \/ /\ reachable' = ~reachable
        /\ sessions' = sessions
  /\ moments' = [c \in Cookies |-> moments[c] \cup
                   {<<clock, Called(sessions', reachable')[c]>>}]
  /\ UNCHANGED <<clock, cache, pc, cookie, required, now, user>>

(***************************************************************************)
(* A request thread.                                                       *)
(***************************************************************************)
AtRest(w) == pc[w] \in Verdicts \cup {"idle", "no_cookie"}

(* A request to a route for viewers or for editors: the min_role of every  *)
(* route is one of the two.                                                *)
Request(w) ==
  /\ AtRest(w)
  /\ \E c \in Cookies : cookie' = [cookie EXCEPT ![w] = c]
  /\ \E rank \in {1, 2} : required' = [required EXCEPT ![w] = rank]
  /\ now' = [now EXCEPT ![w] = clock]
  /\ user' = [user EXCEPT ![w] = None]
  /\ pc' = [pc EXCEPT ![w] = "lookup"]
  /\ UNCHANGED <<clock, sessions, reachable, changes, cache, moments>>

(* Without a cookie it is sent to the login page; nobody is asked.         *)
RequestWithoutCookie(w) ==
  /\ AtRest(w)
  /\ user' = [user EXCEPT ![w] = None]
  /\ pc' = [pc EXCEPT ![w] = "no_cookie"]
  /\ UNCHANGED <<clock, sessions, reachable, changes, cache, cookie, required,
                 now, moments>>

(* The decorator's verdict on a user of rank u. *)
Verdict(u, rank) ==
  CASE u = None              -> "login"
    [] u # None /\ u < rank  -> "forbidden"
    [] u # None /\ u >= rank -> "admitted"

(* `entry and entry[0] > now`, with the clock read before the lock. *)
Valid(w) == cache[cookie[w]].expires > now[w]

Hit(w) ==
  /\ pc[w] = "lookup"
  /\ Valid(w)
  /\ user' = [user EXCEPT ![w] = cache[cookie[w]].user]
  /\ pc' = [pc EXCEPT ![w] = Verdict(cache[cookie[w]].user, required[w])]
  /\ UNCHANGED <<clock, sessions, reachable, changes, cache, cookie, required,
                 now, moments>>

Miss(w) ==
  /\ pc[w] = "lookup"
  /\ ~Valid(w)
  /\ pc' = [pc EXCEPT ![w] = "call"]
  /\ UNCHANGED <<clock, sessions, reachable, changes, cache, cookie, required,
                 now, user, moments>>

(* GET /api/user with the cookie, outside the lock. *)
Call(w) ==
  /\ pc[w] = "call"
  /\ user' = [user EXCEPT ![w] = Called(sessions, reachable)[cookie[w]]]
  /\ pc' = [pc EXCEPT ![w] = "store"]
  /\ UNCHANGED <<clock, sessions, reachable, changes, cache, cookie, required,
                 now, moments>>

(* BUG VARIANT of Expiry: the time-to-live counts from the store. *)
ExpiryAtStore(w) == clock + TTL

(* `now + AUTH_CACHE_TTL_S`: counted from before the call. *)
Expiry(w) == now[w] + TTL

(* The second locked section overwrites whatever entry is there. *)
Store(w) ==
  /\ pc[w] = "store"
  /\ cache' = [cache EXCEPT ![cookie[w]] =
                 [expires |-> Expiry(w), user |-> user[w]]]
  /\ pc' = [pc EXCEPT ![w] = Verdict(user[w], required[w])]
  /\ UNCHANGED <<clock, sessions, reachable, changes, cookie, required, now,
                 user, moments>>

Step(w) == Hit(w) \/ Miss(w) \/ Call(w) \/ Store(w)

Next ==
  \/ Tick
  \/ GrafanaChanges
  \/ \E w \in Threads : Request(w) \/ RequestWithoutCookie(w) \/ Step(w)

Spec == Init /\ [][Next]_vars

-----------------------------------------------------------------------------
(***************************************************************************)
(* Properties                                                              *)
(***************************************************************************)
TypeOK ==
  /\ clock \in Nat
  /\ sessions \in [Cookies -> Who]
  /\ reachable \in BOOLEAN
  /\ changes \in Nat
  /\ cache \in [Cookies -> [expires : Nat, user : Who]]
  /\ pc \in [Threads -> {"idle", "lookup", "call", "store", "no_cookie"}
                           \cup Verdicts]
  /\ cookie \in [Threads -> Cookies]
  /\ required \in [Threads -> {1, 2}]
  /\ now \in [Threads -> Nat]
  /\ user \in [Threads -> Who]
  /\ moments \in [Cookies -> SUBSET (Nat \X Who)]

(* A change of rights, or an outage, is forgotten after TTL: a request     *)
(* whose cookie was good enough for its route all the time from TTL before *)
(* it began until now is let through, and one whose cookie was at no such  *)
(* time good enough is not, whichever thread filled the cache, however     *)
(* long its call took and whoever stored last.                             *)
RightsFollowWithinTTL ==
  \A w \in Threads : pc[w] \in Verdicts =>
    LET recent == {m[2] : m \in {n \in moments[cookie[w]] :
                                   n[1] > now[w] - TTL}}
    IN  /\ (\A u \in recent : u >= required[w]) => pc[w] = "admitted"
        /\ (\A u \in recent : u < required[w])  => pc[w] # "admitted"

(* The session check promises what TtlReads says: who it takes a cookie    *)
(* for is who a call would have named at one moment later than TTL before  *)
(* the request began.                                                      *)
PhaseOf(p) ==
  CASE p = "idle"                       -> "idle"
    [] p \in {"lookup", "call", "store"} -> "open"
    [] p \in Verdicts                   -> "answered"
    [] p = "no_cookie"                  -> "failed"

Promise == INSTANCE TtlReads WITH
  Keys <- Cookies, Values <- Who, Requests <- Threads,
  source <- Called(sessions, reachable),
  phase <- [w \in Threads |-> PhaseOf(pc[w])],
  key <- cookie, since <- now,
  answer <- [w \in Threads |-> IF pc[w] \in Verdicts THEN user[w] ELSE None]

ImplementsTtlReads == Promise!Spec

-----------------------------------------------------------------------------
(***************************************************************************)
(* The inductive invariant behind both                                     *)
(***************************************************************************)

(* The history has the present moment. *)
PresentRecorded ==
  \A c \in Cookies :
    <<clock, Called(sessions, reachable)[c]>> \in moments[c]

(* No thread started in the future. *)
StartedInThePast == \A w \in Threads : now[w] =< clock

(* What a thread is about to store was true after the thread started. *)
CalledSinceStart ==
  \A w \in Threads : pc[w] = "store" =>
    \E m \in moments[cookie[w]] : m[1] >= now[w] /\ m[2] = user[w]

(* What is cached was true at most TTL before it expires. *)
CachedWithinTTL ==
  \A c \in Cookies : cache[c].expires # 0 =>
    \E m \in moments[c] :
      m[1] >= cache[c].expires - TTL /\ m[2] = cache[c].user

(* A verdict is the one on a user who was true later than TTL before. *)
JudgedWithinTTL ==
  \A w \in Threads : pc[w] \in Verdicts =>
    /\ pc[w] = Verdict(user[w], required[w])
    /\ \E m \in moments[cookie[w]] : m[1] > now[w] - TTL /\ m[2] = user[w]

IInv ==
  /\ TypeOK
  /\ PresentRecorded
  /\ StartedInThePast
  /\ CalledSinceStart
  /\ CachedWithinTTL
  /\ JudgedWithinTTL
=============================================================================
