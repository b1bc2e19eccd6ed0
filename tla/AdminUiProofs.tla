---------------------------- MODULE AdminUiProofs ----------------------------
(***************************************************************************)
(* Both parts of the admin UI.                                             *)
(*                                                                         *)
(* AuthCache, for every set of cookies, ranks and threads, every           *)
(* time-to-live and every bound: its invariants, and that it implements    *)
(* TtlReads.                                                               *)
(*                                                                         *)
(* SystemForm, for every set of types, users, texts and entries, and for   *)
(* everything int() and an f-string may make of them: its invariant, and   *)
(* what it means for the one who fills in the form.                        *)
(***************************************************************************)
EXTENDS AuthCache, SystemForm, TLAPS

(***************************************************************************)
(*                       The session check: AuthCache                      *)
(***************************************************************************)

(* Ranks are numbers, and None is below all of them. *)
LEMMA WhoIsInt == Who \subseteq Int /\ None \in Who
BY AuthCacheAssumption DEF Who, None

(* A call names a user, or nobody. *)
LEMMA CalledType ==
  ASSUME NEW who \in [Cookies -> Who], NEW up \in BOOLEAN
  PROVE  Called(who, up) \in [Cookies -> Who]
BY WhoIsInt DEF Called

(* The decorator always reaches a verdict. *)
LEMMA VerdictType ==
  ASSUME NEW u \in Who, NEW rank \in {1, 2}
  PROVE  Verdict(u, rank) \in Verdicts
<1>1. u \in Int /\ None \in Int
  BY WhoIsInt
<1>2. CASE u = None
  BY <1>2 DEF Verdict, Verdicts
<1>3. CASE u # None /\ u < rank
  BY <1>3 DEF Verdict, Verdicts
<1>4. CASE u # None /\ u >= rank
  <2>1. ~(u < rank)
    BY <1>1, <1>4
  <2> QED
    BY <1>4, <2>1 DEF Verdict, Verdicts
<1> QED
  BY <1>1, <1>2, <1>3, <1>4

(* The present moment, as Tick and GrafanaChanges record it. *)
LEMMA RecordingType ==
  ASSUME moments \in [Cookies -> SUBSET (Nat \X Who)],
         NEW t \in Nat, NEW v \in [Cookies -> Who]
  PROVE  [c \in Cookies |-> moments[c] \cup {<<t, v[c]>>}]
           \in [Cookies -> SUBSET (Nat \X Who)]
OBVIOUS

(***************************************************************************)
(* Types.                                                                  *)
(***************************************************************************)
LEMMA InitTypeOK == Init => TypeOK
<1> SUFFICES ASSUME Init PROVE TypeOK
  OBVIOUS
<1>1. Called(sessions, reachable) \in [Cookies -> Who]
  BY CalledType DEF Init
<1>2. moments \in [Cookies -> SUBSET (Nat \X Who)]
  BY <1>1 DEF Init
<1>3. (CHOOSE c \in Cookies : TRUE) \in Cookies
  BY AuthCacheAssumption
<1>4. cookie \in [Threads -> Cookies]
  BY <1>3 DEF Init
<1>5. cache \in [Cookies -> [expires : Nat, user : Who]]
  BY WhoIsInt DEF Init
<1>6. user \in [Threads -> Who]
  BY WhoIsInt DEF Init
<1> QED
  BY <1>2, <1>4, <1>5, <1>6 DEF Init, TypeOK

LEMMA StepTypeOK == TypeOK /\ [Next]_vars => TypeOK'
<1> SUFFICES ASSUME TypeOK, [Next]_vars PROVE TypeOK'
  OBVIOUS
<1>1. CASE Tick
  <2>1. Called(sessions, reachable) \in [Cookies -> Who]
    BY CalledType DEF TypeOK
  <2>2. moments' \in [Cookies -> SUBSET (Nat \X Who)]
    BY <1>1, <2>1, RecordingType DEF Tick, TypeOK
  <2> QED
    BY <1>1, <2>2 DEF Tick, TypeOK
<1>2. CASE GrafanaChanges
  <2>1. sessions' \in [Cookies -> Who] /\ reachable' \in BOOLEAN
    <3>1. CASE sessions' = sessions /\ reachable' = ~reachable
      BY <3>1 DEF TypeOK
    <3>2. CASE /\ reachable' = reachable
               /\ \E c \in Cookies : \E u \in Who \ {sessions[c]} :
                    sessions' = [sessions EXCEPT ![c] = u]
      BY <3>2 DEF TypeOK
    <3> QED
      BY <1>2, <3>1, <3>2, Zenon DEF GrafanaChanges
  <2>2. Called(sessions', reachable') \in [Cookies -> Who]
    BY <2>1, CalledType
  <2>3. moments' \in [Cookies -> SUBSET (Nat \X Who)]
    BY <1>2, <2>2, RecordingType DEF GrafanaChanges, TypeOK
  <2> QED
    BY <1>2, <2>1, <2>3 DEF GrafanaChanges, TypeOK
<1>3. ASSUME NEW w \in Threads, Request(w) PROVE TypeOK'
  BY <1>3, WhoIsInt DEF Request, TypeOK
<1>4. ASSUME NEW w \in Threads, RequestWithoutCookie(w) PROVE TypeOK'
  BY <1>4, WhoIsInt DEF RequestWithoutCookie, TypeOK
<1>5. ASSUME NEW w \in Threads, Hit(w) PROVE TypeOK'
  <2>1. Verdict(cache[cookie[w]].user, required[w]) \in Verdicts
    BY VerdictType DEF TypeOK
  <2> QED
    BY <1>5, <2>1 DEF Hit, TypeOK
<1>6. ASSUME NEW w \in Threads, Miss(w) PROVE TypeOK'
  BY <1>6 DEF Miss, TypeOK
<1>7. ASSUME NEW w \in Threads, Call(w) PROVE TypeOK'
  <2>1. Called(sessions, reachable) \in [Cookies -> Who]
    BY CalledType DEF TypeOK
  <2> QED
    BY <1>7, <2>1 DEF Call, TypeOK
<1>8. ASSUME NEW w \in Threads, Store(w) PROVE TypeOK'
  <2>1. Verdict(user[w], required[w]) \in Verdicts
    BY VerdictType DEF TypeOK
  <2>2. Expiry(w) \in Nat
    BY AuthCacheAssumption DEF Expiry, TypeOK
  <2> QED
    BY <1>8, <2>1, <2>2 DEF Store, TypeOK
<1>9. CASE UNCHANGED vars
  BY <1>9 DEF vars, TypeOK
<1> QED
  BY <1>1, <1>2, <1>3, <1>4, <1>5, <1>6, <1>7, <1>8, <1>9 DEF Next, Step

(* Every state of the session check has the shape TypeOK gives; the        *)
(* verdict is always one of the three.                                     *)
THEOREM TypeCorrect == Spec => []TypeOK
BY InitTypeOK, StepTypeOK, PTL DEF Spec

(***************************************************************************)
(* The inductive invariant.                                                *)
(***************************************************************************)

(* The parts of IInv that speak of moments survive every step that only    *)
(* adds moments and leaves the threads and the cache alone.                *)
LEMMA MomentsOnlyGrow ==
  ASSUME IInv, TypeOK', PresentRecorded', StartedInThePast',
         \A c \in Cookies : moments[c] \subseteq moments'[c],
         UNCHANGED <<cache, pc, cookie, required, now, user>>
  PROVE  IInv'
<1>1. CalledSinceStart'
  BY DEF IInv, TypeOK, CalledSinceStart
<1>2. CachedWithinTTL'
  BY DEF IInv, TypeOK, CachedWithinTTL
<1>3. JudgedWithinTTL'
  BY DEF IInv, TypeOK, JudgedWithinTTL
<1> QED
  BY <1>1, <1>2, <1>3 DEF IInv

(* A thread that reaches its verdict on a user who was true recently       *)
(* enough keeps JudgedWithinTTL.                                           *)
LEMMA OneVerdict ==
  ASSUME IInv, TypeOK', NEW w \in Threads, NEW u \in Who,
         user' = [user EXCEPT ![w] = u],
         pc' = [pc EXCEPT ![w] = Verdict(u, required[w])],
         \E m \in moments[cookie[w]] : m[1] > now[w] - TTL /\ m[2] = u,
         UNCHANGED <<cookie, required, now, moments>>
  PROVE  JudgedWithinTTL'
<1> SUFFICES ASSUME NEW v \in Threads, pc'[v] \in Verdicts
             PROVE  /\ pc'[v] = Verdict(user'[v], required[v])
                    /\ \E m \in moments[cookie[v]] :
                         m[1] > now[v] - TTL /\ m[2] = user'[v]
  BY DEF JudgedWithinTTL
<1>1. CASE v = w
  BY <1>1 DEF IInv, TypeOK
<1>2. CASE v # w
  <2>1. pc'[v] = pc[v] /\ user'[v] = user[v]
    BY <1>2 DEF IInv, TypeOK
  <2> QED
    BY <2>1 DEF IInv, JudgedWithinTTL
<1> QED
  BY <1>1, <1>2

(* A hit is recent because the entry is (CachedWithinTTL), the entry       *)
(* because the thread that stored it called after it read the clock        *)
(* (CalledSinceStart), and that because the present is always recorded     *)
(* (PresentRecorded).                                                      *)
LEMMA StepKeepsIInv == IInv /\ TypeOK' /\ [Next]_vars => IInv'
<1> SUFFICES ASSUME IInv, TypeOK', [Next]_vars PROVE IInv'
  OBVIOUS
<1> USE AuthCacheAssumption
<1>1. CASE Tick
  <2>1. PresentRecorded'
    BY <1>1 DEF Tick, IInv, TypeOK, PresentRecorded
  <2>2. StartedInThePast'
    BY <1>1 DEF Tick, IInv, TypeOK, StartedInThePast
  <2> QED
    BY <1>1, <2>1, <2>2, MomentsOnlyGrow DEF Tick, IInv, TypeOK
<1>2. CASE GrafanaChanges
  <2>1. PresentRecorded'
    BY <1>2 DEF GrafanaChanges, IInv, TypeOK, PresentRecorded
  <2>2. StartedInThePast'
    BY <1>2 DEF GrafanaChanges, IInv, TypeOK, StartedInThePast
  <2> QED
    BY <1>2, <2>1, <2>2, MomentsOnlyGrow DEF GrafanaChanges, IInv, TypeOK
<1>3. ASSUME NEW w \in Threads, Request(w) PROVE IInv'
  BY <1>3 DEF Request, IInv, TypeOK, PresentRecorded, StartedInThePast,
              CalledSinceStart, CachedWithinTTL, JudgedWithinTTL, Verdicts
<1>4. ASSUME NEW w \in Threads, RequestWithoutCookie(w) PROVE IInv'
  BY <1>4 DEF RequestWithoutCookie, IInv, TypeOK, PresentRecorded,
              StartedInThePast, CalledSinceStart, CachedWithinTTL,
              JudgedWithinTTL, Verdicts
<1>5. ASSUME NEW w \in Threads, Hit(w) PROVE IInv'
  <2>1. Verdict(cache[cookie[w]].user, required[w]) \in Verdicts
    BY VerdictType DEF IInv, TypeOK
  <2>2. PresentRecorded' /\ StartedInThePast' /\ CalledSinceStart'
          /\ CachedWithinTTL'
    BY <1>5, <2>1 DEF Hit, IInv, TypeOK, PresentRecorded, StartedInThePast,
                CalledSinceStart, CachedWithinTTL, Verdicts
  <2>3. PICK m \in moments[cookie[w]] :
          /\ m[1] >= cache[cookie[w]].expires - TTL
          /\ m[2] = cache[cookie[w]].user
    BY <1>5 DEF Hit, Valid, IInv, TypeOK, CachedWithinTTL
  <2>4. m[1] \in Nat
    BY <1>5 DEF IInv, TypeOK
  <2>5. m[1] > now[w] - TTL
    BY <1>5, <2>3, <2>4 DEF Hit, Valid, IInv, TypeOK
  <2>6. cache[cookie[w]].user \in Who
    BY DEF IInv, TypeOK
  <2>7. JudgedWithinTTL'
    BY <1>5, <2>3, <2>5, <2>6, OneVerdict DEF Hit
  <2> QED
    BY <2>2, <2>7 DEF IInv
<1>6. ASSUME NEW w \in Threads, Miss(w) PROVE IInv'
  BY <1>6 DEF Miss, IInv, TypeOK, PresentRecorded, StartedInThePast,
              CalledSinceStart, CachedWithinTTL, JudgedWithinTTL, Verdicts
<1>7. ASSUME NEW w \in Threads, Call(w) PROVE IInv'
  <2>1. PresentRecorded' /\ StartedInThePast' /\ CachedWithinTTL'
          /\ JudgedWithinTTL'
    BY <1>7 DEF Call, IInv, TypeOK, PresentRecorded, StartedInThePast,
                CachedWithinTTL, JudgedWithinTTL, Verdicts
  <2>2. <<clock, Called(sessions, reachable)[cookie[w]]>>
          \in moments[cookie[w]]
    BY DEF IInv, TypeOK, PresentRecorded
  <2>3. clock >= now[w]
    BY DEF IInv, TypeOK, StartedInThePast
  <2>4. CalledSinceStart'
    BY <1>7, <2>2, <2>3 DEF Call, IInv, TypeOK, CalledSinceStart
  <2> QED
    BY <2>1, <2>4 DEF IInv
<1>8. ASSUME NEW w \in Threads, Store(w) PROVE IInv'
  <2>0. Verdict(user[w], required[w]) \in Verdicts
    BY VerdictType DEF IInv, TypeOK
  <2>1. PresentRecorded' /\ StartedInThePast' /\ CalledSinceStart'
    BY <1>8, <2>0 DEF Store, IInv, TypeOK, PresentRecorded, StartedInThePast,
                CalledSinceStart, Verdicts
  <2>2. PICK m \in moments[cookie[w]] : m[1] >= now[w] /\ m[2] = user[w]
    BY <1>8 DEF Store, IInv, CalledSinceStart
  <2>3. m[1] \in Nat /\ now[w] \in Nat
    BY DEF IInv, TypeOK
  <2>4. CachedWithinTTL'
    <3> SUFFICES ASSUME NEW c \in Cookies, cache'[c].expires # 0
                 PROVE  \E n \in moments[c] :
                          /\ n[1] >= cache'[c].expires - TTL
                          /\ n[2] = cache'[c].user
      BY <1>8 DEF Store, CachedWithinTTL
    <3>1. CASE c = cookie[w]
      <4>1. cache'[c] = [expires |-> now[w] + TTL, user |-> user[w]]
        BY <1>8, <3>1 DEF Store, Expiry, IInv, TypeOK
      <4> QED
        BY <3>1, <4>1, <2>2, <2>3
    <3>2. CASE c # cookie[w]
      BY <1>8, <3>2 DEF Store, IInv, TypeOK, CachedWithinTTL
    <3> QED
      BY <3>1, <3>2
  <2>5. m[1] > now[w] - TTL
    BY <2>2, <2>3
  <2>6. user[w] \in Who /\ user' = [user EXCEPT ![w] = user[w]]
    BY <1>8 DEF Store, IInv, TypeOK
  <2>7. JudgedWithinTTL'
    BY <1>8, <2>2, <2>5, <2>6, OneVerdict DEF Store
  <2> QED
    BY <2>1, <2>4, <2>7 DEF IInv
<1>9. CASE UNCHANGED vars
  BY <1>9 DEF vars, IInv, TypeOK, PresentRecorded, StartedInThePast,
              CalledSinceStart, CachedWithinTTL, JudgedWithinTTL
<1> QED
  BY <1>1, <1>2, <1>3, <1>4, <1>5, <1>6, <1>7, <1>8, <1>9 DEF Next, Step

(* IInv holds in every state of the session check.                         *)
THEOREM Invariance == Spec => []IInv
<1>1. Init => IInv
  <2> SUFFICES ASSUME Init PROVE IInv
    OBVIOUS
  <2>1. PresentRecorded
    BY DEF Init, PresentRecorded
  <2>2. StartedInThePast
    BY DEF Init, StartedInThePast
  <2>3. CalledSinceStart /\ JudgedWithinTTL
    BY DEF Init, CalledSinceStart, JudgedWithinTTL, Verdicts
  <2>4. CachedWithinTTL
    BY DEF Init, CachedWithinTTL
  <2> QED
    BY <2>1, <2>2, <2>3, <2>4, InitTypeOK DEF IInv
<1> QED
  BY <1>1, StepKeepsIInv, TypeCorrect, PTL DEF Spec

(* Rights follow Grafana's within the time-to-live, for every instance:    *)
(* the verdict is the one on one of the users the hypothesis speaks of.    *)
THEOREM RightsFollow == Spec => []RightsFollowWithinTTL
<1>1. IInv => RightsFollowWithinTTL
  <2> SUFFICES ASSUME IInv, NEW w \in Threads, pc[w] \in Verdicts
               PROVE  LET recent == {m[2] : m \in {n \in moments[cookie[w]] :
                                                    n[1] > now[w] - TTL}}
                      IN  /\ (\A u \in recent : u >= required[w])
                               => pc[w] = "admitted"
                          /\ (\A u \in recent : u < required[w])
                               => pc[w] # "admitted"
    BY DEF RightsFollowWithinTTL
  <2> DEFINE recent == {m[2] : m \in {n \in moments[cookie[w]] :
                                       n[1] > now[w] - TTL}}
  <2>1. user[w] \in recent
    BY DEF IInv, JudgedWithinTTL
  <2>2. pc[w] = Verdict(user[w], required[w])
    BY DEF IInv, JudgedWithinTTL
  <2>3. user[w] \in Int /\ required[w] \in {1, 2}
    BY WhoIsInt DEF IInv, TypeOK
  <2>4. user[w] >= required[w] => pc[w] = "admitted"
    <3>1. user[w] >= required[w] => user[w] # None /\ ~(user[w] < required[w])
      BY <2>3 DEF None
    <3> QED
      BY <2>2, <3>1 DEF Verdict
  <2>5. user[w] < required[w] => pc[w] # "admitted"
    <3>1. user[w] < required[w] => ~(user[w] >= required[w])
      BY <2>3
    <3>2. user[w] < required[w] => pc[w] \in {"login", "forbidden"}
      BY <2>2, <3>1 DEF Verdict
    <3> QED
      BY <3>2
  <2> QED
    BY <2>1, <2>4, <2>5
<1> QED
  BY <1>1, Invariance, PTL

(***************************************************************************)
(* The refinement.                                                         *)
(***************************************************************************)
Phase == [w \in Threads |-> PhaseOf(pc[w])]
Given == [w \in Threads |-> IF pc[w] \in Verdicts THEN user[w] ELSE None]

(* A step of one thread changes the abstract request of that thread only.  *)
LEMMA OneThread ==
  ASSUME TypeOK, TypeOK', NEW w \in Threads,
         \A v \in Threads \ {w} : pc'[v] = pc[v] /\ user'[v] = user[v]
  PROVE  /\ Phase' = [Phase EXCEPT ![w] = PhaseOf(pc'[w])]
         /\ Given' = [Given EXCEPT ![w] =
                        IF pc'[w] \in Verdicts THEN user'[w] ELSE None]
BY DEF Phase, Given

(* The phases of the places a thread can be in. *)
LEMMA Phases ==
  /\ \A p \in {"lookup", "call", "store"} : PhaseOf(p) = "open"
  /\ \A p \in Verdicts : PhaseOf(p) = "answered"
  /\ PhaseOf("idle") = "idle"
  /\ PhaseOf("no_cookie") = "failed"
BY DEF PhaseOf, Verdicts

(* AuthCache implements TtlReads for every instance: requests and verdicts *)
(* are its Ask and Answer, a request without a cookie its Refuse, what     *)
(* happens in between stutters, and IInv supplies the moment Answer asks   *)
(* for.                                                                    *)
THEOREM Refinement == Spec => ImplementsTtlReads
<1>1. Init => Promise!Init
  <2> SUFFICES ASSUME Init PROVE Promise!Init
    OBVIOUS
  <2>1. TypeOK
    BY InitTypeOK
  <2>2. Called(sessions, reachable) \in [Cookies -> Who]
    BY <2>1, CalledType DEF TypeOK
  <2>3. Phase = [w \in Threads |-> "idle"]
    BY Phases DEF Init, Phase
  <2>4. Given \in [Threads -> Who]
    BY <2>1, WhoIsInt DEF Given, TypeOK
  <2>5. moments =
          [c \in Cookies |-> {<<clock, Called(sessions, reachable)[c]>>}]
    BY DEF Init
  <2> QED
    BY <2>1, <2>2, <2>3, <2>4, <2>5
    DEF Promise!Init, TypeOK, Phase, Given
<1>2. IInv /\ TypeOK' /\ [Next]_vars => [Promise!Next]_Promise!vars
  <2> SUFFICES ASSUME IInv, TypeOK', [Next]_vars
               PROVE  [Promise!Next]_Promise!vars
    OBVIOUS
  <2>t. TypeOK
    BY DEF IInv
  <2>1. CASE Tick
    <3>1. UNCHANGED <<Phase, Given, Called(sessions, reachable)>>
      BY <2>1 DEF Tick, Phase, PhaseOf, Given, Called
    <3>2. Promise!Tick
      BY <2>1, <3>1 DEF Tick, Promise!Tick, Phase, Given
    <3> QED
      BY <3>2 DEF Promise!Next
  <2>2. CASE GrafanaChanges
    <3>1. UNCHANGED <<Phase, Given>>
      BY <2>2 DEF GrafanaChanges, Phase, PhaseOf, Given
    <3>2. Called(sessions, reachable)' \in [Cookies -> Who]
      BY CalledType DEF TypeOK
    <3>3. Called(sessions, reachable)' = Called(sessions', reachable')
      BY DEF Called
    <3>4. moments' = [c \in Cookies |-> moments[c] \cup
                        {<<clock, Called(sessions, reachable)'[c]>>}]
      BY <2>2, <3>3 DEF GrafanaChanges
    <3>5. Promise!Change
      BY <2>2, <3>1, <3>2, <3>4
      DEF GrafanaChanges, Promise!Change, Phase, Given
    <3> QED
      BY <3>5 DEF Promise!Next
  <2>3. ASSUME NEW w \in Threads, Request(w) \/ RequestWithoutCookie(w)
        PROVE  /\ Phase[w] # "open"
               /\ UNCHANGED Called(sessions, reachable)
               /\ \A v \in Threads \ {w} : pc'[v] = pc[v] /\ user'[v] = user[v]
    <3>1. Phase[w] \in {"idle", "answered", "failed"}
      BY <2>3, <2>t, Phases
      DEF Request, RequestWithoutCookie, AtRest, Phase, Verdicts
    <3> QED
      BY <2>3, <2>t, <3>1 DEF Request, RequestWithoutCookie, Called, TypeOK
  <2>4. ASSUME NEW w \in Threads, Request(w) PROVE Promise!Next
    <3>1. pc'[w] = "lookup" /\ "lookup" \notin Verdicts
      BY <2>4, <2>t DEF Request, TypeOK, Verdicts
    <3>2. /\ Phase' = [Phase EXCEPT ![w] = "open"]
          /\ Given' = [Given EXCEPT ![w] = None]
      BY <2>t, <2>3, <2>4, <3>1, OneThread, Phases
    <3>3. Promise!Ask(w)
      BY <2>3, <2>4, <3>2, WhoIsInt DEF Request, Promise!Ask, Phase, Given
    <3> QED
      BY <3>3 DEF Promise!Next
  <2>5. ASSUME NEW w \in Threads, RequestWithoutCookie(w) PROVE Promise!Next
    <3>1. pc'[w] = "no_cookie" /\ "no_cookie" \notin Verdicts
      BY <2>5, <2>t DEF RequestWithoutCookie, TypeOK, Verdicts
    <3>2. /\ Phase' = [Phase EXCEPT ![w] = "failed"]
          /\ Given' = [Given EXCEPT ![w] = None]
      BY <2>t, <2>3, <2>5, <3>1, OneThread, Phases
    <3>3. Promise!Refuse(w)
      BY <2>3, <2>5, <3>2, WhoIsInt
      DEF RequestWithoutCookie, Promise!Refuse, Phase, Given
    <3> QED
      BY <3>3 DEF Promise!Next
  <2>6. ASSUME NEW w \in Threads, Miss(w) \/ Call(w)
        PROVE  UNCHANGED Promise!vars
    <3>1. /\ pc[w] \in {"lookup", "call", "store"}
          /\ pc'[w] \in {"lookup", "call", "store"}
          /\ \A v \in Threads \ {w} : pc'[v] = pc[v] /\ user'[v] = user[v]
      BY <2>6, <2>t DEF Miss, Call, TypeOK
    <3>2. pc[w] \notin Verdicts /\ pc'[w] \notin Verdicts
      BY <3>1 DEF Verdicts
    <3>3. UNCHANGED <<Phase, Given>>
      BY <3>1, <3>2, Phases DEF Phase, Given
    <3>4. UNCHANGED Called(sessions, reachable)
      BY <2>6 DEF Miss, Call, Called
    <3> QED
      BY <2>6, <3>3, <3>4 DEF Miss, Call, Promise!vars, Phase, Given
  <2>7. ASSUME NEW w \in Threads, Hit(w) \/ Store(w) PROVE Promise!Next
    <3>1. /\ pc[w] \in {"lookup", "store"}
          /\ \A v \in Threads \ {w} : pc'[v] = pc[v] /\ user'[v] = user[v]
      BY <2>7, <2>t DEF Hit, Store, TypeOK
    <3>2. pc'[w] \in Verdicts
      <4>1. CASE Hit(w)
        <5>1. Verdict(cache[cookie[w]].user, required[w]) \in Verdicts
          BY <2>t, VerdictType DEF TypeOK
        <5> QED
          BY <4>1, <5>1, <2>t DEF Hit, TypeOK
      <4>2. CASE Store(w)
        <5>1. Verdict(user[w], required[w]) \in Verdicts
          BY <2>t, VerdictType DEF TypeOK
        <5> QED
          BY <4>2, <5>1, <2>t DEF Store, TypeOK
      <4> QED
        BY <2>7, <4>1, <4>2
    <3>3. /\ Phase' = [Phase EXCEPT ![w] = "answered"]
          /\ Given' = [Given EXCEPT ![w] = user'[w]]
      BY <2>t, <3>1, <3>2, OneThread, Phases
    <3>4. Phase[w] = "open"
      BY <3>1, Phases DEF Phase
    <3>5. JudgedWithinTTL'
      BY <2>7, StepKeepsIInv DEF Next, Step, IInv
    <3>6. UNCHANGED <<clock, Called(sessions, reachable), moments, cookie, now>>
      BY <2>7 DEF Hit, Store, Called
    <3>7. \E m \in moments[cookie[w]] :
            m[1] > now[w] - TTL /\ m[2] = user'[w]
      BY <3>2, <3>5, <3>6 DEF JudgedWithinTTL
    <3>8. Promise!Answer(w)
      BY <3>3, <3>4, <3>6, <3>7 DEF Promise!Answer, Phase, Given
    <3> QED
      BY <3>8 DEF Promise!Next
  <2>8. CASE UNCHANGED vars
    BY <2>8 DEF vars, Promise!vars, Called, PhaseOf
  <2> QED
    BY <2>1, <2>2, <2>4, <2>5, <2>6, <2>7, <2>8 DEF Next, Step
<1> QED
  BY <1>1, <1>2, TypeCorrect, Invariance, PTL
  DEF Spec, ImplementsTtlReads, Promise!Spec

-----------------------------------------------------------------------------
(***************************************************************************)
(*                          The form: SystemForm                           *)
(***************************************************************************)

(***************************************************************************)
(* The tables                                                              *)
(***************************************************************************)
LEMMA TypesAreSystemTypes == Types \subseteq SystemTypes
BY SystemFormAssumption DEF SystemFormAssumption

(* What is assumed of the texts, of the numbers, and of what users put in. *)
LEMMA TextFacts ==
  /\ "" \in Texts /\ Null \notin Texts /\ Raised \notin Texts
  /\ Strip("") = "" /\ \A x \in Texts : Strip(x) \in Texts
  /\ \A x \in Texts \cup Mirrors : Strip(Strip(x)) = Strip(x)
BY SystemFormAssumption DEF SystemFormAssumption

LEMMA MirrorFacts ==
  ASSUME NEW h \in Texts, NEW p \in Texts
  PROVE  /\ Mirror(h, p) \notin {"", Null, Raised}
         /\ Strip(Mirror(h, p)) \notin {"", Null, Raised}
         /\ Strip(h) = h /\ Strip(p) = p => Strip(Mirror(h, p)) = Mirror(h, p)
         /\ Fits("db_host", h) /\ Fits("db_port", p) => Fits("url", Mirror(h, p))
BY SystemFormAssumption DEF SystemFormAssumption

LEMMA NumberFacts ==
  /\ \A x \in DOMAIN Canonical :
       /\ x \in Texts /\ Strip(x) # ""
       /\ Canonical[x] \in DOMAIN Canonical
       /\ Canonical[Canonical[x]] = Canonical[x]
       /\ Strip(Canonical[x]) = Canonical[x]
  /\ \A x \in Texts : x \in DOMAIN Canonical <=> Strip(x) \in DOMAIN Canonical
  /\ \A x \in Literals : x \in DOMAIN Canonical /\ Canonical[x] = x
BY SystemFormAssumption DEF SystemFormAssumption

LEMMA EntryFacts ==
  \A t \in Types : \A f \in Fields : Entries[t][f] \subseteq Texts
<1>1. Entries \in [Types -> [Fields -> SUBSET Texts]]
  BY SystemFormAssumption DEF SystemFormAssumption
<1> QED
  BY <1>1

LEMMA SentFields ==
  ASSUME NEW t \in SystemTypes
  PROVE  /\ {"system_group", "timeout_seconds", "url"} \subseteq Sent(t)
         /\ Sent(t) \subseteq Fields
         /\ t \in HostPortTypes => {"db_host", "db_port"} \subseteq Sent(t)
         /\ t \notin HostPortTypes => "db_port" \notin Sent(t)
BY DEF Sent, Fields, HostPortTypes, SystemTypes, UrlOnlyTypes, ModuleTypes

LEMMA RequiredFields ==
  ASSUME NEW t \in SystemTypes
  PROVE  /\ Required(t) \subseteq Sent(t)
         /\ t # "SSL" <=> "system_group" \in Required(t)
         /\ t \notin HostPortTypes <=> "url" \in Required(t)
         /\ t \in HostPortTypes => {"db_host", "db_port"} \subseteq Required(t)
<1>1. CASE t \in HostPortTypes
  BY <1>1 DEF Sent, Required, HostPortTypes, ModuleTypes
<1>2. CASE t \in ModuleTypes
  BY <1>2 DEF Sent, Required, HostPortTypes, ModuleTypes
<1>3. CASE t \in UrlOnlyTypes \cup {"TCP", "ICMP", "SSL", "KEYCLOAK", "VERSION"}
  BY <1>3 DEF Sent, Required, HostPortTypes, ModuleTypes, UrlOnlyTypes
<1> QED
  BY <1>1, <1>2, <1>3 DEF SystemTypes

LEMMA PlaceholderValue ==
  ASSUME NEW t \in Types, NEW f \in Sent(t)
  PROVE  /\ Placeholder(t, f) \in Texts
         /\ Strip(Placeholder(t, f)) = Placeholder(t, f)
         /\ Fits(f, Placeholder(t, f))
         /\ f \in IntFields =>
              /\ Placeholder(t, f) \in DOMAIN Canonical
              /\ Canonical[Placeholder(t, f)] = Placeholder(t, f)
              /\ Placeholder(t, f) \in Numbers
              /\ Placeholder(t, f) # Zero
         /\ f \in Required(t) \ {"system_group", "url", "db_host"} => Placeholder(t, f) # ""
<1>1. /\ Placeholder(t, f) \in Texts
      /\ Strip(Placeholder(t, f)) = Placeholder(t, f)
      /\ Fits(f, Placeholder(t, f))
  BY SystemFormAssumption DEF SystemFormAssumption
<1>2. ASSUME f \in IntFields PROVE Placeholder(t, f) \in Literals \ {Zero}
  <2>1. f = "db_port" => t \in HostPortTypes
    BY SentFields, TypesAreSystemTypes
  <2>2. DefaultPort(t) # Zero
    BY DEF DefaultPort, Zero
  <2> QED
    BY <1>2, <2>1, <2>2 DEF Placeholder, IntFields, Literals, Zero
<1>3. ASSUME f \in IntFields
      PROVE  /\ Placeholder(t, f) \in DOMAIN Canonical
             /\ Canonical[Placeholder(t, f)] = Placeholder(t, f)
             /\ Placeholder(t, f) \in Numbers
  BY <1>2, <1>3, NumberFacts DEF Numbers
<1>4. ASSUME f \in Required(t) \ {"system_group", "url", "db_host"}
      PROVE  Placeholder(t, f) # ""
  BY <1>4, SentFields, RequiredFields, TypesAreSystemTypes
  DEF Placeholder, DefaultPort, DefaultModule, Fields
<1> QED
  BY <1>1, <1>2, <1>3, <1>4

(***************************************************************************)
(* Rendering                                                               *)
(***************************************************************************)
Filling(t) == {g \in Values : /\ \A f \in Fields : g[f] \in Held(f)
                              /\ \A f \in Sent(t) : g[f] # Null}

LEMMA NullIsNoText == /\ Null \notin Texts /\ Raised \notin Texts
                      /\ {Null, "", Raised} \cap Mirrors = {}
<1>1. \A h, p \in Texts : /\ Mirror(h, p) \notin {Null, "", Raised}
                          /\ Strip(Mirror(h, p)) \notin {Null, "", Raised}
  BY MirrorFacts
<1>2. Null \notin Texts /\ Raised \notin Texts
  BY TextFacts
<1>3. \A x \in Mirrors : \E h, p \in Texts :
        x = Mirror(h, p) \/ x = Strip(Mirror(h, p))
  BY DEF Mirrors
<1> QED
  BY <1>1, <1>2, <1>3

LEMMA FilledType ==
  ASSUME NEW t \in Types, NEW f \in Sent(t), NEW v \in Held(f),
         NEW isRow \in BOOLEAN
  PROVE  Filled(t, f, v, isRow) \in (Held(f) \ {Null, ""}) \cup
                                    {Placeholder(t, f)}
<1>1. CASE Missing(f, v, isRow)
  BY <1>1 DEF Filled
<1>2. CASE ~Missing(f, v, isRow)
  BY <1>2 DEF Filled, Missing
<1> QED
  BY <1>1, <1>2

LEMMA RenderedFills ==
  ASSUME NEW t \in Types, NEW values, NEW isRow \in BOOLEAN,
         \A f \in Fields : values[f] \in Held(f)
  PROVE  Rendered(t, values, isRow) \in Filling(t)
<1> DEFINE R == Rendered(t, values, isRow)
           url == Mirror(Filled(t, "db_host", values["db_host"], isRow),
                         Filled(t, "db_port", values["db_port"], isRow))
<1>1. \A f \in Sent(t) : Filled(t, f, values[f], isRow) \in Held(f) \ {Null}
  <2> SUFFICES ASSUME NEW f \in Sent(t)
               PROVE  Filled(t, f, values[f], isRow) \in Held(f) \ {Null}
    OBVIOUS
  <2>1. f \in Fields
    BY SentFields, TypesAreSystemTypes
  <2>2. Placeholder(t, f) \in Texts /\ Null \notin Texts
    BY PlaceholderValue, NullIsNoText
  <2>3. Filled(t, f, values[f], isRow) \in (Held(f) \ {Null, ""}) \cup
                                             {Placeholder(t, f)}
    BY <2>1, FilledType
  <2> QED
    BY <2>2, <2>3 DEF Held
<1>2. t \in HostPortTypes => url \in Mirrors
  <2> SUFFICES ASSUME t \in HostPortTypes PROVE url \in Mirrors
    OBVIOUS
  <2>1. "db_host" \in Sent(t) /\ "db_port" \in Sent(t)
    BY SentFields, TypesAreSystemTypes
  <2>2. /\ Filled(t, "db_host", values["db_host"], isRow) \in Texts
        /\ Filled(t, "db_port", values["db_port"], isRow) \in Texts
    BY <1>1, <2>1 DEF Held
  <2> QED
    BY <2>2 DEF Mirrors
<1>3. \A f \in Fields :
        R[f] = IF f \notin Sent(t) THEN Null
               ELSE IF f = "url" /\ t \in HostPortTypes THEN url
                    ELSE Filled(t, f, values[f], isRow)
  BY DEF Rendered
<1>4. \A f \in Fields : R[f] \in Held(f) /\ (f \in Sent(t) => R[f] # Null)
  <2> HIDE DEF R, url
  <2> QED
    BY <1>1, <1>2, <1>3, NullIsNoText DEF Held
<1>5. R = [f \in Fields |-> R[f]]
  BY DEF Rendered
<1>6. \A f \in Fields : R[f] \in Texts \cup Mirrors \cup {Null}
  <2> HIDE DEF R
  <2> QED
    BY <1>4 DEF Held
<1> HIDE DEF R
<1>7. R \in Values
  BY <1>5, <1>6 DEF Values
<1> QED
  BY <1>4, <1>7, SentFields, TypesAreSystemTypes DEF Filling, R

(***************************************************************************)
(* From texts to values                                                    *)
(***************************************************************************)
LEMMA NumbersAre ==
  ASSUME NEW n \in Numbers
  PROVE  /\ n \in Texts \ {"", Null, Raised}
         /\ IsInteger(n) /\ Canonical[n] = n /\ Strip(n) = n
<1>1. n \in DOMAIN Canonical /\ Canonical[n] = n /\ Strip(n) = n
  <2>1. PICK x \in DOMAIN Canonical : n = Canonical[x]
    BY DEF Numbers
  <2> QED
    BY <2>1, NumberFacts
<1>2. n \in Texts /\ Strip(n) # "" /\ Strip("") = ""
  BY <1>1, NumberFacts, TextFacts
<1> QED
  BY <1>1, <1>2, NullIsNoText DEF IsInteger

LEMMA LiteralNumbers ==
  ASSUME NEW x \in Literals
  PROVE  x \in Numbers /\ IsInteger(x) /\ Canonical[x] = x
BY NumberFacts DEF Numbers, IsInteger

(* What int() can read is not blank, and it can read it without blanks.    *)
LEMMA IntegersAre ==
  ASSUME NEW x, IsInteger(x)
  PROVE  /\ x \in Texts \ {"", Null} /\ Strip(x) # ""
         /\ Canonical[x] \in Numbers
<1>1. x \in Texts /\ Strip(x) # "" /\ Strip("") = ""
  BY NumberFacts, TextFacts DEF IsInteger
<1> QED
  BY <1>1, NullIsNoText DEF IsInteger, Numbers

(* A text, or a url, without its blanks.                                   *)
LEMMA StripHeld ==
  ASSUME NEW f, NEW x \in Held(f) \ {Null}
  PROVE  /\ Strip(x) \in Held(f) \ {Null, Raised}
         /\ Strip(Strip(x)) = Strip(x)
<1>1. CASE x \in Texts
  <2>1. Strip(x) \in Texts /\ Strip(Strip(x)) = Strip(x)
    BY <1>1, TextFacts
  <2> QED
    BY <2>1, NullIsNoText DEF Held
<1>2. CASE f = "url" /\ x \in Mirrors
  <2>1. PICK h \in Texts, p \in Texts :
          x = Mirror(h, p) \/ x = Strip(Mirror(h, p))
    BY <1>2 DEF Mirrors
  <2>2. Mirror(h, p) \in Mirrors /\ Strip(Mirror(h, p)) \in Mirrors
    BY DEF Mirrors
  <2>3. \A y \in Mirrors : Strip(Strip(y)) = Strip(y)
    BY TextFacts
  <2>4. Strip(x) \in Mirrors /\ Strip(Strip(x)) = Strip(x)
    BY <2>1, <2>2, <2>3
  <2> QED
    BY <1>2, <2>4, NullIsNoText DEF Held
<1> QED
  BY <1>1, <1>2 DEF Held

LEMMA CoerceText ==
  ASSUME NEW f \in Fields \ IntFields, NEW raw \in Held(f)
  PROVE  /\ Coerce(f, raw) \in Held(f) \ {Raised}
         /\ raw \in {Null, ""} => Coerce(f, raw) = Null
         /\ raw \notin {Null, ""} =>
              /\ Coerce(f, raw) = Strip(raw) /\ Coerce(f, raw) # Null
              /\ Strip(Coerce(f, raw)) = Coerce(f, raw)
<1>1. Null \in Held(f) /\ Null # Raised
  BY DEF Held, Null, Raised
<1> QED
  BY <1>1, StripHeld DEF Coerce

LEMMA CoerceNumber ==
  ASSUME NEW f \in IntFields, NEW raw
  PROVE  /\ Coerce(f, raw) \in Numbers \cup {Null, Raised}
         /\ raw \in {Null, ""} => Coerce(f, raw) = Null
         /\ IsInteger(raw) =>
              Coerce(f, raw) = Canonical[raw] /\ Coerce(f, raw) \in Numbers
         /\ raw \notin {Null, ""} /\ ~IsInteger(raw) =>
              Coerce(f, raw) = IF release = "chart" THEN Null ELSE Raised
<1>1. IsInteger(raw) => Canonical[raw] \in Numbers /\ raw \notin {Null, ""}
  BY IntegersAre
<1> QED
  BY <1>1 DEF Coerce, Unparsed

(* The fields of a form that is sent, whoever filled them in.              *)
Sending(g) == \A f \in Fields : g[f] \in Held(f)

LEMMA CoercedValues ==
  ASSUME NEW g, Sending(g), ~Fails(g)
  PROVE  /\ Coerced(g) \in Values
         /\ \A f \in Fields :
              /\ Coerced(g)[f] \in Held(f)
              /\ Coerced(g)[f] = Null \/ Fits(f, Coerced(g)[f])
         /\ \A f \in IntFields : Coerced(g)[f] \in Numbers \cup {Null}
<1>1. \A f \in Fields : Coerced(g)[f] = Coerce(f, g[f])
  BY DEF Coerced
<1>2. \A f \in IntFields : f \in Fields
  BY DEF IntFields, Fields
<1>3. \A f \in Fields : /\ Coerced(g)[f] # Raised
                        /\ Coerced(g)[f] = Null \/ Fits(f, Coerced(g)[f])
  BY DEF Fails
<1>4. ASSUME NEW f \in IntFields PROVE Coerced(g)[f] \in Numbers \cup {Null}
  <2>1. Coerced(g)[f] = Coerce(f, g[f]) /\ Coerced(g)[f] # Raised
    BY <1>1, <1>2, <1>3
  <2> QED
    BY <2>1, CoerceNumber
<1>5. \A f \in Fields : Coerced(g)[f] \in Held(f)
  <2> SUFFICES ASSUME NEW f \in Fields PROVE Coerced(g)[f] \in Held(f)
    OBVIOUS
  <2>1. CASE f \in IntFields
    BY <1>4, <2>1, NumbersAre DEF Held
  <2>2. CASE f \notin IntFields
    BY <1>1, <2>2, CoerceText DEF Sending
  <2> QED
    BY <2>1, <2>2
<1>6. \A f \in Fields : Coerced(g)[f] \in Texts \cup Mirrors \cup {Null}
  BY <1>5 DEF Held
<1>7. Coerced(g) = [f \in Fields |-> Coerced(g)[f]]
  BY DEF Coerced
<1> QED
  BY <1>3, <1>4, <1>5, <1>6, <1>7 DEF Values

LEMMA WrittenIs ==
  ASSUME NEW mode, NEW g
  PROVE  /\ \A f \in Fields \ {"timeout_seconds"} :
              Written(mode, g)[f] = Coerced(g)[f]
         /\ Written(mode, g)["timeout_seconds"] \in
              {Coerced(g)["timeout_seconds"]} \cup
              (IF Coerced(g)["timeout_seconds"] = Null THEN {"30"} ELSE {})
         /\ Written(mode, g) = [f \in Fields |-> Written(mode, g)[f]]
BY DEF Written, Inserted, Coerced, Fields

LEMMA WrittenField ==
  ASSUME NEW mode, NEW g, NEW f \in Fields,
         f = "timeout_seconds" => Coerced(g)[f] # Null
  PROVE  Written(mode, g)[f] = Coerced(g)[f]
BY DEF Written, Inserted

LEMMA ThirtyIs ==
  ASSUME NEW t \in Types
  PROVE  "30" \in Numbers /\ "30" \in Texts /\ Fits("timeout_seconds", "30")
<1>1. "timeout_seconds" \in Sent(t) /\ Placeholder(t, "timeout_seconds") = "30"
  BY SentFields, TypesAreSystemTypes DEF Placeholder
<1> QED
  BY <1>1, PlaceholderValue DEF IntFields

LEMMA WrittenColumns ==
  ASSUME NEW t \in Types, NEW mode, NEW g, Sending(g), ~Fails(g),
         ~NotNullFails(Written(mode, g))
  PROVE  Written(mode, g) \in Columns
<1> DEFINE W == Written(mode, g)
<1>1. "30" \in Numbers /\ "30" \in Texts /\ Fits("timeout_seconds", "30")
  BY ThirtyIs
<1>2. \A f \in Fields : W[f] \in Held(f) /\ (W[f] = Null \/ Fits(f, W[f]))
  <2> SUFFICES ASSUME NEW f \in Fields
               PROVE  W[f] \in Held(f) /\ (W[f] = Null \/ Fits(f, W[f]))
    OBVIOUS
  <2>1. CASE W[f] = Coerced(g)[f]
    BY <2>1, CoercedValues
  <2>2. CASE f = "timeout_seconds" /\ W[f] = "30"
    BY <1>1, <2>2 DEF Held
  <2> QED
    BY <2>1, <2>2, WrittenIs
<1>3. \A f \in IntFields : W[f] \in Numbers \cup {Null}
  BY <1>1, CoercedValues, WrittenIs DEF IntFields, Fields
<1>4. \A f \in Fields : W[f] \in Texts \cup Mirrors \cup {Null}
  BY <1>2 DEF Held
<1>5. W \in Values
  BY <1>4, WrittenIs DEF Values
<1> QED
  BY <1>2, <1>3, <1>5 DEF Columns, NotNullFails

(* What _validate() lets through makes a sound row.                        *)
LEMMA WrittenSound ==
  ASSUME NEW t \in Types, NEW on, NEW mode, NEW g, Sending(g),
         Validated(t, g), ~Fails(g)
  PROVE  Sound([type |-> t, is_enable |-> on, columns |-> Written(mode, g)])
<1> DEFINE W == Written(mode, g)
<1>1. \A f \in Fields \ {"timeout_seconds"} : W[f] = Coerce(f, g[f])
  <2>1. \A f \in Fields : Coerced(g)[f] = Coerce(f, g[f])
    BY DEF Coerced
  <2> QED
    BY <2>1, WrittenIs
<1>2. \A f \in Required(t) : g[f] \notin {Null, ""} /\ Strip(g[f]) # ""
  BY TextFacts DEF Validated, HasFields, OrEmpty
<1>3. \A f \in Fields \ IntFields : W[f] # Null => Strip(W[f]) = W[f]
  BY <1>1, CoerceText DEF Sending, IntFields
<1>4. \A f \in Required(t) \ IntFields : f \in Fields => W[f] \notin {Null, ""}
  BY <1>1, <1>2, CoerceText DEF Sending, IntFields
<1>5. Required(t) \subseteq Fields
  BY RequiredFields, SentFields, TypesAreSystemTypes
<1>6. t # "SSL" => W["system_group"] \notin {Null, ""}
  BY <1>4, <1>5, RequiredFields, TypesAreSystemTypes DEF IntFields
<1>7. t \notin HostPortTypes => W["url"] \notin {Null, ""}
  BY <1>4, <1>5, RequiredFields, TypesAreSystemTypes DEF IntFields
<1>8. t \in HostPortTypes =>
        /\ W["db_host"] \notin {Null, ""}
        /\ W["db_port"] # Null \/ release = "chart"
  <2> SUFFICES ASSUME t \in HostPortTypes
               PROVE  /\ W["db_host"] \notin {Null, ""}
                      /\ W["db_port"] # Null \/ release = "chart"
    OBVIOUS
  <2>1. "db_host" \in Required(t) /\ "db_port" \in Required(t)
    BY RequiredFields, TypesAreSystemTypes
  <2>2. W["db_host"] \notin {Null, ""}
    BY <1>4, <1>5, <2>1 DEF IntFields
  <2>3. W["db_port"] = Coerce("db_port", g["db_port"])
    BY <1>1, <1>5, <2>1
  <2>4. g["db_port"] \notin {Null, ""}
    BY <1>2, <2>1
  <2>5. \A n \in Numbers : n # Null
    BY NumbersAre
  <2>6. W["db_port"] \in Numbers \cup {Raised} \/ release = "chart"
    BY <2>3, <2>4, CoerceNumber DEF IntFields
  <2> QED
    BY <2>2, <2>5, <2>6 DEF Raised, Null
<1> HIDE DEF W
<1> QED
  BY <1>3, <1>6, <1>7, <1>8 DEF Sound, W

(***************************************************************************)
(* The inductive invariant                                                 *)
(***************************************************************************)
LEMMA SendableIs ==
  ASSUME FormIInv, NEW u \in Users, form[u] # NoForm, NEW g \in Sendable(u)
  PROVE  /\ form[u] \in Form /\ form[u].type \in Types
         /\ Sending(g)
         /\ \A f \in Sent(form[u].type) : g[f] # Null
<1>1. /\ form[u] \in Form /\ form[u].type \in Types
      /\ \A f \in Fields : form[u].fields[f] \in Held(f)
      /\ \A f \in Sent(form[u].type) : form[u].fields[f] # Null
  BY DEF FormIInv, FormTypeOK, FormsAreFilled, Form
<1>2. \A f \in Fields : g[f] \in Choice(u, f)
  BY DEF Sendable, Fields
<1>3. \A f \in Fields : Entries[form[u].type][f] \subseteq Texts
  BY <1>1, EntryFacts
<1>4. \A f \in Fields : g[f] \in {form[u].fields[f]} \cup Texts
  BY <1>2, <1>3 DEF Choice
<1>5. Sending(g)
  BY <1>1, <1>4 DEF Sending, Held
<1>6. \A f \in Sent(form[u].type) : g[f] # Null
  BY <1>1, <1>4, NullIsNoText, SentFields, TypesAreSystemTypes
<1> QED
  BY <1>1, <1>5, <1>6

LEMMA MigratedRow ==
  ASSUME NEW t \in Types \ HostPortTypes, NEW x \in Texts \ {""},
         Strip(x) = x, Fits("url", x), Fits("system_group", x)
  PROVE  Migrated(t, x) \in Row /\ Sound(Migrated(t, x))
<1> DEFINE c == [f \in Fields |->
                   CASE f \in {"system_group", "url"} -> x
                     [] f = "timeout_seconds"         -> "30"
                     [] OTHER                         -> Null]
<1>1. Migrated(t, x) = [type |-> t, is_enable |-> TRUE, columns |-> c]
  BY DEF Migrated
<1>2. /\ \A f \in Fields : c[f] = CASE f \in {"system_group", "url"} -> x
                                     [] f = "timeout_seconds" -> "30"
                                     [] OTHER -> Null
      /\ c = [f \in Fields |-> c[f]]
  OBVIOUS
<1> HIDE DEF c
<1>3. /\ x # Null /\ "30" \in Numbers /\ "30" \in Texts
      /\ Fits("timeout_seconds", "30")
  BY NullIsNoText, ThirtyIs
<1>4. \A f \in Fields : c[f] \in Held(f) /\ (c[f] = Null \/ Fits(f, c[f]))
  BY <1>2, <1>3 DEF Held, Fields
<1>5. \A f \in Fields : c[f] \in Texts \cup Mirrors \cup {Null}
  BY <1>4 DEF Held
<1>6. c \in Values
  BY <1>2, <1>5 DEF Values
<1>7. c["system_group"] = x /\ c["url"] = x
  BY <1>2 DEF Fields
<1>8. \A f \in IntFields : c[f] \in Numbers \cup {Null}
  BY <1>2, <1>3 DEF IntFields, Fields
<1>9. c \in Columns
  BY <1>3, <1>4, <1>6, <1>7, <1>8 DEF Columns
<1>10. \A f \in Fields \ IntFields : c[f] # Null => Strip(c[f]) = c[f]
  BY <1>2 DEF Fields, IntFields
<1>11. ASSUME NEW r, r = [type |-> t, is_enable |-> TRUE, columns |-> c]
       PROVE  r \in Row /\ Sound(r)
  BY <1>3, <1>7, <1>9, <1>10, <1>11 DEF Row, Sound
<1> QED
  BY <1>1, <1>11

LEMMA InitFormIInv == FormInit => FormIInv
<1> SUFFICES ASSUME FormInit PROVE FormIInv
  OBVIOUS
<1>1. \A t \in Types \ HostPortTypes : \A x \in Unpadded(t) :
        /\ x \in Texts \ {""} /\ Strip(x) = x
        /\ Fits("url", x) /\ Fits("system_group", x)
  BY EntryFacts DEF Fields, Unpadded
<1>2. stored = NoRow \/ (stored \in Row /\ Sound(stored))
  <2>1. \/ stored = NoRow
        \/ \E t \in Types \ HostPortTypes :
             \E x \in Unpadded(t) : stored = Migrated(t, x)
    BY DEF FormInit
  <2> QED
    BY <1>1, <2>1, MigratedRow
<1>3. /\ release \in {"exporter", "chart"}
      /\ \A u \in Users : form[u] = NoForm
      /\ form \in [Users -> Form \cup {NoForm}]
      /\ reply \in [Users -> {"none"}]
  BY DEF FormInit
<1>4. NoForm.mode # "edit"
  BY DEF NoForm
<1> QED
  BY <1>2, <1>3, <1>4 DEF FormIInv, FormTypeOK, FormsAreFilled

(* A form that is shown, whatever it is filled with.                       *)
LEMMA ShowStep ==
  ASSUME FormIInv, NEW u \in Users, NEW mode \in {"new", "edit", "gone"},
         NEW t \in Types, NEW g \in Filling(t),
         Show(u, mode, t, g), mode = "edit" => stored.type = t,
         NEW r \in {"form", "rejected", "conflict"}, Answer(u, r),
         UNCHANGED <<stored, release>>
  PROVE  FormIInv'
<1>1. /\ form' = [form EXCEPT ![u] = [mode |-> mode, type |-> t, fields |-> g]]
      /\ reply' = [reply EXCEPT ![u] = r]
  BY DEF Show, Answer
<1>2. [mode |-> mode, type |-> t, fields |-> g] \in Form
  BY DEF Form, Filling
<1>3. form' \in [Users -> Form \cup {NoForm}]
  BY <1>1, <1>2 DEF FormIInv, FormTypeOK
<1>4. /\ form'[u].mode = mode /\ form'[u].type = t /\ form'[u].fields = g
      /\ \A v \in Users \ {u} : form'[v] = form[v]
  BY <1>1 DEF FormIInv, FormTypeOK
<1>5. \A v \in Users : form'[v].mode = "edit" => stored'.type = form'[v].type
  BY <1>4 DEF FormIInv, FormTypeOK
<1>6. \A v \in Users : form'[v] # NoForm =>
        \A f \in Sent(form'[v].type) : form'[v].fields[f] # Null
  BY <1>4 DEF FormIInv, FormsAreFilled, Filling
<1>7. reply' \in [Users -> {"none", "form", "not_found", "rejected",
                            "conflict", "error", "saved"}]
  BY <1>1 DEF FormIInv, FormTypeOK
<1> QED
  BY <1>3, <1>5, <1>6, <1>7 DEF FormIInv, FormTypeOK, FormsAreFilled, Sound

(* A form that is closed.                                                  *)
LEMMA DoneStep ==
  ASSUME FormIInv, NEW u \in Users, form' = [form EXCEPT ![u] = NoForm],
         NEW r \in {"not_found", "error", "saved"}, Answer(u, r),
         stored' \in Row \cup {NoRow}, release' = release,
         stored' # NoRow => Sound(stored'),
         \A v \in Users \ {u} :
           form[v].mode = "edit" => stored'.type = form[v].type
  PROVE  FormIInv'
<1>1. /\ form' \in [Users -> Form \cup {NoForm}]
      /\ form'[u] = NoForm
      /\ \A v \in Users \ {u} : form'[v] = form[v]
      /\ NoForm.mode = "none"
  BY DEF FormIInv, FormTypeOK, NoForm
<1>2. \A v \in Users : form'[v].mode = "edit" => stored'.type = form'[v].type
  BY <1>1
<1>3. \A v \in Users : form'[v] # NoForm =>
        \A f \in Sent(form'[v].type) : form'[v].fields[f] # Null
  BY <1>1 DEF FormIInv, FormsAreFilled
<1>4. reply' \in [Users -> {"none", "form", "not_found", "rejected",
                            "conflict", "error", "saved"}]
  BY DEF FormIInv, FormTypeOK, Answer
<1> QED
  BY <1>1, <1>2, <1>3, <1>4 DEF FormIInv, FormTypeOK, FormsAreFilled, Sound

LEMMA RefusedStep ==
  ASSUME FormIInv, NEW u \in Users, form[u] # NoForm, NEW g \in Sendable(u),
         NEW r \in {"rejected", "conflict"}, Refused(u, g, r), release' = release
  PROVE  FormIInv'
<1>1. /\ form[u].mode \in {"new", "edit", "gone"}
      /\ form[u].mode = "edit" => stored.type = form[u].type
  BY SendableIs DEF FormIInv, FormTypeOK, Form
<1>2. form[u].type \in Types /\ Rendered(form[u].type, g, FALSE) \in Filling(form[u].type)
  BY SendableIs, RenderedFills DEF Sending
<1> QED
  BY <1>1, <1>2, ShowStep DEF Refused

(* A row that a form writes.                                               *)
LEMMA WrittenRow ==
  ASSUME FormIInv, NEW u \in Users, form[u] # NoForm, NEW g \in Sendable(u),
         Acceptable(u, g), NEW mode, ~NotNullFails(Written(mode, g)),
         NEW on \in BOOLEAN,
         NEW r, r = [type |-> form[u].type, is_enable |-> on,
                     columns |-> Written(mode, g)]
  PROVE  r \in Row /\ Sound(r) /\ r.type = form[u].type
<1>1. /\ form[u].type \in Types /\ Sending(g)
      /\ Validated(form[u].type, g) /\ ~Fails(g)
  BY SendableIs DEF Acceptable
<1>2. Written(mode, g) \in Columns
  BY <1>1, WrittenColumns
<1> QED
  BY <1>1, <1>2, WrittenSound DEF Row

LEMMA PostStep ==
  ASSUME FormIInv, NEW u \in Users, Post(u), release' = release
  PROVE  FormIInv'
<1> PICK g \in Sendable(u) :
      \/ PostInvalid(u, g) \/ PostFails(u, g)
      \/ CreateConflicts(u, g) \/ Create(u, g)
      \/ Update(u, g) \/ UpdateGone(u, g) \/ UpdateFails(u, g)
  BY DEF Post
<1>1. form[u] # NoForm
  BY DEF Post
<1>2. /\ stored \in Row \cup {NoRow}
      /\ stored # NoRow => Sound(stored)
      /\ \A v \in Users : form[v].mode = "edit" => stored.type = form[v].type
  BY DEF FormIInv, FormTypeOK
<1>3. CASE PostInvalid(u, g)
  BY <1>1, <1>3, RefusedStep DEF PostInvalid
<1>4. CASE CreateConflicts(u, g)
  BY <1>1, <1>4, RefusedStep DEF CreateConflicts
<1>5. CASE PostFails(u, g) \/ UpdateGone(u, g) \/ UpdateFails(u, g)
  BY <1>2, <1>5, DoneStep DEF PostFails, UpdateGone, UpdateFails, Done
<1>6. CASE Create(u, g)
  <2>1. stored' \in Row /\ Sound(stored') /\ stored'.type = form[u].type
    BY <1>1, <1>6, WrittenRow DEF Create
  <2>2. \A v \in Users : form[v].mode # "edit"
    <3>1. stored.type = "" /\ "" \notin Types
      BY <1>6, TypesAreSystemTypes
      DEF Create, NoRow, SystemTypes, HostPortTypes, UrlOnlyTypes, ModuleTypes
    <3>2. \A v \in Users : form[v].mode = "edit" => form[v].type \in Types
      <4>1. NoForm.mode # "edit"
        BY DEF NoForm
      <4> QED
        BY <4>1 DEF FormIInv, FormTypeOK, Form
    <3> QED
      BY <1>2, <3>1, <3>2
  <2> QED
    BY <1>6, <2>1, <2>2, DoneStep DEF Create, Done
<1>7. CASE Update(u, g)
  <2>1. form[u].mode = "edit" /\ stored.type = form[u].type
    BY <1>2, <1>7 DEF Update, Sends
  <2>2. stored.is_enable \in BOOLEAN
    <3>1. stored \in Row => stored.is_enable \in BOOLEAN
      BY DEF Row
    <3>2. NoRow.is_enable = FALSE
      BY DEF NoRow
    <3> QED
      BY <1>2, <3>1, <3>2
  <2>3. stored' \in Row /\ Sound(stored') /\ stored'.type = form[u].type
    BY <1>1, <1>7, <2>2, WrittenRow DEF Update
  <2> QED
    BY <1>2, <1>7, <2>1, <2>3, DoneStep DEF Update, Done
<1> QED
  BY <1>3, <1>4, <1>5, <1>6, <1>7

LEMMA DeleteStep ==
  ASSUME FormIInv, Delete, release' = release PROVE FormIInv'
<1>1. ASSUME NEW v \in Users
      PROVE  /\ form'[v] \in Form \cup {NoForm}
             /\ form'[v].mode # "edit"
             /\ form'[v].type = form[v].type /\ form'[v].fields = form[v].fields
             /\ form'[v] # NoForm => form[v] # NoForm
  <2>1. form[v] \in Form \cup {NoForm}
    BY DEF FormIInv, FormTypeOK
  <2>2. form'[v] = IF form[v].mode = "edit"
                   THEN [form[v] EXCEPT !.mode = "gone"] ELSE form[v]
    BY DEF Delete
  <2>3. CASE form[v] \in Form
    <3>1. /\ form'[v] \in Form /\ form'[v].mode # "edit"
          /\ form'[v].type = form[v].type /\ form'[v].fields = form[v].fields
      BY <2>2, <2>3 DEF Form
    <3>2. form[v].mode \in {"new", "edit", "gone"} /\ NoForm.mode = "none"
      BY <2>3 DEF Form, NoForm
    <3> QED
      BY <3>1, <3>2
  <2>4. CASE form[v] = NoForm
    <3>1. NoForm.mode # "edit"
      BY DEF NoForm
    <3> QED
      BY <2>2, <2>4, <3>1
  <2> QED
    BY <2>1, <2>3, <2>4
<1>2. form' \in [Users -> Form \cup {NoForm}]
  <2>1. form' = [v \in Users |-> form'[v]]
    BY DEF Delete
  <2> QED
    BY <1>1, <2>1
<1>3. stored' = NoRow /\ reply' = reply
  BY DEF Delete
<1>4. \A v \in Users : form'[v] # NoForm =>
        \A f \in Sent(form'[v].type) : form'[v].fields[f] # Null
  BY <1>1 DEF FormIInv, FormsAreFilled
<1> QED
  BY <1>1, <1>2, <1>3, <1>4 DEF FormIInv, FormTypeOK, FormsAreFilled

LEMMA StepFormIInv == ASSUME FormIInv, [FormNext]_formVars PROVE FormIInv'
<1>1. /\ stored \in Row \cup {NoRow}
      /\ stored # NoRow => Sound(stored)
      /\ \A v \in Users : form[v].mode = "edit" => stored.type = form[v].type
  BY DEF FormIInv, FormTypeOK
<1>2. ASSUME NEW u \in Users, NEW t \in Types, OpenNew(u, t), release' = release
      PROVE  FormIInv'
  <2>1. Rendered(t, [f \in Fields |-> Null], TRUE) \in Filling(t)
    BY RenderedFills DEF Held
  <2> QED
    BY <1>2, <2>1, ShowStep DEF OpenNew
<1>3. ASSUME NEW u \in Users, OpenEdit(u), release' = release
      PROVE  FormIInv'
  <2>1. /\ stored.type \in Types /\ stored.is_enable \in BOOLEAN
        /\ \A f \in Fields : stored.columns[f] \in Held(f)
    BY <1>1, <1>3 DEF OpenEdit, Row, Columns
  <2>2. Rendered(stored.type, stored.columns, TRUE) \in Filling(stored.type)
    BY <2>1, RenderedFills
  <2> QED
    BY <1>3, <2>1, <2>2, ShowStep DEF OpenEdit
<1>4. ASSUME NEW u \in Users, OpenGone(u), release' = release
      PROVE  FormIInv'
  BY <1>1, <1>4, DoneStep DEF OpenGone
<1>5. ASSUME NEW u \in Users, Post(u), release' = release
      PROVE  FormIInv'
  BY <1>5, PostStep
<1>6. ASSUME NEW on \in BOOLEAN, SetEnabled(on), release' = release
      PROVE  FormIInv'
  <2>1. /\ stored' \in Row /\ stored'.type = stored.type
        /\ stored'.columns = stored.columns
    BY <1>1, <1>6 DEF SetEnabled, Row
  <2>2. Sound(stored')
    BY <1>1, <1>6, <2>1 DEF SetEnabled, Sound
  <2> QED
    BY <1>6, <2>1, <2>2 DEF SetEnabled, FormIInv, FormTypeOK, FormsAreFilled, Sound
<1>7. ASSUME Delete, release' = release PROVE FormIInv'
  BY <1>7, DeleteStep
<1>8. CASE UNCHANGED formVars
  BY <1>8 DEF formVars, FormIInv, FormTypeOK, FormsAreFilled, Sound
<1> QED
  BY <1>2, <1>3, <1>4, <1>5, <1>6, <1>7, <1>8 DEF FormNext

(* Every state of the forms and the row is as FormIInv says: what was      *)
(* stored had been validated, and an open form fits the row it is of.      *)
THEOREM FormInvariance == FormSpec => []FormIInv
BY InitFormIInv, StepFormIInv, PTL DEF FormSpec

(***************************************************************************)
(* What is accepted is checked                                             *)
(***************************************************************************)
LEMMA Singles ==
  ASSUME NEW s, NEW a, s = <<a>>
  PROVE  (\A i \in DOMAIN s : s[i] # "") <=> a # ""
<1>1. DOMAIN s = {1} /\ s[1] = a
  OBVIOUS
<1> QED
  BY <1>1

LEMMA Pairs ==
  ASSUME NEW s, NEW a, NEW b, s = <<a, b>>
  PROVE  (\A i \in DOMAIN s : s[i] # "") <=> a # "" /\ b # ""
<1>1. DOMAIN s = {1, 2} /\ s[1] = a /\ s[2] = b
  OBVIOUS
<1> QED
  BY <1>1

LEMMA AddressIsThere ==
  ASSUME NEW r, \A i \in DOMAIN Address(r) : Address(r)[i] # ""
  PROVE  /\ TargetOf(r) = <<Address(r), How(r), Patience(r)>>
         /\ TargetOf(r) # NoTarget
<1>1. TargetOf(r) = <<Address(r), How(r), Patience(r)>>
  BY DEF TargetOf
<1>2. \A a, h, w : <<a, h, w>> # <<>>
  OBVIOUS
<1> QED
  BY <1>1, <1>2 DEF NoTarget

LEMMA SoundIsChecked ==
  ASSUME FormIInv PROVE AcceptedIsChecked
<1> SUFFICES ASSUME stored # NoRow PROVE AcceptedIsChecked
  BY DEF AcceptedIsChecked
<1>1. /\ stored \in Row /\ Sound(stored)
      /\ \A f \in IntFields : stored.columns[f] \in Numbers \cup {Null}
  BY DEF FormIInv, FormTypeOK, Row, Columns
<1>2. CASE stored.type \notin HostPortTypes
  <2>1. Address(stored) = <<stored.columns["url"]>>
    BY <1>1, <1>2 DEF Address, Get, Falsy, Sound, IntFields
  <2>2. \A i \in DOMAIN Address(stored) : Address(stored)[i] # ""
    BY <1>1, <1>2, <2>1, Singles DEF Sound
  <2> QED
    BY <2>2, AddressIsThere DEF AcceptedIsChecked
<1>3. CASE stored.type \in HostPortTypes
  <2>1. CASE stored.columns["db_port"] \in {Null, Zero}
    BY <1>1, <1>3, <2>1 DEF AcceptedIsChecked, Sound
  <2>2. CASE stored.columns["db_port"] \notin {Null, Zero}
    <3>1. stored.columns["db_port"] # ""
      BY <1>1, <2>2, NumbersAre DEF IntFields
    <3>2. Address(stored) = <<stored.columns["db_host"], stored.columns["db_port"]>>
      BY <1>1, <1>3, <2>2, <3>1 DEF Address, Get, Falsy, Sound, IntFields
    <3>3. stored.columns["db_host"] # ""
      BY <1>1, <1>3 DEF Sound
    <3>4. \A i \in DOMAIN Address(stored) : Address(stored)[i] # ""
      BY <3>1, <3>2, <3>3, Pairs
    <3> QED
      BY <3>4, AddressIsThere DEF AcceptedIsChecked
  <2> QED
    BY <2>1, <2>2
<1> QED
  BY <1>2, <1>3

(* A system that the admin UI has accepted is checked, except for a port   *)
(* that is 0, or that the chart's copy could not read.                     *)
THEOREM AcceptedIsCheckedHolds == FormSpec => []AcceptedIsChecked
BY FormInvariance, SoundIsChecked, PTL

(***************************************************************************)
(* A form that is opened and saved                                         *)
(***************************************************************************)
LEMMA RenderedIs ==
  ASSUME NEW t \in Types, NEW values, NEW f \in Sent(t), NEW isRow \in BOOLEAN,
         ~(f = "url" /\ t \in HostPortTypes)
  PROVE  Rendered(t, values, isRow)[f] = Filled(t, f, values[f], isRow)
BY SentFields, TypesAreSystemTypes DEF Rendered

LEMMA AddressOfTarget ==
  ASSUME NEW r, TargetOf(r) # NoTarget
  PROVE  /\ r.type \notin HostPortTypes => ~Falsy("url", r.columns["url"])
         /\ r.type \in HostPortTypes =>
              /\ ~Falsy("db_host", r.columns["db_host"])
              /\ ~Falsy("db_port", r.columns["db_port"])
<1>1. \A i \in DOMAIN Address(r) : Address(r)[i] # ""
  BY DEF TargetOf
<1>2. CASE r.type \in HostPortTypes
  <2>1. Address(r) = <<Get(r, "db_host", ""), Get(r, "db_port", "")>>
    BY <1>2 DEF Address
  <2>2. Get(r, "db_host", "") # "" /\ Get(r, "db_port", "") # ""
    BY <1>1, <2>1, Pairs
  <2> QED
    BY <1>2, <2>2 DEF Get
<1>3. CASE r.type \notin HostPortTypes
  <2>1. Address(r) = <<Get(r, "url", "")>>
    BY <1>3 DEF Address
  <2>2. Get(r, "url", "") # ""
    BY <1>1, <2>1, Singles
  <2> QED
    BY <1>3, <2>2 DEF Get
<1> QED
  BY <1>2, <1>3

(* A field as the form shows it, and as it comes back.                     *)
LEMMA ReopenedField ==
  ASSUME FormIInv, stored # NoRow, NEW f \in Sent(stored.type),
         ~(f = "url" /\ stored.type \in HostPortTypes)
  PROVE  /\ f \in Fields
         /\ ~Falsy(f, stored.columns[f]) =>
              /\ Reopened[f] = stored.columns[f]
              /\ Coerced(Reopened)[f] = stored.columns[f]
         /\ Falsy(f, stored.columns[f]) =>
              /\ Reopened[f] = Placeholder(stored.type, f)
              /\ Coerced(Reopened)[f] = IF Placeholder(stored.type, f) = "" THEN Null
                                        ELSE Placeholder(stored.type, f)
         /\ f \in IntFields => Reopened[f] \in Numbers
         /\ Reopened[f] # Null /\ Strip(Reopened[f]) = Reopened[f]
         /\ Fits(f, Reopened[f])
<1> DEFINE v == stored.columns[f]
           p == Placeholder(stored.type, f)
<1>1. /\ stored.type \in Types /\ f \in Fields /\ v \in Held(f)
      /\ f \in IntFields => v \in Numbers \cup {Null}
      /\ f \notin IntFields /\ v # Null => Strip(v) = v
      /\ v = Null \/ Fits(f, v)
  BY SentFields, TypesAreSystemTypes DEF FormIInv, FormTypeOK, Row, Columns, Sound
<1>2. Reopened[f] = IF Falsy(f, v) THEN p ELSE v
  BY <1>1, RenderedIs DEF Reopened, Filled, Missing, Falsy
<1>3. Coerced(Reopened)[f] = Coerce(f, Reopened[f])
  BY <1>1 DEF Coerced
<1>4. /\ p \in Texts /\ p # Null /\ Strip(p) = p /\ Fits(f, p)
      /\ f \in IntFields => p \in Numbers
  BY <1>1, PlaceholderValue, NullIsNoText
<1> HIDE DEF v, p
<1>5. f \in IntFields => Reopened[f] \in Numbers
  BY <1>1, <1>2, <1>4 DEF Falsy
<1>6. /\ Reopened[f] # Null /\ Strip(Reopened[f]) = Reopened[f]
      /\ Fits(f, Reopened[f])
  BY <1>1, <1>2, <1>4, NumbersAre DEF Falsy
<1>7. Reopened[f] \in Held(f)
  BY <1>1, <1>2, <1>4 DEF Held
<1>8. Coerce(f, Reopened[f]) = IF Reopened[f] \in {Null, ""} THEN Null
                               ELSE Reopened[f]
  <2>1. CASE f \in IntFields
    BY <1>5, <2>1, CoerceNumber, NumbersAre
  <2>2. CASE f \notin IntFields
    BY <1>1, <1>6, <1>7, <2>2, CoerceText
  <2> QED
    BY <2>1, <2>2
<1>9. ~Falsy(f, v) => v \notin {Null, ""}
  BY DEF Falsy
<1> QED
  BY <1>1, <1>2, <1>3, <1>4, <1>5, <1>6, <1>8, <1>9 DEF v, p

LEMMA ReopenedMirror ==
  ASSUME FormIInv, stored # NoRow, TargetOf(stored) # NoTarget,
         stored.type \in HostPortTypes
  PROVE  LET url == Mirror(stored.columns["db_host"], stored.columns["db_port"])
         IN  Coerced(Reopened)["url"] = url /\ url \in Mirrors /\ Fits("url", url)
<1> DEFINE h == stored.columns["db_host"]
           p == stored.columns["db_port"]
<1>1. /\ stored.type \in SystemTypes
      /\ h \in Held("db_host") /\ (h = Null \/ Fits("db_host", h))
      /\ p \in Numbers \cup {Null} /\ (p = Null \/ Fits("db_port", p))
      /\ h # Null => Strip(h) = h
  BY TypesAreSystemTypes
  DEF FormIInv, FormTypeOK, Row, Columns, Fields, IntFields, Sound
<1>2. ~Falsy("db_host", h) /\ ~Falsy("db_port", p)
  BY AddressOfTarget
<1>3. /\ h \in Texts /\ p \in Texts
      /\ Fits("db_host", h) /\ Fits("db_port", p)
      /\ Strip(h) = h /\ Strip(p) = p
  BY <1>1, <1>2, NumbersAre DEF Held, Falsy
<1>4. /\ Filled(stored.type, "db_host", h, TRUE) = h
      /\ Filled(stored.type, "db_port", p, TRUE) = p
  BY <1>2 DEF Filled, Missing, Falsy
<1>5. "url" \in Sent(stored.type)
  BY <1>1, SentFields
<1>6. Reopened["url"] = Mirror(h, p)
  BY <1>4, <1>5 DEF Reopened, Rendered, Fields
<1>7. /\ Mirror(h, p) \in Mirrors /\ Fits("url", Mirror(h, p))
      /\ Strip(Mirror(h, p)) = Mirror(h, p)
  <2> HIDE DEF h, p
  <2>1. Mirror(h, p) \in Mirrors
    BY <1>3 DEF Mirrors
  <2> QED
    BY <1>3, <2>1, MirrorFacts
<1>8. Coerce("url", Mirror(h, p)) = Mirror(h, p)
  <2> HIDE DEF h, p
  <2>1. Mirror(h, p) \in Held("url") /\ Mirror(h, p) \notin {Null, ""}
    BY <1>7, NullIsNoText DEF Held
  <2>2. "url" \in Fields \ IntFields
    BY DEF Fields, IntFields
  <2> QED
    BY <1>7, <2>1, <2>2, CoerceText
<1> QED
  BY <1>6, <1>7, <1>8 DEF Coerced, Fields

LEMMA ReopenedIsValid ==
  ASSUME FormIInv, stored # NoRow, TargetOf(stored) # NoTarget
  PROVE  Validated(stored.type, Reopened) /\ ~Fails(Reopened)
<1> DEFINE t == stored.type
           c == stored.columns
<1>1. t \in Types /\ Sound(stored) /\ c["system_group"] # Null
  BY DEF FormIInv, FormTypeOK, Row, Columns
<1>2. ASSUME NEW f \in Required(t) PROVE Reopened[f] \notin {Null, ""}
  <2>1. f \in Sent(t) /\ ~(f = "url" /\ t \in HostPortTypes)
    BY <1>1, <1>2, RequiredFields, TypesAreSystemTypes
  <2>2. CASE f \in {"system_group", "url", "db_host"}
    <3>1. c[f] \notin {Null, ""}
      <4>1. f = "system_group" => t # "SSL"
        BY <1>1, <1>2, RequiredFields, TypesAreSystemTypes
      <4>2. f = "url" => t \notin HostPortTypes
        BY <2>1
      <4>3. f = "db_host" => t \in HostPortTypes
        BY <2>1 DEF Sent
      <4> QED
        BY <1>1, <2>2, <4>1, <4>2, <4>3 DEF Sound
    <3>2. ~Falsy(f, c[f])
      BY <2>2, <3>1 DEF Falsy, IntFields
    <3> QED
      BY <2>1, <3>1, <3>2, ReopenedField
  <2>3. CASE f \notin {"system_group", "url", "db_host"}
    <3>1. Placeholder(t, f) \notin {Null, ""}
      BY <1>1, <1>2, <2>1, <2>3, PlaceholderValue, NullIsNoText
    <3>2. ~Falsy(f, c[f]) => c[f] \notin {Null, ""}
      BY DEF Falsy
    <3> QED
      BY <2>1, <3>1, <3>2, ReopenedField
  <2> QED
    BY <2>2, <2>3
<1>3. HasFields(t, Reopened)
  <2>1. ASSUME NEW f \in Required(t) PROVE Strip(Reopened[f]) = Reopened[f]
    <3>1. f \in Sent(t) /\ ~(f = "url" /\ t \in HostPortTypes)
      BY <1>1, <2>1, RequiredFields, TypesAreSystemTypes
    <3> QED
      BY <3>1, ReopenedField
  <2> QED
    BY <1>2, <2>1 DEF HasFields, OrEmpty
<1>4. ASSUME NEW f \in IntFields PROVE Reopened[f] \in Numbers \cup {Null}
  <2>1. CASE f \in Sent(t)
    BY <2>1, ReopenedField DEF IntFields
  <2>2. CASE f \notin Sent(t)
    BY <2>2 DEF Reopened, Rendered, IntFields, Fields
  <2> QED
    BY <2>1, <2>2
<1>5. ASSUME NEW f \in IntFields
      PROVE  Strip(OrEmpty(Reopened[f])) = "" \/ IsInteger(Strip(OrEmpty(Reopened[f])))
  BY <1>4, <1>5, NumbersAre, TextFacts DEF OrEmpty
<1>6. NumbersParse(t, Reopened)
  BY <1>5 DEF NumbersParse
<1>7. ASSUME NEW f \in Fields, NEW v, v = Coerced(Reopened)[f]
      PROVE  v # Raised /\ (v = Null \/ Fits(f, v))
  <2>1. CASE f \notin Sent(t)
    <3>1. Reopened[f] = Null
      BY <2>1 DEF Reopened, Rendered
    <3> QED
      BY <1>7, <3>1 DEF Coerced, Coerce, Null, Raised
  <2>2. CASE f = "url" /\ t \in HostPortTypes
    <3>1. v = Mirror(c["db_host"], c["db_port"]) /\ v \in Mirrors
      BY <1>7, <2>2, ReopenedMirror
    <3>2. Fits("url", Mirror(c["db_host"], c["db_port"]))
      BY <2>2, ReopenedMirror
    <3> QED
      BY <2>2, <3>1, <3>2, NullIsNoText
  <2>3. CASE f \in Sent(t) /\ ~(f = "url" /\ t \in HostPortTypes)
    <3>1. v = Coerce(f, Reopened[f])
      BY <1>7 DEF Coerced
    <3>2. /\ Reopened[f] # Null /\ Fits(f, Reopened[f])
          /\ v \in {Null, Reopened[f]}
      BY <1>7, <2>3, ReopenedField
    <3>3. v # Raised
      <4>1. CASE f \in IntFields
        BY <1>4, <3>2, <4>1, NumbersAre DEF Null, Raised
      <4>2. CASE f \notin IntFields
        <5>1. c[f] \in Held(f) /\ Placeholder(t, f) \in Held(f)
          BY <1>1, <2>3, PlaceholderValue DEF FormIInv, FormTypeOK, Row, Columns, Held
        <5>2. Reopened[f] \in Held(f)
          BY <2>3, <5>1, ReopenedField
        <5> QED
          BY <3>1, <4>2, <5>2, CoerceText
      <4> QED
        BY <4>1, <4>2
    <3> QED
      BY <3>2, <3>3
  <2> QED
    BY <2>1, <2>2, <2>3
<1>8. ~Fails(Reopened)
  BY <1>7 DEF Fails
<1> QED
  BY <1>3, <1>6, <1>8 DEF Validated

(* What is read of a column is the same when the form was saved again.     *)
LEMMA ReadAgain ==
  ASSUME FormIInv, stored # NoRow, NEW f \in Sent(stored.type),
         ~(f = "url" /\ stored.type \in HostPortTypes),
         NEW saved, saved.columns = Coerced(Reopened), NEW d,
         Falsy(f, stored.columns[f]) => d = Placeholder(stored.type, f)
  PROVE  Get(saved, f, d) = Get(stored, f, d)
<1> DEFINE v == stored.columns[f]
           p == Placeholder(stored.type, f)
<1>1. stored.type \in Types
  BY DEF FormIInv, FormTypeOK, Row
<1>2. CASE ~Falsy(f, v)
  BY <1>2, ReopenedField DEF Get
<1>3. CASE Falsy(f, v)
  <2>1. p # Null /\ (f \in IntFields => p # Zero)
    BY <1>1, PlaceholderValue, NullIsNoText
  <2>2. saved.columns[f] = IF p = "" THEN Null ELSE p
    BY <1>3, ReopenedField
  <2>3. d = p
    BY <1>3
  <2> HIDE DEF v, p
  <2>4. Get(saved, f, d) = d
    BY <2>1, <2>2, <2>3 DEF Get, Falsy
  <2> QED
    BY <1>3, <2>4 DEF Get, v
<1> QED
  BY <1>2, <1>3

LEMMA ReopenedTarget ==
  ASSUME FormIInv, stored # NoRow, TargetOf(stored) # NoTarget,
         NEW saved, saved.columns = Coerced(Reopened), saved.type = stored.type
  PROVE  TargetOf(saved) = TargetOf(stored)
<1> DEFINE t == stored.type
           c == stored.columns
<1>1. t \in SystemTypes
  BY TypesAreSystemTypes DEF FormIInv, FormTypeOK, Row
<1>2. /\ t \notin HostPortTypes => ~Falsy("url", c["url"])
      /\ t \in HostPortTypes => ~Falsy("db_host", c["db_host"])
      /\ t \in HostPortTypes => ~Falsy("db_port", c["db_port"])
  BY AddressOfTarget
<1>3. "url" \in Sent(t) /\ "timeout_seconds" \in Sent(t)
  BY <1>1, SentFields
<1>4. Address(saved) = Address(stored)
  <2>1. CASE t \in HostPortTypes
    <3>1. "db_host" \in Sent(t) /\ "db_port" \in Sent(t)
      BY <1>1, <2>1, SentFields
    <3>2. /\ Get(saved, "db_host", "") = Get(stored, "db_host", "")
          /\ Get(saved, "db_port", "") = Get(stored, "db_port", "")
      BY <1>2, <2>1, <3>1, ReadAgain
    <3> QED
      BY <2>1, <3>2 DEF Address
  <2>2. CASE t \notin HostPortTypes
    <3>1. Get(saved, "url", "") = Get(stored, "url", "")
      BY <1>2, <1>3, <2>2, ReadAgain
    <3> QED
      BY <2>2, <3>1 DEF Address
  <2> QED
    BY <2>1, <2>2
<1>5. How(saved) = How(stored)
  <2>1. CASE t \in ModuleTypes \cup {"TCP"}
    <3>1. /\ "blackbox_module" \in Sent(t)
          /\ Placeholder(t, "blackbox_module") = DefaultModule(t)
      BY <2>1 DEF Sent, Placeholder
    <3>2. Get(saved, "blackbox_module", DefaultModule(t))
            = Get(stored, "blackbox_module", DefaultModule(t))
      BY <3>1, ReadAgain
    <3> QED
      BY <2>1, <3>2 DEF How, ModuleTypes
  <2>2. CASE t = "KEYCLOAK"
    <3>1. "realm_path" \in Sent(t) /\ Placeholder(t, "realm_path") = DefaultRealm
      BY <2>2 DEF Sent, Placeholder, DefaultRealm
    <3>2. Get(saved, "realm_path", DefaultRealm) = Get(stored, "realm_path", DefaultRealm)
      BY <3>1, ReadAgain
    <3> QED
      BY <2>2, <3>2 DEF How, ModuleTypes
  <2>3. CASE t = "VERSION"
    <3>1. /\ "version_strategy" \in Sent(t)
          /\ Placeholder(t, "version_strategy") = "spring_actuator"
      BY <2>3 DEF Sent, Placeholder
    <3>2. Get(saved, "version_strategy", "spring_actuator")
            = Get(stored, "version_strategy", "spring_actuator")
      BY <3>1, ReadAgain
    <3> QED
      BY <2>3, <3>2 DEF How, ModuleTypes
  <2>4. CASE t \notin ModuleTypes \cup {"TCP", "KEYCLOAK", "VERSION"}
    BY <2>4 DEF How
  <2> QED
    BY <2>1, <2>2, <2>3, <2>4
<1>6. Patience(saved) = Patience(stored)
  <2>1. Placeholder(t, "timeout_seconds") = "30"
    BY DEF Placeholder
  <2>2. Get(saved, "timeout_seconds", "30") = Get(stored, "timeout_seconds", "30")
    BY <1>3, <2>1, ReadAgain
  <2> QED
    BY <2>2 DEF Patience
<1> QED
  BY <1>4, <1>5, <1>6 DEF TargetOf

(* Opening a form and saving it as it is changes nothing in what is        *)
(* checked.                                                                *)
THEOREM OpenAndSaveIsHarmlessHolds == FormSpec => []OpenAndSaveIsHarmless
<1>1. ASSUME FormIInv PROVE OpenAndSaveIsHarmless
  <2> SUFFICES ASSUME stored # NoRow, TargetOf(stored) # NoTarget,
                      NEW saved, saved = [stored EXCEPT !.columns = Coerced(Reopened)]
               PROVE  /\ Validated(stored.type, Reopened) /\ ~Fails(Reopened)
                      /\ TargetOf(saved) = TargetOf(stored)
                      /\ stored.type \in HostPortTypes =>
                           saved.columns["url"] =
                             Mirror(stored.columns["db_host"], stored.columns["db_port"])
    BY DEF OpenAndSaveIsHarmless
  <2>1. saved.columns = Coerced(Reopened) /\ saved.type = stored.type
    BY <1>1 DEF FormIInv, FormTypeOK, Row
  <2> QED
    BY <1>1, <2>1, ReopenedIsValid, ReopenedTarget, ReopenedMirror
<1> QED
  BY <1>1, FormInvariance, PTL

(***************************************************************************)
(* A form that is saved and opened                                         *)
(***************************************************************************)
LEMMA SavedField ==
  ASSUME NEW t \in Types, NEW mode, NEW g, Sending(g), ~Fails(g),
         NEW f \in Shown(t), g[f] # Null, Strip(g[f]) # "",
         f \in IntFields => IsInteger(g[f]) /\ Canonical[g[f]] # Zero
  PROVE  Rendered(t, Written(mode, g), TRUE)[f] = Kind(f, g[f])
<1> DEFINE w == Written(mode, g)[f]
<1>1. f \in Sent(t) /\ f \in Fields /\ ~(f = "url" /\ t \in HostPortTypes)
  BY SentFields, TypesAreSystemTypes DEF Shown
<1>2. g[f] \notin {Null, ""}
  BY TextFacts
<1>3. Coerced(g)[f] = Coerce(f, g[f])
  BY <1>1 DEF Coerced
<1>4. CASE f \in IntFields
  <2>1. Coerced(g)[f] = Canonical[g[f]]
    BY <1>2, <1>3, <1>4, CoerceNumber
  <2>2. Coerced(g)[f] \in Numbers
    BY <1>4, <2>1, IntegersAre
  <2>3. Canonical[g[f]] \notin {Null, "", Zero}
    BY <1>4, <2>1, <2>2, NumbersAre
  <2>4. w = Canonical[g[f]]
    BY <1>1, <2>1, <2>3, WrittenField
  <2>5. Filled(t, f, w, TRUE) = w
    BY <2>3, <2>4 DEF Filled, Missing
  <2> QED
    BY <1>1, <1>4, <2>4, <2>5, RenderedIs DEF Kind
<1>5. CASE f \notin IntFields
  <2>1. Coerced(g)[f] = Strip(g[f]) /\ Strip(g[f]) # Null
    BY <1>1, <1>2, <1>3, <1>5, CoerceText DEF Sending
  <2>2. w = Strip(g[f])
    BY <1>1, <1>5, <2>1, WrittenField DEF IntFields
  <2>3. Filled(t, f, w, TRUE) = w
    BY <1>5, <2>1, <2>2 DEF Filled, Missing
  <2> QED
    BY <1>1, <1>5, <2>2, <2>3, RenderedIs DEF Kind
<1> QED
  BY <1>4, <1>5

(* A field that was saved is shown as it was sent, without the blanks      *)
(* around it, a number also without the zeros in front.                    *)
THEOREM SavedFormIsShownAgainHolds == FormSpec => []SavedFormIsShownAgain
<1>1. ASSUME FormIInv PROVE SavedFormIsShownAgain
  <2> SUFFICES ASSUME NEW u \in Users, form[u] # NoForm,
                      NEW g \in Sendable(u), Acceptable(u, g),
                      NEW f \in Shown(form[u].type), Strip(g[f]) # "",
                      f \in IntFields => IsInteger(g[f]) /\ Canonical[g[f]] # Zero
               PROVE  Rendered(form[u].type, Written(form[u].mode, g), TRUE)[f]
                        = Kind(f, g[f])
    BY DEF SavedFormIsShownAgain
  <2>1. /\ form[u].type \in Types /\ Sending(g) /\ ~Fails(g)
        /\ \A e \in Sent(form[u].type) : g[e] # Null
    BY <1>1, SendableIs DEF Acceptable
  <2>2. f \in Sent(form[u].type)
    BY DEF Shown
  <2> QED
    BY <2>1, <2>2, SavedField
<1> QED
  BY <1>1, FormInvariance, PTL

(***************************************************************************)
(* What can fail                                                           *)
(***************************************************************************)

(* A form that passes _validate() is stored, or refused because its system *)
(* exists: what else can come of it is a blank number, a value that its    *)
(* column does not take, or a certificate without a group.                 *)
THEOREM FailuresAreKnownHolds == FormSpec => []FailuresAreKnown
<1>1. ASSUME FormIInv PROVE FailuresAreKnown
  <2> SUFFICES ASSUME NEW u \in Users, form[u] # NoForm,
                      NEW g \in Sendable(u), Validated(form[u].type, g),
                      \A f \in Fields :
                        g[f] \notin {Null, ""} /\ Readable(f, g[f])
                        => Fits(f, Kind(f, g[f])),
                      ~ (release = "exporter" /\ \E f \in IntFields : Blank(g[f])),
                      ~ (form[u].type = "SSL" /\ g["system_group"] = "")
               PROVE  /\ ~Fails(g)
                      /\ ~NotNullFails(Written(form[u].mode, g))
    BY DEF FailuresAreKnown
  <2>1. /\ form[u].type \in Types /\ Sending(g)
        /\ \A f \in Sent(form[u].type) : g[f] # Null
    BY <1>1, SendableIs
  <2>2. ASSUME NEW f \in Fields, NEW v, v = Coerced(g)[f]
        PROVE  v # Raised /\ (v = Null \/ Fits(f, v))
    <3>1. v = Coerce(f, g[f])
      BY <2>2 DEF Coerced
    <3>2. CASE g[f] \in {Null, ""}
      BY <3>1, <3>2 DEF Coerce, Null, Raised
    <3>3. CASE g[f] \notin {Null, ""} /\ f \notin IntFields
      <4>1. v = Strip(g[f]) /\ v # Raised
        BY <2>1, <3>1, <3>3, CoerceText DEF Sending
      <4>2. Fits(f, Strip(g[f]))
        BY <3>3 DEF Readable, Kind
      <4> QED
        BY <4>1, <4>2
    <3>4. CASE f \in IntFields /\ IsInteger(g[f])
      <4>1. v = Canonical[g[f]] /\ v \in Numbers
        BY <3>1, <3>4, CoerceNumber
      <4>2. Fits(f, Canonical[g[f]])
        BY <3>4, IntegersAre DEF Readable, Kind
      <4> QED
        BY <4>1, <4>2, NumbersAre
    <3>5. CASE g[f] \notin {Null, ""} /\ f \in IntFields /\ ~IsInteger(g[f])
      <4>1. g[f] \in Texts
        BY <2>1, <3>5 DEF Sending, Held, IntFields
      <4>2. ~IsInteger(Strip(g[f]))
        BY <3>5, <4>1, NumberFacts DEF IsInteger
      <4>3. release = "chart" \/ Blank(g[f])
        BY <3>5, <4>2 DEF Validated, NumbersParse, OrEmpty, Blank
      <4>4. release \in {"chart", "exporter"}
        BY <1>1 DEF FormIInv, FormTypeOK
      <4>5. release = "chart"
        BY <3>5, <4>3, <4>4
      <4> QED
        BY <3>1, <3>5, <4>5, CoerceNumber DEF Null, Raised
    <3> QED
      BY <3>2, <3>3, <3>4, <3>5
  <2>3. g["system_group"] \notin {Null, ""}
    <3>1. g["system_group"] # Null
      BY <2>1, SentFields, TypesAreSystemTypes
    <3>2. CASE form[u].type = "SSL"
      BY <3>1, <3>2
    <3>3. CASE form[u].type # "SSL"
      <4>1. "system_group" \in Required(form[u].type)
        BY <2>1, <3>3, RequiredFields, TypesAreSystemTypes
      <4> QED
        BY <3>1, <4>1, TextFacts DEF Validated, HasFields, OrEmpty
    <3> QED
      BY <3>2, <3>3
  <2>4. Written(form[u].mode, g)["system_group"] = Coerce("system_group", g["system_group"])
    <3>1. Coerced(g)["system_group"] = Coerce("system_group", g["system_group"])
      BY DEF Coerced, Fields
    <3> QED
      BY <3>1, WrittenField DEF Fields
  <2>5. Coerce("system_group", g["system_group"]) # Null
    BY <2>1, <2>3, CoerceText DEF Sending, Fields, IntFields
  <2>6. ~Fails(g)
    BY <2>2 DEF Fails
  <2> QED
    BY <2>4, <2>5, <2>6 DEF NotNullFails
<1> QED
  BY <1>1, FormInvariance, PTL
=============================================================================
