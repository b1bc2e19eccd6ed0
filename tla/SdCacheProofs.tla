---------------------------- MODULE SdCacheProofs ----------------------------
(***************************************************************************)
(* For every set of types, threads, systems and rows, every time-to-live   *)
(* and every bound: the invariants of SdCache, and that SdCache implements *)
(* TtlReads.                                                               *)
(***************************************************************************)
EXTENDS SdCache, TLAPS

(* A listing names systems. *)
LEMMA ListedType == \A cat, t : Listed(cat, t) \in SUBSET Systems
BY DEF Listed

(***************************************************************************)
(* Types.                                                                  *)
(***************************************************************************)

LEMMA InitTypeOK == Init => TypeOK
<1> SUFFICES ASSUME Init PROVE TypeOK
  OBVIOUS
<1>1. moments \in [SdTypes -> SUBSET (Nat \X SUBSET Systems)]
  BY ListedType DEF Init
<1>2. (CHOOSE t \in SdTypes : TRUE) \in SdTypes
  BY SdCacheAssumption
<1>3. sd_type \in [Threads -> SdTypes]
  BY <1>2 DEF Init
<1> QED
  BY <1>1, <1>3 DEF Init, TypeOK, PC

(* Every state of the endpoints has the shape TypeOK gives: expiries and   *)
(* clocks are naturals, payloads are sets of systems.                      *)
THEOREM TypeCorrect == Spec => []TypeOK
<1>1. TypeOK /\ [Next]_vars => TypeOK'
  <2> SUFFICES ASSUME TypeOK, [Next]_vars PROVE TypeOK'
    OBVIOUS
  <2>1. CASE Tick
    BY <2>1, ListedType DEF Tick, TypeOK
  <2>2. ASSUME NEW s \in Systems, Edit(s) PROVE TypeOK'
    BY <2>2, ListedType DEF Edit, TypeOK
  <2>3. ASSUME NEW w \in Threads, Request(w) PROVE TypeOK'
    BY <2>3 DEF Request, TypeOK, PC
  <2>4. ASSUME NEW w \in Threads, RequestUnknown(w) PROVE TypeOK'
    BY <2>4 DEF RequestUnknown, TypeOK, PC
  <2>5. ASSUME NEW w \in Threads, Hit(w) PROVE TypeOK'
    BY <2>5 DEF Hit, TypeOK, PC
  <2>6. ASSUME NEW w \in Threads, Miss(w) PROVE TypeOK'
    BY <2>6 DEF Miss, TypeOK, PC
  <2>7. ASSUME NEW w \in Threads, Fetch(w) PROVE TypeOK'
    BY <2>7, ListedType DEF Fetch, TypeOK, PC
  <2>8. ASSUME NEW w \in Threads, FetchFails(w) PROVE TypeOK'
    BY <2>8 DEF FetchFails, TypeOK, PC
  <2>9. ASSUME NEW w \in Threads, Store(w) PROVE TypeOK'
    BY <2>9, SdCacheAssumption DEF Store, Expiry, TypeOK, PC
  <2>10. CASE UNCHANGED vars
    BY <2>10 DEF vars, TypeOK
  <2> QED
    BY <2>1, <2>2, <2>3, <2>4, <2>5, <2>6, <2>7, <2>8, <2>9, <2>10
    DEF Next, Step
<1> QED
  BY <1>1, InitTypeOK, PTL DEF Spec

(***************************************************************************)
(* The inductive invariant.                                                *)
(***************************************************************************)

(* The parts of IInv that speak of moments survive every step that only    *)
(* adds moments and leaves the threads and the cache alone.                *)
LEMMA MomentsOnlyGrow ==
  ASSUME IInv, TypeOK', PresentRecorded', StartedInThePast',
         \A t \in SdTypes : moments[t] \subseteq moments'[t],
         UNCHANGED <<cache, pc, sd_type, now, payload>>
  PROVE  IInv'
<1>1. FetchedSinceStart'
  BY DEF IInv, TypeOK, FetchedSinceStart
<1>2. CachedWithinTTL'
  BY DEF IInv, TypeOK, CachedWithinTTL
<1>3. AnsweredWithinTTL'
  BY DEF IInv, TypeOK, AnsweredWithinTTL
<1> QED
  BY <1>1, <1>2, <1>3 DEF IInv

(* Each part of IInv needs the others: a hit is recent because the entry   *)
(* is (CachedWithinTTL), the entry because the thread that stored it       *)
(* fetched after it read the clock (FetchedSinceStart), and that because   *)
(* the present is always recorded (PresentRecorded).                       *)
LEMMA StepKeepsIInv == IInv /\ TypeOK' /\ [Next]_vars => IInv'
<1> SUFFICES ASSUME IInv, TypeOK', [Next]_vars PROVE IInv'
  OBVIOUS
<1> USE SdCacheAssumption
<1>1. CASE Tick
  <2>1. PresentRecorded'
    BY <1>1 DEF Tick, IInv, TypeOK, PresentRecorded
  <2>2. StartedInThePast'
    BY <1>1 DEF Tick, IInv, TypeOK, StartedInThePast
  <2> QED
    BY <1>1, <2>1, <2>2, MomentsOnlyGrow DEF Tick, IInv, TypeOK
<1>2. ASSUME NEW s \in Systems, Edit(s) PROVE IInv'
  <2>1. PresentRecorded'
    BY <1>2 DEF Edit, IInv, TypeOK, PresentRecorded
  <2>2. StartedInThePast'
    BY <1>2 DEF Edit, IInv, TypeOK, StartedInThePast
  <2> QED
    BY <1>2, <2>1, <2>2, MomentsOnlyGrow DEF Edit, IInv, TypeOK
<1>3. ASSUME NEW w \in Threads, Request(w) PROVE IInv'
  BY <1>3 DEF Request, IInv, TypeOK, PresentRecorded, StartedInThePast,
              FetchedSinceStart, CachedWithinTTL, AnsweredWithinTTL
<1>4. ASSUME NEW w \in Threads, RequestUnknown(w) PROVE IInv'
  BY <1>4 DEF RequestUnknown, IInv, TypeOK, PresentRecorded,
              StartedInThePast, FetchedSinceStart, CachedWithinTTL,
              AnsweredWithinTTL
<1>5. ASSUME NEW w \in Threads, Hit(w) PROVE IInv'
  <2>1. PresentRecorded' /\ StartedInThePast' /\ FetchedSinceStart'
          /\ CachedWithinTTL'
    BY <1>5 DEF Hit, IInv, TypeOK, PresentRecorded, StartedInThePast,
                FetchedSinceStart, CachedWithinTTL
  <2>2. PICK m \in moments[sd_type[w]] :
          /\ m[1] >= cache[sd_type[w]].expires - TTL
          /\ m[2] = cache[sd_type[w]].payload
    BY <1>5 DEF Hit, Valid, IInv, TypeOK, CachedWithinTTL
  <2>3. m[1] \in Nat
    BY <1>5 DEF IInv, TypeOK
  <2>4. m[1] > now[w] - TTL
    BY <1>5, <2>2, <2>3 DEF Hit, Valid, IInv, TypeOK
  <2>5. payload'[w] = m[2]
    BY <1>5, <2>2 DEF Hit, IInv, TypeOK
  <2>6. AnsweredWithinTTL'
    BY <1>5, <2>4, <2>5 DEF Hit, IInv, TypeOK, AnsweredWithinTTL
  <2> QED
    BY <2>1, <2>6 DEF IInv
<1>6. ASSUME NEW w \in Threads, Miss(w) PROVE IInv'
  BY <1>6 DEF Miss, IInv, TypeOK, PresentRecorded, StartedInThePast,
              FetchedSinceStart, CachedWithinTTL, AnsweredWithinTTL
<1>7. ASSUME NEW w \in Threads, Fetch(w) PROVE IInv'
  <2>1. PresentRecorded' /\ StartedInThePast' /\ CachedWithinTTL'
          /\ AnsweredWithinTTL'
    BY <1>7 DEF Fetch, IInv, TypeOK, PresentRecorded, StartedInThePast,
                CachedWithinTTL, AnsweredWithinTTL
  <2>2. <<clock, Listed(catalog, sd_type[w])>> \in moments[sd_type[w]]
    BY DEF IInv, TypeOK, PresentRecorded
  <2>3. clock >= now[w]
    BY DEF IInv, TypeOK, StartedInThePast
  <2>4. FetchedSinceStart'
    BY <1>7, <2>2, <2>3 DEF Fetch, IInv, TypeOK, FetchedSinceStart
  <2> QED
    BY <2>1, <2>4 DEF IInv
<1>8. ASSUME NEW w \in Threads, FetchFails(w) PROVE IInv'
  BY <1>8 DEF FetchFails, IInv, TypeOK, PresentRecorded, StartedInThePast,
              FetchedSinceStart, CachedWithinTTL, AnsweredWithinTTL
<1>9. ASSUME NEW w \in Threads, Store(w) PROVE IInv'
  <2>1. PresentRecorded' /\ StartedInThePast' /\ FetchedSinceStart'
    BY <1>9 DEF Store, IInv, TypeOK, PresentRecorded, StartedInThePast,
                FetchedSinceStart
  <2>2. PICK m \in moments[sd_type[w]] :
          m[1] >= now[w] /\ m[2] = payload[w]
    BY <1>9 DEF Store, IInv, FetchedSinceStart
  <2>3. m[1] \in Nat
    BY DEF IInv, TypeOK
  <2>4. CachedWithinTTL'
    <3> SUFFICES ASSUME NEW t \in SdTypes, cache'[t].expires # 0
                 PROVE  \E n \in moments[t] :
                          /\ n[1] >= cache'[t].expires - TTL
                          /\ n[2] = cache'[t].payload
      BY <1>9 DEF Store, CachedWithinTTL
    <3>1. CASE t = sd_type[w]
      <4>1. cache'[t] = [expires |-> now[w] + TTL, payload |-> payload[w]]
        BY <1>9, <3>1 DEF Store, Expiry, IInv, TypeOK
      <4> QED
        BY <3>1, <4>1, <2>2, <2>3 DEF IInv, TypeOK
    <3>2. CASE t # sd_type[w]
      BY <1>9, <3>2 DEF Store, IInv, TypeOK, CachedWithinTTL
    <3> QED
      BY <3>1, <3>2
  <2>5. AnsweredWithinTTL'
    <3>0. now[w] \in Nat
      BY DEF IInv, TypeOK
    <3>1. m[1] > now[w] - TTL
      BY <2>2, <2>3, <3>0
    <3> SUFFICES ASSUME NEW v \in Threads, pc'[v] = "ok"
                 PROVE  \E n \in moments[sd_type[v]] :
                          n[1] > now[v] - TTL /\ n[2] = payload[v]
      BY <1>9 DEF Store, AnsweredWithinTTL
    <3>2. CASE v = w
      BY <2>2, <3>1, <3>2
    <3>3. CASE v # w
      BY <1>9, <3>3 DEF Store, IInv, TypeOK, AnsweredWithinTTL
    <3> QED
      BY <3>2, <3>3
  <2> QED
    BY <2>1, <2>4, <2>5 DEF IInv
<1>10. CASE UNCHANGED vars
  BY <1>10 DEF vars, IInv, TypeOK, PresentRecorded, StartedInThePast,
               FetchedSinceStart, CachedWithinTTL, AnsweredWithinTTL
<1> QED
  BY <1>1, <1>2, <1>3, <1>4, <1>5, <1>6, <1>7, <1>8, <1>9, <1>10
  DEF Next, Step

(* IInv holds in every state of the endpoints.                             *)
THEOREM Invariance == Spec => []IInv
<1>1. Init => IInv
  <2> SUFFICES ASSUME Init PROVE IInv
    OBVIOUS
  <2>1. TypeOK
    BY InitTypeOK
  <2>2. PresentRecorded
    BY DEF Init, PresentRecorded
  <2>3. StartedInThePast
    BY DEF Init, StartedInThePast
  <2>4. FetchedSinceStart /\ AnsweredWithinTTL
    BY DEF Init, FetchedSinceStart, AnsweredWithinTTL
  <2>5. CachedWithinTTL
    BY DEF Init, CachedWithinTTL
  <2> QED
    BY <2>1, <2>2, <2>3, <2>4, <2>5 DEF IInv
<1> QED
  BY <1>1, StepKeepsIInv, TypeCorrect, PTL DEF Spec

(* An edit is visible once it is TTL old, for every instance: what a       *)
(* request was answered is the value of one of the moments that, by        *)
(* hypothesis, all have the same value.                                    *)
THEOREM EditsVisible == Spec => []EditsVisibleAfterTTL
<1>1. IInv => EditsVisibleAfterTTL
  BY DEF IInv, AnsweredWithinTTL, EditsVisibleAfterTTL
<1> QED
  BY <1>1, Invariance, PTL

(***************************************************************************)
(* The refinement.                                                         *)
(***************************************************************************)

(* A step of one thread changes the abstract request of that thread only.  *)
LEMMA OneThread ==
  ASSUME TypeOK, NEW w \in Threads, NEW p \in PC,
         pc' = [pc EXCEPT ![w] = p],
         NEW q \in SUBSET Systems, payload' = [payload EXCEPT ![w] = q]
  PROVE  /\ Given' = [Given EXCEPT ![w] = IF p = "ok" THEN q ELSE {}]
         /\ p = "idle" => Phase' = [Phase EXCEPT ![w] = "idle"]
         /\ p \in {"lookup", "fetch", "store"} =>
              Phase' = [Phase EXCEPT ![w] = "open"]
         /\ p = "ok" => Phase' = [Phase EXCEPT ![w] = "answered"]
         /\ p \in {"error", "not_found"} =>
              Phase' = [Phase EXCEPT ![w] = "failed"]
<1>1. pc' \in [Threads -> PC] /\ pc'[w] = p
  BY DEF TypeOK
<1>2. \A v \in Threads \ {w} : pc'[v] = pc[v] /\ payload'[v] = payload[v]
  BY DEF TypeOK
<1>3. payload'[w] = q
  BY DEF TypeOK
<1>4. Given' = [Given EXCEPT ![w] = IF p = "ok" THEN q ELSE {}]
  BY <1>1, <1>2, <1>3 DEF Given
<1>5. p = "idle" => Phase' = [Phase EXCEPT ![w] = "idle"]
  BY <1>1, <1>2 DEF Phase, PhaseOf, PC
<1>6. p \in {"lookup", "fetch", "store"} =>
        Phase' = [Phase EXCEPT ![w] = "open"]
  BY <1>1, <1>2 DEF Phase, PhaseOf, PC
<1>7. p = "ok" => Phase' = [Phase EXCEPT ![w] = "answered"]
  BY <1>1, <1>2 DEF Phase, PhaseOf, PC
<1>8. p \in {"error", "not_found"} =>
        Phase' = [Phase EXCEPT ![w] = "failed"]
  BY <1>1, <1>2 DEF Phase, PhaseOf, PC
<1> QED
  BY <1>4, <1>5, <1>6, <1>7, <1>8

(* SdCache implements TtlReads for every instance: requests, hits, stores  *)
(* and failures are its Ask, Answer and Fail, the cache fills in between   *)
(* are stutters, and IInv supplies the moment Answer asks for.             *)
THEOREM Refinement == Spec => ImplementsTtlReads
<1>1. Init => Promise!Init
  <2> SUFFICES ASSUME Init PROVE Promise!Init
    OBVIOUS
  <2>1. TypeOK
    BY InitTypeOK
  <2>2. Source \in [SdTypes -> SUBSET Systems]
    BY ListedType DEF Source
  <2>3. moments = [t \in SdTypes |-> {<<clock, Source[t]>>}]
    BY DEF Init, Source
  <2>4. Phase = [w \in Threads |-> "idle"]
    BY DEF Init, Phase, PhaseOf
  <2>5. Given \in [Threads -> SUBSET Systems]
    BY <2>1 DEF Given, TypeOK
  <2> QED
    BY <2>1, <2>2, <2>3, <2>4, <2>5 DEF Promise!Init, TypeOK
<1>2. IInv /\ TypeOK' /\ [Next]_vars => [Promise!Next]_Promise!vars
  <2> SUFFICES ASSUME IInv, TypeOK', [Next]_vars
               PROVE  [Promise!Next]_Promise!vars
    OBVIOUS
  <2>t. TypeOK
    BY DEF IInv
  <2>1. CASE Tick
    <3>1. UNCHANGED <<Source, Phase, Given>>
      BY <2>1 DEF Tick, Source, Phase, PhaseOf, Given
    <3>2. moments' = [t \in SdTypes |->
                        moments[t] \cup {<<clock + 1, Source[t]>>}]
      BY <2>1 DEF Tick, Source
    <3>3. Promise!Tick
      BY <2>1, <3>1, <3>2 DEF Tick, Promise!Tick
    <3> QED
      BY <3>3 DEF Promise!Next
  <2>2. ASSUME NEW s \in Systems, Edit(s) PROVE Promise!Next
    <3>1. UNCHANGED <<Phase, Given>>
      BY <2>2 DEF Edit, Phase, PhaseOf, Given
    <3>2. moments' = [t \in SdTypes |->
                        moments[t] \cup {<<clock, Source'[t]>>}]
      BY <2>2 DEF Edit, Source
    <3>3. Source' \in [SdTypes -> SUBSET Systems]
      BY ListedType DEF Source
    <3>4. Promise!Change
      BY <2>2, <3>1, <3>2, <3>3 DEF Edit, Promise!Change
    <3> QED
      BY <3>4 DEF Promise!Next
  <2>3. ASSUME NEW w \in Threads, Request(w) PROVE Promise!Next
    <3>0. /\ pc' = [pc EXCEPT ![w] = "lookup"]
          /\ payload' = [payload EXCEPT ![w] = {}]
          /\ "lookup" \in PC /\ {} \in SUBSET Systems
      BY <2>3 DEF Request, PC
    <3>1. /\ Given' = [Given EXCEPT ![w] = {}]
          /\ Phase' = [Phase EXCEPT ![w] = "open"]
      BY <3>0, <2>t, OneThread
    <3>2. Phase[w] # "open" /\ UNCHANGED Source
      BY <2>3, <2>t DEF Request, AtRest, Phase, PhaseOf, Source, TypeOK
    <3>3. Promise!Ask(w)
      BY <2>3, <3>1, <3>2 DEF Request, Promise!Ask
    <3> QED
      BY <3>3 DEF Promise!Next
  <2>4. ASSUME NEW w \in Threads, RequestUnknown(w) PROVE Promise!Next
    <3>0. /\ pc' = [pc EXCEPT ![w] = "not_found"]
          /\ payload' = [payload EXCEPT ![w] = {}]
          /\ "not_found" \in PC /\ {} \in SUBSET Systems
      BY <2>4 DEF RequestUnknown, PC
    <3>1. /\ Given' = [Given EXCEPT ![w] = {}]
          /\ Phase' = [Phase EXCEPT ![w] = "failed"]
      BY <3>0, <2>t, OneThread
    <3>2. Phase[w] # "open" /\ UNCHANGED Source
      BY <2>4, <2>t DEF RequestUnknown, AtRest, Phase, PhaseOf, Source, TypeOK
    <3>3. Promise!Refuse(w)
      BY <2>4, <3>1, <3>2 DEF RequestUnknown, Promise!Refuse
    <3> QED
      BY <3>3 DEF Promise!Next
  <2>5. ASSUME NEW w \in Threads, pc[w] \in {"lookup", "store"},
               NEW q \in SUBSET Systems,
               pc' = [pc EXCEPT ![w] = "ok"],
               payload' = [payload EXCEPT ![w] = q],
               AnsweredWithinTTL',
               UNCHANGED <<clock, catalog, moments, sd_type, now>>
        PROVE  Promise!Next
    <3>1. /\ Given' = [Given EXCEPT ![w] = q]
          /\ Phase' = [Phase EXCEPT ![w] = "answered"]
      BY <2>5, <2>t, OneThread DEF PC
    <3>2. Phase[w] = "open" /\ UNCHANGED Source
      BY <2>5, <2>t DEF Phase, PhaseOf, Source, TypeOK
    <3>3. PICK m \in moments[sd_type[w]] : m[1] > now[w] - TTL /\ m[2] = q
      BY <2>5, <2>t DEF AnsweredWithinTTL, TypeOK
    <3>4. Promise!Answer(w)
      BY <2>5, <3>1, <3>2, <3>3 DEF Promise!Answer
    <3> QED
      BY <3>4 DEF Promise!Next
  <2>6. ASSUME NEW w \in Threads, Hit(w) PROVE Promise!Next
    <3>1. cache[sd_type[w]].payload \in SUBSET Systems
      BY <2>t DEF TypeOK
    <3>2. AnsweredWithinTTL'
      BY <2>6, StepKeepsIInv DEF Next, Step, IInv
    <3> QED
      BY <2>5, <2>6, <3>1, <3>2 DEF Hit
  <2>7. ASSUME NEW w \in Threads, Miss(w) \/ Fetch(w)
        PROVE  UNCHANGED Promise!vars
    <3>0. UNCHANGED Source
      BY <2>7 DEF Miss, Fetch, Source
    <3>1. UNCHANGED Phase
      <4>1. \A v \in Threads : v # w => pc'[v] = pc[v]
        BY <2>7, <2>t DEF Miss, Fetch, TypeOK
      <4>2. /\ pc[w] \in {"lookup", "fetch", "store"}
            /\ pc'[w] \in {"lookup", "fetch", "store"}
        BY <2>7, <2>t DEF Miss, Fetch, TypeOK
      <4>3. PhaseOf(pc'[w]) = PhaseOf(pc[w])
        BY <4>2 DEF PhaseOf
      <4> QED
        BY <4>1, <4>3 DEF Phase
    <3>2. UNCHANGED Given
      BY <2>7, <2>t DEF Miss, Fetch, Given, TypeOK
    <3> QED
      BY <2>7, <3>0, <3>1, <3>2 DEF Miss, Fetch, Promise!vars
  <2>8. ASSUME NEW w \in Threads, FetchFails(w) PROVE Promise!Next
    <3>1. Phase' = [Phase EXCEPT ![w] = "failed"] /\ UNCHANGED Given
      BY <2>8, <2>t DEF FetchFails, Phase, PhaseOf, Given, TypeOK, PC
    <3>2. Phase[w] = "open" /\ UNCHANGED Source
      BY <2>8, <2>t DEF FetchFails, Phase, PhaseOf, Source, TypeOK
    <3>3. Promise!Fail(w)
      BY <2>8, <3>1, <3>2 DEF FetchFails, Promise!Fail
    <3> QED
      BY <3>3 DEF Promise!Next
  <2>9. ASSUME NEW w \in Threads, Store(w) PROVE Promise!Next
    <3>1. payload[w] \in SUBSET Systems
          /\ payload' = [payload EXCEPT ![w] = payload[w]]
      BY <2>9, <2>t DEF Store, TypeOK
    <3>2. AnsweredWithinTTL'
      BY <2>9, StepKeepsIInv DEF Next, Step, IInv
    <3> QED
      BY <2>5, <2>9, <3>1, <3>2 DEF Store
  <2>10. CASE UNCHANGED vars
    BY <2>10 DEF vars, Promise!vars, Source, Phase, PhaseOf, Given
  <2> QED
    BY <2>1, <2>2, <2>3, <2>4, <2>6, <2>7, <2>8, <2>9, <2>10
    DEF Next, Step
<1> QED
  BY <1>1, <1>2, TypeCorrect, Invariance, PTL
  DEF Spec, ImplementsTtlReads, Promise!Spec
=============================================================================
