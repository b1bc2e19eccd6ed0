-------------------------- MODULE SmtpToGraphProofs --------------------------
(***************************************************************************)
(* For every finite set of messages: the types and counters of             *)
(* SmtpToGraph, that no reply claims a delivery that Graph has not         *)
(* accepted or been unclear about, and that the sidecar implements         *)
(* MailRelay.                                                              *)
(***************************************************************************)
EXTENDS SmtpToGraph, FiniteSetTheorems, TLAPS

USE DEF counters, graph

(***************************************************************************)
(* Types                                                                   *)
(***************************************************************************)

States == {"new", "waiting", "handled"} \cup Outcomes

(* What an answer assigns.                                                 *)
LEMMA AnswerType ==
  ASSUME TypeOK, NEW m \in Messages, NEW code \in Outcomes, Answer(m, code)
  PROVE  /\ state' \in [Messages -> States]
         /\ pc' = "idle" /\ reply' = "none"
         /\ answered' \subseteq Messages
BY DEF TypeOK, Answer, States

(* A call that fails is counted and answered.                              *)
LEMMA FailsType ==
  ASSUME TypeOK, NEW m \in Messages, Fails(m), UNCHANGED <<app, token>>
  PROVE  TypeOK'
<1>1. "550" \in Outcomes
  BY DEF Outcomes
<1>2. Answer(m, "550")
  BY DEF Fails
<1>3. /\ state' \in [Messages -> States]
      /\ pc' = "idle" /\ reply' = "none" /\ answered' \subseteq Messages
  BY <1>1, <1>2, AnswerType
<1> QED
  BY <1>3 DEF Fails, TypeOK, States

(* The failures of the three calls are all Fails.                          *)
LEMMA FailuresFail ==
  ASSUME NEW m \in Messages,
         \/ MakeAppFails(m) \/ FreshTokenFails(m)
         \/ PostFails(m) \/ Refused(m)
  PROVE  Handled(m) /\ Fails(m) /\ UNCHANGED <<app, token>>
BY DEF MakeAppFails, FreshTokenFails, PostFails, Refused

(* Every state of the sidecar has the shape TypeOK gives.                  *)
THEOREM TypeCorrect == Spec => []TypeOK
<1>1. Init => TypeOK
  <2> SUFFICES ASSUME Init PROVE TypeOK
    OBVIOUS
  <2>1. state \in [Messages -> States] /\ token \in BOOLEAN
    BY DEF Init, States
  <2> QED
    BY <2>1 DEF Init, TypeOK, States
<1>2. TypeOK /\ [Next]_vars => TypeOK'
  <2> SUFFICES ASSUME TypeOK, [Next]_vars PROVE TypeOK'
    OBVIOUS
  <2>1. ASSUME NEW m \in Messages, Submit(m) PROVE TypeOK'
    BY <2>1 DEF Submit, TypeOK
  <2>2. ASSUME NEW m \in Messages, Extract(m) PROVE TypeOK'
    <3>1. CASE Answer(m, "550")
      <4>1. "550" \in Outcomes
        BY DEF Outcomes
      <4>2. /\ state' \in [Messages -> States]
            /\ pc' = "idle" /\ reply' = "none" /\ answered' \subseteq Messages
        BY <3>1, <4>1, AnswerType
      <4> QED
        BY <2>2, <4>2 DEF Extract, TypeOK, States
    <3>2. CASE ~Answer(m, "550")
      BY <2>2, <3>2 DEF Extract, TypeOK
    <3> QED
      BY <3>1, <3>2
  <2>3. ASSUME NEW m \in Messages, CachedApp(m) \/ MakeApp(m) PROVE TypeOK'
    BY <2>3 DEF CachedApp, MakeApp, TypeOK
  <2>4. ASSUME NEW m \in Messages, CachedToken(m) \/ FreshToken(m)
        PROVE  TypeOK'
    <3>1. CASE CachedToken(m)
      BY <3>1 DEF CachedToken, TypeOK
    <3>2. CASE FreshToken(m)
      BY <3>2 DEF FreshToken, TypeOK
    <3> QED
      BY <2>4, <3>1, <3>2
  <2>5. ASSUME NEW m \in Messages, Post(m) PROVE TypeOK'
    BY <2>5 DEF Post, TypeOK
  <2>6. ASSUME NEW m \in Messages, Succeeds(m) PROVE TypeOK'
    <3>1. "250" \in Outcomes
      BY DEF Outcomes
    <3>2. /\ state' \in [Messages -> States]
          /\ pc' = "idle" /\ reply' = "none" /\ answered' \subseteq Messages
      BY <2>6, <3>1, AnswerType DEF Succeeds
    <3> QED
      BY <2>6, <3>2 DEF Succeeds, TypeOK, States
  <2>7. ASSUME NEW m \in Messages,
               \/ MakeAppFails(m) \/ FreshTokenFails(m)
               \/ PostFails(m) \/ Refused(m)
        PROVE  TypeOK'
    BY <2>7, FailuresFail, FailsType
  <2>8. ASSUME NEW m \in Messages, GraphAccepts(m) PROVE TypeOK'
    BY <2>8 DEF GraphAccepts, TypeOK
  <2>9. ASSUME NEW m \in Messages, GraphReplies(m) PROVE TypeOK'
    BY <2>9 DEF GraphReplies, TypeOK
  <2>10. CASE TokenExpires
    BY <2>10 DEF TokenExpires, TypeOK
  <2>11. CASE Restart
    <3>1. state' \in [Messages -> States]
      BY <2>11 DEF Restart, TypeOK, States, Outcomes
    <3> QED
      BY <2>11, <3>1 DEF Restart, TypeOK, States
  <2>12. CASE UNCHANGED vars
    BY <2>12 DEF vars, TypeOK
  <2> QED
    BY <2>1, <2>2, <2>3, <2>4, <2>5, <2>6, <2>7, <2>8, <2>9, <2>10, <2>11,
       <2>12
    DEF Next, Own, Msal, Graph
<1> QED
  BY <1>1, <1>2, PTL DEF Spec

(***************************************************************************)
(* Counters                                                                *)
(*                                                                         *)
(* Accounting compares counters with the sizes of sets.  It needs that a   *)
(* message in the hands of send() is in neither set, and is one that can   *)
(* be read; and that whoever posts has a token that was fetched.           *)
(***************************************************************************)
Sent == {m \in answered : state[m] = "250"}
Failed == {m \in answered \ Unreadable : state[m] = "550"}

AtMostOne ==
  /\ \A m, n \in Messages : Handled(m) /\ Handled(n) => m = n
  /\ pc = "idle" <=> \A m \in Messages : ~Handled(m)
  /\ \A m \in Messages : Handled(m) => m \notin Unreadable

Refreshed ==
  token \/ pc \in {"post", "reply"} \/ success > 0 => refreshes > 0

Counted == success = Cardinality(Sent) /\ failure = Cardinality(Failed)

Books == TypeOK /\ AtMostOne /\ PostedOnce /\ Refreshed /\ Counted

(* What is counted is finite.                                              *)
LEMMA CountedFinite ==
  ASSUME TypeOK PROVE IsFiniteSet(Sent) /\ IsFiniteSet(Failed)
<1>1. Sent \subseteq Messages /\ Failed \subseteq Messages
  BY DEF TypeOK, Sent, Failed
<1> QED
  BY <1>1, FS_Subset, SmtpToGraphAssumption DEF SmtpToGraphAssumption

(* OneAtATime in the words of cardinality.                                 *)
LEMMA OneIsOne == ASSUME AtMostOne PROVE OneAtATime
<1>1. CASE pc = "idle"
  <2>1. {m \in Messages : Handled(m)} = {}
    BY <1>1 DEF AtMostOne
  <2> QED
    BY <1>1, <2>1, FS_EmptySet DEF OneAtATime
<1>2. CASE pc # "idle"
  <2>1. PICK m \in Messages : Handled(m)
    BY <1>2 DEF AtMostOne
  <2>2. {n \in Messages : Handled(n)} = {m}
    BY <2>1 DEF AtMostOne
  <2> QED
    BY <1>2, <2>2, FS_Singleton DEF OneAtATime
<1> QED
  BY <1>1, <1>2

(* An answer to the message that is handled ends the handling and enters   *)
(* the message in the set of its reply.                                    *)
LEMMA AnswerCounts ==
  ASSUME TypeOK, AtMostOne, NEW m \in Messages, NEW code \in {"250", "550"},
         Handled(m), Answer(m, code)
  PROVE  /\ AtMostOne'
         /\ m \notin Sent /\ m \notin Failed
         /\ code = "250" => Sent' = Sent \cup {m} /\ Failed' = Failed
         /\ code = "550" => Sent' = Sent /\ Failed' = Failed \cup {m}
<1>1. /\ state' \in [Messages -> States] /\ state'[m] = code
      /\ \A n \in Messages \ {m} : state'[n] = state[n]
  BY DEF TypeOK, Answer, States, Outcomes
<1>2. AtMostOne'
  BY <1>1 DEF AtMostOne, Handled, Answer
<1>3. m \notin Sent /\ m \notin Failed
  BY DEF Sent, Failed, Handled
<1>4. m \notin Unreadable
  BY DEF AtMostOne
<1>5. answered' = answered \cup {m} /\ answered \subseteq Messages
  BY DEF Answer, TypeOK
<1> QED
  BY <1>1, <1>2, <1>3, <1>4, <1>5 DEF Sent, Failed

(* A call that fails is counted once.                                      *)
LEMMA FailsCounts ==
  ASSUME Books, NEW m \in Messages, Handled(m), Fails(m)
  PROVE  AtMostOne' /\ Counted' /\ success' = success /\ pc' = "idle"
<1>1. Answer(m, "550") /\ failure' = failure + 1 /\ success' = success
  BY DEF Fails
<1>2. /\ AtMostOne' /\ m \notin Failed
      /\ Sent' = Sent /\ Failed' = Failed \cup {m}
  BY <1>1, AnswerCounts DEF Books
<1>3. Cardinality(Failed') = Cardinality(Failed) + 1
  BY <1>2, CountedFinite, FS_AddElement DEF Books
<1>4. pc' = "idle"
  BY <1>1 DEF Answer
<1> QED
  BY <1>1, <1>2, <1>3, <1>4 DEF Books, Counted

(* Steps that change neither a reply nor a counter of replies.             *)
LEMMA NothingCounted ==
  ASSUME Counted, UNCHANGED <<success, failure>>,
         Sent' = Sent, Failed' = Failed
  PROVE  Counted'
BY DEF Counted

(* An answer ends what the POST under way left.                            *)
LEMMA AnswerPosted ==
  ASSUME TypeOK, PostedOnce, AtMostOne', NEW m \in Messages,
         NEW code \in {"250", "550"}, Answer(m, code), UNCHANGED graph
  PROVE  PostedOnce'
<1>1. /\ \A n \in Messages \ {m} : state'[n] = state[n]
      /\ state'[m] = code /\ pc' = "idle" /\ reply' = "none"
  BY DEF TypeOK, Answer
<1>2. \A n \in Messages : ~Handled(n)'
  BY <1>1 DEF AtMostOne
<1> QED
  BY <1>1, <1>2 DEF PostedOnce, TypeOK

LEMMA BooksInductive == ASSUME Books, [Next]_vars, TypeOK' PROVE Books'
<1> USE DEF Books
<1>1. ASSUME NEW m \in Messages, Submit(m) PROVE Books'
  <2>1. /\ state' = [state EXCEPT ![m] = "waiting"] /\ state[m] = "new"
        /\ UNCHANGED <<pc, token, reply, counters, graph, answered>>
    BY <1>1 DEF Submit
  <2>2. Sent' = Sent /\ Failed' = Failed
    BY <2>1 DEF TypeOK, Sent, Failed
  <2>3. AtMostOne'
    BY <2>1 DEF TypeOK, AtMostOne, Handled
  <2>4. PostedOnce'
    BY <2>1 DEF TypeOK, PostedOnce, Handled
  <2> QED
    BY <2>1, <2>2, <2>3, <2>4, NothingCounted DEF Refreshed
<1>2. ASSUME NEW m \in Messages, Extract(m) PROVE Books'
  <2>1. /\ state[m] = "waiting" /\ pc = "idle"
        /\ UNCHANGED <<token, counters, graph>>
    BY <1>2 DEF Extract
  <2>2. CASE m \in Unreadable
    <3>1. Answer(m, "550")
      BY <1>2, <2>2 DEF Extract
    <3>2. /\ state' = [state EXCEPT ![m] = "550"] /\ pc' = "idle"
          /\ answered' = answered \cup {m}
      BY <3>1 DEF Answer
    <3>3. Sent' = Sent /\ Failed' = Failed
      BY <2>1, <2>2, <3>2 DEF TypeOK, Sent, Failed
    <3>4. AtMostOne'
      BY <2>1, <3>2 DEF TypeOK, AtMostOne, Handled
    <3>5. PostedOnce'
      BY <2>1, <3>1, <3>4, AnswerPosted
    <3> QED
      BY <2>1, <3>2, <3>3, <3>4, <3>5, NothingCounted DEF Refreshed
  <2>3. CASE m \notin Unreadable
    <3>1. /\ state' = [state EXCEPT ![m] = "handled"] /\ pc' = "app"
          /\ UNCHANGED <<reply, answered>>
      BY <1>2, <2>3 DEF Extract
    <3>2. Sent' = Sent /\ Failed' = Failed
      BY <2>1, <3>1 DEF TypeOK, Sent, Failed
    <3>3. AtMostOne'
      BY <2>1, <2>3, <3>1 DEF TypeOK, AtMostOne, Handled
    <3>4. PostedOnce'
      BY <2>1, <3>1 DEF TypeOK, PostedOnce, AtMostOne, Handled
    <3> QED
      BY <2>1, <3>1, <3>2, <3>3, <3>4, NothingCounted DEF Refreshed
  <2> QED
    BY <2>2, <2>3
<1>3. ASSUME NEW m \in Messages,
             CachedApp(m) \/ MakeApp(m) \/ CachedToken(m) \/ FreshToken(m)
      PROVE  Books'
  <2>1. /\ pc \in {"app", "token"} /\ pc' \in {"token", "post"}
        /\ UNCHANGED <<state, reply, success, failure, graph, answered>>
    BY <1>3 DEF CachedApp, MakeApp, CachedToken, FreshToken
  <2>2. Sent' = Sent /\ Failed' = Failed
    BY <2>1 DEF Sent, Failed
  <2>3. AtMostOne'
    BY <2>1 DEF AtMostOne, Handled
  <2>4. PostedOnce'
    BY <2>1 DEF PostedOnce, Handled, TypeOK
  <2>5. Refreshed'
    BY <1>3 DEF TypeOK, Refreshed, CachedApp, MakeApp, CachedToken, FreshToken
  <2> QED
    BY <2>1, <2>2, <2>3, <2>4, <2>5, NothingCounted
<1>4. ASSUME NEW m \in Messages, Post(m) PROVE Books'
  <2>1. /\ Handled(m) /\ pc = "post" /\ pc' = "reply"
        /\ posted' = posted \cup {m}
        /\ UNCHANGED <<state, token, reply, counters, accepted, unclear,
                       answered>>
    BY <1>4 DEF Post
  <2>2. Sent' = Sent /\ Failed' = Failed
    BY <2>1 DEF Sent, Failed
  <2>3. AtMostOne'
    BY <2>1 DEF AtMostOne, Handled
  <2>4. PostedOnce'
    BY <2>1 DEF PostedOnce, AtMostOne, Handled, TypeOK
  <2> QED
    BY <2>1, <2>2, <2>3, <2>4, NothingCounted DEF Refreshed
<1>5. ASSUME NEW m \in Messages, Succeeds(m) PROVE Books'
  <2>1. /\ Handled(m) /\ Answer(m, "250") /\ success' = success + 1
        /\ pc = "reply" /\ pc' = "idle"
        /\ UNCHANGED <<token, failure, refreshes, graph>>
    BY <1>5 DEF Succeeds, Answer, PostedOnce
  <2>2. /\ AtMostOne' /\ m \notin Sent
        /\ Sent' = Sent \cup {m} /\ Failed' = Failed
    BY <2>1, AnswerCounts
  <2>3. Cardinality(Sent') = Cardinality(Sent) + 1
    BY <2>2, CountedFinite, FS_AddElement
  <2>4. Counted'
    BY <2>1, <2>2, <2>3 DEF Counted
  <2>5. PostedOnce'
    BY <2>1, <2>2, AnswerPosted
  <2> QED
    BY <2>1, <2>2, <2>4, <2>5 DEF Refreshed
<1>6. ASSUME NEW m \in Messages,
             \/ MakeAppFails(m) \/ FreshTokenFails(m)
             \/ PostFails(m) \/ Refused(m)
      PROVE  Books'
  <2>1. Handled(m) /\ Fails(m) /\ UNCHANGED <<token, refreshes, graph>>
    BY <1>6, FailuresFail DEF Fails
  <2>2. AtMostOne' /\ Counted' /\ success' = success /\ pc' = "idle"
    BY <2>1, FailsCounts
  <2>3. PostedOnce'
    BY <2>1, <2>2, AnswerPosted DEF Fails
  <2> QED
    BY <2>1, <2>2, <2>3 DEF Refreshed
<1>7. ASSUME NEW m \in Messages, Graph(m) PROVE Books'
  <2>1. UNCHANGED <<state, pc, token, counters, posted, answered>>
    BY <1>7 DEF Graph, GraphAccepts, GraphReplies
  <2>2. AtMostOne' /\ Counted' /\ Refreshed'
    BY <2>1 DEF AtMostOne, Handled, Counted, Sent, Failed, Refreshed
  <2>3. PostedOnce'
    <3>1. CASE GraphAccepts(m)
      BY <2>1, <3>1 DEF GraphAccepts, PostedOnce, Handled
    <3>2. CASE GraphReplies(m)
      <4>1. m \in posted /\ \A n \in Messages : Handled(n) => n = m
        BY <3>2 DEF GraphReplies, PostedOnce, AtMostOne
      <4> QED
        BY <2>1, <3>2, <4>1 DEF GraphReplies, PostedOnce, Handled
    <3> QED
      BY <1>7, <3>1, <3>2 DEF Graph
  <2> QED
    BY <2>2, <2>3
<1>8. CASE TokenExpires
  <2>1. /\ token
        /\ UNCHANGED <<state, pc, reply, counters, graph, answered>>
    BY <1>8 DEF TokenExpires
  <2> QED
    BY <2>1 DEF AtMostOne, PostedOnce, Handled, Refreshed, Counted, Sent, Failed
<1>9. CASE Restart
  <2>1. /\ \A m \in Messages : /\ state'[m] # "handled"
                               /\ state'[m] # "waiting"
                               /\ state'[m] = "new" => state[m] = "new"
        /\ pc' = "idle" /\ reply' = "none"
        /\ token' = FALSE /\ answered' = {}
        /\ success' = 0 /\ failure' = 0 /\ UNCHANGED graph
    BY <1>9 DEF Restart
  <2>2. AtMostOne'
    BY <2>1 DEF AtMostOne, Handled
  <2>3. PostedOnce'
    BY <2>1 DEF PostedOnce, Handled, TypeOK
  <2>4. Sent' = {} /\ Failed' = {}
    BY <2>1 DEF Sent, Failed
  <2> QED
    BY <2>1, <2>2, <2>3, <2>4, FS_EmptySet DEF Refreshed, Counted
<1>10. CASE UNCHANGED vars
  BY <1>10 DEF vars, AtMostOne, PostedOnce, Handled, Refreshed, Counted, Sent,
               Failed
<1> QED
  BY <1>1, <1>2, <1>3, <1>4, <1>5, <1>6, <1>7, <1>8, <1>9, <1>10
  DEF Next, Own, Msal

LEMMA BooksHold == Spec => []Books
<1>1. Init /\ TypeOK => Books
  <2> SUFFICES ASSUME Init, TypeOK PROVE Books
    OBVIOUS
  <2>1. AtMostOne /\ PostedOnce
    BY DEF Init, AtMostOne, PostedOnce, Handled
  <2>2. Sent = {} /\ Failed = {}
    BY DEF Init, Sent, Failed
  <2> QED
    BY <2>1, <2>2, FS_EmptySet DEF Init, Books, Refreshed, Counted
<1>2. Books /\ [Next]_vars /\ TypeOK' => Books'
  BY BooksInductive
<1> QED
  BY <1>1, <1>2, TypeCorrect, PTL DEF Spec

(* The exported counters agree with the replies, one message is handled at *)
(* a time, a reply is looked at by the call it is for, and the states have *)
(* the types.                                                              *)
THEOREM Invariance == Spec => []IInv
<1>1. Books => IInv
  BY OneIsOne DEF Books, IInv, Accounting, Counted, Sent, Failed, Refreshed
<1> QED
  BY <1>1, BooksHold, PTL

(***************************************************************************)
(* Replies                                                                 *)
(***************************************************************************)

(* A state becomes "250" only for a reply that belongs to the message and  *)
(* says 202, for which Graph has accepted it, or another 2xx; and neither  *)
(* is ever taken back, whatever fails or is restarted.                     *)
THEOREM NoFalseSuccessHolds == Spec => []NoFalseSuccess
<1>1. Init => NoFalseSuccess
  BY DEF Init, NoFalseSuccess
<1>2. Books /\ NoFalseSuccess /\ [Next]_vars => NoFalseSuccess'
  <2> SUFFICES ASSUME Books, NoFalseSuccess, [Next]_vars
               PROVE  NoFalseSuccess'
    OBVIOUS
  <2>a. accepted \subseteq accepted' /\ unclear \subseteq unclear'
    BY DEF Next, Own, Msal, Graph, Submit, Extract, Fails, CachedApp, MakeApp,
           MakeAppFails, CachedToken, FreshToken, FreshTokenFails, Post,
           PostFails, Refused, Succeeds, GraphAccepts, GraphReplies,
           TokenExpires, Restart, vars
  <2>b. ASSUME NEW n \in Messages, state'[n] = "250", state[n] # "250"
        PROVE  n \in accepted \cup unclear
    <3>1. PICK m \in Messages : Succeeds(m)
      BY <2>b DEF Books, TypeOK, Next, Own, Msal, Graph, Submit, Extract, Fails,
             Answer, CachedApp, MakeApp, MakeAppFails, CachedToken, FreshToken,
             FreshTokenFails, Post, PostFails, Refused, GraphAccepts,
             GraphReplies, TokenExpires, Restart, vars
    <3>2. n = m
      BY <2>b, <3>1 DEF Books, TypeOK, Succeeds, Answer
    <3> QED
      BY <3>1, <3>2 DEF Books, PostedOnce, Succeeds
  <2> QED
    BY <2>a, <2>b DEF NoFalseSuccess
<1> QED
  BY <1>1, <1>2, BooksHold, PTL DEF Spec

(***************************************************************************)
(* The promise                                                             *)
(***************************************************************************)

(* What the senders know, as ImplementsMailRelay has it.                   *)
Told == [m \in Messages |->
           CASE state[m] = "new" -> "unsent"
             [] state[m] \in {"waiting", "handled"} -> "sent"
             [] OTHER -> state[m]]

LEMMA ToldIs ==
  \A m \in Messages :
    /\ state[m] = "new" => Told[m] = "unsent"
    /\ state[m] \in {"waiting", "handled"} => Told[m] = "sent"
    /\ state[m] \in Outcomes => Told[m] = state[m]
BY DEF Told, Outcomes

(* A step that changes the state of one message changes what its sender    *)
(* knows, and nothing else.                                                *)
LEMMA OneSender ==
  ASSUME TypeOK, NEW m \in Messages, NEW s \in States,
         state' = [state EXCEPT ![m] = s]
  PROVE  /\ s = "waiting" => Told' = [Told EXCEPT ![m] = "sent"]
         /\ s = "handled" => Told' = [Told EXCEPT ![m] = "sent"]
         /\ s \in Outcomes => Told' = [Told EXCEPT ![m] = s]
<1>1. /\ state'[m] = s
      /\ \A n \in Messages \ {m} : state'[n] = state[n]
  BY DEF TypeOK
<1> QED
  BY <1>1 DEF Told, Outcomes

(* A refusal changes what the sender knows, and nothing else.              *)
LEMMA RefusalIsTold ==
  ASSUME TypeOK, NEW m \in Messages, state[m] \in {"waiting", "handled"},
         Answer(m, "550"), UNCHANGED graph
  PROVE  Promise!Refuse(m)
<1>1. "550" \in States \cap Outcomes
  BY DEF States, Outcomes
<1>2. Told' = [Told EXCEPT ![m] = "550"] /\ Told[m] = "sent"
  BY <1>1, OneSender, ToldIs DEF Answer
<1> QED
  BY <1>2 DEF Promise!Refuse, Promise!Open, Told

(***************************************************************************)
(* The sidecar implements MailRelay: a submission by Grafana is a Send, a  *)
(* POST a Hand, an answer a Relay or a Refuse, a restart a BreakOff, what  *)
(* Graph does a Deliver or a Doubt, and everything else a stutter.  That a *)
(* POST is a Hand needs that one message is handled at a time, and that    *)
(* none that waits was posted before.                                      *)
(***************************************************************************)
THEOREM Refinement == Spec => ImplementsMailRelay
<1>1. Init => Promise!Init
  BY DEF Init, Promise!Init
<1>2. Books /\ [Next]_vars => [Promise!Next]_Promise!vars
  <2> SUFFICES ASSUME Books, [Next]_vars
               PROVE  [Promise!Next]_Promise!vars
    OBVIOUS
  <2>t. TypeOK
    BY DEF Books
  <2>h. \A m \in Messages : Handled(m) => Told[m] = "sent"
    BY ToldIs DEF Handled
  <2>s. ASSUME UNCHANGED <<state, graph>> PROVE UNCHANGED Promise!vars
    BY <2>s DEF Promise!vars
  <2>1. ASSUME NEW m \in Messages, Submit(m) PROVE Promise!Next
    <3>1. /\ state' = [state EXCEPT ![m] = "waiting"] /\ state[m] = "new"
          /\ UNCHANGED graph
      BY <2>1 DEF Submit
    <3>2. "waiting" \in States
      BY DEF States
    <3>3. Told' = [Told EXCEPT ![m] = "sent"] /\ Told[m] = "unsent"
      BY <2>t, <3>1, <3>2, OneSender, ToldIs
    <3>4. Promise!Send(m)
      BY <3>1, <3>3 DEF Promise!Send, Told
    <3> QED
      BY <3>4 DEF Promise!Next
  <2>2. ASSUME NEW m \in Messages, Extract(m) PROVE [Promise!Next]_Promise!vars
    <3>1. state[m] = "waiting" /\ UNCHANGED graph
      BY <2>2 DEF Extract
    <3>2. CASE Answer(m, "550")
      <4>1. Promise!Refuse(m)
        BY <2>t, <3>1, <3>2, RefusalIsTold
      <4> QED
        BY <4>1 DEF Promise!Next
    <3>3. CASE ~Answer(m, "550")
      <4>1. state' = [state EXCEPT ![m] = "handled"]
        BY <2>2, <3>3 DEF Extract
      <4>2. "handled" \in States
        BY DEF States
      <4>3. Told' = [Told EXCEPT ![m] = "sent"] /\ Told[m] = "sent"
        BY <2>t, <3>1, <4>1, <4>2, OneSender, ToldIs
      <4>4. Told' = Told
        BY <4>3 DEF Told
      <4> QED
        BY <3>1, <4>4 DEF Promise!vars, Told
    <3> QED
      BY <3>2, <3>3
  <2>3. ASSUME NEW m \in Messages,
               CachedApp(m) \/ MakeApp(m) \/ CachedToken(m) \/ FreshToken(m)
        PROVE  UNCHANGED Promise!vars
    BY <2>3, <2>s DEF CachedApp, MakeApp, CachedToken, FreshToken
  <2>4. ASSUME NEW m \in Messages, Post(m) PROVE Promise!Next
    <3>1. /\ Handled(m) /\ pc = "post"
          /\ posted' = posted \cup {m}
          /\ UNCHANGED <<state, accepted, unclear>>
      BY <2>4 DEF Post
    <3>2. \A n \in posted : Told[n] # "sent"
      <4>1. \A n \in posted : state[n] \in Outcomes
        BY <3>1 DEF Books, PostedOnce, TypeOK, Handled
      <4> QED
        BY <2>t, <4>1, ToldIs DEF TypeOK, Outcomes
    <3>3. Promise!Hand(m)
      BY <2>h, <3>1, <3>2 DEF Promise!Hand, Promise!Open, Told
    <3> QED
      BY <3>3 DEF Promise!Next
  <2>5. ASSUME NEW m \in Messages, Succeeds(m) PROVE Promise!Next
    <3>1. Handled(m) /\ Answer(m, "250") /\ UNCHANGED graph
      BY <2>5 DEF Succeeds
    <3>2. m \in accepted \cup unclear
      BY <2>5 DEF Succeeds, Books, PostedOnce
    <3>3. "250" \in States \cap Outcomes
      BY DEF States, Outcomes
    <3>4. Told' = [Told EXCEPT ![m] = "250"]
      BY <2>t, <3>1, <3>3, OneSender DEF Answer
    <3>5. Promise!Relay(m)
      BY <2>h, <3>1, <3>2, <3>4 DEF Promise!Relay, Promise!Open, Told
    <3> QED
      BY <3>5 DEF Promise!Next
  <2>6. ASSUME NEW m \in Messages,
               \/ MakeAppFails(m) \/ FreshTokenFails(m)
               \/ PostFails(m) \/ Refused(m)
        PROVE  Promise!Next
    <3>1. Handled(m) /\ Answer(m, "550") /\ UNCHANGED graph
      BY <2>6, FailuresFail DEF Fails
    <3>2. Promise!Refuse(m)
      BY <2>t, <3>1, RefusalIsTold DEF Handled
    <3> QED
      BY <3>2 DEF Promise!Next
  <2>7. ASSUME NEW m \in Messages, GraphAccepts(m) PROVE Promise!Next
    <3>1. Promise!Deliver(m)
      BY <2>7 DEF GraphAccepts, Promise!Deliver
    <3> QED
      BY <3>1 DEF Promise!Next
  <2>8. ASSUME NEW m \in Messages, GraphReplies(m)
        PROVE  [Promise!Next]_Promise!vars
    <3>1. Handled(m) /\ m \in posted /\ UNCHANGED <<state, posted, accepted>>
      BY <2>8 DEF GraphReplies, Books, PostedOnce
    <3>2. CASE unclear' = unclear \cup {m}
      <4>1. Promise!Doubt(m)
        BY <2>h, <3>1, <3>2 DEF Promise!Doubt, Promise!Open, Told
      <4> QED
        BY <4>1 DEF Promise!Next
    <3>3. CASE unclear' = unclear
      BY <2>s, <3>1, <3>3
    <3> QED
      BY <2>8, <3>2, <3>3 DEF GraphReplies
  <2>9. CASE TokenExpires
    BY <2>9, <2>s DEF TokenExpires
  <2>10. CASE Restart
    <3>1. \A m \in Messages :
            state'[m] = IF state[m] \in {"waiting", "handled"}
                        THEN "broken off" ELSE state[m]
      BY <2>10 DEF Restart
    <3>2. \A m \in Messages :
            Told'[m] = IF Told[m] = "sent" THEN "broken off" ELSE Told[m]
      BY <2>t, <3>1 DEF Told, TypeOK, Outcomes
    <3>3. Told' = [m \in Messages |->
                     IF Told[m] = "sent" THEN "broken off" ELSE Told[m]]
      BY <3>2 DEF Told
    <3>4. UNCHANGED graph
      BY <2>10 DEF Restart
    <3>5. Promise!BreakOff
      BY <3>3, <3>4 DEF Promise!BreakOff, Promise!Open, Told
    <3> QED
      BY <3>5 DEF Promise!Next
  <2>11. CASE UNCHANGED vars
    BY <2>11, <2>s DEF vars
  <2> QED
    BY <2>1, <2>2, <2>3, <2>4, <2>5, <2>6, <2>7, <2>8, <2>9, <2>10, <2>11
    DEF Next, Own, Msal, Graph
<1> QED
  BY <1>1, <1>2, BooksHold, PTL
  DEF Spec, ImplementsMailRelay, Promise!Spec
=============================================================================
