---------------------------- MODULE NetlinkProofs ----------------------------
(***************************************************************************)
(* The safety of NetlinkTaskstats, and that it implements TaskQuery, for   *)
(* every set of ids and any number of sockets.                             *)
(*                                                                         *)
(* The argument: a socket that no query is using has nothing under way;    *)
(* the one in use has at most one message, which is the request of this    *)
(* query or the reply to it.  Every way out of a query but an exception    *)
(* takes the reply off the socket.                                         *)
(***************************************************************************)
EXTENDS NetlinkTaskstats, TLAPS

Quiet(a) == sent[a] = <<>> /\ inbox[a] = <<>>

\* The exchange that began with this request is where the kernel left it.
Exchange(request, kinds) ==
  \/ sent[api] = <<request>> /\ inbox[api] = <<>>
  \/ sent[api] = <<>> /\ inbox[api] = <<>>
  \/ /\ sent[api] = <<>>
     /\ \E k \in kinds : inbox[api] = <<[kind |-> k, id |-> request.id]>>

FamilyRequest == [cmd |-> "getfamily", id |-> NoId]
TaskRequest == [cmd |-> "get", id |-> tid]

IInv ==
  /\ TypeOK
  /\ \A a \in Apis : a # api => Quiet(a)
  /\ pc \in {"idle", "create", "flags", "send_family", "send"} => Quiet(api)
  /\ pc = "recv_family" => Exchange(FamilyRequest, {"family", "error"})
  /\ pc = "recv" => Exchange(TaskRequest, {"stats", "error"})
  /\ AnswerIsForTheQuery

-----------------------------------------------------------------------------
\* A sequence of one message: what the socket operations make of it.
LEMMA OneMessage ==
  ASSUME NEW S, NEW m \in S
  PROVE  /\ Append(<<>>, m) = <<m>>
         /\ Head(<<m>>) = m /\ Tail(<<m>>) = <<>> /\ <<m>> # <<>>
         /\ <<m>> \in Seq(S) /\ <<>> \in Seq(S)
OBVIOUS

\* Adding to and taking from a sequence keeps its type.
LEMMA SeqTypes ==
  ASSUME NEW S, NEW s \in Seq(S)
  PROVE  /\ \A m \in S : Append(s, m) \in Seq(S)
         /\ s # <<>> => Head(s) \in S /\ Tail(s) \in Seq(S)
OBVIOUS

\* No query has been made: everything is quiet.
LEMMA InitIInv == Init => IInv
<1> SUFFICES ASSUME Init PROVE IInv
  OBVIOUS
<1>1. TypeOK
  BY NetlinkAssumption DEF Init, TypeOK, Control, SockState
<1>2. \A a \in Apis : Quiet(a)
  BY DEF Init, Quiet
<1> QED
  BY <1>1, <1>2 DEF Init, IInv, AnswerIsForTheQuery, TypeOK

\* A step of the query under way, or of the kernel, keeps the types.
LEMMA NextTypeOK == IInv /\ [Next]_vars => TypeOK'
<1> SUFFICES ASSUME IInv, [Next]_vars PROVE TypeOK'
  OBVIOUS
<1> USE DEF IInv, TypeOK
<1>1. ASSUME NEW a \in Apis, NEW t \in Ids, Call(a, t) PROVE TypeOK'
  BY <1>1, NetlinkAssumption DEF Call, Goto, Control, kernelVars
<1>2. CASE CreateSocket
  BY <1>2 DEF CreateSocket, SetSock, Goto, Throw, InCall, Control, SockState, kernelVars
<1>3. CASE SetFlags
  BY <1>3 DEF SetFlags, SetSock, Goto, Throw, InCall, Control, SockState, kernelVars
<1>4. ASSUME NEW request \in Request, NEW l \in Control, SendCmd(request, l), InCall
      PROVE  TypeOK'
  <2>1. CASE Throw
    BY <1>4, <2>1 DEF Throw, Goto, InCall, Control, kernelVars
  <2>2. CASE ~Throw
    <3>1. sent' = [sent EXCEPT ![api] = Append(sent[api], request)]
      BY <1>4, <2>2 DEF SendCmd
    <3>2. sent' \in [Apis -> Seq(Request)]
      BY <3>1, SeqTypes
    <3> QED
      BY <1>4, <2>2, <3>2 DEF SendCmd, Goto, InCall, kernelVars
  <2> QED
    BY <2>1, <2>2
<1>5. CASE SendFamily
  BY <1>4, <1>5 DEF SendFamily, Request, Control
<1>6. CASE Send
  BY <1>4, <1>6 DEF Send, Request, Control
<1>7. ASSUME Receive PROVE inbox' \in [Apis -> Seq(Reply)] /\ Head(inbox[api]) \in Reply
  BY <1>7, SeqTypes DEF Receive
<1>8. CASE RecvFamily
  <2>1. CASE Receive
    BY <1>7, <1>8, <2>1 DEF RecvFamily, Receive, NothingToReceive, SetSock, Goto,
      InCall, Control, SockState, kernelVars
  <2>2. CASE NothingToReceive
    BY <1>8, <2>2 DEF NothingToReceive, Throw, RecvFamily, Goto, InCall, Control, kernelVars
  <2> QED
    BY <1>8, <2>1, <2>2 DEF RecvFamily
<1>9. CASE Recv
  <2>1. CASE Receive
    <3>1. \E k \in {"stats", "error"} : inbox[api] = <<[kind |-> k, id |-> tid]>>
      BY <1>9, <2>1 DEF Recv, Receive, Exchange, TaskRequest
    <3>2. Head(inbox[api]).kind \in {"stats", "error"} /\ Head(inbox[api]).id = tid
      BY <3>1, OneMessage
    <3> QED
      BY <1>7, <1>9, <2>1, <3>2 DEF Recv, Receive, NothingToReceive, Goto,
        InCall, Control, kernelVars
  <2>2. CASE NothingToReceive
    BY <1>9, <2>2 DEF NothingToReceive, Throw, Recv, Goto, InCall, Control, kernelVars
  <2> QED
    BY <1>9, <2>1, <2>2 DEF Recv
<1>10. ASSUME NEW a \in Apis, Answer(a) PROVE TypeOK'
  <2>1. Head(sent[a]) \in Request /\ Tail(sent[a]) \in Seq(Request)
    BY <1>10, SeqTypes DEF Answer
  <2>2. Replies(Head(sent[a])) \subseteq Reply
    BY <2>1 DEF Replies, Request, Reply
  <2>3. inbox' \in [Apis -> Seq(Reply)] /\ sent' \in [Apis -> Seq(Request)]
    BY <1>10, <2>1, <2>2, SeqTypes DEF Answer
  <2> QED
    BY <1>10, <2>3 DEF Answer, kernelVars
<1>11. ASSUME NEW a \in Apis, Lose(a) PROVE TypeOK'
  BY <1>11, SeqTypes DEF Lose, kernelVars
<1>12. CASE Churn
  BY <1>12, NetlinkAssumption DEF Churn
<1>13. CASE UNCHANGED vars
  BY <1>13 DEF vars
<1> QED
  BY <1>1, <1>2, <1>3, <1>5, <1>6, <1>8, <1>9, <1>10, <1>11, <1>12, <1>13
     DEF Next, Query, Terminated

\* Every step keeps the invariant.
LEMMA NextIInv == IInv /\ [Next]_vars => IInv'
<1> SUFFICES ASSUME IInv, [Next]_vars PROVE IInv'
  OBVIOUS
<1>0. TypeOK /\ TypeOK'
  BY NextTypeOK DEF IInv
<1> USE DEF IInv, Quiet, AnswerIsForTheQuery
<1>1. ASSUME NEW a \in Apis, NEW t \in Ids, Call(a, t) PROVE IInv'
  BY <1>0, <1>1 DEF Call, Goto
<1>2. CASE CreateSocket
  BY <1>0, <1>2 DEF CreateSocket, SetSock, Goto, Throw, InCall
<1>3. CASE SetFlags
  BY <1>0, <1>3 DEF SetFlags, SetSock, Goto, Throw, InCall
<1>4. ASSUME NEW request \in Request, NEW l, SendCmd(request, l), InCall, Quiet(api)
      PROVE  /\ \A a \in Apis : a # api' => Quiet(a)'
             /\ api' = api /\ tid' = tid /\ result' = result
             /\ \/ pc' = "aborted"
                \/ pc' = l /\ sent'[api] = <<request>> /\ inbox'[api] = <<>>
  BY <1>0, <1>4, OneMessage DEF SendCmd, Throw, Goto, InCall, TypeOK
<1>5. CASE SendFamily
  <2>1. FamilyRequest \in Request
    BY DEF FamilyRequest, Request
  <2>2. SendCmd(FamilyRequest, "recv_family") /\ InCall /\ Quiet(api)
    BY <1>5 DEF SendFamily, FamilyRequest
  <2> QED
    BY <1>0, <1>4, <2>1, <2>2 DEF Exchange
<1>6. CASE Send
  <2>1. TaskRequest \in Request
    BY <1>0 DEF TaskRequest, Request, TypeOK
  <2>2. SendCmd(TaskRequest, "recv") /\ InCall /\ Quiet(api)
    BY <1>6 DEF Send, TaskRequest
  <2> QED
    BY <1>0, <1>4, <2>1, <2>2 DEF Exchange, TaskRequest
<1>7. CASE RecvFamily
  <2>1. CASE Receive
    <3>1. sent[api] = <<>> /\ \E k \in {"family", "error"} :
            inbox[api] = <<[kind |-> k, id |-> NoId]>>
      BY <1>7, <2>1 DEF RecvFamily, Receive, Exchange, FamilyRequest
    <3>2. inbox'[api] = <<>>
      BY <1>0, <2>1, <3>1, OneMessage DEF Receive, TypeOK
    <3> QED
      BY <1>0, <1>7, <2>1, <3>1, <3>2
         DEF RecvFamily, Receive, NothingToReceive, Throw, Goto, InCall, SetSock, TypeOK
  <2>2. CASE NothingToReceive
    BY <1>0, <1>7, <2>2 DEF RecvFamily, NothingToReceive, Throw, Goto, InCall
  <2> QED
    BY <1>7, <2>1, <2>2 DEF RecvFamily
<1>8. CASE Recv
  <2>1. CASE Receive
    <3>1. sent[api] = <<>> /\ \E k \in {"stats", "error"} :
            inbox[api] = <<[kind |-> k, id |-> tid]>>
      BY <1>8, <2>1 DEF Recv, Receive, Exchange, TaskRequest
    <3>2. inbox'[api] = <<>> /\ Head(inbox[api]).id = tid
      BY <1>0, <2>1, <3>1, OneMessage DEF Receive, TypeOK
    <3> QED
      BY <1>0, <1>8, <2>1, <3>1, <3>2
         DEF Recv, Receive, NothingToReceive, Throw, Goto, InCall, TypeOK
  <2>2. CASE NothingToReceive
    BY <1>0, <1>8, <2>2 DEF Recv, NothingToReceive, Throw, Goto, InCall
  <2> QED
    BY <1>8, <2>1, <2>2 DEF Recv
<1>9. ASSUME NEW a \in Apis, Answer(a) PROVE IInv'
  <2>1. sent[a] # <<>> /\ a = api
    BY <1>9 DEF Answer
  <2>2. ASSUME NEW request \in Request, sent[api] = <<request>>, inbox[api] = <<>>
        PROVE  sent'[api] = <<>> /\ \E reply \in Replies(request) : inbox'[api] = <<reply>>
    <3>1. PICK reply \in Replies(request) : inbox' = [inbox EXCEPT ![a] = Append(@, reply)]
      BY <1>9, <2>1, <2>2, OneMessage DEF Answer
    <3> QED
      BY <1>0, <1>9, <2>1, <2>2, <3>1, OneMessage DEF Answer, TypeOK
  <2>3. FamilyRequest \in Request /\ TaskRequest \in Request
    BY <1>0 DEF FamilyRequest, TaskRequest, Request, TypeOK
  <2>4. ASSUME pc = "recv_family"
        PROVE  Exchange(FamilyRequest, {"family", "error"})'
    <3>1. sent[api] = <<FamilyRequest>> /\ inbox[api] = <<>>
      BY <2>1, <2>4 DEF Exchange
    <3>2. sent'[api] = <<>> /\ \E k \in {"family", "error"} :
            inbox'[api] = <<[kind |-> k, id |-> FamilyRequest.id]>>
      BY <2>2, <2>3, <3>1 DEF Replies, FamilyRequest
    <3> QED
      BY <1>9, <3>2 DEF Answer, Exchange, FamilyRequest
  <2>5. ASSUME pc = "recv" PROVE Exchange(TaskRequest, {"stats", "error"})'
    <3>1. sent[api] = <<TaskRequest>> /\ inbox[api] = <<>>
      BY <2>1, <2>5 DEF Exchange
    <3>2. sent'[api] = <<>> /\ \E k \in {"stats", "error"} :
            inbox'[api] = <<[kind |-> k, id |-> TaskRequest.id]>>
      BY <2>2, <2>3, <3>1 DEF Replies, TaskRequest
    <3> QED
      BY <1>9, <3>2 DEF Answer, Exchange, TaskRequest
  <2> QED
    BY <1>0, <1>9, <2>1, <2>4, <2>5
       DEF Answer, TypeOK, Exchange, FamilyRequest, TaskRequest
<1>10. ASSUME NEW a \in Apis, Lose(a) PROVE IInv'
  <2>1. sent[a] # <<>> /\ a = api
    BY <1>10 DEF Lose
  <2>2. pc \in {"recv", "recv_family"} => sent'[api] = <<>> /\ inbox'[api] = <<>>
    BY <1>0, <1>10, <2>1, OneMessage DEF Lose, Exchange, TypeOK, FamilyRequest, TaskRequest
  <2> QED
    BY <1>0, <1>10, <2>1, <2>2 DEF Lose, TypeOK, Exchange
<1>11. CASE Churn
  BY <1>0, <1>11 DEF Churn, Exchange, TaskRequest
<1>12. CASE UNCHANGED vars
  BY <1>0, <1>12 DEF vars, Exchange, TaskRequest
<1> QED
  BY <1>1, <1>2, <1>3, <1>5, <1>6, <1>7, <1>8, <1>9, <1>10, <1>11, <1>12
     DEF Next, Query, Terminated

\* The invariant holds in every reachable state.
THEOREM Invariance == Spec => []IInv
BY InitIInv, NextIInv, PTL DEF Spec

\* Every variable keeps its type, and a query's result is about a task.
THEOREM TypeCorrect == Spec => []TypeOK
<1>1. IInv => TypeOK
  BY DEF IInv
<1> QED
  BY <1>1, Invariance, PTL

\* Between queries nothing is under way on any socket (nl_task_stats.cc:111).
THEOREM QuietWhenIdleHolds == Spec => []QuietWhenIdle
<1>1. IInv => QuietWhenIdle
  BY DEF IInv, QuietWhenIdle, Quiet
<1> QED
  BY <1>1, Invariance, PTL

\* An answer is about the task its query asked about (nl_task_stats.cc:43-93).
THEOREM AnswerIsForTheQueryHolds == Spec => []AnswerIsForTheQuery
<1>1. IInv => AnswerIsForTheQuery
  BY DEF IInv
<1> QED
  BY <1>1, Invariance, PTL

-----------------------------------------------------------------------------
(***************************************************************************)
(* The refinement.  The steps of TaskQuery in terms of the variables here: *)
(* a query asks when it is called, the kernel's answer to its request is   *)
(* the look, and an exception at any step is the failure.                  *)
(***************************************************************************)
\* No query under way is no query asked.
LEMMA InitRefines == Init => TQ!Init
BY DEF Init, TQ!Init, InProgress, Decided

\* A step that leaves the mapped variables alone is a stutter of TaskQuery.
LEMMA Stutter ==
  ASSUME live' = live, tid' = tid, InProgress' = InProgress,
         Decided' = Decided, Decided => inbox'[api'] = inbox[api],
         result' = result, (pc' = "aborted") = (pc = "aborted")
  PROVE  UNCHANGED TQ!vars
BY DEF TQ!vars

\* An exception in a query is its failure.
LEMMA ThrowFails ==
  ASSUME IInv, InProgress, ~Decided, Throw, InCall
  PROVE  TQ!Fail
BY NetlinkAssumption
   DEF IInv, TypeOK, TQ!Fail, Throw, Goto, InCall, kernelVars, InProgress, Decided

\* Every step of the netlink client is a step of TaskQuery or a stutter.
LEMMA NextRefines == IInv /\ [Next]_vars => [TQ!Next]_TQ!vars
<1> SUFFICES ASSUME IInv, [Next]_vars PROVE [TQ!Next]_TQ!vars
  OBVIOUS
<1>0. TypeOK
  BY DEF IInv
<1>1. ASSUME NEW a \in Apis, NEW t \in Ids, Call(a, t) PROVE TQ!Ask(t)
  BY <1>0, <1>1, NetlinkAssumption
     DEF Call, Goto, TQ!Ask, InProgress, Decided, kernelVars, TypeOK
<1>2. CASE CreateSocket
  <2>1. CASE Throw
    BY <1>2, <2>1, ThrowFails DEF CreateSocket, InProgress, Decided, TQ!Next
  <2>2. CASE ~Throw
    BY <1>2, <2>2, Stutter
       DEF CreateSocket, InCall, Goto, InProgress, Decided, kernelVars
  <2> QED
    BY <2>1, <2>2
<1>3. CASE SetFlags
  <2>1. CASE Throw
    BY <1>3, <2>1, ThrowFails DEF SetFlags, InProgress, Decided, TQ!Next
  <2>2. CASE ~Throw
    BY <1>3, <2>2, Stutter
       DEF SetFlags, InCall, Goto, InProgress, Decided, kernelVars
  <2> QED
    BY <2>1, <2>2
<1>4. CASE SendFamily
  <2>1. CASE Throw
    BY <1>4, <2>1, ThrowFails DEF SendFamily, InProgress, Decided, TQ!Next
  <2>2. CASE ~Throw
    BY <1>4, <2>2, Stutter
       DEF SendFamily, SendCmd, InCall, Goto, InProgress, Decided, kernelVars
  <2> QED
    BY <2>1, <2>2
<1>5. CASE RecvFamily
  <2>1. CASE NothingToReceive
    BY <1>5, <2>1, ThrowFails
       DEF RecvFamily, NothingToReceive, InProgress, Decided, TQ!Next
  <2>2. CASE ~NothingToReceive /\ Head(inbox[api]).kind = "error"
    <3>1. TQ!Fail
      BY <1>0, <1>5, <2>2, NetlinkAssumption
         DEF RecvFamily, InCall, Goto, InProgress, Decided, TQ!Fail, kernelVars, TypeOK
    <3> QED
      BY <3>1 DEF TQ!Next
  <2>3. CASE ~NothingToReceive /\ Head(inbox[api]).kind # "error"
    BY <1>5, <2>3, Stutter
       DEF RecvFamily, InCall, Goto, InProgress, Decided, kernelVars
  <2> QED
    BY <2>1, <2>2, <2>3
<1>6. CASE Send
  <2>1. CASE Throw
    BY <1>6, <2>1, ThrowFails DEF Send, InProgress, Decided, TQ!Next
  <2>2. CASE ~Throw
    <3>1. inbox'[api'] = <<>>
      BY <1>6, <2>2 DEF Send, SendCmd, InCall, IInv, Quiet
    <3> QED
      BY <1>6, <2>2, <3>1, Stutter
         DEF Send, SendCmd, InCall, Goto, InProgress, Decided, kernelVars
  <2> QED
    BY <2>1, <2>2
<1>7. CASE Recv
  <2>1. CASE NothingToReceive
    BY <1>7, <2>1, ThrowFails
       DEF Recv, NothingToReceive, InProgress, Decided, TQ!Next
  <2>2. CASE ~NothingToReceive
    <3>1. PICK k \in {"stats", "error"} : inbox[api] = <<[kind |-> k, id |-> tid]>>
      BY <1>7, <2>2 DEF Recv, Receive, IInv, Exchange, TaskRequest
    <3>2. Head(inbox[api]).kind = k /\ inbox[api] # <<>>
      BY <3>1, OneMessage
    <3>3. result' = <<tid, k, tid>> \/ result' = <<tid, k, Head(inbox[api]).id>>
      BY <1>7, <2>2, <3>2 DEF Recv
    <3>4. TQ!Return
      BY <1>0, <1>7, <2>2, <3>2, <3>3, NetlinkAssumption
         DEF Recv, InCall, Goto, InProgress, Decided, TQ!Return, kernelVars, TypeOK
    <3> QED
      BY <3>4 DEF TQ!Next
  <2> QED
    BY <2>1, <2>2
<1>8. ASSUME NEW a \in Apis, Answer(a) PROVE [TQ!Next]_TQ!vars
  <2>1. sent[a] # <<>> /\ a = api
    BY <1>8 DEF Answer, IInv, Quiet
  <2>2. CASE pc = "recv"
    <3>1. sent[api] = <<TaskRequest>> /\ inbox[api] = <<>>
      BY <2>1, <2>2 DEF IInv, Exchange
    <3>2. PICK reply \in Replies(TaskRequest) :
            inbox' = [inbox EXCEPT ![a] = Append(@, reply)]
      BY <1>8, <2>1, <3>1, OneMessage DEF Answer
    <3>3. inbox'[api] = <<reply>>
      BY <1>0, <2>1, <3>1, <3>2, OneMessage DEF TypeOK
    <3>4. Head(inbox'[api]).kind = (IF tid \in live THEN "stats" ELSE "error")
      BY <3>2, <3>3, OneMessage DEF Replies, TaskRequest
    <3>5. TQ!Look
      BY <1>0, <1>8, <2>2, <3>1, <3>3, <3>4, OneMessage, NetlinkAssumption
         DEF Answer, TQ!Look, InProgress, Decided, kernelVars, TypeOK
    <3> QED
      BY <3>5 DEF TQ!Next
  <2>3. CASE pc # "recv"
    BY <1>8, <2>3, Stutter DEF Answer, InProgress, Decided, kernelVars
  <2> QED
    BY <2>2, <2>3
<1>9. ASSUME NEW a \in Apis, Lose(a) PROVE [TQ!Next]_TQ!vars
  BY <1>9, Stutter DEF Lose, InProgress, Decided, kernelVars
<1>10. CASE Churn
  <2>1. live' \in SUBSET Ids
    BY <1>0, <1>10 DEF Churn, TypeOK
  <2>2. TQ!Churn
    BY <1>10, <2>1 DEF Churn, TQ!Churn, InProgress, Decided
  <2> QED
    BY <2>2 DEF TQ!Next
<1>11. CASE UNCHANGED vars
  BY <1>11, Stutter DEF vars, InProgress, Decided
<1> QED
  BY <1>1, <1>2, <1>3, <1>4, <1>5, <1>6, <1>7, <1>8, <1>9, <1>10, <1>11
     DEF Next, Query, Terminated, TQ!Next

\* query and query_tgid are, to their callers, one look at the task at one
\* moment between call and return (taskstats.cc:50-96).
THEOREM Implements == Spec => Refines
BY InitRefines, Invariance, NextRefines, PTL DEF Spec, Refines, TQ!Spec
=============================================================================
