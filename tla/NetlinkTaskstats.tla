-------------------------- MODULE NetlinkTaskstats --------------------------
(***************************************************************************)
(* NetlinkTaskstats (src/src/plugin/nl_task_stats.cc): how a callback of   *)
(* the taskstats plugin asks the kernel for the statistics of one task.    *)
(*                                                                         *)
(* query and query_tgid own one netlink socket each, made on first use.    *)
(* Requests carry sequence number 0 and replies are not compared with the  *)
(* request: that a reply answers the query under way, and not one before   *)
(* it, rests on every way of losing step with the kernel being an          *)
(* exception that nothing catches.                                         *)
(***************************************************************************)
EXTENDS Naturals, Sequences

CONSTANTS
  Ids,         \* pids and tids
  Apis,        \* "query", "query_tgid"
  NoId,        \* "no task"
  Undecided,   \* TaskQuery: the kernel has not looked yet
  MaxCalls,    \* bound on the number of queries
  MaxChanges   \* bound on the number of times tasks come and go

ASSUME NetlinkAssumption ==
  /\ NoId \notin Ids
  /\ Undecided \notin {"stats", "error"}
  /\ MaxCalls \in Nat /\ MaxChanges \in Nat

VARIABLES
  live,      \* external: the ids that tasks have
  changes,   \* how often live has changed
  calls,     \* how many queries there have been
  pc,        \* where the query under way stands
  api,       \* which of the two functions it is
  tid,       \* what it asks about
  sock,      \* by function: its static NetlinkTaskstats object
  sent,      \* by function: requests the kernel has not handled
  inbox,     \* by function: replies the socket holds
  result     \* what the last query returned: <<its tid, kind, id of the reply>>

kernelVars == <<live, changes>>
vars == <<live, changes, calls, pc, api, tid, sock, sent, inbox, result>>

\* "none": not constructed.  "blocking": created and bound.  "nonblocking":
\* O_NONBLOCK is set.  "ready": family_id_ is known.
SockState == {"none", "blocking", "nonblocking", "ready"}

Control ==
  {"idle", "create", "flags", "send_family", "recv_family", "send", "recv",
   "aborted"}

Request == [cmd : {"getfamily", "get"}, id : Ids \cup {NoId}]
Reply == [kind : {"family", "stats", "error"}, id : Ids \cup {NoId}]

Init ==
  /\ live \in SUBSET Ids
  /\ changes = 0
  /\ calls = 0
  /\ pc = "idle"
  /\ api \in Apis
  /\ tid \in Ids
  /\ sock = [a \in Apis |-> "none"]
  /\ sent = [a \in Apis |-> <<>>]
  /\ inbox = [a \in Apis |-> <<>>]
  /\ result = <<>>

-----------------------------------------------------------------------------
Goto(l) == pc' = l

SetSock(s) == sock' = [sock EXCEPT ![api] = s]

\* An exception: nothing between here and main catches it.
Throw ==
  /\ Goto("aborted")
  /\ UNCHANGED <<sock, sent, inbox, result>>

\* query or query_tgid is called; its statics are constructed the first time.
Call(a, t) ==
  /\ pc = "idle"
  /\ calls < MaxCalls
  /\ calls' = calls + 1
  /\ api' = a
  /\ tid' = t
  /\ Goto(IF sock[a] = "none" THEN "create" ELSE "send")
  /\ UNCHANGED <<kernelVars, sock, sent, inbox, result>>

\* The steps of the query under way leave these alone.
InCall == UNCHANGED <<kernelVars, calls, api, tid>>

\* create_nl_socket: socket and bind.
CreateSocket ==
  /\ pc = "create"
  /\ \/ SetSock("blocking") /\ Goto("flags") /\ UNCHANGED <<sent, inbox, result>>
     \/ Throw
  /\ InCall

\* The socket stays in blocking mode.
BugFlagsNotSet ==
  /\ pc = "flags"
  /\ \/ Goto("send_family") /\ UNCHANGED <<sock, sent, inbox, result>>
     \/ Throw
  /\ InCall

\* set_socket_flags(O_NONBLOCK).
SetFlags ==
  /\ pc = "flags"
  /\ \/ /\ SetSock("nonblocking") /\ Goto("send_family")
        /\ UNCHANGED <<sent, inbox, result>>
     \/ Throw
  /\ InCall

\* send_cmd: the request is with the kernel, or sendto failed or was short.
SendCmd(request, next) ==
  \/ /\ sent' = [sent EXCEPT ![api] = Append(@, request)]
     /\ Goto(next)
     /\ UNCHANGED <<sock, inbox, result>>
  \/ Throw

\* recv_msg finds no reply: recv fails with EAGAIN on a nonblocking socket.
NothingToReceive ==
  /\ inbox[api] = <<>>
  /\ sock[api] # "blocking"
  /\ Throw

\* recv_msg takes the oldest reply off the socket.
Receive ==
  /\ inbox[api] # <<>>
  /\ inbox' = [inbox EXCEPT ![api] = Tail(@)]

\* The constructor does not wait for the reply with the family.
BugFamilyNotReceived ==
  /\ pc = "send_family"
  /\ SendCmd([cmd |-> "getfamily", id |-> NoId], "send")
  /\ InCall

\* get_family_id, and with it the constructor.
SendFamily ==
  /\ pc = "send_family"
  /\ SendCmd([cmd |-> "getfamily", id |-> NoId], "recv_family")
  /\ InCall

RecvFamily ==
  /\ pc = "recv_family"
  /\ \/ NothingToReceive
     \/ /\ Receive
        /\ IF Head(inbox[api]).kind = "error"
             THEN Goto("aborted") /\ UNCHANGED sock
             ELSE Goto("send") /\ SetSock("ready")
        /\ UNCHANGED <<sent, result>>
  /\ InCall

Send ==
  /\ pc = "send"
  /\ SendCmd([cmd |-> "get", id |-> tid], "recv")
  /\ InCall

\* recv_msg returns false where it throws, and the query returns false.
BugRecvGivesUp ==
  /\ pc = "recv"
  /\ Goto("idle")
  /\ IF inbox[api] = <<>>
       THEN UNCHANGED <<inbox, result>>
       ELSE /\ Receive
            /\ result' = <<tid, Head(inbox[api]).kind, Head(inbox[api]).id>>
  /\ UNCHANGED <<sock, sent>>
  /\ InCall

\* MSG_PEEK: the reply is read and left on the socket.
BugRecvPeeks ==
  /\ pc = "recv"
  /\ \/ NothingToReceive
     \/ /\ inbox[api] # <<>>
        /\ result' = <<tid, Head(inbox[api]).kind, Head(inbox[api]).id>>
        /\ Goto("idle")
        /\ UNCHANGED <<sock, sent, inbox>>
  /\ InCall

\* The reply is an error (return false) or holds the statistics (return true).
Recv ==
  /\ pc = "recv"
  /\ \/ NothingToReceive
     \/ /\ Receive
        /\ result' = <<tid, Head(inbox[api]).kind, Head(inbox[api]).id>>
        /\ Goto("idle")
        /\ UNCHANGED <<sock, sent>>
  /\ InCall

Query ==
  \/ CreateSocket \/ SetFlags \/ SendFamily \/ RecvFamily \/ Send \/ Recv

-----------------------------------------------------------------------------
(***************************************************************************)
(* External: the kernel.  It handles the requests of a socket in order, at *)
(* any time after they were sent; a reply may be lost for want of memory.  *)
(* TASKSTATS_CMD_GET fails for an id no task has, CTRL_CMD_GETFAMILY on a  *)
(* kernel without taskstats.                                               *)
(***************************************************************************)
Replies(request) ==
  IF request.cmd = "getfamily"
    THEN {[kind |-> k, id |-> NoId] : k \in {"family", "error"}}
    ELSE {[kind |-> IF request.id \in live THEN "stats" ELSE "error",
           id |-> request.id]}

Answer(a) ==
  /\ sent[a] # <<>>
  /\ \E reply \in Replies(Head(sent[a])) :
       inbox' = [inbox EXCEPT ![a] = Append(@, reply)]
  /\ sent' = [sent EXCEPT ![a] = Tail(@)]
  /\ UNCHANGED <<kernelVars, calls, pc, api, tid, sock, result>>

Lose(a) ==
  /\ sent[a] # <<>>
  /\ sent' = [sent EXCEPT ![a] = Tail(@)]
  /\ UNCHANGED <<kernelVars, calls, pc, api, tid, sock, inbox, result>>

Churn ==
  /\ changes < MaxChanges
  /\ changes' = changes + 1
  /\ \E i \in Ids : live' = IF i \in live THEN live \ {i} ELSE live \cup {i}
  /\ UNCHANGED <<calls, pc, api, tid, sock, sent, inbox, result>>

Terminated ==
  /\ pc = "aborted" \/ (pc = "idle" /\ calls = MaxCalls)
  /\ UNCHANGED vars

Next ==
  \/ \E a \in Apis, t \in Ids : Call(a, t)
  \/ Query
  \/ \E a \in Apis : Answer(a) \/ Lose(a)
  \/ Churn
  \/ Terminated

\* The program's thread runs; the kernel need not ever answer.
Spec == Init /\ [][Next]_vars /\ WF_vars(Query)

-----------------------------------------------------------------------------
\* Every variable has its type.
TypeOK ==
  /\ live \in SUBSET Ids
  /\ changes \in 0..MaxChanges
  /\ calls \in 0..MaxCalls
  /\ pc \in Control
  /\ api \in Apis /\ tid \in Ids
  /\ sock \in [Apis -> SockState]
  /\ sent \in [Apis -> Seq(Request)]
  /\ inbox \in [Apis -> Seq(Reply)]
  /\ result = <<>> \/ result \in Ids \X {"stats", "error"} \X Ids

\* Between queries nothing is under way on either socket: no request the
\* kernel may still answer, no reply a later query could take for its own.
\* This is what stands in for the sequence numbers (nl_task_stats.cc:111).
QuietWhenIdle ==
  pc \in {"idle", "send"} => \A a \in Apis : sent[a] = <<>> /\ inbox[a] = <<>>

\* A query returns what the kernel said of the task it asked about.
AnswerIsForTheQuery == result # <<>> => result[3] = result[1]

\* Whatever the kernel does or fails to do, a query returns or throws: the
\* sockets never block the tick.
QueryEnds == pc # "idle" ~> pc \in {"idle", "aborted"}

\* The queries implement TaskQuery.  The moment of decision is the kernel's
\* reply to the request.
Decided == pc = "recv" /\ inbox[api] # <<>>

InProgress == pc \notin {"idle", "aborted"}

TQ == INSTANCE TaskQuery WITH
  asked  <- IF InProgress THEN tid ELSE NoId,
  answer <- IF Decided THEN Head(inbox[api]).kind ELSE Undecided,
  result <- IF result = <<>> THEN <<>> ELSE <<result[1], result[2]>>,
  dead   <- pc = "aborted"

Refines == TQ!Spec
=============================================================================
