--------------------------------- MODULE Rpc ---------------------------------
(***************************************************************************)
(* One client of the RPC server and the connection between them, with all  *)
(* that may interrupt a call: a caller that gives up or is timed out, a    *)
(* client that closes, a server that stops, a reply that cannot be sent,   *)
(* and the death of either process.  The client is the asynchronous one,   *)
(* whose calls are answered in any order, or the blocking one.             *)
(*                                                                         *)
(* A message is <<call id, body>>.  The bodies "close" and "nothing" stand *)
(* for the empty body, the sentinel of either direction.                   *)
(***************************************************************************)
EXTENDS Naturals, Sequences, FiniteSets

CONSTANTS Caller,       \* each makes one call
          Kinds,        \* the kinds of client: "async", "sync"
          Unpicklable,  \* the callers whose result cannot be pickled
          Patient,      \* the blocking callers that set NO_RPC_TIMEOUT
          Buffer        \* drain() waits while more messages are unread, in either direction

ASSUME ConnectionAssumption == Kinds \subseteq {"async", "sync"} /\ Buffer \in Nat
ASSUME CallersAssumption == Unpicklable \subseteq Caller /\ Patient \subseteq Caller

VARIABLES
  kind,    \* the kind of client
  at,      \* at[c]: where the caller c is in its call
  id,      \* id[c]: the id of the call of c, 0 before it is sent
  future,  \* future[c]: the response that was set, or "none"
  cl,      \* the client: see Init
  up, upEnd,      \* requests on their way, and whether the client is done writing
  down, downEnd,  \* responses on their way, and whether the server is
  sv       \* the server and its side of the connection: see Init

caller == <<at, id, future>>
wire == <<up, upEnd, down, downEnd>>
vars == <<kind, caller, cl, wire, sv>>

Calling == {"opening", "drain", "wait"}
Ids == 1 .. sv.last
CallOf(i) == {c \in Caller : id[c] = i}

Init ==
  /\ kind \in Kinds
  /\ at = [c \in Caller |-> "idle"]
  /\ id = [c \in Caller |-> 0]
  /\ future = [c \in Caller |-> "none"]
  /\ cl = [counter |-> 0, open |-> "no", pending |-> {}, stop |-> FALSE, recv |-> "none",
           closing |-> "no", broken |-> FALSE]
  /\ up = <<>> /\ upEnd = FALSE /\ down = <<>> /\ downEnd = FALSE
  /\ sv = [listening |-> TRUE, conn |-> "none", stop |-> FALSE, recv |-> "none",
           send |-> "none", last |-> 0, task |-> <<>>, completed |-> <<>>]
-----------------------------------------------------------------------------
(***************************************************************************)
(* The connection is opened by the first call.                             *)
(***************************************************************************)
\* Mutant: a broken blocking client is used again.
CheckUsableClosed == cl.closing = "no"
CheckUsable == cl.closing = "no" /\ ~cl.broken

NextCallId == cl.counter + 1

Accepted == [sv EXCEPT !.conn = "on", !.recv = "on", !.send = "on"]

\* An empty queue of requests behind a dead server is never read.
Alive == sv.conn = "on" /\ ~upEnd
Written(i, body) == IF Alive THEN Append(up, <<i, body>>) ELSE up

Refuse(c) ==
  /\ at[c] = "idle" /\ ~CheckUsable
  /\ at' = [at EXCEPT ![c] = "refused"]
  /\ UNCHANGED <<kind, id, future, cl, wire, sv>>

EnsureConnected(c) ==
  /\ kind = "async" /\ at[c] = "idle" /\ CheckUsable
  /\ at' = [at EXCEPT ![c] = "opening"]
  /\ cl' = IF cl.open = "no" THEN [cl EXCEPT !.open = "opening"] ELSE cl
  /\ UNCHANGED <<kind, id, future, wire, sv>>

OpenConnection ==
  /\ cl.open = "opening"
  /\ IF sv.listening THEN /\ cl' = [cl EXCEPT !.open = "yes", !.recv = "on"]
                          /\ sv' = Accepted
     ELSE cl' = [cl EXCEPT !.open = "failed"] /\ UNCHANGED sv
  /\ UNCHANGED <<kind, caller, wire>>

\* Whoever waits for the one connection attempt shares its end.
NotConnected(c) ==
  /\ at[c] = "opening" /\ cl.open \in {"failed", "cancelled"}
  /\ at' = [at EXCEPT ![c] = IF cl.open = "failed" THEN "lost" ELSE "gone"]
  /\ UNCHANGED <<kind, id, future, cl, wire, sv>>

(***************************************************************************)
(* A call of the asynchronous client.                                      *)
(***************************************************************************)
\* Mutant: a lost connection is only noticed when the client is closed.
DisconnectedClosed == cl.closing = "done"
Disconnected == cl.recv # "on"

Send(c) ==
  /\ at[c] = "opening" /\ cl.open = "yes"
  /\ IF Disconnected
     THEN at' = [at EXCEPT ![c] = "lost"] /\ UNCHANGED <<id, cl, up>>
     ELSE /\ at' = [at EXCEPT ![c] = "drain"]
          /\ id' = [id EXCEPT ![c] = NextCallId]
          /\ cl' = [cl EXCEPT !.counter = @ + 1, !.pending = @ \cup {NextCallId}]
          /\ up' = Written(NextCallId, "call")
  /\ UNCHANGED <<kind, future, upEnd, down, downEnd, sv>>

Drained == Len(up) <= Buffer \/ ~Alive

\* writer.drain() returns, or raises because the connection is lost.
Drain(c) ==
  /\ at[c] = "drain" /\ Drained
  /\ IF sv.conn = "done" /\ ~upEnd
     THEN /\ at' = [at EXCEPT ![c] = "lost"]
          /\ cl' = [cl EXCEPT !.pending = @ \ {id[c]}]
     ELSE at' = [at EXCEPT ![c] = "wait"] /\ UNCHANGED cl
  /\ UNCHANGED <<kind, id, future, wire, sv>>

Return(c) ==
  /\ at[c] = "wait" /\ future[c] # "none"
  /\ at' = [at EXCEPT ![c] = IF future[c] = "reply" THEN "answer" ELSE "lost"]
  /\ UNCHANGED <<kind, id, future, cl, wire, sv>>

\* The task of the caller is cancelled.  This cancels what it waits for: the
\* connection attempt of everybody, the writing of its request, its own future.
GiveUp(c) ==
  /\ kind = "async" /\ at[c] \in Calling
  /\ at' = [at EXCEPT ![c] = "gone"]
  /\ cl' = CASE at[c] = "opening" /\ cl.open = "opening" -> [cl EXCEPT !.open = "cancelled"]
             [] at[c] = "drain" -> [cl EXCEPT !.pending = @ \ {id[c]}]
             [] OTHER -> cl
  /\ UNCHANGED <<kind, id, future, wire, sv>>

\* The receive loop ends and fails every pending call.
Failing == [c \in Caller |-> IF id[c] \in cl.pending /\ at[c] # "gone" THEN "lost" ELSE future[c]]

EndRecvLoop(how) ==
  /\ future' = Failing
  /\ cl' = [cl EXCEPT !.recv = how, !.stop = TRUE, !.pending = {}]
  /\ UNCHANGED <<kind, at, id, up, upEnd, downEnd, sv>>

\* Mutant: responses are taken to arrive in the order of the calls.
PopPendingOldest(i) ==
  IF cl.pending = {} THEN i ELSE CHOOSE j \in cl.pending : \A k \in cl.pending : j <= k

\* The response with id i is for the entry of that id.
PopPending(i) == i

Receive ==
  /\ cl.recv = "on" /\ down # <<>>
  /\ down' = Tail(down)
  /\ LET i == PopPending(Head(down)[1])
     IN IF i \notin cl.pending THEN EndRecvLoop("failed")
        ELSE /\ future' = [c \in Caller |-> IF id[c] = i /\ at[c] # "gone" THEN Head(down)[2]
                                            ELSE future[c]]
             /\ cl' = [cl EXCEPT !.pending = @ \ {i}]
             /\ UNCHANGED <<kind, at, id, up, upEnd, downEnd, sv>>

StopReceiving ==
  /\ cl.recv = "on" /\ (cl.stop \/ (down = <<>> /\ downEnd))
  /\ EndRecvLoop("off") /\ UNCHANGED down
-----------------------------------------------------------------------------
(***************************************************************************)
(* Closing the asynchronous client.                                        *)
(***************************************************************************)
Close ==
  /\ kind = "async" /\ cl.closing = "no"
  /\ cl' = [cl EXCEPT !.closing = IF cl.open = "no" THEN "done" ELSE "connect"]
  /\ UNCHANGED <<kind, caller, wire, sv>>

CloseUnconnected ==
  /\ cl.closing = "connect" /\ cl.open \in {"failed", "cancelled"}
  /\ cl' = [cl EXCEPT !.closing = "done"]
  /\ UNCHANGED <<kind, caller, wire, sv>>

CloseRequest ==
  /\ cl.closing = "connect" /\ cl.open = "yes"
  /\ cl' = [cl EXCEPT !.closing = "send", !.counter = @ + 1]
  /\ up' = Written(NextCallId, "close")
  /\ UNCHANGED <<kind, caller, upEnd, down, downEnd, sv>>

\* The message is handed over, or dropped with the rest of the write buffer
\* after CLOSE_TIMEOUT.
CloseWriter ==
  /\ cl.closing = "send"
  /\ cl' = [cl EXCEPT !.closing = "recv", !.stop = TRUE]
  /\ upEnd' = TRUE
  /\ IF Drained THEN UNCHANGED up ELSE \E n \in 0 .. Len(up) - 1 : up' = SubSeq(up, 1, n)
  /\ UNCHANGED <<kind, caller, down, downEnd, sv>>

CloseReturns ==
  /\ cl.closing = "recv" /\ cl.recv # "on"
  /\ cl' = [cl EXCEPT !.closing = "done"]
  /\ UNCHANGED <<kind, caller, wire, sv>>
-----------------------------------------------------------------------------
(***************************************************************************)
(* The blocking client: connects, sends, and reads the next response.      *)
(***************************************************************************)
SyncCall(c) ==
  /\ kind = "sync" /\ at[c] = "idle" /\ \A b \in Caller : at[b] \notin Calling
  /\ CheckUsable
  /\ LET joins == cl.open = "no" /\ sv.listening
         open == IF joins THEN "yes" ELSE IF cl.open = "no" THEN "failed" ELSE cl.open
     IN /\ sv' = IF joins THEN Accepted ELSE sv
        /\ IF open = "failed" \/ sv.conn = "done"
           THEN /\ at' = [at EXCEPT ![c] = "lost"]
                /\ cl' = [cl EXCEPT !.open = open, !.broken = cl.open # "no"]
                /\ UNCHANGED <<id, up>>
           ELSE /\ at' = [at EXCEPT ![c] = "wait"]
                /\ id' = [id EXCEPT ![c] = NextCallId]
                /\ cl' = [cl EXCEPT !.open = open, !.broken = TRUE, !.counter = @ + 1]
                /\ up' = Append(up, <<NextCallId, "call">>)
  /\ UNCHANGED <<kind, future, upEnd, down, downEnd>>

SyncReceive(c) ==
  /\ kind = "sync" /\ at[c] = "wait" /\ down # <<>>
  /\ down' = Tail(down)
  /\ LET i == Head(down)[1]
     IN /\ at' = [at EXCEPT ![c] = IF Head(down) = <<id[c], "reply">> THEN "answer" ELSE "lost"]
        /\ cl' = [cl EXCEPT !.broken = i # id[c]]
  /\ UNCHANGED <<kind, id, future, up, upEnd, downEnd, sv>>

SyncLost(c) ==
  /\ kind = "sync" /\ at[c] = "wait" /\ down = <<>> /\ downEnd
  /\ at' = [at EXCEPT ![c] = "lost"]
  /\ UNCHANGED <<kind, id, future, cl, wire, sv>>

\* The timeout of the call, or an interrupt from the keyboard.
SyncTimeout(c) ==
  /\ kind = "sync" /\ at[c] = "wait" /\ c \notin Patient
  /\ at' = [at EXCEPT ![c] = "gone"]
  /\ UNCHANGED <<kind, id, future, cl, wire, sv>>

SyncClose ==
  /\ kind = "sync" /\ cl.closing = "no" /\ \A c \in Caller : at[c] \notin Calling
  /\ LET says == cl.open = "yes" /\ ~cl.broken
     IN /\ up' = IF says THEN Written(NextCallId, "close") ELSE up
        /\ cl' = [cl EXCEPT !.closing = "done", !.counter = @ + (IF says THEN 1 ELSE 0)]
  /\ upEnd' = (cl.open = "yes")
  /\ UNCHANGED <<kind, caller, down, downEnd, sv>>
-----------------------------------------------------------------------------
(***************************************************************************)
(* The server: a loop that receives, one that sends, a task per call.      *)
(***************************************************************************)
ServerReceives ==
  /\ sv.recv = "on" /\ up # <<>>
  /\ up' = Tail(up)
  /\ LET i == Head(up)[1]
     IN sv' = IF Head(up)[2] = "close" THEN [sv EXCEPT !.stop = TRUE, !.recv = "gather"]
              ELSE [sv EXCEPT !.last = i,
                              !.task = [j \in 1 .. i |-> IF j = i THEN "begun" ELSE @[j]]]
  /\ UNCHANGED <<kind, caller, cl, upEnd, down, downEnd>>

\* The connection is being torn down, or the client is gone.
ServerStopsReceiving ==
  /\ sv.recv = "on" /\ (sv.stop \/ (up = <<>> /\ upEnd))
  /\ sv' = [sv EXCEPT !.stop = TRUE, !.recv = "gather"]
  /\ UNCHANGED <<kind, caller, cl, wire>>

QueueReply(i) ==
  /\ sv.task[i] = "begun"
  /\ sv' = [sv EXCEPT !.task[i] = "done", !.completed = Append(@, i)]
  /\ UNCHANGED <<kind, caller, cl, wire>>

\* The receive loop returns when the calls in flight are finished.
Gathered ==
  /\ sv.recv = "gather" /\ \A i \in Ids : sv.task[i] # "begun"
  /\ sv' = [sv EXCEPT !.recv = "off"]
  /\ UNCHANGED <<kind, caller, cl, wire>>

\* writer.drain() returns, or raises because the client closed its socket.
Flushed == Len(down) <= Buffer \/ upEnd

\* The loop goes on when the reply before is flushed.  A client that closed its
\* socket cannot be written to.
SendReply ==
  /\ sv.send = "on" /\ sv.completed # <<>> /\ Flushed
  /\ LET i == Head(sv.completed)
         rest == [sv EXCEPT !.completed = Tail(@)]
     IN IF upEnd THEN sv' = [rest EXCEPT !.stop = TRUE, !.send = "off"] /\ UNCHANGED down
        ELSE IF CallOf(i) \subseteq Unpicklable
        THEN sv' = [rest EXCEPT !.send = "failed"] /\ down' = Append(down, <<i, "nothing">>)
        ELSE sv' = rest /\ down' = Append(down, <<i, "reply">>)
  /\ UNCHANGED <<kind, caller, cl, up, upEnd, downEnd>>

StopSending ==
  /\ sv.send = "on" /\ sv.stop /\ sv.completed = <<>> /\ Flushed
  /\ sv' = [sv EXCEPT !.send = "off"]
  /\ UNCHANGED <<kind, caller, cl, wire>>

Cut == [i \in Ids |-> IF sv.task[i] = "begun" THEN "cut" ELSE sv.task[i]]

\* The task group cancels the receive loop, which cancels the handlers.
CancelHandlers ==
  /\ sv.send = "failed" /\ sv.recv \in {"on", "gather"} /\ Flushed
  /\ sv' = [sv EXCEPT !.recv = "off", !.task = Cut]
  /\ UNCHANGED <<kind, caller, cl, wire>>

\* Mutant: the connection is not closed behind the last response.
ServedOpen ==
  /\ sv.conn = "on" /\ sv.recv = "off" /\ sv.send \in {"off", "failed"} /\ Flushed
  /\ sv' = [sv EXCEPT !.conn = "done"]
  /\ UNCHANGED <<kind, caller, cl, wire>>

\* drain() and wait_closed() at the end of RPCServerConnection.serve.
Served ==
  /\ sv.conn = "on" /\ sv.recv = "off" /\ sv.send \in {"off", "failed"} /\ Flushed
  /\ sv' = [sv EXCEPT !.conn = "done"]
  /\ downEnd' = TRUE
  /\ UNCHANGED <<kind, caller, cl, up, upEnd, down>>

\* SocketRPCServer.serve after its stop event.
StopServer ==
  /\ sv.listening
  /\ sv' = [sv EXCEPT !.listening = FALSE, !.stop = @ \/ sv.conn = "on"]
  /\ UNCHANGED <<kind, caller, cl, wire>>

ServerDies ==
  /\ sv.conn = "on"
  /\ sv' = [sv EXCEPT !.listening = FALSE, !.conn = "done", !.recv = "off", !.send = "off",
                      !.task = Cut]
  /\ downEnd' = TRUE
  /\ UNCHANGED <<kind, caller, cl, up, upEnd, down>>

ClientDies ==
  /\ cl.open = "yes" /\ ~upEnd
  /\ at' = [c \in Caller |-> IF at[c] \in Calling THEN "gone" ELSE at[c]]
  /\ cl' = [cl EXCEPT !.closing = "done", !.stop = TRUE, !.pending = {}, !.broken = TRUE,
                      !.recv = IF kind = "async" THEN "off" ELSE "none"]
  /\ upEnd' = TRUE
  /\ UNCHANGED <<kind, id, future, up, down, downEnd, sv>>
-----------------------------------------------------------------------------
Progress ==
  \/ \E c \in Caller : NotConnected(c) \/ Send(c) \/ Drain(c) \/ Return(c)
  \/ \E c \in Caller : SyncReceive(c) \/ SyncLost(c)
  \/ OpenConnection \/ Receive \/ StopReceiving
  \/ CloseUnconnected \/ CloseRequest \/ CloseWriter \/ CloseReturns
  \/ ServerReceives \/ ServerStopsReceiving \/ Gathered \/ SendReply \/ StopSending
  \/ \E i \in Ids : QueueReply(i)
  \/ CancelHandlers \/ Served

Next ==
  \/ Progress
  \/ \E c \in Caller : Refuse(c) \/ EnsureConnected(c) \/ GiveUp(c)
  \/ \E c \in Caller : SyncCall(c) \/ SyncTimeout(c)
  \/ Close \/ SyncClose \/ StopServer \/ ServerDies \/ ClientDies

(***************************************************************************)
(* Fairness: the event loops of both processes go on and a call that runs  *)
(* on the server ends.  Nobody has to call, give up, close, stop or die,   *)
(* and a blocking client reads during its calls only.                      *)
(***************************************************************************)
Spec == Init /\ [][Next]_vars
FairSpec == Spec /\ WF_vars(Progress)
-----------------------------------------------------------------------------
\* Type invariant.
TypeOK ==
  /\ at \in [Caller -> Calling \cup {"idle", "answer", "lost", "refused", "gone"}]
  /\ id \in [Caller -> 0 .. cl.counter]
  /\ future \in [Caller -> {"none", "reply", "nothing", "lost"}]
  /\ cl.open \in {"no", "opening", "yes", "failed", "cancelled"}
  /\ cl.pending \subseteq 1 .. cl.counter
  /\ cl.recv \in {"none", "on", "off", "failed"}
  /\ sv.recv \in {"none", "on", "gather", "off"}
  /\ sv.send \in {"none", "on", "off", "failed"}
  /\ DOMAIN sv.task = Ids
  /\ \A a, b \in Caller : id[a] = id[b] /\ id[a] # 0 => a = b

(***************************************************************************)
(* The connection keeps the promises of RpcCalls: responses may overtake   *)
(* one another, callers may leave and connections may break, but every     *)
(* answer reaches the caller of the call that ran to its end.              *)
(***************************************************************************)
Outcome == [c \in Caller |-> IF at[c] \in Calling THEN "open" ELSE at[c]]
Effect == [c \in Caller |-> IF id[c] \in Ids THEN sv.task[id[c]] ELSE "none"]
Promise == INSTANCE RpcCalls WITH outcome <- Outcome, effect <- Effect

Implements == Promise!Spec

\* SocketAsyncRPCClient.__call__: nothing is awaited between looking at the
\* receive loop and adding the entry, so no call waits for a loop that is gone.
NoneLeftWaiting ==
  \A c \in Caller : kind = "async" /\ at[c] \in {"drain", "wait"} /\ cl.recv # "on" =>
    future[c] # "none"

\* SocketSyncRPCClient._broken: what a usable blocking client finds on its
\* socket is the response to the call it just made, never to an earlier one.
InStep ==
  \A c \in Caller : kind = "sync" /\ at[c] = "wait" /\ down # <<>> => down[1][1] = id[c]

\* Every call ends, whatever happens to the connection.
CallsEnd == \A c \in Caller : at[c] \in Calling ~> at[c] \notin Calling

\* Responses fill the buffer of a client that reads no more, because a blocking
\* call was timed out or a receive loop failed, and that is not closed.
Deaf ==
  /\ ~Flushed
  /\ IF kind = "sync" THEN \A c \in Caller : at[c] # "wait" ELSE cl.recv # "on"

\* A stopping server does not wait for a client that keeps its side open, unless
\* that client is deaf, and a closing client does not wait for a server that has
\* stopped reading.
StopsEnd ==
  /\ (~sv.listening /\ sv.conn = "on") ~> (sv.conn # "on" \/ Deaf)
  /\ cl.closing \notin {"no", "done"} ~> cl.closing = "done"

\* The types, and no call without anybody to answer it.
NoneLost == TypeOK /\ NoneLeftWaiting

\* Calls, the client and the connections of the server come to an end.
AllEnds == CallsEnd /\ StopsEnd
=============================================================================
