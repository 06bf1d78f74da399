------------------------------- MODULE RpcProofs -------------------------------
(***************************************************************************)
(* Proofs about Rpc, for any callers and any buffer: the type invariant,   *)
(* that no call waits for a receive loop that is gone, that the blocking   *)
(* client is in step, and that the connection implements RpcCalls.         *)
(***************************************************************************)
EXTENDS Rpc, SequenceTheorems, TLAPS

Places == Calling \cup {"idle", "answer", "lost", "refused", "gone"}
Requests == Nat \X {"call", "close"}
Responses == Nat \X {"reply", "nothing"}
Fate == {"begun", "done", "cut"}

ClientType ==
  [counter : Nat, open : {"no", "opening", "yes", "failed", "cancelled"}, pending : SUBSET Nat,
   stop : BOOLEAN, recv : {"none", "on", "off", "failed"},
   closing : {"no", "connect", "send", "recv", "done"}, broken : BOOLEAN]

ServerType ==
  [listening : BOOLEAN, conn : {"none", "on", "done"}, stop : BOOLEAN,
   recv : {"none", "on", "gather", "off"}, send : {"none", "on", "off", "failed"},
   last : Nat, task : Seq(Fate), completed : Seq(Nat)]

\* The shape of the variables.
Types ==
  /\ kind \in {"async", "sync"}
  /\ at \in [Caller -> Places]
  /\ id \in [Caller -> Nat]
  /\ future \in [Caller -> {"none", "reply", "nothing", "lost"}]
  /\ cl \in ClientType /\ sv \in ServerType
  /\ up \in Seq(Requests) /\ upEnd \in BOOLEAN
  /\ down \in Seq(Responses) /\ downEnd \in BOOLEAN
  /\ Len(sv.task) = sv.last

\* Ids count the messages of the client, and the server has got those up to
\* sv.last, in order, until it stops receiving.
Numbered ==
  /\ cl.open # "yes" <=> sv.conn = "none"
  /\ sv.conn = "none" => cl.counter = 0 /\ sv.recv = "none"
  /\ sv.last + Len(up) <= cl.counter
  /\ sv.recv = "on" => \A k \in 1 .. Len(up) : up[k][1] = sv.last + k
  /\ sv.recv = "on" /\ Alive => sv.last + Len(up) = cl.counter

\* Every call has an id of its own.
Identified ==
  /\ \A c \in Caller : id[c] <= cl.counter
  /\ \A c \in Caller : at[c] \in {"idle", "refused", "opening"} => id[c] = 0
  /\ \A c \in Caller : at[c] \in {"drain", "wait"} => id[c] # 0
  /\ \A a, b \in Caller : id[a] = id[b] /\ id[a] # 0 => a = b
  /\ cl.pending \subseteq 1 .. cl.counter

\* A reply, wherever it is, belongs to a call that ran to its end.
Honest ==
  /\ \A k \in 1 .. Len(sv.completed) :
       sv.completed[k] \in Ids /\ sv.task[sv.completed[k]] = "done"
  /\ \A k \in 1 .. Len(down) :
       down[k][2] = "reply" => down[k][1] \in Ids /\ sv.task[down[k][1]] = "done"
  /\ \A c \in Caller : future[c] = "reply" => id[c] \in Ids /\ sv.task[id[c]] = "done"

\* While the receive loop is on, a call that waits has its entry in pending.
Awaited ==
  \A c \in Caller : kind = "async" /\ at[c] \in {"drain", "wait"} /\ future[c] = "none" =>
    cl.recv = "on" /\ id[c] \in cl.pending

\* What the blocking client does not do.
Blocking ==
  kind = "sync" =>
    /\ cl.recv = "none" /\ cl.open \in {"no", "yes", "failed"} /\ cl.closing \in {"no", "done"}
    /\ \A c \in Caller : at[c] \notin {"opening", "drain"} /\ future[c] = "none"
    /\ \A b, c \in Caller : at[b] = "wait" /\ at[c] = "wait" => b = c
    /\ \A c \in Caller : at[c] = "wait" => cl.closing = "no" /\ cl.broken /\ id[c] = cl.counter
    /\ upEnd => cl.closing = "done"

\* The calls of the blocking client that are not answered: at most one, the
\* last, and none while the client is usable.
Begun == {i \in Ids : sv.task[i] = "begun"}
InTransit ==
  Len(up) + (IF Begun = {} THEN 0 ELSE 1) + Len(sv.completed) + Len(down)

OneAtATime ==
  kind = "sync" /\ cl.closing = "no" =>
    /\ InTransit <= 1 /\ (~cl.broken => InTransit = 0)
    /\ \A k \in 1 .. Len(up) : up[k] = <<cl.counter, "call">>
    /\ \A i \in Begun : i = cl.counter
    /\ \A k \in 1 .. Len(sv.completed) : sv.completed[k] = cl.counter
    /\ \A k \in 1 .. Len(down) : down[k][1] = cl.counter

IInv == Types /\ Numbered /\ Identified /\ Honest /\ Awaited /\ Blocking /\ OneAtATime
-----------------------------------------------------------------------------
(***************************************************************************)
(* The types.                                                              *)
(***************************************************************************)
LEMMA TypesInit == Init => Types
<1> SUFFICES ASSUME Init PROVE Types
  OBVIOUS
<1>1. cl \in ClientType
  BY DEF Init, ClientType
<1>2. sv \in ServerType /\ Len(sv.task) = sv.last
  <2> DEFINE none == << >>
  <2>1. none \in Seq(Fate) /\ none \in Seq(Nat) /\ Len(none) = 0
    OBVIOUS
  <2>2. sv = [listening |-> TRUE, conn |-> "none", stop |-> FALSE, recv |-> "none",
              send |-> "none", last |-> 0, task |-> none, completed |-> none]
    BY DEF Init
  <2> HIDE DEF none
  <2> QED BY <2>1, <2>2 DEF ServerType
<1>3. up \in Seq(Requests) /\ down \in Seq(Responses)
  BY DEF Init
<1> QED BY <1>1, <1>2, <1>3, ConnectionAssumption DEF Init, Types, Places

\* The server and the client, field by field, and what each action leaves of
\* them: the other proofs do not take the record apart.
Server(listening, conn, stop, recv, send, last, task, completed) ==
  [listening |-> listening, conn |-> conn, stop |-> stop, recv |-> recv, send |-> send,
   last |-> last, task |-> task, completed |-> completed]

Client(counter, open, pending, stop, recv, closing, broken) ==
  [counter |-> counter, open |-> open, pending |-> pending, stop |-> stop, recv |-> recv,
   closing |-> closing, broken |-> broken]

\* The tasks when that of the call i is done.
Marked(i) == [sv.task EXCEPT ![i] = "done"]

\* The types of the fields of the server.
Fields(listening, conn, stop, recv, send, last, task, completed) ==
  /\ listening \in BOOLEAN /\ conn \in {"none", "on", "done"} /\ stop \in BOOLEAN
  /\ recv \in {"none", "on", "gather", "off"} /\ send \in {"none", "on", "off", "failed"}
  /\ last \in Nat /\ task \in Seq(Fate) /\ completed \in Seq(Nat)

LEMMA ServerMember ==
  ASSUME NEW listening, NEW conn, NEW stop, NEW recv, NEW send, NEW last, NEW task, NEW completed,
         Fields(listening, conn, stop, recv, send, last, task, completed),
         sv' = Server(listening, conn, stop, recv, send, last, task, completed)
  PROVE  sv' \in ServerType /\ sv'.last = last /\ sv'.task = task
<1>1. Server(listening, conn, stop, recv, send, last, task, completed) \in ServerType
  BY DEF Fields, Server, ServerType
<1> QED BY <1>1 DEF Server

LEMMA ServerFields ==
  ASSUME NEW s \in ServerType
  PROVE  Fields(s.listening, s.conn, s.stop, s.recv, s.send, s.last, s.task, s.completed)
BY DEF Fields, ServerType

LEMMA ServerShape ==
  ASSUME NEW s \in ServerType
  PROVE  s = Server(s.listening, s.conn, s.stop, s.recv, s.send, s.last, s.task, s.completed)
BY DEF ServerType, Server

LEMMA ClientShape ==
  ASSUME NEW r \in ClientType
  PROVE  r = Client(r.counter, r.open, r.pending, r.stop, r.recv, r.closing, r.broken)
BY DEF ClientType, Client

LEMMA ServerActions ==
  ASSUME sv \in ServerType
  PROVE
  /\ ServerStopsReceiving =>
       sv' = Server(sv.listening, sv.conn, TRUE, "gather", sv.send, sv.last, sv.task, sv.completed)
  /\ Gathered =>
       sv' = Server(sv.listening, sv.conn, sv.stop, "off", sv.send, sv.last, sv.task, sv.completed)
  /\ StopSending =>
       sv' = Server(sv.listening, sv.conn, sv.stop, sv.recv, "off", sv.last, sv.task, sv.completed)
  /\ CancelHandlers =>
       sv' = Server(sv.listening, sv.conn, sv.stop, "off", sv.send, sv.last, Cut, sv.completed)
  /\ Served =>
       sv' = Server(sv.listening, "done", sv.stop, sv.recv, sv.send, sv.last, sv.task, sv.completed)
  /\ StopServer =>
       sv' = Server(FALSE, sv.conn, sv.stop \/ sv.conn = "on", sv.recv, sv.send, sv.last, sv.task,
                    sv.completed)
  /\ ServerDies =>
       sv' = Server(FALSE, "done", sv.stop, "off", "off", sv.last, Cut, sv.completed)
  /\ SendReply =>
       \/ sv' = Server(sv.listening, sv.conn, TRUE, sv.recv, "off", sv.last, sv.task,
                       Tail(sv.completed))
       \/ \E send \in {sv.send, "failed"} :
            sv' = Server(sv.listening, sv.conn, sv.stop, sv.recv, send, sv.last, sv.task,
                         Tail(sv.completed))
  /\ \A i \in Ids : QueueReply(i) =>
       sv' = Server(sv.listening, sv.conn, sv.stop, sv.recv, sv.send, sv.last,
                    Marked(i), Append(sv.completed, i))
  /\ Accepted =
       Server(sv.listening, "on", sv.stop, "on", "on", sv.last, sv.task, sv.completed)
<1>1. sv = Server(sv.listening, sv.conn, sv.stop, sv.recv, sv.send, sv.last, sv.task, sv.completed)
  BY ServerShape
<1>2. ServerStopsReceiving =>
        sv' = Server(sv.listening, sv.conn, TRUE, "gather", sv.send, sv.last, sv.task, sv.completed)
  BY <1>1 DEF ServerStopsReceiving, Server
<1>3. Gathered =>
        sv' = Server(sv.listening, sv.conn, sv.stop, "off", sv.send, sv.last, sv.task, sv.completed)
  BY <1>1 DEF Gathered, Server
<1>4. StopSending =>
        sv' = Server(sv.listening, sv.conn, sv.stop, sv.recv, "off", sv.last, sv.task, sv.completed)
  BY <1>1 DEF StopSending, Server
<1>5. CancelHandlers =>
        sv' = Server(sv.listening, sv.conn, sv.stop, "off", sv.send, sv.last, Cut, sv.completed)
  BY <1>1 DEF CancelHandlers, Server
<1>6. Served =>
        sv' = Server(sv.listening, "done", sv.stop, sv.recv, sv.send, sv.last, sv.task, sv.completed)
  BY <1>1 DEF Served, Server
<1>7. StopServer =>
        sv' = Server(FALSE, sv.conn, sv.stop \/ sv.conn = "on", sv.recv, sv.send, sv.last, sv.task,
                     sv.completed)
  <2> DEFINE stop == sv.stop \/ sv.conn = "on"
  <2>1. StopServer => sv' = [sv EXCEPT !.listening = FALSE, !.stop = stop]
    BY DEF StopServer
  <2> HIDE DEF stop
  <2>2. StopServer =>
          sv' = Server(FALSE, sv.conn, stop, sv.recv, sv.send, sv.last, sv.task, sv.completed)
    BY <1>1, <2>1 DEF Server
  <2> QED BY <2>2 DEF stop
<1>8. ServerDies =>
        sv' = Server(FALSE, "done", sv.stop, "off", "off", sv.last, Cut, sv.completed)
  BY <1>1 DEF ServerDies, Server
<1>9. SendReply =>
        \/ sv' = Server(sv.listening, sv.conn, TRUE, sv.recv, "off", sv.last, sv.task,
                        Tail(sv.completed))
        \/ \E send \in {sv.send, "failed"} :
             sv' = Server(sv.listening, sv.conn, sv.stop, sv.recv, send, sv.last, sv.task,
                          Tail(sv.completed))
  <2> DEFINE t == Tail(sv.completed)
             rest == [sv EXCEPT !.completed = t]
  <2>1. SendReply => \/ sv' = [rest EXCEPT !.stop = TRUE, !.send = "off"]
                     \/ sv' = [rest EXCEPT !.send = "failed"]
                     \/ sv' = rest
    BY DEF SendReply
  <2> HIDE DEF t
  <2>2. rest = Server(sv.listening, sv.conn, sv.stop, sv.recv, sv.send, sv.last, sv.task, t)
    BY <1>1 DEF Server
  <2> HIDE DEF rest
  <2>3. [rest EXCEPT !.stop = TRUE, !.send = "off"] =
          Server(sv.listening, sv.conn, TRUE, sv.recv, "off", sv.last, sv.task, t)
    <3> DEFINE ends == [rest EXCEPT !.stop = TRUE, !.send = "off"]
    <3>1. ends = [rest EXCEPT !.stop = TRUE, !.send = "off"]
      OBVIOUS
    <3> HIDE DEF ends
    <3>2. ends = Server(sv.listening, sv.conn, TRUE, sv.recv, "off", sv.last, sv.task, t)
      BY <2>2, <3>1 DEF Server
    <3> QED BY <3>2 DEF ends
  <2>4. [rest EXCEPT !.send = "failed"] =
          Server(sv.listening, sv.conn, sv.stop, sv.recv, "failed", sv.last, sv.task, t)
    BY <2>2 DEF Server
  <2> QED BY <2>1, <2>2, <2>3, <2>4 DEF t
<1>10. ASSUME NEW i \in Ids, QueueReply(i)
       PROVE  sv' = Server(sv.listening, sv.conn, sv.stop, sv.recv, sv.send, sv.last,
                           Marked(i), Append(sv.completed, i))
  <2> DEFINE task == Marked(i)
             completed == Append(sv.completed, i)
  <2>1. sv' = [sv EXCEPT !.task = task, !.completed = completed]
    BY <1>10 DEF QueueReply, Marked, ServerType
  <2> HIDE DEF task, completed
  <2>2. sv' = Server(sv.listening, sv.conn, sv.stop, sv.recv, sv.send, sv.last, task, completed)
    BY <1>1, <2>1 DEF Server
  <2> QED BY <2>2 DEF task, completed
<1>11. Accepted =
         Server(sv.listening, "on", sv.stop, "on", "on", sv.last, sv.task, sv.completed)
  <2>1. Accepted = [sv EXCEPT !.conn = "on", !.recv = "on", !.send = "on"]
    BY DEF Accepted
  <2> QED BY <1>1, <2>1 DEF Server
<1> QED BY <1>2, <1>3, <1>4, <1>5, <1>6, <1>7, <1>8, <1>9, <1>10, <1>11

LEMMA ClientActions ==
  ASSUME cl \in ClientType
  PROVE
  /\ \A c \in Caller : EnsureConnected(c) \/ GiveUp(c) \/ Drain(c) \/ Send(c) =>
       \/ cl' = cl
       \/ \E open \in {"opening", "cancelled"} :
            cl' = Client(cl.counter, open, cl.pending, cl.stop, cl.recv, cl.closing, cl.broken)
       \/ cl' = Client(cl.counter, cl.open, cl.pending \ {id[c]}, cl.stop, cl.recv, cl.closing,
                       cl.broken)
       \/ cl' = Client(NextCallId, cl.open, cl.pending \cup {NextCallId}, cl.stop, cl.recv,
                       cl.closing, cl.broken)
  /\ OpenConnection =>
       \/ cl' = Client(cl.counter, "yes", cl.pending, cl.stop, "on", cl.closing, cl.broken)
       \/ cl' = Client(cl.counter, "failed", cl.pending, cl.stop, cl.recv, cl.closing, cl.broken)
  /\ \A how \in {"failed", "off"} : EndRecvLoop(how) =>
       cl' = Client(cl.counter, cl.open, {}, TRUE, how, cl.closing, cl.broken)
  /\ Close \/ CloseUnconnected \/ CloseReturns =>
       \E closing \in {"connect", "done"} :
         cl' = Client(cl.counter, cl.open, cl.pending, cl.stop, cl.recv, closing, cl.broken)
  /\ CloseRequest =>
       cl' = Client(NextCallId, cl.open, cl.pending, cl.stop, cl.recv, "send", cl.broken)
  /\ CloseWriter =>
       cl' = Client(cl.counter, cl.open, cl.pending, TRUE, cl.recv, "recv", cl.broken)
  /\ \A c \in Caller : SyncReceive(c) =>
       \E broken \in BOOLEAN :
         cl' = Client(cl.counter, cl.open, cl.pending, cl.stop, cl.recv, cl.closing, broken)
  /\ ClientDies =>
       \E recv \in {"off", "none"} :
         cl' = Client(cl.counter, cl.open, {}, TRUE, recv, "done", TRUE)
<1>1. cl = Client(cl.counter, cl.open, cl.pending, cl.stop, cl.recv, cl.closing, cl.broken)
  BY ClientShape
<1>2. ASSUME NEW c \in Caller, EnsureConnected(c) \/ GiveUp(c) \/ Drain(c) \/ Send(c)
      PROVE  \/ cl' = cl
             \/ \E open \in {"opening", "cancelled"} :
                  cl' = Client(cl.counter, open, cl.pending, cl.stop, cl.recv, cl.closing,
                               cl.broken)
             \/ cl' = Client(cl.counter, cl.open, cl.pending \ {id[c]}, cl.stop, cl.recv,
                             cl.closing, cl.broken)
             \/ cl' = Client(NextCallId, cl.open, cl.pending \cup {NextCallId}, cl.stop, cl.recv,
                             cl.closing, cl.broken)
  <2> DEFINE without == cl.pending \ {id[c]}
             with == cl.pending \cup {NextCallId}
  <2>1. \/ cl' = cl
        \/ cl' = [cl EXCEPT !.open = "opening"]
        \/ cl' = [cl EXCEPT !.open = "cancelled"]
        \/ cl' = [cl EXCEPT !.pending = without]
        \/ cl' = [cl EXCEPT !.counter = NextCallId, !.pending = with]
    BY <1>2 DEF EnsureConnected, GiveUp, Drain, Send, NextCallId
  <2> HIDE DEF without, with
  <2>2. cl' = [cl EXCEPT !.open = "opening"] =>
          cl' = Client(cl.counter, "opening", cl.pending, cl.stop, cl.recv, cl.closing, cl.broken)
    BY <1>1 DEF Client
  <2>3. cl' = [cl EXCEPT !.open = "cancelled"] =>
          cl' = Client(cl.counter, "cancelled", cl.pending, cl.stop, cl.recv, cl.closing,
                       cl.broken)
    BY <1>1 DEF Client
  <2>4. cl' = [cl EXCEPT !.pending = without] =>
          cl' = Client(cl.counter, cl.open, without, cl.stop, cl.recv, cl.closing, cl.broken)
    BY <1>1 DEF Client
  <2>5. cl' = [cl EXCEPT !.counter = NextCallId, !.pending = with] =>
          cl' = Client(NextCallId, cl.open, with, cl.stop, cl.recv, cl.closing, cl.broken)
    BY <1>1 DEF Client
  <2> QED BY <2>1, <2>2, <2>3, <2>4, <2>5 DEF without, with
<1>3. OpenConnection =>
        \/ cl' = Client(cl.counter, "yes", cl.pending, cl.stop, "on", cl.closing, cl.broken)
        \/ cl' = Client(cl.counter, "failed", cl.pending, cl.stop, cl.recv, cl.closing, cl.broken)
  BY <1>1 DEF OpenConnection, Client
<1>4. ASSUME NEW how \in {"failed", "off"}, EndRecvLoop(how)
      PROVE  cl' = Client(cl.counter, cl.open, {}, TRUE, how, cl.closing, cl.broken)
  BY <1>1, <1>4 DEF EndRecvLoop, Client
<1>5. ASSUME Close \/ CloseUnconnected \/ CloseReturns
      PROVE  \E closing \in {"connect", "done"} :
               cl' = Client(cl.counter, cl.open, cl.pending, cl.stop, cl.recv, closing, cl.broken)
  <2>1. PICK closing \in {"connect", "done"} : cl' = [cl EXCEPT !.closing = closing]
    BY <1>5 DEF Close, CloseUnconnected, CloseReturns
  <2> QED BY <1>1, <2>1 DEF Client
<1>6. ASSUME CloseRequest
      PROVE  cl' = Client(NextCallId, cl.open, cl.pending, cl.stop, cl.recv, "send", cl.broken)
  BY <1>1, <1>6 DEF CloseRequest, NextCallId, Client
<1>7. ASSUME CloseWriter
      PROVE  cl' = Client(cl.counter, cl.open, cl.pending, TRUE, cl.recv, "recv", cl.broken)
  BY <1>1, <1>7 DEF CloseWriter, Client
<1>8. ASSUME NEW c \in Caller, SyncReceive(c)
      PROVE  \E broken \in BOOLEAN :
               cl' = Client(cl.counter, cl.open, cl.pending, cl.stop, cl.recv, cl.closing, broken)
  <2>1. PICK broken \in BOOLEAN : cl' = [cl EXCEPT !.broken = broken]
    BY <1>8 DEF SyncReceive
  <2> QED BY <1>1, <2>1 DEF Client
<1>9. ASSUME ClientDies
      PROVE  \E recv \in {"off", "none"} :
               cl' = Client(cl.counter, cl.open, {}, TRUE, recv, "done", TRUE)
  <2>1. PICK recv \in {"off", "none"} :
          cl' = [cl EXCEPT !.closing = "done", !.stop = TRUE, !.pending = {}, !.broken = TRUE,
                           !.recv = recv]
    BY <1>9 DEF ClientDies
  <2> QED BY <1>1, <2>1 DEF Client
<1> QED BY <1>2, <1>3, <1>4, <1>5, <1>6, <1>7, <1>8, <1>9

\* What the steps of a call change together.
LEMMA CallChanges ==
  ASSUME cl \in ClientType, NEW c \in Caller
  PROVE
  /\ Send(c) =>
       \/ Disconnected /\ at' = [at EXCEPT ![c] = "lost"] /\ UNCHANGED <<id, cl, up>>
       \/ /\ ~Disconnected
          /\ at' = [at EXCEPT ![c] = "drain"] /\ id' = [id EXCEPT ![c] = NextCallId]
          /\ cl' = Client(NextCallId, cl.open, cl.pending \cup {NextCallId}, cl.stop, cl.recv,
                          cl.closing, cl.broken)
          /\ up' = Written(NextCallId, "call")
  /\ Drain(c) =>
       \/ /\ at' = [at EXCEPT ![c] = "lost"]
          /\ cl' = Client(cl.counter, cl.open, cl.pending \ {id[c]}, cl.stop, cl.recv, cl.closing,
                          cl.broken)
       \/ at' = [at EXCEPT ![c] = "wait"] /\ UNCHANGED cl
  /\ SyncCall(c) =>
       LET joins == cl.open = "no" /\ sv.listening
           open == IF joins THEN "yes" ELSE IF cl.open = "no" THEN "failed" ELSE cl.open
       IN \/ /\ open = "failed" \/ sv.conn = "done"
             /\ at' = [at EXCEPT ![c] = "lost"] /\ UNCHANGED <<id, up>>
             /\ \E broken \in BOOLEAN :
                  cl' = Client(cl.counter, open, cl.pending, cl.stop, cl.recv, cl.closing, broken)
          \/ /\ ~(open = "failed" \/ sv.conn = "done")
             /\ at' = [at EXCEPT ![c] = "wait"] /\ id' = [id EXCEPT ![c] = NextCallId]
             /\ cl' = Client(NextCallId, open, cl.pending, cl.stop, cl.recv, cl.closing, TRUE)
             /\ up' = Append(up, <<NextCallId, "call">>)
<1>1. cl = Client(cl.counter, cl.open, cl.pending, cl.stop, cl.recv, cl.closing, cl.broken)
  BY ClientShape
<1>2. ASSUME Send(c), ~Disconnected
      PROVE  cl' = Client(NextCallId, cl.open, cl.pending \cup {NextCallId}, cl.stop, cl.recv,
                          cl.closing, cl.broken)
  <2> DEFINE with == cl.pending \cup {NextCallId}
  <2>1. cl' = [cl EXCEPT !.counter = NextCallId, !.pending = with]
    BY <1>2 DEF Send, NextCallId
  <2> HIDE DEF with
  <2>2. cl' = Client(NextCallId, cl.open, with, cl.stop, cl.recv, cl.closing, cl.broken)
    BY <1>1, <2>1 DEF Client
  <2> QED BY <2>2 DEF with
<1>3. Send(c) =>
        \/ Disconnected /\ at' = [at EXCEPT ![c] = "lost"] /\ UNCHANGED <<id, cl, up>>
        \/ /\ ~Disconnected
           /\ at' = [at EXCEPT ![c] = "drain"] /\ id' = [id EXCEPT ![c] = NextCallId]
           /\ cl' = Client(NextCallId, cl.open, cl.pending \cup {NextCallId}, cl.stop, cl.recv,
                           cl.closing, cl.broken)
           /\ up' = Written(NextCallId, "call")
  BY <1>2 DEF Send
<1>4. Drain(c) =>
        \/ /\ at' = [at EXCEPT ![c] = "lost"]
           /\ cl' = Client(cl.counter, cl.open, cl.pending \ {id[c]}, cl.stop, cl.recv, cl.closing,
                           cl.broken)
        \/ at' = [at EXCEPT ![c] = "wait"] /\ UNCHANGED cl
  <2> DEFINE without == cl.pending \ {id[c]}
  <2>1. Drain(c) =>
          \/ at' = [at EXCEPT ![c] = "lost"] /\ cl' = [cl EXCEPT !.pending = without]
          \/ at' = [at EXCEPT ![c] = "wait"] /\ UNCHANGED cl
    BY DEF Drain
  <2> HIDE DEF without
  <2>2. cl' = [cl EXCEPT !.pending = without] =>
          cl' = Client(cl.counter, cl.open, without, cl.stop, cl.recv, cl.closing, cl.broken)
    BY <1>1 DEF Client
  <2> QED BY <2>1, <2>2 DEF without
<1> DEFINE joins == cl.open = "no" /\ sv.listening
           open == IF joins THEN "yes" ELSE IF cl.open = "no" THEN "failed" ELSE cl.open
<1>5. SyncCall(c) =>
        \/ /\ open = "failed" \/ sv.conn = "done"
           /\ at' = [at EXCEPT ![c] = "lost"] /\ UNCHANGED <<id, up>>
           /\ \E broken \in BOOLEAN :
                cl' = Client(cl.counter, open, cl.pending, cl.stop, cl.recv, cl.closing, broken)
        \/ /\ ~(open = "failed" \/ sv.conn = "done")
           /\ at' = [at EXCEPT ![c] = "wait"] /\ id' = [id EXCEPT ![c] = NextCallId]
           /\ cl' = Client(NextCallId, open, cl.pending, cl.stop, cl.recv, cl.closing, TRUE)
           /\ up' = Append(up, <<NextCallId, "call">>)
  <2>1. SyncCall(c) =>
          \/ /\ open = "failed" \/ sv.conn = "done"
             /\ at' = [at EXCEPT ![c] = "lost"] /\ UNCHANGED <<id, up>>
             /\ \E broken \in BOOLEAN : cl' = [cl EXCEPT !.open = open, !.broken = broken]
          \/ /\ ~(open = "failed" \/ sv.conn = "done")
             /\ at' = [at EXCEPT ![c] = "wait"] /\ id' = [id EXCEPT ![c] = NextCallId]
             /\ cl' = [cl EXCEPT !.open = open, !.broken = TRUE, !.counter = NextCallId]
             /\ up' = Append(up, <<NextCallId, "call">>)
    BY DEF SyncCall, NextCallId
  <2> HIDE DEF joins, open
  <2>2. ASSUME NEW broken \in BOOLEAN, cl' = [cl EXCEPT !.open = open, !.broken = broken]
        PROVE  cl' = Client(cl.counter, open, cl.pending, cl.stop, cl.recv, cl.closing, broken)
    BY <1>1, <2>2 DEF Client
  <2>3. cl' = [cl EXCEPT !.open = open, !.broken = TRUE, !.counter = NextCallId] =>
          cl' = Client(NextCallId, open, cl.pending, cl.stop, cl.recv, cl.closing, TRUE)
    BY <1>1 DEF Client
  <2> QED BY <2>1, <2>2, <2>3
<1> QED BY <1>3, <1>4, <1>5

\* The fields of the client that count and collect ids.
LEMMA ClientFields ==
  ASSUME NEW r \in ClientType
  PROVE  /\ r.counter \in Nat /\ r.counter + 1 \in Nat /\ r.pending \in SUBSET Nat
         /\ \A i \in Nat : r.pending \cup {i} \in SUBSET Nat /\ r.pending \ {i} \in SUBSET Nat
         /\ {} \in SUBSET Nat
BY DEF ClientType

LEMMA Tasks ==
  ASSUME NEW S, NEW n \in Nat, NEW f \in [1 .. n -> S]
  PROVE  f \in Seq(S) /\ Len(f) = n
BY SeqDef

\* What a read leaves, and what a write adds.
LEMMA Queues ==
  ASSUME NEW S, NEW q \in Seq(S)
  PROVE  /\ Len(q) \in Nat
         /\ \A e \in S : Append(q, e) \in Seq(S) /\ Len(Append(q, e)) = Len(q) + 1
         /\ q # << >> => Tail(q) \in Seq(S) /\ Head(q) \in S /\ Head(q) = q[1]
                         /\ Len(Tail(q)) = Len(q) - 1 /\ Len(q) > 0
         /\ \A n \in 0 .. Len(q) : SubSeq(q, 1, n) \in Seq(S) /\ Len(SubSeq(q, 1, n)) = n
OBVIOUS

LEMMA ClientTypes ==
  ASSUME Types,
         \/ \E c \in Caller : \/ Refuse(c) \/ EnsureConnected(c) \/ NotConnected(c) \/ Send(c)
                              \/ Drain(c) \/ Return(c) \/ GiveUp(c)
         \/ OpenConnection \/ Receive \/ StopReceiving
         \/ Close \/ CloseUnconnected \/ CloseRequest \/ CloseWriter \/ CloseReturns
  PROVE  Types'
<1> USE DEF Types, Places, Calling
<1>1. ASSUME NEW c \in Caller, Refuse(c) \/ NotConnected(c) \/ Return(c) PROVE Types'
  BY <1>1 DEF Refuse, NotConnected, Return, wire
<1>2. ASSUME NEW c \in Caller, EnsureConnected(c) PROVE Types'
  <2>1. cl' \in ClientType
    BY <1>2, ClientActions DEF EnsureConnected, Client, ClientType
  <2> QED BY <1>2, <2>1 DEF EnsureConnected, wire
<1>3. NextCallId \in Nat /\ Written(NextCallId, "call") \in Seq(Requests)
      /\ Written(NextCallId, "close") \in Seq(Requests)
  BY ClientFields DEF Written, Requests, NextCallId
<1>4. ASSUME NEW c \in Caller, Send(c) PROVE Types'
  <2> DEFINE with == cl.pending \cup {NextCallId}
  <2>1. with \in SUBSET Nat /\ NextCallId \in Nat
    BY <1>3, ClientFields
  <2>2. cl' = cl \/ cl' = [cl EXCEPT !.counter = NextCallId, !.pending = with]
    BY <1>4 DEF Send, NextCallId
  <2> HIDE DEF with
  <2>3. cl' \in ClientType
    BY <2>1, <2>2 DEF ClientType
  <2> QED BY <1>3, <1>4, <2>3 DEF Send
<1>5. ASSUME NEW c \in Caller, Drain(c) \/ GiveUp(c) PROVE Types'
  <2>1. cl.pending \ {id[c]} \in SUBSET Nat
    BY ClientFields
  <2>2. cl' \in ClientType
    <3>1. \/ cl' = cl
          \/ \E open \in {"opening", "cancelled"} :
               cl' = Client(cl.counter, open, cl.pending, cl.stop, cl.recv, cl.closing, cl.broken)
          \/ cl' = Client(cl.counter, cl.open, cl.pending \ {id[c]}, cl.stop, cl.recv, cl.closing,
                          cl.broken)
          \/ cl' = Client(NextCallId, cl.open, cl.pending \cup {NextCallId}, cl.stop, cl.recv,
                          cl.closing, cl.broken)
      BY <1>5, ClientActions
    <3>2. NextCallId \in Nat /\ cl.pending \cup {NextCallId} \in SUBSET Nat
      BY <1>3, ClientFields
    <3> QED BY <2>1, <3>1, <3>2 DEF Client, ClientType
  <2> QED BY <1>5, <2>2 DEF Drain, GiveUp, wire
<1>6. CASE OpenConnection
  <2>1. cl' \in ClientType
    BY <1>6, ClientActions DEF OpenConnection, Client, ClientType
  <2>2. Accepted \in ServerType /\ Len(Accepted.task) = Accepted.last
    BY ServerActions DEF Accepted, Server, ServerType
  <2>3. sv' = sv \/ sv' = Accepted
    BY <1>6 DEF OpenConnection
  <2> QED BY <1>6, <2>1, <2>2, <2>3 DEF OpenConnection, caller, wire
<1>7. ASSUME NEW how \in {"failed", "off"}, EndRecvLoop(how)
      PROVE  /\ cl' \in ClientType /\ future' \in [Caller -> {"none", "reply", "nothing", "lost"}]
             /\ UNCHANGED <<kind, at, id, up, upEnd, downEnd, sv>>
  BY <1>7, ClientActions DEF EndRecvLoop, Failing, Client, ClientType
<1>8. CASE Receive
  <2>1. down' \in Seq(Responses)
        /\ Head(down)[1] \in Nat /\ Head(down)[2] \in {"reply", "nothing"}
    BY <1>8 DEF Receive, Responses
  <2>2. CASE EndRecvLoop("failed")
    BY <1>7, <1>8, <2>1, <2>2
  <2>3. CASE ~EndRecvLoop("failed")
    <3>1. cl' = [cl EXCEPT !.pending = @ \ {Head(down)[1]}]
          /\ future' = [c \in Caller |-> IF id[c] = Head(down)[1] /\ at[c] # "gone"
                                         THEN Head(down)[2] ELSE future[c]]
          /\ UNCHANGED <<kind, at, id, up, upEnd, downEnd, sv>>
      BY <1>8, <2>3 DEF Receive, PopPending
    <3>2. cl.pending \ {Head(down)[1]} \in SUBSET Nat
      BY ClientFields
    <3>3. cl' \in ClientType
      BY <3>1, <3>2 DEF ClientType
    <3> QED BY <2>1, <3>1, <3>3
  <2> QED BY <2>2, <2>3
<1>9. CASE StopReceiving
  BY <1>7, <1>9 DEF StopReceiving
<1>10. CASE Close \/ CloseUnconnected \/ CloseReturns
  <2>1. cl' \in ClientType
    BY <1>10, ClientActions DEF Close, CloseUnconnected, CloseReturns, Client, ClientType
  <2> QED BY <1>10, <2>1 DEF Close, CloseUnconnected, CloseReturns, caller, wire
<1>11. CASE CloseRequest
  <2>1. cl' \in ClientType
    BY <1>11, ClientFields, ClientActions DEF CloseRequest, Client, ClientType
  <2> QED BY <1>3, <1>11, <2>1 DEF CloseRequest, caller
<1>12. CASE CloseWriter
  <2>1. cl' \in ClientType
    BY <1>12, ClientActions DEF CloseWriter, Client, ClientType
  <2>2. up' \in Seq(Requests)
    <3>1. up' = up \/ \E n \in 0 .. Len(up) : up' = SubSeq(up, 1, n)
      BY <1>12, Queues DEF CloseWriter
    <3> QED BY <3>1, Queues
  <2> QED BY <1>12, <2>1, <2>2 DEF CloseWriter, caller
<1> QED
  BY <1>1, <1>2, <1>4, <1>5, <1>6, <1>8, <1>9, <1>10, <1>11, <1>12

LEMMA SyncTypes ==
  ASSUME Types,
         \/ \E c \in Caller : SyncCall(c) \/ SyncReceive(c) \/ SyncLost(c) \/ SyncTimeout(c)
         \/ SyncClose
  PROVE  Types'
<1> USE DEF Types, Places, Calling
<1>1. ASSUME NEW c \in Caller, SyncCall(c) PROVE Types'
  <2>1. NextCallId \in Nat /\ Append(up, <<NextCallId, "call">>) \in Seq(Requests)
    BY ClientFields DEF Requests, NextCallId
  <2>6. cl' \in ClientType
    <3>1. PICK n \in {cl.counter, NextCallId}, open \in {"yes", "failed", cl.open},
               broken \in BOOLEAN :
            cl' = Client(n, open, cl.pending, cl.stop, cl.recv, cl.closing, broken)
      BY <1>1, CallChanges
    <3>2. open \in {"no", "opening", "yes", "failed", "cancelled"} /\ n \in Nat
      BY <2>1, ClientFields DEF ClientType
    <3> QED BY <3>1, <3>2 DEF Client, ClientType
  <2>3. sv' \in ServerType /\ Len(sv'.task) = sv'.last
    BY <1>1, ServerActions DEF SyncCall, Accepted, Server, ServerType
  <2>4. at' \in [Caller -> Places] /\ id' \in [Caller -> Nat]
    BY <1>1, <2>1 DEF SyncCall
  <2>5. up' \in Seq(Requests)
    BY <1>1, <2>1 DEF SyncCall
  <2> QED BY <1>1, <2>3, <2>4, <2>5, <2>6 DEF SyncCall
<1>2. ASSUME NEW c \in Caller, SyncReceive(c) PROVE Types'
  <2>1. cl' \in ClientType
    BY <1>2, ClientActions DEF SyncReceive, Client, ClientType
  <2> QED BY <1>2, <2>1 DEF SyncReceive
<1>3. ASSUME NEW c \in Caller, SyncLost(c) \/ SyncTimeout(c) PROVE Types'
  BY <1>3 DEF SyncLost, SyncTimeout, wire
<1>4. CASE SyncClose
  <2>1. NextCallId \in Nat /\ Written(NextCallId, "close") \in Seq(Requests)
    BY ClientFields DEF Requests, NextCallId, Written
  <2>2. cl' \in ClientType
    <3>1. cl.counter + 1 \in Nat /\ cl.counter + 0 = cl.counter /\ cl.counter \in Nat
      BY ClientFields
    <3>2. \E n \in Nat : cl' = [cl EXCEPT !.closing = "done", !.counter = n]
      BY <1>4, <3>1 DEF SyncClose
    <3> QED BY <3>2 DEF ClientType
  <2> QED BY <1>4, <2>1, <2>2 DEF SyncClose, caller
<1> QED BY <1>1, <1>2, <1>3, <1>4

\* A message that is not read has the next id, so that a task is added at the
\* end.
LEMMA ServerTypes ==
  ASSUME Types, Numbered,
         \/ ServerReceives \/ ServerStopsReceiving \/ Gathered \/ SendReply \/ StopSending
         \/ \E i \in Ids : QueueReply(i)
         \/ CancelHandlers \/ Served \/ StopServer \/ ServerDies \/ ClientDies
  PROVE  Types'
<1> USE DEF Types, Places, Calling
<1>1. CASE ServerReceives
  <2> DEFINE i == Head(up)[1]
             longer == [j \in 1 .. i |-> IF j = i THEN "begun" ELSE sv.task[j]]
  <2>1. i = sv.last + 1 /\ i \in Nat /\ sv.last \in Nat /\ up' \in Seq(Requests)
    <3>1. up # << >> /\ sv.recv = "on" /\ up' = Tail(up)
      BY <1>1 DEF ServerReceives
    <3>2. Head(up) = up[1] /\ 1 \in 1 .. Len(up) /\ up' \in Seq(Requests)
      BY <3>1, Queues
    <3>3. up[1][1] = sv.last + 1
      BY <3>1, <3>2 DEF Numbered
    <3>4. sv.last \in Nat
      BY DEF ServerType
    <3> QED BY <3>2, <3>3, <3>4
  <2>2. longer \in Seq(Fate) /\ Len(longer) = i
    <3>1. \A j \in 1 .. i : j # i => sv.task[j] \in Fate
      BY <2>1 DEF ServerType
    <3> HIDE DEF i
    <3>2. longer \in [1 .. i -> Fate]
      BY <3>1 DEF Fate
    <3> HIDE DEF longer
    <3>3. i \in Nat
      BY <2>1
    <3> QED BY <3>2, <3>3, Tasks
  <2>3. \/ sv' = [sv EXCEPT !.stop = TRUE, !.recv = "gather"]
        \/ sv' = [sv EXCEPT !.last = i, !.task = longer]
    BY <1>1 DEF ServerReceives, ServerType
  <2> HIDE DEF i, longer
  <2>4. \/ sv' = Server(sv.listening, sv.conn, TRUE, "gather", sv.send, sv.last, sv.task,
                        sv.completed)
        \/ sv' = Server(sv.listening, sv.conn, sv.stop, sv.recv, sv.send, i, longer, sv.completed)
    <3>1. sv = Server(sv.listening, sv.conn, sv.stop, sv.recv, sv.send, sv.last, sv.task,
                      sv.completed)
      BY ServerShape
    <3>2. sv' = [sv EXCEPT !.stop = TRUE, !.recv = "gather"] =>
            sv' = Server(sv.listening, sv.conn, TRUE, "gather", sv.send, sv.last, sv.task,
                         sv.completed)
      BY <3>1 DEF Server
    <3>3. sv' = [sv EXCEPT !.last = i, !.task = longer] =>
            sv' = Server(sv.listening, sv.conn, sv.stop, sv.recv, sv.send, i, longer, sv.completed)
      BY <3>1 DEF Server
    <3> QED BY <2>3, <3>2, <3>3
  <2>5. sv' \in ServerType /\ Len(sv'.task) = sv'.last
    <3>1. /\ Fields(sv.listening, sv.conn, TRUE, "gather", sv.send, sv.last, sv.task, sv.completed)
          /\ Fields(sv.listening, sv.conn, sv.stop, sv.recv, sv.send, i, longer, sv.completed)
      BY <2>1, <2>2, ServerFields DEF Fields
    <3>2. CASE sv' = Server(sv.listening, sv.conn, TRUE, "gather", sv.send, sv.last, sv.task,
                            sv.completed)
      <4>1. PICK stop \in BOOLEAN : /\ sv' = Server(sv.listening, sv.conn, stop, "gather", sv.send,
                                                    sv.last, sv.task, sv.completed)
                                    /\ Fields(sv.listening, sv.conn, stop, "gather", sv.send,
                                              sv.last, sv.task, sv.completed)
        BY <3>1, <3>2
      <4> QED BY <4>1, ServerMember
    <3>3. CASE sv' = Server(sv.listening, sv.conn, sv.stop, sv.recv, sv.send, i, longer,
                            sv.completed)
      BY <2>2, <3>1, <3>3, ServerMember
    <3> QED BY <2>4, <3>2, <3>3
  <2> QED BY <1>1, <2>1, <2>5 DEF ServerReceives, caller
<1>2. CASE ServerStopsReceiving \/ Gathered \/ StopSending \/ Served \/ StopServer
  <2>1. sv' \in ServerType /\ Len(sv'.task) = sv'.last
    <3>1. PICK listening \in BOOLEAN, conn \in {sv.conn, "done"}, stop \in BOOLEAN,
               recv \in {sv.recv, "gather", "off"}, send \in {sv.send, "off"} :
            sv' = Server(listening, conn, stop, recv, send, sv.last, sv.task, sv.completed)
      <4> USE ServerFields DEF Fields
      <4>1. CASE ServerStopsReceiving
        BY <4>1, ServerActions
      <4>2. CASE Gathered
        BY <4>2, ServerActions
      <4>3. CASE StopSending
        BY <4>3, ServerActions
      <4>4. CASE Served
        BY <4>4, ServerActions
      <4>5. CASE StopServer
        BY <4>5, ServerActions
      <4> QED BY <1>2, <4>1, <4>2, <4>3, <4>4, <4>5
    <3>2. Fields(listening, conn, stop, recv, send, sv.last, sv.task, sv.completed)
      BY ServerFields DEF Fields
    <3> QED BY <3>1, <3>2, ServerMember
  <2> QED
    BY <1>2, <2>1 DEF ServerStopsReceiving, Gathered, StopSending, Served, StopServer, caller, wire
<1>3. CASE SendReply
  <2> DEFINE rest == Tail(sv.completed)
  <2>1. rest \in Seq(Nat) /\ Head(sv.completed) \in Nat
    BY <1>3 DEF SendReply, ServerType
  <2>2. PICK stop \in BOOLEAN, send \in {sv.send, "off", "failed"} :
          sv' = Server(sv.listening, sv.conn, stop, sv.recv, send, sv.last, sv.task, rest)
    BY <1>3, ServerActions DEF ServerType
  <2> HIDE DEF rest
  <2>3. sv' \in ServerType /\ Len(sv'.task) = sv'.last
    <3>1. Fields(sv.listening, sv.conn, stop, sv.recv, send, sv.last, sv.task, rest)
      BY <2>1, ServerFields DEF Fields
    <3> QED BY <2>2, <3>1, ServerMember
  <2>4. down' \in Seq(Responses)
    <3> DEFINE nothing == <<Head(sv.completed), "nothing">>
               reply == <<Head(sv.completed), "reply">>
    <3>1. nothing \in Responses /\ reply \in Responses
      BY <2>1 DEF Responses
    <3>2. down' \in {down, Append(down, nothing), Append(down, reply)}
      BY <1>3 DEF SendReply
    <3>3. down \in Seq(Responses)
      OBVIOUS
    <3> HIDE DEF nothing, reply
    <3>4. Append(down, nothing) \in Seq(Responses)
      BY <3>1, <3>3, AppendProperties
    <3>5. Append(down, reply) \in Seq(Responses)
      BY <3>1, <3>3, AppendProperties
    <3> QED BY <3>2, <3>3, <3>4, <3>5
  <2> QED BY <1>3, <2>3, <2>4 DEF SendReply, caller
<1>4. ASSUME NEW i \in Ids, QueueReply(i) PROVE Types'
  <2> DEFINE task == Marked(i)
             completed == Append(sv.completed, i)
  <2>1. task \in Seq(Fate) /\ Len(task) = Len(sv.task) /\ completed \in Seq(Nat)
    BY DEF Ids, ServerType, Fate, Marked
  <2>2. sv' = Server(sv.listening, sv.conn, sv.stop, sv.recv, sv.send, sv.last, task, completed)
    BY <1>4, ServerActions
  <2> HIDE DEF task, completed
  <2>3. sv' \in ServerType /\ Len(sv'.task) = sv'.last
    <3>1. Fields(sv.listening, sv.conn, sv.stop, sv.recv, sv.send, sv.last, task, completed)
      BY <2>1, ServerFields DEF Fields
    <3> QED BY <2>1, <2>2, <3>1, ServerMember
  <2> QED BY <1>4, <2>3 DEF QueueReply, caller, wire
<1>5. Cut \in Seq(Fate) /\ Len(Cut) = sv.last
  <2>1. \A i \in 1 .. sv.last : sv.task[i] \in Fate
    BY DEF ServerType
  <2>2. sv.last \in Nat
    BY DEF ServerType
  <2> DEFINE f == [i \in 1 .. sv.last |-> IF sv.task[i] = "begun" THEN "cut" ELSE sv.task[i]]
  <2>3. f \in [1 .. sv.last -> Fate]
    BY <2>1 DEF Fate
  <2>4. f \in Seq(Fate) /\ Len(f) = sv.last
    <3> HIDE DEF f
    <3> QED BY <2>2, <2>3, Tasks
  <2> QED BY <2>4 DEF Cut, Ids
<1>6. CASE CancelHandlers \/ ServerDies
  <2>1. sv' \in ServerType /\ Len(sv'.task) = sv'.last
    <3>1. PICK listening \in BOOLEAN, conn \in {sv.conn, "done"}, send \in {sv.send, "off"} :
            sv' = Server(listening, conn, sv.stop, "off", send, sv.last, Cut, sv.completed)
      BY <1>6, ServerActions DEF ServerType
    <3>2. Fields(listening, conn, sv.stop, "off", send, sv.last, Cut, sv.completed)
      BY <1>5, ServerFields DEF Fields
    <3> QED BY <1>5, <3>1, <3>2, ServerMember
  <2> QED BY <1>6, <2>1 DEF CancelHandlers, ServerDies, caller, wire
<1>7. CASE ClientDies
  <2>1. cl' \in ClientType
    BY <1>7, ClientActions DEF ClientDies, Client, ClientType
  <2> QED BY <1>7, <2>1 DEF ClientDies
<1> QED BY <1>1, <1>2, <1>3, <1>4, <1>6, <1>7
-----------------------------------------------------------------------------
(***************************************************************************)
(* The numbering of the messages.                                          *)
(***************************************************************************)
LEMMA NumberedAppend ==
  ASSUME NEW q \in Seq(Requests), NEW m \in Requests, NEW last \in Nat,
         \A k \in 1 .. Len(q) : q[k][1] = last + k, m[1] = last + Len(q) + 1
  PROVE  /\ Len(Append(q, m)) = Len(q) + 1
         /\ \A k \in 1 .. Len(Append(q, m)) : Append(q, m)[k][1] = last + k
<1>1. /\ Len(q) \in Nat /\ Len(Append(q, m)) = Len(q) + 1
      /\ \A k \in 1 .. Len(q) : Append(q, m)[k] = q[k]
      /\ Append(q, m)[Len(q) + 1] = m
  BY AppendProperties
<1> QED BY <1>1

LEMMA NumberedTail ==
  ASSUME NEW q \in Seq(Requests), q # << >>, NEW last \in Nat,
         \A k \in 1 .. Len(q) : q[k][1] = last + k
  PROVE  /\ Head(q)[1] = last + 1 /\ Len(Tail(q)) = Len(q) - 1 /\ Len(q) > 0
         /\ \A k \in 1 .. Len(Tail(q)) : Tail(q)[k][1] = last + 1 + k
<1>1. /\ Len(q) \in Nat /\ Len(q) > 0 /\ Len(Tail(q)) = Len(q) - 1 /\ Head(q) = q[1]
      /\ \A k \in 1 .. Len(q) - 1 : Tail(q)[k] = q[k + 1]
  OBVIOUS
<1> QED BY <1>1

LEMMA NumberedInit == Init => Numbered
BY DEF Init, Numbered, Alive

LEMMA NumberedNext ==
  ASSUME Types, Types', Numbered, Blocking, Next PROVE Numbered'
<1>1. /\ cl.counter \in Nat /\ sv.last \in Nat /\ Len(up) \in Nat
      /\ up \in Seq(Requests)
  BY DEF Types, ClientType, ServerType
<1>2. ASSUME UNCHANGED <<cl.counter, sv.conn, sv.recv, sv.last, up, upEnd>>,
             cl.open = "yes" <=> cl'.open = "yes"
      PROVE  Numbered'
  BY <1>2 DEF Numbered, Alive
\* What is written takes the next id, if it is written at all.
<1>3. ASSUME UNCHANGED sv, upEnd => upEnd', cl.open = "yes", cl'.open = "yes",
             cl'.counter = cl.counter + 1, NEW body \in {"call", "close"},
             up' = IF Alive THEN Append(up, <<cl.counter + 1, body>>) ELSE up
      PROVE  Numbered'
  <2> DEFINE m == <<cl.counter + 1, body>>
  <2>1. CASE Alive
    <3>1. m \in Requests /\ m[1] = cl.counter + 1 /\ up' = Append(up, m)
      BY <1>1, <1>3, <2>1 DEF Requests
    <3> HIDE DEF m
    <3>2. Len(up') = Len(up) + 1
      BY <1>1, <3>1, AppendProperties
    <3>3. CASE sv.recv = "on"
      <4>1. sv.last + Len(up) = cl.counter /\ \A k \in 1 .. Len(up) : up[k][1] = sv.last + k
        BY <2>1, <3>3 DEF Numbered
      <4>2. \A k \in 1 .. Len(up') : up'[k][1] = sv.last + k
        <5>1. m[1] = sv.last + Len(up) + 1
          BY <3>1, <4>1
        <5> QED BY <1>1, <3>1, <4>1, <5>1, NumberedAppend
      <4> QED BY <1>1, <1>3, <3>2, <4>1, <4>2 DEF Numbered, Alive
    <3>4. CASE sv.recv # "on"
      BY <1>1, <1>3, <3>2, <3>4 DEF Numbered, Alive
    <3> QED BY <3>3, <3>4
  <2>2. CASE ~Alive
    BY <1>1, <1>3, <2>2 DEF Numbered, Alive
  <2> QED BY <2>1, <2>2
<1>4. ASSUME NEW c \in Caller,
             \/ Refuse(c) \/ EnsureConnected(c) \/ NotConnected(c) \/ Drain(c) \/ Return(c)
             \/ GiveUp(c) \/ SyncReceive(c) \/ SyncLost(c) \/ SyncTimeout(c)
      PROVE  Numbered'
  <2>1. UNCHANGED <<cl.counter, sv, up, upEnd>> /\ (cl.open = "yes" <=> cl'.open = "yes")
    BY <1>4 DEF Refuse, EnsureConnected, NotConnected, Drain, Return, GiveUp, SyncReceive,
                SyncLost, SyncTimeout, wire, Types, ClientType
  <2> QED BY <1>2, <2>1
<1>5. ASSUME NEW c \in Caller, Send(c) PROVE Numbered'
  <2>1. UNCHANGED <<sv, upEnd>> /\ cl.open = "yes"
    BY <1>5 DEF Send
  <2>2. \/ UNCHANGED <<cl, up>>
        \/ /\ cl'.counter = cl.counter + 1 /\ cl'.open = cl.open
           /\ up' = IF Alive THEN Append(up, <<cl.counter + 1, "call">>) ELSE up
    BY <1>5, CallChanges DEF NextCallId, Written, Types, Client
  <2> QED BY <1>2, <1>3, <2>1, <2>2
<1>6. CASE OpenConnection
  <2>1. /\ cl.open = "opening" /\ cl'.counter = cl.counter /\ up' = up
        /\ \/ cl'.open = "yes" /\ sv'.conn = "on" /\ sv'.last = sv.last
           \/ cl'.open = "failed" /\ sv' = sv
    <3>1. Accepted.conn = "on" /\ Accepted.last = sv.last
      BY ServerActions DEF Accepted, Types, Server
    <3> QED BY <1>6, <3>1, ClientActions DEF OpenConnection, wire, Types, Client
  <2>2. cl.counter = 0 /\ sv.conn = "none" /\ sv.last = 0 /\ Len(up) = 0
    BY <1>1, <2>1 DEF Numbered
  <2> QED BY <2>1, <2>2 DEF Numbered
<1>7. CASE Receive \/ StopReceiving \/ Close \/ CloseUnconnected \/ CloseReturns
  <2>1. cl.counter' = cl.counter /\ cl.open' = cl.open
    <3>1. CASE Receive
      <4>1. CASE EndRecvLoop("failed")
        BY <4>1, ClientActions DEF Types, Client
      <4>2. CASE ~EndRecvLoop("failed")
        <5>1. PICK pending : cl' = [cl EXCEPT !.pending = pending]
          BY <3>1, <4>2 DEF Receive
        <5> QED BY <5>1, ClientShape DEF Types, Client
      <4> QED BY <4>1, <4>2
    <3>2. CASE StopReceiving
      BY <3>2, ClientActions DEF StopReceiving, EndRecvLoop, Types, Client
    <3>3. CASE Close \/ CloseUnconnected \/ CloseReturns
      BY <3>3, ClientActions DEF Close, CloseUnconnected, CloseReturns, Types, Client
    <3> QED BY <1>7, <3>1, <3>2, <3>3
  <2>2. UNCHANGED <<sv, up, upEnd>>
    BY <1>7 DEF Receive, StopReceiving, EndRecvLoop, Close, CloseUnconnected, CloseReturns, wire
  <2> QED BY <1>2, <2>1, <2>2
<1>8. CASE CloseRequest
  <2>1. UNCHANGED <<sv, upEnd>> /\ cl.open = "yes"
    BY <1>8 DEF CloseRequest
  <2>2. /\ cl'.counter = cl.counter + 1 /\ cl'.open = cl.open
        /\ up' = IF Alive THEN Append(up, <<cl.counter + 1, "close">>) ELSE up
    BY <1>8, ClientActions DEF CloseRequest, NextCallId, Written, Types, Client
  <2> QED BY <1>3, <2>1, <2>2
<1>9. CASE CloseWriter
  <2>1. UNCHANGED <<cl.counter, cl.open, sv>> /\ upEnd'
    BY <1>9, ClientActions DEF CloseWriter, Types, Client
  <2>2. up' = up \/ \E n \in 0 .. Len(up) - 1 : up' = SubSeq(up, 1, n)
    BY <1>9 DEF CloseWriter
  <2>3. Len(up') \in Nat /\ Len(up') <= Len(up) /\ \A k \in 1 .. Len(up') : up'[k] = up[k]
    BY <1>1, <2>2
  <2> QED BY <1>1, <2>1, <2>3 DEF Numbered, Alive
<1>10. ASSUME NEW c \in Caller, SyncCall(c) PROVE Numbered'
  <2>1. /\ kind = "sync" /\ upEnd' = upEnd /\ cl.closing = "no" /\ ~upEnd
        /\ sv'.last = sv.last /\ cl.open \in {"no", "yes", "failed"}
    BY <1>10, ServerActions DEF SyncCall, CheckUsable, Accepted, Blocking, Types, Server
  <2> DEFINE joins == cl.open = "no" /\ sv.listening
             open == IF joins THEN "yes" ELSE IF cl.open = "no" THEN "failed" ELSE cl.open
             fails == open = "failed" \/ sv.conn = "done"
  <2>2. /\ sv' = IF joins THEN Accepted ELSE sv
        /\ cl'.open = open
        /\ fails => cl'.counter = cl.counter /\ up' = up
        /\ ~fails => cl'.counter = cl.counter + 1 /\ up' = Append(up, <<cl.counter + 1, "call">>)
    <3>1. sv' = IF joins THEN Accepted ELSE sv
      BY <1>10 DEF SyncCall
    <3>2. \/ fails /\ up' = up /\ \E broken \in BOOLEAN :
               cl' = Client(cl.counter, open, cl.pending, cl.stop, cl.recv, cl.closing, broken)
          \/ /\ ~fails /\ up' = Append(up, <<NextCallId, "call">>)
             /\ cl' = Client(NextCallId, open, cl.pending, cl.stop, cl.recv, cl.closing, TRUE)
      BY <1>10, CallChanges DEF Types
    <3> HIDE DEF joins, open, fails
    <3> QED BY <3>1, <3>2 DEF NextCallId, Client
  <2>3. Accepted.conn = "on" /\ Accepted.recv = "on" /\ Accepted.last = sv.last
    BY ServerActions DEF Accepted, Types, Server
  <2>4. CASE joins
    <3> DEFINE m == <<cl.counter + 1, "call">>
    <3>1. /\ sv.conn = "none" /\ cl.counter = 0 /\ sv.last = 0 /\ Len(up) = 0
      BY <1>1, <2>4 DEF Numbered
    <3>2. ~fails
      BY <2>4, <3>1
    <3>3. m \in Requests /\ m[1] = sv.last + Len(up) + 1 /\ up' = Append(up, m)
      BY <1>1, <2>2, <3>1, <3>2 DEF Requests
    <3> HIDE DEF m
    <3>4. Len(up') = Len(up) + 1 /\ \A k \in 1 .. Len(up') : up'[k][1] = sv.last + k
      BY <1>1, <3>1, <3>3, NumberedAppend
    <3> QED BY <1>1, <2>2, <2>3, <2>4, <3>1, <3>2, <3>4 DEF Numbered, Alive
  <2>5. CASE ~joins /\ fails
    BY <1>2, <2>1, <2>2, <2>5
  <2>6. CASE ~joins /\ ~fails
    <3>1. cl.open = "yes" /\ cl'.open = "yes" /\ sv.conn = "on"
      BY <2>1, <2>2, <2>6 DEF Numbered, Types, ServerType
    <3> QED BY <1>3, <2>1, <2>2, <2>6, <3>1 DEF Alive
  <2> QED BY <2>4, <2>5, <2>6
<1>11. CASE SyncClose
  <2> DEFINE says == cl.open = "yes" /\ ~cl.broken
  <2>1. UNCHANGED <<sv, cl.open>> /\ upEnd' = (cl.open = "yes")
    BY <1>11 DEF SyncClose, Types, ClientType
  <2>2. CASE says
    <3>1. /\ cl'.counter = cl.counter + 1
          /\ up' = IF Alive THEN Append(up, <<cl.counter + 1, "close">>) ELSE up
      BY <1>11, <2>2 DEF SyncClose, NextCallId, Written, Types, ClientType
    <3> QED BY <1>3, <2>1, <2>2, <3>1
  <2>3. CASE ~says
    <3>1. cl'.counter = cl.counter /\ up' = up
      BY <1>1, <1>11, <2>3 DEF SyncClose, Types, ClientType
    <3> QED BY <1>1, <2>1, <3>1 DEF Numbered, Alive
  <2> QED BY <2>2, <2>3
<1>12. CASE ServerReceives
  <2>1. /\ sv.recv = "on" /\ up # << >> /\ up' = Tail(up) /\ UNCHANGED <<cl, upEnd>>
        /\ \/ sv'.recv = "gather" /\ sv'.last = sv.last /\ sv'.conn = sv.conn
           \/ sv'.recv = "on" /\ sv'.last = Head(up)[1] /\ sv'.conn = sv.conn
    BY <1>12 DEF ServerReceives, caller, Types, ServerType
  <2>2. /\ Head(up)[1] = sv.last + 1 /\ Len(up') = Len(up) - 1 /\ Len(up) > 0
        /\ \A k \in 1 .. Len(up') : up'[k][1] = sv.last + 1 + k
    BY <1>1, <2>1, NumberedTail DEF Numbered
  <2> QED BY <1>1, <2>1, <2>2 DEF Numbered, Alive
<1>13. CASE \/ ServerStopsReceiving \/ Gathered \/ SendReply \/ StopSending
            \/ \E i \in Ids : QueueReply(i)
            \/ CancelHandlers \/ Served \/ StopServer \/ ServerDies
  <2>1. UNCHANGED <<cl, up, upEnd>>
    BY <1>13 DEF ServerStopsReceiving, Gathered, SendReply, StopSending, QueueReply,
                 CancelHandlers, Served, StopServer, ServerDies, wire
  <2>2. /\ sv'.last = sv.last
        /\ sv'.conn = sv.conn \/ (sv.conn = "on" /\ sv'.conn = "done")
        /\ sv'.recv = "on" => sv.recv = "on"
        /\ sv.recv = "none" => sv'.recv = "none" \/ sv'.conn # "none"
    <3>1. CASE ServerStopsReceiving \/ Gathered \/ SendReply \/ StopSending
      <4>1. CASE ServerStopsReceiving \/ Gathered
        BY <4>1, ServerActions DEF ServerStopsReceiving, Gathered, Types, Server
      <4>2. CASE SendReply \/ StopSending
        BY <4>2, ServerActions DEF SendReply, StopSending, Types, Server
      <4> QED BY <3>1, <4>1, <4>2
    <3>2. CASE (\E i \in Ids : QueueReply(i)) \/ CancelHandlers
      BY <3>2, ServerActions DEF QueueReply, CancelHandlers, Types, Server
    <3>3. CASE Served \/ StopServer \/ ServerDies
      <4>1. CASE Served
        <5>1. sv.conn = "on"
          BY <4>1 DEF Served
        <5> QED BY <4>1, <5>1, ServerActions DEF Types, Server
      <4>2. CASE StopServer
        BY <4>2, ServerActions DEF Types, Server
      <4>3. CASE ServerDies
        <5>1. sv.conn = "on"
          BY <4>3 DEF ServerDies
        <5> QED BY <4>3, <5>1, ServerActions DEF Types, Server
      <4> QED BY <3>3, <4>1, <4>2, <4>3
    <3> QED BY <1>13, <3>1, <3>2, <3>3
  <2>3. sv.conn = "none" => sv'.recv = "none"
    BY <2>2 DEF Numbered
  <2> QED BY <1>1, <2>1, <2>2 DEF Numbered, Alive
<1>14. CASE ClientDies
  <2>1. UNCHANGED <<cl.counter, cl.open, sv, up>> /\ upEnd'
    BY <1>14, ClientActions DEF ClientDies, Types, Client
  <2> QED BY <2>1 DEF Numbered, Alive
<1> QED
  BY <1>4, <1>5, <1>6, <1>7, <1>8, <1>9, <1>10, <1>11, <1>12, <1>13, <1>14 DEF Next, Progress
-----------------------------------------------------------------------------
(***************************************************************************)
(* The ids of the calls.                                                   *)
(***************************************************************************)
LEMMA IdentifiedInit == Init => Identified
BY DEF Init, Identified

LEMMA IdentifiedNext ==
  ASSUME Types, Types', Identified, Next PROVE Identified'
<1>1. cl.counter \in Nat /\ cl'.counter \in Nat
  BY DEF Types, ClientType
<1>2. ASSUME UNCHANGED id, cl'.counter >= cl.counter, cl'.pending \subseteq cl.pending,
             \A c \in Caller : at'[c] \in {"idle", "refused", "opening"} =>
                                 at[c] \in {"idle", "refused", "opening"},
             \A c \in Caller : at'[c] \in {"drain", "wait"} => at[c] \in {"drain", "wait"}
      PROVE  Identified'
  <2>1. cl'.pending \subseteq 1 .. cl'.counter
    BY <1>1, <1>2 DEF Identified
  <2>2. \A c \in Caller : id'[c] <= cl'.counter
    BY <1>1, <1>2 DEF Identified, Types
  <2> QED BY <1>2, <2>1, <2>2 DEF Identified
\* A call is made: the caller gets the next id.
<1>3. ASSUME NEW c \in Caller, id' = [id EXCEPT ![c] = NextCallId], cl'.counter = cl.counter + 1,
             at' = [at EXCEPT ![c] = "drain"] \/ at' = [at EXCEPT ![c] = "wait"],
             cl'.pending \subseteq cl.pending \cup {NextCallId}
      PROVE  Identified'
  <2>1. NextCallId = cl.counter + 1 /\ \A b \in Caller : id[b] \in Nat /\ id[b] <= cl.counter
    BY DEF NextCallId, Identified, Types
  <2>2. id'[c] = NextCallId /\ \A b \in Caller : b # c => id'[b] = id[b]
    BY <1>3 DEF Types
  <2>3. at'[c] \in {"drain", "wait"} /\ \A b \in Caller : b # c => at'[b] = at[b]
    BY <1>3 DEF Types
  <2>4. cl'.pending \subseteq 1 .. cl'.counter
    BY <1>1, <1>3, <2>1 DEF Identified
  <2>5. \A a, b \in Caller : id'[a] = id'[b] /\ id'[a] # 0 => a = b
    BY <1>1, <2>1, <2>2 DEF Identified
  <2>6. \A b \in Caller : id'[b] <= cl'.counter
    BY <1>1, <1>3, <2>1, <2>2
  <2>7. \A b \in Caller : /\ at'[b] \in {"idle", "refused", "opening"} => id'[b] = 0
                          /\ at'[b] \in {"drain", "wait"} => id'[b] # 0
    BY <1>1, <2>1, <2>2, <2>3 DEF Identified
  <2> QED BY <2>4, <2>5, <2>6, <2>7 DEF Identified
<1>4. ASSUME NEW c \in Caller, Refuse(c) \/ EnsureConnected(c) \/ NotConnected(c) PROVE Identified'
  <2>1. UNCHANGED <<id, cl.counter, cl.pending>>
    BY <1>4, ClientActions DEF Refuse, EnsureConnected, NotConnected, Types, Client
  <2>2. /\ at[c] \in {"idle", "opening"}
        /\ \A b \in Caller : at'[b] = at[b] \/ (b = c /\ at'[b] \in {"refused", "opening", "lost", "gone"})
    BY <1>4 DEF Refuse, EnsureConnected, NotConnected, Types
  <2> QED BY <1>1, <1>2, <2>1, <2>2
<1>5. ASSUME NEW c \in Caller, Send(c) PROVE Identified'
  <2>1. \/ UNCHANGED <<id, cl>> /\ at' = [at EXCEPT ![c] = "lost"]
        \/ /\ id' = [id EXCEPT ![c] = NextCallId] /\ at' = [at EXCEPT ![c] = "drain"]
           /\ cl'.counter = cl.counter + 1 /\ cl'.pending = cl.pending \cup {NextCallId}
    BY <1>5, CallChanges DEF NextCallId, Types, Client
  <2>2. at' = [at EXCEPT ![c] = "lost"] =>
          /\ \A b \in Caller : at'[b] = at[b] \/ at'[b] = "lost"
    BY DEF Types
  <2> QED BY <1>1, <1>2, <1>3, <2>1, <2>2
<1>6. ASSUME NEW c \in Caller,
             Drain(c) \/ Return(c) \/ GiveUp(c) \/ SyncReceive(c) \/ SyncLost(c) \/ SyncTimeout(c)
      PROVE  Identified'
  <2>1. UNCHANGED <<id, cl.counter>> /\ cl'.pending \subseteq cl.pending
    <3>1. CASE Drain(c) \/ GiveUp(c)
      <4> DEFINE without == cl.pending \ {id[c]}
      <4>1. \/ cl' = cl \/ cl' = [cl EXCEPT !.open = "cancelled"]
            \/ cl' = [cl EXCEPT !.pending = without]
        BY <3>1 DEF Drain, GiveUp
      <4>2. id' = id /\ without \subseteq cl.pending
        BY <3>1 DEF Drain, GiveUp
      <4> HIDE DEF without
      <4>3. cl'.counter = cl.counter /\ cl'.pending \in {cl.pending, without}
        BY <4>1, ClientShape DEF Types, Client
      <4> QED BY <4>2, <4>3
    <3>2. CASE Return(c) \/ SyncReceive(c) \/ SyncLost(c) \/ SyncTimeout(c)
      BY <3>2, ClientActions DEF Return, SyncReceive, SyncLost, SyncTimeout, Types, Client
    <3> QED BY <1>6, <3>1, <3>2
  <2>2. \A b \in Caller : \/ at'[b] = at[b] \/ at'[b] \in {"answer", "lost", "gone"}
                          \/ at[b] = "drain" /\ at'[b] = "wait"
    BY <1>6 DEF Drain, GiveUp, Return, SyncReceive, SyncLost, SyncTimeout, Types
  <2> QED BY <1>1, <1>2, <2>1, <2>2
<1>7. CASE \/ OpenConnection \/ Receive \/ StopReceiving
           \/ Close \/ CloseUnconnected \/ CloseRequest \/ CloseWriter \/ CloseReturns \/ SyncClose
  <2>1. UNCHANGED <<at, id>>
    BY <1>7 DEF OpenConnection, Receive, StopReceiving, EndRecvLoop, Close, CloseUnconnected,
                CloseRequest, CloseWriter, CloseReturns, SyncClose, caller
  <2>2. cl'.counter >= cl.counter /\ cl'.pending \subseteq cl.pending
    <3>1. CASE Receive \/ StopReceiving
      <4>1. ASSUME NEW how, EndRecvLoop(how) PROVE cl'.counter = cl.counter /\ cl'.pending = {}
        BY <4>1, ClientActions DEF EndRecvLoop, Types, Client
      <4>2. \/ EndRecvLoop("off") \/ EndRecvLoop("failed")
            \/ \E i : cl' = [cl EXCEPT !.pending = @ \ {i}]
        BY <3>1 DEF Receive, StopReceiving
      <4>3. ASSUME NEW i, cl' = [cl EXCEPT !.pending = @ \ {i}]
            PROVE  cl'.counter = cl.counter /\ cl'.pending \subseteq cl.pending
        BY <4>3 DEF Types, ClientType
      <4>4. cl'.counter = cl.counter /\ cl'.pending \subseteq cl.pending
        BY <4>1, <4>2, <4>3
      <4> QED BY <1>1, <4>4
    <3>2. CASE OpenConnection \/ Close \/ CloseUnconnected \/ CloseReturns \/ CloseWriter
      <4>1. cl'.counter = cl.counter /\ cl'.pending = cl.pending
        <5>1. CASE OpenConnection
          BY <5>1, ClientActions DEF OpenConnection, Types, Client
        <5>2. CASE Close \/ CloseUnconnected
          BY <5>2, ClientActions DEF Close, CloseUnconnected, Types, Client
        <5>3. CASE CloseReturns \/ CloseWriter
          BY <5>3, ClientActions DEF CloseReturns, CloseWriter, Types, Client
        <5> QED BY <3>2, <5>1, <5>2, <5>3
      <4> QED BY <1>1, <4>1
    <3>3. CASE CloseRequest \/ SyncClose
      <4>1. cl'.counter \in {cl.counter, cl.counter + 1, cl.counter + 0} /\ cl'.pending = cl.pending
        BY <3>3 DEF CloseRequest, SyncClose, Types, ClientType
      <4> QED BY <1>1, <4>1
    <3> QED BY <1>7, <3>1, <3>2, <3>3
  <2> QED BY <1>2, <2>1, <2>2
<1>8. ASSUME NEW c \in Caller, SyncCall(c) PROVE Identified'
  <2>1. \/ UNCHANGED <<id, cl.counter, cl.pending>> /\ at' = [at EXCEPT ![c] = "lost"]
        \/ /\ id' = [id EXCEPT ![c] = NextCallId] /\ at' = [at EXCEPT ![c] = "wait"]
           /\ cl'.counter = cl.counter + 1 /\ cl'.pending = cl.pending
    BY <1>8, CallChanges DEF NextCallId, Types, Client
  <2>2. at' = [at EXCEPT ![c] = "lost"] =>
          /\ \A b \in Caller : at'[b] = at[b] \/ at'[b] = "lost"
    BY DEF Types
  <2> QED BY <1>1, <1>2, <1>3, <2>1, <2>2
<1>9. CASE \/ ServerReceives \/ ServerStopsReceiving \/ Gathered \/ SendReply \/ StopSending
           \/ \E i \in Ids : QueueReply(i)
           \/ CancelHandlers \/ Served \/ StopServer \/ ServerDies
  <2>1. UNCHANGED <<at, id, cl>>
    BY <1>9 DEF ServerReceives, ServerStopsReceiving, Gathered, SendReply, StopSending, QueueReply,
                CancelHandlers, Served, StopServer, ServerDies, caller
  <2> QED BY <1>1, <1>2, <2>1
<1>10. CASE ClientDies
  <2>1. UNCHANGED <<id, cl.counter>> /\ cl'.pending = {}
    BY <1>10, ClientActions DEF ClientDies, Types, Client
  <2>2. \A b \in Caller : at'[b] = at[b] \/ at'[b] = "gone"
    BY <1>10 DEF ClientDies
  <2> QED BY <1>1, <1>2, <2>1, <2>2
<1> QED BY <1>4, <1>5, <1>6, <1>7, <1>8, <1>9, <1>10 DEF Next, Progress
-----------------------------------------------------------------------------
(***************************************************************************)
(* The calls that wait have an entry for their response.                   *)
(***************************************************************************)
LEMMA AwaitedInit == Init => Awaited
BY DEF Init, Awaited

LEMMA AwaitedNext ==
  ASSUME Types, Types', Identified, Blocking, Awaited, Next PROVE Awaited'
<1> DEFINE Waits(c) == at[c] \in {"drain", "wait"} /\ future[c] = "none"
<1>1. ASSUME UNCHANGED <<kind, id, cl.pending>>, cl.recv = "on" => cl'.recv = "on",
             \A c \in Caller : Waits(c)' => Waits(c)
      PROVE  Awaited'
  BY <1>1 DEF Awaited
\* The receive loop fails what is pending, whoever leaves is taken out.
<1>2. ASSUME NEW how, EndRecvLoop(how) PROVE Awaited'
  <2>1. UNCHANGED <<kind, at, id>> /\ future' = Failing
    BY <1>2 DEF EndRecvLoop
  <2>2. \A c \in Caller : ~(kind = "async" /\ Waits(c)')
    BY <2>1 DEF Awaited, Failing, Types
  <2> QED BY <2>1, <2>2 DEF Awaited
<1>3. ASSUME NEW c \in Caller,
             \/ Refuse(c) \/ EnsureConnected(c) \/ NotConnected(c) \/ Return(c) \/ SyncReceive(c)
             \/ SyncLost(c) \/ SyncTimeout(c)
      PROVE  Awaited'
  <2>1. UNCHANGED <<kind, id, future, cl.pending, cl.recv>>
    BY <1>3 DEF Refuse, EnsureConnected, NotConnected, Return, SyncReceive, SyncLost, SyncTimeout,
                Types, ClientType
  <2>2. \A b \in Caller : at'[b] \in {"drain", "wait"} => at[b] = at'[b]
    BY <1>3 DEF Refuse, EnsureConnected, NotConnected, Return, SyncReceive, SyncLost, SyncTimeout,
                Types
  <2> QED BY <1>1, <2>1, <2>2
<1>4. ASSUME NEW c \in Caller, Send(c) PROVE Awaited'
  <2>1. CASE Disconnected
    <3>1. UNCHANGED <<kind, id, future, cl>> /\ at' = [at EXCEPT ![c] = "lost"]
      BY <1>4, <2>1 DEF Send
    <3>2. \A b \in Caller : Waits(b)' => Waits(b)
      BY <3>1 DEF Types
    <3> QED BY <1>1, <3>1, <3>2
  <2>2. CASE ~Disconnected
    <3>1. /\ UNCHANGED <<kind, future, cl.recv>> /\ cl.recv = "on"
          /\ at' = [at EXCEPT ![c] = "drain"] /\ id' = [id EXCEPT ![c] = NextCallId]
          /\ cl'.pending = cl.pending \cup {NextCallId}
      <4>1. UNCHANGED <<kind, future>> /\ cl.recv = "on"
        BY <1>4, <2>2 DEF Send, Disconnected
      <4> QED BY <1>4, <2>2, <4>1, CallChanges DEF Types, Client
    <3> QED BY <3>1 DEF Awaited, Types
  <2> QED BY <2>1, <2>2
<1>5. ASSUME NEW c \in Caller, Drain(c) PROVE Awaited'
  <2>1. /\ UNCHANGED <<kind, id, future, cl.recv>> /\ at[c] = "drain"
        /\ \/ at' = [at EXCEPT ![c] = "lost"] /\ cl'.pending = cl.pending \ {id[c]}
           \/ at' = [at EXCEPT ![c] = "wait"] /\ cl'.pending = cl.pending
    <3>1. UNCHANGED <<kind, id, future>> /\ at[c] = "drain"
      BY <1>5 DEF Drain
    <3> QED BY <1>5, <3>1, CallChanges DEF Types, Client
  <2> QED BY <2>1 DEF Awaited, Identified, Types
<1>6. ASSUME NEW c \in Caller, GiveUp(c) PROVE Awaited'
  <2>1. \/ cl' = cl \/ cl' = [cl EXCEPT !.open = "cancelled"]
        \/ at[c] = "drain" /\ cl' = [cl EXCEPT !.pending = @ \ {id[c]}]
    BY <1>6 DEF GiveUp
  <2>2. /\ cl'.recv = cl.recv
        /\ \/ cl'.pending = cl.pending
           \/ at[c] = "drain" /\ cl'.pending = cl.pending \ {id[c]}
    BY <2>1 DEF Types, ClientType
  <2>3. UNCHANGED <<kind, id, future>> /\ at' = [at EXCEPT ![c] = "gone"]
    BY <1>6 DEF GiveUp
  <2> QED BY <2>2, <2>3 DEF Awaited, Identified, Types
<1>7. CASE OpenConnection
  <2>1. UNCHANGED <<kind, caller, cl.pending>> /\ (cl'.recv = cl.recv \/ cl'.recv = "on")
    BY <1>7, ClientActions DEF OpenConnection, Types, Client
  <2> QED BY <1>1, <2>1 DEF caller
<1>8. CASE Receive
  <2>1. CASE EndRecvLoop("failed")
    BY <1>2, <2>1
  <2>2. CASE ~EndRecvLoop("failed")
    <3> DEFINE i == Head(down)[1]
    <3>1. /\ UNCHANGED <<kind, at, id, cl.recv>> /\ cl'.pending = cl.pending \ {i}
          /\ future' = [c \in Caller |-> IF id[c] = i /\ at[c] # "gone" THEN Head(down)[2]
                                         ELSE future[c]]
      <4> DEFINE without == cl.pending \ {i}
      <4>1. /\ UNCHANGED <<kind, at, id>> /\ cl' = [cl EXCEPT !.pending = without]
            /\ future' = [c \in Caller |-> IF id[c] = i /\ at[c] # "gone" THEN Head(down)[2]
                                           ELSE future[c]]
        BY <1>8, <2>2 DEF Receive, PopPending
      <4> HIDE DEF without
      <4>2. cl'.recv = cl.recv /\ cl'.pending = without
        BY <4>1, ClientShape DEF Types, Client
      <4> QED BY <4>1, <4>2 DEF without
    <3>2. Head(down)[2] # "none"
      BY <1>8 DEF Receive, Types, Responses
    <3> HIDE DEF i
    <3> QED BY <3>1, <3>2 DEF Awaited
  <2> QED BY <2>1, <2>2
<1>9. CASE StopReceiving
  BY <1>2, <1>9 DEF StopReceiving
<1>10. CASE \/ Close \/ CloseUnconnected \/ CloseRequest \/ CloseWriter \/ CloseReturns \/ SyncClose
  <2>1. UNCHANGED <<kind, caller>>
    BY <1>10 DEF Close, CloseUnconnected, CloseRequest, CloseWriter, CloseReturns, SyncClose
  <2>2. UNCHANGED <<cl.pending, cl.recv>>
    <3>1. CASE Close \/ CloseUnconnected \/ CloseRequest
      BY <3>1, ClientActions DEF Close, CloseUnconnected, CloseRequest, Types, Client
    <3>2. CASE CloseWriter \/ CloseReturns \/ SyncClose
      BY <3>2 DEF CloseWriter, CloseReturns, SyncClose, Types, ClientType
    <3> QED BY <1>10, <3>1, <3>2
  <2> QED BY <1>1, <2>1, <2>2 DEF caller
<1>11. ASSUME NEW c \in Caller, SyncCall(c) PROVE Awaited'
  BY <1>11 DEF SyncCall, Awaited
<1>12. CASE \/ ServerReceives \/ ServerStopsReceiving \/ Gathered \/ SendReply \/ StopSending
            \/ \E i \in Ids : QueueReply(i)
            \/ CancelHandlers \/ Served \/ StopServer \/ ServerDies
  <2>1. UNCHANGED <<kind, at, id, future, cl>>
    BY <1>12 DEF ServerReceives, ServerStopsReceiving, Gathered, SendReply, StopSending, QueueReply,
                CancelHandlers, Served, StopServer, ServerDies, caller
  <2> QED BY <1>1, <2>1
<1>13. CASE ClientDies
  <2>1. \A b \in Caller : at'[b] \notin {"drain", "wait"}
    BY <1>13 DEF ClientDies, Calling
  <2> QED BY <2>1 DEF Awaited
<1> QED
  BY <1>3, <1>4, <1>5, <1>6, <1>7, <1>8, <1>9, <1>10, <1>11, <1>12, <1>13 DEF Next, Progress
-----------------------------------------------------------------------------
(***************************************************************************)
(* Only a call that ran to its end is answered.                            *)
(***************************************************************************)
LEMMA HonestInit == Init => Honest
BY DEF Init, Honest

\* What the server has done stays done, whatever else it does.
LEMMA TasksStay ==
  ASSUME Types, Types', Numbered, Next
  PROVE  /\ sv'.last >= sv.last
         /\ \A i \in Ids : sv.task[i] = "done" => sv'.task[i] = "done"
<1>1. sv.last \in Nat /\ sv'.last \in Nat
  BY DEF Types, ServerType
<1>2. CASE sv'.last = sv.last /\ sv'.task = sv.task
  BY <1>1, <1>2
<1>3. CASE OpenConnection \/ \E c \in Caller : SyncCall(c)
  <2>1. Accepted.last = sv.last /\ Accepted.task = sv.task
    BY ServerActions DEF Accepted, Types, Server
  <2>2. sv' \in {sv, Accepted}
    BY <1>3 DEF OpenConnection, SyncCall
  <2> QED BY <1>2, <2>1, <2>2
<1>4. CASE ServerReceives
  <2>1. \/ sv'.last = sv.last /\ sv'.task = sv.task
        \/ /\ sv'.last = Head(up)[1]
           /\ \A j \in 1 .. Head(up)[1] : j # Head(up)[1] => sv'.task[j] = sv.task[j]
    BY <1>4 DEF ServerReceives, Types, ServerType
  <2>2. Head(up)[1] = sv.last + 1
    BY <1>1, <1>4, NumberedTail DEF ServerReceives, Numbered, Types
  <2> QED BY <1>1, <1>2, <2>1, <2>2 DEF Ids
<1>5. ASSUME NEW i \in Ids, QueueReply(i)
      PROVE  sv'.last = sv.last /\ sv'.task = [sv.task EXCEPT ![i] = "done"]
  BY <1>5, ServerActions DEF Marked, Types, Server
<1>6. CASE CancelHandlers \/ ServerDies
  <2>1. sv'.last = sv.last /\ sv'.task = Cut
    BY <1>6, ServerActions DEF CancelHandlers, ServerDies, Types, Server
  <2> QED BY <1>1, <2>1 DEF Cut
<1>7. CASE ServerStopsReceiving \/ Gathered \/ SendReply \/ StopSending \/ Served \/ StopServer
  <2>1. CASE ServerStopsReceiving \/ Gathered
    BY <1>2, <2>1, ServerActions DEF ServerStopsReceiving, Gathered, Types, Server
  <2>2. CASE SendReply
    BY <1>2, <2>2, ServerActions DEF SendReply, Types, Server
  <2>3. CASE StopSending \/ Served \/ StopServer
    BY <1>2, <2>3, ServerActions DEF StopSending, Served, StopServer, Types, Server
  <2> QED BY <1>7, <2>1, <2>2, <2>3
<1>8. CASE \/ \E c \in Caller : \/ Refuse(c) \/ EnsureConnected(c) \/ NotConnected(c) \/ Send(c)
                                \/ Drain(c) \/ Return(c) \/ GiveUp(c)
                                \/ SyncReceive(c) \/ SyncLost(c) \/ SyncTimeout(c)
           \/ Receive \/ StopReceiving \/ Close \/ CloseUnconnected \/ CloseRequest
           \/ CloseWriter \/ CloseReturns \/ SyncClose \/ ClientDies
  BY <1>2, <1>8 DEF Refuse, EnsureConnected, NotConnected, Send, Drain, Return, GiveUp, SyncReceive,
       SyncLost, SyncTimeout, Receive, EndRecvLoop, StopReceiving, Close, CloseUnconnected,
       CloseRequest, CloseWriter, CloseReturns, SyncClose, ClientDies
<1>9. ASSUME NEW i \in Ids, QueueReply(i)
      PROVE  sv'.last >= sv.last /\ \A j \in Ids : sv.task[j] = "done" => sv'.task[j] = "done"
  <2>1. DOMAIN sv.task = Ids
    BY <1>1 DEF Types, ServerType, Ids
  <2>2. sv'.last = sv.last /\ sv'.task = [sv.task EXCEPT ![i] = "done"]
    BY <1>5, <1>9
  <2> QED BY <1>1, <2>1, <2>2
<1> QED BY <1>3, <1>4, <1>6, <1>7, <1>8, <1>9 DEF Next, Progress

\* Replies are taken from the front and put at the end.
LEMMA CompletedStep ==
  ASSUME Types, Next
  PROVE  \/ sv'.completed = sv.completed
         \/ sv.completed # << >> /\ sv'.completed = Tail(sv.completed)
         \/ \E i \in Ids : sv'.completed = Append(sv.completed, i) /\ sv'.last = sv.last
                           /\ sv.task[i] = "begun" /\ sv'.task = [sv.task EXCEPT ![i] = "done"]
<1>1. CASE sv' = sv
  BY <1>1
<1>2. CASE \/ \E c \in Caller : \/ Refuse(c) \/ EnsureConnected(c) \/ NotConnected(c) \/ Send(c)
                                \/ Drain(c) \/ Return(c) \/ GiveUp(c)
                                \/ SyncReceive(c) \/ SyncLost(c) \/ SyncTimeout(c)
           \/ Receive \/ StopReceiving \/ Close \/ CloseUnconnected \/ CloseRequest
           \/ CloseWriter \/ CloseReturns \/ SyncClose \/ ClientDies
  BY <1>1, <1>2 DEF Refuse, EnsureConnected, NotConnected, Send, Drain, Return, GiveUp, SyncReceive,
       SyncLost, SyncTimeout, Receive, EndRecvLoop, StopReceiving, Close, CloseUnconnected,
       CloseRequest, CloseWriter, CloseReturns, SyncClose, ClientDies
<1>3. CASE OpenConnection \/ \E c \in Caller : SyncCall(c)
  <2>1. Accepted.completed = sv.completed
    BY ServerActions DEF Accepted, Types, Server
  <2>2. sv' \in {sv, Accepted}
    BY <1>3 DEF OpenConnection, SyncCall
  <2> QED BY <2>1, <2>2
<1>4. CASE ServerReceives \/ ServerStopsReceiving \/ Gathered \/ StopSending
  <2>1. CASE ServerReceives
    BY <2>1 DEF ServerReceives, Types, ServerType
  <2>2. CASE ServerStopsReceiving \/ Gathered \/ StopSending
    BY <2>2, ServerActions DEF ServerStopsReceiving, Gathered, StopSending, Types, Server
  <2> QED BY <1>4, <2>1, <2>2
<1>5. CASE SendReply
  <2>1. sv.completed # << >> /\ sv'.completed = Tail(sv.completed)
    BY <1>5, ServerActions DEF SendReply, Types, Server
  <2> QED BY <2>1
<1>6. ASSUME NEW i \in Ids, QueueReply(i)
      PROVE  /\ sv'.completed = Append(sv.completed, i) /\ sv'.last = sv.last
             /\ sv.task[i] = "begun" /\ sv'.task = [sv.task EXCEPT ![i] = "done"]
  <2>1. sv.task[i] = "begun"
    BY <1>6 DEF QueueReply
  <2>2. sv' = Server(sv.listening, sv.conn, sv.stop, sv.recv, sv.send, sv.last, Marked(i),
                     Append(sv.completed, i))
    BY <1>6, ServerActions DEF Types
  <2> QED BY <2>1, <2>2 DEF Marked, Server
<1>7. CASE CancelHandlers \/ Served \/ StopServer \/ ServerDies
  <2>1. CASE CancelHandlers \/ ServerDies
    BY <2>1, ServerActions DEF CancelHandlers, ServerDies, Types, Server
  <2>2. CASE Served \/ StopServer
    BY <2>2, ServerActions DEF Served, StopServer, Types, Server
  <2> QED BY <1>7, <2>1, <2>2
<1> QED BY <1>2, <1>3, <1>4, <1>5, <1>6, <1>7 DEF Next, Progress

LEMMA DownStep ==
  ASSUME Types, Next
  PROVE  \/ down' = down
         \/ down # << >> /\ down' = Tail(down)
         \/ /\ sv.completed # << >> /\ sv'.completed = Tail(sv.completed)
            /\ \E body : down' = Append(down, <<Head(sv.completed), body>>)
<1>1. CASE SendReply
  BY <1>1, ServerActions DEF SendReply, Types, Server
<1>2. CASE Receive \/ StopReceiving \/ \E c \in Caller : SyncReceive(c)
  BY <1>2 DEF Receive, StopReceiving, SyncReceive
<1>3. CASE \/ \E c \in Caller : \/ Refuse(c) \/ EnsureConnected(c) \/ NotConnected(c) \/ Send(c)
                                \/ Drain(c) \/ Return(c) \/ GiveUp(c)
                                \/ SyncCall(c) \/ SyncLost(c) \/ SyncTimeout(c)
           \/ OpenConnection \/ Close \/ CloseUnconnected \/ CloseRequest
           \/ CloseWriter \/ CloseReturns \/ SyncClose \/ ClientDies
  BY <1>3 DEF Refuse, EnsureConnected, NotConnected, Send, Drain, Return, GiveUp, SyncCall,
       SyncLost, SyncTimeout, OpenConnection, Close, CloseUnconnected,
       CloseRequest, CloseWriter, CloseReturns, SyncClose, ClientDies, wire
<1>4. CASE \/ ServerReceives \/ ServerStopsReceiving \/ Gathered \/ StopSending
           \/ \E i \in Ids : QueueReply(i)
           \/ CancelHandlers \/ Served \/ StopServer \/ ServerDies
  BY <1>4 DEF ServerReceives, ServerStopsReceiving, Gathered, StopSending, QueueReply,
       CancelHandlers, Served, StopServer, ServerDies, wire
<1> QED BY <1>1, <1>2, <1>3, <1>4 DEF Next, Progress

LEMMA FutureStep ==
  ASSUME Types, Next, NEW c \in Caller, future'[c] = "reply"
  PROVE  \/ id'[c] = id[c] /\ future[c] = "reply"
         \/ at[c] \in {"idle", "opening"} /\ future[c] = "reply"
         \/ id'[c] = id[c] /\ down # << >> /\ Head(down) = <<id[c], "reply">>
<1>1. CASE Receive
  <2>1. CASE EndRecvLoop("failed")
    BY <2>1 DEF EndRecvLoop, Failing
  <2>2. CASE ~EndRecvLoop("failed")
    <3>1. /\ id' = id /\ down # << >>
          /\ future'[c] = IF id[c] = Head(down)[1] /\ at[c] # "gone" THEN Head(down)[2]
                          ELSE future[c]
      BY <1>1, <2>2 DEF Receive, PopPending
    <3>2. Head(down) = <<Head(down)[1], Head(down)[2]>>
      BY <3>1, Queues DEF Types, Responses
    <3> QED BY <3>1, <3>2
  <2> QED BY <2>1, <2>2
<1>2. CASE StopReceiving
  BY <1>2 DEF StopReceiving, EndRecvLoop, Failing
<1>3. CASE \E b \in Caller : Send(b) \/ SyncCall(b)
  BY <1>3 DEF Send, SyncCall, Types
<1>4. CASE \/ \E b \in Caller : \/ Refuse(b) \/ EnsureConnected(b) \/ NotConnected(b)
                                \/ Drain(b) \/ Return(b) \/ GiveUp(b)
                                \/ SyncReceive(b) \/ SyncLost(b) \/ SyncTimeout(b)
           \/ OpenConnection \/ Close \/ CloseUnconnected \/ CloseRequest
           \/ CloseWriter \/ CloseReturns \/ SyncClose \/ ClientDies
  BY <1>4 DEF Refuse, EnsureConnected, NotConnected, Drain, Return, GiveUp, SyncReceive,
       SyncLost, SyncTimeout, OpenConnection, Close, CloseUnconnected,
       CloseRequest, CloseWriter, CloseReturns, SyncClose, ClientDies, caller
<1>5. CASE \/ ServerReceives \/ ServerStopsReceiving \/ Gathered \/ SendReply \/ StopSending
           \/ \E i \in Ids : QueueReply(i)
           \/ CancelHandlers \/ Served \/ StopServer \/ ServerDies
  BY <1>5 DEF ServerReceives, ServerStopsReceiving, Gathered, SendReply, StopSending, QueueReply,
       CancelHandlers, Served, StopServer, ServerDies, caller
<1> QED BY <1>1, <1>2, <1>3, <1>4, <1>5 DEF Next, Progress

LEMMA HonestNext ==
  ASSUME Types, Types', Numbered, Identified, Honest, Next PROVE Honest'
<1> DEFINE Done(i) == i \in Ids /\ sv.task[i] = "done"
           StillDone(i) == i \in 1 .. sv'.last /\ sv'.task[i] = "done"
<1>1. \A i : Done(i) => StillDone(i)
  <2>1. sv.last \in Nat /\ sv'.last \in Nat
    BY DEF Types, ServerType
  <2> QED BY <2>1, TasksStay DEF Ids
<1>2. /\ \A k \in 1 .. Len(sv.completed) : Done(sv.completed[k])
      /\ \A k \in 1 .. Len(down) : down[k][2] = "reply" => Done(down[k][1])
      /\ \A c \in Caller : future[c] = "reply" => Done(id[c])
  BY DEF Honest
<1>3. /\ sv.completed \in Seq(Nat) /\ Len(sv.completed) \in Nat
      /\ down \in Seq(Responses) /\ Len(down) \in Nat
  BY DEF Types, ServerType
<1>4. ~Done(0)
  BY DEF Ids
<1>5. sv.completed # << >> => Done(Head(sv.completed))
  <2>1. sv.completed # << >> => 1 \in 1 .. Len(sv.completed) /\ Head(sv.completed) = sv.completed[1]
    BY <1>3
  <2> QED BY <1>2, <2>1
<1>6. \A i \in Ids : sv'.last = sv.last /\ sv'.task = [sv.task EXCEPT ![i] = "done"] => StillDone(i)
  BY DEF Ids, Types, ServerType
<1> HIDE DEF Done, StillDone
<1>7. \A k \in 1 .. Len(sv'.completed) : StillDone(sv'.completed[k])
  <2>1. CASE sv'.completed = sv.completed
    BY <1>1, <1>2, <2>1
  <2>2. CASE sv.completed # << >> /\ sv'.completed = Tail(sv.completed)
    BY <1>1, <1>2, <1>3, <2>2
  <2>3. ASSUME NEW i \in Ids, sv'.completed = Append(sv.completed, i), StillDone(i)
        PROVE  \A k \in 1 .. Len(sv'.completed) : StillDone(sv'.completed[k])
    BY <1>1, <1>2, <1>3, <2>3
  <2> QED BY <1>6, <2>1, <2>2, <2>3, CompletedStep
<1>8. \A k \in 1 .. Len(down') : down'[k][2] = "reply" => StillDone(down'[k][1])
  <2>1. CASE down' = down
    BY <1>1, <1>2, <2>1
  <2>2. CASE down # << >> /\ down' = Tail(down)
    BY <1>1, <1>2, <1>3, <2>2
  <2>3. ASSUME NEW m, down' = Append(down, m), Done(m[1])
        PROVE  \A k \in 1 .. Len(down') : down'[k][2] = "reply" => StillDone(down'[k][1])
    BY <1>1, <1>2, <1>3, <2>3
  <2>4. \A body : sv.completed # << >> => Done(<<Head(sv.completed), body>>[1])
    BY <1>5
  <2> QED BY <2>1, <2>2, <2>3, <2>4, DownStep
<1>9. \A c \in Caller : future'[c] = "reply" => StillDone(id'[c])
  <2> SUFFICES ASSUME NEW c \in Caller, future'[c] = "reply" PROVE StillDone(id'[c])
    OBVIOUS
  <2>1. CASE id'[c] = id[c] /\ future[c] = "reply"
    BY <1>1, <1>2, <2>1
  <2>2. CASE at[c] \in {"idle", "opening"} /\ future[c] = "reply"
    BY <1>2, <1>4, <2>2 DEF Identified
  <2>3. CASE id'[c] = id[c] /\ down # << >> /\ Head(down) = <<id[c], "reply">>
    <3>1. 1 \in 1 .. Len(down) /\ down[1][1] = id[c] /\ down[1][2] = "reply"
      BY <1>3, <2>3
    <3> QED BY <1>1, <1>2, <2>3, <3>1
  <2> QED BY <2>1, <2>2, <2>3, FutureStep
<1> QED BY <1>7, <1>8, <1>9 DEF Honest, Ids, StillDone
-----------------------------------------------------------------------------
(***************************************************************************)
(* The blocking client.                                                    *)
(***************************************************************************)
LEMMA KindStays == ASSUME Next PROVE kind' = kind
<1>1. CASE \/ \E b \in Caller : \/ Refuse(b) \/ EnsureConnected(b) \/ NotConnected(b) \/ Send(b)
                                \/ Drain(b) \/ Return(b) \/ GiveUp(b)
                                \/ SyncCall(b) \/ SyncReceive(b) \/ SyncLost(b) \/ SyncTimeout(b)
           \/ OpenConnection \/ Receive \/ StopReceiving \/ Close \/ CloseUnconnected
           \/ CloseRequest \/ CloseWriter \/ CloseReturns \/ SyncClose \/ ClientDies
  BY <1>1 DEF Refuse, EnsureConnected, NotConnected, Send, Drain, Return, GiveUp, SyncCall,
       SyncReceive, SyncLost, SyncTimeout, OpenConnection, Receive, StopReceiving, EndRecvLoop,
       Close, CloseUnconnected, CloseRequest, CloseWriter, CloseReturns, SyncClose, ClientDies
<1>2. CASE \/ ServerReceives \/ ServerStopsReceiving \/ Gathered \/ SendReply \/ StopSending
           \/ \E i \in Ids : QueueReply(i)
           \/ CancelHandlers \/ Served \/ StopServer \/ ServerDies
  BY <1>2 DEF ServerReceives, ServerStopsReceiving, Gathered, SendReply, StopSending, QueueReply,
       CancelHandlers, Served, StopServer, ServerDies
<1> QED BY <1>1, <1>2 DEF Next, Progress

\* The steps of the blocking client and of the server, the others being those
\* of the asynchronous one.
ServerSteps ==
  \/ ServerReceives \/ ServerStopsReceiving \/ Gathered \/ SendReply \/ StopSending
  \/ \E i \in Ids : QueueReply(i)
  \/ CancelHandlers \/ Served \/ StopServer \/ ServerDies

LEMMA SyncSteps ==
  ASSUME Types, Blocking, kind = "sync", Next
  PROVE  \/ \E c \in Caller : \/ Refuse(c) \/ SyncCall(c) \/ SyncReceive(c) \/ SyncLost(c)
                              \/ SyncTimeout(c)
         \/ SyncClose \/ ClientDies \/ ServerSteps
<1>1. ~\E c \in Caller : \/ EnsureConnected(c) \/ NotConnected(c) \/ Send(c) \/ Drain(c) \/ Return(c)
                         \/ GiveUp(c)
  BY DEF EnsureConnected, NotConnected, Send, Drain, Return, GiveUp, Blocking
<1>2. ~(\/ OpenConnection \/ Receive \/ StopReceiving \/ Close \/ CloseUnconnected \/ CloseRequest
        \/ CloseWriter \/ CloseReturns)
  BY DEF OpenConnection, Receive, StopReceiving, Close, CloseUnconnected, CloseRequest, CloseWriter,
         CloseReturns, Blocking
<1> QED BY <1>1, <1>2 DEF Next, Progress, ServerSteps

LEMMA ServerLeavesClient ==
  ASSUME ServerSteps PROVE UNCHANGED <<kind, at, id, future, cl, upEnd>>
BY DEF ServerSteps, ServerReceives, ServerStopsReceiving, Gathered, SendReply, StopSending,
       QueueReply, CancelHandlers, Served, StopServer, ServerDies, caller, wire

LEMMA BlockingInit == Init => Blocking
BY DEF Init, Blocking

LEMMA BlockingNext ==
  ASSUME Types, Types', Blocking, Next PROVE Blocking'
<1> SUFFICES ASSUME kind = "sync" PROVE Blocking'
  BY KindStays DEF Blocking
<1> USE DEF Blocking
<1>1. ASSUME NEW c \in Caller, Refuse(c) PROVE Blocking'
  BY <1>1 DEF Refuse, wire, Types
<1>2. ASSUME NEW c \in Caller, SyncCall(c) PROVE Blocking'
  <2>1. /\ cl'.recv = cl.recv /\ cl'.closing = cl.closing /\ cl.closing = "no"
        /\ cl'.open \in {"no", "yes", "failed"} /\ UNCHANGED <<kind, future, upEnd>>
        /\ \A b \in Caller : at[b] # "wait"
        /\ \/ at' = [at EXCEPT ![c] = "lost"]
           \/ /\ at' = [at EXCEPT ![c] = "wait"] /\ id' = [id EXCEPT ![c] = NextCallId]
              /\ cl'.broken /\ cl'.counter = NextCallId
    <3>1. PICK open \in {"yes", "failed", cl.open}, broken \in BOOLEAN :
            \/ /\ cl' = Client(cl.counter, open, cl.pending, cl.stop, cl.recv, cl.closing, broken)
               /\ at' = [at EXCEPT ![c] = "lost"]
            \/ /\ cl' = Client(NextCallId, open, cl.pending, cl.stop, cl.recv, cl.closing, TRUE)
               /\ at' = [at EXCEPT ![c] = "wait"] /\ id' = [id EXCEPT ![c] = NextCallId]
      BY <1>2, CallChanges DEF Types
    <3>2. /\ cl'.recv = cl.recv /\ cl'.closing = cl.closing
          /\ cl'.open \in {"no", "yes", "failed"}
          /\ \/ at' = [at EXCEPT ![c] = "lost"]
             \/ /\ at' = [at EXCEPT ![c] = "wait"] /\ id' = [id EXCEPT ![c] = NextCallId]
                /\ cl'.broken /\ cl'.counter = NextCallId
      BY <3>1 DEF Client
    <3>3. /\ cl.closing = "no" /\ UNCHANGED <<kind, future, upEnd>>
          /\ \A b \in Caller : at[b] # "wait"
      BY <1>2 DEF SyncCall, CheckUsable, Calling
    <3> QED BY <3>2, <3>3
  <2> QED BY <2>1 DEF Types
<1>3. ASSUME NEW c \in Caller, SyncReceive(c) PROVE Blocking'
  <2>1. /\ UNCHANGED <<cl.recv, cl.closing, cl.open, cl.counter, kind, id, future, upEnd>>
        /\ at[c] = "wait" /\ \A b \in Caller : at'[b] = at[b] \/ b = c
        /\ at'[c] \in {"answer", "lost"}
    BY <1>3, ClientActions DEF SyncReceive, Types, Client
  <2> QED BY <2>1
<1>4. ASSUME NEW c \in Caller, SyncLost(c) \/ SyncTimeout(c) PROVE Blocking'
  <2>1. UNCHANGED <<kind, id, future, cl, upEnd>>
        /\ \A b \in Caller : at'[b] = at[b] \/ at'[b] \in {"lost", "gone"}
    BY <1>4 DEF SyncLost, SyncTimeout, wire, Types
  <2> QED BY <2>1
<1>5. CASE SyncClose
  <2>1. /\ UNCHANGED <<cl.recv, cl.open, kind, at, id, future>> /\ cl'.closing = "done"
    BY <1>5 DEF SyncClose, caller, Types, ClientType
  <2>2. \A b \in Caller : at[b] # "wait"
    BY <1>5 DEF SyncClose, Calling
  <2> QED BY <2>1, <2>2
<1>6. CASE ClientDies
  <2>1. /\ UNCHANGED <<cl.open, kind, id, future>> /\ cl'.closing = "done" /\ cl'.recv = "none"
    BY <1>6, ClientActions DEF ClientDies, Types, Client
  <2>2. \A b \in Caller : at'[b] \notin Calling
    BY <1>6 DEF ClientDies, Calling
  <2> QED BY <2>1, <2>2 DEF Calling
<1>7. CASE ServerSteps
  BY <1>7, ServerLeavesClient
<1> QED BY <1>1, <1>2, <1>3, <1>4, <1>5, <1>6, <1>7, SyncSteps

LEMMA OneAtATimeInit == Init => OneAtATime
BY DEF Init, OneAtATime, InTransit, Begun, Ids

LEMMA OneAtATimeNext ==
  ASSUME Types, Types', Numbered, Blocking, OneAtATime, Next PROVE OneAtATime'
<1> SUFFICES ASSUME kind = "sync", cl'.closing = "no" PROVE OneAtATime'
  BY KindStays DEF OneAtATime
<1> DEFINE open == IF Begun = {} THEN 0 ELSE 1
<1>1. /\ Len(up) \in Nat /\ Len(sv.completed) \in Nat /\ Len(down) \in Nat
      /\ up \in Seq(Requests) /\ sv.completed \in Seq(Nat) /\ down \in Seq(Responses)
      /\ cl.counter \in Nat /\ sv.last \in Nat /\ sv.task \in Seq(Fate) /\ Len(sv.task) = sv.last
  BY DEF Types, ClientType, ServerType
<1>2. ASSUME cl.closing = "no"
      PROVE  /\ Len(up) + open + Len(sv.completed) + Len(down) <= 1
             /\ ~cl.broken => Len(up) + open + Len(sv.completed) + Len(down) = 0
             /\ \A k \in 1 .. Len(up) : up[k] = <<cl.counter, "call">>
             /\ \A i \in Begun : i = cl.counter
             /\ \A k \in 1 .. Len(sv.completed) : sv.completed[k] = cl.counter
             /\ \A k \in 1 .. Len(down) : down[k][1] = cl.counter
  BY <1>2 DEF OneAtATime, InTransit
\* Whatever is in transit is there alone.
<1>9. ASSUME cl.closing = "no"
      PROVE  /\ Len(up) <= 1 /\ Len(sv.completed) <= 1 /\ Len(down) <= 1
             /\ Len(up) # 0 \/ Begun # {} \/ Len(sv.completed) # 0 \/ Len(down) # 0 => cl.broken
             /\ Len(up) # 0 => Begun = {} /\ Len(sv.completed) = 0 /\ Len(down) = 0
             /\ Begun # {} => Len(up) = 0 /\ Len(sv.completed) = 0 /\ Len(down) = 0
             /\ Len(sv.completed) # 0 => Len(up) = 0 /\ Begun = {} /\ Len(down) = 0
             /\ Len(down) # 0 => Len(up) = 0 /\ Begun = {} /\ Len(sv.completed) = 0
  <2>1. open \in {0, 1} /\ (Begun = {} <=> open = 0)
    OBVIOUS
  <2> HIDE DEF open
  <2> DEFINE u == Len(up)  r == Len(sv.completed)  d == Len(down)
  <2>2. u \in Nat /\ r \in Nat /\ d \in Nat
    BY <1>1
  <2>3. u + open + r + d <= 1 /\ (~cl.broken => u + open + r + d = 0)
    BY <1>2, <1>9
  <2> HIDE DEF u, r, d
  <2>4. /\ u <= 1 /\ r <= 1 /\ d <= 1
        /\ u # 0 \/ open # 0 \/ r # 0 \/ d # 0 => cl.broken
        /\ u # 0 => open = 0 /\ r = 0 /\ d = 0
        /\ open # 0 => u = 0 /\ r = 0 /\ d = 0
        /\ r # 0 => u = 0 /\ open = 0 /\ d = 0
        /\ d # 0 => u = 0 /\ open = 0 /\ r = 0
    BY <2>1, <2>2, <2>3
  <2> QED BY <2>1, <2>4 DEF u, r, d
<1>3. ASSUME UNCHANGED <<cl, sv.last, sv.task, sv.completed, up, down>> PROVE OneAtATime'
  BY <1>3, KindStays DEF OneAtATime, InTransit, Begun, Ids
<1>4. ASSUME NEW c \in Caller, Refuse(c) \/ SyncLost(c) \/ SyncTimeout(c) PROVE OneAtATime'
  BY <1>3, <1>4 DEF Refuse, SyncLost, SyncTimeout, wire
\* A usable client has nothing in transit when it writes the next call.
<1>5. ASSUME NEW c \in Caller, SyncCall(c) PROVE OneAtATime'
  <2>1. /\ cl.closing = "no" /\ ~cl.broken /\ down' = down
    BY <1>5 DEF SyncCall, CheckUsable
  <2>2. Len(up) = 0 /\ Begun = {} /\ Len(sv.completed) = 0 /\ Len(down) = 0
    BY <1>9, <2>1
  <2>3. sv'.last = sv.last /\ sv'.task = sv.task /\ sv'.completed = sv.completed
    <3>1. /\ Accepted.last = sv.last /\ Accepted.task = sv.task
          /\ Accepted.completed = sv.completed
      BY ServerActions DEF Accepted, Types, Server
    <3>2. sv' \in {sv, Accepted}
      BY <1>5 DEF SyncCall
    <3> QED BY <3>1, <3>2
  <2>4. Begun' = {}
    BY <2>2, <2>3 DEF Begun, Ids
  <2>5. \/ up' = up
        \/ up' = Append(up, <<NextCallId, "call">>) /\ cl'.broken /\ cl'.counter = NextCallId
    BY <1>5 DEF SyncCall, NextCallId, Types, ClientType
  <2>6. CASE up' = up
    BY <1>1, <2>1, <2>2, <2>3, <2>4, <2>6 DEF OneAtATime, InTransit
  <2>7. CASE up' = Append(up, <<NextCallId, "call">>) /\ cl'.broken /\ cl'.counter = NextCallId
    <3> DEFINE m == <<NextCallId, "call">>
    <3>1. up' = Append(up, m) /\ m = <<cl'.counter, "call">>
      BY <2>7
    <3>2. m \in Requests
      BY <1>1 DEF Requests, NextCallId
    <3> HIDE DEF m
    <3>3. Len(up') = 1 /\ up'[1] = m
      BY <1>1, <2>2, <3>1, <3>2
    <3>4. \A k \in 1 .. Len(up') : up'[k] = <<cl'.counter, "call">>
      BY <3>1, <3>3
    <3> QED BY <2>1, <2>2, <2>3, <2>4, <2>7, <3>3, <3>4 DEF OneAtATime, InTransit
  <2> QED BY <2>5, <2>6, <2>7
\* What a waiting caller receives was all there was.
<1>6. ASSUME NEW c \in Caller, SyncReceive(c) PROVE OneAtATime'
  <2>1. /\ UNCHANGED <<up, sv, cl.counter, cl.closing>> /\ down # << >> /\ down' = Tail(down)
    BY <1>6, ClientActions DEF SyncReceive, Types, Client
  <2>2. Len(down) > 0 /\ Len(down') = Len(down) - 1
    BY <1>1, <2>1
  <2>3. Len(up) = 0 /\ Begun = {} /\ Len(sv.completed) = 0 /\ Len(down') = 0
    BY <1>1, <1>9, <2>1, <2>2
  <2>4. Begun' = {}
    BY <2>1, <2>3 DEF Begun, Ids
  <2> QED BY <2>1, <2>3, <2>4 DEF OneAtATime, InTransit
<1>7. CASE SyncClose \/ ClientDies
  BY <1>7 DEF SyncClose, ClientDies, Types, ClientType
<1>8. CASE ServerSteps
  <2>1. UNCHANGED <<kind, cl, upEnd>> /\ cl.closing = "no" /\ ~upEnd
    BY <1>8, ServerLeavesClient DEF Blocking, Types
  <2>2. CASE ServerReceives
    <3>1. sv.recv = "on" /\ up # << >> /\ up' = Tail(up) /\ down' = down
      BY <2>2 DEF ServerReceives
    <3>2. /\ Len(up) = 1 /\ Begun = {} /\ Len(sv.completed) = 0 /\ Len(down) = 0
          /\ Len(up') = 0 /\ Head(up) = <<cl.counter, "call">>
      <4>1. Len(up) # 0 /\ Head(up) = up[1] /\ Len(up') = Len(up) - 1
        BY <1>1, <3>1
      <4>2. Len(up) = 1
        BY <1>1, <1>9, <2>1, <4>1
      <4> QED BY <1>2, <1>9, <2>1, <4>1, <4>2
    <3>3. cl.counter = sv.last + 1
      BY <1>1, <3>1, <3>2, NumberedTail DEF Numbered
    <3>4. /\ sv'.last = cl.counter /\ sv'.completed = sv.completed
          /\ \A j \in 1 .. cl.counter : j # cl.counter => sv'.task[j] = sv.task[j]
      BY <2>2, <3>2 DEF ServerReceives, Types, ServerType
    <3>5. \A i \in Begun' : i = cl.counter
      <4> SUFFICES ASSUME NEW i \in 1 .. sv'.last, sv'.task[i] = "begun" PROVE i = cl.counter
        BY DEF Begun, Ids
      <4>1. i # cl.counter => i \in 1 .. sv.last /\ sv.task[i] = "begun"
        BY <1>1, <3>3, <3>4
      <4> QED BY <3>2, <4>1 DEF Begun, Ids
    <3>6. Len(up') = 0 /\ Len(sv'.completed) = 0 /\ Len(down') = 0
      BY <3>1, <3>2, <3>4
    <3>7. InTransit' <= 1
      BY <3>6 DEF InTransit
    <3>8. cl'.broken
      BY <1>9, <2>1, <3>2
    <3> QED BY <2>1, <3>5, <3>6, <3>7, <3>8 DEF OneAtATime
  <2>3. ASSUME NEW i \in Ids, QueueReply(i) PROVE OneAtATime'
    <3>1. /\ sv'.last = sv.last /\ sv'.task = [sv.task EXCEPT ![i] = "done"]
          /\ sv'.completed = Append(sv.completed, i) /\ sv.task[i] = "begun"
          /\ UNCHANGED <<up, down>>
      <4>1. sv.task[i] = "begun" /\ UNCHANGED <<up, down>>
        BY <2>3 DEF QueueReply, wire
      <4>2. sv' = Server(sv.listening, sv.conn, sv.stop, sv.recv, sv.send, sv.last, Marked(i),
                         Append(sv.completed, i))
        BY <2>3, ServerActions DEF Types
      <4> QED BY <4>1, <4>2 DEF Marked, Server
    <3>2. i \in Begun /\ i = cl.counter
      BY <1>2, <2>1, <3>1 DEF Begun
    <3>3. Len(up) = 0 /\ Len(sv.completed) = 0 /\ Len(down) = 0 /\ cl.broken
      BY <1>9, <2>1, <3>2
    <3>4. Begun' = {}
      <4> SUFFICES ASSUME NEW j \in Ids, sv'.task[j] = "begun" PROVE FALSE
        BY <3>1 DEF Begun, Ids
      <4>1. DOMAIN sv.task = Ids
        BY <1>1 DEF Ids
      <4>2. j # i /\ sv.task[j] = "begun"
        BY <3>1, <4>1
      <4> QED BY <1>2, <2>1, <3>2, <4>2 DEF Begun
    <3>5. Len(sv'.completed) = 1 /\ sv'.completed[1] = cl.counter
      BY <1>1, <3>1, <3>2, <3>3
    <3> QED BY <2>1, <3>1, <3>3, <3>4, <3>5 DEF OneAtATime, InTransit
  <2>4. CASE SendReply
    <3> DEFINE i == Head(sv.completed)
    <3>1. /\ sv.completed # << >> /\ sv'.completed = Tail(sv.completed) /\ up' = up
          /\ sv'.last = sv.last /\ sv'.task = sv.task
      <4>1. sv.completed # << >> /\ up' = up
        BY <2>4 DEF SendReply
      <4>2. \E stop, send : sv' = Server(sv.listening, sv.conn, stop, sv.recv, send, sv.last,
                                         sv.task, Tail(sv.completed))
        BY <2>4, ServerActions DEF Types
      <4> QED BY <4>1, <4>2 DEF Server
    <3>2. /\ Len(sv.completed) = 1 /\ i = cl.counter
          /\ Len(up) = 0 /\ Begun = {} /\ Len(down) = 0 /\ Len(sv'.completed) = 0 /\ cl.broken
      <4>1. /\ Len(sv.completed) # 0 /\ i = sv.completed[1]
            /\ Len(sv'.completed) = Len(sv.completed) - 1
        BY <1>1, <3>1
      <4>2. Len(sv.completed) = 1
        <5>1. Len(sv.completed) <= 1
          BY <1>9, <2>1
        <5> DEFINE r == Len(sv.completed)
        <5>2. r \in Nat /\ r # 0 /\ r <= 1
          BY <1>1, <4>1, <5>1
        <5> HIDE DEF r
        <5>3. r = 1
          BY <5>2
        <5> QED BY <5>3 DEF r
      <4> QED BY <1>2, <1>9, <2>1, <4>1, <4>2
    <3>3. \E m \in Responses : m[1] = i /\ down' = Append(down, m)
      <4>1. i \in Nat
        BY <1>1, <3>2
      <4>2. \E body \in {"reply", "nothing"} : down' = Append(down, <<i, body>>)
        BY <2>1, <2>4 DEF SendReply
      <4> QED BY <4>1, <4>2 DEF Responses
    <3>4. Len(down') = 1 /\ down'[1][1] = cl.counter
      BY <1>1, <3>2, <3>3
    <3>5. Begun' = {}
      BY <3>1, <3>2 DEF Begun, Ids
    <3>6. InTransit' <= 1
      <4>1. Len(up') = 0
        BY <3>1, <3>2
      <4>2. Len(sv'.completed) = 0 /\ Len(down') = 1
        BY <3>2, <3>4
      <4> QED BY <3>5, <4>1, <4>2 DEF InTransit
    <3> QED BY <2>1, <3>1, <3>2, <3>4, <3>5, <3>6 DEF OneAtATime
  <2>5. CASE CancelHandlers \/ ServerDies
    <3>1. /\ sv'.last = sv.last /\ sv'.completed = sv.completed /\ sv'.task = Cut
          /\ UNCHANGED <<up, down>>
      <4>1. UNCHANGED <<up, down>>
        BY <2>5 DEF CancelHandlers, ServerDies, wire
      <4> QED BY <2>5, <4>1, ServerActions DEF Types, Server
    <3>2. Begun' = {}
      BY <1>1, <3>1 DEF Begun, Ids, Cut
    <3>3. InTransit' <= 1 /\ (~cl.broken => InTransit' = 0)
      BY <1>1, <1>9, <2>1, <3>1, <3>2 DEF InTransit
    <3> QED BY <1>2, <2>1, <3>1, <3>2, <3>3 DEF OneAtATime
  <2>6. CASE ServerStopsReceiving \/ Gathered \/ StopSending \/ Served \/ StopServer
    <3>1. UNCHANGED <<up, down>>
      BY <2>6 DEF ServerStopsReceiving, Gathered, StopSending, Served, StopServer, wire
    <3>2. UNCHANGED <<sv.last, sv.task, sv.completed>>
      <4>1. CASE ServerStopsReceiving \/ Gathered \/ StopSending
        BY <4>1, ServerActions DEF ServerStopsReceiving, Gathered, StopSending, Types, Server
      <4>2. CASE Served \/ StopServer
        BY <4>2, ServerActions DEF Served, StopServer, Types, Server
      <4> QED BY <2>6, <4>1, <4>2
    <3> QED BY <1>3, <2>1, <3>1, <3>2
  <2> QED BY <1>8, <2>2, <2>3, <2>4, <2>5, <2>6 DEF ServerSteps
<1> QED BY <1>4, <1>5, <1>6, <1>7, <1>8, SyncSteps
-----------------------------------------------------------------------------
(***************************************************************************)
(* The inductive invariant, and what follows from it.                      *)
(***************************************************************************)
LEMMA IInvInit == Init => IInv
BY TypesInit, NumberedInit, IdentifiedInit, HonestInit, AwaitedInit, BlockingInit, OneAtATimeInit
DEF IInv

LEMMA TypesNext == ASSUME Types, Numbered, Next PROVE Types'
BY ClientTypes, SyncTypes, ServerTypes DEF Next, Progress

LEMMA IInvNext == IInv /\ [Next]_vars => IInv'
<1> SUFFICES ASSUME IInv, [Next]_vars PROVE IInv'
  OBVIOUS
<1>1. CASE Next
  BY <1>1, TypesNext, NumberedNext, IdentifiedNext, HonestNext, AwaitedNext, BlockingNext,
     OneAtATimeNext DEF IInv
<1>2. CASE UNCHANGED vars
  <2> USE <1>2 DEF vars, caller, wire
  <2>1. Types' /\ Numbered'
    BY DEF IInv, Types, Numbered, Alive
  <2>2. Identified' /\ Honest' /\ Awaited'
    BY DEF IInv, Identified, Honest, Ids, Awaited
  <2>3. Blocking' /\ OneAtATime'
    BY DEF IInv, Blocking, OneAtATime, InTransit, Begun, Ids
  <2> QED BY <2>1, <2>2, <2>3 DEF IInv
<1> QED BY <1>1, <1>2

THEOREM IInvAlways == Spec => []IInv
BY IInvInit, IInvNext, PTL DEF Spec

\* SocketAsyncRPCClient.__call__: no call waits for a receive loop that is
\* gone, in any order of calls, cancellations and broken connections.
THEOREM NoneLostAlways == Spec => []NoneLost
<1>1. IInv => TypeOK
  <2> SUFFICES ASSUME IInv PROVE TypeOK
    OBVIOUS
  <2>1. id \in [Caller -> 0 .. cl.counter] /\ cl.pending \subseteq 1 .. cl.counter
    BY DEF IInv, Types, ClientType, Identified
  <2>2. DOMAIN sv.task = Ids
    BY DEF IInv, Types, ServerType, Ids
  <2>3. /\ cl.open \in {"no", "opening", "yes", "failed", "cancelled"}
        /\ cl.recv \in {"none", "on", "off", "failed"}
        /\ sv.recv \in {"none", "on", "gather", "off"} /\ sv.send \in {"none", "on", "off", "failed"}
    BY DEF IInv, Types, ClientType, ServerType
  <2>4. \A a, b \in Caller : id[a] = id[b] /\ id[a] # 0 => a = b
    BY DEF IInv, Identified
  <2> QED BY <2>1, <2>2, <2>3, <2>4 DEF IInv, Types, Places, TypeOK
<1>2. IInv => NoneLeftWaiting
  BY DEF IInv, Awaited, NoneLeftWaiting
<1> QED BY <1>1, <1>2, IInvAlways, PTL DEF NoneLost

\* SocketSyncRPCClient._broken: what a waiting caller finds on the socket is
\* the response to its own call.
THEOREM InStepAlways == Spec => []InStep
<1>1. IInv => InStep
  <2> SUFFICES ASSUME IInv, NEW c \in Caller, kind = "sync", at[c] = "wait", down # << >>
               PROVE  down[1][1] = id[c]
    BY DEF InStep
  <2>1. cl.closing = "no" /\ id[c] = cl.counter
    BY DEF IInv, Blocking
  <2>2. 1 \in 1 .. Len(down)
    BY DEF IInv, Types
  <2> QED BY <2>1, <2>2 DEF IInv, OneAtATime
<1> QED BY <1>1, IInvAlways, PTL
-----------------------------------------------------------------------------
(***************************************************************************)
(* The connection implements RpcCalls.                                     *)
(***************************************************************************)
LEMMA PromiseInit == Init => Promise!Init
BY DEF Init, Promise!Init, Outcome, Effect, Calling, Ids

\* Some open calls end and some handlers are cut off.
SomeEnd(end) ==
  \A c \in Caller : \/ Outcome'[c] = Outcome[c]
                    \/ Outcome[c] = "open" /\ Outcome'[c] = end
SomeCut ==
  \A c \in Caller : \/ Effect'[c] = Effect[c]
                    \/ Effect[c] = "begun" /\ Effect'[c] = "cut"

LEMMA BreakStep ==
  ASSUME NEW end \in {"lost", "gone"}, SomeEnd(end), SomeCut
  PROVE  Promise!Next
<1> DEFINE L == {c \in Caller : Outcome'[c] # Outcome[c]}
<1> DEFINE C == {c \in Caller : Effect'[c] # Effect[c]}
<1>1. /\ L \in SUBSET {c \in Caller : Outcome[c] = "open"}
      /\ C \in SUBSET {c \in Caller : Effect[c] = "begun"}
  BY DEF SomeEnd, SomeCut
<1>2. Outcome' = [c \in Caller |-> IF c \in L THEN end ELSE Outcome[c]]
  BY DEF Outcome, SomeEnd
<1>3. Effect' = [c \in Caller |-> IF c \in C THEN "cut" ELSE Effect[c]]
  BY DEF Effect, SomeCut
<1> HIDE DEF L, C
<1>4. Promise!Break
  BY <1>1, <1>2, <1>3 DEF Promise!Break
<1> QED BY <1>4 DEF Promise!Next

\* A step of one caller that the server does not see: it asks, it gives up or
\* loses its connection, or it is answered.
LEMMA CallerSteps ==
  ASSUME UNCHANGED Effect, NEW c \in Caller, at \in [Caller -> Places], at' \in [Caller -> Places],
         \A b \in Caller : b # c => at'[b] = at[b],
         \/ at'[c] = at[c]
         \/ at[c] = "idle" /\ at'[c] \in {"opening", "wait", "refused", "lost"}
         \/ at[c] \in Calling /\ at'[c] \in Calling \cup {"lost", "gone"}
         \/ at[c] \in Calling /\ at'[c] = "answer" /\ Effect[c] = "done"
  PROVE  Promise!Next \/ UNCHANGED <<Outcome, Effect>>
<1>1. /\ Outcome' = [Outcome EXCEPT ![c] = Outcome'[c]]
      /\ \A b \in Caller : Outcome'[b] = IF at'[b] \in Calling THEN "open" ELSE at'[b]
      /\ \A b \in Caller : Outcome[b] = IF at[b] \in Calling THEN "open" ELSE at[b]
  BY DEF Outcome, Places
<1>2. CASE Outcome'[c] = Outcome[c]
  <2>1. Outcome' = Outcome
    BY <1>1, <1>2 DEF Outcome
  <2> QED BY <2>1
<1>3. CASE at[c] = "idle" /\ at'[c] \in {"opening", "wait", "refused", "lost"}
  <2>1. Outcome[c] = "idle" /\ Outcome'[c] \in {"open", "refused", "lost"}
    BY <1>1, <1>3 DEF Calling
  <2> QED BY <1>1, <2>1 DEF Promise!Next, Promise!Ask, Promise!Sees
<1>4. CASE at[c] \in Calling /\ at'[c] = "answer" /\ Effect[c] = "done"
  <2>1. Outcome[c] = "open" /\ Outcome'[c] = "answer"
    BY <1>1, <1>4 DEF Calling
  <2> QED BY <1>1, <1>4, <2>1 DEF Promise!Next, Promise!Answer, Promise!Sees
<1>5. CASE at[c] \in Calling /\ at'[c] \in Calling \cup {"lost", "gone"}
  <2>1. Outcome[c] = "open" /\ Outcome'[c] \in {"open", "lost", "gone"}
    BY <1>1, <1>5 DEF Calling
  <2>2. CASE Outcome'[c] = "gone"
    BY <1>1, <2>1, <2>2 DEF Promise!Next, Promise!GiveUp, Promise!Sees
  <2>3. CASE Outcome'[c] = "lost"
    <3>1. SomeEnd("lost")
      BY <1>1, <2>1, <2>3 DEF SomeEnd
    <3>2. SomeCut
      BY DEF SomeCut
    <3>3. Promise!Next
      BY <3>1, <3>2, BreakStep
    <3> QED BY <3>3
  <2> QED BY <1>2, <2>1, <2>2, <2>3
<1> QED BY <1>1, <1>2, <1>3, <1>4, <1>5

\* The next id is not known to the server.
LEMMA EffectOfCall ==
  ASSUME IInv, NEW c \in Caller, at[c] \in {"idle", "opening"},
         id' = id \/ id' = [id EXCEPT ![c] = NextCallId], UNCHANGED <<sv.last, sv.task>>
  PROVE  UNCHANGED Effect
<1>1. cl.counter \in Nat /\ sv.last \in Nat /\ Len(up) \in Nat /\ sv.last <= cl.counter
  BY DEF IInv, Types, ClientType, ServerType, Numbered
<1>2. id[c] = 0 /\ NextCallId \notin Ids /\ 0 \notin Ids
  BY <1>1 DEF IInv, Identified, NextCallId, Ids
<1>3. \A b \in Caller : b # c => id'[b] = id[b]
  BY DEF IInv, Types
<1>4. id'[c] \notin Ids
  BY <1>2 DEF IInv, Types
<1> QED BY <1>2, <1>3, <1>4 DEF Effect, Ids

LEMMA PromiseOfClient ==
  ASSUME IInv, IInv',
         \/ \E c \in Caller : \/ Refuse(c) \/ EnsureConnected(c) \/ NotConnected(c) \/ Send(c)
                              \/ Drain(c) \/ Return(c) \/ GiveUp(c)
                              \/ SyncCall(c) \/ SyncReceive(c) \/ SyncLost(c) \/ SyncTimeout(c)
         \/ OpenConnection \/ Receive \/ StopReceiving \/ Close \/ CloseUnconnected \/ CloseRequest
         \/ CloseWriter \/ CloseReturns \/ SyncClose \/ ClientDies
  PROVE  Promise!Next \/ UNCHANGED <<Outcome, Effect>>
<1>1. at \in [Caller -> Places] /\ at' \in [Caller -> Places]
  BY DEF IInv, Types
<1>2. \A c \in Caller : id[c] \in Ids /\ sv.task[id[c]] = "done" => Effect[c] = "done"
  BY DEF Effect
<1>3. ASSUME NEW c \in Caller,
             \/ Refuse(c) \/ EnsureConnected(c) \/ NotConnected(c) \/ Drain(c) \/ GiveUp(c)
             \/ SyncLost(c) \/ SyncTimeout(c)
      PROVE  Promise!Next \/ UNCHANGED <<Outcome, Effect>>
  <2>1. UNCHANGED <<id, sv>>
    BY <1>3 DEF Refuse, EnsureConnected, NotConnected, Drain, GiveUp, SyncLost, SyncTimeout
  <2>2. UNCHANGED Effect
    BY <2>1 DEF Effect, Ids
  <2>3. /\ \A b \in Caller : b # c => at'[b] = at[b]
        /\ \/ at[c] = "idle" /\ at'[c] \in {"opening", "wait", "refused", "lost"}
           \/ at[c] \in Calling /\ at'[c] \in Calling \cup {"lost", "gone"}
    BY <1>1, <1>3 DEF Refuse, EnsureConnected, NotConnected, Drain, GiveUp, SyncLost, SyncTimeout,
                      Calling
  <2> QED BY <1>1, <2>2, <2>3, CallerSteps
<1>4. ASSUME NEW c \in Caller, Send(c) \/ SyncCall(c)
      PROVE  Promise!Next \/ UNCHANGED <<Outcome, Effect>>
  <2>1. sv'.last = sv.last /\ sv'.task = sv.task
    <3>1. Accepted.last = sv.last /\ Accepted.task = sv.task
      BY ServerActions DEF Accepted, IInv, Types, Server
    <3>2. sv' \in {sv, Accepted}
      BY <1>4 DEF Send, SyncCall
    <3> QED BY <3>1, <3>2
  <2>2. /\ at[c] \in {"idle", "opening"}
        /\ id' = id \/ id' = [id EXCEPT ![c] = NextCallId]
        /\ \A b \in Caller : b # c => at'[b] = at[b]
        /\ \/ at[c] = "idle" /\ at'[c] \in {"wait", "lost"}
           \/ at[c] \in Calling /\ at'[c] \in Calling \cup {"lost"}
    BY <1>1, <1>4 DEF Send, SyncCall, Calling
  <2>3. UNCHANGED Effect
    BY <2>1, <2>2, EffectOfCall
  <2> QED BY <1>1, <2>2, <2>3, CallerSteps
<1>5. ASSUME NEW c \in Caller, Return(c) \/ SyncReceive(c)
      PROVE  Promise!Next \/ UNCHANGED <<Outcome, Effect>>
  <2>1. UNCHANGED Effect
    BY <1>5 DEF Return, SyncReceive, Effect, Ids
  <2>2. at[c] = "wait" /\ \A b \in Caller : b # c => at'[b] = at[b]
    BY <1>1, <1>5 DEF Return, SyncReceive
  <2>3. at'[c] = "lost" \/ (at'[c] = "answer" /\ Effect[c] = "done")
    <3>1. CASE Return(c)
      BY <1>1, <1>2, <3>1 DEF Return, IInv, Honest
    <3>2. CASE SyncReceive(c)
      <4>1. 1 \in 1 .. Len(down) /\ Head(down) = down[1]
        BY <3>2 DEF SyncReceive, IInv, Types
      <4>2. at'[c] = IF Head(down) = <<id[c], "reply">> THEN "answer" ELSE "lost"
        BY <1>1, <3>2 DEF SyncReceive
      <4>3. CASE Head(down) = <<id[c], "reply">>
        <5>1. down[1][1] = id[c] /\ down[1][2] = "reply"
          BY <4>1, <4>3
        <5> QED BY <1>2, <4>1, <4>2, <4>3, <5>1 DEF IInv, Honest
      <4> QED BY <4>2, <4>3
    <3> QED BY <1>5, <3>1, <3>2
  <2> QED BY <1>1, <2>1, <2>2, <2>3, CallerSteps DEF Calling
<1>6. CASE \/ OpenConnection \/ Receive \/ StopReceiving \/ Close \/ CloseUnconnected
           \/ CloseRequest \/ CloseWriter \/ CloseReturns \/ SyncClose
  <2>1. sv'.last = sv.last /\ sv'.task = sv.task
    <3>1. Accepted.last = sv.last /\ Accepted.task = sv.task
      BY ServerActions DEF Accepted, IInv, Types, Server
    <3>2. sv' \in {sv, Accepted}
      BY <1>6 DEF OpenConnection, Receive, EndRecvLoop, StopReceiving, Close, CloseUnconnected,
                  CloseRequest, CloseWriter, CloseReturns, SyncClose
    <3> QED BY <3>1, <3>2
  <2>2. UNCHANGED <<at, id>>
    BY <1>6 DEF OpenConnection, Receive, EndRecvLoop, StopReceiving, Close, CloseUnconnected,
                CloseRequest, CloseWriter, CloseReturns, SyncClose, caller
  <2> QED BY <2>1, <2>2 DEF Outcome, Effect, Ids
<1>7. CASE ClientDies
  <2>1. UNCHANGED <<id, sv>> /\ \A c \in Caller : at'[c] = IF at[c] \in Calling THEN "gone" ELSE at[c]
    BY <1>7 DEF ClientDies
  <2>2. SomeEnd("gone")
    BY <1>1, <2>1 DEF SomeEnd, Outcome, Calling, Places
  <2>3. SomeCut
    BY <2>1 DEF SomeCut, Effect, Ids
  <2>4. Promise!Next
    BY <2>2, <2>3, BreakStep
  <2> QED BY <2>4
<1> QED BY <1>3, <1>4, <1>5, <1>6, <1>7

\* A step of one task that no caller sees.
LEMMA TaskStep ==
  ASSUME IInv, UNCHANGED <<at, id>>, NEW i \in Nat \ {0}, NEW to \in Fate,
         sv.last \in Nat, sv'.last \in Nat, sv'.last >= sv.last,
         i \in 1 .. sv'.last, sv'.task[i] = to,
         \A j \in 1 .. sv'.last : j # i => j \in Ids /\ sv'.task[j] = sv.task[j],
         \/ i \notin Ids /\ to = "begun"
         \/ i \in Ids /\ sv.task[i] = "begun" /\ to = "done"
  PROVE  Promise!Next \/ UNCHANGED <<Outcome, Effect>>
<1>1. UNCHANGED Outcome
  BY DEF Outcome
<1>2. \A c \in Caller : id[c] # i => Effect'[c] = Effect[c]
  BY DEF Effect, Ids
<1>3. CASE CallOf(i) = {}
  BY <1>1, <1>2, <1>3 DEF CallOf, Effect
<1>4. ASSUME NEW c \in Caller, id[c] = i
      PROVE  Promise!Next
  <2>1. \A b \in Caller : b # c => id[b] # i
    BY <1>4 DEF IInv, Identified
  <2>2. Effect' = [Effect EXCEPT ![c] = to]
    <3>1. Effect'[c] = to
      BY <1>4 DEF Effect, Ids
    <3>2. Effect' = [b \in Caller |-> Effect'[b]] /\ Effect = [b \in Caller |-> Effect[b]]
      BY DEF Effect
    <3> QED BY <1>2, <2>1, <3>1, <3>2
  <2>3. CASE i \notin Ids /\ to = "begun"
    <3>1. Effect[c] = "none"
      BY <1>4, <2>3 DEF Effect
    <3>2. Outcome[c] \notin {"idle", "refused"}
      <4>1. at[c] \notin {"idle", "refused"}
        BY <1>4 DEF IInv, Identified
      <4> QED BY <4>1 DEF Outcome
    <3> QED BY <1>1, <2>2, <2>3, <3>1, <3>2 DEF Promise!Next, Promise!Begin, Promise!Happens
  <2>4. CASE i \in Ids /\ sv.task[i] = "begun" /\ to = "done"
    <3>1. Effect[c] = "begun"
      BY <1>4, <2>4 DEF Effect
    <3> QED BY <1>1, <2>2, <2>4, <3>1 DEF Promise!Next, Promise!Finish, Promise!Happens
  <2> QED BY <2>3, <2>4
<1> QED BY <1>3, <1>4 DEF CallOf

LEMMA PromiseOfServer ==
  ASSUME IInv, IInv', ServerSteps
  PROVE  Promise!Next \/ UNCHANGED <<Outcome, Effect>>
<1>1. UNCHANGED <<at, id>> /\ sv.last \in Nat /\ sv'.last \in Nat /\ Len(sv.task) = sv.last
  BY ServerLeavesClient DEF IInv, Types, ServerType
<1>2. CASE UNCHANGED <<sv.last, sv.task>>
  BY <1>1, <1>2 DEF Outcome, Effect, Ids
<1>3. CASE ServerReceives
  <2> DEFINE i == Head(up)[1]
  <2>1. i = sv.last + 1
    BY <1>1, <1>3, NumberedTail DEF ServerReceives, IInv, Types, Numbered
  <2>2. \/ UNCHANGED <<sv.last, sv.task>>
        \/ /\ sv'.last = i
           /\ sv'.task = [j \in 1 .. i |-> IF j = i THEN "begun" ELSE sv.task[j]]
    BY <1>3 DEF ServerReceives, IInv, Types, ServerType
  <2> HIDE DEF i
  <2>3. CASE /\ sv'.last = i
             /\ sv'.task = [j \in 1 .. i |-> IF j = i THEN "begun" ELSE sv.task[j]]
    <3>1. i \in Nat \ {0} /\ i \in 1 .. sv'.last /\ i \notin Ids /\ sv'.last >= sv.last
      BY <1>1, <2>1, <2>3 DEF Ids
    <3>2. sv'.task[i] = "begun"
      BY <2>3, <3>1
    <3>3. \A j \in 1 .. sv'.last : j # i => j \in Ids /\ sv'.task[j] = sv.task[j]
      BY <1>1, <2>1, <2>3 DEF Ids
    <3> QED BY <1>1, <3>1, <3>2, <3>3, TaskStep DEF Fate
  <2> QED BY <1>2, <2>2, <2>3
<1>4. ASSUME NEW i \in Ids, QueueReply(i)
      PROVE  Promise!Next \/ UNCHANGED <<Outcome, Effect>>
  <2>1. /\ sv'.last = sv.last /\ sv'.task = [sv.task EXCEPT ![i] = "done"] /\ sv.task[i] = "begun"
    <3>1. sv.task[i] = "begun"
      BY <1>4 DEF QueueReply
    <3> QED BY <1>4, <3>1, ServerActions DEF IInv, Types, Marked, Server
  <2>2. DOMAIN sv.task = Ids
    BY <1>1 DEF Ids, IInv, Types, ServerType
  <2> QED BY <1>1, <2>1, <2>2, TaskStep DEF Fate, Ids
<1>5. CASE CancelHandlers \/ ServerDies
  <2>1. sv'.last = sv.last /\ sv'.task = Cut
    BY <1>5, ServerActions DEF CancelHandlers, ServerDies, IInv, Types, Server
  <2>2. SomeCut
    BY <1>1, <2>1 DEF SomeCut, Effect, Cut, Ids
  <2>3. SomeEnd("gone")
    BY <1>1 DEF SomeEnd, Outcome
  <2>4. Promise!Next
    BY <2>2, <2>3, BreakStep
  <2> QED BY <2>4
<1>6. CASE ServerStopsReceiving \/ Gathered \/ SendReply \/ StopSending \/ Served \/ StopServer
  <2>1. UNCHANGED <<sv.last, sv.task>>
    <3>1. CASE ServerStopsReceiving \/ Gathered
      BY <3>1, ServerActions DEF ServerStopsReceiving, Gathered, IInv, Types, Server
    <3>2. CASE SendReply
      BY <3>2, ServerActions DEF SendReply, IInv, Types, Server
    <3>3. CASE StopSending \/ Served \/ StopServer
      BY <3>3, ServerActions DEF StopSending, Served, StopServer, IInv, Types, Server
    <3> QED BY <1>6, <3>1, <3>2, <3>3
  <2> QED BY <1>2, <2>1
<1> QED BY <1>3, <1>4, <1>5, <1>6 DEF ServerSteps

\* Whatever is reordered, abandoned, cut off or closed, a call runs at most
\* once, an answer comes from a call that ran to its end and goes to its
\* caller, and nobody gets two outcomes.
THEOREM ImplementsPromise == Spec => Implements
<1>1. IInv /\ IInv' /\ [Next]_vars => [Promise!Next]_<<Outcome, Effect>>
  <2> SUFFICES ASSUME IInv, IInv', [Next]_vars
               PROVE  Promise!Next \/ UNCHANGED <<Outcome, Effect>>
    OBVIOUS
  <2>1. CASE UNCHANGED vars
    BY <2>1 DEF vars, caller, Outcome, Effect, Ids
  <2>2. CASE Next
    BY <2>2, PromiseOfClient, PromiseOfServer DEF Next, Progress, ServerSteps
  <2> QED BY <2>1, <2>2
<1> QED BY <1>1, PromiseInit, IInvAlways, PTL DEF Spec, Implements, Promise!Spec
=============================================================================
