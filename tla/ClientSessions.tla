--------------------------- MODULE ClientSessions ---------------------------
(***************************************************************************)
(* The sessions between the SRx server and its proxies, from accept to the *)
(* end of the connection:                                                  *)
(*   util/server_socket.c               accept loop, one thread per client *)
(*   server/server_connection_handler.c receiver queue, packet handler     *)
(*   server/command_handler.c           the command thread                 *)
(*   server/update_cache.c              which clients listen to an update  *)
(* The proxy map itself is ProxyMap.tla, which this module extends; a      *)
(* connection is represented by its ClientThread, ProxyMap's "socket".     *)
(*                                                                         *)
(* A PDU travels   stream -> recvQ -> cmdQ   and is handled by a different *)
(* thread at each hop, while the end of the connection is seen by the      *)
(* client thread alone and acted upon at once (handleStatusChange).  What  *)
(* can go wrong lies between these two ways.                               *)
(*                                                                         *)
(* Handlers are atomic.  The clients of an update are a set here (the      *)
(* array that holds them is UpdateClients.tla), validation results are     *)
(* left out, and a connection is used once: a proxy that comes back opens  *)
(* another one.                                                            *)
(***************************************************************************)
EXTENDS ProxyMap, Sequences

CONSTANTS
    ProxyOf,        \* the proxy at the far end of each connection
    Updates,        \* the updates requests are about
    MinClients,     \* minNumberOfClients: the client slots of a new update
    CountSize,      \* values of the uint32_t updateCount
    MaxRequests,    \* bound: verify and delete PDUs a behaviour sends
    Requests,       \* the kinds of requests proxies send
    Departures      \* how a proxy may leave, a subset of the four below

(***************************************************************************)
(* "goodbye": a GOODBYE PDU, then the connection is closed (reconnectSRX,  *)
(* disconnectFromSRx); "crash": the connection is closed or lost without a *)
(* word; "abort": the same before the handshake was answered; "unknown": a *)
(* PDU of a type the server has no case for, and no other after it.        *)
(***************************************************************************)
ASSUME SessionsAssumption ==
    /\ ProxyOf \in [Sockets -> HelloIDs]
    /\ MinClients \in Nat \ {0}
    /\ CountSize \in Nat \ {0, 1}
    /\ MaxRequests \in Nat
    /\ Requests \subseteq {"verify", "delete"}
    /\ Departures \subseteq {"goodbye", "crash", "abort", "unknown"}
    /\ Updates # {}

VARIABLES
    peer,           \* the proxy's view of a connection: none, open or left
    stream,         \* PDUs on the wire towards the server, the last may be EOF
    thread,         \* the ClientThread of each connection
    recvQ,          \* the receiver queue of the connection handler
    cmdQ,           \* the command queue
    item,           \* the update cache: who listens to which update
    updateCount,    \* proxyMap[].updateCount
    requests        \* requests sent so far

sessionVars == <<peer, stream, thread, recvQ, cmdQ, item, updateCount, requests>>
vars == <<mapVars, sessionVars>>

Kinds == {"hello", "goodbye", "eof", "verify", "delete", "unknown"}
PDU   == [kind : Kinds, update : Updates]
Work  == [conn : Sockets, pdu : PDU]

\* A PDU that is about no update carries any one, so that records are uniform.
Plain(k) == [kind |-> k, update |-> CHOOSE u \in Updates : TRUE]

Thread == [pc : {"none", "recv", "cleanup", "gone"}, active : BOOLEAN,
           initialized : BOOLEAN, goodByeReceived : BOOLEAN,
           routerID : Slots, listed : BOOLEAN]

Item == [stored : BOOLEAN, clients : SUBSET Slots, size : Nat, gc : BOOLEAN]

-----------------------------------------------------------------------------
(* The update cache's client management.                                   *)

\* Mutants: the GC flag survives a new client; every request is counted.
AddReference_KeepFlag(i, c) ==
    IF Cardinality(i.clients \cup {c}) <= i.size
    THEN [i EXCEPT !.clients = @ \cup {c}]
    ELSE [i EXCEPT !.clients = @ \cup {c}, !.size = @ + MinClients]
Counted_Always(i, c) == TRUE

\* _addClientReference: a full array is extended by minNumberOfClients, and
\* then neither the client's updateCount nor the GC flag is touched.
AddReference(i, c) ==
    IF Cardinality(i.clients \cup {c}) <= i.size
    THEN [i EXCEPT !.clients = @ \cup {c}, !.gc = FALSE]
    ELSE [i EXCEPT !.clients = @ \cup {c}, !.size = @ + MinClients]

Counted(i, c) == c \notin i.clients /\ Cardinality(i.clients) < i.size

\* _deleteUpdateFromCache: an update nobody listens to is left to the garbage
\* collector.
DropReference(i, c) ==
    [i EXCEPT !.clients = @ \ {c}, !.gc = @ \/ i.clients \subseteq {c}]

ListensTo(c) == {u \in Updates : c \in item[u].clients}

\* processValidationRequest of an update: stored with its first client, or
\* found and joined by another one.
RequestUpdate(u, c) ==
    LET i == IF item[u].stored THEN item[u]
             ELSE [stored |-> TRUE, clients |-> {}, size |-> MinClients, gc |-> FALSE]
    IN  /\ item' = [item EXCEPT ![u] = AddReference(i, c)]
        /\ updateCount' = [updateCount EXCEPT
              ![c] = IF Counted(i, c) THEN (@ + 1) % CountSize ELSE @]

\* deleteUpdateFromCache and the decrement its caller _processDeleteUpdate adds.
DeleteUpdate(u, c) ==
    IF c \in item[u].clients
    THEN /\ item' = [item EXCEPT ![u] = DropReference(@, c)]
         /\ updateCount' = [updateCount EXCEPT ![c] = (@ + CountSize - 1) % CountSize]
    ELSE UNCHANGED <<item, updateCount>>

\* Mutant: the walk stops one reference early.
Unregister_OneShort(c) ==
    \E U \in SUBSET ListensTo(c) :
        /\ Cardinality(U) + 1 = updateCount[c] \/ U = ListensTo(c)
        /\ Cardinality(U) <= updateCount[c]
        /\ item' = [u \in Updates |-> IF u \in U THEN DropReference(item[u], c) ELSE item[u]]
        /\ updateCount' = [updateCount EXCEPT ![c] = 0]

\* unregisterClientID walks through the cache and stops as soon as it has
\* dropped updateCount references.  Which ones come first is left open.
Unregister(c) ==
    \E U \in SUBSET ListensTo(c) :
        /\ Cardinality(U) = updateCount[c] \/ U = ListensTo(c)
        /\ Cardinality(U) <= updateCount[c]
        /\ item' = [u \in Updates |-> IF u \in U THEN DropReference(item[u], c) ELSE item[u]]
        /\ updateCount' = [updateCount EXCEPT ![c] = 0]

\* deactivateConnectionMapping, with the part of it that touches the cache.
EndSession(c, crashed) == deactivateConnectionMapping(c, crashed) /\ Unregister(c)

\* Mutants: the client list keeps the connection; the client ID is not stored.
Ended_Listed(t, pc) ==
    [pc |-> pc, active |-> FALSE, initialized |-> t.initialized,
     goodByeReceived |-> t.goodByeReceived, routerID |-> t.routerID, listed |-> t.listed]
Greeted_NoID(t, c) ==
    [pc |-> t.pc, active |-> t.active, initialized |-> t.initialized \/ t.active,
     goodByeReceived |-> t.goodByeReceived, routerID |-> t.routerID, listed |-> t.listed]

\* The client thread after its connection was closed, by either side.
Ended(t, pc) ==
    [pc |-> pc, active |-> FALSE, initialized |-> t.initialized,
     goodByeReceived |-> t.goodByeReceived, routerID |-> t.routerID, listed |-> FALSE]

\* The client thread after a handshake was accepted.  The answer cannot be
\* sent, and the client is not initialized, if its connection is gone.
Greeted(t, c) ==
    [pc |-> t.pc, active |-> t.active, initialized |-> t.initialized \/ t.active,
     goodByeReceived |-> t.goodByeReceived, routerID |-> c, listed |-> t.listed]

-----------------------------------------------------------------------------
(* The proxies and the network.                                            *)

Open(s) == peer[s] = "open" /\ thread[s].pc = "recv"

\* runServerLoop accepts a connection and starts its thread; the proxy sends
\* HELLO at once.  A proxy connects again only when it has left its previous
\* connection, which the server may not have noticed, or was thrown out of it.
Connect(s) ==
    /\ peer[s] = "none"
    /\ \A r \in Sockets : ProxyOf[r] = ProxyOf[s] => ~Open(r)
    /\ peer' = [peer EXCEPT ![s] = "open"]
    /\ stream' = [stream EXCEPT ![s] = <<Plain("hello")>>]
    /\ thread' = [thread EXCEPT ![s] =
          [pc |-> "recv", active |-> TRUE, initialized |-> FALSE,
           goodByeReceived |-> FALSE, routerID |-> 0, listed |-> TRUE]]
    /\ UNCHANGED <<mapVars, recvQ, cmdQ, item, updateCount, requests>>

\* Requests follow only once the handshake was answered.
Request(s, k, u) ==
    /\ Open(s) /\ thread[s].initialized
    /\ requests < MaxRequests
    /\ requests' = requests + 1
    /\ stream' = [stream EXCEPT ![s] = Append(@, [kind |-> k, update |-> u])]
    /\ UNCHANGED <<mapVars, peer, thread, recvQ, cmdQ, item, updateCount>>

Leave(s, how) ==
    /\ Open(s)
    /\ how # "abort" => thread[s].initialized
    /\ how = "abort" => ~thread[s].initialized
    /\ peer' = [peer EXCEPT ![s] = "left"]
    /\ stream' = [stream EXCEPT ![s] =
          @ \o (IF how \in {"goodbye", "unknown"} THEN <<Plain(how)>> ELSE <<>>)
            \o <<Plain("eof")>>]
    /\ UNCHANGED <<mapVars, thread, recvQ, cmdQ, item, updateCount, requests>>

-----------------------------------------------------------------------------
(* The client threads.                                                     *)

\* receivePackets hands each PDU to handlePacket, which queues it, and returns
\* at the end of the stream.
Receive(s) ==
    /\ thread[s].pc = "recv" /\ stream[s] # <<>>
    /\ stream' = [stream EXCEPT ![s] = Tail(@)]
    /\ IF Head(stream[s]).kind = "eof"
       THEN /\ thread' = [thread EXCEPT ![s].pc = "cleanup"]
            /\ UNCHANGED recvQ
       ELSE /\ recvQ' = Append(recvQ, [conn |-> s, pdu |-> Head(stream[s])])
            /\ UNCHANGED thread
    /\ UNCHANGED <<mapVars, peer, cmdQ, item, updateCount, requests>>

\* Mutant: the end of a connection without GOODBYE is taken for an error.
Cleanup_Mute(s) ==
    /\ thread[s].pc = "cleanup"
    /\ IF thread[s].goodByeReceived THEN EndSession(thread[s].routerID, FALSE)
       ELSE UNCHANGED <<mapVars, item, updateCount>>
    /\ thread' = [thread EXCEPT ![s] = Ended(@, "gone")]
    /\ UNCHANGED <<peer, stream, recvQ, cmdQ, requests>>

\* clientThreadCleanup calls handleStatusChange, which ends the session.  It is
\* a crash unless a GOODBYE was seen by the receiver thread already.
Cleanup(s) ==
    /\ thread[s].pc = "cleanup"
    /\ EndSession(thread[s].routerID, ~thread[s].goodByeReceived)
    /\ thread' = [thread EXCEPT ![s] = Ended(@, "gone")]
    /\ UNCHANGED <<peer, stream, recvQ, cmdQ, requests>>

-----------------------------------------------------------------------------
(* The receiver thread: _handlePacket.                                     *)

Received(k) == recvQ # <<>> /\ Head(recvQ).pdu.kind = k

\* Take the first PDU off the receiver queue; pass it on, or not.
Dequeue(pass) ==
    /\ recvQ' = Tail(recvQ)
    /\ cmdQ' = IF pass THEN Append(cmdQ, Head(recvQ)) ELSE cmdQ
    /\ UNCHANGED <<mapVars, peer, stream, requests>>

\* Mutant: the test of the initialized flag is inverted.
HandleHello_Inverted ==
    /\ Received("hello")
    /\ LET t == thread[Head(recvQ).conn] IN Dequeue(t.active /\ t.initialized)
    /\ UNCHANGED <<thread, item, updateCount>>

HandleHello ==
    /\ Received("hello")
    /\ LET t == thread[Head(recvQ).conn] IN Dequeue(t.active /\ ~t.initialized)
    /\ UNCHANGED <<thread, item, updateCount>>

HandleGoodbye ==
    /\ Received("goodbye")
    /\ Dequeue(TRUE)
    /\ thread' = [thread EXCEPT ![Head(recvQ).conn].goodByeReceived =
                      @ \/ (thread[Head(recvQ).conn].active
                            /\ thread[Head(recvQ).conn].initialized)]
    /\ UNCHANGED <<item, updateCount>>

\* The command a request leads to changes results only, so it is not queued.
HandleVerify ==
    /\ Received("verify")
    /\ Dequeue(FALSE)
    /\ IF thread[Head(recvQ).conn].initialized
       THEN RequestUpdate(Head(recvQ).pdu.update, thread[Head(recvQ).conn].routerID)
       ELSE UNCHANGED <<item, updateCount>>
    /\ UNCHANGED thread

HandleDelete ==
    /\ Received("delete")
    /\ Dequeue(thread[Head(recvQ).conn].initialized)
    /\ UNCHANGED <<thread, item, updateCount>>

HandleUnknown ==
    /\ Received("unknown")
    /\ Dequeue(TRUE)
    /\ UNCHANGED <<thread, item, updateCount>>

-----------------------------------------------------------------------------
(* The command thread: handleCommands.                                     *)

Fetched(k) == cmdQ # <<>> /\ Head(cmdQ).pdu.kind = k

\* closeClientConnection with _killClientThread, and the removal from the
\* client list its callers add.  The cancelled client thread dies in its read,
\* or wherever it is in its clean-up, or it gets through.
Close(s) ==
    \E pc \in IF ~thread[s].active THEN {thread[s].pc}
              ELSE {"gone"} \cup ({thread[s].pc} \cap {"cleanup"}) :
        thread' = [thread EXCEPT ![s] = Ended(@, pc)]

\* An accepted handshake.  Its mapping stays even if the answer cannot be sent.
AcceptHello ==
    /\ Fetched("hello")
    /\ LET s == Head(cmdQ).conn IN
        /\ Accepts(ProxyOf[s], s)
        /\ Register(ProxyOf[s], s)
        /\ thread' = [thread EXCEPT ![s] = Greeted(@, Candidate(ProxyOf[s]))]
    /\ cmdQ' = Tail(cmdQ)
    /\ UNCHANGED <<peer, stream, recvQ, item, updateCount, requests>>

RefuseHello ==
    /\ Fetched("hello")
    /\ LET s == Head(cmdQ).conn IN ~Accepts(ProxyOf[s], s) /\ Close(s)
    /\ cmdQ' = Tail(cmdQ)
    /\ UNCHANGED <<mapVars, peer, stream, recvQ, item, updateCount, requests>>

\* A GOODBYE, and likewise a PDU of a type no case handles, closes the
\* connection and gives the mapping up.
ProcessGoodbye ==
    /\ Fetched("goodbye") \/ Fetched("unknown")
    /\ LET s == Head(cmdQ).conn IN Close(s) /\ EndSession(thread[s].routerID, FALSE)
    /\ cmdQ' = Tail(cmdQ)
    /\ UNCHANGED <<peer, stream, recvQ, requests>>

ProcessDelete ==
    /\ Fetched("delete")
    /\ DeleteUpdate(Head(cmdQ).pdu.update, thread[Head(cmdQ).conn].routerID)
    /\ cmdQ' = Tail(cmdQ)
    /\ UNCHANGED <<mapVars, peer, stream, thread, recvQ, requests>>

-----------------------------------------------------------------------------
SessionsInit ==
    /\ MapInit
    /\ peer = [s \in Sockets |-> "none"]
    /\ stream = [s \in Sockets |-> <<>>]
    /\ thread = [s \in Sockets |->
          [pc |-> "none", active |-> FALSE, initialized |-> FALSE,
           goodByeReceived |-> FALSE, routerID |-> 0, listed |-> FALSE]]
    /\ recvQ = <<>> /\ cmdQ = <<>>
    /\ item = [u \in Updates |->
          [stored |-> FALSE, clients |-> {}, size |-> MinClients, gc |-> FALSE]]
    /\ updateCount = [c \in Slots |-> 0]
    /\ requests = 0

ClientThread(s) == Receive(s) \/ Cleanup(s)

ReceiverThread ==
    HandleHello \/ HandleGoodbye \/ HandleVerify \/ HandleDelete \/ HandleUnknown

CommandThread == AcceptHello \/ RefuseHello \/ ProcessGoodbye \/ ProcessDelete

Proxy(s) ==
    \/ Connect(s)
    \/ \E k \in Requests, u \in Updates : Request(s, k, u)
    \/ \E how \in Departures : Leave(s, how)

SessionsNext ==
    \/ \E s \in Sockets : Proxy(s) \/ ClientThread(s)
    \/ ReceiverThread
    \/ CommandThread

SessionsSpec == SessionsInit /\ [][SessionsNext]_vars

\* The threads of the server are scheduled; the proxies may do nothing.
Fairness ==
    /\ \A s \in Sockets : WF_vars(ClientThread(s))
    /\ WF_vars(ReceiverThread)
    /\ WF_vars(CommandThread)

FairSessions == SessionsSpec /\ Fairness

-----------------------------------------------------------------------------
(* Properties.                                                             *)

\* Every variable has its type.
SessionsTypeOK ==
    /\ MapTypeOK
    /\ peer \in [Sockets -> {"none", "open", "left"}]
    /\ stream \in [Sockets -> Seq(PDU)]
    /\ thread \in [Sockets -> Thread]
    /\ recvQ \in Seq(Work) /\ cmdQ \in Seq(Work)
    /\ item \in [Updates -> Item]
    /\ updateCount \in [Slots -> 0 .. CountSize - 1]
    /\ requests \in 0 .. MaxRequests

\* updateCount is exactly the number of updates the client is registered with.
\* unregisterClientID relies on it: it neither starts at zero nor looks further
\* once it has counted down, so a count that is too small leaves references to
\* a client ID behind that the next proxy inherits.
CountIsExact ==
    \A c \in Slots : updateCount[c] = Cardinality(ListensTo(c))

\* The garbage collector is told about an update exactly when nobody listens.
CollectableIffUnused ==
    \A u \in Updates : item[u].stored => (item[u].gc <=> item[u].clients = {})

\* An active mapping belongs to the connection it names: that connection's
\* thread knows it under the same client ID.  Notifications find their
\* connection through the mapping, requests their client through the thread.
MappingAndThreadAgree ==
    \A c \in ClientIDs : proxyMap[c].isActive =>
        /\ thread[proxyMap[c].socket].routerID = c
        /\ ProxyOf[proxyMap[c].socket] = proxyMap[c].proxyID

\* Nothing that concerns the connections is left to be done.
Quiet ==
    /\ recvQ = <<>> /\ cmdQ = <<>>
    /\ \A s \in Sockets : thread[s].pc # "cleanup"
                          /\ (thread[s].pc = "recv" => stream[s] = <<>>)

\* The server stays in touch with every proxy it greeted: when everything has
\* been handled, a connection that is up and initialized has the active mapping
\* notifications to its proxy take.
SessionKept ==
    Quiet => \A s \in Sockets : Open(s) /\ thread[s].initialized =>
        \E c \in ClientIDs : proxyMap[c].isActive /\ proxyMap[c].socket = s

\* The map forgets the dead: when everything has been handled, an active
\* mapping has a live connection.  The proxy of any other is refused when it
\* connects again, for good (addMapping's EM4).
NoDeadMapping ==
    Quiet => \A c \in ClientIDs :
        proxyMap[c].isActive => thread[proxyMap[c].socket].active

\* A proxy that waits for the answer to its HELLO gets one, or the connection
\* is closed: no HELLO is lost between the two queues.
HelloAnswered ==
    \A s \in Sockets : peer[s] = "open" ~> thread[s].initialized \/ thread[s].pc = "gone"

\* A connection its proxy has left is dropped everywhere, whichever thread
\* learns of it first and whatever else is queued.
LeftIsForgotten ==
    \A s \in Sockets : peer[s] = "left" ~>
        /\ thread[s].pc = "gone" /\ ~thread[s].listed
        /\ \A c \in ClientIDs : proxyMap[c].socket # s

\* "Removed the association of the client to all updates within the cache":
\* whoever ends a session, whatever requests of it were handled before.
EndUnregisters ==
    [][\A c \in ClientIDs : proxyMap[c].isActive /\ ~proxyMap'[c].isActive
          => \A u \in Updates : c \notin item'[u].clients]_vars
=============================================================================
