----------------------------- MODULE ProxyClient -----------------------------
(***************************************************************************)
(* The connection of a router to the SRx server: the client API and the    *)
(* threads with which the router drives it.                                *)
(*   client/srx_api.c, client/client_connection_handler.c                  *)
(*   util/client_socket.c, util/socket.c                                   *)
(*   quagga-srx/bgpd/bgp_route.c   the read thread and the retry timer     *)
(*                                                                         *)
(* The router is one process whose "threads" are functions run one after   *)
(* the other by a loop around select; only the handshake waits, and with   *)
(* it the router.  Descriptors are numbers of a table and are reused, the  *)
(* lowest first; other parts of the router use them too.                   *)
(*                                                                         *)
(* Validation results, synchronisations and signatures are one kind of PDU *)
(* ("notice"), requests are counted only while they are queued, and a PDU  *)
(* arrives whole.  The server is external (ClientSessions.tla is about it).*)
(***************************************************************************)
EXTENDS Integers, Sequences, FiniteSets, FiniteSetsExt

CONSTANTS
    Descriptors,    \* the numbers of the descriptor table, from 1
    Conns,          \* TCP connections, used again when both ends are through
    Faults,         \* what may go wrong, a subset of the names below
    MaxFaults,      \* bound: how often it does; connecting by hand counts too
    OthersAllowed,  \* whether other parts of the router open descriptors
    HandshakeTimeout, \* FALSE for the configured value 0
    MAX_SEND_QUEUE  \* 100000 in the code

(***************************************************************************)
(* "stop": the server ends and its connections with it; "goodbye": it says *)
(* so before; "cut": a connection breaks and the server does not know;     *)
(* "error": the server reports an error; "send": a request is sent on a    *)
(* connection whose end the router has not read yet.                       *)
(***************************************************************************)
ASSUME ClientAssumption ==
    /\ Descriptors \subseteq Nat \ {0} /\ Conns \subseteq Nat \ {0}
    /\ Faults \subseteq {"stop", "goodbye", "cut", "error", "send"}
    /\ MaxFaults \in Nat /\ MAX_SEND_QUEUE \in Nat
    /\ OthersAllowed \in BOOLEAN /\ HandshakeTimeout \in BOOLEAN

VARIABLES
    fds,            \* the descriptor table
    lib,            \* ClientConnectionHandler with its ClientSocket
    thr,            \* the router's SRxThread, read threads and timers
    mode,           \* idle, waiting in a handshake or a read, or not running any more
    net,            \* the connections
    mishaps,        \* history: see Mishaps
    listening,      \* the server runs
    faults          \* how often something went wrong

vars == <<fds, lib, thr, mode, net, mishaps, listening, faults>>

\* g_current_read_thread points to no thread, to one that waits for a descriptor,
\* or to one that is running, ran or was cancelled.
NULL  == 0
Stale == -1

\* What a number of the table stands for besides a connection.
Free  == 0
Other == -1

Numbers == Descriptors \cup {-1}
Library == [initialized : BOOLEAN, stop : BOOLEAN, established : BOOLEAN,
            external : BOOLEAN, clientFD : Numbers, oldFD : Numbers,
            sendError : BOOLEAN, queue : 0 .. MAX_SEND_QUEUE + 1]
Threads == [rq : Numbers \cup {0}, readers : SUBSET Descriptors, timers : Nat,
            current : Descriptors \cup {NULL, Stale}, tries : 0 .. 1, on : BOOLEAN]
Mode    == [at : {"idle", "connect", "reconnect", "read", "gone", "hung"}, prev : Numbers \cup {0}]
Conn    == [up : Seq({"hello", "goodbye"}), state : {"open", "left", "fin", "reset"},
            down : Seq({"response", "error", "goodbye", "notice"}),
            session : {"none", "greeted", "over"}]

\* Steps after which the code does not keep what it promises otherwise: the
\* router gave up, a handshake ran out of time or was skipped, the queue of
\* requests was full, a request could not be sent, the server reported an error.
Troubles == {"gaveUp", "timedOut", "skipped", "queueFull", "requestFailed", "error"}

\* What must not be done to descriptors of other parts of the router.
Harms == {"closed", "written", "read"}

-----------------------------------------------------------------------------
(* Functions of the code call one another with effects on most of the state, *)
(* so they are operators from one state of the router's world to the next.   *)

World == [fds |-> fds, lib |-> lib, thr |-> thr, net |-> net, mishaps |-> mishaps]

Become(w) ==
    /\ fds' = w.fds /\ lib' = w.lib /\ thr' = w.thr /\ net' = w.net
    /\ mishaps' = w.mishaps

Note(w, what) == [w EXCEPT !.mishaps = @ \cup {what}]

Usable(w, n) == n \in Descriptors /\ w.fds[n] # Free
Connection(w, n) == n \in Descriptors /\ w.fds[n] \in Conns

\* close(n)
Close(w, n) ==
    IF ~Usable(w, n) THEN w
    ELSE IF w.fds[n] = Other
    THEN [w EXCEPT !.fds[n] = Free, !.mishaps = @ \cup {"closed"}]
    ELSE [w EXCEPT !.fds[n] = Free, !.net[w.fds[n]].down = <<>>,
                   !.net[w.fds[n]].state = IF @ = "open" THEN "left" ELSE @]

\* send(n): the first write to a connection the server closed succeeds.
Written(w, n, pdu) ==
    IF w.fds[n] = Other THEN [w EXCEPT !.mishaps = @ \cup {"written"}]
    ELSE LET c == w.fds[n] IN
         IF w.net[c].state = "fin" THEN [w EXCEPT !.net[c].state = "reset"]
         ELSE IF pdu = "request" THEN w
         ELSE [w EXCEPT !.net[c].up = Append(@, pdu)]

Accepts(w, n) ==
    Usable(w, n) /\ (w.fds[n] # Other => w.net[w.fds[n]].state # "reset")

\* sendNum, through sendData: after an error the descriptor is forgotten.
Send(w, pdu) ==
    IF Accepts(w, w.lib.clientFD)
    THEN [Written(w, w.lib.clientFD, pdu) EXCEPT !.lib.sendError = FALSE]
    ELSE [w EXCEPT !.lib.clientFD = -1, !.lib.sendError = TRUE]

\* sendGoodbye: the session is over only if the message could be sent.
sendGoodbye(w) ==
    IF w.lib.clientFD = -1 THEN w
    ELSE LET s == Send(w, "goodbye") IN
         [s EXCEPT !.lib.established = @ /\ s.lib.sendError]

\* closeClientSocket: a socket of the router is only forgotten.
closeClientSocket(w) ==
    LET n == IF w.lib.clientFD > -1 THEN w.lib.clientFD ELSE w.lib.oldFD IN
    IF n = -1 THEN w
    ELSE IF w.lib.external THEN [w EXCEPT !.lib.clientFD = -1]
    ELSE [Close(w, n) EXCEPT !.lib.clientFD = -1, !.lib.oldFD = -1]

\* releaseClientConnectionHandler
Release(w) ==
    LET s == [w EXCEPT !.lib.stop = TRUE] IN
    [closeClientSocket(IF s.lib.established THEN sendGoodbye(s) ELSE s)
        EXCEPT !.lib.queue = 0]

-----------------------------------------------------------------------------
(* The router's threads.                                                     *)

\* thread_cancel(g_current_read_thread).  The pointer may be to a thread that
\* ran already, whose memory another thread, here the timer, may use by now.
CancelCurrent(w) ==
    IF w.thr.current \in Descriptors
    THEN {[w EXCEPT !.thr.readers = @ \ {w.thr.current}, !.thr.current = Stale]}
    ELSE {w, [w EXCEPT !.thr.timers = IF @ > 0 THEN @ - 1 ELSE 0]}

\* threadControlCall: "lost" and "disconnect" lead to a new attempt, any other
\* error ends the reading.
threadControlCall(w, code) ==
    LET stopped ==
          IF w.thr.current = NULL THEN {w}
          ELSE {[Close(s, s.thr.rq) EXCEPT !.thr.rq = IF @ > 0 THEN -1 ELSE @] :
                   s \in CancelCurrent(w)}
    IN  {[s EXCEPT !.thr.timers = IF code \in {"lost", "disconnect"} THEN @ + 1 ELSE @] :
            s \in stopped}

\* disconnectFromSRx
Disconnect(w) ==
    IF w.lib.initialized /\ w.lib.established
    THEN UNION {threadControlCall(s, "disconnect") :
                   s \in {Release(g) : g \in {[sendGoodbye(w) EXCEPT !.lib.established = FALSE]}}}
    ELSE {w}

\* createClientConnectionHandler, for the new proxy of srx_set_default
NewProxy ==
    [initialized |-> FALSE, stop |-> FALSE, established |-> FALSE, external |-> FALSE,
     clientFD |-> -1, oldFD |-> -1, sendError |-> FALSE, queue |-> 0]

\* Mutant: the timer is not started again.
AttemptFailed_NoTimer(w, prev) == {[w EXCEPT !.thr.tries = 1]}

\* The attempts of checkClientConnection that failed, NUM_MAX_RECONNECT of them
\* in all, are the last: the router gives up and starts over without a server.
AttemptFailed(w, prev) ==
    LET again == [w EXCEPT !.thr.timers = @ + 1]
        closed == {Close(Note(again, "gaveUp"), prev)}
        unset == UNION {IF c.thr.on THEN Disconnect([c EXCEPT !.thr.on = FALSE]) ELSE {c} :
                            c \in closed}
        released == UNION {Disconnect(u) : u \in unset}
    IN
    IF w.thr.tries = 0 THEN {[again EXCEPT !.thr.tries = 1]}
    ELSE {[Close(r, r.thr.rq) EXCEPT !.lib = [NewProxy EXCEPT !.sendError = r.lib.sendError],
                                     !.thr.tries = 0,
                                     !.thr.timers = IF @ > 0 THEN @ - 1 ELSE 0] :
             r \in released}

\* Mutant: the timer is started again whatever came of the attempt.
AttemptWorked_Again(w, prev) ==
    LET n == w.lib.clientFD IN
    [Close(w, prev) EXCEPT !.thr.rq = n, !.thr.readers = @ \cup {n},
                           !.thr.current = IF n \in w.thr.readers THEN NULL ELSE n,
                           !.thr.timers = @ + 1]

\* The end of checkClientConnection after a successful attempt.  A descriptor has
\* one read thread: for a second one the loop returns NULL.
AttemptWorked(w, prev) ==
    LET n == w.lib.clientFD IN
    [Close(w, prev) EXCEPT !.thr.rq = n, !.thr.readers = @ \cup {n},
                           !.thr.current = IF n \in w.thr.readers THEN NULL ELSE n]

Fault(name) == name \in Faults /\ faults < MaxFaults /\ faults' = faults + 1

Idle(w)  == {<<w, [at |-> "idle", prev |-> 0]>>}
IdleAll(W) == {<<w, [at |-> "idle", prev |-> 0]>> : w \in W}

\* What follows the handshake of an attempt: connectToSRx with
\* srx_connect_proxy, or reconnectSRX with checkClientConnection.
Connected(w, m) ==
    IF m.at = "reconnect" THEN Idle(AttemptWorked(w, m.prev))
    ELSE Idle([w EXCEPT !.lib.external = TRUE, !.thr.readers = @ \cup {w.lib.clientFD}])

NotConnected(w, m) ==
    IF m.at = "reconnect" THEN IdleAll(AttemptFailed(w, m.prev))
    ELSE Idle(IF w.lib.stop THEN w ELSE Release(w))

\* Mutant: the session counts as established with the HELLO.
Handshake_NoWait(w, m) ==
    UNION {IF s.lib.sendError THEN NotConnected(s, m)
           ELSE Connected([s EXCEPT !.lib.established = TRUE], m) : s \in {Send(w, "hello")}}

\* handshakeWithServer up to the wait, which an established session skips.
Handshake(w, m) ==
    UNION {IF s.lib.sendError THEN NotConnected(s, m)
           ELSE IF s.lib.established THEN Connected(Note(s, "skipped"), m)
           ELSE {<<s, m>>} : s \in {Send(w, "hello")}}

FreeNumbers(w) == {n \in Descriptors : w.fds[n] = Free}

\* A connection that neither end uses any more.
Unused(w) ==
    {c \in Conns : /\ \A n \in Descriptors : w.fds[n] # c
                   /\ w.net[c].up = <<>> /\ w.net[c].session # "greeted"}

NewConn == [up |-> <<>>, down |-> <<>>, state |-> "open", session |-> "none"]

\* socket and connect: reconnectToServer, createClientSocket
Open(w) ==
    LET n == Min(FreeNumbers(w))
        c == Min(Unused(w))
    IN
    [w EXCEPT !.fds[n] = c, !.net[c] = NewConn, !.lib.clientFD = n, !.lib.oldFD = n]

\* The outcomes of an attempt from socket to the first wait.
Attempt(w, m) ==
    IF ~listening \/ FreeNumbers(w) = {} THEN NotConnected(w, m)
    ELSE IF Unused(w) = {} THEN {} ELSE UNION {Handshake(o, m) : o \in {Open(w)}}

Continue(outcomes) ==
    /\ \E o \in outcomes : Become(o[1]) /\ mode' = o[2]
    /\ UNCHANGED listening

\* The operator connects: bgp_srx_set, connectToSRx.  Done while the router
\* retries by itself it uses the socket of the last attempt, if there is one.
Connect ==
    LET m == [at |-> "connect", prev |-> 0]
        w == [World EXCEPT !.thr.on = TRUE]
    IN
    /\ mode.at = "idle" /\ ~(lib.initialized /\ lib.established) /\ ~lib.stop
    /\ IF lib.initialized THEN Continue(Handshake(w, m))
       ELSE IF listening /\ FreeNumbers(w) # {}
       THEN Continue(Attempt([w EXCEPT !.lib.initialized = TRUE], m))
       ELSE Continue(Idle(w))
    /\ faults < MaxFaults /\ faults' = faults + 1

\* The timer: checkClientConnection, reconnectSRX, reconnectToServer.
checkClientConnection ==
    LET prev == IF thr.rq > 0 THEN thr.rq ELSE IF lib.external THEN lib.oldFD ELSE -1
        w == [World EXCEPT !.thr.timers = @ - 1]
        m == [at |-> "reconnect", prev |-> prev]
        used == [w EXCEPT !.lib.clientFD = IF @ = -1 THEN w.lib.oldFD ELSE @]
        left == [sendGoodbye(used) EXCEPT !.lib.clientFD = -1, !.lib.oldFD = -1]
    IN
    /\ mode.at = "idle" /\ thr.timers > 0
    /\ IF lib.initialized /\ ~lib.stop THEN Continue(UNION {Attempt(w1, m) : w1 \in {left}})
       ELSE Continue(NotConnected(w, m))
    /\ UNCHANGED faults

\* Mutant: the descriptor is closed as well.
Lost_Closes(w) == [Close(w, w.lib.clientFD) EXCEPT !.lib.clientFD = -1]

\* recvNum at the end of a connection: the library forgets the descriptor and
\* leaves it to the router to close it.
Lost(w) == [w EXCEPT !.lib.clientFD = -1]

\* dispatchPackets.  A GOODBYE is the end for this proxy.
Dispatch(w, pdu) ==
    IF pdu = "response" THEN {[w EXCEPT !.lib.established = TRUE]}
    ELSE IF pdu = "goodbye" THEN {Release([w EXCEPT !.lib.established = FALSE])}
    ELSE IF pdu = "error" THEN threadControlCall(Note(w,"error"), "error")
    ELSE {w}

\* A read returns: there is a PDU, or the connection has ended.
Readable(w, n) ==
    /\ Usable(w, n)
    /\ w.fds[n] \in Conns => w.net[w.fds[n]].down # <<>> \/ w.net[w.fds[n]].state \in {"fin", "reset"}

HasPDU(w, n) == Connection(w, n) /\ w.net[w.fds[n]].down # <<>>

\* The first PDU is taken from the connection and dispatched.
TakePDU(w, n) ==
    LET c == w.fds[n] IN Dispatch([w EXCEPT !.net[c].down = Tail(@)], Head(w.net[c].down))

\* One round of the loop in handshakeWithServer.  Without a connection it goes
\* on, without waiting, until the alarm.
HandshakeRead ==
    /\ mode.at \in {"connect", "reconnect"}
    /\ Readable(World, lib.clientFD)
    /\ IF HasPDU(World, lib.clientFD)
       THEN \E w \in TakePDU(World, lib.clientFD) :
               Continue(IF w.lib.established THEN Connected(w, mode)
                        ELSE IF Head(net[fds[lib.clientFD]].down) = "error"
                        THEN NotConnected(w, mode)
                        ELSE {<<w, mode>>})
       ELSE Continue({<<Lost(World), mode>>})
    /\ UNCHANGED faults

\* _catch_handshakeTimeout: the old descriptor keeps the number.
HandshakeAlarm ==
    /\ mode.at \in {"connect", "reconnect"} /\ HandshakeTimeout
    /\ Continue(NotConnected([Close(Note(World,"timedOut"), lib.clientFD) EXCEPT !.lib.clientFD = -1], mode))
    /\ UNCHANGED faults

\* respawnReceivePacket, called for the descriptor of the thread, reads that of
\* the library, and waits there if nothing has come.  If the connection has ended
\* the timer is started, otherwise the thread is added anew.
respawnReceivePacket(n) ==
    LET fd == lib.clientFD
        ran == [World EXCEPT !.thr.rq = n, !.thr.readers = @ \ {n},
                             !.thr.current = IF @ = n THEN Stale ELSE @]
        again(w) == [w EXCEPT !.thr.readers = @ \cup {n}, !.thr.current = n]
        lost == Lost(IF Usable(World, fd) /\ fds[fd] = Other THEN Note(ran, "read") ELSE ran)
        timer(w) == [w EXCEPT !.thr.timers = @ + 1,
                              !.thr.current = IF @ = NULL THEN @ ELSE Stale]
    IN
    /\ \/ mode.at = "idle" /\ n \in thr.readers /\ Readable(World, n)
       \/ mode = [at |-> "read", prev |-> n]
    /\ \/ /\ HasPDU(World, fd)
          /\ Continue(IdleAll({again(w) : w \in TakePDU(ran, fd)}))
       \/ /\ ~HasPDU(World, fd) /\ (Usable(World, fd) => Readable(World, fd))
          /\ Continue(IdleAll({timer(w) : w \in IF thr.current = NULL THEN {lost}
                                                ELSE CancelCurrent(lost)}))
       \/ /\ Usable(World, fd) /\ ~Readable(World, fd) /\ mode.at = "idle"
          /\ Continue({<<World, [at |-> "read", prev |-> n]>>})
    /\ UNCHANGED faults

\* verifyUpdate.  Without a connection the request is queued, and nothing ever
\* sends it; with a full queue the loop ends only if the last send failed.  A
\* queue that grew past its limit, by requests that failed, is not full again.
verifyUpdate ==
    LET n == lib.clientFD
        open == Connection(World, n) /\ net[fds[n]].state = "open"
        full == n = -1 /\ lib.queue = MAX_SEND_QUEUE
        sent == Send(World, "request")
        queued(w) == [w EXCEPT !.lib.queue = Min({@ + 1, MAX_SEND_QUEUE + 1})]
        failed(w) == {queued(x) :
            x \in threadControlCall([Note(w, "requestFailed") EXCEPT !.lib.established = FALSE], "lost")}
    IN
    /\ mode.at = "idle" /\ lib.initialized /\ lib.established
    /\ IF n = -1 \/ open THEN UNCHANGED faults ELSE Fault("send")
    /\ \/ n = -1 /\ ~full /\ Continue(Idle(queued(World)))
       \/ full /\ lib.sendError /\ Continue(IdleAll(failed(World)))
       \/ full /\ ~lib.sendError /\ Continue({<<Note(World, "queueFull"), [at |-> "hung", prev |-> 0]>>})
       \/ n # -1 /\ ~sent.lib.sendError /\ Continue(Idle(sent))
       \/ n # -1 /\ sent.lib.sendError /\ Continue(IdleAll(failed(sent)))

\* select fails on a descriptor that is not open, thread_fetch returns NULL,
\* and with it the loop in main ends.
SelectFails ==
    /\ mode.at = "idle"
    /\ \E n \in thr.readers : fds[n] = Free
    /\ mode' = [at |-> "gone", prev |-> 0]
    /\ UNCHANGED <<fds, lib, thr, net, mishaps, listening, faults>>

\* Other parts of the router open and close a descriptor.
OtherOpens ==
    /\ mode.at = "idle" /\ OthersAllowed
    /\ FreeNumbers(World) # {} /\ \A n \in Descriptors : fds[n] # Other
    /\ fds' = [fds EXCEPT ![Min(FreeNumbers(World))] = Other]
    /\ UNCHANGED <<lib, thr, mode, net, mishaps, listening, faults>>

OtherCloses(n) ==
    /\ mode.at = "idle" /\ fds[n] = Other
    /\ fds' = [fds EXCEPT ![n] = Free]
    /\ UNCHANGED <<lib, thr, mode, net, mishaps, listening, faults>>

-----------------------------------------------------------------------------
(* The server and the network.                                               *)


Server == mode.at \notin {"gone", "hung"} /\ UNCHANGED <<fds, lib, thr, mode, mishaps>>

Tell(k, pdus) == IF k.state = "open" THEN k.down \o pdus ELSE k.down

\* A HELLO is answered, or refused while another session of the proxy lasts.
\* After a refusal and after a GOODBYE the server closes the connection.
Serve(c) ==
    LET k == net[c]
        ended == IF k.state = "open" THEN "fin" ELSE k.state
        refused == \E d \in Conns \ {c} : net[d].session = "greeted"
        rest == Tail(k.up)
    IN
    /\ listening /\ k.up # <<>> /\ k.state \in {"open", "left"}
    /\ net' = [net EXCEPT ![c] =
          IF Head(k.up) = "goodbye" \/ k.session # "none"
          THEN [k EXCEPT !.up = rest,
                         !.session = IF Head(k.up) = "goodbye" THEN "over" ELSE @,
                         !.state = IF Head(k.up) = "goodbye" THEN ended ELSE @]
          ELSE IF refused
          THEN [k EXCEPT !.up = rest, !.session = "over", !.state = ended,
                         !.down = Tell(k, <<"error", "goodbye">>)]
          ELSE [k EXCEPT !.up = rest, !.session = "greeted", !.down = Tell(k, <<"response">>)]]
    /\ Server /\ UNCHANGED <<listening, faults>>

\* A result, a request for synchronisation, or an error.
Notify(c, pdu) ==
    /\ net[c].session = "greeted" /\ net[c].state = "open" /\ net[c].down = <<>>
    /\ net' = [net EXCEPT ![c].down = Append(@, pdu)]
    /\ IF pdu = "error" THEN Fault("error") ELSE UNCHANGED faults
    /\ Server /\ UNCHANGED listening

\* The server sees that the router left, or that the connection broke.
SeesEnd(c) ==
    /\ net[c].state \in {"left", "reset"}
    /\ net[c].session = "greeted" \/ net[c].up # <<>>
    /\ net' = [net EXCEPT ![c].up = <<>>, ![c].session = "over"]
    /\ Server /\ UNCHANGED <<listening, faults>>

Cut(c) ==
    /\ net[c].state = "open" /\ Fault("cut")
    /\ net' = [net EXCEPT ![c].state = "reset", ![c].up = <<>>]
    /\ Server /\ UNCHANGED listening

\* How a connection ends with the server: the router finds the end of the
\* stream or, if the server had not read everything, a reset.
ServerStops ==
    /\ listening /\ (Fault("stop") \/ Fault("goodbye"))
    /\ \E how \in {"fin", "reset"}, said \in BOOLEAN :
        /\ said => "goodbye" \in Faults
        /\ net' = [c \in Conns |->
              [up |-> <<>>,
               down |-> IF said /\ net[c].session = "greeted" THEN Tell(net[c], <<"goodbye">>)
                        ELSE net[c].down,
               state |-> IF net[c].state = "open" THEN how ELSE net[c].state,
               session |-> IF net[c].session = "greeted" THEN "over" ELSE net[c].session]]
    /\ listening' = FALSE
    /\ Server

ServerStarts ==
    /\ ~listening /\ listening' = TRUE
    /\ Server /\ UNCHANGED <<net, faults>>

-----------------------------------------------------------------------------
ClientInit ==
    /\ fds = [n \in Descriptors |-> Free]
    /\ lib = NewProxy
    /\ thr = [rq |-> 0, readers |-> {}, timers |-> 0, current |-> NULL, tries |-> 0,
              on |-> FALSE]
    /\ mode = [at |-> "idle", prev |-> 0]
    /\ net = [c \in Conns |-> [NewConn EXCEPT !.state = "left"]]
    /\ mishaps = {} /\ listening = TRUE /\ faults = 0

RouterNext ==
    \/ checkClientConnection \/ HandshakeRead \/ HandshakeAlarm \/ SelectFails
    \/ \E n \in Descriptors : respawnReceivePacket(n)

ServerNext ==
    \/ ServerStops \/ ServerStarts
    \/ \E c \in Conns : Serve(c) \/ SeesEnd(c) \/ Cut(c) \/ Notify(c, "notice") \/ Notify(c, "error")

ClientNext ==
    \/ Connect \/ RouterNext \/ verifyUpdate \/ ServerNext
    \/ OtherOpens \/ \E n \in Descriptors : OtherCloses(n)

ClientSpec ==
    /\ ClientInit /\ [][ClientNext]_vars
    /\ WF_vars(checkClientConnection) /\ WF_vars(HandshakeRead \/ HandshakeAlarm)
    /\ WF_vars(\E n \in Descriptors : respawnReceivePacket(n))

-----------------------------------------------------------------------------
(* Properties.                                                               *)

\* Every variable has its type.
ClientTypeOK ==
    /\ fds \in [Descriptors -> Conns \cup {Free, Other}]
    /\ lib \in Library /\ thr \in Threads /\ mode \in Mode
    /\ net \in [Conns -> Conn]
    /\ mishaps \subseteq Troubles \cup Harms
    /\ listening \in BOOLEAN /\ faults \in 0 .. MaxFaults

Had(troubles) == mishaps \cap troubles # {}

\* A router that was connected and is to be has one thread that takes care of the
\* connection: it reads, or it waits for the next attempt.
OneCaretaker ==
    mode.at = "idle" /\ lib.external /\ thr.on =>
        Cardinality(thr.readers) + thr.timers = 1 \/ Had({"gaveUp", "requestFailed"})

\* Through reconnections, in which numbers of descriptors are kept, forgotten and
\* used again, the router closes, writes to and reads no descriptor of others.
OthersUntouched ==
    mishaps \cap Harms = {} \/ Had({"gaveUp", "timedOut", "error", "requestFailed"})

Up == mode.at = "idle" /\ lib.established /\ lib.clientFD # -1

\* While the router takes itself for connected its descriptor is a connection, and
\* one on which the server has greeted it, if the connection is still open.
GreetedIfUp ==
    Up => \/ /\ Connection(World, lib.clientFD)
             /\ LET k == net[fds[lib.clientFD]] IN k.state = "open" => k.session = "greeted"
          \/ Had({"gaveUp", "skipped", "error", "requestFailed"})

\* A router that lost its connection is connected again, or has given up.
ComesBack ==
    lib.external ~> Up \/ Had({"gaveUp", "queueFull", "error", "requestFailed"})
=============================================================================
