--------------------------- MODULE ProxyClientProofs ---------------------------
(***************************************************************************)
(* Proofs about ProxyClient.tla.  The router's connection has one thread   *)
(* that takes care of it, other parts of the router are left in peace, and *)
(* a router that takes itself for connected was greeted: for any numbers   *)
(* of descriptors, connections, faults and queued requests.                *)
(*                                                                         *)
(* The functions of the code are operators from world to world, so there   *)
(* is one lemma on the effect of each, field by field, and then one on     *)
(* each action.  How much the invariant says of a world depends on the     *)
(* troubles it has seen (Calm, Known, Careful, Polite).                    *)
(***************************************************************************)
EXTENDS ProxyClient, FiniteSetTheorems, SequenceTheorems, WellFoundedInduction, TLAPS

Worlds == [fds : [Descriptors -> Conns \cup {Free, Other}], lib : Library, thr : Threads,
           net : [Conns -> Conn], mishaps : SUBSET (Troubles \cup Harms)]

\* The table and the connections fit together: a connection has one descriptor,
\* one the router has a descriptor of it has not left, and one whose session is
\* over does not stay open.
Linked(f, k) ==
    /\ \A n, m \in Descriptors : f[n] \in Conns /\ f[m] = f[n] => m = n
    /\ \A n \in Descriptors : f[n] \in Conns => k[f[n]].state # "left"
    /\ \A c \in Conns : k[c].session = "over" => k[c].state # "open"

Sane(w) == w \in Worlds /\ Linked(w.fds, w.net)

\* What the numbers of descriptors and connections are not.
LEMMA Facts ==
    /\ Descriptors \subseteq Nat \ {0} /\ Conns \subseteq Nat \ {0}
    /\ \A c \in Conns : c # Free /\ c # Other
    /\ Free # Other
    /\ \A n \in Descriptors : n # -1 /\ n # 0 /\ n > -1 /\ n > 0 /\ n \in Int
    /\ -1 \notin Descriptors /\ 0 \notin Descriptors
    /\ NULL \notin Descriptors /\ Stale \notin Descriptors
BY ClientAssumption DEF Free, Other, NULL, Stale

LEMMA EmptyIsSeq == \A S : <<>> \in Seq(S)
OBVIOUS

\* The fields of a world have their types, and there are no others.
LEMMA WorldFields ==
    ASSUME NEW w \in Worlds
    PROVE  /\ w.fds \in [Descriptors -> Conns \cup {Free, Other}] /\ w.lib \in Library
           /\ w.thr \in Threads /\ w.net \in [Conns -> Conn]
           /\ w.mishaps \subseteq Troubles \cup Harms
           /\ w = [fds |-> w.fds, lib |-> w.lib, thr |-> w.thr, net |-> w.net,
                   mishaps |-> w.mishaps]
BY DEF Worlds

\* A record with the fields of a world.
Shaped(v) == v = [fds |-> v.fds, lib |-> v.lib, thr |-> v.thr, net |-> v.net,
                  mishaps |-> v.mishaps]

LEMMA ShapedIsWorld ==
    ASSUME NEW v, Shaped(v), v.fds \in [Descriptors -> Conns \cup {Free, Other}],
           v.lib \in Library, v.thr \in Threads, v.net \in [Conns -> Conn],
           v.mishaps \subseteq Troubles \cup Harms
    PROVE  v \in Worlds
BY DEF Shaped, Worlds

\* What becomes of a connection the router closes.
Left(K, c) == [K EXCEPT ![c].down = <<>>, ![c].state = IF @ = "open" THEN "left" ELSE @]

LEMMA ConnClosed ==
    ASSUME NEW K \in [Conns -> Conn], NEW c \in Conns, NEW L, L = Left(K, c)
    PROVE  /\ L \in [Conns -> Conn]
           /\ L[c].up = K[c].up /\ L[c].down = <<>> /\ L[c].session = K[c].session
           /\ L[c].state = IF K[c].state = "open" THEN "left" ELSE K[c].state
           /\ \A d \in Conns \ {c} : L[d] = K[d]
<1>1. /\ L[c].up = K[c].up /\ L[c].down = <<>> /\ L[c].session = K[c].session
      /\ L[c].state = IF K[c].state = "open" THEN "left" ELSE K[c].state
  BY DEF Conn, Left
<1>2. \A d \in Conns \ {c} : L[d] = K[d]
  BY DEF Left
<1>3. L[c] \in [up : {L[c].up}, down : {L[c].down}, state : {L[c].state},
                session : {L[c].session}]
  BY DEF Conn, Left
<1>4. L[c] \in Conn
  <2>1. <<>> \in Seq({"response", "error", "goodbye", "notice"})
    OBVIOUS
  <2>2. K[c] \in Conn
    OBVIOUS
  <2> QED
    BY <1>1, <1>3, <2>1, <2>2 DEF Conn
<1>5. L = [d \in Conns |-> L[d]]
  BY DEF Left
<1> QED
  BY <1>1, <1>2, <1>4, <1>5

\* What close does, field by field.
Closes(w, n, v) ==
    /\ v \in Worlds
    /\ v.lib = w.lib /\ v.thr = w.thr
    /\ v.mishaps = IF Usable(w, n) /\ w.fds[n] = Other THEN w.mishaps \cup {"closed"}
                   ELSE w.mishaps
    /\ \A d \in Descriptors : v.fds[d] = IF d = n THEN Free ELSE w.fds[d]
    /\ \A c \in Conns : ~(Connection(w, n) /\ c = w.fds[n]) => v.net[c] = w.net[c]
    /\ Connection(w, n) =>
          LET k == w.net[w.fds[n]]
              l == v.net[w.fds[n]] IN
          /\ l.up = k.up /\ l.down = <<>> /\ l.session = k.session
          /\ l.state = IF k.state = "open" THEN "left" ELSE k.state

LEMMA CloseEffect ==
    ASSUME NEW w \in Worlds, NEW n, NEW v, v = Close(w, n)
    PROVE  Closes(w, n, v)
<1> USE DEF Closes
<1>1. CASE ~Usable(w, n)
  BY <1>1, WorldFields, Facts DEF Usable, Connection, Close
<1>2. CASE Usable(w, n) /\ w.fds[n] = Other
  <2>1. v = [w EXCEPT !.fds[n] = Free, !.mishaps = @ \cup {"closed"}]
    BY <1>2 DEF Close
  <2>2. /\ v.fds = [w.fds EXCEPT ![n] = Free] /\ v.lib = w.lib /\ v.thr = w.thr
        /\ v.mishaps = w.mishaps \cup {"closed"} /\ v.net = w.net
    BY <2>1 DEF Worlds
  <2>3. Shaped(v)
    BY <2>1 DEF Shaped, Worlds
  <2>4. v \in Worlds
    BY <2>2, <2>3, ShapedIsWorld, WorldFields DEF Harms
  <2> QED
    BY <1>2, <2>2, <2>4, WorldFields, Facts DEF Usable, Connection
<1>3. CASE Usable(w, n) /\ w.fds[n] # Other
  <2>1. w.fds[n] \in Conns /\ n \in Descriptors
    BY <1>3, WorldFields DEF Usable
  <2>2. PICK c \in Conns : c = w.fds[n]
    BY <2>1
  <2>3. v = [w EXCEPT !.fds[n] = Free, !.net[c].down = <<>>,
                      !.net[c].state = IF @ = "open" THEN "left" ELSE @]
    BY <1>3, <2>2 DEF Close
  <2>4. /\ v.fds = [w.fds EXCEPT ![n] = Free] /\ v.lib = w.lib /\ v.thr = w.thr
        /\ v.mishaps = w.mishaps
        /\ v.net = Left(w.net, c)
    BY <2>3 DEF Worlds, Left
  <2>5. /\ v.net[c].up = w.net[c].up /\ v.net[c].down = <<>>
        /\ v.net[c].session = w.net[c].session
        /\ v.net[c].state = IF w.net[c].state = "open" THEN "left" ELSE w.net[c].state
        /\ \A d \in Conns \ {c} : v.net[d] = w.net[d]
        /\ v.net \in [Conns -> Conn]
    BY <2>4, ConnClosed, WorldFields
  <2>6. Shaped(v)
    BY <2>3 DEF Shaped, Worlds
  <2>7. v.fds \in [Descriptors -> Conns \cup {Free, Other}]
        /\ \A d \in Descriptors : v.fds[d] = IF d = n THEN Free ELSE w.fds[d]
    BY <2>4, <2>1, WorldFields
  <2>8. v \in Worlds
    BY <2>4, <2>5, <2>6, <2>7, ShapedIsWorld, WorldFields
  <2> QED
    BY <1>3, <2>1, <2>2, <2>4, <2>5, <2>7, <2>8, Zenon DEF Connection, Usable
<1> QED
  BY <1>1, <1>2, <1>3

\* A connection changes in one place; only what a session means is left as it is.
LEMMA ConnChanged ==
    ASSUME NEW w \in Worlds, NEW c \in Conns, NEW l \in Conn, NEW v,
           v = [w EXCEPT !.net = [w.net EXCEPT ![c] = l]]
    PROVE  /\ v \in Worlds /\ v.fds = w.fds /\ v.lib = w.lib /\ v.thr = w.thr
           /\ v.mishaps = w.mishaps /\ v.net[c] = l
           /\ \A d \in Conns \ {c} : v.net[d] = w.net[d]
<1>1. /\ v.fds = w.fds /\ v.lib = w.lib /\ v.thr = w.thr /\ v.mishaps = w.mishaps
      /\ v.net = [w.net EXCEPT ![c] = l] /\ Shaped(v)
  BY DEF Worlds, Shaped
<1>2. v.net \in [Conns -> Conn]
  BY <1>1, WorldFields
<1> QED
  BY <1>1, <1>2, ShapedIsWorld, WorldFields

\* What will be read from the connections, and who was greeted, is as before.
Undisturbed(w, v) ==
    \A c \in Conns : /\ v.net[c].down = w.net[c].down
                     /\ v.net[c].session = w.net[c].session
                     /\ v.net[c].state \in {w.net[c].state, "reset"}

\* What the router writes changes neither what it will read nor the session.
Writes(w, n, v) ==
    /\ v \in Worlds /\ v.lib = w.lib /\ v.thr = w.thr /\ v.fds = w.fds
    /\ v.mishaps = IF w.fds[n] = Other THEN w.mishaps \cup {"written"} ELSE w.mishaps
    /\ Undisturbed(w, v)

LEMMA WrittenEffect ==
    ASSUME NEW w \in Worlds, NEW n, NEW pdu \in {"hello", "goodbye", "request"},
           Accepts(w, n), NEW v, v = Written(w, n, pdu)
    PROVE  Writes(w, n, v)
<1> USE DEF Writes, Undisturbed
<1>1. CASE w.fds[n] = Other
  <2>1. v = [w EXCEPT !.mishaps = @ \cup {"written"}]
    BY <1>1 DEF Written
  <2>2. /\ v.fds = w.fds /\ v.lib = w.lib /\ v.thr = w.thr
        /\ v.mishaps = w.mishaps \cup {"written"} /\ v.net = w.net /\ Shaped(v)
    BY <2>1 DEF Worlds, Shaped
  <2> QED
    BY <1>1, <2>2, ShapedIsWorld, WorldFields DEF Harms
<1>2. CASE w.fds[n] # Other
  <2>1. PICK c \in Conns : c = w.fds[n]
    BY <1>2, WorldFields DEF Accepts, Usable
  <2>2. w.net[c] \in Conn
    BY WorldFields
  <2>3. CASE w.net[c].state = "fin"
    <3>1. v = [w EXCEPT !.net[c].state = "reset"]
      BY <1>2, <2>1, <2>3 DEF Written
    <3>2. PICK l : l = [w.net[c] EXCEPT !.state = "reset"]
      OBVIOUS
    <3>3. /\ l \in Conn /\ l.down = w.net[c].down /\ l.session = w.net[c].session
          /\ l.state = "reset"
      BY <2>2, <3>2 DEF Conn
    <3>4. v = [w EXCEPT !.net = [w.net EXCEPT ![c] = l]]
      BY <3>1, <3>2, WorldFields DEF Worlds
    <3> QED
      BY <1>2, <3>3, <3>4, ConnChanged, WorldFields
  <2>4. CASE w.net[c].state # "fin" /\ pdu = "request"
    BY <1>2, <2>1, <2>4 DEF Written
  <2>5. CASE w.net[c].state # "fin" /\ pdu # "request"
    <3>1. v = [w EXCEPT !.net[c].up = Append(@, pdu)]
      BY <1>2, <2>1, <2>5 DEF Written
    <3>2. PICK l : l = [w.net[c] EXCEPT !.up = Append(w.net[c].up, pdu)]
      OBVIOUS
    <3>3. /\ l \in Conn /\ l.down = w.net[c].down /\ l.session = w.net[c].session
          /\ l.state = w.net[c].state
      <4>1. w.net[c].up \in Seq({"hello", "goodbye"})
        BY <2>2 DEF Conn
      <4>2. Append(w.net[c].up, pdu) \in Seq({"hello", "goodbye"})
        BY <2>5, <4>1, AppendProperties
      <4> QED
        BY <2>2, <3>2, <4>2 DEF Conn
    <3>4. v = [w EXCEPT !.net = [w.net EXCEPT ![c] = l]]
      BY <3>1, <3>2, WorldFields DEF Worlds
    <3> QED
      BY <1>2, <3>3, <3>4, ConnChanged, WorldFields
  <2> QED
    BY <2>3, <2>4, <2>5
<1> QED
  BY <1>1, <1>2

LEMMA UndisturbedIsLinked ==
    ASSUME NEW w, NEW v \in Worlds, Sane(w), v.fds = w.fds, Undisturbed(w, v)
    PROVE  Sane(v)
BY WorldFields DEF Sane, Linked, Undisturbed

\* The handler of the connection is replaced.
LEMMA LibReplaced ==
    ASSUME NEW w \in Worlds, NEW l \in Library, NEW v, v = [w EXCEPT !.lib = l]
    PROVE  /\ v \in Worlds /\ v.fds = w.fds /\ v.thr = w.thr /\ v.net = w.net
           /\ v.mishaps = w.mishaps /\ v.lib = l
<1>1. /\ v.fds = w.fds /\ v.thr = w.thr /\ v.net = w.net /\ v.mishaps = w.mishaps
      /\ v.lib = l /\ Shaped(v)
  BY DEF Worlds, Shaped
<1> QED
  BY <1>1, ShapedIsWorld, WorldFields

Sends(w, v) ==
    /\ Sane(v) /\ v.fds = w.fds /\ v.thr = w.thr /\ Undisturbed(w, v)
    /\ v.mishaps = IF Accepts(w, w.lib.clientFD) /\ w.fds[w.lib.clientFD] = Other
                   THEN w.mishaps \cup {"written"} ELSE w.mishaps
    /\ v.lib.initialized = w.lib.initialized /\ v.lib.stop = w.lib.stop
    /\ v.lib.established = w.lib.established /\ v.lib.external = w.lib.external
    /\ v.lib.oldFD = w.lib.oldFD /\ v.lib.queue = w.lib.queue
    /\ v.lib.sendError = ~Accepts(w, w.lib.clientFD)
    /\ v.lib.clientFD = IF Accepts(w, w.lib.clientFD) THEN w.lib.clientFD ELSE -1

\* A send that fails takes the descriptor from the library.
LEMMA SendEffect ==
    ASSUME NEW w, Sane(w), NEW pdu \in {"hello", "goodbye", "request"},
           NEW v, v = Send(w, pdu)
    PROVE  Sends(w, v)
<1> USE DEF Sends
<1>0. w \in Worlds /\ w.lib \in Library
  BY WorldFields DEF Sane
<1>1. CASE Accepts(w, w.lib.clientFD)
  <2>1. PICK u : u = Written(w, w.lib.clientFD, pdu)
    OBVIOUS
  <2>2. Writes(w, w.lib.clientFD, u)
    BY <1>0, <1>1, <2>1, WrittenEffect
  <2>3. PICK l : l = [w.lib EXCEPT !.sendError = FALSE]
    OBVIOUS
  <2>4. /\ l \in Library /\ l.initialized = w.lib.initialized /\ l.stop = w.lib.stop
        /\ l.established = w.lib.established /\ l.external = w.lib.external
        /\ l.oldFD = w.lib.oldFD /\ l.queue = w.lib.queue /\ l.clientFD = w.lib.clientFD
        /\ l.sendError = FALSE
    BY <1>0, <2>3 DEF Library
  <2>5. v = [u EXCEPT !.lib = l]
    BY <1>1, <2>1, <2>2, <2>3 DEF Send, Worlds, Writes
  <2>6. /\ v \in Worlds /\ v.fds = u.fds /\ v.thr = u.thr /\ v.net = u.net
        /\ v.mishaps = u.mishaps /\ v.lib = l
    BY <2>2, <2>4, <2>5, LibReplaced DEF Writes
  <2>7. Undisturbed(w, v)
    BY <2>2, <2>6 DEF Undisturbed, Writes
  <2> QED
    BY <1>1, <2>2, <2>4, <2>6, <2>7, UndisturbedIsLinked DEF Writes
<1>2. CASE ~Accepts(w, w.lib.clientFD)
  <2>1. PICK l : l = [w.lib EXCEPT !.clientFD = -1, !.sendError = TRUE]
    OBVIOUS
  <2>2. /\ l \in Library /\ l.initialized = w.lib.initialized /\ l.stop = w.lib.stop
        /\ l.established = w.lib.established /\ l.external = w.lib.external
        /\ l.oldFD = w.lib.oldFD /\ l.queue = w.lib.queue /\ l.clientFD = -1
        /\ l.sendError = TRUE
    BY <1>0, <2>1 DEF Library, Numbers
  <2>3. v = [w EXCEPT !.lib = l]
    BY <1>0, <1>2, <2>1 DEF Send, Worlds
  <2>4. /\ v \in Worlds /\ v.fds = w.fds /\ v.thr = w.thr /\ v.net = w.net
        /\ v.mishaps = w.mishaps /\ v.lib = l
    BY <1>0, <2>2, <2>3, LibReplaced
  <2>5. Undisturbed(w, v)
    BY <2>4 DEF Undisturbed
  <2> QED
    BY <1>2, <2>2, <2>4, <2>5, UndisturbedIsLinked
<1> QED
  BY <1>1, <1>2

Parts(w, v) ==
    /\ Sane(v) /\ v.fds = w.fds /\ v.thr = w.thr /\ Undisturbed(w, v)
    /\ v.mishaps \in {w.mishaps, w.mishaps \cup {"written"}}
    /\ w.lib.clientFD = -1 \/ Connection(w, w.lib.clientFD) => v.mishaps = w.mishaps
    /\ v.lib.initialized = w.lib.initialized /\ v.lib.stop = w.lib.stop
    /\ v.lib.established \in {w.lib.established, FALSE}
    /\ v.lib.external = w.lib.external
    /\ v.lib.oldFD = w.lib.oldFD /\ v.lib.queue = w.lib.queue

\* A GOODBYE leaves the descriptors alone, and writes to others only if the
\* descriptor of the library is one of theirs.
LEMMA SendGoodbyeEffect ==
    ASSUME NEW w, Sane(w), NEW v, v = sendGoodbye(w)
    PROVE  Parts(w, v)
<1> USE DEF Parts
<1>0. w \in Worlds /\ w.lib \in Library
  BY WorldFields DEF Sane
<1>1. CASE w.lib.clientFD = -1
  BY <1>1, <1>0 DEF sendGoodbye, Undisturbed
<1>2. CASE w.lib.clientFD # -1
  <2>1. PICK s : s = Send(w, "goodbye")
    OBVIOUS
  <2>2. Sends(w, s)
    BY <2>1, SendEffect
  <2>3. s \in Worlds /\ s.lib \in Library
    BY <2>2, WorldFields DEF Sane, Sends
  <2>4. PICK e \in BOOLEAN : e = (s.lib.established /\ s.lib.sendError)
    BY <2>3 DEF Library
  <2>5. e \in {w.lib.established, FALSE}
    BY <1>0, <2>2, <2>3, <2>4 DEF Library, Sends
  <2>6. PICK l : l = [s.lib EXCEPT !.established = e]
    OBVIOUS
  <2>7. /\ l \in Library /\ l.initialized = s.lib.initialized /\ l.stop = s.lib.stop
        /\ l.established = e /\ l.external = s.lib.external
        /\ l.oldFD = s.lib.oldFD /\ l.queue = s.lib.queue
    BY <2>3, <2>4, <2>6 DEF Library
  <2>8. v = [s EXCEPT !.lib = l]
    BY <1>2, <2>1, <2>3, <2>4, <2>6 DEF sendGoodbye, Worlds
  <2>9. /\ v \in Worlds /\ v.fds = s.fds /\ v.thr = s.thr /\ v.net = s.net
        /\ v.mishaps = s.mishaps /\ v.lib = l
    BY <2>3, <2>7, <2>8, LibReplaced
  <2>10. Undisturbed(w, v)
    BY <2>2, <2>9 DEF Undisturbed, Sends
  <2>11. Connection(w, w.lib.clientFD) => w.fds[w.lib.clientFD] # Other
    BY Facts DEF Connection
  <2> QED
    BY <1>2, <2>2, <2>5, <2>7, <2>9, <2>10, <2>11, UndisturbedIsLinked DEF Sends
<1> QED
  BY <1>1, <1>2

\* Descriptors were closed at most; what stays open is as it was.
KeepsOpen(w, v) ==
    \A d \in Descriptors : v.fds[d] \in Conns =>
        v.fds[d] = w.fds[d] /\ v.net[v.fds[d]] = w.net[w.fds[d]]

\* Closing spoils nothing.
LEMMA ClosedIsSane ==
    ASSUME NEW w, Sane(w), NEW n, NEW v, Closes(w, n, v)
    PROVE  Sane(v) /\ KeepsOpen(w, v)
<1>1. v \in Worlds /\ w \in Worlds
  BY DEF Closes, Sane
<1>2. \A d \in Descriptors : v.fds[d] \in Conns => d # n /\ v.fds[d] = w.fds[d]
  BY Facts DEF Closes
<1>3. \A d \in Descriptors : v.fds[d] \in Conns => v.net[v.fds[d]] = w.net[v.fds[d]]
  <2>1. SUFFICES ASSUME NEW d \in Descriptors, v.fds[d] \in Conns
                 PROVE  v.net[v.fds[d]] = w.net[v.fds[d]]
    OBVIOUS
  <2>2. ~(Connection(w, n) /\ v.fds[d] = w.fds[n])
    BY <1>2, <2>1 DEF Connection, Sane, Linked
  <2> QED
    BY <2>1, <2>2 DEF Closes
<1>4. \A c \in Conns : v.net[c].session = "over" => v.net[c].state # "open"
  BY DEF Closes, Sane, Linked
<1>5. Linked(v.fds, v.net)
  BY <1>2, <1>3, <1>4 DEF Sane, Linked
<1> QED
  BY <1>1, <1>2, <1>3, <1>5 DEF Sane, KeepsOpen

\* Where closeClientSocket looks for the descriptor.
Held(w) == IF w.lib.clientFD > -1 THEN w.lib.clientFD ELSE w.lib.oldFD

LEMMA HeldIs ==
    ASSUME NEW w \in Worlds
    PROVE  /\ w.lib.clientFD # -1 => Held(w) = w.lib.clientFD
           /\ w.lib.clientFD = -1 => Held(w) = w.lib.oldFD
           /\ Held(w) = -1 => w.lib.clientFD = -1 /\ w.lib.oldFD = -1
           /\ Held(w) \in Numbers
<1>1. w.lib.clientFD \in Numbers /\ w.lib.oldFD \in Numbers
  BY WorldFields DEF Library
<1>2. \A n \in Numbers : n # -1 <=> n > -1
  BY Facts DEF Numbers
<1> QED
  BY <1>1, <1>2 DEF Held

Shuts(w, v) ==
    /\ Sane(v) /\ v.thr = w.thr
    /\ v.lib.initialized = w.lib.initialized /\ v.lib.stop = w.lib.stop
    /\ v.lib.established = w.lib.established /\ v.lib.external = w.lib.external
    /\ v.lib.clientFD = -1 /\ v.lib.oldFD \in {w.lib.oldFD, -1}
    /\ ~w.lib.external => v.lib.oldFD = -1
    /\ v.mishaps \in {w.mishaps, w.mishaps \cup {"closed"}}
    /\ w.lib.external => v.fds = w.fds /\ v.net = w.net /\ v.mishaps = w.mishaps
    /\ Held(w) = -1 \/ Connection(w, Held(w)) => v.mishaps = w.mishaps

\* A socket of the router stays as it is, and any other is closed.
LEMMA CloseClientSocketEffect ==
    ASSUME NEW w, Sane(w), NEW v, v = closeClientSocket(w)
    PROVE  Shuts(w, v)
<1> USE DEF Shuts
<1>0. w \in Worlds /\ w.lib \in Library
  BY WorldFields DEF Sane
<1>1. CASE Held(w) = -1
  <2>1. v = w
    BY <1>1 DEF closeClientSocket, Held
  <2> QED
    BY <1>0, <1>1, <2>1, HeldIs
<1>2. CASE Held(w) # -1 /\ w.lib.external
  <2>1. v = [w EXCEPT !.lib.clientFD = -1]
    BY <1>2 DEF closeClientSocket, Held
  <2>2. PICK l : l = [w.lib EXCEPT !.clientFD = -1]
    OBVIOUS
  <2>3. /\ l \in Library /\ l.initialized = w.lib.initialized /\ l.stop = w.lib.stop
        /\ l.established = w.lib.established /\ l.external = w.lib.external
        /\ l.oldFD = w.lib.oldFD /\ l.clientFD = -1
    BY <1>0, <2>2 DEF Library, Numbers
  <2>4. v = [w EXCEPT !.lib = l]
    BY <1>0, <2>1, <2>2 DEF Worlds
  <2>5. /\ v \in Worlds /\ v.fds = w.fds /\ v.thr = w.thr /\ v.net = w.net
        /\ v.mishaps = w.mishaps /\ v.lib = l
    BY <1>0, <2>3, <2>4, LibReplaced
  <2> QED
    BY <1>2, <2>3, <2>5 DEF Sane
<1>3. CASE Held(w) # -1 /\ ~w.lib.external
  <2>1. PICK u : u = Close(w, Held(w))
    OBVIOUS
  <2>2. Closes(w, Held(w), u) /\ Sane(u)
    BY <1>0, <2>1, CloseEffect, ClosedIsSane
  <2>3. v = [u EXCEPT !.lib.clientFD = -1, !.lib.oldFD = -1]
    BY <1>3, <2>1 DEF closeClientSocket, Held
  <2>4. PICK l : l = [w.lib EXCEPT !.clientFD = -1, !.oldFD = -1]
    OBVIOUS
  <2>5. /\ l \in Library /\ l.initialized = w.lib.initialized /\ l.stop = w.lib.stop
        /\ l.established = w.lib.established /\ l.external = w.lib.external
        /\ l.oldFD = -1 /\ l.clientFD = -1
    BY <1>0, <2>4 DEF Library, Numbers
  <2>6. u \in Worlds /\ u.lib = w.lib /\ u.thr = w.thr
    BY <2>2 DEF Closes
  <2>7. v = [u EXCEPT !.lib = l]
    BY <2>3, <2>4, <2>6 DEF Worlds
  <2>8. /\ v \in Worlds /\ v.fds = u.fds /\ v.thr = u.thr /\ v.net = u.net
        /\ v.mishaps = u.mishaps /\ v.lib = l
    BY <2>5, <2>6, <2>7, LibReplaced
  <2>9. Connection(w, Held(w)) => w.fds[Held(w)] # Other
    BY Facts DEF Connection
  <2>10. /\ u.mishaps \in {w.mishaps, w.mishaps \cup {"closed"}}
         /\ Connection(w, Held(w)) => u.mishaps = w.mishaps
    BY <2>2, <2>9 DEF Closes
  <2> QED
    BY <1>3, <2>2, <2>5, <2>6, <2>8, <2>10 DEF Sane
<1> QED
  BY <1>1, <1>2, <1>3

Releases(w, v) ==
    /\ Sane(v) /\ v.thr = w.thr
    /\ v.lib.initialized = w.lib.initialized /\ v.lib.external = w.lib.external
    /\ v.lib.stop = TRUE /\ v.lib.established \in {w.lib.established, FALSE}
    /\ v.lib.clientFD = -1 /\ v.lib.oldFD \in {w.lib.oldFD, -1}
    /\ ~w.lib.external => v.lib.oldFD = -1
    /\ w.mishaps \subseteq v.mishaps
    /\ w.lib.external /\ ~w.lib.established =>
          v.fds = w.fds /\ v.net = w.net /\ v.mishaps = w.mishaps
    /\ ~w.lib.established /\ (Held(w) = -1 \/ Connection(w, Held(w))) => v.mishaps = w.mishaps

\* Releasing stops the proxy; of a socket of the router nothing else is left.
LEMMA ReleaseEffect ==
    ASSUME NEW w, Sane(w), NEW v, v = Release(w)
    PROVE  Releases(w, v)
<1>0. w \in Worlds /\ w.lib \in Library
  BY WorldFields DEF Sane
<1>1. PICK l : l = [w.lib EXCEPT !.stop = TRUE]
  OBVIOUS
<1>2. /\ l \in Library /\ l.initialized = w.lib.initialized /\ l.stop = TRUE
      /\ l.established = w.lib.established /\ l.external = w.lib.external
      /\ l.oldFD = w.lib.oldFD /\ l.clientFD = w.lib.clientFD
  BY <1>0, <1>1 DEF Library
<1>3. PICK s : s = [w EXCEPT !.lib = l]
  OBVIOUS
<1>4. s = [w EXCEPT !.lib.stop = TRUE]
  BY <1>0, <1>1, <1>3 DEF Worlds
<1>5. /\ s \in Worlds /\ s.fds = w.fds /\ s.thr = w.thr /\ s.net = w.net
      /\ s.mishaps = w.mishaps /\ s.lib = l
  BY <1>0, <1>2, <1>3, LibReplaced
<1>6. Sane(s)
  BY <1>5 DEF Sane
<1>7. PICK g : g = IF s.lib.established THEN sendGoodbye(s) ELSE s
  OBVIOUS
<1>8. /\ Sane(g) /\ g.thr = w.thr /\ g.lib.initialized = w.lib.initialized
      /\ g.lib.stop = TRUE /\ g.lib.established \in {w.lib.established, FALSE}
      /\ g.lib.external = w.lib.external /\ g.lib.oldFD = w.lib.oldFD
      /\ w.mishaps \subseteq g.mishaps
      /\ ~w.lib.established => g = s
  <2>1. CASE s.lib.established
    <3>1. Parts(s, g)
      BY <1>6, <1>7, <2>1, SendGoodbyeEffect
    <3> QED
      BY <1>2, <1>5, <2>1, <3>1 DEF Parts
  <2>2. CASE ~s.lib.established
    BY <1>0, <1>2, <1>5, <1>6, <1>7, <2>2
  <2> QED
    BY <2>1, <2>2
<1>9. PICK c : c = closeClientSocket(g)
  OBVIOUS
<1>10. Shuts(g, c)
  BY <1>8, <1>9, CloseClientSocketEffect
<1>11. c \in Worlds /\ c.lib \in Library
  BY <1>10, WorldFields DEF Shuts, Sane
<1>12. v = [c EXCEPT !.lib.queue = 0]
  BY <1>4, <1>7, <1>9 DEF Release
<1>13. PICK m : m = [c.lib EXCEPT !.queue = 0]
  OBVIOUS
<1>14. /\ m \in Library /\ m.initialized = c.lib.initialized /\ m.stop = c.lib.stop
       /\ m.established = c.lib.established /\ m.external = c.lib.external
       /\ m.oldFD = c.lib.oldFD /\ m.clientFD = c.lib.clientFD
  BY <1>11, <1>13, ClientAssumption DEF Library
<1>15. v = [c EXCEPT !.lib = m]
  BY <1>11, <1>12, <1>13 DEF Worlds
<1>16. /\ v \in Worlds /\ v.fds = c.fds /\ v.thr = c.thr /\ v.net = c.net
       /\ v.mishaps = c.mishaps /\ v.lib = m
  BY <1>11, <1>14, <1>15, LibReplaced
<1>17. Sane(v)
  BY <1>10, <1>16 DEF Sane, Shuts
<1>18. ~w.lib.established => Held(g) = Held(w) /\ (Connection(g, Held(g)) <=> Connection(w, Held(w)))
  BY <1>2, <1>5, <1>8 DEF Held, Connection
<1>19. w.mishaps \subseteq v.mishaps
  BY <1>8, <1>10, <1>16 DEF Shuts
<1>20. /\ v.thr = w.thr /\ v.lib.initialized = w.lib.initialized
       /\ v.lib.external = w.lib.external /\ v.lib.stop = TRUE
       /\ v.lib.clientFD = -1 /\ v.lib.oldFD \in {w.lib.oldFD, -1}
       /\ ~w.lib.external => v.lib.oldFD = -1
  BY <1>8, <1>10, <1>14, <1>16 DEF Shuts
<1>21. v.lib.established \in {w.lib.established, FALSE}
  BY <1>8, <1>10, <1>14, <1>16 DEF Shuts
<1>22. ASSUME ~w.lib.established
       PROVE  /\ w.lib.external => v.fds = w.fds /\ v.net = w.net /\ v.mishaps = w.mishaps
              /\ Held(w) = -1 \/ Connection(w, Held(w)) => v.mishaps = w.mishaps
  BY <1>2, <1>5, <1>8, <1>10, <1>16, <1>18, <1>22 DEF Shuts
<1> QED
  BY <1>17, <1>19, <1>20, <1>21, <1>22 DEF Releases

-----------------------------------------------------------------------------
(* The threads.                                                              *)

NoCare(w) == w.thr.readers = {} /\ w.thr.timers = 0

\* What the router knows of its threads is replaced.
LEMMA ThrReplaced ==
    ASSUME NEW w \in Worlds, NEW t \in Threads, NEW v, v = [w EXCEPT !.thr = t]
    PROVE  /\ v \in Worlds /\ v.fds = w.fds /\ v.lib = w.lib /\ v.net = w.net
           /\ v.mishaps = w.mishaps /\ v.thr = t
<1>1. /\ v.fds = w.fds /\ v.lib = w.lib /\ v.net = w.net /\ v.mishaps = w.mishaps
      /\ v.thr = t /\ Shaped(v)
  BY DEF Worlds, Shaped
<1> QED
  BY <1>1, ShapedIsWorld, WorldFields

Cancels(w, s) ==
    /\ Sane(s) /\ s.fds = w.fds /\ s.lib = w.lib /\ s.net = w.net /\ s.mishaps = w.mishaps
    /\ s.thr.rq = w.thr.rq /\ s.thr.tries = w.thr.tries
    /\ NoCare(w) => NoCare(s)

\* Cancelling takes a thread away, never adds one.
LEMMA CancelCurrentEffect ==
    ASSUME NEW w, Sane(w), NEW s \in CancelCurrent(w)
    PROVE  Cancels(w, s)
<1> USE DEF Cancels
<1>0. w \in Worlds /\ w.thr \in Threads
  BY WorldFields DEF Sane
<1>1. CASE w.thr.current \in Descriptors
  <2>1. s = [w EXCEPT !.thr.readers = @ \ {w.thr.current}, !.thr.current = Stale]
    BY <1>1 DEF CancelCurrent
  <2>2. PICK t : t = [w.thr EXCEPT !.readers = w.thr.readers \ {w.thr.current},
                                   !.current = Stale]
    OBVIOUS
  <2>3. /\ t \in Threads /\ t.rq = w.thr.rq /\ t.timers = w.thr.timers
        /\ t.tries = w.thr.tries /\ t.readers = w.thr.readers \ {w.thr.current}
    BY <1>0, <2>2 DEF Threads
  <2>4. s = [w EXCEPT !.thr = t]
    BY <1>0, <2>1, <2>2 DEF Worlds
  <2>5. /\ s \in Worlds /\ s.fds = w.fds /\ s.lib = w.lib /\ s.net = w.net
        /\ s.mishaps = w.mishaps /\ s.thr = t
    BY <1>0, <2>3, <2>4, ThrReplaced
  <2> QED
    BY <2>3, <2>5 DEF Sane, NoCare
<1>2. CASE w.thr.current \notin Descriptors /\ s = w
  BY <1>2
<1>3. CASE w.thr.current \notin Descriptors /\ s # w
  <2>1. s = [w EXCEPT !.thr.timers = IF @ > 0 THEN @ - 1 ELSE 0]
    BY <1>3 DEF CancelCurrent
  <2>2. PICK x \in Nat : /\ x = IF w.thr.timers > 0 THEN w.thr.timers - 1 ELSE 0
                         /\ w.thr.timers = 0 => x = 0
    BY <1>0 DEF Threads
  <2>3. PICK t : t = [w.thr EXCEPT !.timers = x]
    OBVIOUS
  <2>4. /\ t \in Threads /\ t.rq = w.thr.rq /\ t.readers = w.thr.readers
        /\ t.tries = w.thr.tries /\ t.timers = x
    BY <1>0, <2>3 DEF Threads
  <2>5. s = [w EXCEPT !.thr = t]
    BY <1>0, <2>1, <2>2, <2>3 DEF Worlds
  <2>6. /\ s \in Worlds /\ s.fds = w.fds /\ s.lib = w.lib /\ s.net = w.net
        /\ s.mishaps = w.mishaps /\ s.thr = t
    BY <1>0, <2>4, <2>5, ThrReplaced
  <2> QED
    BY <2>2, <2>4, <2>6 DEF Sane, NoCare
<1> QED
  BY <1>1, <1>2, <1>3

Controls(w, code, s) ==
    /\ Sane(s) /\ s.lib = w.lib /\ w.mishaps \subseteq s.mishaps /\ KeepsOpen(w, s)
    /\ code = "error" /\ NoCare(w) => NoCare(s)

\* After a reported error nobody takes care of the connection who did not before.
LEMMA ThreadControlCallEffect ==
    ASSUME NEW w, Sane(w), NEW code, NEW v \in threadControlCall(w, code)
    PROVE  Controls(w, code, v)
<1> USE DEF Controls
<1>0. w \in Worlds /\ w.thr \in Threads
  BY WorldFields DEF Sane
<1>1. PICK s : /\ w.thr.current = NULL => s = w
               /\ w.thr.current # NULL => \E c \in CancelCurrent(w) :
                     s = [Close(c, c.thr.rq) EXCEPT !.thr.rq = IF @ > 0 THEN -1 ELSE @]
               /\ v = [s EXCEPT !.thr.timers = IF code \in {"lost", "disconnect"} THEN @ + 1
                                               ELSE @]
  BY DEF threadControlCall
<1>2. Controls(w, "error", s)
  <2>1. CASE w.thr.current = NULL
    BY <1>1, <2>1 DEF KeepsOpen
  <2>2. CASE w.thr.current # NULL
    <3>1. PICK c \in CancelCurrent(w) :
              s = [Close(c, c.thr.rq) EXCEPT !.thr.rq = IF @ > 0 THEN -1 ELSE @]
      BY <1>1, <2>2
    <3>2. Cancels(w, c)
      BY CancelCurrentEffect
    <3>3. PICK u : u = Close(c, c.thr.rq)
      OBVIOUS
    <3>4. Closes(c, c.thr.rq, u) /\ Sane(u) /\ KeepsOpen(c, u)
      BY <3>2, <3>3, CloseEffect, ClosedIsSane DEF Cancels, Sane
    <3>5. u \in Worlds /\ u.thr \in Threads
      BY <3>4, WorldFields DEF Sane
    <3>6. PICK r \in Numbers \cup {0} : r = IF u.thr.rq > 0 THEN -1 ELSE u.thr.rq
      BY <3>5 DEF Threads, Numbers
    <3>7. PICK t : t = [u.thr EXCEPT !.rq = r]
      OBVIOUS
    <3>8. t \in Threads /\ t.readers = u.thr.readers /\ t.timers = u.thr.timers
      BY <3>5, <3>7 DEF Threads
    <3>9. s = [u EXCEPT !.thr = t]
      BY <3>1, <3>3, <3>5, <3>6, <3>7 DEF Worlds
    <3>10. /\ s \in Worlds /\ s.fds = u.fds /\ s.lib = u.lib /\ s.net = u.net
           /\ s.mishaps = u.mishaps /\ s.thr = t
      BY <3>5, <3>8, <3>9, ThrReplaced
    <3>11. Sane(s)
      BY <3>4, <3>10 DEF Sane
    <3>12. s.lib = w.lib /\ w.mishaps \subseteq s.mishaps
      BY <3>2, <3>4, <3>10 DEF Cancels, Closes
    <3>13. KeepsOpen(w, s)
      BY <3>2, <3>4, <3>10 DEF Cancels, KeepsOpen
    <3>14. NoCare(w) => NoCare(s)
      BY <3>2, <3>4, <3>8, <3>10 DEF Cancels, Closes, NoCare
    <3> QED
      BY <3>11, <3>12, <3>13, <3>14
  <2> QED
    BY <2>1, <2>2
<1>3. s \in Worlds /\ s.thr \in Threads
  BY <1>2, WorldFields DEF Sane
<1>4. PICK x \in Nat : /\ x = IF code \in {"lost", "disconnect"} THEN s.thr.timers + 1
                              ELSE s.thr.timers
                       /\ code = "error" => x = s.thr.timers
  BY <1>3 DEF Threads
<1>5. PICK t : t = [s.thr EXCEPT !.timers = x]
  OBVIOUS
<1>6. t \in Threads /\ t.readers = s.thr.readers /\ t.timers = x
  BY <1>3, <1>5 DEF Threads
<1>7. v = [s EXCEPT !.thr = t]
  BY <1>1, <1>3, <1>4, <1>5 DEF Worlds
<1>8. /\ v \in Worlds /\ v.fds = s.fds /\ v.lib = s.lib /\ v.net = s.net
      /\ v.mishaps = s.mishaps /\ v.thr = t
  BY <1>3, <1>6, <1>7, ThrReplaced
<1>9. Sane(v) /\ v.lib = w.lib /\ w.mishaps \subseteq v.mishaps /\ KeepsOpen(w, v)
  BY <1>2, <1>8 DEF Sane, KeepsOpen
<1>10. code = "error" /\ NoCare(w) => NoCare(v)
  BY <1>2, <1>4, <1>6, <1>8 DEF NoCare
<1> QED
  BY <1>9, <1>10

\* A world that comes after another: it is sane, and what happened is remembered.
Follows(w, v) == Sane(v) /\ w.mishaps \subseteq v.mishaps

Notes(w, what, v) ==
    /\ Sane(v) /\ v.fds = w.fds /\ v.lib = w.lib /\ v.thr = w.thr /\ v.net = w.net
    /\ v.mishaps = w.mishaps \cup {what}

LEMMA NoteEffect ==
    ASSUME NEW w, Sane(w), NEW what \in Troubles \cup Harms, NEW v, v = Note(w, what)
    PROVE  Notes(w, what, v)
<1>0. w \in Worlds
  BY DEF Sane
<1>1. /\ v.fds = w.fds /\ v.lib = w.lib /\ v.net = w.net /\ v.thr = w.thr
      /\ v.mishaps = w.mishaps \cup {what} /\ Shaped(v)
  BY <1>0 DEF Worlds, Shaped, Note
<1>2. v \in Worlds
  BY <1>0, <1>1, ShapedIsWorld, WorldFields
<1> QED
  BY <1>1, <1>2 DEF Notes, Sane

LEMMA DisconnectEffect ==
    ASSUME NEW w, Sane(w), NEW v \in Disconnect(w)
    PROVE  Follows(w, v)
<1>1. CASE ~(w.lib.initialized /\ w.lib.established)
  BY <1>1 DEF Disconnect, Follows
<1>2. CASE w.lib.initialized /\ w.lib.established
  <2>1. PICK g, s : /\ g = [sendGoodbye(w) EXCEPT !.lib.established = FALSE]
                    /\ s = Release(g) /\ v \in threadControlCall(s, "disconnect")
    BY <1>2 DEF Disconnect
  <2>2. PICK u : u = sendGoodbye(w)
    OBVIOUS
  <2>3. Parts(w, u)
    BY <2>2, SendGoodbyeEffect
  <2>4. u \in Worlds /\ u.lib \in Library
    BY <2>3, WorldFields DEF Parts, Sane
  <2>5. PICK l : l = [u.lib EXCEPT !.established = FALSE]
    OBVIOUS
  <2>6. l \in Library
    BY <2>4, <2>5 DEF Library
  <2>7. g = [u EXCEPT !.lib = l]
    BY <2>1, <2>2, <2>4, <2>5 DEF Worlds
  <2>8. /\ g \in Worlds /\ g.fds = u.fds /\ g.thr = u.thr /\ g.net = u.net
        /\ g.mishaps = u.mishaps
    BY <2>4, <2>6, <2>7, LibReplaced
  <2>9. Sane(g) /\ w.mishaps \subseteq g.mishaps
    BY <2>3, <2>8 DEF Parts, Sane
  <2>10. Releases(g, s)
    BY <2>1, <2>9, ReleaseEffect
  <2>11. Sane(s) /\ w.mishaps \subseteq s.mishaps
    BY <2>9, <2>10 DEF Releases
  <2>12. Controls(s, "disconnect", v)
    BY <2>1, <2>11, ThreadControlCallEffect
  <2> QED
    BY <2>11, <2>12 DEF Controls, Follows
<1> QED
  BY <1>1, <1>2

\* The timer is started again, or the router has given up.
Retries(w, v) ==
    /\ Sane(v) /\ v.fds = w.fds /\ v.lib = w.lib /\ v.net = w.net /\ v.mishaps = w.mishaps
    /\ v.thr.readers = w.thr.readers /\ v.thr.timers = w.thr.timers + 1
    /\ v.thr.rq = w.thr.rq

LEMMA NewProxyIsLib == \A e \in BOOLEAN : [NewProxy EXCEPT !.sendError = e] \in Library
<1>1. NewProxy \in Library
  BY ClientAssumption DEF NewProxy, Library, Numbers
<1> QED
  BY <1>1 DEF Library

LEMMA AttemptFailedEffect ==
    ASSUME NEW w, Sane(w), NEW prev, NEW v \in AttemptFailed(w, prev)
    PROVE  \/ Retries(w, v)
           \/ Follows(w, v) /\ "gaveUp" \in v.mishaps
<1>0. w \in Worlds /\ w.thr \in Threads
  BY WorldFields DEF Sane
<1>1. PICK a : a = [w EXCEPT !.thr.timers = @ + 1]
  OBVIOUS
<1>2. PICK t : t = [w.thr EXCEPT !.timers = @ + 1]
  OBVIOUS
<1>3. /\ t \in Threads /\ t.rq = w.thr.rq /\ t.readers = w.thr.readers
      /\ t.timers = w.thr.timers + 1
  BY <1>0, <1>2 DEF Threads
<1>4. a = [w EXCEPT !.thr = t]
  BY <1>0, <1>1, <1>2 DEF Worlds
<1>5. /\ a \in Worlds /\ a.fds = w.fds /\ a.lib = w.lib /\ a.net = w.net
      /\ a.mishaps = w.mishaps /\ a.thr = t
  BY <1>0, <1>3, <1>4, ThrReplaced
<1>6. Sane(a)
  BY <1>5 DEF Sane
<1>7. CASE w.thr.tries = 0
  <2>1. v = [a EXCEPT !.thr.tries = 1]
    BY <1>1, <1>7 DEF AttemptFailed
  <2>2. PICK r : r = [t EXCEPT !.tries = 1]
    OBVIOUS
  <2>3. /\ r \in Threads /\ r.rq = w.thr.rq /\ r.readers = w.thr.readers
        /\ r.timers = w.thr.timers + 1
    BY <1>3, <2>2 DEF Threads
  <2>4. v = [a EXCEPT !.thr = r]
    BY <1>5, <2>1, <2>2 DEF Worlds
  <2>5. /\ v \in Worlds /\ v.fds = a.fds /\ v.lib = a.lib /\ v.net = a.net
        /\ v.mishaps = a.mishaps /\ v.thr = r
    BY <1>5, <2>3, <2>4, ThrReplaced
  <2> QED
    BY <1>5, <1>6, <2>3, <2>5 DEF Retries, Sane
<1>8. CASE w.thr.tries # 0
  <2>1. PICK c, u, r :
           /\ c = Close(Note(a, "gaveUp"), prev)
           /\ u \in IF c.thr.on THEN Disconnect([c EXCEPT !.thr.on = FALSE]) ELSE {c}
           /\ r \in Disconnect(u)
           /\ v = [Close(r, r.thr.rq) EXCEPT
                      !.lib = [NewProxy EXCEPT !.sendError = r.lib.sendError],
                      !.thr.tries = 0, !.thr.timers = IF @ > 0 THEN @ - 1 ELSE 0]
    <3> DEFINE C == {Close(Note(a, "gaveUp"), prev)}
               U(c) == IF c.thr.on THEN Disconnect([c EXCEPT !.thr.on = FALSE]) ELSE {c}
               R == UNION {Disconnect(u) : u \in UNION {U(c) : c \in C}}
    <3>1. v \in {[Close(r, r.thr.rq) EXCEPT
                      !.lib = [NewProxy EXCEPT !.sendError = r.lib.sendError],
                      !.thr.tries = 0, !.thr.timers = IF @ > 0 THEN @ - 1 ELSE 0] : r \in R}
      BY <1>1, <1>8 DEF AttemptFailed
    <3>2. PICK r \in R : v = [Close(r, r.thr.rq) EXCEPT
                      !.lib = [NewProxy EXCEPT !.sendError = r.lib.sendError],
                      !.thr.tries = 0, !.thr.timers = IF @ > 0 THEN @ - 1 ELSE 0]
      BY <3>1
    <3>3. PICK c \in C : \E u \in U(c) : r \in Disconnect(u)
      BY Zenon
    <3>4. PICK u \in U(c) : r \in Disconnect(u)
      BY <3>3
    <3> QED
      BY <3>2, <3>3, <3>4
  <2>2. PICK n : n = Note(a, "gaveUp")
    OBVIOUS
  <2>3. Notes(a, "gaveUp", n)
    BY <1>6, <2>2, NoteEffect DEF Troubles
  <2>4. Closes(n, prev, c) /\ Sane(c)
    BY <2>1, <2>2, <2>3, CloseEffect, ClosedIsSane DEF Notes, Sane
  <2>5. Follows(w, c) /\ "gaveUp" \in c.mishaps
    BY <1>5, <2>3, <2>4 DEF Notes, Closes, Follows
  <2>6. Follows(c, u)
    <3>1. CASE ~c.thr.on
      BY <2>1, <2>4, <3>1 DEF Follows
    <3>2. CASE c.thr.on
      <4>0. c \in Worlds /\ c.thr \in Threads
        BY <2>4, WorldFields DEF Sane
      <4>1. PICK d : d = [c EXCEPT !.thr.on = FALSE]
        OBVIOUS
      <4>2. PICK o : o = [c.thr EXCEPT !.on = FALSE]
        OBVIOUS
      <4>3. o \in Threads
        BY <4>0, <4>2 DEF Threads
      <4>4. d = [c EXCEPT !.thr = o]
        BY <4>0, <4>1, <4>2 DEF Worlds
      <4>5. d \in Worlds /\ d.fds = c.fds /\ d.net = c.net /\ d.mishaps = c.mishaps
        BY <4>0, <4>3, <4>4, ThrReplaced
      <4>6. Sane(d)
        BY <2>4, <4>5 DEF Sane
      <4>7. Follows(d, u)
        BY <2>1, <3>2, <4>1, <4>6, DisconnectEffect
      <4> QED
        BY <4>5, <4>7 DEF Follows
    <3> QED
      BY <3>1, <3>2
  <2>7. Follows(u, r)
    BY <2>1, <2>6, DisconnectEffect DEF Follows
  <2>8. PICK e : e = Close(r, r.thr.rq)
    OBVIOUS
  <2>9. Closes(r, r.thr.rq, e) /\ Sane(e)
    BY <2>7, <2>8, CloseEffect, ClosedIsSane DEF Follows, Sane
  <2>10. /\ e \in Worlds /\ e.thr \in Threads /\ r.lib.sendError \in BOOLEAN
         /\ e.lib \in Library
    BY <2>7, <2>9, WorldFields DEF Follows, Sane, Library
  <2>11. PICK l : l = [NewProxy EXCEPT !.sendError = r.lib.sendError]
    OBVIOUS
  <2>12. l \in Library
    BY <2>10, <2>11, NewProxyIsLib
  <2>13. PICK x \in Nat : x = IF e.thr.timers > 0 THEN e.thr.timers - 1 ELSE 0
    BY <2>10 DEF Threads
  <2>14. PICK q : q = [e.thr EXCEPT !.tries = 0, !.timers = x]
    OBVIOUS
  <2>15. q \in Threads
    <3>1. PICK y \in 0 .. 1 : y = 0
      OBVIOUS
    <3>2. [e.thr EXCEPT !.tries = y, !.timers = x] \in Threads
      BY <2>10 DEF Threads
    <3> QED
      BY <2>14, <3>1, <3>2
  <2>16. PICK f : f = [e EXCEPT !.lib = l]
    OBVIOUS
  <2>17. /\ f \in Worlds /\ f.fds = e.fds /\ f.thr = e.thr /\ f.net = e.net
         /\ f.mishaps = e.mishaps
    BY <2>10, <2>12, <2>16, LibReplaced
  <2>18. v = [f EXCEPT !.thr = q]
    BY <2>1, <2>8, <2>10, <2>11, <2>13, <2>14, <2>16 DEF Worlds, Threads
  <2>19. /\ v \in Worlds /\ v.fds = f.fds /\ v.net = f.net /\ v.mishaps = f.mishaps
    BY <2>15, <2>17, <2>18, ThrReplaced
  <2>20. Sane(v) /\ r.mishaps \subseteq v.mishaps
    BY <2>9, <2>17, <2>19 DEF Sane, Closes
  <2> QED
    BY <2>5, <2>6, <2>7, <2>20 DEF Follows
<1> QED
  BY <1>7, <1>8

\* The router reads from the descriptor the library has, and from it alone if
\* nobody took care of the connection.
Resumes(w, prev, v) ==
    /\ Sane(v) /\ v.lib = w.lib /\ w.mishaps \subseteq v.mishaps
    /\ Connection(w, prev) => v.mishaps = w.mishaps
    /\ \A d \in Descriptors : d # prev => v.fds[d] = w.fds[d]
    /\ KeepsOpen(w, v)
    /\ v.thr.rq = w.lib.clientFD
    /\ v.thr.readers = w.thr.readers \cup {w.lib.clientFD}
    /\ v.thr.timers = w.thr.timers

LEMMA AttemptWorkedEffect ==
    ASSUME NEW w, Sane(w), w.lib.clientFD \in Descriptors, NEW prev,
           NEW v, v = AttemptWorked(w, prev)
    PROVE  Resumes(w, prev, v)
<1>1. PICK n \in Descriptors : n = w.lib.clientFD
  OBVIOUS
<1>2. PICK u : u = Close(w, prev)
  OBVIOUS
<1>3. Closes(w, prev, u) /\ Sane(u) /\ KeepsOpen(w, u)
  BY <1>2, CloseEffect, ClosedIsSane DEF Sane
<1>4. u \in Worlds /\ u.thr \in Threads /\ u.thr = w.thr /\ u.lib = w.lib
  BY <1>3, WorldFields DEF Sane, Closes
<1>5. PICK m \in Descriptors \cup {NULL} : m = IF n \in w.thr.readers THEN NULL ELSE n
  BY <1>1
<1>6. PICK r : r = w.thr.readers \cup {n}
  OBVIOUS
<1>7. PICK t : t = [u.thr EXCEPT !.rq = n, !.readers = r, !.current = m]
  OBVIOUS
<1>8. r \subseteq Descriptors
  BY <1>1, <1>4, <1>6 DEF Threads
<1>9. t \in Threads /\ t.rq = n /\ t.readers = r /\ t.timers = u.thr.timers
  BY <1>4, <1>7, <1>8 DEF Threads, Numbers
<1>10. v = [u EXCEPT !.thr.rq = n, !.thr.readers = @ \cup {n}, !.thr.current = m]
  BY <1>1, <1>2, <1>5 DEF AttemptWorked
<1>11. v = [u EXCEPT !.thr = t]
  BY <1>4, <1>6, <1>7, <1>10 DEF Worlds, Threads
<1>12. /\ v \in Worlds /\ v.fds = u.fds /\ v.lib = u.lib /\ v.net = u.net
       /\ v.mishaps = u.mishaps /\ v.thr = t
  BY <1>4, <1>9, <1>11, ThrReplaced
<1>13. Sane(v) /\ KeepsOpen(w, v)
  BY <1>3, <1>12 DEF Sane, KeepsOpen
<1>14. /\ w.mishaps \subseteq v.mishaps
       /\ Connection(w, prev) => v.mishaps = w.mishaps
       /\ \A d \in Descriptors : d # prev => v.fds[d] = w.fds[d]
  BY <1>3, <1>12, Facts DEF Closes, Connection
<1> QED
  BY <1>1, <1>4, <1>6, <1>9, <1>12, <1>13, <1>14 DEF Resumes

-----------------------------------------------------------------------------
(* The invariant.                                                            *)

Spared(w, troubles) == w.mishaps \cap troubles = {}

\* The steps after which nothing is known, and those after which the descriptors
\* may be in disorder as well.
Calm(w)    == Spared(w, {"gaveUp", "requestFailed"})
Known(w)   == Spared(w, {"gaveUp", "requestFailed", "error"})
Careful(w) == Spared(w, {"gaveUp", "requestFailed", "error", "timedOut"})
Polite(w)  == Spared(w, {"gaveUp", "requestFailed", "error", "skipped"})

Reader(w, n) == w.thr.readers = {n} /\ w.thr.timers = 0
OneCare(w) ==
    \/ w.thr.readers = {} /\ w.thr.timers = 1
    \/ \E n \in Descriptors : Reader(w, n)

HasConn(w) == Connection(w, w.lib.clientFD)
TheConn(w) == w.net[w.fds[w.lib.clientFD]]

\* What a connection may hold on which a HELLO was sent, and one on which the
\* server refused it: nothing that could make the router believe in a session.
Refused(k) == k.session = "over" /\ k.down \in {<<>>, <<"goodbye">>}
Greeting(k) ==
    \/ k.session = "none" /\ k.down = <<>>
    \/ k.session = "greeted" /\ k.down = <<"response">>
    \/ /\ k.session = "over"
       /\ k.down \in {<<>>, <<"goodbye">>, <<"response">>, <<"response", "goodbye">>,
                      <<"error", "goodbye">>}

\* Who takes care of the connection: between the steps of the router, in a
\* handshake, and in a read that waits.
Settled(w) ==
    /\ w.lib.external => w.lib.initialized /\ OneCare(w)
    /\ ~w.lib.external => NoCare(w) /\ w.lib.clientFD = -1
    /\ ~w.lib.initialized => ~w.lib.established
    /\ ~w.lib.established /\ HasConn(w) => Refused(TheConn(w))
Shaking(w, m) ==
    /\ w.lib.initialized /\ ~w.lib.established
    /\ w.lib.stop => w.lib.clientFD = -1
    /\ HasConn(w) => Greeting(TheConn(w))
    /\ m.at = "connect" /\ w.lib.external =>
          OneCare(w) /\ (HasConn(w) => Refused(TheConn(w)))
    /\ m.at = "connect" /\ ~w.lib.external => NoCare(w)
    /\ m.at = "reconnect" => w.lib.external /\ NoCare(w)
Reading(w, m) ==
    /\ w.lib.external /\ w.lib.initialized /\ Reader(w, m.prev)
    /\ ~w.lib.established /\ HasConn(w) => Refused(TheConn(w))

CareInv(w, m) == Calm(w) =>
    /\ m.at = "idle" => Settled(w)
    /\ m.at \in {"connect", "reconnect"} => Shaking(w, m)
    /\ m.at = "read" => Reading(w, m)

\* Which descriptors are connections.
SettledAt(w) ==
    /\ ~w.lib.established => w.lib.clientFD = -1
    /\ \A n \in w.thr.readers : Connection(w, n)
    /\ w.lib.clientFD # -1 => w.lib.clientFD \in w.thr.readers
    /\ w.thr.timers # 0 => Connection(w, w.thr.rq)
ShakingAt(w, m) ==
    /\ w.lib.clientFD # -1 => HasConn(w)
    /\ m.at = "connect" => ~w.lib.external
    /\ m.at = "reconnect" => /\ m.prev = w.thr.rq /\ Connection(w, w.thr.rq)
                             /\ w.lib.clientFD # w.thr.rq

PlaceInv(w, m) == Known(w) =>
    /\ m.at = "idle" => SettledAt(w)
    /\ m.at \in {"connect", "reconnect"} => ShakingAt(w, m)
    /\ m.at # "read"

\* The descriptor the library remembers is not one of others.
HarmInv(w, m) == Careful(w) =>
    /\ w.mishaps \cap Harms = {}
    /\ w.lib.oldFD # -1 => Connection(w, w.lib.oldFD)
    /\ m.at = "reconnect" => w.lib.oldFD # w.thr.rq

GreetInv(w, m) == Polite(w) =>
    (m.at = "idle" /\ HasConn(w) => TheConn(w).session # "none")

Holds(w, m) ==
    /\ Sane(w) /\ m \in Mode
    /\ CareInv(w, m) /\ PlaceInv(w, m) /\ HarmInv(w, m) /\ GreetInv(w, m)

\* After the router gave up, or a request failed, the types are all that is left.
LEMMA NothingKnown ==
    ASSUME NEW w, NEW m \in Mode, Sane(w), ~Calm(w)
    PROVE  Holds(w, m)
BY DEF Holds, CareInv, PlaceInv, HarmInv, GreetInv, Calm, Known, Careful, Polite, Spared

\* The fewer troubles, the more is known.
LEMMA Levels ==
    ASSUME NEW w
    PROVE  /\ Known(w) => Calm(w)
           /\ Careful(w) => Known(w)
           /\ Polite(w) => Known(w)
           /\ \A v : v.mishaps = w.mishaps =>
                 /\ Calm(v) <=> Calm(w)
                 /\ Known(v) <=> Known(w)
                 /\ Careful(v) <=> Careful(w)
                 /\ Polite(v) <=> Polite(w)
           /\ \A v : w.mishaps \subseteq v.mishaps =>
                 /\ Calm(v) => Calm(w)
                 /\ Known(v) => Known(w)
                 /\ Careful(v) => Careful(w)
                 /\ Polite(v) => Polite(w)
BY DEF Calm, Known, Careful, Polite, Spared

\* The least number of a set.
LEMMA MinIsMember ==
    ASSUME NEW S, S \subseteq Nat, S # {}
    PROVE  Min(S) \in S /\ \A j \in S : Min(S) <= j
<1>1. PICK k \in S : \A j \in S : ~(<<j, k>> \in OpToRel(<, Nat))
  BY NatLessThanWellFounded, WFMin
<1>2. \A j \in S : ~(j < k)
  BY <1>1, Zenon DEF OpToRel
<1>3. \A j \in S : k <= j
  BY <1>2
<1> QED
  BY <1>3 DEF Min

Idler == [at |-> "idle", prev |-> 0]

LEMMA IdlerIsMode == Idler \in Mode /\ Idler.at = "idle"
BY DEF Idler, Mode

-----------------------------------------------------------------------------
(* How an attempt ends.                                                      *)

\* What holds when an attempt by the timer fails, and when one by hand does.
Failing(w) ==
    /\ Calm(w) => /\ w.lib.external /\ w.lib.initialized /\ NoCare(w)
                  /\ ~w.lib.established /\ HasConn(w) => Refused(TheConn(w))
    /\ Known(w) => Connection(w, w.thr.rq) /\ w.lib.clientFD = -1
    /\ Careful(w) => /\ w.mishaps \cap Harms = {}
                     /\ w.lib.oldFD # -1 => Connection(w, w.lib.oldFD)
FailingByHand(w) ==
    /\ Calm(w) => /\ w.lib.initialized /\ ~w.lib.established
                  /\ w.lib.stop => w.lib.clientFD = -1
                  /\ w.lib.external => OneCare(w)
                  /\ ~w.lib.external => NoCare(w)
    /\ Known(w) => /\ w.lib.clientFD = -1
                   /\ \A n \in w.thr.readers : Connection(w, n)
                   /\ w.thr.timers # 0 => Connection(w, w.thr.rq)
    /\ Careful(w) => /\ w.mishaps \cap Harms = {}
                     /\ w.lib.oldFD # -1 => Connection(w, w.lib.oldFD)

\* After a failed attempt of the timer the timer takes care, or the router gave up.
LEMMA RetriesKeep ==
    ASSUME NEW w, Sane(w), Failing(w), NEW prev, NEW v \in AttemptFailed(w, prev)
    PROVE  Holds(v, Idler)
<1>1. CASE Retries(w, v)
  <2>1. Sane(v)
    BY <1>1 DEF Retries
  <2>2. /\ v.mishaps = w.mishaps /\ v.lib = w.lib /\ v.thr.rq = w.thr.rq
        /\ NoCare(w) => v.thr.readers = {} /\ v.thr.timers = 1
        /\ HasConn(v) <=> HasConn(w) /\ TheConn(v) = TheConn(w)
        /\ \A n : Connection(v, n) <=> Connection(w, n)
    BY <1>1 DEF Retries, NoCare, HasConn, TheConn, Connection
  <2>3. /\ Calm(v) <=> Calm(w)
        /\ Known(v) <=> Known(w)
        /\ Careful(v) <=> Careful(w)
        /\ Polite(v) <=> Polite(w)
        /\ Known(v) => Calm(v)
        /\ Polite(v) => Known(v)
    BY <2>2, Levels
  <2>4. CareInv(v, Idler)
    BY <2>2, <2>3, IdlerIsMode DEF CareInv, Settled, OneCare, Failing
  <2>5. PlaceInv(v, Idler)
    BY <2>2, <2>3, IdlerIsMode DEF PlaceInv, SettledAt, Failing
  <2>6. HarmInv(v, Idler)
    BY <2>2, <2>3, IdlerIsMode DEF HarmInv, Failing
  <2>7. -1 \notin Descriptors
    BY Facts
  <2>8. GreetInv(v, Idler)
    BY <2>2, <2>3, <2>7, IdlerIsMode DEF GreetInv, Failing, HasConn, Connection
  <2> QED
    BY <2>1, <2>4, <2>5, <2>6, <2>8, IdlerIsMode DEF Holds
<1>2. CASE Follows(w, v) /\ "gaveUp" \in v.mishaps
  BY <1>2, NothingKnown, IdlerIsMode DEF Follows, Calm, Spared
<1> QED
  BY <1>1, <1>2, AttemptFailedEffect

\* A proxy that was stopped is left alone; another is released.
LEMMA ByHandKeeps ==
    ASSUME NEW w, Sane(w), FailingByHand(w),
           NEW v, v = IF w.lib.stop THEN w ELSE Release(w)
    PROVE  Holds(v, Idler)
<1>0. w \in Worlds
  BY DEF Sane
<1>1. CASE w.lib.stop
  <2>1. v = w
    BY <1>1
  <2>2. CareInv(v, Idler)
    <3>1. Calm(w) => w.lib.clientFD = -1
      BY <1>1 DEF FailingByHand
    <3>2. w.lib.clientFD = -1 => ~HasConn(w)
      BY Facts DEF HasConn, Connection
    <3> QED
      BY <2>1, <3>1, <3>2, IdlerIsMode DEF CareInv, Settled, FailingByHand
  <2>3. PlaceInv(v, Idler)
    BY <2>1, IdlerIsMode DEF PlaceInv, SettledAt, FailingByHand
  <2>4. HarmInv(v, Idler)
    BY <2>1, IdlerIsMode DEF HarmInv, FailingByHand
  <2>5. GreetInv(v, Idler)
    <3>1. Polite(w) => w.lib.clientFD = -1
      BY Levels DEF FailingByHand
    <3> QED
      BY <2>1, <3>1, IdlerIsMode, Facts DEF GreetInv, HasConn, Connection
  <2> QED
    BY <2>1, <2>2, <2>3, <2>4, <2>5, IdlerIsMode DEF Holds
<1>2. CASE ~w.lib.stop
  <2>1. Releases(w, v)
    BY <1>2, ReleaseEffect
  <2>2. Sane(v) /\ v.lib.clientFD = -1 /\ ~HasConn(v)
    BY <2>1, Facts DEF Releases, HasConn, Connection
  <2>3. /\ Calm(v) => Calm(w)
        /\ Known(v) => Known(w)
        /\ Careful(v) => Careful(w)
        /\ Known(w) => Calm(w)
        /\ Careful(w) => Known(w)
    BY <2>1, Levels DEF Releases
  <2>4. /\ v.lib.initialized = w.lib.initialized /\ v.lib.external = w.lib.external
        /\ NoCare(w) => NoCare(v)
        /\ OneCare(w) => OneCare(v)
    BY <2>1 DEF Releases, NoCare, OneCare, Reader
  <2>5. CareInv(v, Idler)
    BY <2>2, <2>3, <2>4, IdlerIsMode DEF CareInv, Settled, FailingByHand
  <2>6. ASSUME Known(w), w.lib.external
        PROVE  \A n : Connection(v, n) <=> Connection(w, n)
    BY <2>1, <2>3, <2>6 DEF Releases, Connection, FailingByHand
  <2>7. PlaceInv(v, Idler)
    <3>1. ASSUME Known(v)
          PROVE  SettledAt(v)
      <4>1. CASE w.lib.external
        BY <2>1, <2>2, <2>3, <2>6, <3>1, <4>1 DEF SettledAt, FailingByHand, Releases
      <4>2. CASE ~w.lib.external
        BY <2>1, <2>2, <2>3, <2>4, <3>1, <4>2 DEF SettledAt, FailingByHand, NoCare
      <4> QED
        BY <4>1, <4>2
    <3> QED
      BY <3>1, IdlerIsMode DEF PlaceInv
  <2>8. HarmInv(v, Idler)
    <3>1. ASSUME Careful(v)
          PROVE  /\ v.mishaps \cap Harms = {}
                 /\ v.lib.oldFD # -1 => Connection(v, v.lib.oldFD)
      <4>1. /\ Known(w) /\ Careful(w) /\ ~w.lib.established /\ w.lib.clientFD = -1
            /\ w.mishaps \cap Harms = {}
            /\ w.lib.oldFD # -1 => Connection(w, w.lib.oldFD)
        BY <2>3, <3>1 DEF FailingByHand
      <4>2. Held(w) = -1 \/ Connection(w, Held(w))
        BY <1>0, <4>1, HeldIs
      <4>3. v.mishaps = w.mishaps
        BY <2>1, <4>1, <4>2 DEF Releases
      <4>4. v.lib.oldFD # -1 => w.lib.external /\ v.lib.oldFD = w.lib.oldFD
        BY <2>1 DEF Releases
      <4> QED
        BY <2>6, <4>1, <4>3, <4>4
    <3> QED
      BY <3>1, IdlerIsMode DEF HarmInv
  <2>9. GreetInv(v, Idler)
    BY <2>2 DEF GreetInv
  <2> QED
    BY <2>2, <2>5, <2>7, <2>8, <2>9, IdlerIsMode DEF Holds
<1> QED
  BY <1>1, <1>2

\* A failed attempt, of either kind.
LEMMA NotConnectedKeeps ==
    ASSUME NEW w, Sane(w), NEW m, m.at = "reconnect" => Failing(w),
           m.at # "reconnect" => FailingByHand(w), NEW o \in NotConnected(w, m)
    PROVE  Holds(o[1], o[2])
<1>1. CASE m.at = "reconnect"
  <2>1. PICK v \in AttemptFailed(w, m.prev) : o = <<v, Idler>>
    BY <1>1 DEF NotConnected, IdleAll, Idler
  <2> QED
    BY <1>1, <2>1, RetriesKeep
<1>2. CASE m.at # "reconnect"
  <2>1. PICK v : v = IF w.lib.stop THEN w ELSE Release(w)
    OBVIOUS
  <2>2. o = <<v, Idler>>
    BY <1>2, <2>1 DEF NotConnected, Idle, Idler
  <2> QED
    BY <1>2, <2>1, <2>2, ByHandKeeps
<1> QED
  BY <1>1, <1>2

\* What holds when an attempt succeeds.
Succeeding(w, m) ==
    /\ w.lib.clientFD \in Descriptors
    /\ Calm(w) => w.lib.initialized /\ w.lib.established /\ NoCare(w)
    /\ Calm(w) /\ m.at = "reconnect" => w.lib.external
    /\ Known(w) => HasConn(w)
    /\ Known(w) /\ m.at = "reconnect" =>
          m.prev = w.thr.rq /\ Connection(w, w.thr.rq) /\ w.lib.clientFD # w.thr.rq
    /\ Careful(w) => /\ w.mishaps \cap Harms = {}
                     /\ w.lib.oldFD # -1 => Connection(w, w.lib.oldFD)
                     /\ m.at = "reconnect" => w.lib.oldFD # w.thr.rq
    /\ Polite(w) => TheConn(w).session # "none"

\* The world after a success, whichever way it was reached.
LEMMA OneReader ==
    ASSUME NEW v, Sane(v),
           Calm(v) => /\ v.lib.initialized /\ v.lib.established /\ v.lib.external
                      /\ Reader(v, v.lib.clientFD) /\ v.lib.clientFD \in Descriptors,
           Known(v) => HasConn(v),
           Careful(v) => /\ v.mishaps \cap Harms = {}
                         /\ v.lib.oldFD # -1 => Connection(v, v.lib.oldFD),
           Polite(v) => TheConn(v).session # "none"
    PROVE  Holds(v, Idler)
<1>1. CareInv(v, Idler)
  BY IdlerIsMode DEF CareInv, Settled, OneCare
<1>2. PlaceInv(v, Idler)
  <2>1. ASSUME Known(v)
        PROVE  SettledAt(v)
    <3>1. /\ v.lib.established /\ v.thr.readers = {v.lib.clientFD} /\ v.thr.timers = 0
          /\ Connection(v, v.lib.clientFD)
      BY <2>1, Levels DEF Reader, HasConn
    <3> QED
      BY <3>1 DEF SettledAt
  <2> QED
    BY <2>1, IdlerIsMode DEF PlaceInv
<1>3. HarmInv(v, Idler)
  BY IdlerIsMode DEF HarmInv
<1>4. GreetInv(v, Idler)
  BY DEF GreetInv
<1> QED
  BY <1>1, <1>2, <1>3, <1>4, IdlerIsMode DEF Holds

\* A successful attempt leaves one thread, which reads.
LEMMA ConnectedKeeps ==
    ASSUME NEW w, Sane(w), NEW m, Succeeding(w, m), NEW o \in Connected(w, m)
    PROVE  Holds(o[1], o[2])
<1>0. w \in Worlds /\ w.lib \in Library /\ w.thr \in Threads
  BY WorldFields DEF Sane
<1>1. CASE m.at = "reconnect"
  <2>1. PICK v : v = AttemptWorked(w, m.prev)
    OBVIOUS
  <2>2. o = <<v, Idler>>
    BY <1>1, <2>1 DEF Connected, Idle, Idler
  <2>3. Resumes(w, m.prev, v)
    BY <2>1, AttemptWorkedEffect DEF Succeeding
  <2>4. Sane(v) /\ v.lib = w.lib /\ w.mishaps \subseteq v.mishaps
    BY <2>3 DEF Resumes
  <2>5. /\ Calm(v) => Calm(w)
        /\ Known(v) => Known(w)
        /\ Careful(v) => Careful(w)
        /\ Polite(v) => Polite(w)
        /\ Careful(w) => Known(w)
        /\ Polite(w) => Known(w)
    BY <2>4, Levels
  <2>6. Calm(v) => /\ v.lib.initialized /\ v.lib.established /\ v.lib.external
                   /\ Reader(v, v.lib.clientFD) /\ v.lib.clientFD \in Descriptors
    BY <1>1, <2>3, <2>4, <2>5 DEF Succeeding, Resumes, NoCare, Reader
  <2>7. ASSUME Known(w)
        PROVE  /\ HasConn(v) /\ TheConn(v) = TheConn(w)
               /\ v.mishaps = w.mishaps
               /\ \A d \in Descriptors : d # w.thr.rq => v.fds[d] = w.fds[d]
    <3>1. /\ m.prev = w.thr.rq /\ Connection(w, w.thr.rq) /\ w.lib.clientFD # w.thr.rq
          /\ HasConn(w)
      BY <1>1, <2>7 DEF Succeeding
    <3>2. /\ v.mishaps = w.mishaps
          /\ \A d \in Descriptors : d # w.thr.rq => v.fds[d] = w.fds[d]
          /\ KeepsOpen(w, v)
      BY <2>3, <3>1 DEF Resumes
    <3>3. v.fds[w.lib.clientFD] = w.fds[w.lib.clientFD]
      BY <3>1, <3>2 DEF HasConn, Connection
    <3> QED
      BY <2>4, <3>1, <3>2, <3>3 DEF HasConn, Connection, TheConn, KeepsOpen
  <2>8. ASSUME Careful(v)
        PROVE  /\ v.mishaps \cap Harms = {}
               /\ v.lib.oldFD # -1 => Connection(v, v.lib.oldFD)
    <3>1. /\ w.mishaps \cap Harms = {}
          /\ w.lib.oldFD # -1 => Connection(w, w.lib.oldFD)
          /\ w.lib.oldFD # w.thr.rq /\ Known(w)
      BY <1>1, <2>5, <2>8 DEF Succeeding
    <3> QED
      BY <2>4, <2>7, <3>1 DEF Connection
  <2>9. Polite(v) => TheConn(v).session # "none"
    BY <2>5, <2>7 DEF Succeeding
  <2> QED
    BY <2>2, <2>4, <2>5, <2>6, <2>7, <2>8, <2>9, OneReader
<1>2. CASE m.at # "reconnect"
  <2>1. PICK v : v = [w EXCEPT !.lib.external = TRUE, !.thr.readers = @ \cup {w.lib.clientFD}]
    OBVIOUS
  <2>2. o = <<v, Idler>>
    BY <1>2, <2>1 DEF Connected, Idle, Idler
  <2>3. PICK l : l = [w.lib EXCEPT !.external = TRUE]
    OBVIOUS
  <2>4. /\ l \in Library /\ l.initialized = w.lib.initialized /\ l.external = TRUE
        /\ l.established = w.lib.established /\ l.clientFD = w.lib.clientFD
        /\ l.oldFD = w.lib.oldFD
    BY <1>0, <2>3 DEF Library
  <2>5. PICK r : r = w.thr.readers \cup {w.lib.clientFD}
    OBVIOUS
  <2>6. r \subseteq Descriptors
    BY <1>0, <2>5 DEF Threads, Succeeding
  <2>7. PICK t : t = [w.thr EXCEPT !.readers = r]
    OBVIOUS
  <2>8. t \in Threads /\ t.readers = r /\ t.timers = w.thr.timers /\ t.rq = w.thr.rq
    BY <1>0, <2>6, <2>7 DEF Threads
  <2>9. PICK u : u = [w EXCEPT !.lib = l]
    OBVIOUS
  <2>10. /\ u \in Worlds /\ u.fds = w.fds /\ u.thr = w.thr /\ u.net = w.net
         /\ u.mishaps = w.mishaps /\ u.lib = l
    BY <1>0, <2>4, <2>9, LibReplaced
  <2>11. v = [u EXCEPT !.thr = t]
    BY <1>0, <2>1, <2>3, <2>5, <2>7, <2>9 DEF Worlds
  <2>12. /\ v \in Worlds /\ v.fds = w.fds /\ v.thr = t /\ v.net = w.net
         /\ v.mishaps = w.mishaps /\ v.lib = l
    BY <2>8, <2>10, <2>11, ThrReplaced
  <2>13. Sane(v)
    BY <2>12 DEF Sane
  <2>14. /\ HasConn(v) <=> HasConn(w)
         /\ TheConn(v) = TheConn(w)
         /\ \A n : Connection(v, n) <=> Connection(w, n)
         /\ NoCare(w) => Reader(v, v.lib.clientFD)
    BY <2>4, <2>5, <2>8, <2>12 DEF HasConn, TheConn, Connection, NoCare, Reader
  <2>15. /\ Calm(v) <=> Calm(w)
         /\ Known(v) <=> Known(w)
         /\ Careful(v) <=> Careful(w)
         /\ Polite(v) <=> Polite(w)
    BY <2>12, Levels
  <2> QED
    BY <2>2, <2>4, <2>12, <2>13, <2>14, <2>15, OneReader DEF Succeeding
<1> QED
  BY <1>1, <1>2

-----------------------------------------------------------------------------
(* How an attempt begins.                                                    *)

\* A descriptor and a connection that were not used; nothing else changes.
Opens(w, v) ==
    /\ Sane(v) /\ v.thr = w.thr /\ v.mishaps = w.mishaps
    /\ v.lib.initialized = w.lib.initialized /\ v.lib.stop = w.lib.stop
    /\ v.lib.established = w.lib.established /\ v.lib.external = w.lib.external
    /\ v.lib.oldFD = v.lib.clientFD
    /\ HasConn(v) /\ TheConn(v) = NewConn
    /\ w.fds[v.lib.clientFD] = Free
    /\ \A d \in Descriptors : d # v.lib.clientFD => v.fds[d] = w.fds[d]

LEMMA OpenEffect ==
    ASSUME NEW w, Sane(w), FreeNumbers(w) # {}, Unused(w) # {}, NEW v, v = Open(w)
    PROVE  Opens(w, v)
<1>0. w \in Worlds /\ w.lib \in Library
  BY WorldFields DEF Sane
<1>1. PICK n : n = Min(FreeNumbers(w))
  OBVIOUS
<1>2. PICK c : c = Min(Unused(w))
  OBVIOUS
<1>3. n \in Descriptors /\ w.fds[n] = Free
  <2>1. FreeNumbers(w) \subseteq Descriptors /\ FreeNumbers(w) \subseteq Nat
    BY Facts DEF FreeNumbers
  <2>2. n \in FreeNumbers(w)
    BY <1>1, <2>1, MinIsMember
  <2> QED
    BY <2>2 DEF FreeNumbers
<1>4. c \in Conns /\ \A d \in Descriptors : w.fds[d] # c
  <2>1. Unused(w) \subseteq Conns /\ Unused(w) \subseteq Nat
    BY Facts DEF Unused
  <2>2. c \in Unused(w)
    BY <1>2, <2>1, MinIsMember
  <2> QED
    BY <2>2 DEF Unused
<1>5. NewConn \in Conn /\ NewConn.state = "open" /\ NewConn.session = "none"
  BY EmptyIsSeq DEF NewConn, Conn
<1>6. PICK l : l = [w.lib EXCEPT !.clientFD = n, !.oldFD = n]
  OBVIOUS
<1>7. /\ l \in Library /\ l.initialized = w.lib.initialized /\ l.stop = w.lib.stop
      /\ l.established = w.lib.established /\ l.external = w.lib.external
      /\ l.clientFD = n /\ l.oldFD = n
  BY <1>0, <1>3, <1>6 DEF Library, Numbers
<1>8. v = [w EXCEPT !.fds[n] = c, !.net[c] = NewConn, !.lib.clientFD = n, !.lib.oldFD = n]
  BY <1>1, <1>2 DEF Open
<1>9. /\ v.fds = [w.fds EXCEPT ![n] = c] /\ v.net = [w.net EXCEPT ![c] = NewConn]
      /\ v.lib = l /\ v.thr = w.thr /\ v.mishaps = w.mishaps
  BY <1>0, <1>6, <1>8 DEF Worlds
<1>10. Shaped(v)
  BY <1>0, <1>8 DEF Worlds, Shaped
<1>11. /\ v.fds \in [Descriptors -> Conns \cup {Free, Other}]
       /\ v.net \in [Conns -> Conn]
       /\ v.fds[n] = c /\ v.net[c] = NewConn
       /\ \A d \in Descriptors : d # n => v.fds[d] = w.fds[d]
       /\ \A d \in Conns : d # c => v.net[d] = w.net[d]
  BY <1>0, <1>3, <1>4, <1>5, <1>9, WorldFields
<1>12. v \in Worlds
  BY <1>0, <1>7, <1>9, <1>10, <1>11, ShapedIsWorld, WorldFields
<1>13. Linked(v.fds, v.net)
  <2>1. \A d, e \in Descriptors : v.fds[d] \in Conns /\ v.fds[e] = v.fds[d] => e = d
    BY <1>4, <1>11 DEF Sane, Linked
  <2>2. \A d \in Descriptors : v.fds[d] \in Conns => v.net[v.fds[d]].state # "left"
    BY <1>4, <1>5, <1>11 DEF Sane, Linked
  <2>3. \A d \in Conns : v.net[d].session = "over" => v.net[d].state # "open"
    BY <1>5, <1>11 DEF Sane, Linked
  <2> QED
    BY <2>1, <2>2, <2>3 DEF Linked
<1>14. HasConn(v) /\ TheConn(v) = NewConn
  BY <1>3, <1>4, <1>7, <1>9, <1>11 DEF HasConn, TheConn, Connection
<1> QED
  BY <1>3, <1>7, <1>9, <1>11, <1>12, <1>13, <1>14 DEF Opens, Sane

\* What holds when an attempt starts.
Starting(w, m) ==
    /\ m \in Mode /\ m.at \in {"connect", "reconnect"}
    /\ Calm(w) => /\ w.lib.initialized /\ NoCare(w) /\ w.lib.clientFD = -1
                  /\ m.at = "reconnect" => w.lib.external /\ ~w.lib.stop
                  /\ m.at = "connect" => ~w.lib.external /\ ~w.lib.established /\ ~w.lib.stop
    /\ Known(w) /\ m.at = "reconnect" => m.prev = w.thr.rq /\ Connection(w, w.thr.rq)
    /\ Careful(w) => /\ w.mishaps \cap Harms = {}
                     /\ w.lib.oldFD # -1 => Connection(w, w.lib.oldFD)

\* The handshake on a new connection: the HELLO is sent.
LEMMA OpenedKeeps ==
    ASSUME NEW w, NEW m, Sane(w), Starting(w, m), NEW p, Opens(w, p), NEW o \in Handshake(p, m)
    PROVE  Holds(o[1], o[2])
<1>0. p \in Worlds /\ p.lib \in Library /\ w \in Worlds
  BY WorldFields DEF Opens, Sane
<1>1. PICK s : s = Send(p, "hello")
  OBVIOUS
<1>2. Sends(p, s)
  BY <1>1, SendEffect DEF Opens
<1>3. p.lib.clientFD \in Descriptors /\ p.fds[p.lib.clientFD] \in Conns
  BY DEF Opens, HasConn, Connection
<1>4. Accepts(p, p.lib.clientFD) /\ p.fds[p.lib.clientFD] # Other
  <2>1. p.net[p.fds[p.lib.clientFD]] = NewConn
    BY DEF Opens, TheConn
  <2>2. p.net[p.fds[p.lib.clientFD]].state # "reset"
    BY <2>1 DEF NewConn
  <2>3. p.fds[p.lib.clientFD] # Other /\ p.fds[p.lib.clientFD] # Free
    BY <1>3, Facts
  <2> QED
    BY <1>3, <2>2, <2>3 DEF Accepts, Usable
<1>5. /\ s.mishaps = w.mishaps /\ s.fds = p.fds /\ s.thr = w.thr /\ ~s.lib.sendError
      /\ s.lib.initialized = w.lib.initialized /\ s.lib.stop = w.lib.stop
      /\ s.lib.established = w.lib.established /\ s.lib.external = w.lib.external
      /\ s.lib.clientFD = p.lib.clientFD /\ s.lib.oldFD = p.lib.clientFD
      /\ Sane(s)
  BY <1>2, <1>4 DEF Sends, Opens
<1>6. HasConn(s) /\ TheConn(s).down = <<>> /\ TheConn(s).session = "none"
  <2>1. TheConn(p) = NewConn
    BY DEF Opens
  <2>2. /\ s.net[p.fds[p.lib.clientFD]].down = p.net[p.fds[p.lib.clientFD]].down
        /\ s.net[p.fds[p.lib.clientFD]].session = p.net[p.fds[p.lib.clientFD]].session
    BY <1>2, <1>3 DEF Sends, Undisturbed
  <2> QED
    BY <1>3, <1>5, <2>1, <2>2 DEF HasConn, TheConn, Connection, NewConn
<1>7. /\ Calm(s) <=> Calm(w)
      /\ Known(s) <=> Known(w)
      /\ Careful(s) <=> Careful(w)
      /\ Polite(s) <=> Polite(w)
      /\ Known(w) => Calm(w)
      /\ Careful(w) => Known(w)
      /\ Polite(w) => Known(w)
  BY <1>5, Levels
<1>8. Known(w) /\ m.at = "reconnect" =>
          /\ m.prev = s.thr.rq /\ Connection(s, s.thr.rq) /\ s.lib.clientFD # s.thr.rq
  <2>1. w.fds[p.lib.clientFD] = Free /\ Free \notin Conns
        /\ \A d \in Descriptors : d # p.lib.clientFD => p.fds[d] = w.fds[d]
    BY Facts DEF Opens
  <2> QED
    BY <1>5, <2>1 DEF Starting, Connection
<1>9. CASE s.lib.established
  <2>1. PICK n : n = Note(s, "skipped")
    OBVIOUS
  <2>2. Notes(s, "skipped", n)
    BY <1>5, <2>1, NoteEffect DEF Troubles
  <2>3. /\ Sane(n) /\ n.lib = s.lib /\ n.fds = s.fds /\ n.thr = s.thr /\ n.net = s.net
        /\ n.mishaps = s.mishaps \cup {"skipped"}
    BY <2>2 DEF Notes
  <2>4. /\ Calm(n) => Calm(w)
        /\ Known(n) => Known(w)
        /\ Careful(n) => Careful(w)
        /\ ~Polite(n)
    BY <1>7, <2>3 DEF Calm, Known, Careful, Polite, Spared
  <2>5. o \in Connected(n, m)
    <3>1. o \in UNION {IF t.lib.sendError THEN NotConnected(t, m)
                       ELSE IF t.lib.established THEN Connected(Note(t, "skipped"), m)
                       ELSE {<<t, m>>} : t \in {s}}
      BY <1>1 DEF Handshake
    <3>2. o \in IF s.lib.sendError THEN NotConnected(s, m)
                ELSE IF s.lib.established THEN Connected(Note(s, "skipped"), m)
                ELSE {<<s, m>>}
      BY <3>1, Zenon
    <3> QED
      BY <1>5, <1>9, <2>1, <3>2
  <2>6. Succeeding(n, m)
    <3>1. n.lib.clientFD \in Descriptors
      BY <1>3, <1>5, <2>3
    <3>2. Calm(n) => n.lib.initialized /\ n.lib.established /\ NoCare(n)
      BY <1>5, <1>9, <2>3, <2>4 DEF Starting, NoCare
    <3>3. Calm(n) /\ m.at = "reconnect" => n.lib.external
      BY <1>5, <2>3, <2>4 DEF Starting
    <3>4. Known(n) => HasConn(n)
      BY <1>6, <2>3 DEF HasConn, Connection
    <3>5. Known(n) /\ m.at = "reconnect" =>
             m.prev = n.thr.rq /\ Connection(n, n.thr.rq) /\ n.lib.clientFD # n.thr.rq
      BY <1>8, <2>3, <2>4 DEF Connection
    <3>6. Careful(n) => /\ n.mishaps \cap Harms = {}
                        /\ n.lib.oldFD # -1 => Connection(n, n.lib.oldFD)
                        /\ m.at = "reconnect" => n.lib.oldFD # n.thr.rq
      <4>1. n.lib.oldFD = n.lib.clientFD /\ (Careful(n) => Known(n))
        BY <1>5, <2>3, Levels
      <4>2. Careful(n) => w.mishaps \cap Harms = {}
        BY <2>4 DEF Starting
      <4>3. Careful(n) => n.mishaps \cap Harms = {}
        BY <1>5, <2>3, <4>2 DEF Harms
      <4> QED
        BY <3>4, <3>5, <4>1, <4>3 DEF HasConn
    <3> QED
      BY <2>4, <3>1, <3>2, <3>3, <3>4, <3>5, <3>6 DEF Succeeding
  <2> QED
    BY <2>3, <2>5, <2>6, ConnectedKeeps
<1>10. CASE ~s.lib.established
  <2>1. o = <<s, m>>
    <3>1. o \in UNION {IF t.lib.sendError THEN NotConnected(t, m)
                       ELSE IF t.lib.established THEN Connected(Note(t, "skipped"), m)
                       ELSE {<<t, m>>} : t \in {s}}
      BY <1>1 DEF Handshake
    <3>2. o \in IF s.lib.sendError THEN NotConnected(s, m)
                ELSE IF s.lib.established THEN Connected(Note(s, "skipped"), m)
                ELSE {<<s, m>>}
      BY <3>1, Zenon
    <3> QED
      BY <1>5, <1>10, <3>2
  <2>2. m.at # "idle" /\ m.at # "read"
    BY DEF Starting
  <2>3. CareInv(s, m)
    <3>1. ASSUME Calm(w)
          PROVE  Shaking(s, m)
      BY <1>5, <1>6, <1>10, <3>1 DEF Shaking, Starting, Greeting, NoCare
    <3> QED
      BY <1>7, <2>2, <3>1 DEF CareInv
  <2>4. PlaceInv(s, m)
    <3>1. ASSUME Known(w)
          PROVE  ShakingAt(s, m)
      BY <1>5, <1>6, <1>7, <1>8, <3>1 DEF ShakingAt, Starting
    <3> QED
      BY <1>7, <2>2, <3>1 DEF PlaceInv
  <2>5. HarmInv(s, m)
    BY <1>5, <1>6, <1>7, <1>8 DEF HarmInv, Starting, HasConn
  <2>6. GreetInv(s, m)
    BY <2>2 DEF GreetInv
  <2> QED
    BY <1>5, <2>1, <2>3, <2>4, <2>5, <2>6 DEF Holds, Starting
<1> QED
  BY <1>9, <1>10

\* An attempt, from its start to its first wait.
LEMMA AttemptKeeps ==
    ASSUME NEW w, NEW m, Sane(w), Starting(w, m),
           m.at = "reconnect" => Failing(w), m.at # "reconnect" => FailingByHand(w),
           NEW o \in Attempt(w, m)
    PROVE  Holds(o[1], o[2])
<1>1. CASE ~listening \/ FreeNumbers(w) = {}
  BY <1>1, NotConnectedKeeps DEF Attempt
<1>2. CASE listening /\ FreeNumbers(w) # {}
  <2>1. Unused(w) # {} /\ o \in UNION {Handshake(p, m) : p \in {Open(w)}}
    BY <1>2 DEF Attempt
  <2>2. PICK p : p = Open(w)
    OBVIOUS
  <2>3. o \in Handshake(p, m)
    BY <2>1, <2>2, Zenon
  <2> QED
    BY <1>2, <2>1, <2>2, <2>3, OpenEffect, OpenedKeeps
<1> QED
  BY <1>1, <1>2

-----------------------------------------------------------------------------
(* The router's actions.                                                     *)

\* A world that differs in nothing the invariant speaks of.
Alike(w, v) ==
    /\ Sane(v) /\ v.fds = w.fds
    /\ v.thr.rq = w.thr.rq /\ v.thr.readers = w.thr.readers /\ v.thr.timers = w.thr.timers
    /\ v.lib.initialized = w.lib.initialized /\ v.lib.stop = w.lib.stop
    /\ v.lib.established = w.lib.established /\ v.lib.external = w.lib.external
    /\ v.lib.clientFD = w.lib.clientFD /\ v.lib.oldFD = w.lib.oldFD
    /\ \A c \in Conns : /\ v.net[c].down = w.net[c].down
                        /\ v.net[c].session = w.net[c].session
    /\ v.mishaps \in {w.mishaps, w.mishaps \cup {"written"}}
    /\ Careful(w) => v.mishaps = w.mishaps

LEMMA AlikeHolds ==
    ASSUME NEW w, NEW m, Holds(w, m), NEW v, Alike(w, v)
    PROVE  Holds(v, m)
<1>1. /\ Calm(v) => Calm(w)
      /\ Known(v) => Known(w)
      /\ Careful(v) => Careful(w)
      /\ Polite(v) => Polite(w)
  BY Levels DEF Alike
<1>2. /\ HasConn(v) <=> HasConn(w)
      /\ \A n : Connection(v, n) <=> Connection(w, n)
      /\ NoCare(v) <=> NoCare(w)
      /\ OneCare(v) <=> OneCare(w)
      /\ \A n : Reader(v, n) <=> Reader(w, n)
  BY DEF Alike, HasConn, Connection, NoCare, OneCare, Reader
<1>3. HasConn(w) => /\ TheConn(v).down = TheConn(w).down
                    /\ TheConn(v).session = TheConn(w).session
  BY DEF Alike, HasConn, TheConn, Connection
<1>4. HasConn(w) => /\ Refused(TheConn(w)) => Refused(TheConn(v))
                    /\ Greeting(TheConn(w)) => Greeting(TheConn(v))
  BY <1>3 DEF Refused, Greeting
<1>5. Settled(w) => Settled(v)
  BY <1>2, <1>4 DEF Settled, Alike
<1>6. Shaking(w, m) => Shaking(v, m)
  BY <1>2, <1>4 DEF Shaking, Alike
<1>7. Reading(w, m) => Reading(v, m)
  BY <1>2, <1>4 DEF Reading, Alike
<1>8. CareInv(v, m)
  BY <1>1, <1>5, <1>6, <1>7 DEF Holds, CareInv
<1>9. SettledAt(w) => SettledAt(v)
  BY <1>2 DEF SettledAt, Alike
<1>10. ShakingAt(w, m) => ShakingAt(v, m)
  BY <1>2 DEF ShakingAt, Alike
<1>11. PlaceInv(v, m)
  BY <1>1, <1>9, <1>10 DEF Holds, PlaceInv
<1>12. HarmInv(v, m)
  BY <1>1, <1>2 DEF Holds, HarmInv, Alike
<1>13. GreetInv(v, m)
  BY <1>1, <1>2, <1>3 DEF Holds, GreetInv
<1> QED
  BY <1>8, <1>11, <1>12, <1>13 DEF Holds, Alike

LEMMA WorldIsShaped ==
    /\ World.fds = fds /\ World.lib = lib /\ World.thr = thr /\ World.net = net
    /\ World.mishaps = mishaps
BY DEF World

\* A step ends in one of the outcomes.
LEMMA ContinueKeeps ==
    ASSUME NEW S, Continue(S), \A o \in S : Holds(o[1], o[2])
    PROVE  Holds(World', mode')
<1>1. PICK o \in S : Become(o[1]) /\ mode' = o[2]
  BY DEF Continue
<1>2. o[1] \in Worlds
  BY DEF Holds, Sane
<1>3. World' = o[1]
  BY <1>1, <1>2, WorldFields DEF Become, World
<1> QED
  BY <1>1, <1>3

ClientInv == Holds(World, mode) /\ listening \in BOOLEAN /\ faults \in 0 .. MaxFaults

\* The operator's handshake on a descriptor the library still has.
LEMMA HandshakeByHand ==
    ASSUME NEW w, Holds(w, Idler), w.lib.initialized, ~w.lib.established, ~w.lib.stop,
           NEW m \in Mode, m.at = "connect", NEW o \in Handshake(w, m)
    PROVE  Holds(o[1], o[2])
<1>0. Sane(w) /\ w \in Worlds /\ Idler.at = "idle"
  BY IdlerIsMode DEF Holds, Sane
<1>1. PICK s : s = Send(w, "hello")
  OBVIOUS
<1>2. Sends(w, s)
  BY <1>0, <1>1, SendEffect
<1>3. o \in IF s.lib.sendError THEN NotConnected(s, m)
            ELSE IF s.lib.established THEN Connected(Note(s, "skipped"), m)
            ELSE {<<s, m>>}
  <2>1. o \in UNION {IF t.lib.sendError THEN NotConnected(t, m)
                     ELSE IF t.lib.established THEN Connected(Note(t, "skipped"), m)
                     ELSE {<<t, m>>} : t \in {s}}
    BY <1>1 DEF Handshake
  <2> QED
    BY <2>1, Zenon
<1>4. /\ Sane(s) /\ s.fds = w.fds /\ s.thr = w.thr
      /\ s.lib.initialized /\ ~s.lib.established /\ ~s.lib.stop
      /\ s.lib.external = w.lib.external /\ s.lib.oldFD = w.lib.oldFD
      /\ w.mishaps \subseteq s.mishaps
  BY <1>2 DEF Sends
<1>5. /\ Calm(s) => Calm(w)
      /\ Known(s) => Known(w)
      /\ Careful(s) => Careful(w)
      /\ Known(w) => Calm(w)
      /\ Careful(w) => Known(w)
  BY <1>4, Levels
<1>6. Calm(w) => Settled(w)
  BY <1>0 DEF Holds, CareInv
<1>7. Known(w) => SettledAt(w) /\ w.lib.clientFD = -1
  BY <1>0 DEF Holds, PlaceInv, SettledAt
<1>8. CASE s.lib.sendError
  <2>1. s.mishaps = w.mishaps /\ s.lib.clientFD = -1
    BY <1>2, <1>8 DEF Sends
  <2>2. FailingByHand(s)
    <3>1. Calm(s) => /\ s.lib.initialized /\ ~s.lib.established
                     /\ s.lib.stop => s.lib.clientFD = -1
                     /\ s.lib.external => OneCare(s)
                     /\ ~s.lib.external => NoCare(s)
      BY <1>4, <1>5, <1>6 DEF Settled, OneCare, NoCare, Reader
    <3>2. Known(s) => /\ s.lib.clientFD = -1
                      /\ \A n \in s.thr.readers : Connection(s, n)
                      /\ s.thr.timers # 0 => Connection(s, s.thr.rq)
      BY <1>4, <1>5, <1>7, <2>1 DEF SettledAt, Connection
    <3>3. Careful(s) => /\ s.mishaps \cap Harms = {}
                        /\ s.lib.oldFD # -1 => Connection(s, s.lib.oldFD)
      BY <1>4, <1>5, <2>1 DEF Holds, HarmInv, Connection
    <3> QED
      BY <3>1, <3>2, <3>3 DEF FailingByHand
  <2>3. o \in NotConnected(s, m)
    BY <1>3, <1>8
  <2> QED
    BY <1>4, <2>2, <2>3, NotConnectedKeeps
<1>9. CASE ~s.lib.sendError
  <2>1. o = <<s, m>> /\ Accepts(w, w.lib.clientFD) /\ s.lib.clientFD = w.lib.clientFD
    BY <1>2, <1>3, <1>4, <1>9 DEF Sends
  <2>2. w.lib.clientFD # -1
    BY <2>1, Facts DEF Accepts, Usable
  <2>3. ~Known(s)
    BY <1>5, <1>7, <2>2
  <2>4. HasConn(s) /\ Calm(s) => Refused(TheConn(s))
    <3>1. ASSUME HasConn(s), Calm(s)
          PROVE  Refused(TheConn(s))
      <4>1. HasConn(w) /\ TheConn(w) = w.net[w.fds[w.lib.clientFD]]
            /\ TheConn(s) = s.net[w.fds[w.lib.clientFD]]
        BY <1>4, <2>1, <3>1 DEF HasConn, TheConn, Connection
      <4>2. Refused(TheConn(w))
        BY <1>5, <1>6, <3>1, <4>1 DEF Settled
      <4>3. /\ TheConn(s).down = TheConn(w).down
            /\ TheConn(s).session = TheConn(w).session
        BY <1>2, <4>1 DEF Sends, Undisturbed, HasConn, Connection
      <4> QED
        BY <4>2, <4>3 DEF Refused
    <3> QED
      BY <3>1
  <2>5. Calm(s) => Shaking(s, m)
    <3>1. ASSUME Calm(s)
          PROVE  Shaking(s, m)
      <4>1. HasConn(s) => Greeting(TheConn(s))
        BY <2>4, <3>1 DEF Refused, Greeting
      <4>2. /\ s.lib.external => OneCare(s)
            /\ ~s.lib.external => NoCare(s)
        BY <1>4, <1>5, <1>6, <3>1 DEF Settled, OneCare, NoCare, Reader
      <4> QED
        BY <1>4, <2>4, <3>1, <4>1, <4>2 DEF Shaking
    <3> QED
      BY <3>1
  <2>6. CareInv(s, m)
    BY <2>5 DEF CareInv
  <2>7. PlaceInv(s, m) /\ HarmInv(s, m) /\ GreetInv(s, m)
    BY <2>3, Levels DEF PlaceInv, HarmInv, GreetInv
  <2> QED
    BY <1>4, <2>1, <2>6, <2>7 DEF Holds
<1> QED
  BY <1>8, <1>9

LEMMA AnyIdler ==
    ASSUME NEW w, NEW m, m.at = "idle", Holds(w, m)
    PROVE  Holds(w, Idler)
BY IdlerIsMode DEF Holds, CareInv, PlaceInv, HarmInv, GreetInv

\* The router is told that the session is to be: nothing else changes.
SwitchedOn(w) == [w EXCEPT !.thr.on = TRUE]

LEMMA SwitchedOnIsAlike ==
    ASSUME NEW w, Sane(w), NEW v, v = SwitchedOn(w)
    PROVE  Alike(w, v)
<1>0. w \in Worlds /\ w.thr \in Threads
  BY WorldFields DEF Sane
<1>1. PICK t : t = [w.thr EXCEPT !.on = TRUE]
  OBVIOUS
<1>2. /\ t \in Threads /\ t.rq = w.thr.rq /\ t.readers = w.thr.readers
      /\ t.timers = w.thr.timers
  BY <1>0, <1>1 DEF Threads
<1>3. v = [w EXCEPT !.thr = t]
  BY <1>0, <1>1 DEF Worlds, SwitchedOn
<1>4. /\ v \in Worlds /\ v.fds = w.fds /\ v.lib = w.lib /\ v.net = w.net
      /\ v.mishaps = w.mishaps /\ v.thr = t
  BY <1>0, <1>2, <1>3, ThrReplaced
<1> QED
  BY <1>2, <1>4 DEF Alike, Sane

\* The operator connects.
LEMMA ConnectKeeps ==
    ASSUME ClientInv, Connect
    PROVE  Holds(World', mode')
<1>1. PICK w : w = SwitchedOn(World)
  OBVIOUS
<1>2. PICK m : m = [at |-> "connect", prev |-> 0]
  OBVIOUS
<1>3. m \in Mode /\ m.at = "connect"
  BY <1>2 DEF Mode
<1>4. /\ mode.at = "idle" /\ ~(lib.initialized /\ lib.established) /\ ~lib.stop
      /\ IF lib.initialized THEN Continue(Handshake(w, m))
         ELSE IF listening /\ FreeNumbers(w) # {}
         THEN Continue(Attempt([w EXCEPT !.lib.initialized = TRUE], m))
         ELSE Continue(Idle(w))
  BY <1>1, <1>2 DEF Connect, SwitchedOn
<1>5. Holds(World, Idler) /\ Sane(World)
  BY <1>4, AnyIdler DEF ClientInv, Holds
<1>6. Alike(World, w)
  BY <1>1, <1>5, SwitchedOnIsAlike
<1>7. Holds(w, Idler) /\ Sane(w)
  BY <1>5, <1>6, AlikeHolds DEF Holds
<1>8. /\ w.lib.initialized = lib.initialized /\ w.lib.established = lib.established
      /\ w.lib.stop = lib.stop
  BY <1>6, WorldIsShaped DEF Alike
<1>9. CASE lib.initialized
  <2>1. \A o \in Handshake(w, m) : Holds(o[1], o[2])
    BY <1>3, <1>4, <1>7, <1>8, <1>9, HandshakeByHand
  <2> QED
    BY <1>4, <1>9, <2>1, ContinueKeeps
<1>10. CASE ~lib.initialized /\ listening /\ FreeNumbers(w) # {}
  <2>0. w \in Worlds /\ w.lib \in Library
    BY <1>7, WorldFields DEF Sane
  <2>1. PICK v : v = [w EXCEPT !.lib.initialized = TRUE]
    OBVIOUS
  <2>2. PICK l : l = [w.lib EXCEPT !.initialized = TRUE]
    OBVIOUS
  <2>3. /\ l \in Library /\ l.initialized = TRUE /\ l.stop = w.lib.stop
        /\ l.established = w.lib.established /\ l.external = w.lib.external
        /\ l.clientFD = w.lib.clientFD /\ l.oldFD = w.lib.oldFD
    BY <2>0, <2>2 DEF Library
  <2>4. v = [w EXCEPT !.lib = l]
    BY <2>0, <2>1, <2>2 DEF Worlds
  <2>5. /\ v \in Worlds /\ v.fds = w.fds /\ v.thr = w.thr /\ v.net = w.net
        /\ v.mishaps = w.mishaps /\ v.lib = l
    BY <2>0, <2>3, <2>4, LibReplaced
  <2>6. Sane(v)
    BY <1>7, <2>5 DEF Sane
  <2>7. /\ Calm(v) <=> Calm(w)
        /\ Known(v) <=> Known(w)
        /\ Careful(v) <=> Careful(w)
        /\ Known(v) => Calm(v)
        /\ Careful(v) => Known(v)
    BY <2>5, Levels
  <2>8. Calm(w) => /\ ~w.lib.external /\ NoCare(w) /\ w.lib.clientFD = -1
                   /\ ~w.lib.established /\ ~w.lib.stop
    BY <1>4, <1>7, <1>8, <1>10, IdlerIsMode DEF Holds, CareInv, Settled
  <2>9. /\ NoCare(v) <=> NoCare(w)
        /\ \A n : Connection(v, n) <=> Connection(w, n)
    BY <2>5 DEF NoCare, Connection
  <2>10. Careful(w) => /\ w.mishaps \cap Harms = {}
                       /\ w.lib.oldFD # -1 => Connection(w, w.lib.oldFD)
    BY <1>7 DEF Holds, HarmInv
  <2>11. Starting(v, m)
    BY <1>3, <2>3, <2>5, <2>7, <2>8, <2>9, <2>10 DEF Starting
  <2>12. FailingByHand(v)
    BY <2>3, <2>5, <2>7, <2>8, <2>9, <2>10 DEF FailingByHand, NoCare
  <2>13. \A o \in Attempt(v, m) : Holds(o[1], o[2])
    BY <1>3, <2>6, <2>11, <2>12, AttemptKeeps
  <2> QED
    BY <1>4, <1>10, <2>1, <2>13, ContinueKeeps
<1>11. CASE ~lib.initialized /\ ~(listening /\ FreeNumbers(w) # {})
  <2>1. \A o \in Idle(w) : Holds(o[1], o[2])
    BY <1>7 DEF Idle, Idler
  <2> QED
    BY <1>4, <1>11, <2>1, ContinueKeeps
<1> QED
  BY <1>9, <1>10, <1>11

\* The timer.  What the world has lost when the attempt starts.
LEMMA CheckClientConnectionKeeps ==
    ASSUME ClientInv, checkClientConnection
    PROVE  Holds(World', mode')
<1>1. PICK prev : prev = IF thr.rq > 0 THEN thr.rq ELSE IF lib.external THEN lib.oldFD ELSE -1
  OBVIOUS
<1>2. PICK m : m = [at |-> "reconnect", prev |-> prev]
  OBVIOUS
<1>3. PICK w : w = [World EXCEPT !.thr.timers = @ - 1]
  OBVIOUS
<1>4. PICK used : used = [w EXCEPT !.lib.clientFD = IF @ = -1 THEN w.lib.oldFD ELSE @]
  OBVIOUS
<1>5. PICK left : left = [sendGoodbye(used) EXCEPT !.lib.clientFD = -1, !.lib.oldFD = -1]
  OBVIOUS
<1>6. /\ mode.at = "idle" /\ thr.timers > 0
      /\ IF lib.initialized /\ ~lib.stop THEN Continue(UNION {Attempt(w1, m) : w1 \in {left}})
         ELSE Continue(NotConnected(w, m))
  BY <1>1, <1>2, <1>3, <1>4, <1>5 DEF checkClientConnection
<1>7. /\ Sane(World) /\ World \in Worlds /\ World.lib \in Library /\ World.thr \in Threads
      /\ CareInv(World, mode) /\ PlaceInv(World, mode) /\ HarmInv(World, mode)
  BY WorldFields DEF ClientInv, Holds, Sane
<1>8. m \in Mode /\ m.at = "reconnect" /\ m.prev = prev
  <2>1. prev \in Numbers \cup {0}
    BY <1>1, <1>7, WorldIsShaped DEF Threads, Library, Numbers
  <2> QED
    BY <1>2, <2>1 DEF Mode
<1>9. PICK t : t = [World.thr EXCEPT !.timers = World.thr.timers - 1]
  OBVIOUS
<1>10. /\ t \in Threads /\ t.rq = World.thr.rq /\ t.readers = World.thr.readers
       /\ t.timers = World.thr.timers - 1
  <2>1. World.thr.timers - 1 \in Nat
    BY <1>6, <1>7, WorldIsShaped DEF Threads
  <2> QED
    BY <1>7, <1>9, <2>1 DEF Threads
<1>11. w = [World EXCEPT !.thr = t]
  BY <1>3, <1>7, <1>9 DEF Worlds
<1>12. /\ w \in Worlds /\ w.fds = World.fds /\ w.lib = World.lib /\ w.net = World.net
       /\ w.mishaps = World.mishaps /\ w.thr = t
  BY <1>7, <1>10, <1>11, ThrReplaced
<1>13. Sane(w)
  BY <1>7, <1>12 DEF Sane
<1>14. /\ Calm(w) <=> Calm(World)
       /\ Known(w) <=> Known(World)
       /\ Careful(w) <=> Careful(World)
       /\ Known(w) => Calm(w)
       /\ Careful(w) => Known(w)
  BY <1>12, Levels
<1>15. \A n : Connection(w, n) <=> Connection(World, n)
  BY <1>12 DEF Connection
<1>16. Calm(w) => /\ w.lib.external /\ w.lib.initialized /\ NoCare(w)
                  /\ ~w.lib.established /\ HasConn(w) => Refused(TheConn(w))
  <2>1. Calm(w) => Settled(World) /\ World.thr.timers # 0
    BY <1>6, <1>7, <1>14, WorldIsShaped DEF CareInv
  <2>2. HasConn(w) => HasConn(World) /\ TheConn(w) = TheConn(World)
    BY <1>12 DEF HasConn, TheConn, Connection
  <2>3. Settled(World) /\ World.thr.timers # 0 =>
            w.lib.external /\ w.lib.initialized /\ NoCare(w)
    BY <1>10, <1>12 DEF Settled, OneCare, NoCare, Reader
  <2> QED
    BY <1>12, <2>1, <2>2, <2>3 DEF Settled
<1>17. Known(w) => /\ Connection(w, w.thr.rq) /\ w.lib.clientFD = -1 /\ prev = w.thr.rq
  <2>1. ASSUME Known(w)
        PROVE  /\ Connection(w, w.thr.rq) /\ w.lib.clientFD = -1 /\ prev = w.thr.rq
    <3>1. SettledAt(World) /\ World.thr.timers # 0
      BY <1>6, <1>7, <1>14, <2>1, WorldIsShaped DEF PlaceInv
    <3>2. Connection(w, w.thr.rq)
      BY <1>10, <1>12, <1>15, <3>1 DEF SettledAt
    <3>3. w.lib.clientFD = -1
      BY <1>10, <1>12, <1>14, <1>16, <2>1, <3>1 DEF SettledAt, NoCare
    <3>4. w.thr.rq > 0 /\ w.thr.rq = thr.rq
      BY <1>10, <1>12, <3>2, Facts, WorldIsShaped DEF Connection
    <3> QED
      BY <1>1, <3>2, <3>3, <3>4
  <2> QED
    BY <2>1
<1>18. Careful(w) => /\ w.mishaps \cap Harms = {}
                     /\ w.lib.oldFD # -1 => Connection(w, w.lib.oldFD)
  BY <1>7, <1>12, <1>14, <1>15 DEF HarmInv
<1>19. Failing(w)
  BY <1>16, <1>17, <1>18 DEF Failing
<1>20. CASE ~(lib.initialized /\ ~lib.stop)
  <2>1. \A o \in NotConnected(w, m) : Holds(o[1], o[2])
    BY <1>8, <1>13, <1>19, NotConnectedKeeps
  <2> QED
    BY <1>6, <1>20, <2>1, ContinueKeeps
<1>21. CASE lib.initialized /\ ~lib.stop
  <2>1. PICK d \in Numbers : /\ d = IF w.lib.clientFD = -1 THEN w.lib.oldFD ELSE w.lib.clientFD
    BY <1>7, <1>12 DEF Library
  <2>2. PICK l : l = [w.lib EXCEPT !.clientFD = d]
    OBVIOUS
  <2>3. /\ l \in Library /\ l.initialized = w.lib.initialized /\ l.stop = w.lib.stop
        /\ l.established = w.lib.established /\ l.external = w.lib.external
        /\ l.clientFD = d
    BY <1>7, <1>12, <2>2 DEF Library
  <2>4. used = [w EXCEPT !.lib = l]
    BY <1>4, <1>12, <2>1, <2>2 DEF Worlds
  <2>5. /\ used \in Worlds /\ used.fds = w.fds /\ used.thr = w.thr /\ used.net = w.net
        /\ used.mishaps = w.mishaps /\ used.lib = l
    BY <1>12, <2>3, <2>4, LibReplaced
  <2>6. Sane(used)
    BY <1>13, <2>5 DEF Sane
  <2>7. PICK g : g = sendGoodbye(used)
    OBVIOUS
  <2>8. Parts(used, g)
    BY <2>6, <2>7, SendGoodbyeEffect
  <2>9. g \in Worlds /\ g.lib \in Library
    BY <2>8, WorldFields DEF Parts, Sane
  <2>10. PICK k : k = [g.lib EXCEPT !.clientFD = -1, !.oldFD = -1]
    OBVIOUS
  <2>11. /\ k \in Library /\ k.initialized = g.lib.initialized /\ k.stop = g.lib.stop
         /\ k.external = g.lib.external /\ k.clientFD = -1 /\ k.oldFD = -1
    BY <2>9, <2>10 DEF Library, Numbers
  <2>12. left = [g EXCEPT !.lib = k]
    BY <1>5, <2>7, <2>9, <2>10 DEF Worlds
  <2>13. /\ left \in Worlds /\ left.fds = g.fds /\ left.thr = g.thr /\ left.net = g.net
         /\ left.mishaps = g.mishaps /\ left.lib = k
    BY <2>9, <2>11, <2>12, LibReplaced
  <2>14. /\ Sane(left) /\ left.fds = w.fds /\ left.thr = w.thr
         /\ left.lib.initialized = w.lib.initialized /\ left.lib.stop = w.lib.stop
         /\ left.lib.external = w.lib.external
         /\ left.lib.clientFD = -1 /\ left.lib.oldFD = -1
         /\ w.mishaps \subseteq left.mishaps
    BY <2>3, <2>5, <2>8, <2>11, <2>13 DEF Parts, Sane
  <2>15. /\ Calm(left) => Calm(w)
         /\ Known(left) => Known(w)
         /\ Careful(left) => Careful(w)
    BY <2>14, Levels
  <2>16. Careful(w) => left.mishaps = w.mishaps
    <3>1. ASSUME Careful(w)
          PROVE  left.mishaps = w.mishaps
      <4>1. d = w.lib.oldFD
        BY <1>14, <1>17, <2>1, <3>1
      <4>2. d = -1 \/ Connection(used, d)
        BY <1>18, <2>5, <3>1, <4>1 DEF Connection
      <4> QED
        BY <2>3, <2>5, <2>8, <2>13, <4>2 DEF Parts
    <3> QED
      BY <3>1
  <2>17. ~HasConn(left)
    BY <2>14, Facts DEF HasConn, Connection
  <2>18. /\ NoCare(left) <=> NoCare(w)
         /\ \A n : Connection(left, n) <=> Connection(w, n)
    BY <2>14 DEF NoCare, Connection
  <2>19. Failing(left)
    BY <1>16, <1>17, <1>18, <2>14, <2>15, <2>16, <2>17, <2>18 DEF Failing
  <2>20. ~w.lib.stop
    BY <1>12, <1>21, WorldIsShaped
  <2>21. Starting(left, m)
    BY <1>8, <1>16, <1>17, <1>18, <2>14, <2>15, <2>16, <2>18, <2>20 DEF Starting
  <2>22. \A o \in Attempt(left, m) : Holds(o[1], o[2])
    BY <1>8, <2>14, <2>19, <2>21, AttemptKeeps
  <2>23. \A o \in UNION {Attempt(w1, m) : w1 \in {left}} : Holds(o[1], o[2])
    BY <2>22, Zenon
  <2> QED
    BY <1>6, <1>21, <2>23, ContinueKeeps
<1> QED
  BY <1>20, <1>21

-----------------------------------------------------------------------------
(* The router reads.                                                         *)

\* A PDU is taken from the connection of a descriptor.
Takes(w, n, v) ==
    /\ Sane(v) /\ v.fds = w.fds /\ v.lib = w.lib /\ v.thr = w.thr /\ v.mishaps = w.mishaps
    /\ v.net[w.fds[n]].down = Tail(w.net[w.fds[n]].down)
    /\ \A c \in Conns : v.net[c].session = w.net[c].session
    /\ Head(w.net[w.fds[n]].down) \in {"response", "error", "goodbye", "notice"}

Taken(w, n) == [w EXCEPT !.net[w.fds[n]].down = Tail(@)]

LEMMA TakenEffect ==
    ASSUME NEW w, Sane(w), NEW n, HasPDU(w, n), NEW v, v = Taken(w, n)
    PROVE  Takes(w, n, v)
<1>0. w \in Worlds /\ w.fds[n] \in Conns
  BY WorldFields DEF Sane, HasPDU, Connection
<1>1. PICK c \in Conns : c = w.fds[n]
  BY <1>0
<1>2. w.net[c] \in Conn /\ w.net[c].down # <<>>
  BY <1>0, <1>1, WorldFields DEF HasPDU
<1>3. w.net[c].down \in Seq({"response", "error", "goodbye", "notice"})
  BY <1>2 DEF Conn
<1>4. PICK d \in Seq({"response", "error", "goodbye", "notice"}) : d = Tail(w.net[c].down)
  BY <1>2, <1>3, HeadTailProperties
<1>5. Head(w.net[c].down) \in {"response", "error", "goodbye", "notice"}
  BY <1>2, <1>3, HeadTailProperties
<1>6. PICK l : l = [w.net[c] EXCEPT !.down = d]
  OBVIOUS
<1>7. /\ l \in Conn /\ l.down = d /\ l.session = w.net[c].session
      /\ l.state = w.net[c].state
  BY <1>2, <1>6 DEF Conn
<1>8. v = [w EXCEPT !.net = [w.net EXCEPT ![c] = l]]
  BY <1>0, <1>1, <1>4, <1>6, WorldFields DEF Worlds, Taken
<1>9. /\ v \in Worlds /\ v.fds = w.fds /\ v.lib = w.lib /\ v.thr = w.thr
      /\ v.mishaps = w.mishaps /\ v.net[c] = l
      /\ \A e \in Conns \ {c} : v.net[e] = w.net[e]
  BY <1>0, <1>7, <1>8, ConnChanged, WorldFields
<1>10. \A e \in Conns : /\ v.net[e].session = w.net[e].session
                        /\ v.net[e].state = w.net[e].state
  BY <1>7, <1>9
<1>11. Linked(v.fds, v.net)
  <2>1. v.fds = w.fds /\ Linked(w.fds, w.net)
    BY <1>9 DEF Sane
  <2> QED
    BY <1>10, <2>1 DEF Linked
<1> QED
  BY <1>1, <1>4, <1>5, <1>7, <1>9, <1>10, <1>11 DEF Takes, Sane

\* What the PDUs do to a world from which they were taken.
Answers(w, v) ==
    /\ Sane(v) /\ v.fds = w.fds /\ v.thr = w.thr /\ v.net = w.net /\ v.mishaps = w.mishaps
    /\ v.lib.initialized = w.lib.initialized /\ v.lib.stop = w.lib.stop
    /\ v.lib.external = w.lib.external /\ v.lib.clientFD = w.lib.clientFD
    /\ v.lib.oldFD = w.lib.oldFD
Leaves(w, v) ==
    /\ Sane(v) /\ v.thr = w.thr
    /\ v.lib.initialized = w.lib.initialized /\ v.lib.external = w.lib.external
    /\ v.lib.stop /\ ~v.lib.established
    /\ v.lib.clientFD = -1 /\ v.lib.oldFD \in {w.lib.oldFD, -1}
    /\ ~w.lib.external => v.lib.oldFD = -1
    /\ w.mishaps \subseteq v.mishaps
    /\ w.lib.external => v.fds = w.fds /\ v.net = w.net /\ v.mishaps = w.mishaps
    /\ Held(w) = -1 \/ Connection(w, Held(w)) => v.mishaps = w.mishaps
Fails(w, v) ==
    /\ Sane(v) /\ v.lib = w.lib /\ w.mishaps \subseteq v.mishaps /\ "error" \in v.mishaps
    /\ KeepsOpen(w, v)
    /\ NoCare(w) => NoCare(v)

\* A response makes the session, a GOODBYE ends the proxy, an error the reading.
LEMMA DispatchEffect ==
    ASSUME NEW w, Sane(w), NEW pdu \in {"response", "error", "goodbye", "notice"},
           NEW v \in Dispatch(w, pdu)
    PROVE  /\ pdu = "response" => Answers(w, v) /\ v.lib.established
           /\ pdu = "notice" => Answers(w, v) /\ v.lib.established = w.lib.established
           /\ pdu = "goodbye" => Leaves(w, v)
           /\ pdu = "error" => Fails(w, v)
<1>0. w \in Worlds /\ w.lib \in Library
  BY WorldFields DEF Sane
<1>1. CASE pdu = "response"
  <2>1. PICK l : l = [w.lib EXCEPT !.established = TRUE]
    OBVIOUS
  <2>2. /\ l \in Library /\ l.initialized = w.lib.initialized /\ l.stop = w.lib.stop
        /\ l.established /\ l.external = w.lib.external
        /\ l.oldFD = w.lib.oldFD /\ l.clientFD = w.lib.clientFD
    BY <1>0, <2>1 DEF Library
  <2>3. v = [w EXCEPT !.lib = l]
    BY <1>0, <1>1, <2>1 DEF Dispatch, Worlds
  <2>4. /\ v \in Worlds /\ v.fds = w.fds /\ v.thr = w.thr /\ v.net = w.net
        /\ v.mishaps = w.mishaps /\ v.lib = l
    BY <1>0, <2>2, <2>3, LibReplaced
  <2> QED
    BY <1>1, <2>2, <2>4 DEF Answers, Sane
<1>2. CASE pdu = "notice"
  BY <1>2 DEF Dispatch, Answers
<1>3. CASE pdu = "goodbye"
  <2>1. PICK l : l = [w.lib EXCEPT !.established = FALSE]
    OBVIOUS
  <2>2. /\ l \in Library /\ l.initialized = w.lib.initialized /\ l.stop = w.lib.stop
        /\ ~l.established /\ l.external = w.lib.external
        /\ l.oldFD = w.lib.oldFD /\ l.clientFD = w.lib.clientFD
    BY <1>0, <2>1 DEF Library
  <2>3. PICK u : u = [w EXCEPT !.lib = l]
    OBVIOUS
  <2>4. /\ u \in Worlds /\ u.fds = w.fds /\ u.thr = w.thr /\ u.net = w.net
        /\ u.mishaps = w.mishaps /\ u.lib = l
    BY <1>0, <2>2, <2>3, LibReplaced
  <2>5. v = Release(u)
    BY <1>0, <1>3, <2>1, <2>3 DEF Dispatch, Worlds
  <2>6. Sane(u)
    BY <2>4 DEF Sane
  <2>7. Releases(u, v)
    BY <2>5, <2>6, ReleaseEffect
  <2>8. Held(u) = Held(w) /\ (Connection(u, Held(u)) <=> Connection(w, Held(w)))
    BY <2>2, <2>4 DEF Held, Connection
  <2>9. v.lib.established \in BOOLEAN
    BY <2>7, WorldFields DEF Releases, Sane, Library
  <2> QED
    BY <1>3, <2>2, <2>4, <2>7, <2>8, <2>9 DEF Releases, Leaves
<1>4. CASE pdu = "error"
  <2>1. PICK u : u = Note(w, "error")
    OBVIOUS
  <2>2. Notes(w, "error", u)
    BY <2>1, NoteEffect DEF Troubles
  <2>3. v \in threadControlCall(u, "error")
    BY <1>4, <2>1 DEF Dispatch
  <2>4. Controls(u, "error", v)
    BY <2>2, <2>3, ThreadControlCallEffect DEF Notes
  <2>5. NoCare(w) => NoCare(u)
    BY <2>2 DEF Notes, NoCare
  <2> QED
    BY <1>4, <2>2, <2>4, <2>5 DEF Notes, Controls, Fails, KeepsOpen
<1> QED
  BY <1>1, <1>2, <1>3, <1>4

\* The descriptor is forgotten; the world is otherwise the same.
Forgets(w, v) ==
    /\ Sane(v) /\ v.fds = w.fds /\ v.thr = w.thr /\ v.net = w.net /\ v.mishaps = w.mishaps
    /\ v.lib.initialized = w.lib.initialized /\ v.lib.stop = w.lib.stop
    /\ v.lib.established = w.lib.established /\ v.lib.external = w.lib.external
    /\ v.lib.clientFD = -1 /\ v.lib.oldFD = w.lib.oldFD

LEMMA LostEffect ==
    ASSUME NEW w, Sane(w), NEW v, v = Lost(w)
    PROVE  Forgets(w, v)
<1>0. w \in Worlds /\ w.lib \in Library
  BY WorldFields DEF Sane
<1>1. PICK l : l = [w.lib EXCEPT !.clientFD = -1]
  OBVIOUS
<1>2. /\ l \in Library /\ l.initialized = w.lib.initialized /\ l.stop = w.lib.stop
      /\ l.established = w.lib.established /\ l.external = w.lib.external
      /\ l.oldFD = w.lib.oldFD /\ l.clientFD = -1
  BY <1>0, <1>1 DEF Library, Numbers
<1>3. v = [w EXCEPT !.lib = l]
  BY <1>0, <1>1 DEF Lost, Worlds
<1>4. /\ v \in Worlds /\ v.fds = w.fds /\ v.thr = w.thr /\ v.net = w.net
      /\ v.mishaps = w.mishaps /\ v.lib = l
  BY <1>0, <1>2, <1>3, LibReplaced
<1> QED
  BY <1>2, <1>4 DEF Forgets, Sane

FirstPDU(w, n) == Head(w.net[w.fds[n]].down)

LEMMA TakePDUEffect ==
    ASSUME NEW w, Sane(w), NEW n, HasPDU(w, n), NEW v \in TakePDU(w, n)
    PROVE  \E t : /\ Takes(w, n, t)
                  /\ FirstPDU(w, n) \in {"response", "error", "goodbye", "notice"}
                  /\ FirstPDU(w, n) = "response" => Answers(t, v) /\ v.lib.established
                  /\ FirstPDU(w, n) = "notice" =>
                        Answers(t, v) /\ v.lib.established = t.lib.established
                  /\ FirstPDU(w, n) = "goodbye" => Leaves(t, v)
                  /\ FirstPDU(w, n) = "error" => Fails(t, v)
<1>1. PICK t : t = Taken(w, n)
  OBVIOUS
<1>2. Takes(w, n, t)
  BY <1>1, TakenEffect
<1>3. PICK pdu : pdu = FirstPDU(w, n)
  OBVIOUS
<1>4. pdu \in {"response", "error", "goodbye", "notice"}
  BY <1>2, <1>3 DEF Takes, FirstPDU
<1>5. v \in Dispatch(t, pdu)
  BY <1>1, <1>3 DEF TakePDU, Taken, FirstPDU
<1>6. Sane(t)
  BY <1>2 DEF Takes
<1> QED
  BY <1>2, <1>3, <1>4, <1>5, <1>6, DispatchEffect

\* What a connection holds after its first PDU was taken.
LEMMA FirstOfGreeting ==
    ASSUME NEW k, k.down # <<>>
    PROVE  /\ Refused(k) => Head(k.down) = "goodbye"
           /\ Greeting(k) => /\ Head(k.down) # "notice" /\ k.session # "none"
                             /\ Head(k.down) = "error" =>
                                   k.session = "over" /\ Tail(k.down) = <<"goodbye">>
<1>1. /\ Head(<<"goodbye">>) = "goodbye" /\ Head(<<"response">>) = "response"
      /\ Head(<<"response", "goodbye">>) = "response"
      /\ Head(<<"error", "goodbye">>) = "error"
      /\ Tail(<<"error", "goodbye">>) = <<"goodbye">>
  OBVIOUS
<1> QED
  BY <1>1 DEF Refused, Greeting

\* The handshake, when a PDU has come.
LEMMA AnsweredKeeps ==
    ASSUME NEW w, NEW m, m.at \in {"connect", "reconnect"}, Holds(w, m),
           HasPDU(w, w.lib.clientFD), NEW v \in TakePDU(w, w.lib.clientFD),
           NEW o \in IF v.lib.established THEN Connected(v, m)
                     ELSE IF FirstPDU(w, w.lib.clientFD) = "error" THEN NotConnected(v, m)
                     ELSE {<<v, m>>}
    PROVE  Holds(o[1], o[2])
<1>1. PICK pdu : pdu = FirstPDU(w, w.lib.clientFD)
  OBVIOUS
<1>2. Sane(w)
  BY DEF Holds
<1>3. PICK t : /\ Takes(w, w.lib.clientFD, t)
               /\ pdu \in {"response", "error", "goodbye", "notice"}
               /\ pdu = "response" => Answers(t, v) /\ v.lib.established
               /\ pdu = "notice" => Answers(t, v) /\ v.lib.established = t.lib.established
               /\ pdu = "goodbye" => Leaves(t, v)
               /\ pdu = "error" => Fails(t, v)
  BY <1>1, <1>2, TakePDUEffect
<1>4. /\ Sane(t) /\ t.fds = w.fds /\ t.lib = w.lib /\ t.thr = w.thr /\ t.mishaps = w.mishaps
      /\ \A c \in Conns : t.net[c].session = w.net[c].session
      /\ TheConn(t).down = Tail(TheConn(w).down)
      /\ TheConn(t).session = TheConn(w).session
      /\ HasConn(w) /\ HasConn(t) /\ w.lib.clientFD \in Descriptors
      /\ TheConn(w).down # <<>> /\ pdu = Head(TheConn(w).down)
      /\ \A n : Connection(t, n) <=> Connection(w, n)
  BY <1>1, <1>3 DEF Takes, TheConn, HasConn, HasPDU, Connection, FirstPDU
<1>5. m \in Mode /\ m.at # "idle" /\ m.at # "read"
  BY DEF Holds
<1>6. Calm(w) => Shaking(w, m)
  BY DEF Holds, CareInv
<1>7. Known(w) => ShakingAt(w, m)
  BY DEF Holds, PlaceInv
<1>8. Careful(w) => /\ w.mishaps \cap Harms = {}
                    /\ w.lib.oldFD # -1 => Connection(w, w.lib.oldFD)
                    /\ m.at = "reconnect" => w.lib.oldFD # w.thr.rq
  BY DEF Holds, HarmInv
<1>9. Calm(w) => /\ Greeting(TheConn(w)) /\ pdu # "notice" /\ TheConn(w).session # "none"
                 /\ m.at = "connect" /\ w.lib.external => pdu = "goodbye"
                 /\ pdu = "error" => Refused(TheConn(t))
  <2>1. ASSUME Calm(w)
        PROVE  Greeting(TheConn(w)) /\ (m.at = "connect" /\ w.lib.external => Refused(TheConn(w)))
    BY <1>4, <1>6, <2>1 DEF Shaking
  <2>2. /\ Refused(TheConn(w)) => pdu = "goodbye"
        /\ Greeting(TheConn(w)) =>
              /\ pdu # "notice" /\ TheConn(w).session # "none"
              /\ pdu = "error" => /\ TheConn(w).session = "over"
                                  /\ Tail(TheConn(w).down) = <<"goodbye">>
    BY <1>4, FirstOfGreeting
  <2> QED
    BY <1>4, <2>1, <2>2 DEF Refused
<1>10. /\ Known(w) => Calm(w)
       /\ Careful(w) => Known(w)
       /\ Polite(w) => Known(w)
  BY Levels
<1>11. CASE pdu \in {"response", "notice"}
  <2>1. Answers(t, v)
    BY <1>3, <1>11
  <2>2. /\ Sane(v) /\ v.fds = w.fds /\ v.thr = w.thr /\ v.net = t.net
        /\ v.mishaps = w.mishaps
        /\ v.lib.initialized = w.lib.initialized /\ v.lib.stop = w.lib.stop
        /\ v.lib.external = w.lib.external /\ v.lib.clientFD = w.lib.clientFD
        /\ v.lib.oldFD = w.lib.oldFD
    BY <1>4, <2>1 DEF Answers
  <2>3. /\ Calm(v) <=> Calm(w)
        /\ Known(v) <=> Known(w)
        /\ Careful(v) <=> Careful(w)
        /\ Polite(v) <=> Polite(w)
    BY <2>2, Levels
  <2>4. CASE v.lib.established
    <3>1. Calm(v) => v.lib.initialized /\ v.lib.established /\ NoCare(v)
      BY <1>5, <1>6, <1>9, <1>11, <2>2, <2>3, <2>4 DEF Shaking, NoCare
    <3>2. Calm(v) /\ m.at = "reconnect" => v.lib.external
      BY <1>6, <2>2, <2>3 DEF Shaking
    <3>3. HasConn(v) /\ TheConn(v).session = TheConn(w).session
      BY <1>4, <2>2 DEF HasConn, TheConn, Connection
    <3>4. Known(v) /\ m.at = "reconnect" =>
             m.prev = v.thr.rq /\ Connection(v, v.thr.rq) /\ v.lib.clientFD # v.thr.rq
      BY <1>7, <2>2, <2>3 DEF ShakingAt, Connection
    <3>5. Careful(v) => /\ v.mishaps \cap Harms = {}
                        /\ v.lib.oldFD # -1 => Connection(v, v.lib.oldFD)
                        /\ m.at = "reconnect" => v.lib.oldFD # v.thr.rq
      BY <1>8, <2>2, <2>3 DEF Connection
    <3>6. Polite(v) => TheConn(v).session # "none"
      BY <1>9, <1>10, <2>3, <3>3
    <3>7. v.lib.clientFD \in Descriptors
      BY <1>4, <2>2
    <3>8. Succeeding(v, m)
      BY <3>1, <3>2, <3>3, <3>4, <3>5, <3>6, <3>7 DEF Succeeding
    <3> QED
      BY <2>2, <2>4, <3>8, ConnectedKeeps
  <2>5. CASE ~v.lib.established
    <3>1. pdu = "notice" /\ o = <<v, m>>
      BY <1>1, <1>3, <1>11, <2>5
    <3>2. ~Calm(v)
      BY <1>9, <2>3, <3>1
    <3> QED
      BY <1>5, <2>2, <3>1, <3>2, NothingKnown
  <2> QED
    BY <2>4, <2>5
<1>12. CASE pdu = "goodbye"
  <2>1. Leaves(t, v)
    BY <1>3, <1>12
  <2>2. o = <<v, m>>
    BY <1>1, <1>12, <2>1 DEF Leaves
  <2>3. Sane(v) /\ v.thr = w.thr /\ v.lib.clientFD = -1 /\ ~HasConn(v)
        /\ w.mishaps \subseteq v.mishaps /\ v.lib.stop /\ ~v.lib.established
        /\ v.lib.initialized = w.lib.initialized /\ v.lib.external = w.lib.external
    BY <1>4, <2>1, Facts DEF Leaves, HasConn, Connection
  <2>4. /\ Calm(v) => Calm(w)
        /\ Known(v) => Known(w)
        /\ Careful(v) => Careful(w)
    BY <2>3, Levels
  <2>5. CareInv(v, m)
    <3>1. ASSUME Calm(v)
          PROVE  Shaking(v, m)
      BY <1>6, <2>3, <2>4, <3>1 DEF Shaking, OneCare, NoCare, Reader
    <3> QED
      BY <1>5, <3>1 DEF CareInv
  <2>6. w.lib.external => \A n : Connection(v, n) <=> Connection(w, n)
    BY <1>4, <2>1 DEF Leaves, Connection
  <2>7. PlaceInv(v, m)
    <3>1. ASSUME Known(v)
          PROVE  ShakingAt(v, m)
      <4>1. m.at = "reconnect" => w.lib.external
        BY <1>6, <1>10, <2>4, <3>1 DEF Shaking
      <4>2. m.at = "reconnect" => /\ m.prev = v.thr.rq /\ Connection(v, v.thr.rq)
                                  /\ v.lib.clientFD # v.thr.rq
        BY <1>7, <2>3, <2>4, <2>6, <3>1, <4>1, Facts DEF ShakingAt, Connection
      <4>3. m.at = "connect" => ~v.lib.external
        BY <1>7, <2>3, <2>4, <3>1 DEF ShakingAt
      <4> QED
        BY <2>3, <4>2, <4>3 DEF ShakingAt
    <3> QED
      BY <1>5, <3>1 DEF PlaceInv
  <2>8. HarmInv(v, m)
    <3>1. ASSUME Careful(v)
          PROVE  /\ v.mishaps \cap Harms = {}
                 /\ v.lib.oldFD # -1 => Connection(v, v.lib.oldFD)
                 /\ m.at = "reconnect" => v.lib.oldFD # v.thr.rq
      <4>1. Held(t) = w.lib.clientFD
        BY <1>4, Facts DEF Held
      <4>2. v.mishaps = w.mishaps
        BY <1>4, <2>1, <4>1 DEF Leaves, HasConn
      <4>3. v.lib.oldFD # -1 => w.lib.external /\ v.lib.oldFD = w.lib.oldFD
        BY <1>4, <2>1 DEF Leaves
      <4>4. m.at = "reconnect" => w.thr.rq # -1
        BY <1>7, <1>10, <2>4, <3>1, Facts DEF ShakingAt, Connection
      <4> QED
        BY <1>8, <2>3, <2>4, <2>6, <3>1, <4>2, <4>3, <4>4
    <3> QED
      BY <3>1 DEF HarmInv
  <2>9. GreetInv(v, m)
    BY <1>5 DEF GreetInv
  <2> QED
    BY <1>5, <2>2, <2>3, <2>5, <2>7, <2>8, <2>9 DEF Holds
<1>13. CASE pdu = "error"
  <2>1. Fails(t, v)
    BY <1>3, <1>13
  <2>2. /\ Sane(v) /\ v.lib = w.lib /\ w.mishaps \subseteq v.mishaps
        /\ NoCare(w) => NoCare(v)
        /\ ~Known(v) /\ ~Careful(v) /\ ~Polite(v)
        /\ Calm(v) => Calm(w)
    BY <1>4, <2>1, Levels DEF Fails, NoCare, Known, Careful, Polite, Spared
  <2>3. CASE v.lib.established
    <3>1. ~Calm(v)
      BY <1>6, <2>2, <2>3 DEF Shaking
    <3>2. Succeeding(v, m)
      BY <1>4, <2>2, <3>1 DEF Succeeding
    <3> QED
      BY <2>2, <2>3, <3>2, ConnectedKeeps
  <2>4. CASE ~v.lib.established
    <3>1. o \in NotConnected(v, m)
      BY <1>1, <1>13, <2>4
    <3>2. Calm(v) => m.at = "reconnect" \/ ~w.lib.external
      BY <1>5, <1>9, <1>13, <2>2
    <3>3. HasConn(v) => TheConn(v) = TheConn(t)
      BY <1>4, <2>1, <2>2 DEF Fails, KeepsOpen, HasConn, TheConn, Connection
    <3>4. m.at = "reconnect" => Failing(v)
      BY <1>6, <1>9, <1>13, <2>2, <3>3 DEF Failing, Shaking
    <3>5. m.at # "reconnect" => FailingByHand(v)
      <4>1. m.at # "reconnect" /\ Calm(v) =>
               /\ v.lib.initialized /\ ~v.lib.established /\ ~v.lib.external /\ NoCare(v)
               /\ v.lib.stop => v.lib.clientFD = -1
        BY <1>6, <2>2, <3>2 DEF Shaking
      <4> QED
        BY <2>2, <4>1 DEF FailingByHand
    <3> QED
      BY <2>2, <3>1, <3>4, <3>5, NotConnectedKeeps
  <2> QED
    BY <2>3, <2>4
<1> QED
  BY <1>3, <1>11, <1>12, <1>13

\* One round of the handshake.
LEMMA HandshakeReadKeeps ==
    ASSUME ClientInv, HandshakeRead
    PROVE  Holds(World', mode')
<1>1. PICK n : n = World.lib.clientFD
  OBVIOUS
<1>2. /\ mode.at \in {"connect", "reconnect"}
      /\ IF HasPDU(World, n)
         THEN \E w \in TakePDU(World, n) :
                Continue(IF w.lib.established THEN Connected(w, mode)
                         ELSE IF FirstPDU(World, n) = "error" THEN NotConnected(w, mode)
                         ELSE {<<w, mode>>})
         ELSE Continue({<<Lost(World), mode>>})
  BY <1>1, WorldIsShaped DEF HandshakeRead, FirstPDU
<1>3. Holds(World, mode) /\ Sane(World)
  BY DEF ClientInv, Holds
<1>4. CASE HasPDU(World, n)
  <2>1. PICK w \in TakePDU(World, n) :
            Continue(IF w.lib.established THEN Connected(w, mode)
                     ELSE IF FirstPDU(World, n) = "error" THEN NotConnected(w, mode)
                     ELSE {<<w, mode>>})
    BY <1>2, <1>4
  <2>2. PICK S : S = IF w.lib.established THEN Connected(w, mode)
                     ELSE IF FirstPDU(World, n) = "error" THEN NotConnected(w, mode)
                     ELSE {<<w, mode>>}
    OBVIOUS
  <2>3. \A o \in S : Holds(o[1], o[2])
    BY <1>1, <1>2, <1>3, <1>4, <2>2, AnsweredKeeps
  <2> QED
    BY <2>1, <2>2, <2>3, ContinueKeeps
<1>5. CASE ~HasPDU(World, n)
  <2>1. PICK v : v = Lost(World)
    OBVIOUS
  <2>2. Forgets(World, v)
    BY <1>3, <2>1, LostEffect
  <2>3. ~HasConn(v) /\ Sane(v) /\ \A d : Connection(v, d) <=> Connection(World, d)
    BY <2>2, Facts DEF Forgets, HasConn, Connection
  <2>4. /\ Calm(v) <=> Calm(World)
        /\ Known(v) <=> Known(World)
        /\ Careful(v) <=> Careful(World)
    BY <2>2, Levels DEF Forgets
  <2>5. mode \in Mode /\ mode.at # "idle" /\ mode.at # "read"
    BY <1>2, <1>3 DEF Holds
  <2>6. CareInv(v, mode)
    <3>1. ASSUME Calm(v)
          PROVE  Shaking(v, mode)
      <4>1. Shaking(World, mode)
        BY <1>2, <1>3, <2>4, <3>1 DEF Holds, CareInv
      <4> QED
        BY <2>2, <2>3, <4>1 DEF Shaking, Forgets, OneCare, NoCare, Reader
    <3> QED
      BY <2>5, <3>1 DEF CareInv
  <2>7. PlaceInv(v, mode)
    <3>1. ASSUME Known(v)
          PROVE  ShakingAt(v, mode)
      <4>1. ShakingAt(World, mode)
        BY <1>2, <1>3, <2>4, <3>1 DEF Holds, PlaceInv
      <4> QED
        BY <2>2, <2>3, <4>1, Facts DEF ShakingAt, Forgets, Connection
    <3> QED
      BY <2>5, <3>1 DEF PlaceInv
  <2>8. HarmInv(v, mode)
    BY <1>3, <2>2, <2>3, <2>4 DEF Holds, HarmInv, Forgets
  <2>9. GreetInv(v, mode)
    BY <2>5 DEF GreetInv
  <2>10. \A o \in {<<v, mode>>} : Holds(o[1], o[2])
    BY <2>3, <2>5, <2>6, <2>7, <2>8, <2>9 DEF Holds
  <2> QED
    BY <1>2, <1>5, <2>1, <2>10, ContinueKeeps
<1> QED
  BY <1>4, <1>5

\* The alarm: the descriptor is closed, whatever it is by now.
LEMMA HandshakeAlarmKeeps ==
    ASSUME ClientInv, HandshakeAlarm
    PROVE  Holds(World', mode')
<1>1. PICK u : u = Note(World, "timedOut")
  OBVIOUS
<1>2. PICK n : n = World.lib.clientFD
  OBVIOUS
<1>3. PICK e : e = Close(u, n)
  OBVIOUS
<1>4. PICK v : v = Lost(e)
  OBVIOUS
<1>5. mode.at \in {"connect", "reconnect"} /\ Continue(NotConnected(v, mode))
  BY <1>1, <1>2, <1>3, <1>4, WorldIsShaped DEF HandshakeAlarm, Lost
<1>6. Holds(World, mode) /\ Sane(World)
  BY DEF ClientInv, Holds
<1>7. Notes(World, "timedOut", u)
  BY <1>1, <1>6, NoteEffect DEF Troubles
<1>8. Closes(u, n, e) /\ Sane(e)
  BY <1>3, <1>7, CloseEffect, ClosedIsSane DEF Notes, Sane
<1>9. Forgets(e, v)
  BY <1>4, <1>8, LostEffect
<1>10. /\ Sane(v) /\ v.thr = World.thr /\ v.lib.clientFD = -1
       /\ v.lib.initialized = World.lib.initialized /\ v.lib.stop = World.lib.stop
       /\ v.lib.established = World.lib.established
       /\ v.lib.external = World.lib.external
       /\ World.mishaps \subseteq v.mishaps /\ "timedOut" \in v.mishaps
       /\ ~HasConn(v)
  BY <1>7, <1>8, <1>9, Facts DEF Notes, Closes, Forgets, HasConn, Connection
<1>11. /\ Calm(v) => Calm(World)
       /\ Known(v) => Known(World)
       /\ Known(v) => Calm(v)
       /\ ~Careful(v)
  BY <1>10, Levels DEF Careful, Spared
<1>12. Calm(v) => Shaking(World, mode)
  BY <1>5, <1>6, <1>11 DEF Holds, CareInv
<1>13. Known(v) => ShakingAt(World, mode)
  BY <1>5, <1>6, <1>11 DEF Holds, PlaceInv
<1>14. \A d : d # n => (Connection(v, d) <=> Connection(World, d))
  BY <1>7, <1>8, <1>9 DEF Notes, Closes, Forgets, Connection
<1>15. mode.at = "reconnect" => Failing(v)
  <2>1. mode.at = "reconnect" /\ Calm(v) =>
           /\ v.lib.external /\ v.lib.initialized /\ NoCare(v)
    BY <1>10, <1>12 DEF Shaking, NoCare
  <2>2. mode.at = "reconnect" /\ Known(v) => Connection(v, v.thr.rq)
    BY <1>2, <1>10, <1>13, <1>14 DEF ShakingAt
  <2> QED
    BY <1>10, <1>11, <2>1, <2>2 DEF Failing
<1>16. mode.at # "reconnect" => FailingByHand(v)
  <2>1. mode.at # "reconnect" /\ Calm(v) =>
           /\ v.lib.initialized /\ ~v.lib.established
           /\ v.lib.external => OneCare(v)
           /\ ~v.lib.external => NoCare(v)
    BY <1>5, <1>10, <1>12 DEF Shaking, OneCare, NoCare, Reader
  <2>2. mode.at # "reconnect" /\ Known(v) => ~v.lib.external
    BY <1>5, <1>10, <1>13 DEF ShakingAt
  <2>3. mode.at # "reconnect" /\ Known(v) => NoCare(v)
    BY <1>11, <2>1, <2>2
  <2> QED
    BY <1>10, <1>11, <2>1, <2>3 DEF FailingByHand, NoCare
<1>17. \A o \in NotConnected(v, mode) : Holds(o[1], o[2])
  BY <1>10, <1>15, <1>16, NotConnectedKeeps
<1> QED
  BY <1>5, <1>17, ContinueKeeps

\* The thread of a descriptor runs: it is no longer among those that wait.
Runs(w, n, v) ==
    /\ Sane(v) /\ v.fds = w.fds /\ v.lib = w.lib /\ v.net = w.net /\ v.mishaps = w.mishaps
    /\ v.thr.rq = n /\ v.thr.readers = w.thr.readers \ {n}
    /\ v.thr.timers = w.thr.timers

Running(w, n) == [w EXCEPT !.thr.rq = n, !.thr.readers = @ \ {n},
                           !.thr.current = IF @ = n THEN Stale ELSE @]

LEMMA RunsEffect ==
    ASSUME NEW w, Sane(w), NEW n \in Descriptors, NEW v, v = Running(w, n)
    PROVE  Runs(w, n, v)
<1>0. w \in Worlds /\ w.thr \in Threads
  BY WorldFields DEF Sane
<1>1. PICK c \in Descriptors \cup {NULL, Stale} :
          c = IF w.thr.current = n THEN Stale ELSE w.thr.current
  BY <1>0 DEF Threads
<1>2. PICK r : r = w.thr.readers \ {n}
  OBVIOUS
<1>3. r \subseteq Descriptors
  BY <1>0, <1>2 DEF Threads
<1>4. PICK t : t = [w.thr EXCEPT !.rq = n, !.readers = r, !.current = c]
  OBVIOUS
<1>5. t \in Threads /\ t.rq = n /\ t.readers = r /\ t.timers = w.thr.timers
  BY <1>0, <1>1, <1>3, <1>4 DEF Threads, Numbers
<1>6. v = [w EXCEPT !.thr = t]
  BY <1>0, <1>1, <1>2, <1>4 DEF Worlds, Threads, Running
<1>7. /\ v \in Worlds /\ v.fds = w.fds /\ v.lib = w.lib /\ v.net = w.net
      /\ v.mishaps = w.mishaps /\ v.thr = t
  BY <1>0, <1>5, <1>6, ThrReplaced
<1> QED
  BY <1>2, <1>5, <1>7 DEF Runs, Sane

\* The thread waits for its descriptor again.
WaitsAgain(w, n, v) ==
    /\ Sane(v) /\ v.fds = w.fds /\ v.lib = w.lib /\ v.net = w.net /\ v.mishaps = w.mishaps
    /\ v.thr.rq = w.thr.rq /\ v.thr.readers = w.thr.readers \cup {n}
    /\ v.thr.timers = w.thr.timers

Waiting(w, n) == [w EXCEPT !.thr.readers = @ \cup {n}, !.thr.current = n]

LEMMA WaitsAgainEffect ==
    ASSUME NEW w, Sane(w), NEW n \in Descriptors, NEW v, v = Waiting(w, n)
    PROVE  WaitsAgain(w, n, v)
<1>0. w \in Worlds /\ w.thr \in Threads
  BY WorldFields DEF Sane
<1>1. PICK r : r = w.thr.readers \cup {n}
  OBVIOUS
<1>2. r \subseteq Descriptors
  BY <1>0, <1>1 DEF Threads
<1>3. PICK t : t = [w.thr EXCEPT !.readers = r, !.current = n]
  OBVIOUS
<1>4. t \in Threads /\ t.rq = w.thr.rq /\ t.readers = r /\ t.timers = w.thr.timers
  BY <1>0, <1>2, <1>3 DEF Threads
<1>5. v = [w EXCEPT !.thr = t]
  BY <1>0, <1>1, <1>3 DEF Worlds, Threads, Waiting
<1>6. /\ v \in Worlds /\ v.fds = w.fds /\ v.lib = w.lib /\ v.net = w.net
      /\ v.mishaps = w.mishaps /\ v.thr = t
  BY <1>0, <1>4, <1>5, ThrReplaced
<1> QED
  BY <1>1, <1>4, <1>6 DEF WaitsAgain, Sane

\* The timer is started in the place of the thread.
TimerStarts(w, v) ==
    /\ Sane(v) /\ v.fds = w.fds /\ v.lib = w.lib /\ v.net = w.net /\ v.mishaps = w.mishaps
    /\ v.thr.rq = w.thr.rq /\ v.thr.readers = w.thr.readers
    /\ v.thr.timers = w.thr.timers + 1

Timing(w) == [w EXCEPT !.thr.timers = @ + 1,
                       !.thr.current = IF @ = NULL THEN @ ELSE Stale]

LEMMA TimerStartsEffect ==
    ASSUME NEW w, Sane(w), NEW v, v = Timing(w)
    PROVE  TimerStarts(w, v)
<1>0. w \in Worlds /\ w.thr \in Threads
  BY WorldFields DEF Sane
<1>1. PICK c \in {NULL, Stale} : c = IF w.thr.current = NULL THEN w.thr.current ELSE Stale
  OBVIOUS
<1>2. PICK x \in Nat : x = w.thr.timers + 1
  BY <1>0 DEF Threads
<1>3. PICK t : t = [w.thr EXCEPT !.timers = x, !.current = c]
  OBVIOUS
<1>4. t \in Threads /\ t.rq = w.thr.rq /\ t.readers = w.thr.readers /\ t.timers = x
  BY <1>0, <1>1, <1>2, <1>3 DEF Threads
<1>5. v = [w EXCEPT !.thr = t]
  BY <1>0, <1>1, <1>2, <1>3 DEF Worlds, Threads, Timing
<1>6. /\ v \in Worlds /\ v.fds = w.fds /\ v.lib = w.lib /\ v.net = w.net
      /\ v.mishaps = w.mishaps /\ v.thr = t
  BY <1>0, <1>4, <1>5, ThrReplaced
<1> QED
  BY <1>2, <1>4, <1>6 DEF TimerStarts, Sane

\* Who reads: without trouble it is the one thread there is, and the library reads
\* from its descriptor or has none.
TheReader(w, m, n) ==
    /\ n \in Descriptors
    /\ Calm(w) => /\ Reader(w, n) /\ w.lib.external /\ w.lib.initialized
                  /\ ~w.lib.established /\ HasConn(w) => Refused(TheConn(w))
    /\ Known(w) => /\ m.at = "idle" /\ Connection(w, n)
                   /\ w.lib.clientFD \in {-1, n}

LEMMA IsTheReader ==
    ASSUME NEW w, NEW m, Holds(w, m), NEW n \in Descriptors,
           \/ m.at = "idle" /\ n \in w.thr.readers
           \/ m = [at |-> "read", prev |-> n]
    PROVE  TheReader(w, m, n)
<1>1. CASE m.at = "idle" /\ n \in w.thr.readers
  <2>1. Calm(w) => Settled(w)
    BY <1>1 DEF Holds, CareInv
  <2>2. Settled(w) => w.lib.external /\ w.lib.initialized /\ Reader(w, n)
    BY <1>1 DEF Settled, NoCare, OneCare, Reader
  <2>3. Known(w) => Calm(w) /\ SettledAt(w)
    BY <1>1, Levels DEF Holds, PlaceInv
  <2>4. Known(w) => Connection(w, n) /\ w.lib.clientFD \in {-1, n}
    BY <1>1, <2>1, <2>2, <2>3 DEF SettledAt, Reader
  <2> QED
    BY <1>1, <2>1, <2>2, <2>4 DEF TheReader, Settled
<1>2. CASE m = [at |-> "read", prev |-> n]
  <2>1. m.at = "read" /\ m.prev = n
    BY <1>2
  <2> QED
    BY <2>1 DEF Holds, CareInv, PlaceInv, TheReader, Reading
<1> QED
  BY <1>1, <1>2

\* The thread found a PDU.
LEMMA ReadKeeps ==
    ASSUME NEW w, NEW m, Holds(w, m), NEW n, TheReader(w, m, n),
           HasPDU(w, w.lib.clientFD), NEW r, Runs(w, n, r),
           NEW u \in TakePDU(r, w.lib.clientFD), NEW v, WaitsAgain(u, n, v)
    PROVE  Holds(v, Idler)
<1>1. PICK pdu : pdu = FirstPDU(r, w.lib.clientFD)
  OBVIOUS
<1>2. Sane(r) /\ HasPDU(r, w.lib.clientFD)
  BY DEF Runs, HasPDU, Connection
<1>3. PICK t : /\ Takes(r, w.lib.clientFD, t)
               /\ pdu \in {"response", "error", "goodbye", "notice"}
               /\ pdu = "response" => Answers(t, u) /\ u.lib.established
               /\ pdu = "notice" => Answers(t, u) /\ u.lib.established = t.lib.established
               /\ pdu = "goodbye" => Leaves(t, u)
               /\ pdu = "error" => Fails(t, u)
  BY <1>1, <1>2, TakePDUEffect
<1>4. /\ t.fds = w.fds /\ t.lib = w.lib /\ t.mishaps = w.mishaps
      /\ t.thr.rq = n /\ t.thr.readers = w.thr.readers \ {n}
      /\ t.thr.timers = w.thr.timers
      /\ HasConn(w) /\ HasConn(t) /\ w.lib.clientFD \in Descriptors
      /\ TheConn(t).session = TheConn(w).session
      /\ TheConn(w).down # <<>> /\ pdu = Head(TheConn(w).down)
      /\ \A d : Connection(t, d) <=> Connection(w, d)
  BY <1>1, <1>3 DEF Takes, Runs, TheConn, HasConn, HasPDU, Connection, FirstPDU
<1>5. /\ Known(w) => Calm(w)
      /\ Careful(w) => Known(w)
      /\ Polite(w) => Known(w)
      /\ w.mishaps \subseteq v.mishaps =>
            /\ Calm(v) => Calm(w)
            /\ Known(v) => Known(w)
            /\ Careful(v) => Careful(w)
            /\ Polite(v) => Polite(w)
  BY Levels
<1>6. Calm(w) => /\ NoCare(t) /\ w.lib.external /\ w.lib.initialized
                 /\ ~w.lib.established => pdu = "goodbye"
  <2>1. Refused(TheConn(w)) => pdu = "goodbye"
    BY <1>4, FirstOfGreeting
  <2> QED
    BY <1>4, <2>1 DEF TheReader, Reader, NoCare
<1>7. Known(w) => Connection(w, n) /\ w.lib.clientFD = n /\ m.at = "idle"
  BY <1>4, Facts DEF TheReader
<1>8. Careful(w) => /\ w.mishaps \cap Harms = {}
                    /\ w.lib.oldFD # -1 => Connection(w, w.lib.oldFD)
  BY DEF Holds, HarmInv
<1>9. Sane(v)
  BY DEF WaitsAgain
<1>10. NoCare(u) => Reader(v, n)
  BY DEF WaitsAgain, NoCare, Reader
<1>11. CASE pdu \in {"response", "notice"}
  <2>1. /\ v.fds = w.fds /\ v.net = t.net /\ v.mishaps = w.mishaps
        /\ v.thr.rq = n /\ (NoCare(t) => NoCare(u))
        /\ v.lib.initialized = w.lib.initialized /\ v.lib.external = w.lib.external
        /\ v.lib.clientFD = w.lib.clientFD /\ v.lib.oldFD = w.lib.oldFD
        /\ v.lib.established \/ (pdu = "notice" /\ v.lib.established = w.lib.established)
    <3>1. Answers(t, u)
      BY <1>3, <1>11
    <3>2. /\ u.fds = w.fds /\ u.net = t.net /\ u.mishaps = w.mishaps /\ u.thr = t.thr
          /\ u.lib.initialized = w.lib.initialized /\ u.lib.external = w.lib.external
          /\ u.lib.clientFD = w.lib.clientFD /\ u.lib.oldFD = w.lib.oldFD
      BY <1>4, <3>1 DEF Answers
    <3>3. /\ v.fds = u.fds /\ v.net = u.net /\ v.mishaps = u.mishaps /\ v.lib = u.lib
          /\ v.thr.rq = u.thr.rq
      BY DEF WaitsAgain
    <3>4. u.lib.established \/ (pdu = "notice" /\ u.lib.established = w.lib.established)
      <4>1. CASE pdu = "response"
        BY <1>3, <4>1
      <4>2. CASE pdu = "notice"
        <5>1. u.lib.established = t.lib.established /\ t.lib = w.lib
          BY <1>3, <1>4, <4>2
        <5> QED
          BY <4>2, <5>1
      <4> QED
        BY <1>11, <4>1, <4>2
    <3> QED
      BY <1>4, <3>2, <3>3, <3>4 DEF NoCare
  <2>2. /\ Calm(v) => Calm(w)
        /\ Known(v) => Known(w)
        /\ Careful(v) => Careful(w)
        /\ Polite(v) => Polite(w)
    BY <1>5, <2>1
  <2>3. Calm(v) => /\ v.lib.established /\ v.lib.external /\ v.lib.initialized
                   /\ Reader(v, n)
    BY <1>6, <1>10, <2>1, <2>2
  <2>4. CareInv(v, Idler)
    BY <2>3, IdlerIsMode DEF CareInv, Settled, OneCare, TheReader
  <2>5. \A d : Connection(v, d) <=> Connection(w, d)
    BY <2>1 DEF Connection
  <2>6. Known(v) => SettledAt(v)
    <3>1. ASSUME Known(v)
          PROVE  SettledAt(v)
      <4>1. v.lib.established /\ v.thr.readers = {n} /\ v.thr.timers = 0
        BY <1>5, <2>2, <2>3, <3>1, Levels DEF Reader
      <4>2. Connection(v, n) /\ v.lib.clientFD = n
        BY <1>7, <2>1, <2>2, <2>5, <3>1
      <4> QED
        BY <4>1, <4>2 DEF SettledAt
    <3> QED
      BY <3>1
  <2>7. PlaceInv(v, Idler)
    BY <2>6, IdlerIsMode DEF PlaceInv
  <2>8. HarmInv(v, Idler)
    BY <1>8, <2>1, <2>2, <2>5, IdlerIsMode DEF HarmInv
  <2>9. GreetInv(v, Idler)
    <3>1. TheConn(v).session = TheConn(w).session
      BY <1>4, <2>1 DEF TheConn
    <3>2. Polite(w) => TheConn(w).session # "none"
      BY <1>4, <1>5, <1>7 DEF Holds, GreetInv
    <3> QED
      BY <2>2, <3>1, <3>2 DEF GreetInv
  <2> QED
    BY <1>9, <2>4, <2>7, <2>8, <2>9, IdlerIsMode DEF Holds
<1>12. CASE pdu = "goodbye"
  <2>1. /\ Leaves(t, u) /\ v.fds = u.fds /\ v.lib = u.lib /\ v.mishaps = u.mishaps
        /\ v.thr.rq = t.thr.rq /\ (NoCare(t) => NoCare(u))
    BY <1>3, <1>12 DEF WaitsAgain, Leaves, NoCare
  <2>2. /\ ~v.lib.established /\ v.lib.clientFD = -1 /\ ~HasConn(v)
        /\ w.mishaps \subseteq v.mishaps
        /\ v.lib.initialized = w.lib.initialized /\ v.lib.external = w.lib.external
        /\ v.lib.oldFD \in {w.lib.oldFD, -1}
    BY <1>4, <2>1, Facts DEF Leaves, HasConn, Connection
  <2>3. /\ Calm(v) => Calm(w)
        /\ Known(v) => Known(w)
        /\ Careful(v) => Careful(w)
        /\ Known(v) => Calm(v)
    BY <1>5, <2>2, Levels
  <2>4. Calm(v) => v.lib.external /\ v.lib.initialized /\ Reader(v, n)
    BY <1>6, <1>10, <2>1, <2>2, <2>3
  <2>5. CareInv(v, Idler)
    BY <2>2, <2>4, IdlerIsMode DEF CareInv, Settled, OneCare, TheReader
  <2>6. Calm(v) => v.mishaps = w.mishaps /\ \A d : Connection(v, d) <=> Connection(w, d)
    BY <1>4, <1>6, <2>1, <2>3 DEF Leaves, Connection
  <2>7. Known(v) => SettledAt(v)
    BY <1>7, <2>2, <2>3, <2>4, <2>6 DEF SettledAt, Reader
  <2>8. PlaceInv(v, Idler)
    BY <2>7, IdlerIsMode DEF PlaceInv
  <2>9. HarmInv(v, Idler)
    <3>1. Careful(v) => Calm(v)
      BY Levels
    <3> QED
      BY <1>8, <2>2, <2>3, <2>6, <3>1, IdlerIsMode DEF HarmInv
  <2>10. GreetInv(v, Idler)
    BY <2>2 DEF GreetInv
  <2> QED
    BY <1>9, <2>5, <2>8, <2>9, <2>10, IdlerIsMode DEF Holds
<1>13. CASE pdu = "error"
  <2>1. /\ v.lib = w.lib /\ w.mishaps \subseteq v.mishaps /\ "error" \in v.mishaps
        /\ NoCare(t) => NoCare(u)
    BY <1>3, <1>4, <1>13 DEF WaitsAgain, Fails
  <2>2. ~Known(v) /\ ~Careful(v) /\ ~Polite(v) /\ (Calm(v) => Calm(w))
    BY <1>5, <2>1 DEF Known, Careful, Polite, Spared
  <2>3. Calm(v) => /\ v.lib.established /\ v.lib.external /\ v.lib.initialized
                   /\ Reader(v, n)
    BY <1>6, <1>10, <1>13, <2>1, <2>2
  <2>4. CareInv(v, Idler)
    BY <2>3, IdlerIsMode DEF CareInv, Settled, OneCare, TheReader
  <2> QED
    BY <1>9, <2>2, <2>4, IdlerIsMode DEF Holds, PlaceInv, HarmInv, GreetInv
<1> QED
  BY <1>3, <1>11, <1>12, <1>13

\* The thread found the end of the connection.
LEMMA EndedKeeps ==
    ASSUME NEW w, NEW m, Holds(w, m), NEW n, TheReader(w, m, n),
           NEW r, Runs(w, n, r), NEW x,
           x = IF Usable(w, w.lib.clientFD) /\ w.fds[w.lib.clientFD] = Other
               THEN Note(r, "read") ELSE r,
           NEW l, Forgets(x, l), NEW s, Cancels(l, s), NEW v, TimerStarts(s, v)
    PROVE  Holds(v, Idler)
<1>1. /\ x.lib = w.lib /\ x.thr = r.thr /\ x.fds = w.fds /\ w.mishaps \subseteq x.mishaps
      /\ ~(Usable(w, w.lib.clientFD) /\ w.fds[w.lib.clientFD] = Other) =>
            x.mishaps = w.mishaps
  <2>1. CASE Usable(w, w.lib.clientFD) /\ w.fds[w.lib.clientFD] = Other
    <3>1. Notes(r, "read", x)
      BY <2>1, NoteEffect DEF Runs, Harms
    <3> QED
      BY <2>1, <3>1 DEF Notes, Runs
  <2>2. CASE ~(Usable(w, w.lib.clientFD) /\ w.fds[w.lib.clientFD] = Other)
    BY <2>2 DEF Runs
  <2> QED
    BY <2>1, <2>2
<1>2. /\ Sane(v) /\ v.fds = w.fds /\ v.mishaps = x.mishaps
      /\ v.lib.initialized = w.lib.initialized /\ v.lib.external = w.lib.external
      /\ v.lib.clientFD = -1 /\ v.lib.oldFD = w.lib.oldFD
      /\ v.thr.rq = n /\ ~HasConn(v)
  BY <1>1, Facts DEF Runs, Forgets, Cancels, TimerStarts, HasConn, Connection
<1>3. /\ Calm(v) => Calm(w)
      /\ Known(v) => Known(w)
      /\ Careful(v) => Careful(w)
      /\ Known(v) => Calm(v)
      /\ Careful(w) => Known(w)
  BY <1>1, <1>2, Levels
<1>4. Calm(v) => /\ v.lib.external /\ v.lib.initialized
                 /\ v.thr.readers = {} /\ v.thr.timers = 1
  <2>1. Reader(w, n) => NoCare(r)
    BY DEF Runs, Reader, NoCare
  <2>2. NoCare(r) => NoCare(s)
    BY <1>1 DEF Forgets, Cancels, NoCare
  <2>3. NoCare(s) => v.thr.readers = {} /\ v.thr.timers = 1
    BY DEF TimerStarts, NoCare
  <2> QED
    BY <1>2, <1>3, <2>1, <2>2, <2>3 DEF TheReader
<1>5. CareInv(v, Idler)
  BY <1>2, <1>4, IdlerIsMode DEF CareInv, Settled, OneCare
<1>6. \A d : Connection(v, d) <=> Connection(w, d)
  BY <1>2 DEF Connection
<1>7. PlaceInv(v, Idler)
  BY <1>2, <1>3, <1>4, <1>6, IdlerIsMode DEF PlaceInv, SettledAt, TheReader
<1>8. Known(w) => ~(Usable(w, w.lib.clientFD) /\ w.fds[w.lib.clientFD] = Other)
  BY Facts DEF TheReader, Usable, Connection
<1>9. HarmInv(v, Idler)
  BY <1>1, <1>2, <1>3, <1>6, <1>8, IdlerIsMode DEF Holds, HarmInv
<1>10. GreetInv(v, Idler)
  BY <1>2 DEF GreetInv
<1> QED
  BY <1>2, <1>5, <1>7, <1>9, <1>10, IdlerIsMode DEF Holds

\* The read thread, in each of its three outcomes.
LEMMA RespawnKeeps ==
    ASSUME ClientInv, NEW n \in Descriptors, respawnReceivePacket(n)
    PROVE  Holds(World', mode')
<1>1. PICK w : w = World
  OBVIOUS
<1>2. PICK fd : fd = w.lib.clientFD
  OBVIOUS
<1>3. PICK r : r = Running(w, n)
  OBVIOUS
<1>4. PICK x : x = IF Usable(w, fd) /\ w.fds[fd] = Other THEN Note(r, "read") ELSE r
  OBVIOUS
<1>5. PICK l : l = Lost(x)
  OBVIOUS
<1>6. /\ \/ mode.at = "idle" /\ n \in w.thr.readers /\ Readable(w, n)
         \/ mode = [at |-> "read", prev |-> n]
      /\ \/ /\ HasPDU(w, fd)
            /\ Continue(IdleAll({Waiting(u, n) : u \in TakePDU(r, fd)}))
         \/ Continue(IdleAll({Timing(s) : s \in IF w.thr.current = NULL THEN {l}
                                                ELSE CancelCurrent(l)}))
         \/ /\ Usable(w, fd) /\ ~Readable(w, fd) /\ mode.at = "idle"
            /\ Continue({<<w, [at |-> "read", prev |-> n]>>})
  BY <1>1, <1>2, <1>3, <1>4, <1>5, WorldIsShaped
     DEF respawnReceivePacket, Running, Waiting, Timing
<1>7. Holds(w, mode) /\ Sane(w)
  BY <1>1 DEF ClientInv, Holds
<1>8. TheReader(w, mode, n)
  BY <1>6, <1>7, IsTheReader
<1>9. Runs(w, n, r)
  BY <1>3, <1>7, RunsEffect
<1>10. CASE /\ HasPDU(w, fd)
            /\ Continue(IdleAll({Waiting(u, n) : u \in TakePDU(r, fd)}))
  <2>1. SUFFICES ASSUME NEW u \in TakePDU(r, fd)
                 PROVE  Holds(Waiting(u, n), Idler)
    <3>1. \A o \in IdleAll({Waiting(u, n) : u \in TakePDU(r, fd)}) :
              \E u \in TakePDU(r, fd) : o = <<Waiting(u, n), Idler>>
      BY DEF IdleAll, Idler
    <3>2. \A o \in IdleAll({Waiting(u, n) : u \in TakePDU(r, fd)}) : Holds(o[1], o[2])
      BY <2>1, <3>1
    <3> QED
      BY <1>10, <3>2, ContinueKeeps
  <2>2. Sane(r) /\ HasPDU(r, fd)
    BY <1>9, <1>10 DEF Runs, HasPDU, Connection
  <2>3. Sane(u)
    <3>1. PICK t : \/ Answers(t, u) \/ Leaves(t, u) \/ Fails(t, u)
      BY <2>2, TakePDUEffect
    <3> QED
      BY <3>1 DEF Answers, Leaves, Fails
  <2>4. PICK v : v = Waiting(u, n)
    OBVIOUS
  <2>5. WaitsAgain(u, n, v)
    BY <2>3, <2>4, WaitsAgainEffect
  <2> QED
    BY <1>2, <1>7, <1>8, <1>9, <1>10, <2>4, <2>5, ReadKeeps
<1>11. CASE Continue(IdleAll({Timing(s) : s \in IF w.thr.current = NULL THEN {l}
                                                ELSE CancelCurrent(l)}))
  <2>1. PICK S : S = IF w.thr.current = NULL THEN {l} ELSE CancelCurrent(l)
    OBVIOUS
  <2>2. SUFFICES ASSUME NEW s \in S
                 PROVE  Holds(Timing(s), Idler)
    <3>1. \A o \in IdleAll({Timing(s) : s \in S}) : \E s \in S : o = <<Timing(s), Idler>>
      BY DEF IdleAll, Idler
    <3>2. \A o \in IdleAll({Timing(s) : s \in S}) : Holds(o[1], o[2])
      BY <2>2, <3>1
    <3> QED
      BY <1>11, <2>1, <3>2, ContinueKeeps
  <2>3. Sane(x)
    BY <1>4, <1>9, NoteEffect DEF Runs, Notes, Harms
  <2>4. Forgets(x, l)
    BY <1>5, <2>3, LostEffect
  <2>5. Cancels(l, s)
    <3>1. Sane(l)
      BY <2>4 DEF Forgets
    <3>2. CASE s = l
      BY <3>1, <3>2 DEF Cancels
    <3>3. CASE s \in CancelCurrent(l)
      BY <3>1, <3>3, CancelCurrentEffect
    <3> QED
      BY <2>1, <2>2, <3>2, <3>3
  <2>6. PICK v : v = Timing(s)
    OBVIOUS
  <2>7. TimerStarts(s, v)
    BY <2>5, <2>6, TimerStartsEffect DEF Cancels
  <2> QED
    BY <1>2, <1>4, <1>7, <1>8, <1>9, <2>4, <2>5, <2>6, <2>7, EndedKeeps
<1>12. CASE /\ Usable(w, fd) /\ ~Readable(w, fd) /\ mode.at = "idle"
            /\ Continue({<<w, [at |-> "read", prev |-> n]>>})
  <2>1. PICK m : m = [at |-> "read", prev |-> n]
    OBVIOUS
  <2>2. m \in Mode /\ m.at = "read" /\ m.prev = n
    BY <2>1 DEF Mode, Numbers
  <2>3. fd \in Descriptors
    BY <1>12 DEF Usable
  <2>4. ~Known(w)
    <3>1. Readable(w, n)
      BY <1>6, <1>12
    <3> QED
      BY <1>2, <1>8, <1>12, <2>3, <3>1, Facts DEF TheReader
  <2>5. CareInv(w, m)
    BY <1>8, <2>2 DEF CareInv, TheReader, Reading
  <2>6. PlaceInv(w, m) /\ HarmInv(w, m) /\ GreetInv(w, m)
    BY <2>4, Levels DEF PlaceInv, HarmInv, GreetInv
  <2>7. \A o \in {<<w, m>>} : Holds(o[1], o[2])
    BY <1>7, <2>2, <2>5, <2>6 DEF Holds
  <2> QED
    BY <1>12, <2>1, <2>7, ContinueKeeps
<1> QED
  BY <1>6, <1>10, <1>11, <1>12

-----------------------------------------------------------------------------
(* Requests, and the other parts of the router.                              *)

\* A request more is in the queue, which grows no further than past its limit.
Queued(w) == [w EXCEPT !.lib.queue = Min({@ + 1, MAX_SEND_QUEUE + 1})]

LEMMA QueuedEffect ==
    ASSUME NEW w, Sane(w), NEW v, v = Queued(w)
    PROVE  Alike(w, v)
<1>0. w \in Worlds /\ w.lib \in Library
  BY WorldFields DEF Sane
<1>1. w.lib.queue \in Nat /\ MAX_SEND_QUEUE \in Nat
  BY <1>0, ClientAssumption DEF Library
<1>2. PICK q : q = Min({w.lib.queue + 1, MAX_SEND_QUEUE + 1})
  OBVIOUS
<1>3. q \in 0 .. MAX_SEND_QUEUE + 1
  <2>1. {w.lib.queue + 1, MAX_SEND_QUEUE + 1} \subseteq Nat
    BY <1>1
  <2>2. /\ q \in {w.lib.queue + 1, MAX_SEND_QUEUE + 1}
        /\ q <= MAX_SEND_QUEUE + 1
    BY <1>2, <2>1, MinIsMember
  <2> QED
    BY <1>1, <2>2
<1>4. PICK l : l = [w.lib EXCEPT !.queue = q]
  OBVIOUS
<1>5. /\ l \in Library /\ l.initialized = w.lib.initialized /\ l.stop = w.lib.stop
      /\ l.established = w.lib.established /\ l.external = w.lib.external
      /\ l.clientFD = w.lib.clientFD /\ l.oldFD = w.lib.oldFD
  BY <1>0, <1>3, <1>4 DEF Library
<1>6. v = [w EXCEPT !.lib = l]
  BY <1>0, <1>2, <1>4 DEF Queued, Worlds
<1>7. /\ v \in Worlds /\ v.fds = w.fds /\ v.thr = w.thr /\ v.net = w.net
      /\ v.mishaps = w.mishaps /\ v.lib = l
  BY <1>0, <1>5, <1>6, LibReplaced
<1> QED
  BY <1>5, <1>7 DEF Alike, Sane

\* A request that could not be sent: the session counts as lost.
Unasked(w) == [Note(w, "requestFailed") EXCEPT !.lib.established = FALSE]

LEMMA UnaskedEffect ==
    ASSUME NEW w, Sane(w), NEW u \in threadControlCall(Unasked(w), "lost"),
           NEW v, v = Queued(u)
    PROVE  Holds(v, Idler)
<1>1. PICK n : n = Note(w, "requestFailed")
  OBVIOUS
<1>2. Notes(w, "requestFailed", n)
  BY <1>1, NoteEffect DEF Troubles
<1>3. n \in Worlds /\ n.lib \in Library
  BY <1>2, WorldFields DEF Notes, Sane
<1>4. PICK l : l = [n.lib EXCEPT !.established = FALSE]
  OBVIOUS
<1>5. l \in Library
  BY <1>3, <1>4 DEF Library
<1>6. PICK f : f = Unasked(w)
  OBVIOUS
<1>7. f = [n EXCEPT !.lib = l]
  BY <1>1, <1>3, <1>4, <1>6 DEF Unasked, Worlds
<1>8. /\ f \in Worlds /\ f.fds = n.fds /\ f.net = n.net /\ f.mishaps = n.mishaps
  BY <1>3, <1>5, <1>7, LibReplaced
<1>9. Sane(f) /\ "requestFailed" \in f.mishaps
  BY <1>2, <1>8 DEF Notes, Sane
<1>10. Controls(f, "lost", u)
  BY <1>6, <1>9, ThreadControlCallEffect
<1>11. Sane(u) /\ ~Calm(u)
  BY <1>9, <1>10 DEF Controls, Calm, Spared
<1>12. Holds(u, Idler)
  BY <1>11, IdlerIsMode, NothingKnown
<1> QED
  BY <1>11, <1>12, QueuedEffect, AlikeHolds

\* The request is sent on the connection that the router reads.
LEMMA SentEffect ==
    ASSUME NEW w, Holds(w, Idler), w.lib.clientFD # -1, NEW v, v = Send(w, "request"),
           ~v.lib.sendError
    PROVE  Alike(w, v)
<1>1. Sane(w)
  BY DEF Holds
<1>2. Sends(w, v)
  BY <1>1, SendEffect
<1>3. Careful(w) => Connection(w, w.lib.clientFD)
  <2>1. Careful(w) => SettledAt(w)
    BY Levels, IdlerIsMode DEF Holds, PlaceInv
  <2> QED
    BY <2>1 DEF SettledAt
<1>4. Careful(w) => v.mishaps = w.mishaps
  BY <1>2, <1>3, Facts DEF Sends, Connection
<1> QED
  BY <1>2, <1>4 DEF Sends, Alike, Undisturbed

\* The router waits for room in the queue that nobody makes.
LEMMA HungHolds ==
    ASSUME NEW w, Holds(w, Idler), NEW v, v = Note(w, "queueFull"),
           NEW m, m = [at |-> "hung", prev |-> 0]
    PROVE  Holds(v, m)
<1>1. m \in Mode /\ m.at = "hung"
  BY DEF Mode
<1>2. Notes(w, "queueFull", v)
  BY NoteEffect DEF Holds, Troubles
<1>3. Careful(v) => Careful(w)
  BY <1>2, Levels DEF Notes
<1>4. \A n : Connection(v, n) <=> Connection(w, n)
  BY <1>2 DEF Notes, Connection
<1>5. v.mishaps \cap Harms = w.mishaps \cap Harms
  BY <1>2 DEF Notes, Harms
<1>6. HarmInv(v, m)
  BY <1>1, <1>2, <1>3, <1>4, <1>5, IdlerIsMode DEF Holds, HarmInv, Notes
<1> QED
  BY <1>1, <1>2, <1>6 DEF Holds, CareInv, PlaceInv, GreetInv, Notes

\* A request is queued, sent, or lost with the session.
LEMMA VerifyUpdateKeeps ==
    ASSUME ClientInv, verifyUpdate
    PROVE  Holds(World', mode')
<1>1. PICK w : w = World
  OBVIOUS
<1>2. PICK s : s = Send(w, "request")
  OBVIOUS
<1>3. PICK m : m = [at |-> "hung", prev |-> 0]
  OBVIOUS
<1>4. /\ mode.at = "idle"
      /\ \/ Continue(Idle(Queued(w)))
         \/ \E x \in {w, s} :
               Continue(IdleAll({Queued(u) : u \in threadControlCall(Unasked(x), "lost")}))
         \/ Continue({<<Note(w, "queueFull"), m>>})
         \/ w.lib.clientFD # -1 /\ ~s.lib.sendError /\ Continue(Idle(s))
  BY <1>1, <1>2, <1>3, WorldIsShaped DEF verifyUpdate, Queued, Unasked
<1>5. Holds(w, Idler) /\ Sane(w)
  BY <1>1, <1>4, AnyIdler DEF ClientInv, Holds
<1>6. CASE Continue(Idle(Queued(w)))
  <2>1. \A o \in Idle(Queued(w)) : Holds(o[1], o[2])
    BY <1>5, QueuedEffect, AlikeHolds DEF Idle, Idler
  <2> QED
    BY <1>6, <2>1, ContinueKeeps
<1>7. CASE \E x \in {w, s} :
               Continue(IdleAll({Queued(u) : u \in threadControlCall(Unasked(x), "lost")}))
  <2>1. PICK x \in {w, s} :
               Continue(IdleAll({Queued(u) : u \in threadControlCall(Unasked(x), "lost")}))
    BY <1>7
  <2>2. Sane(x)
    BY <1>2, <1>5, SendEffect DEF Sends
  <2>3. \A o \in IdleAll({Queued(u) : u \in threadControlCall(Unasked(x), "lost")}) :
            \E u \in threadControlCall(Unasked(x), "lost") : o = <<Queued(u), Idler>>
    BY DEF IdleAll, Idler
  <2>4. \A o \in IdleAll({Queued(u) : u \in threadControlCall(Unasked(x), "lost")}) :
            Holds(o[1], o[2])
    BY <2>2, <2>3, UnaskedEffect
  <2> QED
    BY <2>1, <2>4, ContinueKeeps
<1>8. CASE Continue({<<Note(w, "queueFull"), m>>})
  <2>1. \A o \in {<<Note(w, "queueFull"), m>>} : Holds(o[1], o[2])
    BY <1>3, <1>5, HungHolds
  <2> QED
    BY <1>8, <2>1, ContinueKeeps
<1>9. CASE w.lib.clientFD # -1 /\ ~s.lib.sendError /\ Continue(Idle(s))
  <2>1. \A o \in Idle(s) : Holds(o[1], o[2])
    BY <1>2, <1>5, <1>9, SentEffect, AlikeHolds DEF Idle, Idler
  <2> QED
    BY <1>9, <2>1, ContinueKeeps
<1> QED
  BY <1>4, <1>6, <1>7, <1>8, <1>9

\* The loop of the router ends.
LEMMA SelectFailsKeeps ==
    ASSUME ClientInv, SelectFails
    PROVE  Holds(World', mode')
<1>1. mode' \in Mode /\ mode'.at = "gone" /\ World' = World /\ mode.at = "idle"
  BY DEF SelectFails, Mode, World
<1> QED
  BY <1>1 DEF ClientInv, Holds, CareInv, PlaceInv, HarmInv, GreetInv

\* What others do: the router's connections keep their descriptors, and what they
\* hold stays a greeting or a refusal where it was one.
Alongside(w, v) ==
    /\ Sane(v) /\ v.lib = w.lib /\ v.thr = w.thr /\ v.mishaps = w.mishaps
    /\ \A n \in Descriptors : w.fds[n] \in Conns \/ v.fds[n] \in Conns => v.fds[n] = w.fds[n]
    /\ \A c \in Conns : w.net[c].state # "left" =>
          /\ Refused(w.net[c]) => Refused(v.net[c])
          /\ Greeting(w.net[c]) => Greeting(v.net[c])
          /\ w.net[c].session # "none" => v.net[c].session # "none"

LEMMA AlongsideHolds ==
    ASSUME NEW w, NEW m, Holds(w, m), NEW v, Alongside(w, v)
    PROVE  Holds(v, m)
<1>1. /\ Calm(v) <=> Calm(w)
      /\ Known(v) <=> Known(w)
      /\ Careful(v) <=> Careful(w)
      /\ Polite(v) <=> Polite(w)
  BY Levels DEF Alongside
<1>2. /\ HasConn(v) <=> HasConn(w)
      /\ \A n : Connection(v, n) <=> Connection(w, n)
      /\ NoCare(v) <=> NoCare(w)
      /\ OneCare(v) <=> OneCare(w)
      /\ \A n : Reader(v, n) <=> Reader(w, n)
  BY DEF Alongside, HasConn, Connection, NoCare, OneCare, Reader
<1>3. HasConn(w) => /\ Refused(TheConn(w)) => Refused(TheConn(v))
                    /\ Greeting(TheConn(w)) => Greeting(TheConn(v))
                    /\ TheConn(w).session # "none" => TheConn(v).session # "none"
  <2>1. ASSUME HasConn(w)
        PROVE  /\ Refused(TheConn(w)) => Refused(TheConn(v))
               /\ Greeting(TheConn(w)) => Greeting(TheConn(v))
               /\ TheConn(w).session # "none" => TheConn(v).session # "none"
    <3>1. PICK c \in Conns : c = w.fds[w.lib.clientFD]
      BY <2>1 DEF HasConn, Connection
    <3>2. TheConn(w) = w.net[c] /\ TheConn(v) = v.net[c]
      BY <2>1, <3>1 DEF Alongside, TheConn, HasConn, Connection
    <3>3. w.net[c].state # "left"
      BY <2>1, <3>1 DEF HasConn, Connection, Holds, Sane, Linked
    <3> QED
      BY <3>2, <3>3 DEF Alongside
  <2> QED
    BY <2>1
<1>4. Settled(w) => Settled(v)
  BY <1>2, <1>3 DEF Settled, Alongside
<1>5. Shaking(w, m) => Shaking(v, m)
  BY <1>2, <1>3 DEF Shaking, Alongside
<1>6. Reading(w, m) => Reading(v, m)
  BY <1>2, <1>3 DEF Reading, Alongside
<1>7. CareInv(v, m)
  BY <1>1, <1>4, <1>5, <1>6 DEF Holds, CareInv
<1>8. SettledAt(w) => SettledAt(v)
  BY <1>2 DEF SettledAt, Alongside
<1>9. ShakingAt(w, m) => ShakingAt(v, m)
  BY <1>2 DEF ShakingAt, Alongside
<1>10. PlaceInv(v, m)
  BY <1>1, <1>8, <1>9 DEF Holds, PlaceInv
<1>11. HarmInv(v, m)
  BY <1>1, <1>2 DEF Holds, HarmInv, Alongside
<1>12. GreetInv(v, m)
  BY <1>1, <1>2, <1>3 DEF Holds, GreetInv
<1> QED
  BY <1>7, <1>10, <1>11, <1>12 DEF Holds, Alongside

\* Another part of the router takes the lowest descriptor that is free.
LEMMA OtherOpensKeeps ==
    ASSUME ClientInv, OtherOpens
    PROVE  Holds(World', mode')
<1>1. PICK n : n = Min(FreeNumbers(World))
  OBVIOUS
<1>2. n \in Descriptors /\ fds[n] = Free
  <2>1. FreeNumbers(World) \subseteq Nat /\ FreeNumbers(World) # {}
    BY Facts DEF FreeNumbers, OtherOpens
  <2>2. n \in FreeNumbers(World)
    BY <1>1, <2>1, MinIsMember
  <2> QED
    BY <2>2, WorldIsShaped DEF FreeNumbers
<1>3. /\ fds' = [fds EXCEPT ![n] = Other] /\ mode' = mode
      /\ lib' = lib /\ thr' = thr /\ net' = net /\ mishaps' = mishaps
  BY <1>1 DEF OtherOpens
<1>4. PICK v : v = World'
  OBVIOUS
<1>5. /\ v.fds = [fds EXCEPT ![n] = Other] /\ v.lib = lib /\ v.thr = thr /\ v.net = net
      /\ v.mishaps = mishaps /\ Shaped(v)
  BY <1>3, <1>4 DEF World, Shaped
<1>6. Holds(World, mode) /\ Sane(World) /\ World \in Worlds
  BY DEF ClientInv, Holds, Sane
<1>7. /\ v.fds \in [Descriptors -> Conns \cup {Free, Other}]
      /\ v.fds[n] = Other /\ \A d \in Descriptors : d # n => v.fds[d] = fds[d]
  BY <1>2, <1>5, <1>6, WorldFields, WorldIsShaped
<1>8. v \in Worlds
  BY <1>5, <1>6, <1>7, ShapedIsWorld, WorldFields, WorldIsShaped
<1>9. Linked(v.fds, v.net)
  BY <1>5, <1>6, <1>7, Facts, WorldIsShaped DEF Sane, Linked
<1>10. Alongside(World, v)
  BY <1>2, <1>5, <1>7, <1>8, <1>9, Facts, WorldIsShaped DEF Alongside, Sane
<1> QED
  BY <1>3, <1>4, <1>6, <1>10, AlongsideHolds

LEMMA OtherClosesKeeps ==
    ASSUME ClientInv, NEW n \in Descriptors, OtherCloses(n)
    PROVE  Holds(World', mode')
<1>1. /\ fds[n] = Other /\ fds' = [fds EXCEPT ![n] = Free] /\ mode' = mode
      /\ lib' = lib /\ thr' = thr /\ net' = net /\ mishaps' = mishaps
  BY DEF OtherCloses
<1>2. PICK v : v = World'
  OBVIOUS
<1>3. /\ v.fds = [fds EXCEPT ![n] = Free] /\ v.lib = lib /\ v.thr = thr /\ v.net = net
      /\ v.mishaps = mishaps /\ Shaped(v)
  BY <1>1, <1>2 DEF World, Shaped
<1>4. Holds(World, mode) /\ Sane(World) /\ World \in Worlds
  BY DEF ClientInv, Holds, Sane
<1>5. /\ v.fds \in [Descriptors -> Conns \cup {Free, Other}]
      /\ v.fds[n] = Free /\ \A d \in Descriptors : d # n => v.fds[d] = fds[d]
  BY <1>3, <1>4, WorldFields, WorldIsShaped
<1>6. v \in Worlds
  BY <1>3, <1>4, <1>5, ShapedIsWorld, WorldFields, WorldIsShaped
<1>7. Linked(v.fds, v.net)
  BY <1>3, <1>4, <1>5, Facts, WorldIsShaped DEF Sane, Linked
<1>8. Alongside(World, v)
  BY <1>1, <1>3, <1>5, <1>6, <1>7, Facts, WorldIsShaped DEF Alongside, Sane
<1> QED
  BY <1>1, <1>2, <1>4, <1>8, AlongsideHolds

-----------------------------------------------------------------------------
(* The server and the network.                                               *)

\* What may become of a connection without the router.
Advances(k, l) ==
    /\ l \in Conn
    /\ l.session = "over" => l.state # "open"
    /\ k.state # "left" =>
          /\ l.state # "left"
          /\ Refused(k) => Refused(l)
          /\ Greeting(k) => Greeting(l)
          /\ k.session # "none" => l.session # "none"

LEMMA UnchangedAdvances ==
    ASSUME NEW k \in Conn, k.session = "over" => k.state # "open"
    PROVE  Advances(k, k)
BY DEF Advances

\* A step of the server alone.
LEMMA ServerKeeps ==
    ASSUME ClientInv, UNCHANGED <<fds, lib, thr, mode, mishaps>>,
           NEW K, K = net', K = [c \in Conns |-> K[c]],
           \A c \in Conns : Advances(net[c], K[c])
    PROVE  Holds(World', mode')
<1>1. PICK v : v = World'
  OBVIOUS
<1>2. /\ v.fds = fds /\ v.lib = lib /\ v.thr = thr /\ v.net = K
      /\ v.mishaps = mishaps /\ Shaped(v) /\ mode' = mode
  BY <1>1 DEF World, Shaped
<1>3. Holds(World, mode) /\ Sane(World) /\ World \in Worlds
  BY DEF ClientInv, Holds, Sane
<1>4. K \in [Conns -> Conn]
  BY DEF Advances
<1>5. v \in Worlds
  BY <1>2, <1>3, <1>4, ShapedIsWorld, WorldFields, WorldIsShaped
<1>6. Linked(v.fds, v.net)
  <2>1. Linked(fds, net)
    BY <1>3, WorldIsShaped DEF Sane
  <2> QED
    BY <1>2, <2>1 DEF Linked, Advances
<1>7. Alongside(World, v)
  BY <1>2, <1>5, <1>6, WorldIsShaped DEF Alongside, Sane, Advances
<1> QED
  BY <1>1, <1>2, <1>3, <1>7, AlongsideHolds

LEMMA NetFacts ==
    ASSUME ClientInv
    PROVE  /\ net \in [Conns -> Conn]
           /\ \A c \in Conns : net[c].session = "over" => net[c].state # "open"
BY WorldFields, WorldIsShaped DEF ClientInv, Holds, Sane, Linked

\* One connection changes.
LEMMA OneAdvances ==
    ASSUME ClientInv, UNCHANGED <<fds, lib, thr, mode, mishaps>>,
           NEW c \in Conns, NEW l, Advances(net[c], l), net' = [net EXCEPT ![c] = l]
    PROVE  Holds(World', mode')
<1>1. PICK K : K = net'
  OBVIOUS
<1>2. K = [d \in Conns |-> K[d]] /\ K[c] = l /\ \A d \in Conns \ {c} : K[d] = net[d]
  BY <1>1, NetFacts
<1>3. \A d \in Conns : Advances(net[d], K[d])
  BY <1>2, NetFacts, UnchangedAdvances
<1> QED
  BY <1>1, <1>2, <1>3, ServerKeeps

Words == {"response", "error", "goodbye", "notice"}

LEMMA TellFacts ==
    /\ \A s \in Seq(Words), t \in Seq(Words) : s \o t \in Seq(Words)
    /\ \A s \in Seq(Words) : <<>> \o s = s
    /\ <<"response">> \in Seq(Words) /\ <<"goodbye">> \in Seq(Words)
    /\ <<"error", "goodbye">> \in Seq(Words)
    /\ <<"response">> \o <<"goodbye">> = <<"response", "goodbye">>
<1>1. \A s \in Seq(Words), t \in Seq(Words) : s \o t \in Seq(Words)
  BY ConcatProperties
<1>2. \A s \in Seq(Words) : <<>> \o s = s
  BY ConcatEmptySeq
<1>3. <<"response">> \in Seq(Words) /\ <<"goodbye">> \in Seq(Words)
  BY DEF Words
<1>4. <<"error", "goodbye">> \in Seq(Words)
  BY DEF Words
<1>5. <<"response">> \o <<"goodbye">> = <<"response", "goodbye">>
  <2>1. PICK a \in Seq(Words), b \in Seq(Words) : a = <<"response">> /\ b = <<"goodbye">>
    BY <1>3
  <2>2. PICK t \in Seq(Words) : t = <<"response", "goodbye">>
    <3>1. <<"response", "goodbye">> \in Seq(Words)
      BY DEF Words
    <3> QED
      BY <3>1
  <2>3. /\ Len(a) = 1 /\ a[1] = "response" /\ Len(b) = 1 /\ b[1] = "goodbye"
        /\ Len(t) = 2 /\ t[1] = "response" /\ t[2] = "goodbye"
    BY <2>1, <2>2
  <2>4. PICK s \in Seq(Words) : s = a \o b
    BY <1>1
  <2>5. Len(s) = 2 /\ s[1] = "response" /\ s[2] = "goodbye"
    BY <2>3, <2>4, ConcatProperties
  <2>6. s = t
    BY <2>3, <2>5, SeqEqual
  <2> QED
    BY <2>1, <2>2, <2>4, <2>6
<1> QED
  BY <1>1, <1>2, <1>3, <1>4, <1>5

LEMMA ConnFields ==
    ASSUME NEW k \in Conn
    PROVE  /\ k.up \in Seq({"hello", "goodbye"}) /\ k.down \in Seq(Words)
           /\ k.state \in {"open", "left", "fin", "reset"}
           /\ k.session \in {"none", "greeted", "over"}
           /\ k = [up |-> k.up, state |-> k.state, down |-> k.down, session |-> k.session]
BY DEF Conn, Words

\* A HELLO is answered or refused, a GOODBYE ends the session.
LEMMA ServeKeeps ==
    ASSUME ClientInv, NEW c \in Conns, Serve(c)
    PROVE  Holds(World', mode')
<1>1. PICK k : k = net[c]
  OBVIOUS
<1>2. k \in Conn /\ (k.session = "over" => k.state # "open")
  BY <1>1, NetFacts
<1>3. PICK ended : ended = IF k.state = "open" THEN "fin" ELSE k.state
  OBVIOUS
<1>4. /\ k.up # <<>> /\ k.state \in {"open", "left"}
      /\ UNCHANGED <<fds, lib, thr, mode, mishaps>>
  BY <1>1 DEF Serve, Server
<1>5. ended \in {"open", "left", "fin", "reset"} /\ ended # "open"
      /\ (k.state = "open" => ended = "fin")
  BY <1>3, <1>4
<1>6. PICK rest \in Seq({"hello", "goodbye"}) : rest = Tail(k.up)
  BY <1>2, <1>4, ConnFields, HeadTailProperties
<1>7. PICK l : /\ net' = [net EXCEPT ![c] = l]
               /\ \/ /\ Head(k.up) = "goodbye" \/ k.session # "none"
                     /\ l = [k EXCEPT !.up = rest,
                               !.session = IF Head(k.up) = "goodbye" THEN "over" ELSE @,
                               !.state = IF Head(k.up) = "goodbye" THEN ended ELSE @]
                  \/ /\ k.session = "none"
                     /\ l = [k EXCEPT !.up = rest, !.session = "over", !.state = ended,
                                      !.down = Tell(k, <<"error", "goodbye">>)]
                  \/ /\ k.session = "none"
                     /\ l = [k EXCEPT !.up = rest, !.session = "greeted",
                                      !.down = Tell(k, <<"response">>)]
  BY <1>1, <1>3, <1>6 DEF Serve
<1>8. CASE /\ Head(k.up) = "goodbye" \/ k.session # "none"
           /\ l = [k EXCEPT !.up = rest,
                     !.session = IF Head(k.up) = "goodbye" THEN "over" ELSE @,
                     !.state = IF Head(k.up) = "goodbye" THEN ended ELSE @]
  <2>1. /\ l \in Conn /\ l.down = k.down
        /\ l.session = IF Head(k.up) = "goodbye" THEN "over" ELSE k.session
        /\ l.state = IF Head(k.up) = "goodbye" THEN ended ELSE k.state
    BY <1>2, <1>5, <1>8 DEF Conn
  <2>2. Advances(k, l)
    BY <1>2, <1>4, <1>5, <2>1 DEF Advances, Refused, Greeting
  <2> QED
    BY <1>1, <1>4, <1>7, <2>2, OneAdvances
<1>9. CASE /\ k.session = "none"
           /\ l = [k EXCEPT !.up = rest, !.session = "over", !.state = ended,
                            !.down = Tell(k, <<"error", "goodbye">>)]
  <2>1. PICK d : d = Tell(k, <<"error", "goodbye">>)
    OBVIOUS
  <2>2. d \in Seq(Words)
    BY <1>2, <2>1, ConnFields, TellFacts DEF Tell
  <2>3. l \in Conn /\ l.down = d /\ l.session = "over" /\ l.state = ended
    BY <1>2, <1>5, <1>9, <2>1, <2>2 DEF Conn, Words
  <2>4. k.state = "open" /\ k.down = <<>> => d = <<"error", "goodbye">>
    BY <2>1, TellFacts DEF Tell
  <2>5. Advances(k, l)
    BY <1>4, <1>5, <1>9, <2>3, <2>4 DEF Advances, Refused, Greeting
  <2> QED
    BY <1>1, <1>4, <1>7, <2>5, OneAdvances
<1>10. CASE /\ k.session = "none"
            /\ l = [k EXCEPT !.up = rest, !.session = "greeted",
                             !.down = Tell(k, <<"response">>)]
  <2>1. PICK d : d = Tell(k, <<"response">>)
    OBVIOUS
  <2>2. d \in Seq(Words)
    BY <1>2, <2>1, ConnFields, TellFacts DEF Tell
  <2>3. l \in Conn /\ l.down = d /\ l.session = "greeted" /\ l.state = k.state
    BY <1>2, <1>10, <2>1, <2>2 DEF Conn, Words
  <2>4. k.state = "open" /\ k.down = <<>> => d = <<"response">>
    BY <2>1, TellFacts DEF Tell
  <2>5. Advances(k, l)
    BY <1>4, <1>10, <2>3, <2>4 DEF Advances, Refused, Greeting
  <2> QED
    BY <1>1, <1>4, <1>7, <2>5, OneAdvances
<1> QED
  BY <1>7, <1>8, <1>9, <1>10

\* Only a session that was answered, and read, is notified.
LEMMA NotifyKeeps ==
    ASSUME ClientInv, NEW c \in Conns, NEW pdu \in {"notice", "error"}, Notify(c, pdu)
    PROVE  Holds(World', mode')
<1>1. PICK k : k = net[c]
  OBVIOUS
<1>2. k \in Conn
  BY <1>1, NetFacts
<1>3. /\ k.session = "greeted" /\ k.state = "open" /\ k.down = <<>>
      /\ UNCHANGED <<fds, lib, thr, mode, mishaps>>
  BY <1>1 DEF Notify, Server
<1>4. PICK d : d = Append(k.down, pdu)
  OBVIOUS
<1>5. PICK l : l = [k EXCEPT !.down = d]
  OBVIOUS
<1>6. net' = [net EXCEPT ![c] = l]
  <2>1. net' = [net EXCEPT ![c].down = Append(@, pdu)]
    BY DEF Notify
  <2> QED
    BY <1>1, <1>4, <1>5, <2>1, NetFacts
<1>7. d \in Seq(Words)
  BY <1>2, <1>4, ConnFields, AppendProperties DEF Words
<1>8. l \in Conn /\ l.state = "open" /\ l.session = "greeted"
  BY <1>2, <1>3, <1>5, <1>7 DEF Conn, Words
<1>9. Advances(k, l)
  BY <1>3, <1>8 DEF Advances, Refused, Greeting
<1> QED
  BY <1>1, <1>3, <1>6, <1>9, OneAdvances

\* The server sees the end of a connection.
LEMMA SeesEndKeeps ==
    ASSUME ClientInv, NEW c \in Conns, SeesEnd(c)
    PROVE  Holds(World', mode')
<1>1. PICK k : k = net[c]
  OBVIOUS
<1>2. k \in Conn
  BY <1>1, NetFacts
<1>3. k.state \in {"left", "reset"} /\ UNCHANGED <<fds, lib, thr, mode, mishaps>>
  BY <1>1 DEF SeesEnd, Server
<1>4. PICK l : l = [k EXCEPT !.up = <<>>, !.session = "over"]
  OBVIOUS
<1>5. net' = [net EXCEPT ![c] = l]
  <2>1. net' = [net EXCEPT ![c].up = <<>>, ![c].session = "over"]
    BY DEF SeesEnd
  <2> QED
    BY <1>1, <1>4, <2>1, NetFacts
<1>6. l \in Conn /\ l.state = k.state /\ l.session = "over" /\ l.down = k.down
  BY <1>2, <1>4, EmptyIsSeq DEF Conn
<1>7. Advances(k, l)
  BY <1>3, <1>6 DEF Advances, Refused, Greeting
<1> QED
  BY <1>1, <1>3, <1>5, <1>7, OneAdvances

\* A connection breaks.
LEMMA CutKeeps ==
    ASSUME ClientInv, NEW c \in Conns, Cut(c)
    PROVE  Holds(World', mode')
<1>1. PICK k : k = net[c]
  OBVIOUS
<1>2. k \in Conn
  BY <1>1, NetFacts
<1>3. UNCHANGED <<fds, lib, thr, mode, mishaps>>
  BY DEF Cut, Server
<1>4. PICK l : l = [k EXCEPT !.state = "reset", !.up = <<>>]
  OBVIOUS
<1>5. net' = [net EXCEPT ![c] = l]
  <2>1. net' = [net EXCEPT ![c].state = "reset", ![c].up = <<>>]
    BY DEF Cut
  <2> QED
    BY <1>1, <1>4, <2>1, NetFacts
<1>6. l \in Conn /\ l.state = "reset" /\ l.session = k.session /\ l.down = k.down
  BY <1>2, <1>4, EmptyIsSeq DEF Conn
<1>7. Advances(k, l)
  BY <1>6 DEF Advances, Refused, Greeting
<1> QED
  BY <1>1, <1>3, <1>5, <1>7, OneAdvances

\* The server ends, with a GOODBYE or without.
LEMMA ServerStopsKeeps ==
    ASSUME ClientInv, ServerStops
    PROVE  Holds(World', mode')
<1>1. PICK how \in {"fin", "reset"}, said \in BOOLEAN :
          net' = [c \in Conns |->
              [up |-> <<>>,
               down |-> IF said /\ net[c].session = "greeted" THEN Tell(net[c], <<"goodbye">>)
                        ELSE net[c].down,
               state |-> IF net[c].state = "open" THEN how ELSE net[c].state,
               session |-> IF net[c].session = "greeted" THEN "over" ELSE net[c].session]]
  BY DEF ServerStops
<1>2. UNCHANGED <<fds, lib, thr, mode, mishaps>>
  BY DEF ServerStops, Server
<1>3. PICK K : K = net'
  OBVIOUS
<1>4. K = [c \in Conns |-> K[c]]
  BY <1>1, <1>3
<1>5. ASSUME NEW c \in Conns
      PROVE  Advances(net[c], K[c])
  <2>1. PICK k : k = net[c]
    OBVIOUS
  <2>2. k \in Conn
    BY <2>1, NetFacts
  <2>3. PICK d : d = IF said /\ k.session = "greeted" THEN Tell(k, <<"goodbye">>) ELSE k.down
    OBVIOUS
  <2>4. PICK s : s = IF k.state = "open" THEN how ELSE k.state
    OBVIOUS
  <2>5. PICK e : e = IF k.session = "greeted" THEN "over" ELSE k.session
    OBVIOUS
  <2>6. PICK l : l = [up |-> <<>>, down |-> d, state |-> s, session |-> e]
    OBVIOUS
  <2>7. K[c] = l
    BY <1>1, <1>3, <2>1, <2>3, <2>4, <2>5, <2>6
  <2>8. d \in Seq(Words)
    BY <2>2, <2>3, ConnFields, TellFacts DEF Tell
  <2>9. s \in {"left", "fin", "reset"} /\ (k.state # "left" => s # "left")
    BY <2>2, <2>4, ConnFields
  <2>10. e \in {"none", "over"} /\ (k.session # "none" => e = "over")
         /\ (k.session = "none" => e = "none")
    BY <2>2, <2>5, ConnFields
  <2>11. l \in Conn /\ l.down = d /\ l.state = s /\ l.session = e
    BY <2>6, <2>8, <2>9, <2>10, EmptyIsSeq DEF Conn, Words
  <2>12. /\ k.session # "greeted" => d = k.down
         /\ k.down = <<"response">> => d \in {<<"response">>, <<"response", "goodbye">>}
    BY <2>3, TellFacts DEF Tell
  <2>13. Advances(k, l)
    BY <2>9, <2>10, <2>11, <2>12 DEF Advances, Refused, Greeting
  <2> QED
    BY <2>1, <2>7, <2>13
<1> QED
  BY <1>2, <1>3, <1>4, <1>5, ServerKeeps

LEMMA ServerStartsKeeps ==
    ASSUME ClientInv, ServerStarts
    PROVE  Holds(World', mode')
<1>1. World' = World /\ mode' = mode
  BY DEF ServerStarts, Server, World
<1> QED
  BY <1>1 DEF ClientInv

-----------------------------------------------------------------------------
(* The invariant and what follows from it.                                   *)

\* At the start nobody is connected and nothing went wrong.
LEMMA InitHolds == ClientInit => ClientInv
<1> SUFFICES ASSUME ClientInit
             PROVE  ClientInv
  OBVIOUS
<1>1. PICK w : w = World
  OBVIOUS
<1>2. /\ w.fds = [n \in Descriptors |-> Free] /\ w.lib = NewProxy
      /\ w.thr = [rq |-> 0, readers |-> {}, timers |-> 0, current |-> NULL, tries |-> 0,
                  on |-> FALSE]
      /\ w.net = [c \in Conns |-> [NewConn EXCEPT !.state = "left"]]
      /\ w.mishaps = {} /\ mode = Idler /\ Shaped(w)
  BY <1>1 DEF ClientInit, World, Idler, Shaped
<1>3. w.fds \in [Descriptors -> Conns \cup {Free, Other}]
  BY <1>2
<1>4. PICK k : k = [NewConn EXCEPT !.state = "left"]
  OBVIOUS
<1>5. k \in Conn /\ k.session = "none"
  BY <1>4, EmptyIsSeq DEF NewConn, Conn
<1>6. w.net \in [Conns -> Conn] /\ \A c \in Conns : w.net[c].session = "none"
  BY <1>2, <1>4, <1>5
<1>7. w.lib \in Library
  BY <1>2, ClientAssumption DEF NewProxy, Library, Numbers
<1>8. /\ ~w.lib.initialized /\ ~w.lib.established /\ ~w.lib.external
      /\ w.lib.clientFD = -1 /\ w.lib.oldFD = -1
  BY <1>2 DEF NewProxy
<1>9. w.thr \in Threads /\ NoCare(w)
  BY <1>2 DEF Threads, NoCare
<1>10. w \in Worlds
  BY <1>2, <1>3, <1>6, <1>7, <1>9, ShapedIsWorld
<1>11. Linked(w.fds, w.net)
  BY <1>2, <1>6, Facts DEF Linked
<1>12. ~HasConn(w)
  BY <1>8, Facts DEF HasConn, Connection
<1>13. CareInv(w, Idler)
  BY <1>8, <1>9, <1>12, IdlerIsMode DEF CareInv, Settled
<1>14. PlaceInv(w, Idler)
  BY <1>8, <1>9, IdlerIsMode DEF PlaceInv, SettledAt, NoCare
<1>15. HarmInv(w, Idler)
  BY <1>2, <1>8, IdlerIsMode DEF HarmInv
<1>16. GreetInv(w, Idler)
  BY <1>12 DEF GreetInv
<1>17. Holds(w, Idler)
  BY <1>10, <1>11, <1>13, <1>14, <1>15, <1>16, IdlerIsMode DEF Holds, Sane
<1>18. listening \in BOOLEAN /\ faults \in 0 .. MaxFaults
  BY ClientAssumption DEF ClientInit
<1> QED
  BY <1>1, <1>2, <1>17, <1>18 DEF ClientInv

\* A mishap is counted up to the bound.
LEMMA FaultCounted ==
    ASSUME faults \in 0 .. MaxFaults, faults < MaxFaults, faults' = faults + 1
    PROVE  faults' \in 0 .. MaxFaults
BY ClientAssumption

LEMMA CountersKept ==
    ASSUME ClientInv, ClientNext
    PROVE  listening' \in BOOLEAN /\ faults' \in 0 .. MaxFaults
<1>1. listening \in BOOLEAN /\ faults \in 0 .. MaxFaults
  BY DEF ClientInv
<1>2. \/ UNCHANGED faults
      \/ faults < MaxFaults /\ faults' = faults + 1
  BY DEF ClientNext, RouterNext, ServerNext, Connect, checkClientConnection,
         HandshakeRead, HandshakeAlarm, SelectFails, respawnReceivePacket, verifyUpdate,
         ServerStops, ServerStarts, Serve, SeesEnd, Cut, Notify, OtherOpens, OtherCloses,
         Fault
<1>3. listening' \in BOOLEAN
  BY <1>1 DEF ClientNext, RouterNext, ServerNext, Connect, checkClientConnection,
         HandshakeRead, HandshakeAlarm, SelectFails, respawnReceivePacket, verifyUpdate,
         ServerStops, ServerStarts, Serve, SeesEnd, Cut, Notify, OtherOpens, OtherCloses,
         Continue
<1> QED
  BY <1>1, <1>2, <1>3, FaultCounted

\* Every action keeps the invariant.
LEMMA NextHolds ==
    ASSUME ClientInv, ClientNext
    PROVE  Holds(World', mode')
<1>1. CASE Connect
  BY <1>1, ConnectKeeps
<1>2. CASE checkClientConnection
  BY <1>2, CheckClientConnectionKeeps
<1>3. CASE HandshakeRead
  BY <1>3, HandshakeReadKeeps
<1>4. CASE HandshakeAlarm
  BY <1>4, HandshakeAlarmKeeps
<1>5. CASE SelectFails
  BY <1>5, SelectFailsKeeps
<1>6. CASE \E n \in Descriptors : respawnReceivePacket(n)
  BY <1>6, RespawnKeeps
<1>7. CASE verifyUpdate
  BY <1>7, VerifyUpdateKeeps
<1>8. CASE ServerStops
  BY <1>8, ServerStopsKeeps
<1>9. CASE ServerStarts
  BY <1>9, ServerStartsKeeps
<1>10. CASE \E c \in Conns : Serve(c)
  BY <1>10, ServeKeeps
<1>11. CASE \E c \in Conns : SeesEnd(c)
  BY <1>11, SeesEndKeeps
<1>12. CASE \E c \in Conns : Cut(c)
  BY <1>12, CutKeeps
<1>13. CASE \E c \in Conns : Notify(c, "notice") \/ Notify(c, "error")
  BY <1>13, NotifyKeeps
<1>14. CASE OtherOpens
  BY <1>14, OtherOpensKeeps
<1>15. CASE \E n \in Descriptors : OtherCloses(n)
  BY <1>15, OtherClosesKeeps
<1> QED
  BY <1>1, <1>2, <1>3, <1>4, <1>5, <1>6, <1>7, <1>8,
     <1>9, <1>10, <1>11, <1>12, <1>13, <1>14, <1>15
     DEF ClientNext, RouterNext, ServerNext

\* The invariant is inductive.
LEMMA StepHolds == ClientInv /\ [ClientNext]_vars => ClientInv'
<1> SUFFICES ASSUME ClientInv, [ClientNext]_vars
             PROVE  ClientInv'
  OBVIOUS
<1>1. CASE ClientNext
  <2>1. Holds(World', mode')
    BY <1>1, NextHolds
  <2>2. Holds(World, mode)'
    BY <2>1
  <2> QED
    BY <1>1, <2>2, CountersKept DEF ClientInv
<1>2. CASE UNCHANGED vars
  <2>1. /\ World' = World /\ mode' = mode /\ listening' = listening /\ faults' = faults
    BY <1>2 DEF vars, World
  <2> QED
    BY <2>1 DEF ClientInv
<1> QED
  BY <1>1, <1>2

\* Whatever the server, the network and other parts of the router do, the
\* connection, its threads and its descriptors satisfy the inductive invariant.
THEOREM ClientInvariant == ClientSpec => []ClientInv
<1>1. ClientInit => ClientInv
  BY InitHolds
<1>2. ClientInv /\ [ClientNext]_vars => ClientInv'
  BY StepHolds
<1> QED
  BY <1>1, <1>2, PTL DEF ClientSpec

\* Every variable has its type, however descriptors and connections are used again.
THEOREM ClientTypesCorrect == ClientSpec => []ClientTypeOK
<1>1. ClientInv => ClientTypeOK
  BY WorldFields, WorldIsShaped DEF ClientInv, Holds, Sane, ClientTypeOK
<1> QED
  BY <1>1, ClientInvariant, PTL

\* The router has one thread that takes care of its connection, for all descriptors
\* and connections, unless it gave up or a request failed.
THEOREM ConnectionHasOneCaretaker == ClientSpec => []OneCaretaker
<1>1. ClientInv => OneCaretaker
  <2> SUFFICES ASSUME ClientInv, mode.at = "idle", lib.external,
                      ~Had({"gaveUp", "requestFailed"})
               PROVE  Cardinality(thr.readers) + thr.timers = 1
    BY DEF OneCaretaker
  <2>1. Calm(World)
    BY WorldIsShaped DEF Had, Calm, Spared
  <2>2. OneCare(World)
    BY <2>1, WorldIsShaped DEF ClientInv, Holds, CareInv, Settled
  <2>3. CASE thr.readers = {} /\ thr.timers = 1
    <3>1. Cardinality(thr.readers) = 0
      BY <2>3, FS_EmptySet
    <3> QED
      BY <2>3, <3>1
  <2>4. CASE \E n \in Descriptors : thr.readers = {n} /\ thr.timers = 0
    <3>1. Cardinality(thr.readers) = 1
      BY <2>4, FS_Singleton
    <3> QED
      BY <2>4, <3>1
  <2> QED
    BY <2>2, <2>3, <2>4, WorldIsShaped DEF OneCare, Reader
<1> QED
  BY <1>1, ClientInvariant, PTL

\* The router touches no descriptor of its other parts, whatever numbers are kept,
\* forgotten and used again, unless it gave up, a handshake timed out, an error PDU
\* came or a request failed.
THEOREM OthersAreUntouched == ClientSpec => []OthersUntouched
<1>1. ClientInv => OthersUntouched
  <2> SUFFICES ASSUME ClientInv, ~Had({"gaveUp", "timedOut", "error", "requestFailed"})
               PROVE  mishaps \cap Harms = {}
    BY DEF OthersUntouched
  <2>1. Careful(World)
    BY WorldIsShaped DEF Had, Careful, Spared
  <2> QED
    BY <2>1, WorldIsShaped DEF ClientInv, Holds, HarmInv
<1> QED
  BY <1>1, ClientInvariant, PTL

\* A router that takes itself for connected has a connection on which the server
\* greeted it, or which is not open any more, unless it gave up, could not send its
\* GOODBYE, received an error PDU or failed to send a request.
THEOREM ConnectedIsGreeted == ClientSpec => []GreetedIfUp
<1>1. ClientInv => GreetedIfUp
  <2> SUFFICES ASSUME ClientInv, Up, ~Had({"gaveUp", "skipped", "error", "requestFailed"})
               PROVE  /\ Connection(World, lib.clientFD)
                      /\ net[fds[lib.clientFD]].state = "open" =>
                            net[fds[lib.clientFD]].session = "greeted"
    BY DEF GreetedIfUp
  <2>1. Polite(World) /\ Known(World)
    BY WorldIsShaped DEF Had, Polite, Known, Spared
  <2>2. SettledAt(World) /\ lib.clientFD # -1 /\ mode.at = "idle"
    BY <2>1 DEF ClientInv, Holds, PlaceInv, Up
  <2>3. Connection(World, lib.clientFD)
    BY <2>2, WorldIsShaped DEF SettledAt
  <2>4. net[fds[lib.clientFD]].session # "none"
    BY <2>1, <2>2, <2>3, WorldIsShaped DEF ClientInv, Holds, GreetInv, HasConn, TheConn
  <2>5. PICK c \in Conns : c = fds[lib.clientFD]
    BY <2>3, WorldIsShaped DEF Connection
  <2>6. net[c] \in Conn /\ (net[c].session = "over" => net[c].state # "open")
    BY NetFacts
  <2> QED
    BY <2>3, <2>4, <2>5, <2>6, ConnFields
<1> QED
  BY <1>1, ClientInvariant, PTL
================================================================================
