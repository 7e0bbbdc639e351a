--------------------------- MODULE ProxyDirectory ---------------------------
(***************************************************************************)
(* What the proxy map of the SRx server promises, without its array.       *)
(*                                                                         *)
(* The server gives every SRx proxy (a router) a one-byte client ID during *)
(* the handshake and uses it from then on to register the router with its  *)
(* updates.  As a promise that is a partial injection from proxies to      *)
(* client IDs, plus the connection each proxy currently speaks over:       *)
(*   - a proxy that is admitted keeps the client ID it holds, if it holds  *)
(*     one, and otherwise receives one nobody holds;                       *)
(*   - a proxy that leaves either stays known (it crashed, or it was       *)
(*     configured) or is forgotten, and only then is its ID free again.    *)
(* ProxyMap.tla models the array of server_connection_handler.c and is     *)
(* shown to implement this module.                                         *)
(***************************************************************************)
EXTENDS Naturals

CONSTANTS
    Proxies,      \* the proxy identifiers in use, without 0
    ClientIDs,    \* the client identifiers that may be handed out
    Sockets,      \* the connections proxies may speak over
    NoSocket,     \* no connection
    Configured    \* the proxies the configuration file gives a fixed client ID

VARIABLES
    clientOf,     \* the client ID a proxy holds, 0 when it holds none
    session       \* the connection over which a proxy is active, or NoSocket

dirVars == <<clientOf, session>>

DirTypeOK ==
    /\ clientOf \in [Proxies -> ClientIDs \cup {0}]
    /\ session \in [Proxies -> Sockets \cup {NoSocket}]

Held == {clientOf[p] : p \in Proxies} \ {0}

Init ==
    /\ session = [p \in Proxies |-> NoSocket]
    /\ clientOf \in [Proxies -> ClientIDs \cup {0}]
    /\ \A p \in Proxies : clientOf[p] # 0 <=> p \in Configured
    /\ \A p, q \in Configured : clientOf[p] = clientOf[q] => p = q

\* A proxy without a session is admitted.  It keeps the ID it holds.
Admit(p, s) ==
    /\ session[p] \in {NoSocket, s}
    /\ session' = [session EXCEPT ![p] = s]
    /\ \/ /\ clientOf[p] # 0
          /\ UNCHANGED clientOf
       \/ /\ clientOf[p] = 0
          /\ \E c \in ClientIDs \ Held : clientOf' = [clientOf EXCEPT ![p] = c]

\* A session ends, or a session that ended before is ended once more; the
\* proxy stays known or, unless it is a configured one, is forgotten.
Leave(p) ==
    /\ clientOf[p] # 0
    /\ session' = [session EXCEPT ![p] = NoSocket]
    /\ \/ UNCHANGED clientOf
       \/ p \notin Configured /\ clientOf' = [clientOf EXCEPT ![p] = 0]

Next == \E p \in Proxies : Leave(p) \/ \E s \in Sockets : Admit(p, s)

Spec == Init /\ [][Next]_dirVars
=============================================================================
