------------------------------ MODULE ProxyMap ------------------------------
(***************************************************************************)
(* The map from proxies to client IDs of the SRx server:                   *)
(*   srx-server/src/server/server_connection_handler.c                     *)
(* and the part of the handshake that uses it (_processHandshake of        *)
(* command_handler.c).                                                     *)
(*                                                                         *)
(* proxyMap is an array indexed by client ID; element 0 must not be used.  *)
(* The time stamp "crashed" is reduced to whether it is set, and the field *)
(* updateCount, which only the update cache reads, is a variable of        *)
(* ClientSessions.tla.  The code counts the mappings it ever installed in  *)
(* the uint8_t noMappings and never decrements it; here "added" counts     *)
(* them without wrapping and noMappings is its value modulo CounterSize.   *)
(***************************************************************************)
EXTENDS Integers, FiniteSets

CONSTANTS
    MaxElements,    \* MAX_PROXY_CLIENT_ELEMENTS, 256 in the code
    CounterSize,    \* values of the uint8_t noMappings, 256 in the code
    MaxAdditions,   \* bound: mappings a behaviour may install
    Mapping,        \* the configured proxy of each client ID, 0 for none
    HelloIDs,       \* the proxy identifiers HELLO packets carry
    Sockets,        \* connections (ClientThread pointers)
    NoSocket        \* the NULL pointer

ClientIDs == 1 .. MaxElements - 1
Slots     == 0 .. MaxElements - 1

ASSUME MapAssumption ==
    /\ MaxElements \in Nat \ {0, 1}
    /\ CounterSize \in Nat \ {0}
    /\ MaxAdditions \in Nat
    /\ Mapping \in [ClientIDs -> Nat]
    /\ HelloIDs \subseteq Nat
    /\ NoSocket \notin Sockets

VARIABLES
    proxyMap,       \* the array, indexed by client ID
    added           \* how often addMapping incremented noMappings

mapVars == <<proxyMap, added>>

noMappings == added % CounterSize

Entry == [proxyID : Nat, socket : Sockets \cup {NoSocket}, isActive : BOOLEAN,
          preDefined : BOOLEAN, crashed : BOOLEAN]

-----------------------------------------------------------------------------
(* Lookups.                                                                *)

Occupied == {c \in ClientIDs : proxyMap[c].proxyID # 0}

Least(S) == CHOOSE c \in S : \A d \in S : c <= d

\* Mutant: the first noMappings elements are searched, occupied or not.
Found_ByIndex(p) == {c \in ClientIDs : proxyMap[c].proxyID = p /\ c <= noMappings}

\* The scan stops once it has seen noMappings occupied elements, so it finds
\* an element only if that is among the first noMappings occupied ones.
Found(p) ==
    {c \in ClientIDs :
        /\ proxyMap[c].proxyID = p
        /\ Cardinality({d \in Occupied : d <= c}) <= noMappings}

findClientID(p) == IF p = 0 \/ Found(p) = {} THEN 0 ELSE Least(Found(p))

createClientID ==
    IF ClientIDs \ Occupied = {} THEN 0 ELSE Least(ClientIDs \ Occupied)

\* Mutants: a known proxy is always accepted, or only from its old connection.
CanMap_Always(p, c, s) ==
    \/ findClientID(p) = 0 /\ proxyMap[c].proxyID = 0 /\ ~proxyMap[c].isActive
    \/ findClientID(p) = c
CanMap_SameSocket(p, c, s) ==
    \/ findClientID(p) = 0 /\ proxyMap[c].proxyID = 0 /\ ~proxyMap[c].isActive
    \/ findClientID(p) = c /\ proxyMap[c].socket = s

\* addMapping's verdict; its five error cases EM1 .. EM5 are the rest.
CanMap(p, c, s) ==
    \/ /\ findClientID(p) = 0
       /\ proxyMap[c].proxyID = 0
       /\ ~proxyMap[c].isActive
    \/ /\ findClientID(p) = c
       /\ proxyMap[c].isActive => proxyMap[c].socket = s

\* The client ID the handshake of proxy p proposes to addMapping.
Candidate(p) == IF findClientID(p) # 0 THEN findClientID(p) ELSE createClientID

Accepts(p, s) == Candidate(p) # 0 /\ CanMap(p, Candidate(p), s)

-----------------------------------------------------------------------------
(* State changes.                                                          *)

addMapping(p, c, s, activate) ==
    /\ CanMap(p, c, s)
    /\ added' = IF proxyMap[c].proxyID = 0 THEN added + 1 ELSE added
    /\ added' <= MaxAdditions
    /\ proxyMap' = [proxyMap EXCEPT ![c] =
          [proxyID    |-> IF @.proxyID = 0 THEN p ELSE @.proxyID,
           socket     |-> s,
           isActive   |-> activate,
           preDefined |-> @.preDefined \/ ~activate,
           crashed    |-> FALSE]]

\* The accepted half of a handshake.
Register(p, s) == Accepts(p, s) /\ addMapping(p, Candidate(p), s, TRUE)

\* Mutants: the socket is dropped together with the proxy only; a crash is not
\* told from a goodbye.
deactivateConnectionMapping_KeepSocket(c, crashed) ==
    /\ proxyMap' = [proxyMap EXCEPT ![c] =
          [proxyID    |-> IF @.preDefined \/ crashed THEN @.proxyID ELSE 0,
           socket     |-> IF @.preDefined \/ crashed THEN @.socket ELSE NoSocket,
           isActive   |-> FALSE,
           preDefined |-> @.preDefined,
           crashed    |-> crashed]]
    /\ UNCHANGED added
deactivateConnectionMapping_Forget(c, crashed) ==
    /\ proxyMap' = [proxyMap EXCEPT ![c] =
          [proxyID    |-> IF @.preDefined THEN @.proxyID ELSE 0,
           socket     |-> NoSocket,
           isActive   |-> FALSE,
           preDefined |-> @.preDefined,
           crashed    |-> crashed]]
    /\ UNCHANGED added

\* deactivateConnectionMapping with the _delMapping it calls: a mapping that is
\* neither configured nor crashed is given up.  noMappings is left alone.
deactivateConnectionMapping(c, crashed) ==
    /\ proxyMap' = [proxyMap EXCEPT ![c] =
          [proxyID    |-> IF @.preDefined \/ crashed THEN @.proxyID ELSE 0,
           socket     |-> NoSocket,
           isActive   |-> FALSE,
           preDefined |-> @.preDefined,
           crashed    |-> crashed]]
    /\ UNCHANGED added

-----------------------------------------------------------------------------
(* configureProxyMap: the configured proxies in the order of their client  *)
(* IDs; a proxy listed twice keeps the first one (EM5 refuses the second). *)

Installed ==
    {c \in ClientIDs : Mapping[c] # 0 /\ \A d \in ClientIDs : d < c => Mapping[d] # Mapping[c]}

MapInit ==
    /\ proxyMap = [c \in Slots |->
          [proxyID    |-> IF c \in Installed THEN Mapping[c] ELSE 0,
           socket     |-> NoSocket,
           isActive   |-> FALSE,
           preDefined |-> c \in Installed,
           crashed    |-> FALSE]]
    /\ added = Cardinality(Installed)

MapNext ==
    \/ \E p \in HelloIDs, s \in Sockets : Register(p, s)
    \/ \E c \in Slots, crashed \in BOOLEAN : deactivateConnectionMapping(c, crashed)

MapSpec == MapInit /\ [][MapNext]_mapVars

-----------------------------------------------------------------------------
(* Properties.                                                             *)

\* Every field has its type and element 0 never names a proxy: client ID 0
\* means "none" everywhere else in the server.
MapTypeOK ==
    /\ proxyMap \in [Slots -> Entry]
    /\ added \in Nat
    /\ proxyMap[0].proxyID = 0

\* A proxy never holds two client IDs: the updates it registered under one
\* would be invisible under the other.  (findClientID's scan must see every
\* occupied element for this, also after elements were given up and reused.)
UniqueMapping ==
    \A c, d \in ClientIDs :
        proxyMap[c].proxyID # 0 /\ proxyMap[c].proxyID = proxyMap[d].proxyID => c = d

\* The handshake never turns a proxy away that has no active mapping while it
\* is known or a client ID is free: the only refusals are a second connection
\* of an active proxy and a full map.
NoSpuriousRefusal ==
    \A p \in HelloIDs :
        /\ \A c \in ClientIDs : proxyMap[c].proxyID = p => ~proxyMap[c].isActive
        /\ p \in {proxyMap[c].proxyID : c \in Occupied} \/ Occupied # ClientIDs
        => \A s \in Sockets : Accepts(p, s)

\* Only an active element holds a connection: a notification sent over a
\* connection that was given up would reach whoever uses it next.
SocketOnlyWhileActive ==
    \A c \in Slots : proxyMap[c].isActive <=> proxyMap[c].socket # NoSocket

\* A client ID changes hands only after its holder said goodbye: a crashed or
\* configured proxy finds its own client ID again, whatever happened between.
CrashedKeepsID ==
    [][\A c \in ClientIDs :
          proxyMap[c].proxyID # 0 /\ proxyMap'[c].proxyID # proxyMap[c].proxyID
          => ~proxyMap[c].preDefined /\ ~proxyMap'[c].crashed /\ proxyMap'[c].proxyID = 0]_mapVars

-----------------------------------------------------------------------------
(* The map implements the directory.                                       *)

Proxies == (HelloIDs \cup {Mapping[c] : c \in ClientIDs}) \ {0}

Holder(p) == {c \in ClientIDs : proxyMap[c].proxyID = p}

Directory == INSTANCE ProxyDirectory WITH
    Configured <- {Mapping[c] : c \in Installed},
    clientOf   <- [p \in Proxies |-> IF Holder(p) = {} THEN 0 ELSE Least(Holder(p))],
    session    <- [p \in Proxies |->
                      IF Holder(p) = {} THEN NoSocket ELSE proxyMap[Least(Holder(p))].socket]

\* Looked at from outside, the array with its scans and its counter behaves
\* like a directory that keeps proxies and client IDs in a partial injection.
ImplementsDirectory == Directory!Spec
=============================================================================
