------------------------ MODULE ClientSessionsProofs ------------------------
(***************************************************************************)
(* Proofs about ProxyMap.tla and ClientSessions.tla, for any number of     *)
(* client IDs, proxies and connections and any configuration: first about  *)
(* the map alone, then about the running server.  The sessions use the map *)
(* only as ProxyMap.tla says, so everything proved about the map alone     *)
(* holds for the map inside the server, whatever its threads do.           *)
(***************************************************************************)
EXTENDS ClientSessions, FiniteSetTheorems, SequenceTheorems, WellFoundedInduction, TLAPS

(***************************************************************************)
(* What the theorems below need and the code does not enforce: fewer       *)
(* mappings are ever installed than the uint8_t noMappings can count.      *)
(* Otherwise the counter wraps, the scan stops early and a proxy the map   *)
(* knows is given a second client ID.                                      *)
(***************************************************************************)
CounterNeverWraps ==
    MaxAdditions < CounterSize /\ Cardinality(Installed) < CounterSize

CountCoversOccupied ==
    /\ Cardinality(Occupied) <= added
    /\ added < CounterSize

\* UniqueMapping is not inductive by itself: a handshake creates a second
\* mapping as soon as the scan of findClientID stops too early, so the counter
\* must be known to cover the occupied elements.
MapInv ==
    /\ MapTypeOK
    /\ CountCoversOccupied
    /\ UniqueMapping

-----------------------------------------------------------------------------
(* Lemmas about the lookups.                                               *)

LEMMA LeastInSet ==
    ASSUME NEW S \in SUBSET Nat, S # {}
    PROVE  Least(S) \in S /\ \A d \in S : Least(S) <= d
<1>1. PICK c \in S : \A d \in S : ~(<<d, c>> \in OpToRel(<, Nat))
  BY NatLessThanWellFounded, WFMin
<1>2. \A d \in S : ~(d < c)
  BY <1>1, Zenon DEF OpToRel
<1>3. \A d \in S : c <= d
  BY <1>2
<1> QED
  BY <1>3 DEF Least

\* Any set of client IDs is finite, and those up to an index are no more.
LEMMA OccupiedFinite ==
    /\ IsFiniteSet(ClientIDs)
    /\ IsFiniteSet(Occupied)
    /\ \A c \in ClientIDs :
          Cardinality({d \in Occupied : d <= c}) \in Nat
          /\ Cardinality({d \in Occupied : d <= c}) <= Cardinality(Occupied)
<1>1. IsFiniteSet(ClientIDs)
  BY FS_Interval, MapAssumption DEF ClientIDs
<1>2. IsFiniteSet(Occupied)
  BY <1>1, FS_Subset DEF Occupied
<1>3. ASSUME NEW c \in ClientIDs
      PROVE  Cardinality({d \in Occupied : d <= c}) \in Nat
             /\ Cardinality({d \in Occupied : d <= c}) <= Cardinality(Occupied)
  <2>1. {d \in Occupied : d <= c} \in SUBSET Occupied
    OBVIOUS
  <2> QED
    BY <1>2, <2>1, FS_Subset, FS_CardinalityType
<1> QED
  BY <1>1, <1>2, <1>3

\* As long as the counter covers the occupied elements, the scan of
\* findClientID misses no element of the proxy.
LEMMA FoundIsHolder ==
    ASSUME CountCoversOccupied, added \in Nat, NEW p \in Nat
    PROVE  Found(p) = Holder(p)
<1>1. noMappings = added
  BY MapAssumption DEF noMappings, CountCoversOccupied
<1>2. Cardinality(Occupied) \in Nat
  BY OccupiedFinite, FS_CardinalityType
<1>3. \A c \in ClientIDs : Cardinality({d \in Occupied : d <= c}) <= noMappings
  BY <1>1, <1>2, OccupiedFinite DEF CountCoversOccupied
<1> QED
  BY <1>3 DEF Found, Holder

\* findClientID returns an element of the proxy if there is one, else 0.
LEMMA FindResult ==
    ASSUME NEW p \in Nat
    PROVE  \/ findClientID(p) \in Found(p) /\ p # 0
           \/ findClientID(p) = 0 /\ (p = 0 \/ Found(p) = {})
<1>1. Found(p) \in SUBSET Nat
  BY MapAssumption DEF Found, ClientIDs
<1> QED
  BY <1>1, LeastInSet DEF findClientID

\* createClientID returns a free element if there is one, else 0.
LEMMA CreateResult ==
    \/ createClientID \in ClientIDs \ Occupied
    \/ createClientID = 0 /\ ClientIDs \ Occupied = {}
<1>1. ClientIDs \ Occupied \in SUBSET Nat
  BY MapAssumption DEF ClientIDs
<1> QED
  BY <1>1, LeastInSet DEF createClientID

\* The client ID an accepted handshake uses: the one the proxy already has,
\* or a free one if the scan finds none.
LEMMA CandidateResult ==
    ASSUME NEW p \in Nat, NEW s, Accepts(p, s)
    PROVE  /\ Candidate(p) \in ClientIDs
           /\ \/ Candidate(p) \in Found(p) /\ p # 0
              \/ /\ p = 0 \/ Found(p) = {}
                 /\ proxyMap[Candidate(p)].proxyID = 0
<1>1. CASE findClientID(p) # 0
  BY <1>1, FindResult DEF Candidate, Accepts, Found
<1>2. CASE findClientID(p) = 0
  <2>1. 0 \notin ClientIDs
    BY MapAssumption DEF ClientIDs
  <2>2. p = 0 \/ Found(p) = {}
    BY <1>2, <2>1, FindResult DEF Found
  <2>3. Candidate(p) \in ClientIDs \ Occupied
    BY <1>2, CreateResult DEF Candidate, Accepts
  <2> QED
    BY <2>2, <2>3 DEF Occupied
<1> QED
  BY <1>1, <1>2

-----------------------------------------------------------------------------
(* What a step does to the array.                                          *)

\* An accepted handshake fills in one element and leaves the others alone; it
\* never overwrites another proxy.
LEMMA RegisterEffect ==
    ASSUME MapTypeOK, NEW p \in HelloIDs, NEW s \in Sockets, Register(p, s)
    PROVE  \E c \in ClientIDs :
              /\ \/ proxyMap[c].proxyID = p /\ p # 0 /\ added' = added
                 \/ proxyMap[c].proxyID = 0 /\ added' = added + 1
                    /\ (p = 0 \/ Found(p) = {})
              /\ added' <= MaxAdditions
              /\ proxyMap[c].isActive => proxyMap[c].socket = s
              /\ proxyMap' = [proxyMap EXCEPT ![c] =
                    [proxyID    |-> p,
                     socket     |-> s,
                     isActive   |-> TRUE,
                     preDefined |-> proxyMap[c].preDefined,
                     crashed    |-> FALSE]]
              /\ c = Candidate(p)
<1> DEFINE c == Candidate(p)
<1>1. p \in Nat /\ Accepts(p, s)
  BY MapAssumption DEF Register
<1>2. c \in ClientIDs
  BY <1>1, CandidateResult
<1>3. \/ c \in Found(p) /\ p # 0
      \/ (p = 0 \/ Found(p) = {}) /\ proxyMap[c].proxyID = 0
  BY <1>1, CandidateResult
<1>4. addMapping(p, c, s, TRUE)
  BY DEF Register
<1>5. proxyMap[c] \in Entry
  BY <1>2 DEF MapTypeOK, Slots, ClientIDs
<1>6. proxyMap[c].preDefined \in BOOLEAN
  BY <1>5 DEF Entry
<1>7. proxyMap[c].proxyID \in {0, p}
  BY <1>3 DEF Found
<1>8. proxyMap' = [proxyMap EXCEPT ![c] =
                    [proxyID    |-> p,
                     socket     |-> s,
                     isActive   |-> TRUE,
                     preDefined |-> proxyMap[c].preDefined,
                     crashed    |-> FALSE]]
  BY <1>4, <1>6, <1>7 DEF addMapping
<1>9. proxyMap[c].isActive => proxyMap[c].socket = s
  BY <1>1 DEF Accepts, CanMap
<1> QED
  BY <1>2, <1>3, <1>4, <1>8, <1>9 DEF addMapping, Found

\* Ending a session changes one element and never its proxy to another one.
LEMMA DeactivateEffect ==
    ASSUME MapTypeOK, NEW c \in Slots, NEW crashed \in BOOLEAN,
           deactivateConnectionMapping(c, crashed)
    PROVE  /\ added' = added
           /\ \E q \in {0, proxyMap[c].proxyID} :
                 /\ q = 0 \/ proxyMap[c].preDefined \/ crashed
                 /\ q # proxyMap[c].proxyID => ~proxyMap[c].preDefined /\ ~crashed
                 /\ proxyMap' = [proxyMap EXCEPT ![c] =
                      [proxyID    |-> q,
                       socket     |-> NoSocket,
                       isActive   |-> FALSE,
                       preDefined |-> proxyMap[c].preDefined,
                       crashed    |-> crashed]]
<1>1. proxyMap[c] \in Entry
  BY DEF MapTypeOK
<1>2. proxyMap[c].preDefined \in BOOLEAN
  BY <1>1 DEF Entry
<1> DEFINE q == IF proxyMap[c].preDefined \/ crashed THEN proxyMap[c].proxyID ELSE 0
<1>3. proxyMap' = [proxyMap EXCEPT ![c] =
                      [proxyID    |-> q,
                       socket     |-> NoSocket,
                       isActive   |-> FALSE,
                       preDefined |-> proxyMap[c].preDefined,
                       crashed    |-> crashed]]
  BY DEF deactivateConnectionMapping
<1>4. q \in {0, proxyMap[c].proxyID}
  OBVIOUS
<1> QED
  BY <1>2, <1>3, <1>4 DEF deactivateConnectionMapping

-----------------------------------------------------------------------------
(* The type invariant.                                                     *)

LEMMA InitTypeOK == MapInit => MapTypeOK
<1> SUFFICES ASSUME MapInit PROVE MapTypeOK
  OBVIOUS
<1>1. Installed \subseteq ClientIDs /\ IsFiniteSet(ClientIDs)
  BY OccupiedFinite DEF Installed
<1>2. added \in Nat
  BY <1>1, FS_Subset, FS_CardinalityType DEF MapInit
<1>3. \A c \in Installed : Mapping[c] \in Nat
  BY <1>1, MapAssumption
<1>5. proxyMap \in [Slots -> Entry]
  BY <1>3 DEF MapInit, Entry
<1>6. 0 \in Slots /\ 0 \notin Installed
  BY MapAssumption DEF Slots, Installed, ClientIDs
<1>7. proxyMap[0].proxyID = 0
  BY <1>6 DEF MapInit
<1> QED
  BY <1>2, <1>5, <1>7 DEF MapTypeOK

LEMMA NextTypeOK == MapTypeOK /\ [MapNext]_mapVars => MapTypeOK'
<1> SUFFICES ASSUME MapTypeOK, [MapNext]_mapVars PROVE MapTypeOK'
  OBVIOUS
<1>1. ASSUME NEW p \in HelloIDs, NEW s \in Sockets, Register(p, s)
      PROVE  MapTypeOK'
  <2>1. PICK c \in ClientIDs :
            /\ added' = added \/ added' = added + 1
            /\ proxyMap' = [proxyMap EXCEPT ![c] =
                    [proxyID    |-> p,
                     socket     |-> s,
                     isActive   |-> TRUE,
                     preDefined |-> proxyMap[c].preDefined,
                     crashed    |-> FALSE]]
    BY <1>1, RegisterEffect
  <2>2. c \in Slots /\ c # 0 /\ p \in Nat
    BY MapAssumption DEF ClientIDs, Slots
  <2>3. [proxyID |-> p, socket |-> s, isActive |-> TRUE,
         preDefined |-> proxyMap[c].preDefined, crashed |-> FALSE] \in Entry
    BY <2>2 DEF MapTypeOK, Entry
  <2> QED
    BY <2>1, <2>2, <2>3 DEF MapTypeOK
<1>2. ASSUME NEW c \in Slots, NEW crashed \in BOOLEAN,
             deactivateConnectionMapping(c, crashed)
      PROVE  MapTypeOK'
  <2>1. PICK q \in {0, proxyMap[c].proxyID} :
            proxyMap' = [proxyMap EXCEPT ![c] =
                      [proxyID    |-> q,
                       socket     |-> NoSocket,
                       isActive   |-> FALSE,
                       preDefined |-> proxyMap[c].preDefined,
                       crashed    |-> crashed]]
    BY <1>2, DeactivateEffect
  <2>2. [proxyID |-> q, socket |-> NoSocket, isActive |-> FALSE,
         preDefined |-> proxyMap[c].preDefined, crashed |-> crashed] \in Entry
    BY DEF MapTypeOK, Entry
  <2>3. added' = added
    BY <1>2, DeactivateEffect
  <2> QED
    BY <2>1, <2>2, <2>3 DEF MapTypeOK
<1>3. CASE UNCHANGED mapVars
  BY <1>3 DEF mapVars, MapTypeOK
<1> QED
  BY <1>1, <1>2, <1>3 DEF MapNext

\* Client ID 0 stays the "none" of the whole server: no handshake and no
\* configuration ever gives element 0 of proxyMap to a proxy, and every field
\* keeps its type.
THEOREM MapTypeCorrect == MapSpec => []MapTypeOK
<1>1. MapInit => MapTypeOK
  BY InitTypeOK
<1>2. MapTypeOK /\ [MapNext]_mapVars => MapTypeOK'
  BY NextTypeOK
<1> QED
  BY <1>1, <1>2, PTL DEF MapSpec

-----------------------------------------------------------------------------
(* Sockets and crashed proxies: no assumption on the counter.              *)

\* Only an active element holds a connection, so a notification sent to the
\* client IDs of an update never goes out over a connection whose session was
\* ended by deactivateConnectionMapping.
THEOREM SocketsOfActiveOnly == MapSpec => []SocketOnlyWhileActive
<1>1. MapInit => SocketOnlyWhileActive
  BY DEF MapInit, SocketOnlyWhileActive
<1>2. MapTypeOK /\ SocketOnlyWhileActive /\ [MapNext]_mapVars => SocketOnlyWhileActive'
  <2> SUFFICES ASSUME MapTypeOK, SocketOnlyWhileActive, [MapNext]_mapVars
               PROVE  SocketOnlyWhileActive'
    OBVIOUS
  <2>1. ASSUME NEW p \in HelloIDs, NEW s \in Sockets, Register(p, s)
        PROVE  SocketOnlyWhileActive'
    <3>1. PICK c \in ClientIDs :
              proxyMap' = [proxyMap EXCEPT ![c] =
                    [proxyID    |-> p,
                     socket     |-> s,
                     isActive   |-> TRUE,
                     preDefined |-> proxyMap[c].preDefined,
                     crashed    |-> FALSE]]
      BY <2>1, RegisterEffect
    <3> QED
      BY <3>1, MapAssumption DEF SocketOnlyWhileActive, MapTypeOK
  <2>2. ASSUME NEW c \in Slots, NEW crashed \in BOOLEAN,
               deactivateConnectionMapping(c, crashed)
        PROVE  SocketOnlyWhileActive'
    BY <2>2, DeactivateEffect DEF SocketOnlyWhileActive, MapTypeOK
  <2>3. CASE UNCHANGED mapVars
    BY <2>3 DEF mapVars, SocketOnlyWhileActive
  <2> QED
    BY <2>1, <2>2, <2>3 DEF MapNext
<1>3. MapInit => MapTypeOK
  BY InitTypeOK
<1>4. MapTypeOK /\ [MapNext]_mapVars => MapTypeOK'
  BY NextTypeOK
<1> QED
  BY <1>1, <1>2, <1>3, <1>4, PTL DEF MapSpec

\* A configured proxy, and one whose connection crashed, finds its own client
\* ID again: no step takes the ID away but a goodbye, and none gives an ID that
\* somebody holds to somebody else.
THEOREM CrashedProxiesKeepIDs == MapSpec => CrashedKeepsID
<1> DEFINE Keeps == \A c \in ClientIDs :
          proxyMap[c].proxyID # 0 /\ proxyMap'[c].proxyID # proxyMap[c].proxyID
          => ~proxyMap[c].preDefined /\ ~proxyMap'[c].crashed /\ proxyMap'[c].proxyID = 0
<1>1. MapTypeOK /\ [MapNext]_mapVars => [Keeps]_mapVars
  <2> SUFFICES ASSUME MapTypeOK, MapNext, NEW d \in ClientIDs,
                      proxyMap[d].proxyID # 0,
                      proxyMap'[d].proxyID # proxyMap[d].proxyID
               PROVE  ~proxyMap[d].preDefined /\ ~proxyMap'[d].crashed
                      /\ proxyMap'[d].proxyID = 0
    OBVIOUS
  <2>0. d \in Slots
    BY MapAssumption DEF Slots, ClientIDs
  <2>1. ASSUME NEW p \in HelloIDs, NEW s \in Sockets, Register(p, s)
        PROVE  FALSE
    <3>1. PICK c \in ClientIDs :
              /\ proxyMap[c].proxyID \in {0, p}
              /\ proxyMap' = [proxyMap EXCEPT ![c] =
                    [proxyID    |-> p,
                     socket     |-> s,
                     isActive   |-> TRUE,
                     preDefined |-> proxyMap[c].preDefined,
                     crashed    |-> FALSE]]
      BY <2>1, RegisterEffect
    <3> QED
      BY <2>0, <3>1 DEF MapTypeOK
  <2>2. ASSUME NEW c \in Slots, NEW crashed \in BOOLEAN,
               deactivateConnectionMapping(c, crashed)
        PROVE  ~proxyMap[d].preDefined /\ ~proxyMap'[d].crashed
               /\ proxyMap'[d].proxyID = 0
    <3>1. PICK q \in {0, proxyMap[c].proxyID} :
              /\ q # proxyMap[c].proxyID => ~proxyMap[c].preDefined /\ ~crashed
              /\ proxyMap' = [proxyMap EXCEPT ![c] =
                      [proxyID    |-> q,
                       socket     |-> NoSocket,
                       isActive   |-> FALSE,
                       preDefined |-> proxyMap[c].preDefined,
                       crashed    |-> crashed]]
      BY <2>2, DeactivateEffect
    <3>2. c = d
      BY <2>0, <3>1 DEF MapTypeOK
    <3> QED
      BY <2>0, <3>1, <3>2 DEF MapTypeOK
  <2> QED
    BY <2>1, <2>2 DEF MapNext
<1>2. [][Keeps]_mapVars => CrashedKeepsID
  BY DEF CrashedKeepsID
<1>3. MapInit => MapTypeOK
  BY InitTypeOK
<1>4. MapTypeOK /\ [MapNext]_mapVars => MapTypeOK'
  BY NextTypeOK
<1> QED
  BY <1>1, <1>2, <1>3, <1>4, PTL DEF MapSpec

-----------------------------------------------------------------------------
(* One client ID per proxy.                                                *)

LEMMA InitInv == CounterNeverWraps /\ MapInit => MapInv
<1> SUFFICES ASSUME CounterNeverWraps, MapInit PROVE MapInv
  OBVIOUS
<1>1. Installed \subseteq ClientIDs /\ ClientIDs \subseteq Slots /\ ClientIDs \subseteq Int
  BY MapAssumption DEF Installed, ClientIDs, Slots
<1>2. \A c \in ClientIDs :
         proxyMap[c].proxyID = IF c \in Installed THEN Mapping[c] ELSE 0
  BY <1>1 DEF MapInit
<1>3. Occupied = Installed
  BY <1>1, <1>2 DEF Occupied, Installed
<1>4. MapTypeOK
  BY InitTypeOK
<1>5. CountCoversOccupied
  <2>1. added = Cardinality(Occupied) /\ added < CounterSize /\ added \in Nat
    BY <1>3, <1>4 DEF MapInit, CounterNeverWraps, MapTypeOK
  <2> QED
    BY <2>1 DEF CountCoversOccupied
<1>6. ASSUME NEW c \in ClientIDs, NEW d \in ClientIDs,
             proxyMap[c].proxyID # 0, proxyMap[c].proxyID = proxyMap[d].proxyID
      PROVE  c = d
  <2>1. c \in Installed /\ d \in Installed /\ Mapping[c] = Mapping[d]
    BY <1>2, <1>6
  <2> QED
    BY <2>1, <1>1 DEF Installed
<1> QED
  BY <1>4, <1>5, <1>6 DEF MapInv, UniqueMapping

LEMMA NextInv == CounterNeverWraps /\ MapInv /\ [MapNext]_mapVars => MapInv'
<1> SUFFICES ASSUME CounterNeverWraps, MapInv, [MapNext]_mapVars PROVE MapInv'
  OBVIOUS
<1>0. /\ MapTypeOK' /\ MapTypeOK /\ added \in Nat
      /\ ClientIDs \subseteq Slots
      /\ IsFiniteSet(Occupied) /\ Cardinality(Occupied) \in Nat
  BY NextTypeOK, OccupiedFinite, FS_CardinalityType, MapAssumption
     DEF MapInv, MapTypeOK, ClientIDs, Slots
<1>1. ASSUME NEW p \in HelloIDs, NEW s \in Sockets, Register(p, s)
      PROVE  MapInv'
  <2>1. PICK c \in ClientIDs :
              /\ \/ proxyMap[c].proxyID = p /\ p # 0 /\ added' = added
                 \/ proxyMap[c].proxyID = 0 /\ added' = added + 1
                    /\ (p = 0 \/ Found(p) = {})
              /\ added' <= MaxAdditions
              /\ proxyMap' = [proxyMap EXCEPT ![c] =
                    [proxyID    |-> p,
                     socket     |-> s,
                     isActive   |-> TRUE,
                     preDefined |-> proxyMap[c].preDefined,
                     crashed    |-> FALSE]]
    BY <1>0, <1>1, RegisterEffect
  <2>2. p \in Nat
    BY MapAssumption
  <2>3. \A d \in ClientIDs : proxyMap'[d].proxyID = IF d = c THEN p ELSE proxyMap[d].proxyID
    BY <1>0, <2>1 DEF MapTypeOK
  <2>4. CountCoversOccupied'
    <3>1. Occupied' \subseteq Occupied \cup {c}
      BY <2>3 DEF Occupied
    <3>2. CASE proxyMap[c].proxyID = p /\ p # 0 /\ added' = added
      <4>1. Occupied' \subseteq Occupied
        BY <3>1, <3>2 DEF Occupied
      <4> QED
        BY <1>0, <3>2, <4>1, FS_Subset, FS_CardinalityType DEF CountCoversOccupied, MapInv
    <3>3. CASE added' = added + 1
      <4>1. /\ IsFiniteSet(Occupied \cup {c})
            /\ Cardinality(Occupied \cup {c}) <= Cardinality(Occupied) + 1
        <5>1. IsFiniteSet(Occupied) /\ Cardinality(Occupied) \in Nat
          BY <1>0
        <5> QED
          BY <5>1, FS_AddElement, SMTT(30)
      <4>2. Cardinality(Occupied') \in Nat /\ Cardinality(Occupied \cup {c}) \in Nat
            /\ Cardinality(Occupied') <= Cardinality(Occupied \cup {c})
        BY <3>1, <4>1, FS_Subset, FS_CardinalityType
      <4>3. added' < CounterSize
        BY <1>0, <2>1, MapAssumption DEF CounterNeverWraps, MapTypeOK
      <4> QED
        BY <1>0, <3>3, <4>1, <4>2, <4>3 DEF CountCoversOccupied, MapInv
    <3> QED
      BY <2>1, <3>2, <3>3
  <2>5. UniqueMapping'
    <3>1. p # 0 /\ proxyMap[c].proxyID # p => Holder(p) = {}
      BY <1>0, <2>1, <2>2, FoundIsHolder DEF MapInv
    <3> QED
      BY <2>3, <3>1 DEF UniqueMapping, MapInv, Holder
  <2> QED
    BY <1>0, <2>4, <2>5 DEF MapInv
<1>2. ASSUME NEW c \in Slots, NEW crashed \in BOOLEAN,
             deactivateConnectionMapping(c, crashed)
      PROVE  MapInv'
  <2>1. PICK q \in {0, proxyMap[c].proxyID} :
            /\ added' = added
            /\ proxyMap' = [proxyMap EXCEPT ![c] =
                      [proxyID    |-> q,
                       socket     |-> NoSocket,
                       isActive   |-> FALSE,
                       preDefined |-> proxyMap[c].preDefined,
                       crashed    |-> crashed]]
    BY <1>0, <1>2, DeactivateEffect
  <2>2. \A d \in ClientIDs : proxyMap'[d].proxyID = IF d = c THEN q ELSE proxyMap[d].proxyID
    BY <1>0, <2>1 DEF MapTypeOK
  <2>3. Occupied' \subseteq Occupied
    BY <2>2 DEF Occupied
  <2>4. CountCoversOccupied'
    BY <1>0, <2>1, <2>3, FS_Subset, FS_CardinalityType DEF CountCoversOccupied, MapInv
  <2>5. UniqueMapping'
    BY <2>2 DEF UniqueMapping, MapInv
  <2> QED
    BY <1>0, <2>4, <2>5 DEF MapInv
<1>3. CASE UNCHANGED mapVars
  BY <1>3 DEF mapVars, MapInv, MapTypeOK, CountCoversOccupied, Occupied, UniqueMapping
<1> QED
  BY <1>1, <1>2, <1>3 DEF MapNext

\* A proxy never holds two client IDs, as long as noMappings does not wrap:
\* then findClientID's scan, cut off by that counter, sees every occupied
\* element even though the counter is never decremented.
THEOREM OneClientIDPerProxy ==
    ASSUME CounterNeverWraps
    PROVE  MapSpec => []UniqueMapping
<1>1. MapInit => MapInv
  BY InitInv
<1>2. MapInv /\ [MapNext]_mapVars => MapInv'
  BY NextInv
<1>3. MapInv => UniqueMapping
  BY DEF MapInv
<1> QED
  BY <1>1, <1>2, <1>3, PTL DEF MapSpec

-----------------------------------------------------------------------------
(* Who is refused.                                                         *)

(***************************************************************************)
(* addMapping takes an element with proxy ID 0 for a free one, even if it  *)
(* is active.  No proxy may call itself 0: its mapping would be active and *)
(* free, and whoever gets that element next is refused (EM1).              *)
(***************************************************************************)
NobodyIsZero == 0 \notin HelloIDs

\* An element that is given out by createClientID has no session.
FreeIsIdle == \A c \in ClientIDs : proxyMap[c].proxyID = 0 => ~proxyMap[c].isActive

LEMMA FreeIsIdleNext ==
    ASSUME NobodyIsZero, MapTypeOK, FreeIsIdle, [MapNext]_mapVars
    PROVE  FreeIsIdle'
<1>0. proxyMap \in [Slots -> Entry] /\ ClientIDs \subseteq Slots
  BY MapAssumption DEF MapTypeOK, ClientIDs, Slots
<1>1. ASSUME NEW p \in HelloIDs, NEW s \in Sockets, Register(p, s)
      PROVE  FreeIsIdle'
  <2>1. p # 0
    BY DEF NobodyIsZero
  <2>2. PICK c \in ClientIDs :
            proxyMap' = [proxyMap EXCEPT ![c] =
                  [proxyID    |-> p,
                   socket     |-> s,
                   isActive   |-> TRUE,
                   preDefined |-> proxyMap[c].preDefined,
                   crashed    |-> FALSE]]
    BY <1>1, RegisterEffect
  <2> QED
    BY <1>0, <2>1, <2>2 DEF FreeIsIdle
<1>2. ASSUME NEW c \in Slots, NEW crashed \in BOOLEAN,
             deactivateConnectionMapping(c, crashed)
      PROVE  FreeIsIdle'
  <2>1. PICK q \in {0, proxyMap[c].proxyID} :
            proxyMap' = [proxyMap EXCEPT ![c] =
                  [proxyID    |-> q,
                   socket     |-> NoSocket,
                   isActive   |-> FALSE,
                   preDefined |-> proxyMap[c].preDefined,
                   crashed    |-> crashed]]
    BY <1>2, DeactivateEffect
  <2> QED
    BY <1>0, <2>1 DEF FreeIsIdle
<1>3. CASE UNCHANGED mapVars
  BY <1>3 DEF mapVars, FreeIsIdle
<1> QED
  BY <1>1, <1>2, <1>3 DEF MapNext

\* The lookups and addMapping agree about an idle proxy.
LEMMA IdleIsAccepted ==
    ASSUME MapInv, FreeIsIdle, NEW p \in Nat \ {0}, NEW s \in Sockets,
           \A c \in ClientIDs : proxyMap[c].proxyID = p => ~proxyMap[c].isActive,
           Holder(p) # {} \/ Occupied # ClientIDs
    PROVE  Accepts(p, s)
<1>1. Found(p) = Holder(p) /\ 0 \notin ClientIDs
  BY FoundIsHolder, MapAssumption DEF MapInv, MapTypeOK, ClientIDs
<1>2. CASE Holder(p) # {}
  <2>1. findClientID(p) \in Holder(p)
    BY <1>1, <1>2, FindResult
  <2>2. Candidate(p) = findClientID(p) /\ Candidate(p) # 0
    BY <1>1, <2>1 DEF Candidate, Holder
  <2> QED
    BY <2>1, <2>2 DEF Accepts, CanMap, Holder
<1>3. CASE Holder(p) = {}
  <2>1. findClientID(p) = 0
    BY <1>1, <1>3, FindResult
  <2>2. ClientIDs \ Occupied # {}
    BY <1>3 DEF Occupied
  <2>3. Candidate(p) \in ClientIDs \ Occupied
    BY <2>1, <2>2, CreateResult DEF Candidate
  <2>4. proxyMap[Candidate(p)].proxyID = 0 /\ Candidate(p) # 0
    BY <1>1, <2>3 DEF Occupied
  <2>5. ~proxyMap[Candidate(p)].isActive
    BY <2>3, <2>4 DEF FreeIsIdle
  <2> QED
    BY <2>1, <2>4, <2>5 DEF Accepts, CanMap
<1> QED
  BY <1>2, <1>3

\* As long as the counter does not wrap and nobody calls itself 0, the only
\* handshakes refused are a second connection of an active proxy and those of
\* unknown proxies while the map is full.
THEOREM RefusedForAReason ==
    ASSUME CounterNeverWraps, NobodyIsZero
    PROVE  MapSpec => []NoSpuriousRefusal
<1>1. MapInit => MapInv /\ FreeIsIdle
  <2>1. MapInit => FreeIsIdle
    BY MapAssumption DEF MapInit, FreeIsIdle, ClientIDs, Slots
  <2> QED
    BY <2>1, InitInv
<1>2. MapInv /\ FreeIsIdle /\ [MapNext]_mapVars => MapInv' /\ FreeIsIdle'
  <2>1. MapInv /\ FreeIsIdle /\ [MapNext]_mapVars => FreeIsIdle'
    BY FreeIsIdleNext DEF MapInv
  <2> QED
    BY <2>1, NextInv
<1>3. MapInv /\ FreeIsIdle => NoSpuriousRefusal
  <2> SUFFICES ASSUME MapInv, FreeIsIdle, NEW p \in HelloIDs, NEW s \in Sockets,
                      \A c \in ClientIDs : proxyMap[c].proxyID = p => ~proxyMap[c].isActive,
                      p \in {proxyMap[c].proxyID : c \in Occupied} \/ Occupied # ClientIDs
               PROVE  Accepts(p, s)
    BY DEF NoSpuriousRefusal
  <2>1. p \in Nat \ {0}
    BY MapAssumption DEF NobodyIsZero
  <2>2. Holder(p) # {} \/ Occupied # ClientIDs
    BY DEF Holder, Occupied
  <2> QED
    BY <2>1, <2>2, IdleIsAccepted
<1> QED
  BY <1>1, <1>2, <1>3, PTL DEF MapSpec

-----------------------------------------------------------------------------
(***************************************************************************)
(* The array of ProxyMap.tla implements ProxyDirectory.tla, as long as the *)
(* counter of mappings does not wrap.                                      *)
(***************************************************************************)

\* A configured element belongs to its proxy for good.
ConfiguredStay ==
    \A c \in Installed : proxyMap[c].proxyID = Mapping[c] /\ proxyMap[c].preDefined

DirInv == MapInv /\ SocketOnlyWhileActive /\ ConfiguredStay

\* What the refinement mapping sees in an array.
ClientIn(m) ==
    [p \in Proxies |-> IF {c \in ClientIDs : m[c].proxyID = p} = {} THEN 0
                       ELSE Least({c \in ClientIDs : m[c].proxyID = p})]
SessionIn(m) ==
    [p \in Proxies |-> IF {c \in ClientIDs : m[c].proxyID = p} = {} THEN NoSocket
                       ELSE m[Least({c \in ClientIDs : m[c].proxyID = p})].socket]

-----------------------------------------------------------------------------
(* Lemmas about the mapping.                                               *)

LEMMA ProxyFacts ==
    /\ ClientIDs \subseteq Nat \ {0}
    /\ ClientIDs \subseteq Slots
    /\ 0 \notin Proxies
    /\ HelloIDs \ {0} \subseteq Proxies
    /\ Installed \subseteq ClientIDs
BY MapAssumption DEF ClientIDs, Slots, Proxies, Installed

\* A proxy that holds one element is seen there, one that holds none nowhere.
LEMMA SeenAtHolder ==
    ASSUME NEW m, NEW p \in Proxies, NEW c \in ClientIDs, m[c].proxyID = p,
           \A d \in ClientIDs : m[d].proxyID = p => d = c
    PROVE  ClientIn(m)[p] = c /\ SessionIn(m)[p] = m[c].socket
<1>1. {d \in ClientIDs : m[d].proxyID = p} = {c}
  OBVIOUS
<1>2. Least({c}) = c
  BY ProxyFacts DEF Least
<1> QED
  BY <1>1, <1>2 DEF ClientIn, SessionIn

LEMMA SeenNowhere ==
    ASSUME NEW m, NEW p \in Proxies, \A c \in ClientIDs : m[c].proxyID # p
    PROVE  ClientIn(m)[p] = 0 /\ SessionIn(m)[p] = NoSocket
<1>1. {d \in ClientIDs : m[d].proxyID = p} = {}
  OBVIOUS
<1> QED
  BY <1>1 DEF ClientIn, SessionIn

\* A client ID the mapping shows belongs to the proxy in the array.
LEMMA SeenHolds ==
    ASSUME NEW m, NEW p \in Proxies
    PROVE  \/ ClientIn(m)[p] = 0 /\ \A c \in ClientIDs : m[c].proxyID # p
           \/ ClientIn(m)[p] \in ClientIDs /\ m[ClientIn(m)[p]].proxyID = p
<1> DEFINE H == {c \in ClientIDs : m[c].proxyID = p}
<1>1. CASE H = {}
  BY <1>1 DEF ClientIn
<1>2. CASE H # {}
  <2>1. H \in SUBSET Nat
    BY ProxyFacts
  <2>2. Least(H) \in H
    BY <1>2, <2>1, LeastInSet
  <2>3. ClientIn(m)[p] = Least(H)
    BY <1>2 DEF ClientIn
  <2> QED
    BY <2>2, <2>3
<1> QED
  BY <1>1, <1>2

\* A change of one element is not seen by a proxy it does not concern.
LEMMA OthersSeeNothing ==
    ASSUME NEW m, NEW n, NEW c \in Slots, NEW p \in Proxies,
           \A d \in ClientIDs : d # c => n[d] = m[d],
           c \in ClientIDs => m[c].proxyID # p /\ n[c].proxyID # p
    PROVE  ClientIn(n)[p] = ClientIn(m)[p] /\ SessionIn(n)[p] = SessionIn(m)[p]
<1> DEFINE H == {d \in ClientIDs : m[d].proxyID = p}
<1>1. {d \in ClientIDs : n[d].proxyID = p} = H
  OBVIOUS
<1>2. H # {} => Least(H) \in H
  <2>1. H \in SUBSET Nat
    BY ProxyFacts
  <2> QED
    BY <2>1, LeastInSet
<1>3. H # {} => n[Least(H)] = m[Least(H)]
  BY <1>2
<1> HIDE DEF H
<1>4. /\ ClientIn(n)[p] = IF H = {} THEN 0 ELSE Least(H)
      /\ SessionIn(n)[p] = IF H = {} THEN NoSocket ELSE n[Least(H)].socket
  BY <1>1 DEF ClientIn, SessionIn
<1>5. /\ ClientIn(m)[p] = IF H = {} THEN 0 ELSE Least(H)
      /\ SessionIn(m)[p] = IF H = {} THEN NoSocket ELSE m[Least(H)].socket
  BY DEF ClientIn, SessionIn, H
<1> QED
  BY <1>3, <1>4, <1>5

\* The steps of the directory, in these terms.
LEMMA AdmitAsSeen ==
    ASSUME NEW p \in Proxies, NEW s \in Sockets,
           SessionIn(proxyMap)[p] \in {NoSocket, s},
           SessionIn(proxyMap') = [SessionIn(proxyMap) EXCEPT ![p] = s],
           \/ ClientIn(proxyMap)[p] # 0 /\ ClientIn(proxyMap') = ClientIn(proxyMap)
           \/ /\ ClientIn(proxyMap)[p] = 0
              /\ \E c \in ClientIDs \ ({ClientIn(proxyMap)[q] : q \in Proxies} \ {0}) :
                    ClientIn(proxyMap') = [ClientIn(proxyMap) EXCEPT ![p] = c]
    PROVE  Directory!Admit(p, s)
BY Zenon DEF Directory!Admit, Directory!Held, ClientIn, SessionIn, Holder

LEMMA LeaveAsSeen ==
    ASSUME NEW p \in Proxies,
           ClientIn(proxyMap)[p] # 0,
           SessionIn(proxyMap') = [SessionIn(proxyMap) EXCEPT ![p] = NoSocket],
           \/ ClientIn(proxyMap') = ClientIn(proxyMap)
           \/ /\ p \notin {Mapping[c] : c \in Installed}
              /\ ClientIn(proxyMap') = [ClientIn(proxyMap) EXCEPT ![p] = 0]
    PROVE  Directory!Leave(p)
BY Zenon DEF Directory!Leave, ClientIn, SessionIn, Holder

LEMMA StutterAsSeen ==
    ASSUME ClientIn(proxyMap') = ClientIn(proxyMap), SessionIn(proxyMap') = SessionIn(proxyMap)
    PROVE  UNCHANGED Directory!dirVars
BY Zenon DEF Directory!dirVars, ClientIn, SessionIn, Holder

-----------------------------------------------------------------------------
(* Every step of the map is one of the directory, or a stutter.            *)

LEMMA RegisterIsAdmit ==
    ASSUME DirInv, MapInv', NEW p \in HelloIDs, NEW s \in Sockets, Register(p, s)
    PROVE  [Directory!Next]_Directory!dirVars
<1>1. PICK c \in ClientIDs :
              /\ \/ proxyMap[c].proxyID = p /\ p # 0
                 \/ proxyMap[c].proxyID = 0 /\ (p = 0 \/ Found(p) = {})
              /\ proxyMap[c].isActive => proxyMap[c].socket = s
              /\ proxyMap' = [proxyMap EXCEPT ![c] =
                    [proxyID    |-> p,
                     socket     |-> s,
                     isActive   |-> TRUE,
                     preDefined |-> proxyMap[c].preDefined,
                     crashed    |-> FALSE]]
  BY RegisterEffect DEF DirInv, MapInv
<1>2. /\ c \in Slots
      /\ \A d \in ClientIDs : d # c => proxyMap'[d] = proxyMap[d]
      /\ proxyMap'[c].proxyID = p /\ proxyMap'[c].socket = s
  BY <1>1, ProxyFacts DEF DirInv, MapInv, MapTypeOK
<1>3. ASSUME NEW q \in Proxies, q # p
      PROVE  /\ ClientIn(proxyMap')[q] = ClientIn(proxyMap)[q]
             /\ SessionIn(proxyMap')[q] = SessionIn(proxyMap)[q]
  <2>1. q # 0
    BY <1>3, ProxyFacts
  <2>2. proxyMap[c].proxyID # q /\ proxyMap'[c].proxyID # q
    BY <1>1, <1>2, <1>3, <2>1
  <2> QED
    BY <1>2, <2>2, OthersSeeNothing
<1>4. /\ DOMAIN ClientIn(proxyMap) = Proxies /\ DOMAIN ClientIn(proxyMap') = Proxies
      /\ DOMAIN SessionIn(proxyMap) = Proxies /\ DOMAIN SessionIn(proxyMap') = Proxies
      /\ ClientIn(proxyMap) = [q \in Proxies |-> ClientIn(proxyMap)[q]]
      /\ ClientIn(proxyMap') = [q \in Proxies |-> ClientIn(proxyMap')[q]]
      /\ SessionIn(proxyMap) = [q \in Proxies |-> SessionIn(proxyMap)[q]]
      /\ SessionIn(proxyMap') = [q \in Proxies |-> SessionIn(proxyMap')[q]]
  BY DEF ClientIn, SessionIn
<1>5. CASE p = 0
  <2>1. \A q \in Proxies : q # p
    BY <1>5, ProxyFacts
  <2>2. ClientIn(proxyMap') = ClientIn(proxyMap) /\ SessionIn(proxyMap') = SessionIn(proxyMap)
    BY <1>3, <1>4, <2>1
  <2> QED
    BY <2>2, StutterAsSeen
<1>6. CASE p # 0
  <2>1. p \in Proxies /\ p \in Nat
    BY <1>6, ProxyFacts, MapAssumption
  <2>2. ClientIn(proxyMap')[p] = c /\ SessionIn(proxyMap')[p] = s
    <3>1. \A d \in ClientIDs : proxyMap'[d].proxyID = p => d = c
      BY <1>2, <1>6 DEF MapInv, UniqueMapping
    <3> QED
      BY <1>2, <2>1, <3>1, SeenAtHolder
  <2>3. SessionIn(proxyMap') = [SessionIn(proxyMap) EXCEPT ![p] = s]
    BY <1>3, <1>4, <2>1, <2>2
  <2>4. CASE proxyMap[c].proxyID = p
    <3>1. \A d \in ClientIDs : proxyMap[d].proxyID = p => d = c
      BY <1>6, <2>4 DEF DirInv, MapInv, UniqueMapping
    <3>2. ClientIn(proxyMap)[p] = c /\ SessionIn(proxyMap)[p] = proxyMap[c].socket
      BY <2>1, <2>4, <3>1, SeenAtHolder
    <3>3. proxyMap[c].socket \in {NoSocket, s}
      BY <1>1, <1>2 DEF DirInv, SocketOnlyWhileActive
    <3>4. ClientIn(proxyMap') = ClientIn(proxyMap) /\ c # 0
      BY <1>3, <1>4, <2>1, <2>2, <3>2, ProxyFacts
    <3>5. Directory!Admit(p, s)
      BY <2>1, <2>3, <3>2, <3>3, <3>4, AdmitAsSeen
    <3> QED
      BY <2>1, <3>5 DEF Directory!Next
  <2>5. CASE proxyMap[c].proxyID = 0 /\ Found(p) = {}
    <3>1. \A d \in ClientIDs : proxyMap[d].proxyID # p
      BY <2>1, <2>5, FoundIsHolder DEF Holder, DirInv, MapInv, MapTypeOK
    <3>2. ClientIn(proxyMap)[p] = 0 /\ SessionIn(proxyMap)[p] = NoSocket
      BY <2>1, <3>1, SeenNowhere
    <3>3. \A q \in Proxies : ClientIn(proxyMap)[q] # c
      BY <2>5, SeenHolds, ProxyFacts
    <3>4. ClientIn(proxyMap') = [ClientIn(proxyMap) EXCEPT ![p] = c]
      BY <1>3, <1>4, <2>1, <2>2
    <3>5. c \in ClientIDs \ ({ClientIn(proxyMap)[q] : q \in Proxies} \ {0})
      BY <3>3
    <3>6. Directory!Admit(p, s)
      BY <2>1, <2>3, <3>2, <3>4, <3>5, AdmitAsSeen
    <3> QED
      BY <2>1, <3>6 DEF Directory!Next
  <2> QED
    BY <1>1, <1>6, <2>4, <2>5
<1> QED
  BY <1>5, <1>6

LEMMA DeactivateIsLeave ==
    ASSUME DirInv, MapInv', NEW c \in Slots, NEW crashed \in BOOLEAN,
           deactivateConnectionMapping(c, crashed)
    PROVE  [Directory!Next]_Directory!dirVars
<1> DEFINE p == proxyMap[c].proxyID
<1>1. PICK q \in {0, p} :
            /\ q # p => ~proxyMap[c].preDefined
            /\ proxyMap' = [proxyMap EXCEPT ![c] =
                      [proxyID    |-> q,
                       socket     |-> NoSocket,
                       isActive   |-> FALSE,
                       preDefined |-> proxyMap[c].preDefined,
                       crashed    |-> crashed]]
  BY DeactivateEffect DEF DirInv, MapInv
<1>2. /\ \A d \in ClientIDs : d # c => proxyMap'[d] = proxyMap[d]
      /\ proxyMap'[c].proxyID = q /\ proxyMap'[c].socket = NoSocket
  BY <1>1, ProxyFacts DEF DirInv, MapInv, MapTypeOK
<1>3. /\ ClientIn(proxyMap) = [x \in Proxies |-> ClientIn(proxyMap)[x]]
      /\ ClientIn(proxyMap') = [x \in Proxies |-> ClientIn(proxyMap')[x]]
      /\ SessionIn(proxyMap) = [x \in Proxies |-> SessionIn(proxyMap)[x]]
      /\ SessionIn(proxyMap') = [x \in Proxies |-> SessionIn(proxyMap')[x]]
  BY DEF ClientIn, SessionIn
<1>4. ASSUME NEW x \in Proxies, x # p \/ c \notin ClientIDs
      PROVE  /\ ClientIn(proxyMap')[x] = ClientIn(proxyMap)[x]
             /\ SessionIn(proxyMap')[x] = SessionIn(proxyMap)[x]
  <2>1. x # 0
    BY ProxyFacts
  <2>2. c \in ClientIDs => proxyMap[c].proxyID # x /\ proxyMap'[c].proxyID # x
    BY <1>1, <1>2, <1>4, <2>1
  <2> QED
    BY <1>2, <2>2, OthersSeeNothing
<1>5. CASE p \notin Proxies \/ c \notin ClientIDs
  <2>1. ClientIn(proxyMap') = ClientIn(proxyMap) /\ SessionIn(proxyMap') = SessionIn(proxyMap)
    BY <1>3, <1>4, <1>5
  <2> QED
    BY <2>1, StutterAsSeen
<1>6. CASE p \in Proxies /\ c \in ClientIDs
  <2>1. p # 0
    BY <1>6, ProxyFacts
  <2>2. /\ \A d \in ClientIDs : proxyMap[d].proxyID = p => d = c
        /\ \A d \in ClientIDs : d # c => proxyMap'[d].proxyID # p
    BY <1>2, <1>6, <2>1 DEF DirInv, MapInv, UniqueMapping
  <2>3. ClientIn(proxyMap)[p] = c /\ c # 0
    BY <1>6, <2>2, SeenAtHolder, ProxyFacts
  <2>4. CASE q = p
    <3>1. ClientIn(proxyMap')[p] = c /\ SessionIn(proxyMap')[p] = NoSocket
      BY <1>2, <1>6, <2>2, <2>4, SeenAtHolder
    <3>2. /\ ClientIn(proxyMap') = ClientIn(proxyMap)
          /\ SessionIn(proxyMap') = [SessionIn(proxyMap) EXCEPT ![p] = NoSocket]
      BY <1>3, <1>4, <1>6, <2>3, <3>1
    <3>3. Directory!Leave(p)
      BY <1>6, <2>3, <3>2, LeaveAsSeen
    <3> QED
      BY <1>6, <3>3 DEF Directory!Next
  <2>5. CASE q # p
    <3>1. \A d \in ClientIDs : proxyMap'[d].proxyID # p
      BY <1>2, <2>2, <2>5
    <3>2. ClientIn(proxyMap')[p] = 0 /\ SessionIn(proxyMap')[p] = NoSocket
      BY <1>6, <3>1, SeenNowhere
    <3>3. /\ ClientIn(proxyMap') = [ClientIn(proxyMap) EXCEPT ![p] = 0]
          /\ SessionIn(proxyMap') = [SessionIn(proxyMap) EXCEPT ![p] = NoSocket]
      BY <1>3, <1>4, <1>6, <3>2
    <3>4. p \notin {Mapping[d] : d \in Installed}
      <4> SUFFICES ASSUME NEW d \in Installed, p = Mapping[d] PROVE FALSE
        OBVIOUS
      <4>1. d \in ClientIDs /\ proxyMap[d].proxyID = p /\ proxyMap[d].preDefined
        BY ProxyFacts DEF DirInv, ConfiguredStay
      <4> QED
        BY <1>1, <2>2, <2>5, <4>1
    <3>5. Directory!Leave(p)
      BY <1>6, <2>3, <3>3, <3>4, LeaveAsSeen
    <3> QED
      BY <1>6, <3>5 DEF Directory!Next
  <2> QED
    BY <2>4, <2>5
<1> QED
  BY <1>5, <1>6

-----------------------------------------------------------------------------
(* The invariant and the theorem.                                          *)

LEMMA InitDirInv == CounterNeverWraps /\ MapInit => DirInv
<1> SUFFICES ASSUME CounterNeverWraps, MapInit PROVE DirInv
  OBVIOUS
<1>1. MapInv
  BY InitInv
<1>2. SocketOnlyWhileActive
  BY DEF MapInit, SocketOnlyWhileActive
<1>3. ConfiguredStay
  BY ProxyFacts DEF MapInit, ConfiguredStay
<1> QED
  BY <1>1, <1>2, <1>3 DEF DirInv

LEMMA NextConfigured ==
    MapTypeOK /\ ConfiguredStay /\ [MapNext]_mapVars => ConfiguredStay'
<1> SUFFICES ASSUME MapTypeOK, ConfiguredStay, [MapNext]_mapVars,
                    NEW d \in Installed
             PROVE  proxyMap'[d].proxyID = Mapping[d] /\ proxyMap'[d].preDefined
  BY DEF ConfiguredStay
<1>1. /\ d \in Slots /\ Mapping[d] # 0
      /\ proxyMap[d].proxyID = Mapping[d] /\ proxyMap[d].preDefined
  BY ProxyFacts DEF ConfiguredStay, Installed
<1>2. ASSUME NEW p \in HelloIDs, NEW s \in Sockets, Register(p, s)
      PROVE  proxyMap'[d].proxyID = Mapping[d] /\ proxyMap'[d].preDefined
  <2>1. PICK c \in ClientIDs :
              /\ proxyMap[c].proxyID \in {0, p}
              /\ proxyMap' = [proxyMap EXCEPT ![c] =
                    [proxyID    |-> p,
                     socket     |-> s,
                     isActive   |-> TRUE,
                     preDefined |-> proxyMap[c].preDefined,
                     crashed    |-> FALSE]]
    BY <1>2, RegisterEffect
  <2> QED
    BY <1>1, <2>1 DEF MapTypeOK
<1>3. ASSUME NEW c \in Slots, NEW crashed \in BOOLEAN,
             deactivateConnectionMapping(c, crashed)
      PROVE  proxyMap'[d].proxyID = Mapping[d] /\ proxyMap'[d].preDefined
  <2>1. PICK q \in {0, proxyMap[c].proxyID} :
            /\ q # proxyMap[c].proxyID => ~proxyMap[c].preDefined
            /\ proxyMap' = [proxyMap EXCEPT ![c] =
                      [proxyID    |-> q,
                       socket     |-> NoSocket,
                       isActive   |-> FALSE,
                       preDefined |-> proxyMap[c].preDefined,
                       crashed    |-> crashed]]
    BY <1>3, DeactivateEffect
  <2> QED
    BY <1>1, <2>1 DEF MapTypeOK
<1>4. CASE UNCHANGED mapVars
  BY <1>1, <1>4 DEF mapVars
<1> QED
  BY <1>2, <1>3, <1>4 DEF MapNext

LEMMA InitAsSeen ==
    ASSUME MapInit
    PROVE  Directory!Init
<1> DEFINE fixed == {Mapping[c] : c \in Installed}
<1>1. \A c \in ClientIDs :
         /\ proxyMap[c].proxyID = IF c \in Installed THEN Mapping[c] ELSE 0
         /\ proxyMap[c].socket = NoSocket
  BY ProxyFacts DEF MapInit
<1>2. \A c \in Installed : Mapping[c] # 0
  BY DEF Installed
<1>3. ASSUME NEW p \in Proxies
      PROVE  /\ ClientIn(proxyMap)[p] \in ClientIDs \cup {0}
             /\ ClientIn(proxyMap)[p] # 0 <=> p \in fixed
             /\ ClientIn(proxyMap)[p] # 0 => /\ ClientIn(proxyMap)[p] \in Installed
                                            /\ Mapping[ClientIn(proxyMap)[p]] = p
             /\ SessionIn(proxyMap)[p] = NoSocket
  <2>1. p # 0
    BY ProxyFacts
  <2>2. CASE ClientIn(proxyMap)[p] = 0 /\ \A c \in ClientIDs : proxyMap[c].proxyID # p
    BY <1>1, <2>2, SeenNowhere, ProxyFacts
  <2>3. CASE ClientIn(proxyMap)[p] \in ClientIDs /\ proxyMap[ClientIn(proxyMap)[p]].proxyID = p
    <3> DEFINE c == ClientIn(proxyMap)[p]
    <3>1. c \in Installed /\ Mapping[c] = p /\ c # 0
      BY <1>1, <2>1, <2>3, ProxyFacts
    <3>2. \A d \in ClientIDs : proxyMap[d].proxyID = p => d = c
      <4> SUFFICES ASSUME NEW d \in ClientIDs, proxyMap[d].proxyID = p PROVE d = c
        OBVIOUS
      <4>1. d \in Installed /\ Mapping[d] = p
        BY <1>1, <2>1
      <4>2. ~(c < d) /\ ~(d < c)
        BY <3>1, <4>1 DEF Installed
      <4>3. c \in Nat /\ d \in Nat
        BY <2>3, ProxyFacts
      <4> QED
        BY <4>2, <4>3
    <3>3. SessionIn(proxyMap)[p] = NoSocket
      BY <1>1, <2>3, <3>2, SeenAtHolder
    <3> QED
      BY <2>3, <3>1, <3>3
  <2> QED
    BY <2>2, <2>3, SeenHolds
<1>4. ClientIn(proxyMap) \in [Proxies -> ClientIDs \cup {0}]
  BY <1>3 DEF ClientIn
<1>5. SessionIn(proxyMap) = [p \in Proxies |-> NoSocket]
  BY <1>3 DEF SessionIn
<1>6. fixed \subseteq Proxies
  BY <1>2, ProxyFacts DEF Proxies
<1>7. \A p, q \in fixed : ClientIn(proxyMap)[p] = ClientIn(proxyMap)[q] => p = q
  BY <1>3, <1>6
<1>8. \A p \in Proxies : ClientIn(proxyMap)[p] # 0 <=> p \in fixed
  BY <1>3
<1> QED
  BY <1>4, <1>5, <1>7, <1>8, Zenon DEF Directory!Init, ClientIn, SessionIn, Holder

\* The array with its scans and its counter behaves like a directory: a proxy
\* that is admitted keeps the client ID it holds or gets one nobody holds, and
\* only a goodbye of a proxy that is not configured frees an ID.  This holds as
\* long as the counter does not wrap.
THEOREM MapImplementsDirectory ==
    ASSUME CounterNeverWraps
    PROVE  MapSpec => ImplementsDirectory
<1>1. MapInit => DirInv /\ Directory!Init
  BY InitDirInv, InitAsSeen
<1>2. DirInv /\ [MapNext]_mapVars => MapInv' /\ ConfiguredStay'
  BY NextInv, NextConfigured DEF DirInv, MapInv
<1>3. DirInv /\ MapInv' /\ [MapNext]_mapVars => [Directory!Next]_Directory!dirVars
  <2> SUFFICES ASSUME DirInv, MapInv', [MapNext]_mapVars
               PROVE  [Directory!Next]_Directory!dirVars
    OBVIOUS
  <2>1. CASE MapNext
    BY <2>1, RegisterIsAdmit, DeactivateIsLeave DEF MapNext
  <2>2. CASE UNCHANGED mapVars
    <3>1. /\ ClientIn(proxyMap') = ClientIn(proxyMap)
          /\ SessionIn(proxyMap') = SessionIn(proxyMap)
      BY <2>2 DEF mapVars
    <3> QED
      BY <3>1, StutterAsSeen
  <2> QED
    BY <2>1, <2>2
<1>4. MapInv /\ SocketOnlyWhileActive /\ ConfiguredStay => DirInv
  BY DEF DirInv
<1>5. MapSpec => []SocketOnlyWhileActive
  BY SocketsOfActiveOnly
<1> QED
  BY <1>1, <1>2, <1>3, <1>4, <1>5, PTL DEF MapSpec, ImplementsDirectory, Directory!Spec

-----------------------------------------------------------------------------
(* What the map's theorems need to know about the threads: client IDs are  *)
(* in range, and the queues hold work of connections that exist.           *)

ThreadsOK ==
    /\ thread \in [Sockets -> Thread]
    /\ stream \in [Sockets -> Seq(PDU)]
    /\ recvQ \in Seq(Work)
    /\ cmdQ \in Seq(Work)

LEMMA PlainIsPDU == ASSUME NEW k \in Kinds PROVE Plain(k) \in PDU
<1>1. (CHOOSE u \in Updates : TRUE) \in Updates
  BY SessionsAssumption
<1> QED
  BY <1>1 DEF Plain, PDU

\* A PDU that was fetched from a queue came from a connection.
LEMMA HeadOfWork ==
    ASSUME NEW q \in Seq(Work), q # <<>>
    PROVE  /\ Head(q) \in Work /\ Head(q).conn \in Sockets
           /\ Head(q).pdu \in PDU /\ Head(q).pdu.update \in Updates
           /\ Tail(q) \in Seq(Work)
<1>1. Head(q) \in Work /\ Tail(q) \in Seq(Work)
  BY HeadTailProperties
<1> QED
  BY <1>1 DEF Work, PDU

LEMMA InitThreads == SessionsInit => ThreadsOK
<1> SUFFICES ASSUME SessionsInit PROVE ThreadsOK
  OBVIOUS
<1>1. 0 \in Slots
  BY MapAssumption DEF Slots
<1> QED
  BY <1>1 DEF SessionsInit, ThreadsOK, Thread

\* Closing a connection keeps the record of its thread well-formed.
LEMMA CloseKeepsThread ==
    ASSUME thread \in [Sockets -> Thread], NEW s \in Sockets, Close(s)
    PROVE  thread' \in [Sockets -> Thread]
<1>1. PICK pc \in {"none", "recv", "cleanup", "gone"} :
         thread' = [thread EXCEPT ![s] = Ended(@, pc)]
  BY DEF Close, Thread
<1> QED
  BY <1>1 DEF Thread, Ended

-----------------------------------------------------------------------------
(* One lemma per thread: it keeps the types, and what it does to the map   *)
(* is a step of the map.                                                   *)

MapStep == MapNext \/ UNCHANGED mapVars

LEMMA ProxyStep ==
    ASSUME ThreadsOK, NEW s \in Sockets, Proxy(s)
    PROVE  ThreadsOK' /\ UNCHANGED mapVars
<1>1. CASE Connect(s)
  <2>1. Plain("hello") \in PDU
    BY PlainIsPDU DEF Kinds
  <2>2. 0 \in Slots
    BY MapAssumption DEF Slots
  <2> QED
    BY <1>1, <2>1, <2>2 DEF Connect, ThreadsOK, Thread
<1>2. ASSUME NEW k \in Requests, NEW u \in Updates, Request(s, k, u)
      PROVE  ThreadsOK' /\ UNCHANGED mapVars
  <2>1. [kind |-> k, update |-> u] \in PDU
    BY SessionsAssumption DEF PDU, Kinds
  <2> QED
    BY <1>2, <2>1, AppendProperties DEF Request, ThreadsOK
<1>3. ASSUME NEW how \in Departures, Leave(s, how)
      PROVE  ThreadsOK' /\ UNCHANGED mapVars
  <2> DEFINE last == (IF how \in {"goodbye", "unknown"} THEN <<Plain(how)>> ELSE <<>>)
  <2>1. (how \in {"goodbye", "unknown"} => Plain(how) \in PDU) /\ Plain("eof") \in PDU
    BY PlainIsPDU DEF Kinds
  <2>2. last \in Seq(PDU) /\ <<Plain("eof")>> \in Seq(PDU)
    BY <2>1
  <2>3. stream[s] \in Seq(PDU)
    BY DEF ThreadsOK
  <2>4. stream[s] \o last \o <<Plain("eof")>> \in Seq(PDU)
    BY <2>2, <2>3, ConcatProperties
  <2>5. stream' = [stream EXCEPT ![s] = stream[s] \o last \o <<Plain("eof")>>]
    BY <1>3 DEF Leave, ThreadsOK
  <2> QED
    BY <1>3, <2>4, <2>5 DEF Leave, ThreadsOK
<1> QED
  BY <1>1, <1>2, <1>3 DEF Proxy

LEMMA ClientThreadStep ==
    ASSUME ThreadsOK, NEW s \in Sockets, ClientThread(s)
    PROVE  ThreadsOK' /\ MapStep
<1>1. CASE Receive(s)
  <2>1. stream[s] \in Seq(PDU) /\ stream[s] # <<>>
    BY <1>1 DEF Receive, ThreadsOK
  <2>2. Head(stream[s]) \in PDU /\ Tail(stream[s]) \in Seq(PDU)
    BY <2>1, HeadTailProperties
  <2>3. [conn |-> s, pdu |-> Head(stream[s])] \in Work
    BY <2>2 DEF Work
  <2>4. recvQ' \in Seq(Work)
    <3>1. recvQ \in Seq(Work)
      BY DEF ThreadsOK
    <3>2. Append(recvQ, [conn |-> s, pdu |-> Head(stream[s])]) \in Seq(Work)
      BY <2>3, <3>1, AppendProperties
    <3> QED
      BY <1>1, <3>1, <3>2 DEF Receive
  <2>5. thread' \in [Sockets -> Thread]
    <3>1. thread \in [Sockets -> Thread] /\ thread[s] \in Thread
      BY DEF ThreadsOK
    <3>2. [thread[s] EXCEPT !.pc = "cleanup"] \in Thread
      BY <3>1 DEF Thread
    <3>3. thread' = [thread EXCEPT ![s] = [thread[s] EXCEPT !.pc = "cleanup"]] \/ thread' = thread
      BY <1>1 DEF Receive
    <3> QED
      BY <3>1, <3>2, <3>3
  <2> QED
    BY <1>1, <2>2, <2>4, <2>5 DEF Receive, ThreadsOK, MapStep
<1>2. CASE Cleanup(s)
  <2>1. thread[s] \in Thread /\ thread[s].routerID \in Slots
        /\ thread[s].goodByeReceived \in BOOLEAN
    BY DEF ThreadsOK, Thread
  <2>2. MapNext
    BY <1>2, <2>1 DEF Cleanup, EndSession, MapNext
  <2>3. thread' \in [Sockets -> Thread]
    BY <1>2, <2>1 DEF Cleanup, ThreadsOK, Thread, Ended
  <2> QED
    BY <1>2, <2>2, <2>3 DEF Cleanup, ThreadsOK, MapStep
<1> QED
  BY <1>1, <1>2 DEF ClientThread

LEMMA ReceiverStep ==
    ASSUME ThreadsOK, ReceiverThread
    PROVE  ThreadsOK' /\ UNCHANGED mapVars
<1>1. recvQ # <<>>
  BY DEF ReceiverThread, HandleHello, HandleGoodbye, HandleVerify, HandleDelete,
         HandleUnknown, Received
<1>2. Head(recvQ) \in Work /\ Head(recvQ).conn \in Sockets /\ Tail(recvQ) \in Seq(Work)
  BY <1>1, HeadOfWork DEF ThreadsOK
<1>3. ASSUME NEW pass, Dequeue(pass)
      PROVE  recvQ' \in Seq(Work) /\ cmdQ' \in Seq(Work) /\ stream' = stream
             /\ UNCHANGED mapVars
  BY <1>2, <1>3, AppendProperties DEF Dequeue, ThreadsOK
<1>4. CASE HandleGoodbye
  <2> DEFINE s == Head(recvQ).conn
  <2>1. PICK seen \in BOOLEAN : thread' = [thread EXCEPT ![s].goodByeReceived = seen]
    <3> DEFINE seen == thread[s].goodByeReceived
                       \/ (thread[s].active /\ thread[s].initialized)
    <3>1. seen \in BOOLEAN
      OBVIOUS
    <3>2. thread' = [thread EXCEPT ![s].goodByeReceived = seen]
      BY <1>4 DEF HandleGoodbye
    <3> QED
      BY <3>1, <3>2
  <2>2. thread' \in [Sockets -> Thread]
    BY <1>2, <2>1 DEF ThreadsOK, Thread
  <2> QED
    BY <1>3, <1>4, <2>2 DEF HandleGoodbye, ThreadsOK
<1>5. CASE HandleHello
  BY <1>3, <1>5 DEF HandleHello, ThreadsOK
<1>6. CASE HandleVerify
  BY <1>3, <1>6 DEF HandleVerify, ThreadsOK
<1>7. CASE HandleDelete
  BY <1>3, <1>7 DEF HandleDelete, ThreadsOK
<1>8. CASE HandleUnknown
  BY <1>3, <1>8 DEF HandleUnknown, ThreadsOK
<1> QED
  BY <1>4, <1>5, <1>6, <1>7, <1>8 DEF ReceiverThread

LEMMA CommandStep ==
    ASSUME ThreadsOK, MapTypeOK, CommandThread
    PROVE  ThreadsOK' /\ MapStep
<1> DEFINE s == Head(cmdQ).conn
<1>1. cmdQ # <<>>
  BY DEF CommandThread, AcceptHello, RefuseHello, ProcessGoodbye, ProcessDelete, Fetched
<1>2. s \in Sockets /\ Tail(cmdQ) \in Seq(Work)
  BY <1>1, HeadOfWork DEF ThreadsOK
<1>3. thread[s] \in Thread /\ thread[s].routerID \in Slots /\ ProxyOf[s] \in HelloIDs
  BY <1>2, SessionsAssumption DEF ThreadsOK, Thread
<1>4. CASE AcceptHello
  <2>1. Register(ProxyOf[s], s) /\ Accepts(ProxyOf[s], s)
    BY <1>4 DEF AcceptHello
  <2>2. Candidate(ProxyOf[s]) \in Slots
    <3>1. Candidate(ProxyOf[s]) \in ClientIDs
      BY <1>3, <2>1, CandidateResult, MapAssumption
    <3> QED
      BY <3>1, MapAssumption DEF Slots, ClientIDs
  <2>3. thread' = [thread EXCEPT ![s] = Greeted(thread[s], Candidate(ProxyOf[s]))]
    BY <1>2, <1>4 DEF AcceptHello
  <2>4. Greeted(thread[s], Candidate(ProxyOf[s])) \in Thread
    BY <1>3, <2>2 DEF Greeted, Thread
  <2>5. thread' \in [Sockets -> Thread]
    BY <2>3, <2>4 DEF ThreadsOK
  <2>6. MapNext
    BY <1>2, <1>3, <2>1 DEF MapNext
  <2> QED
    BY <1>2, <1>4, <2>5, <2>6 DEF AcceptHello, ThreadsOK, MapStep
<1>5. CASE RefuseHello
  BY <1>2, <1>5, CloseKeepsThread DEF RefuseHello, ThreadsOK, MapStep
<1>6. CASE ProcessGoodbye
  <2>1. MapNext
    BY <1>3, <1>6 DEF ProcessGoodbye, EndSession, MapNext
  <2> QED
    BY <1>2, <1>6, <2>1, CloseKeepsThread DEF ProcessGoodbye, ThreadsOK, MapStep
<1>7. CASE ProcessDelete
  BY <1>2, <1>7 DEF ProcessDelete, ThreadsOK, MapStep
<1> QED
  BY <1>4, <1>5, <1>6, <1>7 DEF CommandThread

LEMMA NextThreads ==
    ThreadsOK /\ MapTypeOK /\ [SessionsNext]_vars => ThreadsOK' /\ [MapNext]_mapVars
<1> SUFFICES ASSUME ThreadsOK, MapTypeOK, [SessionsNext]_vars
             PROVE  ThreadsOK' /\ MapStep
  BY DEF MapStep
<1>1. CASE UNCHANGED vars
  BY <1>1 DEF vars, sessionVars, ThreadsOK, MapStep
<1>2. CASE SessionsNext
  BY <1>2, ProxyStep, ClientThreadStep, ReceiverStep, CommandStep DEF SessionsNext, MapStep
<1> QED
  BY <1>1, <1>2

\* Whatever the threads of the server do, in whatever order: the map changes
\* only by accepted handshakes and by the end of sessions.
THEOREM SessionsUseMap == SessionsSpec => MapSpec
<1>1. SessionsInit => MapInit /\ MapTypeOK /\ ThreadsOK
  BY InitThreads, InitTypeOK DEF SessionsInit
<1>2. ThreadsOK /\ MapTypeOK /\ [SessionsNext]_vars
      => ThreadsOK' /\ [MapNext]_mapVars
  BY NextThreads
<1>3. MapTypeOK /\ [MapNext]_mapVars => MapTypeOK'
  BY NextTypeOK
<1> QED
  BY <1>1, <1>2, <1>3, PTL DEF SessionsSpec, MapSpec

\* A proxy never holds two client IDs in the running server either: requests
\* and notifications of one proxy go through one element of the map.
THEOREM SessionsOneClientID ==
    ASSUME CounterNeverWraps
    PROVE  SessionsSpec => []UniqueMapping
BY SessionsUseMap, OneClientIDPerProxy, PTL

\* Nor does the running server turn a proxy away without one of the two reasons:
\* it is connected already, or it is unknown and the map is full.
THEOREM SessionsRefuseForAReason ==
    ASSUME CounterNeverWraps, NobodyIsZero
    PROVE  SessionsSpec => []NoSpuriousRefusal
BY SessionsUseMap, RefusedForAReason, PTL

\* The running server keeps the promise of the directory: whatever its threads
\* do, a proxy that crashed or was configured comes back to its own client ID
\* and no client ID is handed out while somebody holds it.
THEOREM SessionsImplementDirectory ==
    ASSUME CounterNeverWraps
    PROVE  SessionsSpec => ImplementsDirectory
BY SessionsUseMap, MapImplementsDirectory, PTL

-----------------------------------------------------------------------------
(* The references of the update cache.                                     *)

\* What the theorems about the counts need.  The first two bound what a
\* uint32_t counts; the third is an invariant of runs in which no array of
\* clients was extended (then neither count nor GC flag would be touched).
FewUpdates   == IsFiniteSet(Updates) /\ Cardinality(Updates) < CountSize
ArraysSuffice == \A u \in Updates : Cardinality(item[u].clients) <= MinClients

ItemsOK ==
    /\ item \in [Updates -> Item]
    /\ updateCount \in [Slots -> 0 .. CountSize - 1]
    /\ \A u \in Updates : item[u].size >= MinClients
    /\ \A u \in Updates : ~item[u].stored => item[u].clients = {}

PeersOK ==
    /\ peer \in [Sockets -> {"none", "open", "left"}]
    /\ requests \in 0 .. MaxRequests

SessionsInv == ThreadsOK /\ MapTypeOK /\ ItemsOK /\ PeersOK

\* The cache is changed in four ways.
CacheStep ==
    \/ \E u \in Updates, c \in Slots : RequestUpdate(u, c) \/ DeleteUpdate(u, c)
    \/ \E c \in Slots : Unregister(c)
    \/ UNCHANGED <<item, updateCount>>

LEMMA CacheStepTaken ==
    ASSUME ThreadsOK, [SessionsNext]_vars
    PROVE  CacheStep
<1>1. \A s \in Sockets : thread[s].routerID \in Slots
  BY DEF ThreadsOK, Thread
<1>2. recvQ # <<>> => Head(recvQ).conn \in Sockets /\ Head(recvQ).pdu.update \in Updates
  BY HeadOfWork DEF ThreadsOK
<1>3. cmdQ # <<>> => Head(cmdQ).conn \in Sockets /\ Head(cmdQ).pdu.update \in Updates
  BY HeadOfWork DEF ThreadsOK
<1>4. ASSUME NEW s \in Sockets, Proxy(s) \/ Receive(s)
      PROVE  UNCHANGED <<item, updateCount>>
  BY <1>4 DEF Proxy, Connect, Request, Leave, Receive
<1>5. ASSUME NEW s \in Sockets, Cleanup(s)
      PROVE  \E c \in Slots : Unregister(c)
  BY <1>1, <1>5 DEF Cleanup, EndSession
<1>6. CASE ReceiverThread
  <2>1. CASE HandleVerify
    BY <1>1, <1>2, <2>1 DEF HandleVerify, Received, CacheStep
  <2> QED
    BY <1>6, <2>1 DEF ReceiverThread, HandleHello, HandleGoodbye, HandleDelete, HandleUnknown,
                      CacheStep
<1>7. CASE CommandThread
  <2>1. CASE ProcessGoodbye
    BY <1>1, <1>3, <2>1 DEF ProcessGoodbye, Fetched, EndSession, CacheStep
  <2>2. CASE ProcessDelete
    BY <1>1, <1>3, <2>2 DEF ProcessDelete, Fetched, CacheStep
  <2> QED
    BY <1>7, <2>1, <2>2 DEF CommandThread, AcceptHello, RefuseHello, CacheStep
<1> QED
  BY <1>4, <1>5, <1>6, <1>7 DEF SessionsNext, ClientThread, CacheStep, vars, sessionVars

\* A new reference: the client is in the array, which is as long as before or
\* longer.
LEMMA ReferenceAdded ==
    ASSUME NEW i \in Item, i.size >= MinClients, NEW c \in Slots
    PROVE  LET j == AddReference(i, c) IN
           /\ j \in Item /\ j.stored = i.stored /\ j.clients = i.clients \cup {c}
           /\ j.size >= MinClients
           /\ ~j.gc \/ (j.gc = i.gc /\ i.clients # {})
<1>1. /\ i.stored \in BOOLEAN /\ i.clients \in SUBSET Slots /\ i.size \in Nat
      /\ i.gc \in BOOLEAN /\ MinClients \in Nat \ {0}
      /\ i = [stored |-> i.stored, clients |-> i.clients, size |-> i.size, gc |-> i.gc]
  BY SessionsAssumption DEF Item
<1>2. CASE Cardinality(i.clients \cup {c}) <= i.size
  <2>1. AddReference(i, c) =
          [stored |-> i.stored, clients |-> i.clients \cup {c}, size |-> i.size, gc |-> FALSE]
    BY <1>1, <1>2 DEF AddReference
  <2> QED
    BY <1>1, <2>1 DEF Item
<1>3. CASE ~(Cardinality(i.clients \cup {c}) <= i.size)
  <2>1. AddReference(i, c) =
          [stored |-> i.stored, clients |-> i.clients \cup {c},
           size |-> i.size + MinClients, gc |-> i.gc]
    BY <1>1, <1>3 DEF AddReference
  <2>2. i.size + MinClients \in Nat /\ i.size + MinClients >= MinClients
    BY <1>1
  <2>3. i.clients # {}
    <3>1. Cardinality({c}) = 1
      BY FS_Singleton
    <3>2. Cardinality({c}) <= i.size
      BY <1>1, <3>1
    <3>3. i.clients = {} => i.clients \cup {c} = {c}
      OBVIOUS
    <3> QED
      BY <1>3, <3>2, <3>3
  <2> QED
    BY <1>1, <2>1, <2>2, <2>3 DEF Item
<1> QED
  BY <1>2, <1>3

LEMMA ReferenceDropped ==
    ASSUME NEW i \in Item, NEW c \in Slots
    PROVE  LET j == DropReference(i, c) IN
           /\ j \in Item /\ j.stored = i.stored /\ j.clients = i.clients \ {c}
           /\ j.size = i.size /\ (j.gc <=> i.gc \/ i.clients \subseteq {c})
<1> DEFINE gc == i.gc \/ i.clients \subseteq {c}
<1>1. /\ i.stored \in BOOLEAN /\ i.clients \in SUBSET Slots /\ i.size \in Nat
      /\ i.gc \in BOOLEAN
      /\ i = [stored |-> i.stored, clients |-> i.clients, size |-> i.size, gc |-> i.gc]
  BY DEF Item
<1>2. gc \in BOOLEAN
  BY <1>1
<1>3. DropReference(i, c) = [i EXCEPT !.clients = i.clients \ {c}, !.gc = gc]
  BY <1>1 DEF DropReference
<1> HIDE DEF gc
<1>4. DropReference(i, c) = [stored |-> i.stored, clients |-> i.clients \ {c},
                             size |-> i.size, gc |-> gc]
  BY <1>1, <1>3
<1>5. [stored |-> i.stored, clients |-> i.clients \ {c}, size |-> i.size, gc |-> gc] \in Item
  BY <1>1, <1>2 DEF Item
<1>6. /\ DropReference(i, c) \in Item /\ DropReference(i, c).stored = i.stored
      /\ DropReference(i, c).clients = i.clients \ {c} /\ DropReference(i, c).size = i.size
      /\ DropReference(i, c).gc = gc
  BY <1>4, <1>5
<1> QED
  BY <1>6 DEF gc

\* What a request works on, and what it leaves.
LEMMA RequestEffect ==
    ASSUME ItemsOK, NEW u \in Updates, NEW c \in Slots, RequestUpdate(u, c)
    PROVE  \E i \in Item :
              /\ i.size >= MinClients /\ i.stored /\ i.clients = item[u].clients
              /\ item[u].stored => i = item[u]
              /\ ~item[u].stored => i.clients = {} /\ ~i.gc
              /\ item' = [item EXCEPT ![u] = AddReference(i, c)]
              /\ updateCount' = [updateCount EXCEPT
                    ![c] = IF Counted(i, c) THEN (@ + 1) % CountSize ELSE @]
<1> DEFINE i == IF item[u].stored THEN item[u]
                ELSE [stored |-> TRUE, clients |-> {}, size |-> MinClients, gc |-> FALSE]
<1>1. MinClients \in Nat \ {0}
  BY SessionsAssumption
<1>2. i \in Item /\ i.size >= MinClients /\ i.stored /\ i.clients = item[u].clients
  <2>1. CASE item[u].stored
    BY <2>1 DEF ItemsOK
  <2>2. CASE ~item[u].stored
    BY <1>1, <2>2 DEF ItemsOK, Item
  <2> QED
    BY <2>1, <2>2
<1> QED
  BY <1>2 DEF RequestUpdate

LEMMA ItemsNext ==
    ASSUME ItemsOK, CacheStep
    PROVE  ItemsOK'
<1> USE SessionsAssumption
<1>1. ASSUME NEW u \in Updates, NEW c \in Slots, RequestUpdate(u, c)
      PROVE  ItemsOK'
  <2>1. PICK i \in Item :
            /\ i.size >= MinClients /\ i.stored
            /\ item' = [item EXCEPT ![u] = AddReference(i, c)]
            /\ updateCount' = [updateCount EXCEPT
                  ![c] = IF Counted(i, c) THEN (@ + 1) % CountSize ELSE @]
    BY <1>1, RequestEffect
  <2>2. /\ AddReference(i, c) \in Item /\ AddReference(i, c).size >= MinClients
        /\ AddReference(i, c).stored
    BY <2>1, ReferenceAdded
  <2>3. updateCount[c] \in 0 .. CountSize - 1 /\ (updateCount[c] + 1) % CountSize \in 0 .. CountSize - 1
    BY DEF ItemsOK
  <2> QED
    BY <2>1, <2>2, <2>3 DEF ItemsOK
<1>2. ASSUME NEW u \in Updates, NEW c \in Slots, DeleteUpdate(u, c)
      PROVE  ItemsOK'
  <2>1. /\ DropReference(item[u], c) \in Item /\ DropReference(item[u], c).size >= MinClients
        /\ DropReference(item[u], c).stored = item[u].stored
        /\ DropReference(item[u], c).clients = item[u].clients \ {c}
    BY ReferenceDropped DEF ItemsOK
  <2>2. (updateCount[c] + CountSize - 1) % CountSize \in 0 .. CountSize - 1
    BY DEF ItemsOK
  <2> QED
    BY <1>2, <2>1, <2>2 DEF DeleteUpdate, ItemsOK
<1>3. ASSUME NEW c \in Slots, Unregister(c)
      PROVE  ItemsOK'
  <2>1. PICK U \in SUBSET ListensTo(c) :
            /\ item' = [u \in Updates |-> IF u \in U THEN DropReference(item[u], c) ELSE item[u]]
            /\ updateCount' = [updateCount EXCEPT ![c] = 0]
    BY <1>3 DEF Unregister
  <2>2. \A u \in Updates : DropReference(item[u], c) \in Item
                           /\ DropReference(item[u], c).size = item[u].size
                           /\ DropReference(item[u], c).stored = item[u].stored
                           /\ DropReference(item[u], c).clients = item[u].clients \ {c}
    BY ReferenceDropped DEF ItemsOK
  <2>3. 0 \in 0 .. CountSize - 1
    OBVIOUS
  <2> QED
    BY <2>1, <2>2, <2>3 DEF ItemsOK
<1> QED
  BY <1>1, <1>2, <1>3 DEF CacheStep, ItemsOK

LEMMA PeersNext ==
    ASSUME PeersOK, [SessionsNext]_vars
    PROVE  PeersOK'
<1>1. ASSUME NEW s \in Sockets, Proxy(s) PROVE PeersOK'
  <2>1. CASE Connect(s)
    BY <2>1 DEF Connect, PeersOK
  <2>2. ASSUME NEW k \in Requests, NEW u \in Updates, Request(s, k, u) PROVE PeersOK'
    BY <2>2, SessionsAssumption DEF Request, PeersOK
  <2>3. ASSUME NEW how \in Departures, Leave(s, how) PROVE PeersOK'
    BY <2>3 DEF Leave, PeersOK
  <2> QED
    BY <1>1, <2>1, <2>2, <2>3 DEF Proxy
<1>2. CASE \E s \in Sockets : ClientThread(s)
  BY <1>2 DEF ClientThread, Receive, Cleanup, PeersOK
<1>3. CASE ReceiverThread
  BY <1>3 DEF ReceiverThread, HandleHello, HandleGoodbye, HandleVerify, HandleDelete,
              HandleUnknown, Dequeue, PeersOK
<1>4. CASE CommandThread
  BY <1>4 DEF CommandThread, AcceptHello, RefuseHello, ProcessGoodbye, ProcessDelete,
              PeersOK
<1> QED
  BY <1>1, <1>2, <1>3, <1>4 DEF SessionsNext, vars, sessionVars, PeersOK

LEMMA SessionsInvHolds == SessionsSpec => []SessionsInv
<1>1. SessionsInit => SessionsInv
  <2>1. SessionsInit => ItemsOK
    BY SessionsAssumption DEF SessionsInit, ItemsOK, Item
  <2> QED
    BY <2>1, InitThreads, InitTypeOK, SessionsAssumption DEF SessionsInit, SessionsInv, PeersOK
<1>2. SessionsInv /\ [SessionsNext]_vars => SessionsInv'
  <2> SUFFICES ASSUME SessionsInv, [SessionsNext]_vars PROVE SessionsInv'
    OBVIOUS
  <2>1. ThreadsOK' /\ MapTypeOK'
    BY NextThreads, NextTypeOK DEF SessionsInv
  <2>2. ItemsOK'
    BY CacheStepTaken, ItemsNext DEF SessionsInv
  <2> QED
    BY <2>1, <2>2, PeersNext DEF SessionsInv
<1> QED
  BY <1>1, <1>2, PTL DEF SessionsSpec

\* Every variable has its type.
THEOREM SessionsTypeCorrect == SessionsSpec => []SessionsTypeOK
<1>1. SessionsInv => SessionsTypeOK
  BY DEF SessionsInv, ThreadsOK, ItemsOK, PeersOK, SessionsTypeOK
<1> QED
  BY <1>1, SessionsInvHolds, PTL

\* The garbage collector is told about an update exactly when nobody listens,
\* also when arrays of clients were extended: the first client of an array
\* always finds a free slot.
THEOREM UnusedIsCollectable == SessionsSpec => []CollectableIffUnused
<1>1. SessionsInit => CollectableIffUnused
  BY DEF SessionsInit, CollectableIffUnused
<1>2. SessionsInv /\ CollectableIffUnused /\ [SessionsNext]_vars => CollectableIffUnused'
  <2> SUFFICES ASSUME SessionsInv, CollectableIffUnused, [SessionsNext]_vars
               PROVE  CollectableIffUnused'
    OBVIOUS
  <2>1. CacheStep /\ ItemsOK
    BY CacheStepTaken DEF SessionsInv
  <2>2. ASSUME NEW u \in Updates, NEW c \in Slots, RequestUpdate(u, c)
        PROVE  CollectableIffUnused'
    <3>1. PICK i \in Item :
              /\ i.size >= MinClients /\ i.stored
              /\ item[u].stored => i = item[u]
              /\ ~item[u].stored => i.clients = {} /\ ~i.gc
              /\ item' = [item EXCEPT ![u] = AddReference(i, c)]
      BY <2>1, <2>2, RequestEffect
    <3>2. AddReference(i, c).clients = i.clients \cup {c}
          /\ (~AddReference(i, c).gc
              \/ (AddReference(i, c).gc = i.gc /\ i.clients # {}))
      BY <3>1, ReferenceAdded
    <3>3. i.gc => i.clients = {}
      BY <3>1 DEF CollectableIffUnused
    <3>4. ~AddReference(i, c).gc /\ AddReference(i, c).clients # {}
      BY <3>2, <3>3
    <3> QED
      BY <2>1, <3>1, <3>4 DEF CollectableIffUnused, ItemsOK
  <2>3. ASSUME NEW u \in Updates, NEW c \in Slots,
               item[u].stored => (item[u].gc <=> item[u].clients = {})
        PROVE  LET j == DropReference(item[u], c) IN
               j.stored => (j.gc <=> j.clients = {})
    <3>1. /\ DropReference(item[u], c).stored = item[u].stored
          /\ DropReference(item[u], c).clients = item[u].clients \ {c}
          /\ DropReference(item[u], c).gc <=> item[u].gc \/ item[u].clients \subseteq {c}
      BY <2>1, ReferenceDropped DEF ItemsOK
    <3> QED
      BY <2>3, <3>1
  <2>4. ASSUME NEW u \in Updates, NEW c \in Slots, DeleteUpdate(u, c)
        PROVE  CollectableIffUnused'
    BY <2>1, <2>3, <2>4 DEF DeleteUpdate, CollectableIffUnused, ItemsOK
  <2>5. ASSUME NEW c \in Slots, Unregister(c)
        PROVE  CollectableIffUnused'
    <3>1. PICK U \in SUBSET ListensTo(c) :
            item' = [u \in Updates |-> IF u \in U THEN DropReference(item[u], c) ELSE item[u]]
      BY <2>5 DEF Unregister
    <3> QED
      BY <2>3, <3>1 DEF CollectableIffUnused
  <2> QED
    BY <2>1, <2>2, <2>4, <2>5 DEF CacheStep, CollectableIffUnused
<1> QED
  BY <1>1, <1>2, SessionsInvHolds, PTL DEF SessionsSpec

-----------------------------------------------------------------------------
(* The count of references.                                                *)

LEMMA SlotsFinite == IsFiniteSet(Slots)
<1>1. 0 \in Int /\ MaxElements - 1 \in Int
  BY MapAssumption
<1> QED
  BY <1>1, FS_Interval DEF Slots

\* There are fewer updates than the counter has values.
LEMMA ListensFits ==
    ASSUME FewUpdates, NEW L \in SUBSET Updates
    PROVE  IsFiniteSet(L) /\ Cardinality(L) \in 0 .. CountSize - 1
<1>1. IsFiniteSet(L) /\ Cardinality(L) <= Cardinality(Updates)
  BY FS_Subset DEF FewUpdates
<1>2. Cardinality(L) \in Nat /\ Cardinality(Updates) \in Nat
  BY <1>1, FS_CardinalityType DEF FewUpdates
<1> QED
  BY <1>1, <1>2, SessionsAssumption DEF FewUpdates

\* While no array is extended, every new reference is counted.
LEMMA NewIsCounted ==
    ASSUME NEW i \in Item, i.size >= MinClients, NEW c \in Slots, c \notin i.clients,
           Cardinality(i.clients \cup {c}) <= MinClients
    PROVE  Counted(i, c)
<1>1. i.clients \in SUBSET Slots /\ i.size \in Nat /\ MinClients \in Nat
  BY SessionsAssumption DEF Item
<1>2. IsFiniteSet(i.clients)
  BY <1>1, SlotsFinite, FS_Subset
<1>3. Cardinality(i.clients) \in Nat
  BY <1>2, FS_CardinalityType
<1>4. Cardinality(i.clients \cup {c}) = Cardinality(i.clients) + 1
  BY <1>2, FS_AddElement
<1> QED
  BY <1>1, <1>3, <1>4 DEF Counted

LEMMA CountKeptByRequest ==
    ASSUME FewUpdates, ItemsOK, CountIsExact, ArraysSuffice',
           NEW u \in Updates, NEW c \in Slots, RequestUpdate(u, c)
    PROVE  CountIsExact'
<1>1. PICK i \in Item :
          /\ i.size >= MinClients /\ i.clients = item[u].clients
          /\ item' = [item EXCEPT ![u] = AddReference(i, c)]
          /\ updateCount' = [updateCount EXCEPT
                ![c] = IF Counted(i, c) THEN (@ + 1) % CountSize ELSE @]
  BY RequestEffect
<1>2. AddReference(i, c).clients = item[u].clients \cup {c}
  BY <1>1, ReferenceAdded
<1>3. item \in [Updates -> Item] /\ updateCount \in [Slots -> 0 .. CountSize - 1]
  BY DEF ItemsOK
<1>4. item'[u].clients = item[u].clients \cup {c}
      /\ \A w \in Updates \ {u} : item'[w].clients = item[w].clients
  BY <1>1, <1>2, <1>3
<1>5. ASSUME NEW d \in Slots, d # c
      PROVE  updateCount'[d] = Cardinality(ListensTo(d)')
  <2>1. ListensTo(d)' = ListensTo(d)
    BY <1>4, <1>5 DEF ListensTo
  <2>2. updateCount'[d] = updateCount[d]
    BY <1>1, <1>3, <1>5
  <2> QED
    BY <2>1, <2>2 DEF CountIsExact
<1>6. ListensTo(c)' = ListensTo(c) \cup {u}
  BY <1>4 DEF ListensTo
<1>7. ListensTo(c) \in SUBSET Updates /\ ListensTo(c)' \in SUBSET Updates
  BY DEF ListensTo
<1>8. /\ IsFiniteSet(ListensTo(c))
      /\ Cardinality(ListensTo(c)) \in 0 .. CountSize - 1
      /\ Cardinality(ListensTo(c)') \in 0 .. CountSize - 1
  BY <1>7, ListensFits
<1>9. updateCount[c] = Cardinality(ListensTo(c))
  BY DEF CountIsExact
<1>10. updateCount'[c] = Cardinality(ListensTo(c)')
  <2>1. CASE c \in item[u].clients
    <3>1. updateCount'[c] = updateCount[c]
      BY <1>1, <1>3, <2>1 DEF Counted
    <3>2. ListensTo(c)' = ListensTo(c)
      BY <1>6, <2>1 DEF ListensTo
    <3> QED
      BY <1>9, <3>1, <3>2
  <2>2. CASE c \notin item[u].clients
    <3>1. Cardinality(i.clients \cup {c}) <= MinClients
      BY <1>1, <1>4 DEF ArraysSuffice
    <3>2. Counted(i, c)
      BY <1>1, <2>2, <3>1, NewIsCounted
    <3>3. updateCount'[c] = (updateCount[c] + 1) % CountSize
      BY <1>1, <1>3, <3>2
    <3>4. u \notin ListensTo(c)
      BY <2>2 DEF ListensTo
    <3>5. Cardinality(ListensTo(c)') = Cardinality(ListensTo(c)) + 1
      BY <1>6, <1>8, <3>4, FS_AddElement
    <3>6. CountSize \in Nat \ {0, 1}
      BY SessionsAssumption
    <3> QED
      BY <1>8, <1>9, <3>3, <3>5, <3>6
  <2> QED
    BY <2>1, <2>2
<1> QED
  BY <1>5, <1>10 DEF CountIsExact

LEMMA CountKeptByDelete ==
    ASSUME FewUpdates, ItemsOK, CountIsExact,
           NEW u \in Updates, NEW c \in Slots, DeleteUpdate(u, c)
    PROVE  CountIsExact'
<1>1. CASE c \notin item[u].clients
  BY <1>1 DEF DeleteUpdate, CountIsExact, ListensTo
<1>2. CASE c \in item[u].clients
  <2>1. item' = [item EXCEPT ![u] = DropReference(item[u], c)]
        /\ updateCount' = [updateCount EXCEPT ![c] = (@ + CountSize - 1) % CountSize]
    BY <1>2 DEF DeleteUpdate, ItemsOK
  <2>2. item \in [Updates -> Item] /\ updateCount \in [Slots -> 0 .. CountSize - 1]
    BY DEF ItemsOK
  <2>3. DropReference(item[u], c).clients = item[u].clients \ {c}
    BY <2>2, ReferenceDropped
  <2>4. item'[u].clients = item[u].clients \ {c}
        /\ \A w \in Updates \ {u} : item'[w].clients = item[w].clients
    BY <2>1, <2>2, <2>3
  <2>5. ASSUME NEW d \in Slots, d # c
        PROVE  updateCount'[d] = Cardinality(ListensTo(d)')
    <3>1. ListensTo(d)' = ListensTo(d)
      BY <2>4, <2>5 DEF ListensTo
    <3>2. updateCount'[d] = updateCount[d]
      BY <2>1, <2>2, <2>5
    <3> QED
      BY <3>1, <3>2 DEF CountIsExact
  <2>6. ListensTo(c)' = ListensTo(c) \ {u} /\ u \in ListensTo(c)
    BY <1>2, <2>4 DEF ListensTo
  <2>7. ListensTo(c) \in SUBSET Updates
    BY DEF ListensTo
  <2>8. IsFiniteSet(ListensTo(c)) /\ Cardinality(ListensTo(c)) \in 0 .. CountSize - 1
    BY <2>7, ListensFits
  <2>9. Cardinality(ListensTo(c)') = Cardinality(ListensTo(c)) - 1
        /\ IsFiniteSet(ListensTo(c)')
    BY <2>6, <2>8, FS_RemoveElement
  <2>10. Cardinality(ListensTo(c)') \in Nat
    BY <2>9, FS_CardinalityType
  <2>11. updateCount[c] = Cardinality(ListensTo(c))
    BY DEF CountIsExact
  <2>12. updateCount'[c] = (updateCount[c] + CountSize - 1) % CountSize
    BY <2>1, <2>2
  <2>13. ASSUME NEW n \in Nat, NEW m \in Nat, m < CountSize, n = m - 1
         PROVE  (m + CountSize - 1) % CountSize = n
    BY <2>13, SessionsAssumption
  <2>14. updateCount[c] \in Nat /\ updateCount[c] < CountSize
    BY <2>8, <2>11, SessionsAssumption
  <2>15. updateCount'[c] = Cardinality(ListensTo(c)')
    BY <2>9, <2>10, <2>11, <2>12, <2>13, <2>14
  <2> QED
    BY <2>5, <2>15 DEF CountIsExact
<1> QED
  BY <1>1, <1>2

\* The walk that ends a session finds every reference: it may stop only when it
\* has dropped as many as there are.
LEMMA UnregisterTakesAll ==
    ASSUME FewUpdates, ItemsOK, CountIsExact, NEW c \in Slots, Unregister(c)
    PROVE  /\ \A u \in Updates : item'[u].clients = item[u].clients \ {c}
           /\ updateCount' = [updateCount EXCEPT ![c] = 0]
<1>1. PICK U \in SUBSET ListensTo(c) :
          /\ Cardinality(U) = updateCount[c] \/ U = ListensTo(c)
          /\ item' = [u \in Updates |-> IF u \in U THEN DropReference(item[u], c) ELSE item[u]]
          /\ updateCount' = [updateCount EXCEPT ![c] = 0]
  BY DEF Unregister
<1>2. U = ListensTo(c)
  <2>1. IsFiniteSet(ListensTo(c))
    BY ListensFits DEF ListensTo
  <2>2. updateCount[c] = Cardinality(ListensTo(c))
    BY DEF CountIsExact
  <2> QED
    BY <1>1, <2>1, <2>2, FS_Subset
<1>3. \A u \in Updates : DropReference(item[u], c).clients = item[u].clients \ {c}
  BY ReferenceDropped DEF ItemsOK
<1> QED
  BY <1>1, <1>2, <1>3 DEF ListensTo

LEMMA CountKeptByUnregister ==
    ASSUME FewUpdates, ItemsOK, CountIsExact, NEW c \in Slots, Unregister(c)
    PROVE  CountIsExact'
<1>1. /\ \A u \in Updates : item'[u].clients = item[u].clients \ {c}
      /\ updateCount' = [updateCount EXCEPT ![c] = 0]
  BY UnregisterTakesAll
<1>2. updateCount \in [Slots -> 0 .. CountSize - 1]
  BY DEF ItemsOK
<1>3. ASSUME NEW d \in Slots, d # c
      PROVE  updateCount'[d] = Cardinality(ListensTo(d)')
  <2>1. ListensTo(d)' = ListensTo(d)
    BY <1>1, <1>3 DEF ListensTo
  <2>2. updateCount'[d] = updateCount[d]
    BY <1>1, <1>2, <1>3
  <2> QED
    BY <2>1, <2>2 DEF CountIsExact
<1>4. ListensTo(c)' = {}
  BY <1>1 DEF ListensTo
<1>5. updateCount'[c] = 0
  BY <1>1, <1>2
<1> QED
  BY <1>3, <1>4, <1>5, FS_EmptySet DEF CountIsExact

LEMMA NextCount ==
    ASSUME FewUpdates, SessionsInv, CountIsExact, ArraysSuffice', [SessionsNext]_vars
    PROVE  CountIsExact'
<1>1. ItemsOK /\ CacheStep
  BY CacheStepTaken DEF SessionsInv
<1>2. CASE UNCHANGED <<item, updateCount>>
  BY <1>2 DEF CountIsExact, ListensTo
<1> QED
  BY <1>1, <1>2, CountKeptByRequest, CountKeptByDelete, CountKeptByUnregister DEF CacheStep

\* As long as no update has more clients than its array was made for, the count
\* of references is exact: whatever requests, deletions and ends of sessions
\* overtake each other.
THEOREM CountOfReferences ==
    ASSUME FewUpdates
    PROVE  SessionsSpec /\ []ArraysSuffice => []CountIsExact
<1>1. SessionsInit => CountIsExact
  <2> SUFFICES ASSUME SessionsInit, NEW c \in Slots
               PROVE  updateCount[c] = Cardinality(ListensTo(c))
    BY DEF CountIsExact
  <2>1. ListensTo(c) = {}
    BY DEF SessionsInit, ListensTo
  <2> QED
    BY <2>1, FS_EmptySet DEF SessionsInit
<1>2. SessionsInv /\ CountIsExact /\ ArraysSuffice' /\ [SessionsNext]_vars => CountIsExact'
  BY NextCount
<1> QED
  BY <1>1, <1>2, SessionsInvHolds, PTL DEF SessionsSpec

\* A step that ends the session of a client ID walks through the cache for it.
LEMMA EndWalks ==
    ASSUME SessionsInv, [SessionsNext]_vars, NEW c \in ClientIDs,
           proxyMap[c].isActive, ~proxyMap'[c].isActive
    PROVE  Unregister(c)
<1>1. c \in Slots /\ MapTypeOK /\ ThreadsOK
  BY DEF Slots, ClientIDs, SessionsInv
<1>2. ASSUME NEW d \in Slots, NEW crashed \in BOOLEAN, EndSession(d, crashed)
      PROVE  Unregister(c)
  <2>1. deactivateConnectionMapping(d, crashed) /\ Unregister(d)
    BY <1>2 DEF EndSession
  <2>2. c = d
    BY <1>1, <2>1 DEF deactivateConnectionMapping, MapTypeOK
  <2> QED
    BY <2>1, <2>2
<1>3. \A s \in Sockets : thread[s].routerID \in Slots /\ thread[s].goodByeReceived \in BOOLEAN
                         /\ ProxyOf[s] \in HelloIDs
  BY <1>1, SessionsAssumption DEF ThreadsOK, Thread
<1>4. proxyMap' # proxyMap
  OBVIOUS
<1>5. CASE \E s \in Sockets : Cleanup(s)
  BY <1>2, <1>3, <1>5 DEF Cleanup
<1>6. CASE ProcessGoodbye
  <2>1. Head(cmdQ).conn \in Sockets
    BY <1>1, <1>6, HeadOfWork DEF ProcessGoodbye, Fetched, ThreadsOK
  <2> QED
    BY <1>2, <1>3, <1>6, <2>1 DEF ProcessGoodbye
<1>7. CASE AcceptHello
  <2>1. Head(cmdQ).conn \in Sockets
    BY <1>1, <1>7, HeadOfWork DEF AcceptHello, Fetched, ThreadsOK
  <2>2. PICK p \in HelloIDs, s \in Sockets : Register(p, s)
    BY <1>3, <1>7, <2>1 DEF AcceptHello
  <2>3. PICK d \in ClientIDs : \E e \in Entry :
          e.isActive /\ proxyMap' = [proxyMap EXCEPT ![d] = e]
    <3>1. PICK d \in ClientIDs :
            proxyMap' = [proxyMap EXCEPT ![d] =
                          [proxyID |-> p, socket |-> s, isActive |-> TRUE,
                           preDefined |-> proxyMap[d].preDefined, crashed |-> FALSE]]
      BY <1>1, <2>2, RegisterEffect
    <3>2. d \in Slots /\ proxyMap[d].preDefined \in BOOLEAN /\ p \in Nat
      BY <1>1, MapAssumption DEF MapTypeOK, Entry, Slots, ClientIDs
    <3> QED
      BY <3>1, <3>2 DEF Entry
  <2> QED
    BY <1>1, <2>3 DEF MapTypeOK
<1> QED
  BY <1>4, <1>5, <1>6, <1>7
     DEF SessionsNext, ClientThread, ReceiverThread, CommandThread, Proxy, Connect, Request,
         Leave, Receive, HandleHello, HandleGoodbye, HandleVerify, HandleDelete, HandleUnknown,
         Dequeue, RefuseHello, ProcessDelete, vars, mapVars

\* Nothing of a session is left in the update cache when it ends: the next
\* holder of the client ID inherits no listener.
THEOREM EndLeavesNoReference ==
    ASSUME FewUpdates
    PROVE  SessionsSpec /\ []ArraysSuffice => EndUnregisters
<1>1. SessionsInv /\ CountIsExact /\ [SessionsNext]_vars
      => [\A c \in ClientIDs : proxyMap[c].isActive /\ ~proxyMap'[c].isActive
            => \A u \in Updates : c \notin item'[u].clients]_vars
  <2> SUFFICES ASSUME SessionsInv, CountIsExact, [SessionsNext]_vars, NEW c \in ClientIDs,
                      proxyMap[c].isActive, ~proxyMap'[c].isActive, NEW u \in Updates
               PROVE  c \notin item'[u].clients
    OBVIOUS
  <2>1. Unregister(c)
    BY EndWalks
  <2>2. c \in Slots /\ ItemsOK
    BY DEF Slots, ClientIDs, SessionsInv
  <2> QED
    BY <2>1, <2>2, UnregisterTakesAll
<1> QED
  BY <1>1, CountOfReferences, SessionsInvHolds, PTL DEF SessionsSpec, EndUnregisters

-----------------------------------------------------------------------------
(* The way of a HELLO.                                                     *)

\* Work that is the HELLO of a connection, and a queue with such work.
IsHello(w, s) == w.conn = s /\ w.pdu.kind = "hello"
Greets(q, s)  == \E i \in 1 .. Len(q) : IsHello(q[i], s)
Once(q, s)    == \A i, j \in 1 .. Len(q) : IsHello(q[i], s) /\ IsHello(q[j], s) => i = j

\* The HELLO of a stream, which is the first PDU of it.
Opens(q)     == \E i \in 1 .. Len(q) : q[i].kind = "hello"
OpensOnly(q) == \A i \in 1 .. Len(q) : q[i].kind = "hello" => i = 1

\* A connection has one HELLO, wherever it is.
OneHello(s) ==
    /\ OpensOnly(stream[s]) /\ Once(recvQ, s) /\ Once(cmdQ, s)
    /\ ~(Opens(stream[s]) /\ Greets(recvQ, s))
    /\ ~(Opens(stream[s]) /\ Greets(cmdQ, s))
    /\ ~(Greets(recvQ, s) /\ Greets(cmdQ, s))
    /\ peer[s] = "none" =>
          stream[s] = <<>> /\ ~Greets(recvQ, s) /\ ~Greets(cmdQ, s)
HelloOnce == \A s \in Sockets : OneHello(s)

\* The HELLO of a connection is still to be processed, or to be sent.
Waiting(s) ==
    peer[s] = "none" \/ Opens(stream[s]) \/ Greets(recvQ, s) \/ Greets(cmdQ, s)

LEMMA Pushed ==
    ASSUME NEW q \in Seq(Work), NEW w \in Work, NEW s
    PROVE  /\ Greets(Append(q, w), s) <=> Greets(q, s) \/ IsHello(w, s)
           /\ Once(q, s) /\ ~(Greets(q, s) /\ IsHello(w, s)) => Once(Append(q, w), s)
<1> DEFINE r == Append(q, w)
<1>1. Len(q) \in Nat
  BY LenProperties
<1>2. /\ Len(r) = Len(q) + 1
      /\ \A i \in 1 .. Len(q) : r[i] = q[i]
      /\ r[Len(q) + 1] = w
  BY AppendProperties
<1> HIDE DEF r
<1>3. 1 .. Len(r) = (1 .. Len(q)) \cup {Len(q) + 1}
  BY <1>1, <1>2
<1>4. Greets(r, s) <=> Greets(q, s) \/ IsHello(w, s)
  BY <1>2, <1>3 DEF Greets
<1>5. ASSUME Once(q, s), ~(Greets(q, s) /\ IsHello(w, s)) PROVE Once(r, s)
  <2> SUFFICES ASSUME NEW i \in 1 .. Len(r), NEW j \in 1 .. Len(r),
                      IsHello(r[i], s), IsHello(r[j], s)
               PROVE  i = j
    BY DEF Once
  <2>1. CASE i \in 1 .. Len(q) /\ j \in 1 .. Len(q)
    BY <1>2, <1>5, <2>1 DEF Once
  <2>2. CASE i \in 1 .. Len(q) /\ j = Len(q) + 1
    BY <1>2, <1>5, <2>2 DEF Greets
  <2>3. CASE i = Len(q) + 1 /\ j \in 1 .. Len(q)
    BY <1>2, <1>5, <2>3 DEF Greets
  <2> QED
    BY <1>3, <2>1, <2>2, <2>3
<1> QED
  BY <1>4, <1>5 DEF r

LEMMA Popped ==
    ASSUME NEW q \in Seq(Work), q # <<>>, NEW s, Once(q, s)
    PROVE  /\ Once(Tail(q), s)
           /\ Greets(Tail(q), s) => Greets(q, s)
           /\ IsHello(Head(q), s) => Greets(q, s) /\ ~Greets(Tail(q), s)
<1> DEFINE t == Tail(q)
<1>1. Len(q) \in Nat \ {0}
  BY LenProperties, EmptySeq
<1>2. Len(t) = Len(q) - 1 /\ Head(q) = q[1]
  BY HeadTailProperties
<1>3. \A i \in 1 .. Len(t) : t[i] = q[i + 1]
  BY HeadTailProperties
<1> HIDE DEF t
<1>4. 1 \in 1 .. Len(q) /\ \A i \in 1 .. Len(t) : i + 1 \in 1 .. Len(q) /\ i + 1 # 1
  BY <1>1, <1>2
<1>5. Once(t, s)
  <2> SUFFICES ASSUME NEW i \in 1 .. Len(t), NEW j \in 1 .. Len(t),
                      IsHello(t[i], s), IsHello(t[j], s)
               PROVE  i = j
    BY DEF Once
  <2>1. i + 1 = j + 1
    BY <1>3, <1>4 DEF Once
  <2>2. i \in Int /\ j \in Int
    OBVIOUS
  <2> QED
    BY <2>1, <2>2
<1>6. Greets(t, s) => Greets(q, s)
  BY <1>3, <1>4 DEF Greets
<1>7. IsHello(Head(q), s) => Greets(q, s) /\ ~Greets(t, s)
  BY <1>2, <1>3, <1>4 DEF Greets, Once
<1> QED
  BY <1>5, <1>6, <1>7 DEF t

\* What follows a HELLO in a stream is none.
LEMMA StreamGrows ==
    ASSUME NEW q \in Seq(PDU), NEW p \in PDU, p.kind # "hello"
    PROVE  /\ Opens(Append(q, p)) <=> Opens(q)
           /\ OpensOnly(q) => OpensOnly(Append(q, p))
<1> DEFINE r == Append(q, p)
<1>1. Len(q) \in Nat
  BY LenProperties
<1>2. /\ Len(r) = Len(q) + 1
      /\ \A i \in 1 .. Len(q) : r[i] = q[i]
      /\ r[Len(q) + 1] = p
  BY AppendProperties
<1> HIDE DEF r
<1>3. 1 .. Len(r) = (1 .. Len(q)) \cup {Len(q) + 1}
  BY <1>1, <1>2
<1>4. Opens(r) <=> Opens(q)
  BY <1>2, <1>3 DEF Opens
<1>5. OpensOnly(q) => OpensOnly(r)
  BY <1>2, <1>3 DEF OpensOnly
<1> QED
  BY <1>4, <1>5 DEF r

LEMMA StreamTaken ==
    ASSUME NEW q \in Seq(PDU), q # <<>>, OpensOnly(q)
    PROVE  /\ ~Opens(Tail(q)) /\ OpensOnly(Tail(q))
           /\ Head(q).kind = "hello" => Opens(q)
<1> DEFINE t == Tail(q)
<1>1. Len(q) \in Nat \ {0}
  BY LenProperties, EmptySeq
<1>2. Len(t) = Len(q) - 1 /\ Head(q) = q[1]
  BY HeadTailProperties
<1>3. \A i \in 1 .. Len(t) : t[i] = q[i + 1]
  BY HeadTailProperties
<1> HIDE DEF t
<1>4. 1 \in 1 .. Len(q) /\ \A i \in 1 .. Len(t) : i + 1 \in 1 .. Len(q) /\ i + 1 # 1
  BY <1>1, <1>2
<1>5. ~Opens(t) /\ OpensOnly(t)
  BY <1>3, <1>4 DEF Opens, OpensOnly
<1>6. Head(q).kind = "hello" => Opens(q)
  BY <1>2, <1>4 DEF Opens
<1> QED
  BY <1>5, <1>6 DEF t

\* The proxies add to the streams; nobody starts to wait that did not before.
LEMMA ProxyHop ==
    ASSUME ThreadsOK, PeersOK, HelloOnce, NEW s \in Sockets, Proxy(s)
    PROVE  HelloOnce' /\ \A r \in Sockets : Waiting(r)' => Waiting(r)
<1>1. stream[s] \in Seq(PDU) /\ OpensOnly(stream[s])
  BY DEF ThreadsOK, HelloOnce, OneHello
<1>2. recvQ' = recvQ /\ cmdQ' = cmdQ
  BY DEF Proxy, Connect, Request, Leave
<1>3. ASSUME NEW r \in Sockets, r # s
      PROVE  OneHello(r)' /\ (Waiting(r)' => Waiting(r))
  <2>1. stream'[r] = stream[r] /\ peer'[r] = peer[r]
    BY <1>3 DEF Proxy, Connect, Request, Leave, ThreadsOK, PeersOK
  <2> QED
    BY <1>2, <2>1 DEF HelloOnce, OneHello, Waiting
<1>4. ASSUME Connect(s) PROVE OneHello(s)' /\ (Waiting(s)' => Waiting(s))
  <2>1. peer[s] = "none" /\ peer'[s] = "open" /\ stream'[s] = <<Plain("hello")>>
    BY <1>4 DEF Connect, ThreadsOK, PeersOK
  <2>2. OpensOnly(stream'[s])
    BY <2>1 DEF OpensOnly
  <2> QED
    BY <1>2, <2>1, <2>2 DEF HelloOnce, OneHello, Waiting
<1>5. ASSUME peer[s] = "open", peer'[s] # "none",
             Opens(stream'[s]) <=> Opens(stream[s]), OpensOnly(stream'[s])
      PROVE  OneHello(s)' /\ (Waiting(s)' => Waiting(s))
  BY <1>2, <1>5 DEF HelloOnce, OneHello, Waiting
<1>6. ASSUME NEW k \in Requests, NEW u \in Updates, Request(s, k, u)
      PROVE  OneHello(s)' /\ (Waiting(s)' => Waiting(s))
  <2>1. [kind |-> k, update |-> u] \in PDU /\ k # "hello"
    BY SessionsAssumption DEF PDU, Kinds
  <2>2. stream'[s] = Append(stream[s], [kind |-> k, update |-> u])
        /\ peer'[s] = peer[s] /\ peer[s] = "open"
    BY <1>6 DEF Request, Open, ThreadsOK
  <2> QED
    BY <1>1, <1>5, <2>1, <2>2, StreamGrows
<1>7. ASSUME NEW how \in Departures, Leave(s, how)
      PROVE  OneHello(s)' /\ (Waiting(s)' => Waiting(s))
  <2> DEFINE q == IF how \in {"goodbye", "unknown"} THEN Append(stream[s], Plain(how))
                  ELSE stream[s]
  <2>1. /\ how \in {"goodbye", "unknown"} => Plain(how) \in PDU /\ Plain(how).kind # "hello"
        /\ Plain("eof") \in PDU /\ Plain("eof").kind # "hello"
    BY PlainIsPDU DEF Kinds, Plain
  <2>2. q \in Seq(PDU) /\ (Opens(q) <=> Opens(stream[s])) /\ OpensOnly(q)
    BY <1>1, <2>1, StreamGrows, AppendProperties
  <2>3. stream'[s] = Append(q, Plain("eof"))
    <3>1. stream'[s] = stream[s]
            \o (IF how \in {"goodbye", "unknown"} THEN <<Plain(how)>> ELSE <<>>)
            \o <<Plain("eof")>>
      BY <1>7 DEF Leave, ThreadsOK
    <3>2. stream[s]
            \o (IF how \in {"goodbye", "unknown"} THEN <<Plain(how)>> ELSE <<>>) = q
      <4>1. CASE how \in {"goodbye", "unknown"}
        BY <1>1, <2>1, <4>1, AppendIsConcat
      <4>2. CASE how \notin {"goodbye", "unknown"}
        BY <1>1, <4>2, ConcatEmptySeq
      <4> QED
        BY <4>1, <4>2
    <3> QED
      BY <2>1, <2>2, <3>1, <3>2, AppendIsConcat
  <2>4. peer'[s] = "left" /\ peer[s] = "open"
    BY <1>7 DEF Leave, Open, PeersOK
  <2> HIDE DEF q
  <2> QED
    BY <1>5, <2>1, <2>2, <2>3, <2>4, StreamGrows
<1> QED
  BY <1>3, <1>4, <1>6, <1>7 DEF Proxy, HelloOnce

\* The client thread moves a HELLO from the stream to the receiver queue.
LEMMA ReceiveHop ==
    ASSUME ThreadsOK, PeersOK, HelloOnce, NEW s \in Sockets, Receive(s)
    PROVE  HelloOnce' /\ \A r \in Sockets : Waiting(r)' => Waiting(r)
<1> DEFINE p == Head(stream[s])
           w == [conn |-> s, pdu |-> p]
<1>1. /\ stream[s] \in Seq(PDU) /\ stream[s] # <<>> /\ recvQ \in Seq(Work)
      /\ stream' = [stream EXCEPT ![s] = Tail(stream[s])]
      /\ peer' = peer /\ cmdQ' = cmdQ
  BY DEF Receive, ThreadsOK
<1>2. p \in PDU /\ w \in Work
  BY <1>1, HeadTailProperties DEF Work
<1>3. ~Opens(Tail(stream[s])) /\ OpensOnly(Tail(stream[s]))
      /\ (p.kind = "hello" => Opens(stream[s]))
  BY <1>1, StreamTaken DEF HelloOnce, OneHello
<1>4. stream'[s] = Tail(stream[s]) /\ \A r \in Sockets \ {s} : stream'[r] = stream[r]
  BY <1>1 DEF ThreadsOK
<1>5. (recvQ' = recvQ /\ p.kind # "hello") \/ recvQ' = Append(recvQ, w)
  BY DEF Receive
<1>6. ASSUME NEW r \in Sockets
      PROVE  /\ Greets(recvQ', r) => Greets(recvQ, r) \/ (r = s /\ p.kind = "hello")
             /\ Once(recvQ', r)
  <2>1. Once(recvQ, r)
    BY DEF HelloOnce, OneHello
  <2>2. IsHello(w, r) <=> r = s /\ p.kind = "hello"
    BY DEF IsHello
  <2>3. ~(Greets(recvQ, r) /\ IsHello(w, r))
    BY <1>3, <2>2 DEF HelloOnce, OneHello
  <2> HIDE DEF w
  <2>4. /\ Greets(Append(recvQ, w), r) <=> Greets(recvQ, r) \/ IsHello(w, r)
        /\ Once(Append(recvQ, w), r)
    BY <1>1, <1>2, <2>1, <2>3, Pushed
  <2>5. CASE recvQ' = recvQ
    BY <2>1, <2>5
  <2>6. CASE recvQ' = Append(recvQ, w)
    BY <2>2, <2>4, <2>6
  <2> QED
    BY <1>5, <2>5, <2>6
<1>7. ASSUME NEW r \in Sockets
      PROVE  OneHello(r)' /\ (Waiting(r)' => Waiting(r))
  <2>1. OneHello(r) /\ OneHello(s)
    BY DEF HelloOnce
  <2>2. CASE r = s
    BY <1>1, <1>3, <1>4, <1>6, <2>1, <2>2 DEF OneHello, Waiting
  <2>3. CASE r # s
    BY <1>1, <1>4, <1>6, <2>1, <2>3 DEF OneHello, Waiting
  <2> QED
    BY <2>2, <2>3
<1> QED
  BY <1>7 DEF HelloOnce

\* The receiver thread passes it on to the command thread, or drops it.
LEMMA DequeueHop ==
    ASSUME ThreadsOK, HelloOnce, recvQ # <<>>, NEW pass, Dequeue(pass)
    PROVE  HelloOnce' /\ \A r \in Sockets : Waiting(r)' => Waiting(r)
<1>1. recvQ \in Seq(Work) /\ cmdQ \in Seq(Work) /\ Head(recvQ) \in Work
  BY HeadOfWork DEF ThreadsOK
<1>2. /\ recvQ' = Tail(recvQ) /\ peer' = peer /\ stream' = stream
      /\ cmdQ' = cmdQ \/ cmdQ' = Append(cmdQ, Head(recvQ))
  BY DEF Dequeue
<1>3. ASSUME NEW r \in Sockets
      PROVE  OneHello(r)' /\ (Waiting(r)' => Waiting(r))
  <2>1. OneHello(r)
    BY DEF HelloOnce
  <2>2. /\ Once(recvQ', r)
        /\ Greets(recvQ', r) => Greets(recvQ, r)
        /\ IsHello(Head(recvQ), r) => Greets(recvQ, r) /\ ~Greets(recvQ', r)
    BY <1>1, <1>2, <2>1, Popped DEF OneHello
  <2>3. /\ Once(cmdQ', r)
        /\ Greets(cmdQ', r) => Greets(cmdQ, r) \/ IsHello(Head(recvQ), r)
    <3> DEFINE w == Head(recvQ)
    <3>1. /\ Greets(Append(cmdQ, w), r) <=> Greets(cmdQ, r) \/ IsHello(w, r)
          /\ Once(cmdQ, r) /\ ~(Greets(cmdQ, r) /\ IsHello(w, r)) => Once(Append(cmdQ, w), r)
      BY <1>1, Pushed
    <3>2. Once(cmdQ, r) /\ ~(Greets(cmdQ, r) /\ IsHello(w, r))
      BY <2>1, <2>2 DEF OneHello
    <3> QED
      BY <1>2, <3>1, <3>2
  <2> QED
    BY <1>2, <2>1, <2>2, <2>3 DEF OneHello, Waiting
<1> QED
  BY <1>3 DEF HelloOnce

\* The command thread takes it; from then on its connection waits no longer.
LEMMA CommandHop ==
    ASSUME ThreadsOK, HelloOnce, cmdQ # <<>>,
           cmdQ' = Tail(cmdQ), UNCHANGED <<peer, stream, recvQ>>
    PROVE  /\ HelloOnce' /\ \A r \in Sockets : Waiting(r)' => Waiting(r)
           /\ \A r \in Sockets : IsHello(Head(cmdQ), r) =>
                 Waiting(r) /\ ~Waiting(r)' /\ peer[r] # "none"
<1>1. cmdQ \in Seq(Work)
  BY DEF ThreadsOK
<1>2. ASSUME NEW r \in Sockets
      PROVE  /\ OneHello(r)' /\ (Waiting(r)' => Waiting(r))
             /\ IsHello(Head(cmdQ), r) => Waiting(r) /\ ~Waiting(r)' /\ peer[r] # "none"
  <2>1. OneHello(r)
    BY DEF HelloOnce
  <2>2. /\ Once(cmdQ', r)
        /\ Greets(cmdQ', r) => Greets(cmdQ, r)
        /\ IsHello(Head(cmdQ), r) => Greets(cmdQ, r) /\ ~Greets(cmdQ', r)
    BY <1>1, <2>1, Popped DEF OneHello
  <2> QED
    BY <2>1, <2>2 DEF OneHello, Waiting
<1> QED
  BY <1>2 DEF HelloOnce

-----------------------------------------------------------------------------
(* A mapping and the thread of its connection agree.                       *)

\* While a connection waits, nothing in the server knows of it.
WaitingIsUnknown == \A s \in Sockets : Waiting(s) =>
    /\ thread[s].routerID = 0 /\ ~thread[s].initialized
    /\ \A c \in Slots : proxyMap[c].socket # s

InitializedHasID == \A s \in Sockets :
    thread[s].initialized => thread[s].routerID \in ClientIDs

Known == WaitingIsUnknown /\ InitializedHasID /\ MappingAndThreadAgree

HelloInv == SessionsInv /\ SocketOnlyWhileActive /\ HelloOnce /\ Known

\* What an accepted handshake does.
LEMMA AcceptEffect ==
    ASSUME ThreadsOK, MapTypeOK, AcceptHello, NEW s, s = Head(cmdQ).conn
    PROVE  /\ s \in Sockets /\ IsHello(Head(cmdQ), s) /\ cmdQ # <<>>
           /\ \E c \in ClientIDs :
                 /\ thread' = [thread EXCEPT ![s] = Greeted(thread[s], c)]
                 /\ proxyMap[c].isActive => proxyMap[c].socket = s
                 /\ \E b \in BOOLEAN :
                       proxyMap' = [proxyMap EXCEPT ![c] =
                           [proxyID |-> ProxyOf[s], socket |-> s, isActive |-> TRUE,
                            preDefined |-> b, crashed |-> FALSE]]
<1>1. s \in Sockets /\ cmdQ # <<>>
  BY HeadOfWork DEF AcceptHello, Fetched, ThreadsOK
<1>2. IsHello(Head(cmdQ), s)
  BY DEF AcceptHello, Fetched, IsHello
<1>3. ProxyOf[s] \in HelloIDs /\ Register(ProxyOf[s], s)
  BY <1>1, SessionsAssumption DEF AcceptHello
<1>4. PICK c \in ClientIDs :
        /\ c = Candidate(ProxyOf[s])
        /\ proxyMap[c].isActive => proxyMap[c].socket = s
        /\ proxyMap' = [proxyMap EXCEPT ![c] =
              [proxyID |-> ProxyOf[s], socket |-> s, isActive |-> TRUE,
               preDefined |-> proxyMap[c].preDefined, crashed |-> FALSE]]
  BY <1>1, <1>3, RegisterEffect
<1>5. thread' = [thread EXCEPT ![s] = Greeted(thread[s], c)]
  BY <1>1, <1>4 DEF AcceptHello
<1>6. proxyMap[c].preDefined \in BOOLEAN
  BY DEF MapTypeOK, Entry, ClientIDs, Slots
<1> QED
  BY <1>1, <1>2, <1>4, <1>5, <1>6

\* What the end of a session does to the map.
LEMMA EndEffect ==
    ASSUME MapTypeOK, NEW d \in Slots, NEW crashed, deactivateConnectionMapping(d, crashed)
    PROVE  /\ \A c \in Slots \ {d} : proxyMap'[c] = proxyMap[c]
           /\ ~proxyMap'[d].isActive /\ proxyMap'[d].socket = NoSocket
BY DEF deactivateConnectionMapping, MapTypeOK

\* What closing a connection does to its thread.
LEMMA CloseEffect ==
    ASSUME thread \in [Sockets -> Thread], NEW s \in Sockets, Close(s)
    PROVE  /\ \A r \in Sockets \ {s} : thread'[r] = thread[r]
           /\ \E pc \in {thread[s].pc, "gone"} : thread'[s] = Ended(thread[s], pc)
<1>1. PICK pc \in IF ~thread[s].active THEN {thread[s].pc}
                  ELSE {"gone"} \cup ({thread[s].pc} \cap {"cleanup"}) :
         thread' = [thread EXCEPT ![s] = Ended(thread[s], pc)]
  BY DEF Close
<1>2. pc \in {thread[s].pc, "gone"}
  OBVIOUS
<1>3. thread'[s] = Ended(thread[s], pc) /\ \A r \in Sockets \ {s} : thread'[r] = thread[r]
  BY <1>1
<1> QED
  BY <1>2, <1>3

\* Nothing becomes known, and some of it may be forgotten.
LEMMA KnownKept ==
    ASSUME MapTypeOK, SocketOnlyWhileActive, Known,
           \A c \in Slots : \/ proxyMap'[c] = proxyMap[c]
                            \/ ~proxyMap'[c].isActive /\ proxyMap'[c].socket = NoSocket,
           \A r \in Sockets : /\ thread'[r].routerID = thread[r].routerID
                              /\ thread'[r].initialized = thread[r].initialized,
           \A r \in Sockets : Waiting(r)' => Waiting(r)
    PROVE  Known'
<1>1. NoSocket \notin Sockets
  BY MapAssumption
<1>2. WaitingIsUnknown'
  <2> SUFFICES ASSUME NEW r \in Sockets, Waiting(r)'
               PROVE  /\ thread'[r].routerID = 0 /\ ~thread'[r].initialized
                      /\ \A c \in Slots : proxyMap'[c].socket # r
    BY DEF WaitingIsUnknown
  <2>1. /\ thread[r].routerID = 0 /\ ~thread[r].initialized
        /\ \A c \in Slots : proxyMap[c].socket # r
    BY DEF Known, WaitingIsUnknown
  <2> QED
    BY <1>1, <2>1
<1>3. InitializedHasID'
  BY DEF Known, InitializedHasID
<1>4. MappingAndThreadAgree'
  <2> SUFFICES ASSUME NEW c \in ClientIDs, proxyMap'[c].isActive
               PROVE  /\ thread'[proxyMap'[c].socket].routerID = c
                      /\ ProxyOf[proxyMap'[c].socket] = proxyMap'[c].proxyID
    BY DEF MappingAndThreadAgree
  <2>1. c \in Slots
    BY DEF Slots, ClientIDs
  <2>2. proxyMap'[c] = proxyMap[c]
    BY <2>1
  <2>3. proxyMap[c].socket \in Sockets
    BY <2>1, <2>2 DEF SocketOnlyWhileActive, MapTypeOK, Entry
  <2> QED
    BY <2>2, <2>3 DEF Known, MappingAndThreadAgree
<1> QED
  BY <1>2, <1>3, <1>4 DEF Known

LEMMA KnownByConnect ==
    ASSUME HelloInv, NEW s \in Sockets, Connect(s)
    PROVE  Known'
<1>1. ThreadsOK /\ PeersOK /\ MapTypeOK /\ HelloOnce /\ Known
  BY DEF HelloInv, SessionsInv
<1>2. \A r \in Sockets : Waiting(r)' => Waiting(r)
  BY <1>1, ProxyHop DEF Proxy
<1>3. Waiting(s)
  BY DEF Connect, Waiting
<1>4. \A c \in Slots : proxyMap[c].socket # s
  BY <1>1, <1>3 DEF Known, WaitingIsUnknown
<1>5. /\ thread'[s].routerID = 0 /\ ~thread'[s].initialized
      /\ \A r \in Sockets \ {s} : thread'[r] = thread[r]
      /\ proxyMap' = proxyMap
  BY <1>1 DEF Connect, ThreadsOK, mapVars
<1>6. WaitingIsUnknown'
  BY <1>1, <1>2, <1>4, <1>5 DEF Known, WaitingIsUnknown
<1>7. InitializedHasID'
  BY <1>1, <1>5 DEF Known, InitializedHasID
<1>8. MappingAndThreadAgree'
  <2> SUFFICES ASSUME NEW c \in ClientIDs, proxyMap[c].isActive
               PROVE  /\ thread'[proxyMap[c].socket].routerID = c
                      /\ ProxyOf[proxyMap[c].socket] = proxyMap[c].proxyID
    BY <1>5 DEF MappingAndThreadAgree
  <2>1. c \in Slots
    BY DEF Slots, ClientIDs
  <2>2. proxyMap[c].socket \in Sockets \ {s}
    BY <1>1, <1>4, <2>1 DEF HelloInv, SocketOnlyWhileActive, MapTypeOK, Entry
  <2> QED
    BY <1>1, <1>5, <2>2 DEF Known, MappingAndThreadAgree
<1> QED
  BY <1>6, <1>7, <1>8 DEF Known

\* An accepted handshake gives the connection the client ID of its mapping.
LEMMA KnownByAccept ==
    ASSUME HelloInv, AcceptHello
    PROVE  HelloOnce' /\ Known'
<1>1. ThreadsOK /\ PeersOK /\ MapTypeOK /\ HelloOnce /\ Known
  BY DEF HelloInv, SessionsInv
<1>2. PICK s \in Sockets : s = Head(cmdQ).conn /\ IsHello(Head(cmdQ), s) /\ cmdQ # <<>>
  BY <1>1, AcceptEffect
<1>3. PICK c \in ClientIDs :
        /\ thread' = [thread EXCEPT ![s] = Greeted(thread[s], c)]
        /\ \E b \in BOOLEAN :
              proxyMap' = [proxyMap EXCEPT ![c] =
                  [proxyID |-> ProxyOf[s], socket |-> s, isActive |-> TRUE,
                   preDefined |-> b, crashed |-> FALSE]]
  BY <1>1, <1>2, AcceptEffect
<1>4. /\ HelloOnce' /\ \A r \in Sockets : Waiting(r)' => Waiting(r)
      /\ Waiting(s) /\ ~Waiting(s)'
  BY <1>1, <1>2, CommandHop DEF AcceptHello
<1>5. c \in Slots
  BY DEF Slots, ClientIDs
<1>6. /\ thread'[s].routerID = c
      /\ \A r \in Sockets \ {s} : thread'[r] = thread[r]
  BY <1>1, <1>2, <1>3 DEF ThreadsOK, Greeted
<1>7. /\ proxyMap'[c].socket = s /\ proxyMap'[c].proxyID = ProxyOf[s]
      /\ \A d \in Slots \ {c} : proxyMap'[d] = proxyMap[d]
  BY <1>1, <1>3, <1>5 DEF MapTypeOK
<1>8. \A d \in Slots : proxyMap[d].socket # s
  BY <1>1, <1>2, <1>4 DEF Known, WaitingIsUnknown
<1>9. WaitingIsUnknown'
  <2> SUFFICES ASSUME NEW r \in Sockets, Waiting(r)'
               PROVE  /\ thread'[r].routerID = 0 /\ ~thread'[r].initialized
                      /\ \A d \in Slots : proxyMap'[d].socket # r
    BY DEF WaitingIsUnknown
  <2>1. r # s
    BY <1>4
  <2>2. /\ thread[r].routerID = 0 /\ ~thread[r].initialized
        /\ \A d \in Slots : proxyMap[d].socket # r
    BY <1>1, <1>4 DEF Known, WaitingIsUnknown
  <2> QED
    BY <1>6, <1>7, <2>1, <2>2
<1>10. InitializedHasID'
  BY <1>1, <1>6 DEF Known, InitializedHasID
<1>11. MappingAndThreadAgree'
  <2> SUFFICES ASSUME NEW d \in ClientIDs, proxyMap'[d].isActive
               PROVE  /\ thread'[proxyMap'[d].socket].routerID = d
                      /\ ProxyOf[proxyMap'[d].socket] = proxyMap'[d].proxyID
    BY DEF MappingAndThreadAgree
  <2>1. CASE d = c
    BY <1>6, <1>7, <2>1
  <2>2. CASE d # c
    <3>1. d \in Slots
      BY DEF Slots, ClientIDs
    <3>2. proxyMap'[d] = proxyMap[d]
      BY <1>7, <2>2, <3>1
    <3>3. proxyMap[d].socket \in Sockets \ {s}
      BY <1>1, <1>8, <3>1, <3>2 DEF HelloInv, SocketOnlyWhileActive, MapTypeOK, Entry
    <3> QED
      BY <1>1, <1>6, <3>2, <3>3 DEF Known, MappingAndThreadAgree
  <2> QED
    BY <2>1, <2>2
<1> QED
  BY <1>4, <1>9, <1>10, <1>11 DEF Known

LEMMA KnownNext ==
    ASSUME HelloInv, [SessionsNext]_vars
    PROVE  HelloOnce' /\ Known'
<1>1. /\ ThreadsOK /\ PeersOK /\ MapTypeOK /\ HelloOnce /\ Known /\ SocketOnlyWhileActive
      /\ thread \in [Sockets -> Thread]
  BY DEF HelloInv, SessionsInv, ThreadsOK
<1>2. ASSUME NEW s \in Sockets, Proxy(s)
      PROVE  HelloOnce' /\ Known'
  <2>1. HelloOnce' /\ \A r \in Sockets : Waiting(r)' => Waiting(r)
    BY <1>1, <1>2, ProxyHop
  <2>2. ASSUME thread' = thread, proxyMap' = proxyMap
        PROVE  Known'
    BY <1>1, <2>1, <2>2, KnownKept
  <2> QED
    BY <1>2, <2>1, <2>2, KnownByConnect DEF Proxy, Request, Leave, mapVars
<1>3. ASSUME NEW s \in Sockets, Receive(s)
      PROVE  HelloOnce' /\ Known'
  <2>1. HelloOnce' /\ \A r \in Sockets : Waiting(r)' => Waiting(r)
    BY <1>1, <1>3, ReceiveHop
  <2>2. proxyMap' = proxyMap
    BY <1>3 DEF Receive, mapVars
  <2>3. \A r \in Sockets : /\ thread'[r].routerID = thread[r].routerID
                           /\ thread'[r].initialized = thread[r].initialized
    BY <1>1, <1>3 DEF Receive, Thread
  <2> QED
    BY <1>1, <2>1, <2>2, <2>3, KnownKept
<1>4. ASSUME NEW s \in Sockets, Cleanup(s)
      PROVE  HelloOnce' /\ Known'
  <2>1. UNCHANGED <<peer, stream, recvQ, cmdQ>>
    BY <1>4 DEF Cleanup
  <2>2. HelloOnce' /\ \A r \in Sockets : Waiting(r)' => Waiting(r)
    BY <1>1, <2>1 DEF HelloOnce, OneHello, Waiting
  <2>3. thread[s].routerID \in Slots
    BY <1>1 DEF Thread
  <2>4. \A c \in Slots : \/ proxyMap'[c] = proxyMap[c]
                         \/ ~proxyMap'[c].isActive /\ proxyMap'[c].socket = NoSocket
    BY <1>1, <1>4, <2>3, EndEffect DEF Cleanup, EndSession
  <2>5. \A r \in Sockets : /\ thread'[r].routerID = thread[r].routerID
                           /\ thread'[r].initialized = thread[r].initialized
    BY <1>1, <1>4 DEF Cleanup, Ended
  <2> QED
    BY <1>1, <2>2, <2>4, <2>5, KnownKept
<1>5. CASE ReceiverThread
  <2>1. recvQ # <<>> /\ \E pass : Dequeue(pass)
    BY <1>5 DEF ReceiverThread, HandleHello, HandleGoodbye, HandleVerify, HandleDelete,
                HandleUnknown, Received
  <2>2. /\ HelloOnce' /\ \A r \in Sockets : Waiting(r)' => Waiting(r)
        /\ proxyMap' = proxyMap
    BY <1>1, <2>1, DequeueHop DEF Dequeue, mapVars
  <2>3. Head(recvQ).conn \in Sockets
    BY <1>1, <2>1, HeadOfWork DEF ThreadsOK
  <2>4. \A r \in Sockets : /\ thread'[r].routerID = thread[r].routerID
                           /\ thread'[r].initialized = thread[r].initialized
    <3>1. CASE HandleGoodbye
      BY <1>1, <2>3, <3>1 DEF HandleGoodbye, Thread
    <3>2. thread' = thread \/ HandleGoodbye
      BY <1>5 DEF ReceiverThread, HandleHello, HandleVerify, HandleDelete, HandleUnknown
    <3> QED
      BY <3>1, <3>2
  <2> QED
    BY <1>1, <2>2, <2>4, KnownKept
<1>6. CASE RefuseHello \/ ProcessGoodbye \/ ProcessDelete
  <2> DEFINE s == Head(cmdQ).conn
  <2>1. cmdQ # <<>> /\ cmdQ' = Tail(cmdQ) /\ UNCHANGED <<peer, stream, recvQ>>
    BY <1>6 DEF RefuseHello, ProcessGoodbye, ProcessDelete, Fetched
  <2>2. HelloOnce' /\ \A r \in Sockets : Waiting(r)' => Waiting(r)
    BY <1>1, <2>1, CommandHop
  <2>3. s \in Sockets
    BY <1>1, <2>1, HeadOfWork DEF ThreadsOK
  <2>4. thread' = thread \/ Close(s)
    BY <1>6 DEF RefuseHello, ProcessGoodbye, ProcessDelete
  <2>5. proxyMap' = proxyMap \/ \E crashed : deactivateConnectionMapping(thread[s].routerID, crashed)
    BY <1>6 DEF RefuseHello, ProcessGoodbye, ProcessDelete, EndSession, mapVars
  <2> HIDE DEF s
  <2>6. \A r \in Sockets : /\ thread'[r].routerID = thread[r].routerID
                           /\ thread'[r].initialized = thread[r].initialized
    <3>1. CASE Close(s)
      <4>1. PICK pc : thread'[s] = Ended(thread[s], pc)
        BY <1>1, <2>3, <3>1, CloseEffect
      <4>2. \A r \in Sockets \ {s} : thread'[r] = thread[r]
        BY <1>1, <2>3, <3>1, CloseEffect
      <4> QED
        BY <4>1, <4>2 DEF Ended
    <3> QED
      BY <2>4, <3>1
  <2>7. thread[s].routerID \in Slots
    BY <1>1, <2>3 DEF Thread
  <2>8. \A c \in Slots : \/ proxyMap'[c] = proxyMap[c]
                         \/ ~proxyMap'[c].isActive /\ proxyMap'[c].socket = NoSocket
    BY <1>1, <2>5, <2>7, EndEffect
  <2> QED
    BY <1>1, <2>2, <2>6, <2>8, KnownKept
<1>7. CASE UNCHANGED vars
  BY <1>1, <1>7 DEF vars, sessionVars, mapVars, HelloOnce, OneHello, Waiting, Known,
                    WaitingIsUnknown, InitializedHasID, MappingAndThreadAgree
<1> QED
  BY <1>2, <1>3, <1>4, <1>5, <1>6, <1>7, KnownByAccept
     DEF SessionsNext, ClientThread, CommandThread

LEMMA HelloInvHolds == SessionsSpec => []HelloInv
<1>1. SessionsInit => HelloOnce /\ Known
  <2> SUFFICES ASSUME SessionsInit PROVE HelloOnce /\ Known
    OBVIOUS
  <2>1. HelloOnce
    BY DEF SessionsInit, HelloOnce, OneHello, OpensOnly, Opens, Once, Greets
  <2>2. NoSocket \notin Sockets
    BY MapAssumption
  <2>3. \A c \in Slots : proxyMap[c].socket = NoSocket /\ ~proxyMap[c].isActive
    BY DEF SessionsInit, MapInit
  <2>4. \A s \in Sockets : thread[s].routerID = 0 /\ ~thread[s].initialized
    BY DEF SessionsInit
  <2>5. ClientIDs \subseteq Slots
    BY DEF ClientIDs, Slots
  <2>6. Known
    BY <2>2, <2>3, <2>4, <2>5 DEF Known, WaitingIsUnknown, InitializedHasID,
                                  MappingAndThreadAgree
  <2> QED
    BY <2>1, <2>6
<1>2. HelloInv /\ [SessionsNext]_vars => HelloOnce' /\ Known'
  BY KnownNext
<1>3. SessionsSpec => []SocketOnlyWhileActive
  BY SessionsUseMap, SocketsOfActiveOnly, PTL
<1>4. HelloInv <=> SessionsInv /\ SocketOnlyWhileActive /\ HelloOnce /\ Known
  BY DEF HelloInv
<1> QED
  BY <1>1, <1>2, <1>3, <1>4, SessionsInvHolds, PTL DEF SessionsSpec

\* Notifications and requests of a proxy meet under one client ID: an active
\* mapping and the thread of the connection it names agree, however proxies
\* leave and whatever is queued.  (A connection has one HELLO, and before that
\* is processed no mapping names it.)
THEOREM MappingsAgree == SessionsSpec => []MappingAndThreadAgree
<1>1. HelloInv => MappingAndThreadAgree
  BY DEF HelloInv, Known
<1> QED
  BY <1>1, HelloInvHolds, PTL

-----------------------------------------------------------------------------
(* Sessions that end without GOODBYE.                                      *)

\* What the theorems below suppose of the proxies.  With GOODBYE PDUs the
\* properties do not hold: one that is still queued when its connection has
\* ended takes the mapping of the next connection down.
NoGoodbyes  == Departures \subseteq {"crash", "abort"}
CrashesOnly == Departures \subseteq {"crash"}

StreamKinds(q) == {q[i].kind : i \in 1 .. Len(q)}
WorkKinds(q)   == {q[i].pdu.kind : i \in 1 .. Len(q)}
Ends           == {"goodbye", "unknown"}

\* No PDU that ends a session is under way.
NoEndQueued ==
    /\ \A s \in Sockets : StreamKinds(stream[s]) \cap Ends = {}
    /\ WorkKinds(recvQ) \cap Ends = {} /\ WorkKinds(cmdQ) \cap Ends = {}

\* A connection keeps its mapping until its thread has ended.
GreetedIsMapped == \A s \in Sockets :
    thread[s].routerID # 0 /\ thread[s].pc \in {"recv", "cleanup"} =>
        /\ thread[s].routerID \in ClientIDs
        /\ proxyMap[thread[s].routerID].isActive
        /\ proxyMap[thread[s].routerID].socket = s

\* A connection whose HELLO was not answered yet is alive.
WaitingIsAlive == \A s \in Sockets :
    /\ "eof" \in StreamKinds(stream[s]) => ~Waiting(s)
    /\ Waiting(s) /\ peer[s] # "none" => thread[s].pc = "recv" /\ thread[s].active

MappedIsAlive == \A c \in ClientIDs :
    proxyMap[c].isActive => thread[proxyMap[c].socket].active

LEMMA KindsPushed ==
    ASSUME NEW q \in Seq(PDU), NEW p \in PDU
    PROVE  StreamKinds(Append(q, p)) = StreamKinds(q) \cup {p.kind}
<1> DEFINE r == Append(q, p)
<1>1. Len(q) \in Nat
  BY LenProperties
<1>2. /\ Len(r) = Len(q) + 1
      /\ \A i \in 1 .. Len(q) : r[i] = q[i]
      /\ r[Len(q) + 1] = p
  BY AppendProperties
<1> HIDE DEF r
<1>3. 1 .. Len(r) = (1 .. Len(q)) \cup {Len(q) + 1}
  BY <1>1, <1>2
<1>4. StreamKinds(r) = StreamKinds(q) \cup {p.kind}
  BY <1>2, <1>3 DEF StreamKinds
<1> QED
  BY <1>4 DEF r

LEMMA KindsPopped ==
    ASSUME NEW q \in Seq(PDU), q # <<>>
    PROVE  StreamKinds(Tail(q)) \subseteq StreamKinds(q) /\ Head(q).kind \in StreamKinds(q)
<1> DEFINE t == Tail(q)
<1>1. Len(q) \in Nat \ {0} /\ Len(t) = Len(q) - 1 /\ Head(q) = q[1]
  BY LenProperties, EmptySeq, HeadTailProperties
<1>2. \A i \in 1 .. Len(t) : t[i] = q[i + 1]
  BY HeadTailProperties
<1> HIDE DEF t
<1>3. 1 \in 1 .. Len(q) /\ \A i \in 1 .. Len(t) : i + 1 \in 1 .. Len(q)
  BY <1>1
<1>4. StreamKinds(t) \subseteq StreamKinds(q) /\ Head(q).kind \in StreamKinds(q)
  BY <1>1, <1>2, <1>3 DEF StreamKinds
<1> QED
  BY <1>4 DEF t

LEMMA WorkPushed ==
    ASSUME NEW q \in Seq(Work), NEW w \in Work
    PROVE  WorkKinds(Append(q, w)) = WorkKinds(q) \cup {w.pdu.kind}
<1> DEFINE r == Append(q, w)
<1>1. Len(q) \in Nat
  BY LenProperties
<1>2. /\ Len(r) = Len(q) + 1
      /\ \A i \in 1 .. Len(q) : r[i] = q[i]
      /\ r[Len(q) + 1] = w
  BY AppendProperties
<1> HIDE DEF r
<1>3. 1 .. Len(r) = (1 .. Len(q)) \cup {Len(q) + 1}
  BY <1>1, <1>2
<1>4. WorkKinds(r) = WorkKinds(q) \cup {w.pdu.kind}
  BY <1>2, <1>3 DEF WorkKinds
<1> QED
  BY <1>4 DEF r

LEMMA WorkPopped ==
    ASSUME NEW q \in Seq(Work), q # <<>>
    PROVE  WorkKinds(Tail(q)) \subseteq WorkKinds(q) /\ Head(q).pdu.kind \in WorkKinds(q)
<1> DEFINE t == Tail(q)
<1>1. Len(q) \in Nat \ {0} /\ Len(t) = Len(q) - 1 /\ Head(q) = q[1]
  BY LenProperties, EmptySeq, HeadTailProperties
<1>2. \A i \in 1 .. Len(t) : t[i] = q[i + 1]
  BY HeadTailProperties
<1> HIDE DEF t
<1>3. 1 \in 1 .. Len(q) /\ \A i \in 1 .. Len(t) : i + 1 \in 1 .. Len(q)
  BY <1>1
<1>4. WorkKinds(t) \subseteq WorkKinds(q) /\ Head(q).pdu.kind \in WorkKinds(q)
  BY <1>1, <1>2, <1>3 DEF WorkKinds
<1> QED
  BY <1>4 DEF t

\* A proxy that says no goodbye adds its requests to the stream, and its end.
LEMMA StreamOfRequest ==
    ASSUME ThreadsOK, NEW s \in Sockets, NEW k \in Requests, NEW u \in Updates, Request(s, k, u)
    PROVE  /\ \A r \in Sockets \ {s} : stream'[r] = stream[r]
           /\ StreamKinds(stream'[s]) \subseteq StreamKinds(stream[s]) \cup {"verify", "delete"}
<1>1. stream[s] \in Seq(PDU) /\ [kind |-> k, update |-> u] \in PDU
  BY SessionsAssumption DEF ThreadsOK, PDU, Kinds
<1>2. StreamKinds(Append(stream[s], [kind |-> k, update |-> u])) = StreamKinds(stream[s]) \cup {k}
  BY <1>1, KindsPushed
<1>3. stream' = [stream EXCEPT ![s] = Append(stream[s], [kind |-> k, update |-> u])]
  BY DEF Request, ThreadsOK
<1>4. k \in {"verify", "delete"}
  BY SessionsAssumption
<1> QED
  BY <1>2, <1>3, <1>4 DEF ThreadsOK

LEMMA StreamOfLeave ==
    ASSUME NoGoodbyes, ThreadsOK, NEW s \in Sockets, NEW how \in Departures, Leave(s, how)
    PROVE  /\ \A r \in Sockets \ {s} : stream'[r] = stream[r]
           /\ StreamKinds(stream'[s]) = StreamKinds(stream[s]) \cup {"eof"}
<1>1. stream[s] \in Seq(PDU) /\ Plain("eof") \in PDU
  BY PlainIsPDU DEF ThreadsOK, Kinds
<1>2. how \notin {"goodbye", "unknown"}
  BY DEF NoGoodbyes
<1>3. stream' = [stream EXCEPT ![s] = stream[s] \o <<>> \o <<Plain("eof")>>]
  BY <1>2 DEF Leave, ThreadsOK
<1>4. stream[s] \o <<>> \o <<Plain("eof")>> = Append(stream[s], Plain("eof"))
  BY <1>1, ConcatEmptySeq, AppendIsConcat
<1>5. StreamKinds(Append(stream[s], Plain("eof"))) = StreamKinds(stream[s]) \cup {Plain("eof").kind}
  BY <1>1, KindsPushed
<1> QED
  BY <1>3, <1>4, <1>5 DEF ThreadsOK, Plain

LEMMA NoEndNext ==
    ASSUME NoGoodbyes, ThreadsOK, NoEndQueued, [SessionsNext]_vars
    PROVE  NoEndQueued'
<1>1. recvQ \in Seq(Work) /\ cmdQ \in Seq(Work)
  BY DEF ThreadsOK
<1>2. ASSUME NEW s \in Sockets, Proxy(s) PROVE NoEndQueued'
  <2>1. recvQ' = recvQ /\ cmdQ' = cmdQ
    BY <1>2 DEF Proxy, Connect, Request, Leave
  <2>2. ASSUME NEW r \in Sockets PROVE StreamKinds(stream'[r]) \cap Ends = {}
    <3>1. StreamKinds(stream[r]) \cap Ends = {}
      BY DEF NoEndQueued
    <3>2. CASE Connect(s)
      <4>1. stream'[r] = stream[r] \/ stream'[r] = <<Plain("hello")>>
        BY <3>2 DEF Connect, ThreadsOK
      <4>2. StreamKinds(<<Plain("hello")>>) = {"hello"}
        BY DEF StreamKinds, Plain
      <4> QED
        BY <3>1, <4>1, <4>2 DEF Ends
    <3>3. ASSUME NEW k \in Requests, NEW u \in Updates, Request(s, k, u)
          PROVE  StreamKinds(stream'[r]) \cap Ends = {}
      BY <3>1, <3>3, StreamOfRequest DEF Ends
    <3>4. ASSUME NEW how \in Departures, Leave(s, how)
          PROVE  StreamKinds(stream'[r]) \cap Ends = {}
      BY <3>1, <3>4, StreamOfLeave DEF Ends
    <3> QED
      BY <1>2, <3>2, <3>3, <3>4 DEF Proxy
  <2> QED
    BY <2>1, <2>2 DEF NoEndQueued
<1>3. ASSUME NEW s \in Sockets, Receive(s) PROVE NoEndQueued'
  <2> DEFINE w == [conn |-> s, pdu |-> Head(stream[s])]
  <2>1. stream[s] \in Seq(PDU) /\ stream[s] # <<>> /\ cmdQ' = cmdQ
    BY <1>3 DEF Receive, ThreadsOK
  <2>2. StreamKinds(Tail(stream[s])) \subseteq StreamKinds(stream[s])
        /\ Head(stream[s]).kind \in StreamKinds(stream[s]) /\ Head(stream[s]) \in PDU
    BY <2>1, KindsPopped, HeadTailProperties
  <2>3. StreamKinds(stream[s]) \cap Ends = {}
    BY DEF NoEndQueued
  <2>4. w \in Work /\ w.pdu.kind \notin Ends
    BY <2>2, <2>3 DEF Work
  <2>5. stream' = [stream EXCEPT ![s] = Tail(stream[s])]
        /\ (recvQ' = recvQ \/ recvQ' = Append(recvQ, w))
    BY <1>3 DEF Receive
  <2> HIDE DEF w
  <2>6. WorkKinds(recvQ') \subseteq WorkKinds(recvQ) \cup {w.pdu.kind}
    BY <1>1, <2>4, <2>5, WorkPushed
  <2>7. \A r \in Sockets : StreamKinds(stream'[r]) \subseteq StreamKinds(stream[r])
    BY <2>2, <2>5 DEF ThreadsOK
  <2> QED
    BY <2>1, <2>4, <2>6, <2>7 DEF NoEndQueued
<1>4. CASE ReceiverThread
  <2>1. recvQ # <<>> /\ \E pass : Dequeue(pass)
    BY <1>4 DEF ReceiverThread, HandleHello, HandleGoodbye, HandleVerify, HandleDelete,
                HandleUnknown, Received
  <2>2. /\ recvQ' = Tail(recvQ) /\ stream' = stream
        /\ cmdQ' = cmdQ \/ cmdQ' = Append(cmdQ, Head(recvQ))
    BY <2>1 DEF Dequeue
  <2>3. Head(recvQ) \in Work
    BY <1>1, <2>1, HeadOfWork
  <2>4. WorkKinds(recvQ') \subseteq WorkKinds(recvQ)
        /\ Head(recvQ).pdu.kind \in WorkKinds(recvQ)
    BY <1>1, <2>1, <2>2, WorkPopped
  <2>5. WorkKinds(cmdQ') \subseteq WorkKinds(cmdQ) \cup {Head(recvQ).pdu.kind}
    BY <1>1, <2>2, <2>3, WorkPushed
  <2> QED
    BY <2>2, <2>4, <2>5 DEF NoEndQueued
<1>5. CASE CommandThread
  <2>1. cmdQ # <<>> /\ cmdQ' = Tail(cmdQ) /\ UNCHANGED <<stream, recvQ>>
    BY <1>5 DEF CommandThread, AcceptHello, RefuseHello, ProcessGoodbye, ProcessDelete, Fetched
  <2>2. WorkKinds(cmdQ') \subseteq WorkKinds(cmdQ)
    BY <1>1, <2>1, WorkPopped
  <2> QED
    BY <2>1, <2>2 DEF NoEndQueued
<1>6. CASE (\E s \in Sockets : Cleanup(s)) \/ UNCHANGED vars
  BY <1>6 DEF Cleanup, vars, sessionVars, NoEndQueued
<1> QED
  BY <1>2, <1>3, <1>4, <1>5, <1>6 DEF SessionsNext, ClientThread

\* Without GOODBYE only the clean-up of a client thread ends a session, and a
\* connection is closed by a refused handshake only.
LEMMA StepsWithoutEnds ==
    ASSUME ThreadsOK, NoEndQueued, [SessionsNext]_vars
    PROVE  \/ \E s \in Sockets : Connect(s) \/ Cleanup(s)
           \/ AcceptHello \/ RefuseHello
           \/ /\ UNCHANGED proxyMap
              /\ \A r \in Sockets :
                    /\ thread'[r].routerID = thread[r].routerID
                    /\ thread'[r].active = thread[r].active
                    /\ \/ thread'[r].pc = thread[r].pc
                       \/ /\ thread[r].pc = "recv" /\ thread'[r].pc = "cleanup"
                          /\ stream[r] # <<>> /\ Head(stream[r]).kind = "eof"
<1> DEFINE Calm == /\ UNCHANGED proxyMap
                   /\ \A r \in Sockets :
                         /\ thread'[r].routerID = thread[r].routerID
                         /\ thread'[r].active = thread[r].active
                         /\ \/ thread'[r].pc = thread[r].pc
                            \/ /\ thread[r].pc = "recv" /\ thread'[r].pc = "cleanup"
                               /\ stream[r] # <<>> /\ Head(stream[r]).kind = "eof"
<1>1. thread \in [Sockets -> Thread]
  BY DEF ThreadsOK
<1>2. ASSUME UNCHANGED <<proxyMap, thread>> PROVE Calm
  BY <1>2
<1>3. ASSUME NEW s \in Sockets, Proxy(s), ~Connect(s) PROVE Calm
  BY <1>2, <1>3 DEF Proxy, Request, Leave, mapVars
<1>4. ASSUME NEW s \in Sockets, Receive(s) PROVE Calm
  <2>1. UNCHANGED proxyMap
    BY <1>4 DEF Receive, mapVars
  <2>2. CASE thread' = thread
    BY <2>1, <2>2
  <2>3. CASE thread' # thread
    <3>1. /\ thread' = [thread EXCEPT ![s] = [thread[s] EXCEPT !.pc = "cleanup"]]
          /\ thread[s].pc = "recv" /\ stream[s] # <<>> /\ Head(stream[s]).kind = "eof"
      BY <1>4, <2>3 DEF Receive
    <3>2. thread[s] \in Thread
      BY <1>1
    <3>3. /\ thread'[s].routerID = thread[s].routerID /\ thread'[s].active = thread[s].active
          /\ thread'[s].pc = "cleanup"
          /\ \A r \in Sockets \ {s} : thread'[r] = thread[r]
      BY <1>1, <3>1, <3>2 DEF Thread
    <3> QED
      BY <2>1, <3>1, <3>3
  <2> QED
    BY <2>2, <2>3
<1>5. CASE ReceiverThread
  <2>1. recvQ # <<>> /\ recvQ \in Seq(Work)
    BY <1>5 DEF ReceiverThread, HandleHello, HandleGoodbye, HandleVerify, HandleDelete,
                HandleUnknown, Received, ThreadsOK
  <2>2. Head(recvQ).pdu.kind \notin Ends
    BY <2>1, WorkPopped DEF NoEndQueued
  <2> QED
    BY <1>2, <1>5, <2>2
       DEF ReceiverThread, HandleHello, HandleGoodbye, HandleVerify, HandleDelete,
           HandleUnknown, Dequeue, Received, Ends, mapVars
<1>6. ~ProcessGoodbye
  <2> SUFFICES ASSUME ProcessGoodbye PROVE FALSE
    OBVIOUS
  <2>1. cmdQ # <<>> /\ cmdQ \in Seq(Work) /\ Head(cmdQ).pdu.kind \in Ends
    BY DEF ProcessGoodbye, Fetched, ThreadsOK, Ends
  <2> QED
    BY <2>1, WorkPopped DEF NoEndQueued
<1>7. CASE ProcessDelete \/ UNCHANGED vars
  BY <1>2, <1>7 DEF ProcessDelete, vars, sessionVars, mapVars
<1> QED
  BY <1>3, <1>4, <1>5, <1>6, <1>7 DEF SessionsNext, ClientThread, CommandThread, Proxy

LEMMA GreetedNext ==
    ASSUME HelloInv, NoEndQueued, GreetedIsMapped, [SessionsNext]_vars
    PROVE  GreetedIsMapped'
<1>1. /\ ThreadsOK /\ MapTypeOK /\ HelloOnce /\ Known /\ thread \in [Sockets -> Thread]
      /\ ClientIDs \subseteq Slots
  BY DEF HelloInv, SessionsInv, ThreadsOK, ClientIDs, Slots
<1> USE DEF GreetedIsMapped
<1>2. ASSUME NEW s \in Sockets, Connect(s) PROVE GreetedIsMapped'
  BY <1>1, <1>2 DEF Connect, mapVars
<1>3. ASSUME NEW s \in Sockets, Cleanup(s) PROVE GreetedIsMapped'
  <2>1. thread'[s].pc = "gone" /\ \A r \in Sockets \ {s} : thread'[r] = thread[r]
    BY <1>1, <1>3 DEF Cleanup, Ended
  <2>2. thread[s].routerID \in Slots
    BY <1>1 DEF Thread
  <2>3. \A c \in Slots \ {thread[s].routerID} : proxyMap'[c] = proxyMap[c]
    BY <1>1, <1>3, <2>2, EndEffect DEF Cleanup, EndSession
  <2>4. thread[s].pc = "cleanup"
    BY <1>3 DEF Cleanup
  <2>5. 0 \notin ClientIDs
    BY MapAssumption DEF ClientIDs
  <2> QED
    BY <1>1, <2>1, <2>3, <2>4, <2>5
<1>4. CASE AcceptHello
  <2>1. PICK s \in Sockets : s = Head(cmdQ).conn
    BY <1>1, <1>4, AcceptEffect
  <2>2. PICK c \in ClientIDs :
          /\ thread' = [thread EXCEPT ![s] = Greeted(thread[s], c)]
          /\ proxyMap[c].isActive => proxyMap[c].socket = s
          /\ \E b \in BOOLEAN :
                proxyMap' = [proxyMap EXCEPT ![c] =
                    [proxyID |-> ProxyOf[s], socket |-> s, isActive |-> TRUE,
                     preDefined |-> b, crashed |-> FALSE]]
    BY <1>1, <1>4, <2>1, AcceptEffect
  <2>3. /\ thread'[s].routerID = c
        /\ \A r \in Sockets \ {s} : thread'[r] = thread[r]
    BY <1>1, <2>2 DEF Greeted
  <2>4. /\ proxyMap'[c].socket = s /\ proxyMap'[c].isActive
        /\ \A d \in Slots \ {c} : proxyMap'[d] = proxyMap[d]
    BY <1>1, <2>2 DEF MapTypeOK
  <2> QED
    BY <1>1, <2>2, <2>3, <2>4
<1>5. CASE RefuseHello
  <2> DEFINE s == Head(cmdQ).conn
  <2>1. cmdQ # <<>> /\ Close(s) /\ proxyMap' = proxyMap
    BY <1>5 DEF RefuseHello, Fetched, mapVars
  <2>2. s \in Sockets
    BY <1>1, <2>1, HeadOfWork DEF ThreadsOK
  <2> HIDE DEF s
  <2>3. PICK pc \in {thread[s].pc, "gone"} : thread'[s] = Ended(thread[s], pc)
    BY <1>1, <2>1, <2>2, CloseEffect
  <2>4. \A r \in Sockets \ {s} : thread'[r] = thread[r]
    BY <1>1, <2>1, <2>2, CloseEffect
  <2>5. thread'[s].routerID = thread[s].routerID /\ thread'[s].pc \in {thread[s].pc, "gone"}
    BY <2>3 DEF Ended
  <2> QED
    BY <2>1, <2>4, <2>5
<1>6. ASSUME UNCHANGED proxyMap,
             \A r \in Sockets : /\ thread'[r].routerID = thread[r].routerID
                                /\ \/ thread'[r].pc = thread[r].pc
                                   \/ thread[r].pc = "recv" /\ thread'[r].pc = "cleanup"
      PROVE  GreetedIsMapped'
  BY <1>6
<1> QED
  BY <1>1, <1>2, <1>3, <1>4, <1>5, <1>6, StepsWithoutEnds

\* The server stays in touch with every proxy it greeted, as long as none says
\* goodbye, on this connection or an earlier one: neither refused handshakes nor
\* the ends of other connections take its mapping away.
THEOREM GreetedSessionsAreKept ==
    ASSUME NoGoodbyes
    PROVE  SessionsSpec => []SessionKept
<1>1. SessionsInit => NoEndQueued /\ GreetedIsMapped
  BY DEF SessionsInit, NoEndQueued, GreetedIsMapped, StreamKinds, WorkKinds
<1>2. HelloInv /\ NoEndQueued /\ [SessionsNext]_vars => NoEndQueued'
  BY NoEndNext DEF HelloInv, SessionsInv
<1>3. HelloInv /\ NoEndQueued /\ GreetedIsMapped /\ [SessionsNext]_vars => GreetedIsMapped'
  BY GreetedNext
<1>4. HelloInv /\ GreetedIsMapped => SessionKept
  <2> SUFFICES ASSUME HelloInv, GreetedIsMapped, NEW s \in Sockets, Open(s),
                      thread[s].initialized
               PROVE  \E c \in ClientIDs : proxyMap[c].isActive /\ proxyMap[c].socket = s
    BY DEF SessionKept
  <2>1. thread[s].routerID \in ClientIDs /\ 0 \notin ClientIDs
    BY MapAssumption DEF HelloInv, Known, InitializedHasID, ClientIDs
  <2> QED
    BY <2>1 DEF GreetedIsMapped, Open
<1> QED
  BY <1>1, <1>2, <1>3, <1>4, HelloInvHolds, PTL DEF SessionsSpec

\* A connection that waits is closed by nobody: its stream has no end yet.
LEMMA WaitingNext ==
    ASSUME CrashesOnly, HelloInv, NoEndQueued, WaitingIsAlive, [SessionsNext]_vars
    PROVE  WaitingIsAlive'
<1>1. /\ ThreadsOK /\ PeersOK /\ MapTypeOK /\ HelloOnce /\ Known
      /\ thread \in [Sockets -> Thread] /\ stream \in [Sockets -> Seq(PDU)]
  BY DEF HelloInv, SessionsInv, ThreadsOK
<1>2. ASSUME NEW r \in Sockets,
             Waiting(r)' => Waiting(r),
             StreamKinds(stream'[r]) \subseteq StreamKinds(stream[r]) \cup {"verify", "delete"},
             peer'[r] # "none" => peer[r] # "none",
             \/ thread'[r].pc = thread[r].pc /\ thread'[r].active = thread[r].active
             \/ ~Waiting(r)'
      PROVE  /\ "eof" \in StreamKinds(stream'[r]) => ~Waiting(r)'
             /\ Waiting(r)' /\ peer'[r] # "none" => thread'[r].pc = "recv" /\ thread'[r].active
  BY <1>2 DEF WaitingIsAlive
<1>3. ASSUME NEW s \in Sockets, Proxy(s) PROVE WaitingIsAlive'
  <2>1. \A r \in Sockets : Waiting(r)' => Waiting(r)
    BY <1>1, <1>3, ProxyHop
  <2>2. ASSUME NEW r \in Sockets \ {s}
        PROVE  stream'[r] = stream[r] /\ peer'[r] = peer[r] /\ thread'[r] = thread[r]
    BY <1>1, <1>3 DEF Proxy, Connect, Request, Leave, PeersOK
  <2>3. CASE Connect(s)
    <3>1. stream'[s] = <<Plain("hello")>> /\ thread'[s].pc = "recv" /\ thread'[s].active
      BY <1>1, <2>3 DEF Connect
    <3>2. StreamKinds(stream'[s]) = {"hello"}
      BY <3>1 DEF StreamKinds, Plain
    <3> QED
      BY <1>2, <2>1, <2>2, <3>1, <3>2 DEF WaitingIsAlive
  <2>4. ASSUME NEW k \in Requests, NEW u \in Updates, Request(s, k, u)
        PROVE  WaitingIsAlive'
    <3>1. StreamKinds(stream'[s]) \subseteq StreamKinds(stream[s]) \cup {"verify", "delete"}
      BY <1>1, <2>4, StreamOfRequest
    <3>2. thread' = thread /\ peer' = peer
      BY <2>4 DEF Request
    <3> QED
      BY <1>2, <2>1, <2>2, <3>1, <3>2 DEF WaitingIsAlive
  <2>5. ASSUME NEW how \in Departures, Leave(s, how)
        PROVE  WaitingIsAlive'
    <3>1. thread[s].initialized /\ thread' = thread
      BY <2>5 DEF Leave, CrashesOnly
    <3>2. ~Waiting(s)'
      BY <1>1, <2>1, <3>1 DEF Known, WaitingIsUnknown
    <3> QED
      BY <1>2, <2>1, <2>2, <3>1, <3>2 DEF WaitingIsAlive
  <2> QED
    BY <1>3, <2>3, <2>4, <2>5 DEF Proxy
<1>4. ASSUME NEW s \in Sockets, Receive(s) PROVE WaitingIsAlive'
  <2>1. \A r \in Sockets : Waiting(r)' => Waiting(r)
    BY <1>1, <1>4, ReceiveHop
  <2>2. stream[s] \in Seq(PDU) /\ stream[s] # <<>> /\ peer' = peer
        /\ stream' = [stream EXCEPT ![s] = Tail(stream[s])]
    BY <1>1, <1>4 DEF Receive
  <2>3. StreamKinds(Tail(stream[s])) \subseteq StreamKinds(stream[s])
        /\ Head(stream[s]).kind \in StreamKinds(stream[s])
    BY <2>2, KindsPopped
  <2>4. \A r \in Sockets : StreamKinds(stream'[r]) \subseteq StreamKinds(stream[r])
    BY <1>1, <2>2, <2>3
  <2>5. \A r \in Sockets : thread'[r] = thread[r] \/ (r = s /\ Head(stream[s]).kind = "eof")
    BY <1>1, <1>4 DEF Receive
  <2>6. \A r \in Sockets : thread'[r] = thread[r] \/ ~Waiting(r)'
    BY <2>1, <2>3, <2>5 DEF WaitingIsAlive
  <2> QED
    BY <1>2, <2>1, <2>2, <2>4, <2>6 DEF WaitingIsAlive
<1>5. ASSUME NEW s \in Sockets, Cleanup(s) PROVE WaitingIsAlive'
  <2>1. UNCHANGED <<peer, stream, recvQ, cmdQ>> /\ thread[s].pc = "cleanup"
        /\ \A r \in Sockets \ {s} : thread'[r] = thread[r]
    BY <1>1, <1>5 DEF Cleanup
  <2>2. \A r \in Sockets : Waiting(r)' <=> Waiting(r)
    BY <2>1 DEF Waiting
  <2> QED
    BY <2>1, <2>2 DEF WaitingIsAlive
<1>6. CASE AcceptHello \/ RefuseHello
  <2>1. PICK s \in Sockets : s = Head(cmdQ).conn /\ IsHello(Head(cmdQ), s) /\ cmdQ # <<>>
    BY <1>1, <1>6, HeadOfWork DEF AcceptHello, RefuseHello, Fetched, IsHello, ThreadsOK
  <2>2. cmdQ' = Tail(cmdQ) /\ UNCHANGED <<peer, stream, recvQ>>
    BY <1>6 DEF AcceptHello, RefuseHello
  <2>3. (\A r \in Sockets : Waiting(r)' => Waiting(r)) /\ ~Waiting(s)'
    BY <1>1, <2>1, <2>2, CommandHop
  <2>4. \A r \in Sockets \ {s} : thread'[r] = thread[r]
    BY <1>1, <1>6, <2>1, CloseEffect DEF AcceptHello, RefuseHello
  <2> QED
    BY <1>2, <2>2, <2>3, <2>4 DEF WaitingIsAlive
<1>7. CASE ReceiverThread
  <2>1. recvQ # <<>> /\ \E pass : Dequeue(pass)
    BY <1>7 DEF ReceiverThread, HandleHello, HandleGoodbye, HandleVerify, HandleDelete,
                HandleUnknown, Received
  <2>2. /\ \A r \in Sockets : Waiting(r)' => Waiting(r)
        /\ stream' = stream /\ peer' = peer
    BY <1>1, <2>1, DequeueHop DEF Dequeue
  <2>3. Head(recvQ).conn \in Sockets
    BY <1>1, <2>1, HeadOfWork DEF ThreadsOK
  <2>4. \A r \in Sockets : thread'[r].pc = thread[r].pc /\ thread'[r].active = thread[r].active
    <3>1. CASE HandleGoodbye
      BY <1>1, <2>3, <3>1 DEF HandleGoodbye, Thread
    <3>2. thread' = thread \/ HandleGoodbye
      BY <1>7 DEF ReceiverThread, HandleHello, HandleVerify, HandleDelete, HandleUnknown
    <3> QED
      BY <3>1, <3>2
  <2> QED
    BY <1>2, <2>2, <2>4 DEF WaitingIsAlive
<1>8. CASE ProcessDelete
  <2>1. /\ \A r \in Sockets : Waiting(r)' => Waiting(r)
        /\ stream' = stream /\ peer' = peer /\ thread' = thread
    BY <1>1, <1>8, CommandHop DEF ProcessDelete, Fetched
  <2> QED
    BY <1>2, <2>1 DEF WaitingIsAlive
<1>9. ~ProcessGoodbye
  <2> SUFFICES ASSUME ProcessGoodbye PROVE FALSE
    OBVIOUS
  <2>1. cmdQ # <<>> /\ cmdQ \in Seq(Work) /\ Head(cmdQ).pdu.kind \in Ends
    BY <1>1 DEF ProcessGoodbye, Fetched, ThreadsOK, Ends
  <2> QED
    BY <2>1, WorkPopped DEF NoEndQueued
<1>10. CASE UNCHANGED vars
  BY <1>10 DEF vars, sessionVars, WaitingIsAlive, Waiting
<1> QED
  BY <1>3, <1>4, <1>5, <1>6, <1>7, <1>8, <1>9, <1>10
     DEF SessionsNext, ClientThread, CommandThread

LEMMA MappedNext ==
    ASSUME HelloInv, NoEndQueued, WaitingIsAlive, MappedIsAlive, [SessionsNext]_vars
    PROVE  MappedIsAlive'
<1>1. /\ ThreadsOK /\ PeersOK /\ MapTypeOK /\ HelloOnce /\ Known /\ SocketOnlyWhileActive
      /\ thread \in [Sockets -> Thread] /\ ClientIDs \subseteq Slots
  BY DEF HelloInv, SessionsInv, ThreadsOK, ClientIDs, Slots
<1>2. \A c \in ClientIDs : proxyMap[c].isActive =>
         proxyMap[c].socket \in Sockets /\ thread[proxyMap[c].socket].active
  BY <1>1 DEF MappedIsAlive, SocketOnlyWhileActive, MapTypeOK, Entry
<1>3. ASSUME NEW s \in Sockets, Connect(s) PROVE MappedIsAlive'
  <2>1. /\ thread'[s].active /\ \A r \in Sockets \ {s} : thread'[r] = thread[r]
        /\ proxyMap' = proxyMap
    BY <1>1, <1>3 DEF Connect, mapVars
  <2> QED
    BY <1>2, <2>1 DEF MappedIsAlive
<1>4. ASSUME NEW s \in Sockets, Cleanup(s) PROVE MappedIsAlive'
  <2>1. \A r \in Sockets \ {s} : thread'[r] = thread[r]
    BY <1>1, <1>4 DEF Cleanup
  <2>2. thread[s].routerID \in Slots
    BY <1>1, <1>4 DEF Thread
  <2>3. /\ \A c \in Slots \ {thread[s].routerID} : proxyMap'[c] = proxyMap[c]
        /\ ~proxyMap'[thread[s].routerID].isActive
    BY <1>1, <1>4, <2>2, EndEffect DEF Cleanup, EndSession
  <2>4. \A c \in ClientIDs : proxyMap[c].isActive =>
          thread[proxyMap[c].socket].routerID = c
    BY <1>1 DEF Known, MappingAndThreadAgree
  <2> QED
    BY <1>1, <1>2, <2>1, <2>3, <2>4 DEF MappedIsAlive
<1>5. CASE AcceptHello \/ RefuseHello
  <2>1. PICK s \in Sockets : s = Head(cmdQ).conn /\ IsHello(Head(cmdQ), s) /\ cmdQ # <<>>
    BY <1>1, <1>5, HeadOfWork DEF AcceptHello, RefuseHello, Fetched, IsHello, ThreadsOK
  <2>2. cmdQ' = Tail(cmdQ) /\ UNCHANGED <<peer, stream, recvQ>>
    BY <1>5 DEF AcceptHello, RefuseHello
  <2>3. Waiting(s) /\ peer[s] # "none"
    BY <1>1, <2>1, <2>2, CommandHop
  <2>4. thread[s].active /\ \A c \in Slots : proxyMap[c].socket # s
    BY <1>1, <2>3 DEF WaitingIsAlive, Known, WaitingIsUnknown
  <2>5. \A r \in Sockets \ {s} : thread'[r] = thread[r]
    BY <1>1, <1>5, <2>1, CloseEffect DEF AcceptHello, RefuseHello
  <2>6. CASE RefuseHello
    <3>1. proxyMap' = proxyMap
      BY <2>6 DEF RefuseHello, mapVars
    <3> QED
      BY <1>1, <1>2, <2>4, <2>5, <3>1 DEF MappedIsAlive
  <2>7. CASE AcceptHello
    <3>1. PICK c \in ClientIDs :
            /\ thread' = [thread EXCEPT ![s] = Greeted(thread[s], c)]
            /\ \E b \in BOOLEAN :
                  proxyMap' = [proxyMap EXCEPT ![c] =
                      [proxyID |-> ProxyOf[s], socket |-> s, isActive |-> TRUE,
                       preDefined |-> b, crashed |-> FALSE]]
      BY <1>1, <2>1, <2>7, AcceptEffect
    <3>2. thread'[s].active = thread[s].active
      BY <1>1, <3>1 DEF Greeted
    <3>3. proxyMap'[c].socket = s /\ \A d \in Slots \ {c} : proxyMap'[d] = proxyMap[d]
      BY <1>1, <3>1 DEF MapTypeOK
    <3> QED
      BY <1>1, <1>2, <2>4, <2>5, <3>2, <3>3 DEF MappedIsAlive
  <2> QED
    BY <1>5, <2>6, <2>7
<1>6. ASSUME UNCHANGED proxyMap, \A r \in Sockets : thread'[r].active = thread[r].active
      PROVE  MappedIsAlive'
  BY <1>2, <1>6 DEF MappedIsAlive
<1> QED
  BY <1>1, <1>3, <1>4, <1>5, <1>6, StepsWithoutEnds

\* The map forgets the dead, as long as no proxy says goodbye or breaks off a
\* handshake: the mapping of a connection that ended is inactive, so the proxy
\* is accepted when it comes back.
THEOREM TheDeadAreForgotten ==
    ASSUME CrashesOnly
    PROVE  SessionsSpec => []NoDeadMapping
<1>1. SessionsInit => NoEndQueued /\ WaitingIsAlive /\ MappedIsAlive
  <2> SUFFICES ASSUME SessionsInit PROVE NoEndQueued /\ WaitingIsAlive /\ MappedIsAlive
    OBVIOUS
  <2>1. /\ \A s \in Sockets : stream[s] = <<>> /\ peer[s] = "none"
        /\ recvQ = <<>> /\ cmdQ = <<>>
    BY DEF SessionsInit
  <2>2. \A c \in ClientIDs : ~proxyMap[c].isActive
    BY DEF SessionsInit, MapInit, ClientIDs, Slots
  <2> QED
    BY <2>1, <2>2 DEF NoEndQueued, WaitingIsAlive, MappedIsAlive, StreamKinds, WorkKinds
<1>2. HelloInv /\ NoEndQueued /\ [SessionsNext]_vars => NoEndQueued'
  BY NoEndNext DEF HelloInv, SessionsInv, NoGoodbyes, CrashesOnly
<1>3. HelloInv /\ NoEndQueued /\ WaitingIsAlive /\ [SessionsNext]_vars => WaitingIsAlive'
  BY WaitingNext
<1>4. HelloInv /\ NoEndQueued /\ WaitingIsAlive /\ MappedIsAlive /\ [SessionsNext]_vars
      => MappedIsAlive'
  BY MappedNext
<1>5. MappedIsAlive => NoDeadMapping
  BY DEF MappedIsAlive, NoDeadMapping
<1> QED
  BY <1>1, <1>2, <1>3, <1>4, <1>5, HelloInvHolds, PTL DEF SessionsSpec
=============================================================================
