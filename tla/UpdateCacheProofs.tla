------------------------- MODULE UpdateCacheProofs -------------------------
(***************************************************************************)
(* Proofs about the two models of the update cache.  The first part is     *)
(* about UpdateClients.tla: for any number of clients and any size of the  *)
(* array it stays compact, and it implements ListenerSet.tla.  The second  *)
(* is about UpdateResults.tla: the four threads keep the list of proxies   *)
(* to notify complete, and a listener that goes by an outdated result      *)
(* hears again, but for the races the module names.                        *)
(***************************************************************************)
EXTENDS UpdateClients, UpdateResults, SequenceTheorems, FiniteSetTheorems,
        WellFoundedInduction, TLAPS

(***************************************************************************)
(* What the refinement needs and the code does not enforce: the last       *)
(* extension still fits into the one byte of noPossibleClients.            *)
(***************************************************************************)
SizeNeverWraps ==
    IsFiniteSet(ClientIDs) /\ Cardinality(ClientIDs) + MinClients <= SizeMod

ArrayInv == ClientsTypeOK /\ CompactAndUnique

\* The flag is exact, and the array has elements: an extension leaves the flag
\* alone, which is right only because nobody extends an empty array.
FlagExact ==
    /\ Len(clients) # 0
    /\ gcFlag <=> Listed(clients) = {}

-----------------------------------------------------------------------------
(* Lemmas about the array.                                                 *)

LEMMA ArrayFacts ==
    ASSUME clients \in Seq(ClientIDs \cup {0})
    PROVE  /\ Len(clients) \in Nat
           /\ DOMAIN clients = 1 .. Len(clients)
           /\ \A k \in DOMAIN clients : k \in Nat \ {0} /\ clients[k] \in ClientIDs \cup {0}
BY LenProperties, ElementOfSeq

\* The element a client gets is the first that is free or already names it.
LEMMA FirstSpotIsFirst ==
    ASSUME clients \in Seq(ClientIDs \cup {0}), NEW c \in ClientIDs, Spots(c) # {}
    PROVE  FirstSpot(c) \in Spots(c) /\ \A j \in Spots(c) : FirstSpot(c) <= j
<1>1. Spots(c) \in SUBSET Nat
  BY ArrayFacts DEF Spots
<1>2. PICK k \in Spots(c) : \A j \in Spots(c) : ~(<<j, k>> \in OpToRel(<, Nat))
  BY <1>1, NatLessThanWellFounded, WFMin
<1>3. \A j \in Spots(c) : ~(j < k)
  BY <1>1, <1>2, Zenon DEF OpToRel
<1>4. \A j \in Spots(c) : k <= j
  BY <1>1, <1>3
<1> QED
  BY <1>4 DEF FirstSpot

\* The place of a client in a compact array, and the array without it.
LEMMA WithoutEffect ==
    ASSUME ArrayInv, NEW c \in ClientIDs, c \in Listed(clients)
    PROVE  \E f \in DOMAIN clients :
              /\ clients[f] = c
              /\ \A k \in DOMAIN clients : k # f => clients[k] # c
              /\ Without(c) = [k \in DOMAIN clients |->
                     IF k < f THEN clients[k]
                     ELSE IF k + 1 \in DOMAIN clients THEN clients[k + 1] ELSE 0]
<1> USE DEF ArrayInv
<1>1. /\ clients \in Seq(ClientIDs \cup {0}) /\ c # 0
      /\ DOMAIN clients = 1 .. Len(clients) /\ Len(clients) \in Nat
  BY ArrayFacts, ClientsAssumption DEF ClientsTypeOK
<1>2. PICK f \in DOMAIN clients : clients[f] = c
  BY DEF Listed
<1>3. ASSUME NEW k \in DOMAIN clients, k # f PROVE clients[k] # c
  <2>1. k < f \/ f < k
    BY <1>1, <1>3
  <2> QED
    BY <1>1, <1>2, <1>3, <2>1 DEF CompactAndUnique
<1> DEFINE P(k) == clients[k] = c /\ \A j \in 1 .. k - 1 : clients[j] # c
           first == CHOOSE k \in DOMAIN clients : P(k)
<1>4. P(f)
  BY <1>1, <1>2, <1>3
<1>5. first \in DOMAIN clients /\ P(first)
  BY <1>4
<1>6. first = f
  BY <1>3, <1>5
<1>7. \A k \in DOMAIN clients : ~(k < f) => k + 1 # f
  BY <1>1
<1>8. Without(c) = [k \in DOMAIN clients |->
            IF k < f THEN clients[k]
            ELSE IF k + 1 \in DOMAIN clients /\ clients[k + 1] # c THEN clients[k + 1] ELSE 0]
  BY <1>6 DEF Without
<1> HIDE DEF first, P
<1>9. \A k \in DOMAIN clients : ~(k < f) /\ k + 1 \in DOMAIN clients => clients[k + 1] # c
  BY <1>3, <1>7
<1> QED
  BY <1>2, <1>3, <1>8, <1>9

\* Who is listed after each of the three ways an array changes.
LEMMA ListedAfterInsert ==
    ASSUME ArrayInv, NEW c \in ClientIDs, Spots(c) # {}
    PROVE  Listed([clients EXCEPT ![FirstSpot(c)] = c]) = Listed(clients) \cup {c}
<1>1. FirstSpot(c) \in Spots(c)
  BY FirstSpotIsFirst DEF ArrayInv, ClientsTypeOK
<1>2. c # 0
  BY ClientsAssumption
<1> QED
  BY <1>1, <1>2 DEF Listed, Spots

LEMMA ListedAfterRemoval ==
    ASSUME ArrayInv, NEW c \in ClientIDs, c \in Listed(clients)
    PROVE  Listed(Without(c)) = Listed(clients) \ {c}
<1>1. /\ DOMAIN clients = 1 .. Len(clients) /\ Len(clients) \in Nat
  BY ArrayFacts DEF ArrayInv, ClientsTypeOK
<1>2. PICK f \in DOMAIN clients :
              /\ clients[f] = c
              /\ \A k \in DOMAIN clients : k # f => clients[k] # c
              /\ Without(c) = [k \in DOMAIN clients |->
                     IF k < f THEN clients[k]
                     ELSE IF k + 1 \in DOMAIN clients THEN clients[k + 1] ELSE 0]
  BY WithoutEffect
<1>3. DOMAIN Without(c) = DOMAIN clients
  BY <1>2
<1>4. ASSUME NEW x \in Listed(Without(c)) PROVE x \in Listed(clients) \ {c}
  <2>1. PICK k \in DOMAIN clients : x = Without(c)[k] /\ x # 0
    BY <1>3 DEF Listed
  <2>2. \/ k < f /\ x = clients[k]
        \/ ~(k < f) /\ k + 1 \in DOMAIN clients /\ x = clients[k + 1]
    BY <1>2, <2>1
  <2>3. PICK j \in DOMAIN clients : j # f /\ x = clients[j]
    BY <1>1, <2>2
  <2> QED
    BY <1>2, <2>1, <2>3 DEF Listed
<1>5. ASSUME NEW x \in Listed(clients) \ {c} PROVE x \in Listed(Without(c))
  <2>1. PICK k \in DOMAIN clients : x = clients[k] /\ x # 0 /\ k # f
    BY <1>2, <1>5 DEF Listed
  <2>2. CASE k < f
    BY <1>2, <1>3, <2>1, <2>2 DEF Listed
  <2>3. CASE ~(k < f)
    <3>1. k - 1 \in DOMAIN clients /\ ~(k - 1 < f) /\ (k - 1) + 1 = k
      BY <1>1, <2>1, <2>3
    <3>2. Without(c)[k - 1] = x
      BY <1>2, <2>1, <3>1
    <3> QED
      BY <1>3, <2>1, <3>1, <3>2 DEF Listed
  <2> QED
    BY <2>2, <2>3
<1> QED
  BY <1>4, <1>5

\* The new size is the exact sum as long as it fits.
LEMMA ListedAfterExtension ==
    ASSUME ArrayInv, NEW c \in ClientIDs, Spots(c) = {},
           Len(clients) + MinClients < SizeMod
    PROVE  /\ Listed(Extended(c)) = Listed(clients) \cup {c}
           /\ Len(Extended(c)) = Len(clients) + MinClients
<1>1. /\ DOMAIN clients = 1 .. Len(clients) /\ Len(clients) \in Nat /\ c # 0
      /\ MinClients \in Nat \ {0} /\ SizeMod \in Nat \ {0}
  BY ArrayFacts, ClientsAssumption DEF ArrayInv, ClientsTypeOK
<1>2. (Len(clients) + MinClients) % SizeMod = Len(clients) + MinClients
  BY <1>1
<1>3. Extended(c) = [k \in 1 .. Len(clients) + MinClients |->
         IF k <= Len(clients) THEN clients[k] ELSE IF k = Len(clients) + 1 THEN c ELSE 0]
  BY <1>2 DEF Extended
<1>4. Len(Extended(c)) = Len(clients) + MinClients
  BY <1>1, <1>3
<1>5. Listed(Extended(c)) \subseteq Listed(clients) \cup {c}
  BY <1>1, <1>3 DEF Listed
<1>6. ASSUME NEW x \in Listed(clients) PROVE x \in Listed(Extended(c))
  <2>1. PICK k \in 1 .. Len(clients) : x = clients[k] /\ x # 0
    BY <1>1 DEF Listed
  <2>2. k \in DOMAIN Extended(c) /\ Extended(c)[k] = x
    BY <1>1, <1>3, <2>1
  <2> QED
    BY <2>1, <2>2 DEF Listed
<1>7. c \in Listed(Extended(c))
  <2>1. Len(clients) + 1 \in DOMAIN Extended(c) /\ Extended(c)[Len(clients) + 1] = c
    BY <1>1, <1>3
  <2> QED
    BY <1>1, <2>1 DEF Listed
<1> QED
  BY <1>4, <1>5, <1>6, <1>7

\* A full array of a client that is not listed leaves room for an extension.
LEMMA ExtensionFits ==
    ASSUME SizeNeverWraps, ArrayInv, NEW c \in ClientIDs, Spots(c) = {}
    PROVE  Len(clients) + MinClients < SizeMod
<1> DEFINE others == ClientIDs \ {c}
<1>1. /\ DOMAIN clients = 1 .. Len(clients) /\ Len(clients) \in Nat
      /\ \A k \in DOMAIN clients : clients[k] \in ClientIDs \cup {0}
      /\ MinClients \in Nat \ {0} /\ SizeMod \in Nat \ {0}
  BY ArrayFacts, ClientsAssumption DEF ArrayInv, ClientsTypeOK
<1>2. \A k \in 1 .. Len(clients) : clients[k] \in others /\ clients[k] # 0
  BY <1>1 DEF Spots
<1>3. ASSUME NEW j \in 1 .. Len(clients), NEW k \in 1 .. Len(clients), clients[j] = clients[k]
      PROVE  j = k
  <2>1. j \in Nat /\ k \in Nat
    BY <1>1
  <2>2. ~(j < k) /\ ~(k < j)
    BY <1>1, <1>2, <1>3 DEF ArrayInv, CompactAndUnique
  <2> QED
    BY <2>1, <2>2
<1> DEFINE place == [k \in 1 .. Len(clients) |-> clients[k]]
<1>4. place \in [1 .. Len(clients) -> others]
  BY <1>2
<1>5. place \in Injection(1 .. Len(clients), others)
  BY <1>3, <1>4 DEF Injection, IsInjective
<1>6. /\ IsFiniteSet(others) /\ IsFiniteSet(ClientIDs)
      /\ Cardinality(others) = Cardinality(ClientIDs) - 1
      /\ Cardinality(ClientIDs) \in Nat
  BY FS_RemoveElement, FS_CardinalityType DEF SizeNeverWraps
<1>7. Cardinality(1 .. Len(clients)) <= Cardinality(others)
  BY <1>5, <1>6, FS_Injection
<1>8. Cardinality(1 .. Len(clients)) = Len(clients)
  BY <1>1, FS_Interval
<1> QED
  BY <1>1, <1>6, <1>7, <1>8 DEF SizeNeverWraps

-----------------------------------------------------------------------------
(* The array stays compact and names nobody twice.                         *)

LEMMA InitArray == ClientsInit => ArrayInv
<1> SUFFICES ASSUME ClientsInit PROVE ArrayInv
  OBVIOUS
<1>1. clients = [k \in 1 .. MinClients |-> 0] /\ MinClients \in Nat
  BY ClientsAssumption DEF ClientsInit
<1>2. clients \in Seq(ClientIDs \cup {0})
  BY <1>1
<1> QED
  BY <1>1, <1>2 DEF ClientsInit, ArrayInv, ClientsTypeOK, CompactAndUnique

LEMMA AddKeepsArray ==
    ASSUME ArrayInv, NEW c \in ClientIDs, addClientReference(c)
    PROVE  ArrayInv'
<1> USE DEF ArrayInv
<1>1. /\ clients \in Seq(ClientIDs \cup {0}) /\ c # 0
      /\ DOMAIN clients = 1 .. Len(clients) /\ Len(clients) \in Nat
      /\ \A k \in DOMAIN clients : clients[k] \in ClientIDs \cup {0}
      /\ MinClients \in Nat \ {0} /\ SizeMod \in Nat \ {0}
  BY ArrayFacts, ClientsAssumption DEF ClientsTypeOK
<1>2. gcFlag' \in BOOLEAN /\ updateCount' \in [ClientIDs -> Int]
  <2>1. \/ gcFlag' = FALSE /\ updateCount' = [updateCount EXCEPT ![c] = updateCount[c] + 1]
        \/ gcFlag' = FALSE /\ updateCount' = [updateCount EXCEPT ![c] = updateCount[c]]
        \/ gcFlag' = gcFlag /\ updateCount' = updateCount
    BY Zenon DEF addClientReference
  <2>2. gcFlag \in BOOLEAN /\ updateCount \in [ClientIDs -> Int]
    BY DEF ClientsTypeOK
  <2>3. updateCount' \in [ClientIDs -> Int]
    BY <2>1, <2>2
  <2> QED
    BY <2>1, <2>2, <2>3
<1>3. CASE Spots(c) # {}
  <2>1. /\ FirstSpot(c) \in DOMAIN clients /\ clients[FirstSpot(c)] \in {0, c}
        /\ \A j \in DOMAIN clients : clients[j] \in {0, c} => FirstSpot(c) <= j
    BY <1>1, <1>3, FirstSpotIsFirst DEF Spots
  <2>2. clients' = [clients EXCEPT ![FirstSpot(c)] = c]
    BY <1>3 DEF addClientReference
  <2>3. clients' \in Seq(ClientIDs \cup {0})
    BY <1>1, <2>1, <2>2, ExceptSeq
  <2>4. CompactAndUnique'
    <3> SUFFICES ASSUME NEW j \in DOMAIN clients, NEW k \in DOMAIN clients, j < k
                 PROVE  /\ clients'[j] = 0 => clients'[k] = 0
                        /\ clients'[j] = clients'[k] => clients'[k] = 0
      BY <2>2 DEF CompactAndUnique
    <3>1. /\ clients[j] = 0 => clients[k] = 0
          /\ clients[j] = clients[k] => clients[k] = 0
      BY DEF CompactAndUnique
    <3>2. CASE j = FirstSpot(c)
      BY <1>1, <2>1, <2>2, <3>1, <3>2
    <3>3. CASE k = FirstSpot(c)
      BY <1>1, <2>1, <2>2, <3>1, <3>3
    <3>4. CASE j # FirstSpot(c) /\ k # FirstSpot(c)
      BY <2>2, <3>1, <3>4
    <3> QED
      BY <3>2, <3>3, <3>4
  <2> QED
    BY <1>2, <2>3, <2>4 DEF ClientsTypeOK
<1>4. CASE Spots(c) = {}
  <2> DEFINE size == (Len(clients) + MinClients) % SizeMod
  <2>1. size \in Nat
    BY <1>1
  <2>2. \A k \in 1 .. Len(clients) : clients[k] \in ClientIDs /\ clients[k] # 0 /\ clients[k] # c
    BY <1>1, <1>4 DEF Spots
  <2>3. clients' = [k \in 1 .. size |->
           IF k <= Len(clients) THEN clients[k] ELSE IF k = Len(clients) + 1 THEN c ELSE 0]
    BY <1>4 DEF addClientReference, Extended
  <2> HIDE DEF size
  <2>4. \A k \in 1 .. size : clients'[k] \in ClientIDs \cup {0}
    BY <1>1, <2>1, <2>2, <2>3
  <2>5. clients' \in Seq(ClientIDs \cup {0})
    BY <2>1, <2>3, <2>4
  <2>6. CompactAndUnique'
    <3> SUFFICES ASSUME NEW j \in 1 .. size, NEW k \in 1 .. size, j < k
                 PROVE  /\ clients'[j] = 0 => clients'[k] = 0
                        /\ clients'[j] = clients'[k] => clients'[k] = 0
      BY <2>3 DEF CompactAndUnique
    <3>1. CASE k <= Len(clients)
      BY <1>1, <2>1, <2>2, <2>3, <3>1 DEF CompactAndUnique
    <3>2. CASE k = Len(clients) + 1
      BY <1>1, <2>1, <2>2, <2>3, <3>2
    <3>3. CASE k > Len(clients) + 1
      BY <1>1, <2>1, <2>2, <2>3, <3>3
    <3> QED
      BY <1>1, <2>1, <3>1, <3>2, <3>3
  <2> QED
    BY <1>2, <2>5, <2>6 DEF ClientsTypeOK
<1> QED
  BY <1>3, <1>4

LEMMA DeleteKeepsArray ==
    ASSUME ArrayInv, NEW c \in ClientIDs, deleteUpdateFromCache(c)
    PROVE  ArrayInv'
<1> USE DEF ArrayInv
<1>1. /\ DOMAIN clients = 1 .. Len(clients) /\ Len(clients) \in Nat
      /\ \A k \in DOMAIN clients : clients[k] \in ClientIDs \cup {0}
  BY ArrayFacts DEF ClientsTypeOK
<1>2. gcFlag' \in BOOLEAN /\ updateCount' \in [ClientIDs -> Int]
  BY DEF deleteUpdateFromCache, ClientsTypeOK
<1>3. PICK f \in DOMAIN clients :
              /\ clients[f] = c
              /\ \A k \in DOMAIN clients : k # f => clients[k] # c
              /\ Without(c) = [k \in DOMAIN clients |->
                     IF k < f THEN clients[k]
                     ELSE IF k + 1 \in DOMAIN clients THEN clients[k + 1] ELSE 0]
  BY WithoutEffect DEF deleteUpdateFromCache
<1>4. clients' = [k \in 1 .. Len(clients) |->
         IF k < f THEN clients[k]
         ELSE IF k + 1 \in DOMAIN clients THEN clients[k + 1] ELSE 0]
  BY <1>1, <1>3 DEF deleteUpdateFromCache
<1>5. clients' \in Seq(ClientIDs \cup {0})
  <2>1. \A k \in 1 .. Len(clients) : clients'[k] \in ClientIDs \cup {0}
    BY <1>1, <1>4
  <2> QED
    BY <1>1, <1>4, <2>1
<1>6. CompactAndUnique'
  <2> SUFFICES ASSUME NEW j \in 1 .. Len(clients), NEW k \in 1 .. Len(clients), j < k
               PROVE  /\ clients'[j] = 0 => clients'[k] = 0
                      /\ clients'[j] = clients'[k] => clients'[k] = 0
    BY <1>4 DEF CompactAndUnique
  <2> DEFINE next(i) == IF i < f THEN i ELSE i + 1
  <2>1. next(j) < next(k) /\ next(j) \in 1 .. Len(clients)
    BY <1>1
  <2>2. clients'[j] = clients[next(j)]
    BY <1>1, <1>4, <2>1
  <2>3. CASE next(k) \in DOMAIN clients
    <3>1. clients'[k] = clients[next(k)]
      BY <1>1, <1>4, <2>3
    <3> HIDE DEF next
    <3> QED
      BY <1>1, <2>1, <2>2, <2>3, <3>1 DEF CompactAndUnique
  <2>4. CASE next(k) \notin DOMAIN clients
    BY <1>1, <1>4, <2>4
  <2> QED
    BY <2>3, <2>4
<1> QED
  BY <1>2, <1>5, <1>6 DEF ClientsTypeOK

LEMMA NextArray == ArrayInv /\ [ClientsNext]_ucVars => ArrayInv'
<1> SUFFICES ASSUME ArrayInv, [ClientsNext]_ucVars PROVE ArrayInv'
  OBVIOUS
<1>1. CASE ClientsNext
  BY <1>1, AddKeepsArray, DeleteKeepsArray DEF ClientsNext
<1>2. CASE UNCHANGED ucVars
  BY <1>2 DEF ucVars, ArrayInv, ClientsTypeOK, CompactAndUnique
<1> QED
  BY <1>1, <1>2

\* The variables keep their types, whatever the size does when it wraps.
THEOREM ClientsTypeCorrect == ClientsSpec => []ClientsTypeOK
<1>1. ArrayInv => ClientsTypeOK
  BY DEF ArrayInv
<1> QED
  BY InitArray, NextArray, <1>1, PTL DEF ClientsSpec

\* However clients come and go, the array of an entry has no holes and names no
\* client twice: _addClientReference may take the first free element without
\* looking further.
THEOREM ArrayStaysCompact == ClientsSpec => []CompactAndUnique
<1>1. ArrayInv => CompactAndUnique
  BY DEF ArrayInv
<1> QED
  BY InitArray, NextArray, <1>1, PTL DEF ClientsSpec

-----------------------------------------------------------------------------
(* The array implements the set.                                           *)

LEMMA InitSet == ClientsInit => FlagExact /\ Set!Init
<1> SUFFICES ASSUME ClientsInit PROVE FlagExact /\ Set!Init
  OBVIOUS
<1>1. clients = [k \in 1 .. MinClients |-> 0] /\ MinClients \in Nat \ {0}
  BY ClientsAssumption DEF ClientsInit
<1>2. Len(clients) = MinClients
  BY <1>1
<1>3. Listed(clients) = {}
  BY <1>1 DEF Listed
<1> QED
  BY <1>1, <1>2, <1>3 DEF FlagExact, ClientsInit, Set!Init

LEMMA AddIsJoin ==
    ASSUME SizeNeverWraps, ArrayInv, FlagExact, NEW c \in ClientIDs, addClientReference(c)
    PROVE  FlagExact' /\ Set!Join(c)
<1>1. Len(clients) \in Nat /\ DOMAIN clients = 1 .. Len(clients) /\ c # 0
  BY ArrayFacts, ClientsAssumption DEF ArrayInv, ClientsTypeOK
<1>2. CASE Spots(c) # {}
  <2>1. clients' = [clients EXCEPT ![FirstSpot(c)] = c] /\ gcFlag' = FALSE
    BY <1>2 DEF addClientReference
  <2>2. Listed(clients') = Listed(clients) \cup {c}
    BY <1>2, <2>1, ListedAfterInsert
  <2>3. Len(clients') = Len(clients)
    BY <2>1, <1>2, FirstSpotIsFirst, ExceptSeq DEF Spots, ArrayInv, ClientsTypeOK
  <2> QED
    BY <2>1, <2>2, <2>3 DEF FlagExact, Set!Join
<1>3. CASE Spots(c) = {}
  <2>1. clients' = Extended(c) /\ gcFlag' = gcFlag
    BY <1>3 DEF addClientReference
  <2>2. Listed(clients') = Listed(clients) \cup {c} /\ Len(clients') = Len(clients) + MinClients
    BY <1>3, <2>1, ExtensionFits, ListedAfterExtension
  <2>3. 1 \in DOMAIN clients /\ clients[1] # 0
    BY <1>1, <1>3 DEF FlagExact, Spots
  <2>4. gcFlag = FALSE
    BY <2>3 DEF FlagExact, Listed, ArrayInv, ClientsTypeOK
  <2>5. Len(clients') # 0
    BY <1>1, <2>2, ClientsAssumption
  <2> QED
    BY <2>1, <2>2, <2>4, <2>5 DEF FlagExact, Set!Join
<1> QED
  BY <1>2, <1>3

LEMMA DeleteIsQuit ==
    ASSUME ArrayInv, FlagExact, NEW c \in ClientIDs, deleteUpdateFromCache(c)
    PROVE  FlagExact' /\ Set!Quit(c)
<1>1. /\ c \in Listed(clients) /\ clients' = Without(c)
      /\ gcFlag' = (gcFlag \/ Listed(clients) \subseteq {c})
  BY DEF deleteUpdateFromCache
<1>2. Listed(clients') = Listed(clients) \ {c}
  BY <1>1, ListedAfterRemoval
<1>3. gcFlag' = (Listed(clients') = {})
  BY <1>1, <1>2 DEF FlagExact
<1>4. Len(clients') = Len(clients)
  <2>1. DOMAIN clients' = 1 .. Len(clients) /\ Len(clients) \in Nat
    BY <1>1, ArrayFacts DEF Without, ArrayInv, ClientsTypeOK
  <2>2. clients' \in Seq(ClientIDs \cup {0})
    BY DeleteKeepsArray DEF ArrayInv, ClientsTypeOK
  <2> QED
    BY <2>1, <2>2, LenProperties
<1> QED
  BY <1>1, <1>2, <1>3, <1>4 DEF FlagExact, Set!Quit

\* As long as the one-byte size does not wrap, the array of client IDs with its
\* flag behaves like a set of listeners: nobody is lost, nobody stays, and the
\* entry is collectable exactly while nobody listens.
THEOREM ArrayImplementsSet == SizeNeverWraps => (ClientsSpec => ImplementsSet)
<1> SUFFICES ASSUME SizeNeverWraps PROVE ClientsSpec => ImplementsSet
  OBVIOUS
<1>1. ClientsInit => ArrayInv /\ FlagExact /\ Set!Init
  BY InitArray, InitSet
<1>2. ArrayInv /\ FlagExact /\ [ClientsNext]_ucVars
        => (ArrayInv /\ FlagExact)' /\ [Set!Next]_(Set!setVars)
  <2> SUFFICES ASSUME ArrayInv, FlagExact, [ClientsNext]_ucVars
               PROVE  (ArrayInv /\ FlagExact)' /\ [Set!Next]_(Set!setVars)
    OBVIOUS
  <2>1. ArrayInv'
    BY NextArray
  <2>2. CASE ClientsNext
    BY <2>1, <2>2, AddIsJoin, DeleteIsQuit DEF ClientsNext, Set!Next
  <2>3. CASE UNCHANGED ucVars
    BY <2>1, <2>3 DEF ucVars, FlagExact, Listed, Set!setVars
  <2> QED
    BY <2>2, <2>3
<1> QED
  BY <1>1, <1>2, PTL DEF ClientsSpec, ImplementsSet, Set!Spec

-----------------------------------------------------------------------------
(***************************************************************************)
(* UpdateResults.tla.                                                      *)
(***************************************************************************)

\* An update that was never stored has no listeners and no result.
NewIsEmpty == \A u \in Updates :
    ~entry[u].stored => entry[u].clients = {} /\ entry[u].result = Undefined

\* The update a command is about was stored before the command was queued.
CommandsStored == \A i \in DOMAIN cmdQ :
    cmdQ[i].op = "verify" => entry[cmdQ[i].update].stored

Verifies(i, c, u) ==
    recvQ[i].op = "verify" /\ recvQ[i].client = c /\ recvQ[i].update = u

\* The last request of the proxy about the update that is still queued.
LastVerify(i, c, u) ==
    Verifies(i, c, u) /\ \A j \in DOMAIN recvQ : j > i => ~Verifies(j, c, u)

\* The default the proxy passed along with the last request about the update
\* that is not answered: it waits in the queue, or the receiver thread has it.
AskedWith(c, u, default) ==
    \/ \E i \in DOMAIN recvQ : LastVerify(i, c, u) /\ recvQ[i].default = default
    \/ /\ lookup # None /\ lookup.pdu.client = c /\ lookup.pdu.update = u
       /\ \A j \in DOMAIN recvQ : ~Verifies(j, c, u)
       /\ lookup.pdu.default = default

\* What the proxy goes by is the default it asked with, or it is a listener
\* and has the result of the update, or hears of it at the End of Data.
GoesBy(c, u, default) ==
    \/ belief[c][u] = default
    \/ /\ c \in entry[u].clients
       /\ belief[c][u] = entry[u].result \/ Contains(rpkiQ, u)

\* The server judges by the default of a request what the proxy goes by when
\* the request is answered: no race was lost since it was sent, or it is so.
DefaultIsCurrent ==
    \A c \in Clients, u \in Updates : <<c, u>> \notin raced =>
        \A d \in Results : AskedWith(c, u, d) => GoesBy(c, u, d)

ResultsInv ==
    /\ ResultsTypeOK /\ NewIsEmpty /\ CommandsStored
    /\ RequestersListed /\ DefaultIsCurrent /\ InformedUnlessRaced

-----------------------------------------------------------------------------
(* Lemmas about queues.                                                    *)

LEMMA Appended ==
    ASSUME NEW S, NEW q \in Seq(S), NEW x \in S
    PROVE  /\ Append(q, x) \in Seq(S) /\ Append(q, x) # <<>>
           /\ Len(q) \in Nat /\ DOMAIN q = 1 .. Len(q)
           /\ DOMAIN Append(q, x) = 1 .. Len(q) + 1
           /\ \A i \in DOMAIN q : i \in DOMAIN Append(q, x) /\ Append(q, x)[i] = q[i]
           /\ Append(q, x)[Len(q) + 1] = x
BY AppendProperties, LenProperties

LEMMA Taken ==
    ASSUME NEW S, NEW q \in Seq(S), q # <<>>
    PROVE  /\ Tail(q) \in Seq(S) /\ Head(q) \in S /\ Head(q) = q[1]
           /\ Len(q) \in Nat /\ Len(q) >= 1 /\ DOMAIN q = 1 .. Len(q)
           /\ DOMAIN Tail(q) = 1 .. Len(q) - 1
           /\ \A i \in DOMAIN Tail(q) : i + 1 \in DOMAIN q /\ Tail(q)[i] = q[i + 1]
           /\ \A i \in DOMAIN q : i = 1 \/ (i - 1 \in DOMAIN Tail(q) /\ Tail(q)[i - 1] = q[i])
BY HeadTailProperties, LenProperties

\* rq_queue lists the update once, and loses none.
LEMMA Queued ==
    ASSUME NEW q \in Seq(Updates), IsInjective(q), NEW u \in Updates
    PROVE  /\ RqQueue(q, u) \in Seq(Updates) /\ IsInjective(RqQueue(q, u))
           /\ RqQueue(q, u) # <<>>
           /\ \A w \in Updates : Contains(RqQueue(q, u), w) <=> Contains(q, w) \/ w = u
<1>1. CASE Contains(q, u)
  BY <1>1, LenProperties DEF RqQueue, Contains
<1>2. CASE ~Contains(q, u)
  <2> DEFINE r == Append(q, u)
  <2>1. RqQueue(q, u) = r
    BY <1>2 DEF RqQueue
  <2>2. /\ r \in Seq(Updates) /\ r # <<>> /\ Len(q) \in Nat
        /\ DOMAIN q = 1 .. Len(q) /\ DOMAIN r = 1 .. Len(q) + 1
        /\ \A i \in DOMAIN q : r[i] = q[i]
        /\ r[Len(q) + 1] = u /\ Len(r) = Len(q) + 1
    BY Appended, AppendProperties
  <2> HIDE DEF r
  <2>3. IsInjective(r)
    BY <1>2, <2>2 DEF IsInjective, Contains
  <2>4. \A w \in Updates : Contains(r, w) <=> Contains(q, w) \/ w = u
    BY <2>2 DEF Contains
  <2> QED
    BY <2>1, <2>2, <2>3, <2>4
<1> QED
  BY <1>1, <1>2

\* The head of the RPKI queue is dealt with, the others wait on.
LEMMA Dequeued ==
    ASSUME NEW q \in Seq(Updates), IsInjective(q), q # <<>>
    PROVE  /\ Head(q) \in Updates /\ Tail(q) \in Seq(Updates) /\ IsInjective(Tail(q))
           /\ \A w \in Updates : Contains(q, w) => w = Head(q) \/ Contains(Tail(q), w)
<1> DEFINE t == Tail(q)
<1>1. /\ t \in Seq(Updates) /\ Head(q) \in Updates /\ Head(q) = q[1]
      /\ Len(q) \in Nat /\ Len(q) >= 1 /\ DOMAIN q = 1 .. Len(q)
      /\ DOMAIN t = 1 .. Len(q) - 1 /\ Len(t) = Len(q) - 1
      /\ \A i \in DOMAIN t : i + 1 \in DOMAIN q /\ t[i] = q[i + 1]
      /\ \A i \in DOMAIN q : i = 1 \/ (i - 1 \in DOMAIN t /\ t[i - 1] = q[i])
  BY Taken, HeadTailProperties
<1> HIDE DEF t
<1>2. IsInjective(t)
  BY <1>1 DEF IsInjective
<1>3. \A w \in Updates : Contains(q, w) => w = Head(q) \/ Contains(t, w)
  BY <1>1 DEF Contains
<1> QED
  BY <1>1, <1>2, <1>3 DEF t
-----------------------------------------------------------------------------
(* The types.                                                              *)

\* The types of what the threads work with.
LEMMA Parts ==
    ASSUME ResultsTypeOK
    PROVE  /\ \A u \in Updates : /\ entry[u] \in Entry /\ entry[u].result \in Results
                                 /\ entry[u].clients \subseteq Clients
                                 /\ entry[u].stored \in BOOLEAN
           /\ \A i \in DOMAIN recvQ : recvQ[i] \in PDU
           /\ lookup # None => /\ lookup \in Lookups /\ lookup.pdu \in PDU
                               /\ lookup.value \in Results
                               /\ lookup.pdu.client \in Clients
                               /\ lookup.pdu.update \in Updates
           /\ recvQ # <<>> => /\ Head(recvQ) \in PDU /\ Tail(recvQ) \in Seq(PDU)
                              /\ Head(recvQ).client \in Clients
                              /\ Head(recvQ).update \in Updates
                              /\ Head(recvQ).default \in Results
           /\ cmdQ # <<>> => /\ Head(cmdQ) \in PDU /\ Tail(cmdQ) \in Seq(PDU)
                             /\ Head(cmdQ).client \in Clients
                             /\ Head(cmdQ).update \in Updates
           /\ sendQ # <<>> => /\ Head(sendQ) \in Message /\ Tail(sendQ) \in Seq(Message)
                              /\ Head(sendQ).client \in Clients
                              /\ Head(sendQ).update \in Updates
                              /\ Head(sendQ).value \in Results
<1>1. \A u \in Updates : /\ entry[u] \in Entry /\ entry[u].result \in Results
                         /\ entry[u].clients \subseteq Clients
                         /\ entry[u].stored \in BOOLEAN
  BY DEF ResultsTypeOK, Entry
<1>2. \A i \in DOMAIN recvQ : recvQ[i] \in PDU
  BY LenProperties, ElementOfSeq DEF ResultsTypeOK
<1>3. lookup # None => /\ lookup \in Lookups /\ lookup.pdu \in PDU
                       /\ lookup.value \in Results
                       /\ lookup.pdu.client \in Clients
                       /\ lookup.pdu.update \in Updates
  BY DEF ResultsTypeOK, Lookups, PDU
<1>4. recvQ # <<>> => Head(recvQ) \in PDU /\ Tail(recvQ) \in Seq(PDU)
  BY Taken DEF ResultsTypeOK
<1>5. cmdQ # <<>> => Head(cmdQ) \in PDU /\ Tail(cmdQ) \in Seq(PDU)
  BY Taken DEF ResultsTypeOK
<1>6. sendQ # <<>> => Head(sendQ) \in Message /\ Tail(sendQ) \in Seq(Message)
  BY Taken DEF ResultsTypeOK
<1>7. \A p \in PDU : p.client \in Clients /\ p.update \in Updates /\ p.default \in Results
  BY DEF PDU
<1>8. \A m \in Message : m.client \in Clients /\ m.update \in Updates /\ m.value \in Results
  BY DEF Message
<1> QED
  BY <1>1, <1>2, <1>3, <1>4, <1>5, <1>6, <1>7, <1>8

\* Joining an update makes the client a listener and changes nothing else.
LEMMA JoinedIs ==
    ASSUME ResultsTypeOK, NewIsEmpty, NEW u \in Updates, NEW c \in Clients
    PROVE  /\ Joined(entry[u], c) \in Entry
           /\ Joined(entry[u], c).clients = entry[u].clients \cup {c}
           /\ Joined(entry[u], c).result = entry[u].result
           /\ Joined(entry[u], c).stored
<1>1. entry[u] \in Entry
  BY Parts
<1>2. CASE entry[u].stored
  BY <1>1, <1>2 DEF Joined, Entry
<1>3. CASE ~entry[u].stored
  <2>1. entry[u].clients = {} /\ entry[u].result = Undefined
    BY <1>3 DEF NewIsEmpty
  <2> QED
    BY <1>3, <2>1 DEF Joined, Entry, Results
<1> QED
  BY <1>2, <1>3

LEMMA BroadcastIs ==
    ASSUME ResultsTypeOK, NEW u \in Updates, NEW v \in Results, Broadcast(u, v)
    PROVE  /\ belief' \in [Clients -> [Updates -> Results]]
           /\ raced' \subseteq Pairs /\ raced' \subseteq raced
           /\ \A c \in Clients, w \in Updates :
                 \/ w = u /\ c \in entry[u].clients /\ belief'[c][w] = v
                 \/ /\ w # u \/ c \notin entry[u].clients
                    /\ belief'[c][w] = belief[c][w]
                    /\ <<c, w>> \in raced' <=> <<c, w>> \in raced
<1>1. belief \in [Clients -> [Updates -> Results]] /\ raced \subseteq Pairs
  BY DEF ResultsTypeOK
<1>2. belief' \in [Clients -> [Updates -> Results]]
  BY <1>1 DEF Broadcast
<1>3. ASSUME NEW c \in Clients, NEW w \in Updates
      PROVE  \/ w = u /\ c \in entry[u].clients /\ belief'[c][w] = v
             \/ /\ w # u \/ c \notin entry[u].clients
                /\ belief'[c][w] = belief[c][w]
                /\ <<c, w>> \in raced' <=> <<c, w>> \in raced
  BY <1>1 DEF Broadcast
<1> QED
  BY <1>1, <1>2, <1>3 DEF Broadcast

LEMMA ResultsTypeNext ==
    ASSUME ResultsTypeOK, NewIsEmpty, CommandsStored, [ResultsNext]_vars
    PROVE  ResultsTypeOK' /\ NewIsEmpty'
<1> USE ResultsAssumption
<1>1. ASSUME NEW c \in Clients, NEW u \in Updates, NEW d \in Defaults, NEW b \in BOOLEAN,
             Verify(c, u, d, b)
      PROVE  ResultsTypeOK' /\ NewIsEmpty'
  <2>1. [op |-> "verify", client |-> c, update |-> u, default |-> d, receipt |-> b] \in PDU
    BY DEF PDU, Results
  <2>2. recvQ' \in Seq(PDU)
    BY <1>1, <2>1, Appended DEF Verify, ResultsTypeOK
  <2>3. belief' \in [Clients -> [Updates -> Results]]
    BY <1>1 DEF Verify, ResultsTypeOK, Results
  <2>4. requests' \in 0 .. MaxRequests
    BY <1>1 DEF Verify, ResultsTypeOK
  <2> QED
    BY <1>1, <2>2, <2>3, <2>4 DEF Verify, ResultsTypeOK, NewIsEmpty, Pairs
<1>2. ASSUME NEW c \in Clients, NEW u \in Updates, Delete(c, u)
      PROVE  ResultsTypeOK' /\ NewIsEmpty'
  <2>1. [op |-> "delete", client |-> c, update |-> u, default |-> Undefined,
         receipt |-> FALSE] \in PDU
    BY DEF PDU, Results
  <2>2. recvQ' \in Seq(PDU)
    BY <1>2, <2>1, Appended DEF Delete, ResultsTypeOK
  <2>4. requests' \in 0 .. MaxRequests
    BY <1>2 DEF Delete, ResultsTypeOK
  <2> QED
    BY <1>2, <2>2, <2>4 DEF Delete, ResultsTypeOK, NewIsEmpty
<1>3. CASE Lookup
  <2>1. lookup' \in Lookups
    BY <1>3, Parts DEF Lookup, Lookups
  <2>2. recvQ' \in Seq(PDU)
    BY <1>3, Parts DEF Lookup
  <2> QED
    BY <1>3, <2>1, <2>2 DEF Lookup, ResultsTypeOK, NewIsEmpty
<1>4. CASE Answer
  <2> DEFINE c == lookup.pdu.client
             u == lookup.pdu.update
             m == [client |-> c, update |-> u, value |-> lookup.value]
  <2>1. /\ c \in Clients /\ u \in Updates /\ lookup.pdu \in PDU
        /\ entry' = [entry EXCEPT ![u] = Joined(@, c)] /\ lookup' = None
        /\ dropped' = dropped \ {<<c, u>>}
        /\ UNCHANGED <<recvQ, rpkiQ, draining, belief, wants, requests, changes>>
    BY <1>4, Parts DEF Answer
  <2>2. Joined(entry[u], c) \in Entry /\ Joined(entry[u], c).stored
    BY <2>1, JoinedIs
  <2>3. m \in Message
    BY <1>4, <2>1, Parts DEF Message, Answer
  <2>4. /\ sendQ' = sendQ \/ sendQ' = Append(sendQ, m)
        /\ cmdQ' = cmdQ \/ cmdQ' = Append(cmdQ, lookup.pdu)
        /\ raced' = raced \/ raced' = raced \cup {<<c, u>>}
    BY <1>4 DEF Answer
  <2>5. sendQ' \in Seq(Message) /\ cmdQ' \in Seq(PDU) /\ raced' \subseteq Pairs
    <3> HIDE DEF m
    <3>1. sendQ' \in Seq(Message)
      <4>1. sendQ \in Seq(Message)
        BY DEF ResultsTypeOK
      <4>2. Append(sendQ, m) \in Seq(Message)
        BY <2>3, <4>1, Appended
      <4> QED
        BY <2>4, <4>1, <4>2
    <3>2. cmdQ' \in Seq(PDU)
      <4>1. cmdQ \in Seq(PDU)
        BY DEF ResultsTypeOK
      <4>2. Append(cmdQ, lookup.pdu) \in Seq(PDU)
        BY <2>1, <4>1, Appended
      <4> QED
        BY <2>4, <4>1, <4>2
    <3>3. raced' \subseteq Pairs
      BY <2>1, <2>4 DEF ResultsTypeOK, Pairs
    <3> QED
      BY <3>1, <3>2, <3>3
  <2>6. entry' \in [Updates -> Entry] /\ NewIsEmpty'
    BY <2>1, <2>2 DEF ResultsTypeOK, NewIsEmpty
  <2> QED
    BY <2>1, <2>5, <2>6 DEF ResultsTypeOK
<1>5. CASE PassDelete
  <2>1. recvQ' \in Seq(PDU) /\ cmdQ' \in Seq(PDU)
    BY <1>5, Parts, Appended DEF PassDelete, ResultsTypeOK
  <2> QED
    BY <1>5, <2>1 DEF PassDelete, ResultsTypeOK, NewIsEmpty
<1>6. CASE ProcessValidation
  <2> DEFINE u == Head(cmdQ).update
  <2>1. u \in Updates /\ cmdQ' \in Seq(PDU)
    BY <1>6, Parts DEF ProcessValidation
  <2>2. CASE UNCHANGED <<entry, belief, raced>>
    BY <1>6, <2>1, <2>2 DEF ProcessValidation, ResultsTypeOK, NewIsEmpty
  <2>3. ASSUME NEW v \in States, entry' = [entry EXCEPT ![u].result = v], Broadcast(u, v)
        PROVE  ResultsTypeOK' /\ NewIsEmpty'
    <3>1. v \in Results /\ entry[u].stored
      <4>1. cmdQ \in Seq(PDU) /\ Head(cmdQ) = cmdQ[1] /\ 1 \in DOMAIN cmdQ
        BY <1>6, Taken DEF ProcessValidation, ResultsTypeOK
      <4> QED
        BY <1>6, <4>1 DEF ProcessValidation, CommandsStored, Results
    <3>2. belief' \in [Clients -> [Updates -> Results]] /\ raced' \subseteq Pairs
      BY <2>1, <2>3, <3>1, BroadcastIs
    <3>3. entry' \in [Updates -> Entry]
      BY <2>1, <2>3, <3>1 DEF ResultsTypeOK, Entry
    <3>4. NewIsEmpty'
      BY <2>1, <2>3, <3>1 DEF NewIsEmpty, ResultsTypeOK, Entry
    <3> QED
      BY <1>6, <2>1, <3>2, <3>3, <3>4 DEF ProcessValidation, ResultsTypeOK
  <2> QED
    BY <1>6, <2>2, <2>3 DEF ProcessValidation
<1>7. CASE ProcessDelete
  <2> DEFINE c == Head(cmdQ).client
             u == Head(cmdQ).update
  <2>1. c \in Clients /\ u \in Updates /\ cmdQ' \in Seq(PDU)
    BY <1>7, Parts DEF ProcessDelete
  <2>2. entry' = [entry EXCEPT ![u].clients = @ \ {c}]
    BY <1>7 DEF ProcessDelete
  <2>3. entry' \in [Updates -> Entry]
    BY <2>1, <2>2 DEF ResultsTypeOK, Entry
  <2>4. raced' \subseteq Pairs /\ dropped' \subseteq Pairs
    BY <1>7, <2>1 DEF ProcessDelete, ResultsTypeOK, Pairs
  <2>5. NewIsEmpty'
    BY <2>1, <2>2 DEF NewIsEmpty, ResultsTypeOK, Entry
  <2> QED
    BY <1>7, <2>1, <2>3, <2>4, <2>5 DEF ProcessDelete, ResultsTypeOK
<1>8. CASE EndOfData
  BY <1>8 DEF EndOfData, ResultsTypeOK, NewIsEmpty
<1>9. CASE NotifyNext
  <2>1. rpkiQ # <<>> /\ Head(rpkiQ) \in Updates /\ Tail(rpkiQ) \in Seq(Updates)
        /\ IsInjective(Tail(rpkiQ))
    BY <1>9, Dequeued DEF NotifyNext, ResultsTypeOK
  <2>2. entry[Head(rpkiQ)].result \in Results
    BY <2>1, Parts
  <2>3. belief' \in [Clients -> [Updates -> Results]] /\ raced' \subseteq Pairs
    BY <1>9, <2>1, <2>2, BroadcastIs DEF NotifyNext
  <2> QED
    BY <1>9, <2>1, <2>3 DEF NotifyNext, ResultsTypeOK, NewIsEmpty
<1>10. ASSUME NEW u \in Updates, ROAChange(u) PROVE ResultsTypeOK' /\ NewIsEmpty'
  <2>1. PICK v \in States : entry' = [entry EXCEPT ![u].result = v]
    BY <1>10 DEF ROAChange
  <2>2. entry[u].stored /\ v \in Results
    BY <1>10 DEF ROAChange, NewIsEmpty, Results
  <2>3. entry' \in [Updates -> Entry]
    BY <2>1, <2>2 DEF ResultsTypeOK, Entry
  <2>4. rpkiQ' \in Seq(Updates) /\ IsInjective(rpkiQ') /\ rpkiQ' # <<>>
    BY <1>10, Queued DEF ROAChange, ResultsTypeOK
  <2>5. changes' \in 0 .. MaxChanges
    BY <1>10 DEF ROAChange, ResultsTypeOK
  <2>6. NewIsEmpty'
    BY <2>1, <2>2 DEF NewIsEmpty, ResultsTypeOK, Entry
  <2> QED
    BY <1>10, <2>3, <2>4, <2>5, <2>6 DEF ROAChange, ResultsTypeOK
<1>11. CASE Deliver
  <2> DEFINE m == Head(sendQ)
  <2>1. /\ m.client \in Clients /\ m.update \in Updates /\ m.value \in Results
        /\ sendQ' \in Seq(Message)
        /\ belief' = [belief EXCEPT ![m.client][m.update] = m.value]
    BY <1>11, Parts DEF Deliver
  <2>2. belief' \in [Clients -> [Updates -> Results]]
    BY <2>1 DEF ResultsTypeOK
  <2>3. raced' \subseteq Pairs
    BY <1>11, <2>1 DEF Deliver, ResultsTypeOK, Pairs
  <2> QED
    BY <1>11, <2>1, <2>2, <2>3 DEF Deliver, ResultsTypeOK, NewIsEmpty
<1>12. CASE UNCHANGED vars
  BY <1>12 DEF vars, ResultsTypeOK, NewIsEmpty
<1> QED
  BY <1>1, <1>2, <1>3, <1>4, <1>5, <1>6, <1>7, <1>8, <1>9, <1>10, <1>11, <1>12
  DEF ResultsNext, Proxies, ReceiverThread, CommandThread, RPKIThread

-----------------------------------------------------------------------------
(* Which requests are under way.                                           *)

\* The queues of requests and commands, and what is being looked up.
requestVars == <<recvQ, lookup>>

\* What is true of the receiver queue before and after one is taken off.
LEMMA ReceiverQueue ==
    ASSUME ResultsTypeOK, recvQ # <<>>, NEW t, t = Tail(recvQ)
    PROVE  /\ Len(recvQ) \in Nat /\ DOMAIN recvQ = 1 .. Len(recvQ) /\ Len(recvQ) >= 1
           /\ DOMAIN t = 1 .. Len(recvQ) - 1 /\ Head(recvQ) = recvQ[1]
           /\ \A i \in DOMAIN t : i + 1 \in DOMAIN recvQ /\ t[i] = recvQ[i + 1]
           /\ \A i \in DOMAIN recvQ : i = 1 \/ (i - 1 \in DOMAIN t /\ t[i - 1] = recvQ[i])
BY Taken DEF ResultsTypeOK

\* A request that is under way has a last default, and only such a one has.
LEMMA AskedIsAsking ==
    ASSUME NEW c, NEW u, NEW d, AskedWith(c, u, d)
    PROVE  Asking(c, u)
BY DEF AskedWith, LastVerify, Verifies, Asking

\* A new request is under way, and no other is lost.
LEMMA AskingGrows ==
    ASSUME ResultsTypeOK, NEW pdu \in PDU, recvQ' = Append(recvQ, pdu), lookup' = lookup,
           NEW c \in Clients, NEW u \in Updates
    PROVE  LET new == pdu.op = "verify" /\ pdu.client = c /\ pdu.update = u
           IN  /\ Asking(c, u)' <=> Asking(c, u) \/ new
               /\ \A d : AskedWith(c, u, d)' =>
                     IF new THEN d = pdu.default ELSE AskedWith(c, u, d)
<1> DEFINE q == Append(recvQ, pdu)
           new == pdu.op = "verify" /\ pdu.client = c /\ pdu.update = u
<1>n. PICK n \in Nat : n = Len(recvQ) + 1
  BY LenProperties DEF ResultsTypeOK
<1>0. /\ DOMAIN recvQ = 1 .. Len(recvQ) /\ DOMAIN q = 1 .. n
      /\ \A i \in DOMAIN recvQ : q[i] = recvQ[i]
      /\ q[n] = pdu
  BY <1>n, Appended DEF ResultsTypeOK
<1>1. recvQ' = q
  OBVIOUS
<1> HIDE DEF q
<1>2. /\ \A i \in DOMAIN recvQ' : i \in Int /\ (i \in DOMAIN recvQ \/ i = n)
      /\ \A i \in DOMAIN recvQ : i \in DOMAIN recvQ' /\ i < n /\ recvQ'[i] = recvQ[i]
      /\ n \in DOMAIN recvQ' /\ recvQ'[n] = pdu
  BY <1>n, <1>0, <1>1
<1>3. Asking(c, u)' <=> Asking(c, u) \/ new
  BY <1>2 DEF Asking
<1>4. ASSUME NEW d, AskedWith(c, u, d)', new PROVE d = pdu.default
  <2>1. Verifies(n, c, u)' /\ n \in DOMAIN recvQ'
    BY <1>2, <1>4 DEF Verifies
  <2>2. PICK i \in DOMAIN recvQ' : LastVerify(i, c, u)' /\ recvQ'[i].default = d
    BY <1>4, <2>1 DEF AskedWith
  <2>3. i = n
    BY <1>2, <2>1, <2>2 DEF LastVerify
  <2> QED
    BY <1>2, <2>2, <2>3
<1>5. ASSUME NEW d, AskedWith(c, u, d)', ~new PROVE AskedWith(c, u, d)
  <2>1. ~Verifies(n, c, u)' /\ \A i \in DOMAIN recvQ : Verifies(i, c, u)' <=> Verifies(i, c, u)
    BY <1>2, <1>5 DEF Verifies
  <2>2. ASSUME NEW i \in DOMAIN recvQ', LastVerify(i, c, u)', recvQ'[i].default = d
        PROVE  AskedWith(c, u, d)
    <3>1. i \in DOMAIN recvQ /\ recvQ[i].default = d
      BY <1>2, <2>1, <2>2 DEF LastVerify
    <3>2. LastVerify(i, c, u)
      BY <1>2, <2>1, <2>2, <3>1 DEF LastVerify
    <3> QED
      BY <3>1, <3>2 DEF AskedWith
  <2>3. (\A j \in DOMAIN recvQ' : ~Verifies(j, c, u)') => \A j \in DOMAIN recvQ : ~Verifies(j, c, u)
    BY <1>2, <2>1
  <2> QED
    BY <1>5, <2>2, <2>3 DEF AskedWith
<1> QED
  BY <1>3, <1>4, <1>5

\* What is taken off the queue was no request, or is in hand: none is lost.
LEMMA AskingKept ==
    ASSUME ResultsTypeOK, Lookup \/ PassDelete, NEW c \in Clients, NEW u \in Updates
    PROVE  /\ Asking(c, u)' <=> Asking(c, u)
           /\ \A d : AskedWith(c, u, d)' => AskedWith(c, u, d)
<1> DEFINE t == Tail(recvQ)
<1>1. recvQ # <<>> /\ recvQ' = t /\ lookup = None
  BY DEF Lookup, PassDelete
<1>2. /\ Len(recvQ) \in Nat /\ DOMAIN recvQ = 1 .. Len(recvQ) /\ Len(recvQ) >= 1
      /\ DOMAIN t = 1 .. Len(recvQ) - 1 /\ Head(recvQ) = recvQ[1]
      /\ \A i \in DOMAIN t : i + 1 \in DOMAIN recvQ /\ t[i] = recvQ[i + 1]
      /\ \A i \in DOMAIN recvQ : i = 1 \/ (i - 1 \in DOMAIN t /\ t[i - 1] = recvQ[i])
  BY <1>1, ReceiverQueue
<1>3. \/ recvQ[1].op = "verify" /\ lookup'.pdu = recvQ[1] /\ lookup' # None
      \/ recvQ[1].op = "delete" /\ lookup' = None
  <2>1. CASE Lookup
    <3>1. lookup' \in Lookups /\ lookup'.pdu = Head(recvQ)
      BY <2>1, Parts DEF Lookup, Lookups
    <3> QED
      BY <1>2, <2>1, <3>1, ResultsAssumption DEF Lookup
  <2>2. CASE PassDelete
    BY <1>2, <2>2 DEF PassDelete
  <2> QED
    BY <2>1, <2>2
<1> HIDE DEF t
<1>4. Asking(c, u)' <=> Asking(c, u)
  BY <1>1, <1>2, <1>3 DEF Asking
<1>5. \A i \in DOMAIN t : Verifies(i, c, u)' <=> Verifies(i + 1, c, u)
  BY <1>1, <1>2 DEF Verifies
<1>6. ASSUME NEW d, NEW i \in DOMAIN recvQ', LastVerify(i, c, u)', recvQ'[i].default = d
      PROVE  AskedWith(c, u, d)
  <2>1. i + 1 \in DOMAIN recvQ /\ recvQ[i + 1].default = d /\ Verifies(i + 1, c, u)
    BY <1>1, <1>2, <1>5, <1>6 DEF LastVerify
  <2>2. ASSUME NEW j \in DOMAIN recvQ, j > i + 1 PROVE ~Verifies(j, c, u)
    <3>1. j - 1 \in DOMAIN t /\ j - 1 > i /\ (j - 1) + 1 = j
      BY <1>1, <1>2, <2>2
    <3> QED
      BY <1>1, <1>5, <1>6, <3>1 DEF LastVerify
  <2> QED
    BY <2>1, <2>2 DEF AskedWith, LastVerify
<1>7. ASSUME NEW d, lookup' # None, lookup'.pdu.client = c, lookup'.pdu.update = u,
             \A j \in DOMAIN recvQ' : ~Verifies(j, c, u)', lookup'.pdu.default = d
      PROVE  AskedWith(c, u, d)
  <2>1. Verifies(1, c, u) /\ recvQ[1].default = d /\ 1 \in DOMAIN recvQ
    BY <1>2, <1>3, <1>7 DEF Verifies
  <2>2. ASSUME NEW j \in DOMAIN recvQ, j > 1 PROVE ~Verifies(j, c, u)
    <3>1. j - 1 \in DOMAIN t /\ (j - 1) + 1 = j
      BY <1>1, <1>2, <2>2
    <3> QED
      BY <1>1, <1>5, <1>7, <3>1
  <2> QED
    BY <2>1, <2>2 DEF AskedWith, LastVerify
<1> QED
  BY <1>4, <1>6, <1>7 DEF AskedWith

\* Answer ends the request in hand and no other.
LEMMA AskingEnds ==
    ASSUME ResultsTypeOK, Answer, NEW c \in Clients, NEW u \in Updates
    PROVE  LET own == lookup.pdu.client = c /\ lookup.pdu.update = u
           IN  /\ Asking(c, u) => Asking(c, u)' \/ own
               /\ \A d : AskedWith(c, u, d)' => AskedWith(c, u, d)
               /\ own /\ ~Asking(c, u)' => AskedWith(c, u, lookup.pdu.default)
<1>1. recvQ' = recvQ /\ lookup' = None /\ lookup # None
  BY DEF Answer
<1> QED
  BY <1>1 DEF Asking, AskedWith, LastVerify, Verifies

\* Nobody else touches the receiver queue.
LEMMA AskingStays ==
    ASSUME UNCHANGED requestVars, NEW c, NEW u
    PROVE  /\ Asking(c, u)' <=> Asking(c, u)
           /\ \A d : AskedWith(c, u, d)' <=> AskedWith(c, u, d)
BY DEF Asking, AskedWith, LastVerify, Verifies, requestVars

-----------------------------------------------------------------------------
(* Commands are about stored updates.                                      *)

LEMMA CommandUpdates ==
    ASSUME ResultsTypeOK PROVE \A i \in DOMAIN cmdQ : cmdQ[i].update \in Updates
<1>1. cmdQ \in Seq(PDU) /\ DOMAIN cmdQ = 1 .. Len(cmdQ)
  BY LenProperties DEF ResultsTypeOK
<1>2. \A i \in DOMAIN cmdQ : cmdQ[i] \in PDU
  BY <1>1, ElementOfSeq
<1> QED
  BY <1>2 DEF PDU

LEMMA CommandsNext ==
    ASSUME ResultsTypeOK, NewIsEmpty, CommandsStored, [ResultsNext]_vars
    PROVE  CommandsStored'
<1>1. ASSUME UNCHANGED <<cmdQ>>, \A u \in Updates : entry[u].stored => entry'[u].stored
      PROVE  CommandsStored'
  <2>1. \A i \in DOMAIN cmdQ : cmdQ[i].update \in Updates
    BY CommandUpdates
  <2> QED
    BY <1>1, <2>1 DEF CommandsStored
<1>2. ASSUME cmdQ # <<>>, cmdQ' = Tail(cmdQ),
             \A u \in Updates : entry[u].stored => entry'[u].stored
      PROVE  CommandsStored'
  <2> DEFINE t == Tail(cmdQ)
  <2>1. \A i \in DOMAIN cmdQ : cmdQ[i].update \in Updates
    BY CommandUpdates
  <2>2. \A i \in DOMAIN t : i + 1 \in DOMAIN cmdQ /\ t[i] = cmdQ[i + 1]
    BY <1>2, Taken DEF ResultsTypeOK
  <2>3. cmdQ' = t
    BY <1>2
  <2> HIDE DEF t
  <2> QED
    BY <1>2, <2>1, <2>2, <2>3 DEF CommandsStored
<1>3. ASSUME NEW pdu \in PDU, cmdQ' = Append(cmdQ, pdu),
             \A u \in Updates : entry[u].stored => entry'[u].stored,
             pdu.op = "verify" => entry'[pdu.update].stored
      PROVE  CommandsStored'
  <2> DEFINE q == Append(cmdQ, pdu)
  <2>1. \A i \in DOMAIN cmdQ : cmdQ[i].update \in Updates
    BY CommandUpdates
  <2>2. /\ Len(cmdQ) \in Nat /\ DOMAIN cmdQ = 1 .. Len(cmdQ)
        /\ DOMAIN q = 1 .. Len(cmdQ) + 1
        /\ \A i \in DOMAIN cmdQ : q[i] = cmdQ[i]
        /\ q[Len(cmdQ) + 1] = pdu
    BY Appended DEF ResultsTypeOK
  <2>3. cmdQ' = q
    BY <1>3
  <2> HIDE DEF q
  <2> QED
    BY <1>3, <2>1, <2>2, <2>3 DEF CommandsStored
<1>4. CASE UNCHANGED <<cmdQ, entry>>
  BY <1>1, <1>4
<1>5. ASSUME NEW u \in Updates, NEW i \in Entry, i.stored, entry' = [entry EXCEPT ![u] = i]
      PROVE  \A w \in Updates : entry[w].stored => entry'[w].stored
  BY <1>5 DEF ResultsTypeOK
<1>6. CASE Answer
  <2> DEFINE c == lookup.pdu.client
             u == lookup.pdu.update
  <2>1. /\ c \in Clients /\ u \in Updates /\ lookup.pdu \in PDU
        /\ entry' = [entry EXCEPT ![u] = Joined(@, c)]
        /\ cmdQ' = cmdQ \/ cmdQ' = Append(cmdQ, lookup.pdu)
    BY <1>6, Parts DEF Answer
  <2>2. Joined(entry[u], c).stored
    BY <2>1, JoinedIs
  <2>3. entry'[u].stored /\ \A w \in Updates : entry[w].stored => entry'[w].stored
    BY <2>1, <2>2 DEF ResultsTypeOK
  <2> QED
    BY <1>1, <1>3, <2>1, <2>3
<1>7. CASE PassDelete
  BY <1>3, <1>7, Parts DEF PassDelete
<1>8. CASE ProcessValidation
  BY <1>2, <1>8 DEF ProcessValidation, ResultsTypeOK, Entry
<1>9. CASE ProcessDelete
  BY <1>2, <1>9 DEF ProcessDelete, ResultsTypeOK, Entry
<1>10. ASSUME NEW u \in Updates, ROAChange(u) PROVE CommandsStored'
  BY <1>1, <1>10 DEF ROAChange, ResultsTypeOK, Entry
<1> QED
  BY <1>4, <1>6, <1>7, <1>8, <1>9, <1>10
  DEF ResultsNext, Proxies, ReceiverThread, CommandThread, RPKIThread, vars,
      Verify, Delete, Lookup, EndOfData, NotifyNext, Deliver

-----------------------------------------------------------------------------
(* Who is listed.                                                          *)

LEMMA ListedNext ==
    ASSUME ResultsTypeOK, NewIsEmpty, RequestersListed, ResultsTypeOK', [ResultsNext]_vars
    PROVE  RequestersListed'
<1> SUFFICES ASSUME NEW c \in Clients, NEW u \in Updates, <<c, u>> \in wants', <<c, u>> \notin dropped'
             PROVE  Asking(c, u)' \/ c \in entry'[u].clients
  BY DEF RequestersListed, ResultsTypeOK, Pairs
<1> DEFINE Goal == Asking(c, u)' \/ c \in entry'[u].clients
<1>0. <<c, u>> \in wants /\ <<c, u>> \notin dropped => Asking(c, u) \/ c \in entry[u].clients
  BY DEF RequestersListed
<1>1. ASSUME NEW a \in Clients, NEW w \in Updates, NEW d \in Defaults, NEW b \in BOOLEAN,
             Verify(a, w, d, b)
      PROVE  Goal
  <2> DEFINE pdu == [op |-> "verify", client |-> a, update |-> w, default |-> d, receipt |-> b]
  <2>1. pdu \in PDU
    BY ResultsAssumption DEF PDU, Results
  <2>2. Asking(c, u)' <=> Asking(c, u) \/ (a = c /\ w = u)
    BY <1>1, <2>1, AskingGrows DEF Verify
  <2> QED
    BY <1>0, <1>1, <2>2 DEF Verify
<1>2. ASSUME NEW a \in Clients, NEW w \in Updates, Delete(a, w) PROVE Goal
  <2> DEFINE pdu == [op |-> "delete", client |-> a, update |-> w, default |-> Undefined,
                     receipt |-> FALSE]
  <2>1. pdu \in PDU
    BY DEF PDU, Results
  <2>2. Asking(c, u) => Asking(c, u)'
    BY <1>2, <2>1, AskingGrows DEF Delete
  <2> QED
    BY <1>0, <1>2, <2>2 DEF Delete
<1>3. CASE Lookup \/ PassDelete
  BY <1>0, <1>3, AskingKept DEF Lookup, PassDelete
<1>4. CASE Answer
  <2> DEFINE a == lookup.pdu.client
             w == lookup.pdu.update
  <2>1. /\ a \in Clients /\ w \in Updates
        /\ entry' = [entry EXCEPT ![w] = Joined(@, a)]
        /\ wants' = wants /\ dropped' = dropped \ {<<a, w>>}
    BY <1>4, Parts DEF Answer
  <2>2. \A x \in entry[w].clients \cup {a} : x \in entry'[w].clients
    BY <2>1, JoinedIs DEF ResultsTypeOK
  <2>3. u # w => entry'[u] = entry[u]
    BY <2>1 DEF ResultsTypeOK
  <2>4. Asking(c, u) => Asking(c, u)' \/ (a = c /\ w = u)
    BY <1>4, AskingEnds
  <2> QED
    BY <1>0, <2>1, <2>2, <2>3, <2>4
<1>5. CASE ProcessDelete
  <2> DEFINE a == Head(cmdQ).client
             w == Head(cmdQ).update
  <2>1. /\ a \in Clients /\ w \in Updates
        /\ entry' = [entry EXCEPT ![w].clients = @ \ {a}]
        /\ wants' = wants /\ dropped' = dropped \cup (wants \cap {<<a, w>>})
        /\ UNCHANGED requestVars
    BY <1>5, Parts DEF ProcessDelete, requestVars
  <2>2. c # a \/ u # w
    BY <2>1
  <2>3. c \in entry[u].clients => c \in entry'[u].clients
    BY <2>1, <2>2 DEF ResultsTypeOK, Entry
  <2> QED
    BY <1>0, <2>1, <2>3, AskingStays
<1>6. ASSUME UNCHANGED requestVars, wants' = wants, dropped' = dropped,
             c \in entry[u].clients => c \in entry'[u].clients
      PROVE  Goal
  BY <1>0, <1>6, AskingStays
<1>7. CASE ProcessValidation
  <2>1. c \in entry[u].clients => c \in entry'[u].clients
    <3>1. Head(cmdQ).update \in Updates
      BY <1>7, Parts DEF ProcessValidation
    <3>2. \A v : entry' = [entry EXCEPT ![Head(cmdQ).update].result = v]
                => entry'[u].clients = entry[u].clients
      BY <3>1 DEF ResultsTypeOK, Entry
    <3> QED
      BY <1>7, <3>2 DEF ProcessValidation
  <2> QED
    BY <1>6, <1>7, <2>1 DEF ProcessValidation, requestVars
<1>8. ASSUME NEW w \in Updates, ROAChange(w) PROVE Goal
  <2>1. c \in entry[u].clients => c \in entry'[u].clients
    BY <1>8 DEF ROAChange, ResultsTypeOK, Entry
  <2> QED
    BY <1>6, <1>8, <2>1 DEF ROAChange, requestVars
<1>9. CASE EndOfData \/ NotifyNext \/ Deliver \/ UNCHANGED vars
  BY <1>6, <1>9 DEF EndOfData, NotifyNext, Deliver, vars, requestVars
<1> QED
  BY <1>1, <1>2, <1>3, <1>4, <1>5, <1>7, <1>8, <1>9
  DEF ResultsNext, Proxies, ReceiverThread, CommandThread, RPKIThread

-----------------------------------------------------------------------------
(* What the proxies go by.                                                 *)

\* An answer is queued behind the others.
LEMMA AnswerSends ==
    ASSUME ResultsTypeOK, Answer, NEW c \in Clients, NEW u \in Updates
    PROVE  /\ Has(sendQ, c, u) => Has(sendQ', c, u)
           /\ ReplyNeeded(lookup.pdu, lookup.value)
              /\ lookup.pdu.client = c /\ lookup.pdu.update = u => Has(sendQ', c, u)
<1> DEFINE m == [client |-> lookup.pdu.client, update |-> lookup.pdu.update,
                 value |-> lookup.value]
           q == Append(sendQ, m)
<1>1. m \in Message
  BY Parts DEF Answer, Message
<1>2. sendQ' = IF ReplyNeeded(lookup.pdu, lookup.value) THEN q ELSE sendQ
  BY DEF Answer
<1>3. /\ m.client = lookup.pdu.client /\ m.update = lookup.pdu.update
  OBVIOUS
<1> HIDE DEF m
<1>4. /\ \A i \in DOMAIN sendQ : i \in DOMAIN q /\ q[i] = sendQ[i]
      /\ Len(sendQ) + 1 \in DOMAIN q /\ q[Len(sendQ) + 1] = m
  BY <1>1, Appended DEF ResultsTypeOK
<1> HIDE DEF q
<1> QED
  BY <1>2, <1>3, <1>4 DEF Has

\* A delivery takes the first message off the send queue and no other.
LEMMA DeliverTakes ==
    ASSUME ResultsTypeOK, Deliver, NEW c \in Clients, NEW u \in Updates,
           ~(c = Head(sendQ).client /\ u = Head(sendQ).update), Has(sendQ, c, u)
    PROVE  Has(sendQ', c, u)
<1>1. PICK i \in DOMAIN sendQ : sendQ[i].client = c /\ sendQ[i].update = u
  BY DEF Has
<1>2. i - 1 \in DOMAIN Tail(sendQ) /\ Tail(sendQ)[i - 1] = sendQ[i]
  BY <1>1, Taken DEF ResultsTypeOK, Deliver
<1>3. sendQ' = Tail(sendQ)
  BY DEF Deliver
<1> QED
  BY <1>1, <1>2, <1>3 DEF Has

\* A broadcast keeps what a proxy goes by right, and corrects listeners.
LEMMA BroadcastCorrects ==
    ASSUME ResultsTypeOK, ResultsTypeOK', DefaultIsCurrent, InformedUnlessRaced,
           NEW u \in Updates, NEW v \in Results, Broadcast(u, v), entry'[u].result = v,
           UNCHANGED <<recvQ, lookup, sendQ>>,
           \A w \in Updates : entry'[w].clients = entry[w].clients,
           \A w \in Updates : w # u => entry'[w] = entry[w]
                                       /\ (Contains(rpkiQ, w) => Contains(rpkiQ', w))
    PROVE  DefaultIsCurrent' /\ InformedUnlessRaced'
<1>0. \A c \in Clients, w \in Updates :
        \/ w = u /\ c \in entry[u].clients /\ belief'[c][w] = v
        \/ /\ w # u \/ c \notin entry[u].clients
           /\ belief'[c][w] = belief[c][w]
           /\ <<c, w>> \in raced' <=> <<c, w>> \in raced
  BY BroadcastIs
<1>1. UNCHANGED requestVars
  BY DEF requestVars
<1>2. ASSUME NEW c \in Clients, NEW w \in Updates, <<c, w>> \notin raced',
             NEW d \in Results, AskedWith(c, w, d)'
      PROVE  GoesBy(c, w, d)'
  <2>1. AskedWith(c, w, d)
    BY <1>1, <1>2, AskingStays
  <2>2. CASE w = u /\ c \in entry[u].clients /\ belief'[c][w] = v
    BY <2>2 DEF GoesBy
  <2>3. CASE /\ w # u \/ c \notin entry[u].clients
             /\ belief'[c][w] = belief[c][w]
             /\ <<c, w>> \in raced' <=> <<c, w>> \in raced
    <3>1. GoesBy(c, w, d)
      BY <1>2, <2>1, <2>3 DEF DefaultIsCurrent
    <3> QED
      BY <2>3, <3>1 DEF GoesBy
  <2> QED
    BY <1>0, <2>2, <2>3
<1>3. ASSUME NEW w \in Updates, NEW c \in entry'[w].clients,
             entry'[w].result \notin {Undefined, belief'[c][w]}
      PROVE  Asking(c, w)' \/ Has(sendQ', c, w) \/ Contains(rpkiQ', w) \/ <<c, w>> \in raced'
  <2>1. c \in Clients /\ c \in entry[w].clients
    BY <1>3, Parts
  <2>2. w # u
    BY <1>0, <1>3, <2>1
  <2>3. belief'[c][w] = belief[c][w] /\ (<<c, w>> \in raced' <=> <<c, w>> \in raced)
    BY <1>0, <2>1, <2>2
  <2>4. Asking(c, w) \/ Has(sendQ, c, w) \/ Contains(rpkiQ, w) \/ <<c, w>> \in raced
    BY <1>3, <2>1, <2>2, <2>3 DEF InformedUnlessRaced
  <2> QED
    BY <1>1, <2>2, <2>3, <2>4, AskingStays
<1> QED
  BY <1>2, <1>3 DEF DefaultIsCurrent, InformedUnlessRaced

LEMMA InformedNext ==
    ASSUME ResultsInv, ResultsTypeOK', [ResultsNext]_vars
    PROVE  DefaultIsCurrent' /\ InformedUnlessRaced'
<1> USE DEF ResultsInv
<1> DEFINE Goal == DefaultIsCurrent' /\ InformedUnlessRaced'
           Fresh(c, u) == \A d \in Results : AskedWith(c, u, d)' => GoesBy(c, u, d)'
           Hears(c, u) == Asking(c, u)' \/ Has(sendQ', c, u) \/ Contains(rpkiQ', u)
                          \/ <<c, u>> \in raced'
           Wrong(c, u) == c \in entry'[u].clients
                          /\ entry'[u].result \notin {Undefined, belief'[c][u]}
<1>0. ASSUME \A c \in Clients, u \in Updates :
               /\ <<c, u>> \notin raced' => Fresh(c, u)
               /\ Wrong(c, u) => Hears(c, u)
      PROVE  Goal
  <2>1. \A u \in Updates : entry'[u].clients \subseteq Clients
    BY DEF ResultsTypeOK, Entry
  <2> QED
    BY <1>0, <2>1 DEF DefaultIsCurrent, InformedUnlessRaced
<1>i. ASSUME NEW c \in Clients, NEW u \in Updates
      PROVE  /\ \A d \in Results : <<c, u>> \notin raced /\ AskedWith(c, u, d) => GoesBy(c, u, d)
             /\ c \in entry[u].clients /\ entry[u].result \notin {Undefined, belief[c][u]}
                => Asking(c, u) \/ Has(sendQ, c, u) \/ Contains(rpkiQ, u) \/ <<c, u>> \in raced
  BY DEF DefaultIsCurrent, InformedUnlessRaced
<1>1. ASSUME NEW a \in Clients, NEW w \in Updates, NEW e \in Defaults, NEW b \in BOOLEAN,
             Verify(a, w, e, b)
      PROVE  Goal
  <2> DEFINE pdu == [op |-> "verify", client |-> a, update |-> w, default |-> e, receipt |-> b]
  <2>1. pdu \in PDU
    BY ResultsAssumption DEF PDU, Results
  <2>2. ASSUME NEW c \in Clients, NEW u \in Updates
        PROVE  /\ Asking(c, u)' <=> Asking(c, u) \/ (a = c /\ w = u)
               /\ \A d : AskedWith(c, u, d)' =>
                     IF a = c /\ w = u THEN d = e ELSE AskedWith(c, u, d)
    BY <1>1, <2>1, AskingGrows DEF Verify
  <2>3. ASSUME NEW c \in Clients, NEW u \in Updates
        PROVE  /\ <<c, u>> \notin raced' => Fresh(c, u)
               /\ Wrong(c, u) => Hears(c, u)
    <3>1. CASE a = c /\ w = u
      <4>1. belief'[c][u] = e
        BY <1>1, <3>1 DEF Verify, ResultsTypeOK
      <4> QED
        BY <2>2, <3>1, <4>1 DEF GoesBy
    <3>2. CASE ~(a = c /\ w = u)
      <4>1. belief'[c][u] = belief[c][u] /\ (<<c, u>> \in raced' <=> <<c, u>> \in raced)
            /\ UNCHANGED <<entry, rpkiQ, sendQ>>
        BY <1>1, <3>2 DEF Verify, ResultsTypeOK
      <4> QED
        BY <1>i, <2>2, <3>2, <4>1 DEF GoesBy
    <3> QED
      BY <3>1, <3>2
  <2> QED
    BY <1>0, <2>3
<1>2. ASSUME UNCHANGED <<entry, rpkiQ, sendQ, belief, raced>>,
             \A c \in Clients, u \in Updates :
               /\ Asking(c, u) => Asking(c, u)'
               /\ \A d : AskedWith(c, u, d)' => AskedWith(c, u, d)
      PROVE  Goal
  <2>1. ASSUME NEW c \in Clients, NEW u \in Updates
        PROVE  /\ <<c, u>> \notin raced' => Fresh(c, u)
               /\ Wrong(c, u) => Hears(c, u)
    BY <1>2, <1>i DEF GoesBy
  <2> QED
    BY <1>0, <2>1
<1>3. ASSUME NEW a \in Clients, NEW w \in Updates, Delete(a, w) PROVE Goal
  <2> DEFINE pdu == [op |-> "delete", client |-> a, update |-> w, default |-> Undefined,
                     receipt |-> FALSE]
  <2>1. pdu \in PDU
    BY DEF PDU, Results
  <2>2. \A c \in Clients, u \in Updates :
          /\ Asking(c, u) => Asking(c, u)'
          /\ \A d : AskedWith(c, u, d)' => AskedWith(c, u, d)
    BY <1>3, <2>1, AskingGrows DEF Delete
  <2> QED
    BY <1>2, <1>3, <2>2 DEF Delete
<1>4. CASE Lookup \/ PassDelete
  BY <1>2, <1>4, AskingKept DEF Lookup, PassDelete
<1>5. CASE Answer
  <2> DEFINE a == lookup.pdu.client
             w == lookup.pdu.update
             e == lookup.pdu.default
             m == [client |-> a, update |-> w, value |-> lookup.value]
  <2>1. /\ a \in Clients /\ w \in Updates /\ e \in Results
        /\ entry' = [entry EXCEPT ![w] = Joined(@, a)]
        /\ UNCHANGED <<rpkiQ, belief>>
        /\ raced \subseteq raced'
    BY <1>5, Parts DEF Answer, PDU
  <2>2. \A u \in Updates : entry'[u].result = entry[u].result
    BY <2>1, JoinedIs DEF ResultsTypeOK
  <2>3. \A u \in Updates : entry'[u].clients =
          entry[u].clients \cup (IF u = w THEN {a} ELSE {})
    BY <2>1, JoinedIs DEF ResultsTypeOK
  <2>4. ASSUME NEW c \in Clients, NEW u \in Updates
        PROVE  /\ Asking(c, u) => Asking(c, u)' \/ (a = c /\ w = u)
               /\ \A d : AskedWith(c, u, d)' => AskedWith(c, u, d)
               /\ a = c /\ w = u /\ ~Asking(c, u)' => AskedWith(c, u, e)
    BY <1>5, AskingEnds
  <2>5. ASSUME NEW c \in Clients, NEW u \in Updates, Has(sendQ, c, u) PROVE Has(sendQ', c, u)
    BY <1>5, <2>5, AnswerSends
  <2>6. ASSUME NEW c \in Clients, NEW u \in Updates, <<c, u>> \notin raced' PROVE Fresh(c, u)
    BY <1>i, <2>1, <2>2, <2>3, <2>4, <2>6 DEF GoesBy
  <2>7. ASSUME NEW c \in Clients, NEW u \in Updates, Wrong(c, u) PROVE Hears(c, u)
    <3>1. CASE a = c /\ w = u
      <4>1. CASE ReplyNeeded(lookup.pdu, lookup.value)
        BY <1>5, <3>1, <4>1, AnswerSends
      <4>2. CASE ~ReplyNeeded(lookup.pdu, lookup.value)
        <5>1. e = lookup.value /\ raced' = IF lookup.value # entry[u].result
                                           THEN raced \cup {<<c, u>>} ELSE raced
          BY <1>5, <3>1, <4>2 DEF Answer, ReplyNeeded
        <5>2. CASE Asking(c, u)' \/ <<c, u>> \in raced'
          BY <5>2
        <5>3. CASE ~Asking(c, u)' /\ <<c, u>> \notin raced'
          <6>1. GoesBy(c, u, e) /\ e = entry[u].result
            BY <1>i, <2>1, <2>4, <3>1, <5>1, <5>3
          <6> QED
            BY <2>1, <2>2, <2>7, <6>1 DEF GoesBy
        <5> QED
          BY <5>2, <5>3
      <4> QED
        BY <4>1, <4>2
    <3>2. CASE ~(a = c /\ w = u)
      <4>1. c \in entry[u].clients /\ entry[u].result \notin {Undefined, belief[c][u]}
        BY <2>1, <2>2, <2>3, <2>7, <3>2
      <4>2. Asking(c, u) \/ Has(sendQ, c, u) \/ Contains(rpkiQ, u) \/ <<c, u>> \in raced
        BY <1>i, <4>1
      <4> QED
        BY <2>1, <2>4, <2>5, <3>2, <4>2
    <3> QED
      BY <3>1, <3>2
  <2> QED
    BY <1>0, <2>6, <2>7
<1>6. CASE ProcessValidation
  <2> DEFINE w == Head(cmdQ).update
  <2>1. w \in Updates /\ UNCHANGED <<recvQ, lookup, sendQ, rpkiQ>> /\ UNCHANGED requestVars
    BY <1>6, Parts DEF ProcessValidation, requestVars
  <2>2. CASE UNCHANGED <<entry, belief, raced>>
    BY <1>2, <2>1, <2>2, AskingStays
  <2>3. ASSUME NEW v \in States, entry' = [entry EXCEPT ![w].result = v], Broadcast(w, v)
        PROVE  Goal
    <3>1. /\ v \in Results /\ entry'[w].result = v
          /\ \A u \in Updates : /\ entry'[u].clients = entry[u].clients
                                /\ u # w => entry'[u] = entry[u]
      BY <2>1, <2>3 DEF ResultsTypeOK, Entry, Results
    <3> HIDE DEF w
    <3> QED
      BY <2>1, <2>3, <3>1, BroadcastCorrects
  <2> QED
    BY <1>6, <2>2, <2>3 DEF ProcessValidation
<1>7. CASE ProcessDelete
  <2> DEFINE a == Head(cmdQ).client
             w == Head(cmdQ).update
  <2>1. /\ a \in Clients /\ w \in Updates
        /\ entry' = [entry EXCEPT ![w].clients = @ \ {a}]
        /\ raced' = IF Asking(a, w) THEN raced \cup {<<a, w>>} ELSE raced
        /\ UNCHANGED <<rpkiQ, sendQ, belief>> /\ UNCHANGED requestVars
    BY <1>7, Parts DEF ProcessDelete, requestVars
  <2>2. \A u \in Updates : /\ entry'[u].result = entry[u].result
                           /\ entry'[u].clients \subseteq entry[u].clients
    BY <2>1 DEF ResultsTypeOK, Entry
  <2>3. ASSUME NEW c \in Clients, NEW u \in Updates
        PROVE  ~(c = a /\ u = w) => entry'[u].clients \cap {c} = entry[u].clients \cap {c}
    BY <2>1 DEF ResultsTypeOK, Entry
  <2>4. ASSUME NEW c \in Clients, NEW u \in Updates, <<c, u>> \notin raced',
               NEW d \in Results, AskedWith(c, u, d)'
        PROVE  GoesBy(c, u, d)'
    <3>1. AskedWith(c, u, d) /\ <<c, u>> \notin raced
      BY <2>1, <2>4, AskingStays
    <3>2. Asking(c, u) /\ GoesBy(c, u, d)
      BY <1>i, <3>1, AskedIsAsking
    <3>3. ~(c = a /\ u = w)
      BY <2>1, <2>4, <3>2
    <3>4. c \in entry[u].clients => c \in entry'[u].clients
      BY <2>3, <3>3
    <3> QED
      BY <2>1, <2>2, <3>2, <3>4 DEF GoesBy
  <2>5. ASSUME NEW c \in Clients, NEW u \in Updates, Wrong(c, u) PROVE Hears(c, u)
    <3>1. c \in entry[u].clients /\ entry[u].result \notin {Undefined, belief[c][u]}
      BY <2>1, <2>2, <2>5
    <3>2. raced \subseteq raced'
      BY <2>1
    <3> QED
      BY <1>i, <2>1, <3>1, <3>2, AskingStays
  <2> QED
    BY <1>0, <2>4, <2>5
<1>8. CASE EndOfData \/ UNCHANGED vars
  <2>1. UNCHANGED <<entry, rpkiQ, sendQ, belief, raced>> /\ UNCHANGED requestVars
    BY <1>8 DEF EndOfData, vars, requestVars
  <2> QED
    BY <1>2, <2>1, AskingStays
<1>9. CASE NotifyNext
  <2> DEFINE w == Head(rpkiQ)
  <2>1. /\ rpkiQ # <<>> /\ w \in Updates
        /\ \A u \in Updates : Contains(rpkiQ, u) => u = w \/ Contains(Tail(rpkiQ), u)
    BY <1>9, Dequeued DEF NotifyNext, ResultsTypeOK
  <2>2. /\ Broadcast(w, entry[w].result) /\ entry' = entry /\ rpkiQ' = Tail(rpkiQ)
        /\ UNCHANGED <<recvQ, lookup, sendQ>>
    BY <1>9 DEF NotifyNext
  <2>3. PICK u \in Updates : u = w
    BY <2>1
  <2>4. PICK v \in Results : v = entry[u].result
    BY Parts
  <2> HIDE DEF w
  <2>5. Broadcast(u, v)
    BY <2>2, <2>3, <2>4
  <2>6. entry'[u].result = v
    BY <2>2, <2>4
  <2>7. \A x \in Updates : x # u => (Contains(rpkiQ, x) => Contains(rpkiQ', x))
    BY <2>1, <2>2, <2>3
  <2> QED
    BY <2>2, <2>5, <2>6, <2>7, BroadcastCorrects
<1>10. ASSUME NEW w \in Updates, ROAChange(w) PROVE Goal
  <2>1. \A u \in Updates : Contains(rpkiQ', u) <=> Contains(rpkiQ, u) \/ u = w
    BY <1>10, Queued DEF ROAChange, ResultsTypeOK
  <2>2. UNCHANGED <<sendQ, belief, raced>> /\ UNCHANGED requestVars
    BY <1>10 DEF ROAChange, requestVars
  <2>3. /\ \A u \in Updates : entry'[u].clients = entry[u].clients
        /\ \A u \in Updates : u # w => entry'[u].result = entry[u].result
    BY <1>10 DEF ROAChange, ResultsTypeOK, Entry
  <2>4. ASSUME NEW c \in Clients, NEW u \in Updates, <<c, u>> \notin raced',
               NEW d \in Results, AskedWith(c, u, d)'
        PROVE  GoesBy(c, u, d)'
    <3>1. GoesBy(c, u, d)
      BY <1>i, <2>2, <2>4, AskingStays
    <3> QED
      BY <2>1, <2>2, <2>3, <3>1 DEF GoesBy
  <2>5. ASSUME NEW c \in Clients, NEW u \in Updates, Wrong(c, u) PROVE Hears(c, u)
    BY <1>i, <2>1, <2>2, <2>3, <2>5, AskingStays
  <2> QED
    BY <1>0, <2>4, <2>5
<1>11. CASE Deliver
  <2> DEFINE m == Head(sendQ)
             a == m.client
             w == m.update
  <2>1. /\ a \in Clients /\ w \in Updates /\ m.value \in Results
        /\ belief' = [belief EXCEPT ![a][w] = m.value]
        /\ raced' = IF m.value # entry[w].result THEN raced \cup {<<a, w>>}
                    ELSE IF a \in entry[w].clients THEN raced \ {<<a, w>>}
                    ELSE IF Asking(a, w) THEN raced \cup {<<a, w>>}
                    ELSE raced
        /\ UNCHANGED <<entry, rpkiQ>> /\ UNCHANGED requestVars
    BY <1>11, Parts DEF Deliver, requestVars
  <2>2. ASSUME NEW c \in Clients, NEW u \in Updates
        PROVE  /\ <<c, u>> \notin raced' => Fresh(c, u)
               /\ Wrong(c, u) => Hears(c, u)
    <3>1. CASE c = a /\ u = w
      <4>1. belief'[c][u] = m.value
        BY <2>1, <3>1 DEF ResultsTypeOK
      <4>2. ASSUME <<c, u>> \notin raced', NEW d \in Results, AskedWith(c, u, d)'
            PROVE  GoesBy(c, u, d)'
        <5>1. Asking(c, u)
          BY <2>1, <4>2, AskingStays, AskedIsAsking
        <5>2. c \in entry[u].clients /\ m.value = entry[u].result
          BY <2>1, <3>1, <4>2, <5>1
        <5> QED
          BY <2>1, <4>1, <5>2 DEF GoesBy
      <4>3. Wrong(c, u) => <<c, u>> \in raced'
        BY <2>1, <3>1, <4>1
      <4> QED
        BY <4>2, <4>3
    <3>2. CASE ~(c = a /\ u = w)
      <4>1. belief'[c][u] = belief[c][u] /\ (<<c, u>> \in raced' <=> <<c, u>> \in raced)
        BY <2>1, <3>2 DEF ResultsTypeOK
      <4>2. Has(sendQ, c, u) => Has(sendQ', c, u)
        BY <1>11, <3>2, DeliverTakes
      <4>3. ASSUME <<c, u>> \notin raced', NEW d \in Results, AskedWith(c, u, d)'
            PROVE  GoesBy(c, u, d)'
        <5>1. GoesBy(c, u, d)
          BY <1>i, <2>1, <4>1, <4>3, AskingStays
        <5> QED
          BY <2>1, <4>1, <5>1 DEF GoesBy
      <4>4. Wrong(c, u) => Hears(c, u)
        BY <1>i, <2>1, <4>1, <4>2, AskingStays
      <4> QED
        BY <4>3, <4>4
    <3> QED
      BY <3>1, <3>2
  <2> QED
    BY <1>0, <2>2
<1> QED
  BY <1>1, <1>3, <1>4, <1>5, <1>6, <1>7, <1>8, <1>9, <1>10, <1>11
  DEF ResultsNext, Proxies, ReceiverThread, CommandThread, RPKIThread

-----------------------------------------------------------------------------
LEMMA ResultsInvHolds == ResultsSpec => []ResultsInv
<1>1. ResultsInit => ResultsInv
  <2> SUFFICES ASSUME ResultsInit PROVE ResultsInv
    OBVIOUS
  <2>1. ResultsTypeOK
    <3>1. rpkiQ \in Seq(Updates) /\ IsInjective(rpkiQ)
      BY DEF ResultsInit, IsInjective
    <3>2. recvQ \in Seq(PDU) /\ cmdQ \in Seq(PDU) /\ sendQ \in Seq(Message)
      BY DEF ResultsInit
    <3>3. entry \in [Updates -> Entry] /\ belief \in [Clients -> [Updates -> Results]]
      BY DEF ResultsInit, Entry, Results
    <3>4. requests \in 0 .. MaxRequests /\ changes \in 0 .. MaxChanges
      BY ResultsAssumption DEF ResultsInit
    <3> QED
      BY <3>1, <3>2, <3>3, <3>4 DEF ResultsInit, ResultsTypeOK
  <2>2. NewIsEmpty /\ CommandsStored
    BY DEF ResultsInit, NewIsEmpty, CommandsStored
  <2>3. RequestersListed /\ InformedUnlessRaced
    BY DEF ResultsInit, RequestersListed, InformedUnlessRaced
  <2>4. DefaultIsCurrent
    BY DEF ResultsInit, DefaultIsCurrent, AskedWith
  <2> QED
    BY <2>1, <2>2, <2>3, <2>4 DEF ResultsInv
<1>2. ResultsInv /\ [ResultsNext]_vars => ResultsInv'
  BY ResultsTypeNext, CommandsNext, ListedNext, InformedNext DEF ResultsInv
<1> QED
  BY <1>1, <1>2, PTL DEF ResultsSpec

\* Every variable has its type, and the RPKI queue lists an update only once,
\* however many proxies, updates and changes there are.
THEOREM ResultsTypeCorrect == ResultsSpec => []ResultsTypeOK
BY ResultsInvHolds, PTL DEF ResultsInv

\* A proxy whose request was handled is on the list of those to notify
\* (storeUpdate, getUpdateResult), whatever the other threads did meanwhile,
\* unless a delete request it sent earlier took it off again.
THEOREM ProxiesAreListed == ResultsSpec => []RequestersListed
BY ResultsInvHolds, PTL DEF ResultsInv

\* A listener that goes by an outdated result has a request, a reply or an End
\* of Data before it, or lost one of the four races InformedUnlessRaced names:
\* replies from the send queue, broadcasts past it and the test of the default
\* in processValidationRequest together leave nobody else behind.
THEOREM ListenersAreInformed == ResultsSpec => []InformedUnlessRaced
BY ResultsInvHolds, PTL DEF ResultsInv
=============================================================================
