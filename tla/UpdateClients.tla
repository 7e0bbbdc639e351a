---------------------------- MODULE UpdateClients ----------------------------
(***************************************************************************)
(* The array of client IDs in an entry of the update cache                 *)
(* (srx-server/src/server/update_cache.c): the clients that are notified   *)
(* when the validation result of the update changes.                       *)
(*                                                                         *)
(* One entry is modelled, after storeUpdate created it.  The array is a    *)
(* sequence whose length is noPossibleClients; 0 marks a free element.     *)
(* updateCount is what this entry contributes to the counter in the proxy  *)
(* map, which both callers of the removal decrement after it.              *)
(***************************************************************************)
EXTENDS Integers, FiniteSets, Sequences

CONSTANTS
    ClientIDs,      \* the clients that may register
    MinClients,     \* minNumberOfClients, the elements of a new entry
    SizeMod         \* values of the uint8_t noPossibleClients, 256 in the code

ASSUME ClientsAssumption ==
    /\ ClientIDs \subseteq Nat \ {0}
    /\ MinClients \in Nat \ {0}
    /\ SizeMod \in Nat \ {0}
    /\ MinClients < SizeMod

VARIABLES
    clients,        \* the array
    gcFlag,         \* whether the entry is marked for the garbage collector
    updateCount     \* per client, the references counted for this entry

ucVars == <<clients, gcFlag, updateCount>>

Listed(seq) == {seq[k] : k \in DOMAIN seq} \ {0}

\* The first element of the array that is free or already names the client.
Spots(c) == {k \in DOMAIN clients : clients[k] \in {0, c}}
FirstSpot(c) == CHOOSE k \in Spots(c) : \A j \in Spots(c) : k <= j

\* Mutant: the new elements are not cleared.
Extended_Dirty(c) ==
    [k \in 1 .. (Len(clients) + MinClients) % SizeMod |->
        IF k <= Len(clients) THEN clients[k]
        ELSE IF k = Len(clients) + 1 THEN c ELSE SizeMod - 1]

\* The array after realloc: zeros behind, the new client in the first of them,
\* and as many elements visible as the one-byte size says.
Extended(c) ==
    [k \in 1 .. (Len(clients) + MinClients) % SizeMod |->
        IF k <= Len(clients) THEN clients[k] ELSE IF k = Len(clients) + 1 THEN c ELSE 0]

addClientReference(c) ==
    IF Spots(c) # {}
    THEN /\ clients' = [clients EXCEPT ![FirstSpot(c)] = c]
         /\ gcFlag' = FALSE
         /\ updateCount' = [updateCount EXCEPT
               ![c] = IF clients[FirstSpot(c)] = 0 THEN @ + 1 ELSE @]
    ELSE /\ clients' = Extended(c)
         /\ UNCHANGED <<gcFlag, updateCount>>

\* Mutant: the element is cleared and nothing moved.
Without_Hole(c) == [k \in DOMAIN clients |-> IF clients[k] = c THEN 0 ELSE clients[k]]

\* _deleteUpdateFromCache_clientMgmt: the elements behind the client move one
\* place to the front, one by one.
Without(c) ==
    LET first == CHOOSE k \in DOMAIN clients :
                    clients[k] = c /\ \A j \in 1 .. k - 1 : clients[j] # c
    IN  [k \in DOMAIN clients |->
            IF k < first THEN clients[k]
            ELSE IF k + 1 \in DOMAIN clients /\ clients[k + 1] # c THEN clients[k + 1]
            ELSE 0]

\* Mutant: the entry is not handed to the garbage collector.
deleteUpdateFromCache_Kept(c) ==
    /\ c \in Listed(clients)
    /\ clients' = Without(c)
    /\ updateCount' = [updateCount EXCEPT ![c] = @ - 1]
    /\ UNCHANGED gcFlag

deleteUpdateFromCache(c) ==
    /\ c \in Listed(clients)
    /\ clients' = Without(c)
    /\ gcFlag' = (gcFlag \/ Listed(clients) \subseteq {c})
    /\ updateCount' = [updateCount EXCEPT ![c] = @ - 1]

\* The clients broadcastResult asks for: its array has minNumberOfClients
\* elements, and a larger entry makes the call fail.
getClientIDsOfUpdate ==
    IF Len(clients) <= MinClients THEN Listed(clients) ELSE {}

\* storeUpdate of a request that asks for no validation: no client yet.
ClientsInit ==
    /\ clients = [k \in 1 .. MinClients |-> 0]
    /\ gcFlag = TRUE
    /\ updateCount = [c \in ClientIDs |-> 0]

ClientsNext ==
    \E c \in ClientIDs : addClientReference(c) \/ deleteUpdateFromCache(c)

ClientsSpec == ClientsInit /\ [][ClientsNext]_ucVars

-----------------------------------------------------------------------------
(* Properties.                                                             *)

\* Every variable has its type.
ClientsTypeOK ==
    /\ clients \in Seq(ClientIDs \cup {0})
    /\ gcFlag \in BOOLEAN
    /\ updateCount \in [ClientIDs -> Int]

\* The array has no holes and names no client twice.  Registration takes the
\* first free element without looking further, so a hole would let a client in
\* a second time, and its removal would leave the other reference behind.
CompactAndUnique ==
    \A j, k \in DOMAIN clients : j < k =>
        /\ clients[j] = 0 => clients[k] = 0
        /\ clients[j] = clients[k] => clients[k] = 0

\* The array and its flag behave like a set of listeners and the fact that it
\* has become empty.
Set == INSTANCE ListenerSet WITH listeners <- Listed(clients), collectable <- gcFlag

ImplementsSet == Set!Spec

-----------------------------------------------------------------------------
(* What one would expect and does not hold; README.md, section 7, has the    *)
(* constants under which TLC shows it.                                       *)

\* A changed result can be sent to every registered client.
AllClientsReachable == Listed(clients) = getClientIDsOfUpdate
=============================================================================
