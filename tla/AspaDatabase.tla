---------------------------- MODULE AspaDatabase ----------------------------
(***************************************************************************)
(* The database of ASPA objects, server/aspa_trie.c, and the PDUs that     *)
(* change it, handleAspaPdu of server/rpki_handler.c.                      *)
(*                                                                         *)
(* The objects are kept in a trie by the decimal digits of the customer's  *)
(* AS number.  A node is named by the digits that lead to it; an AS number *)
(* whose digits begin those of another has its node above the other's.     *)
(* Numbers have at most five digits: the buffers they are printed to hold  *)
(* no more.                                                                *)
(***************************************************************************)
EXTENDS Naturals, FiniteSets, SequencesExt

CONSTANTS
    Customers,      \* AS numbers: sequences of digits
    ProvidersOf,    \* for each, the ASes its objects may list as providers
    Afis,           \* the address families of the objects that come
    MaxCount,       \* bound: of countAspaObj
    None

AFI_IP  == 1
AFI_IP6 == 2

\* An object lists at least one provider.
Attestations(c) == [providers : SUBSET ProvidersOf[c] \ {{}}, afi : Afis]

ASSUME DatabaseAssumption ==
    /\ \A c \in Customers : c \in Seq(0 .. 9) /\ Len(c) \in 1 .. 5
    /\ Afis \subseteq {AFI_IP, AFI_IP6}
    /\ MaxCount \in Nat
    /\ \A c \in Customers : None \notin Attestations(c)

VARIABLES
    nodes,          \* of the trie, without its root
    aspaObjects,    \* the object of each node that has one, by node
    countAspaObj,
    announced       \* history: what the cache announced and did not withdraw

dbVars == <<nodes, aspaObjects, countAspaObj, announced>>

Above(c) == {SubSeq(c, 1, i) : i \in 1 .. Len(c)}
Below(c) == {w \in nodes : IsPrefix(c, w)}

ObjectAt(w) == IF w \in DOMAIN aspaObjects THEN aspaObjects[w] ELSE None

-----------------------------------------------------------------------------
\* Bit 1 of the flags is the address family, tested as a number.
AfiOf(addrFamilyType) == IF addrFamilyType = 0 THEN AFI_IP
                         ELSE IF addrFamilyType = 1 THEN AFI_IP6 ELSE 0
Flag(afi) == IF afi = AFI_IP6 THEN 2 ELSE 0

\* Missing nodes are created, an object that is there is substituted.
insertAspaObj(c, obj) ==
    /\ nodes' = nodes \cup Above(c)
    /\ aspaObjects' = [w \in DOMAIN aspaObjects \cup {c} |->
                          IF w = c THEN obj ELSE aspaObjects[w]]
    /\ countAspaObj' = IF ObjectAt(c) = None THEN countAspaObj + 1 ELSE countAspaObj

\* The node of the object is freed with everything below it.
Free(c) ==
    /\ nodes' = nodes \ Below(c)
    /\ aspaObjects' = [w \in DOMAIN aspaObjects \ Below(c) |-> aspaObjects[w]]
    /\ countAspaObj' = countAspaObj - 1

\* Mutant: the object is not compared with the one that is withdrawn.
delete_TrieNode_AspaObj_Any(c, obj) ==
    IF ObjectAt(c) # None THEN Free(c) ELSE UNCHANGED <<nodes, aspaObjects, countAspaObj>>

delete_TrieNode_AspaObj(c, obj) ==
    IF ObjectAt(c) = obj THEN Free(c) ELSE UNCHANGED <<nodes, aspaObjects, countAspaObj>>

\* Whether provider is one of the AS that has the object.
Lookup(obj, provider, afi) ==
    IF obj = None THEN "unknown"
    ELSE IF provider \in obj.providers /\ obj.afi = afi THEN "valid" ELSE "invalid"

ASPA_DB_lookup(c, provider, afi) == Lookup(ObjectAt(c), provider, afi)

\* handleAspaPdu with announce = 1
AnnouncePdu(c, a) ==
    /\ countAspaObj < MaxCount
    /\ LET afi == AfiOf(Flag(a.afi)) IN
       IF afi = 0 THEN UNCHANGED <<nodes, aspaObjects, countAspaObj>>
       ELSE insertAspaObj(c, [a EXCEPT !.afi = afi])
    /\ announced' = [announced EXCEPT ![c] = a]

\* handleAspaPdu with announce = 0: the cache withdraws what it announced.
WithdrawPdu(c, a) ==
    /\ LET afi == AfiOf(Flag(a.afi)) IN
       IF afi = 0 THEN UNCHANGED <<nodes, aspaObjects, countAspaObj>>
       ELSE delete_TrieNode_AspaObj(c, [a EXCEPT !.afi = afi])
    /\ announced' = [announced EXCEPT ![c] = IF @ = a THEN None ELSE @]

DatabaseInit ==
    /\ nodes = {} /\ aspaObjects = [w \in {} |-> None]
    /\ countAspaObj = 0
    /\ announced = [c \in Customers |-> None]

DatabaseNext == \E c \in Customers : \E a \in Attestations(c) :
    AnnouncePdu(c, a) \/ WithdrawPdu(c, a)

DatabaseSpec == DatabaseInit /\ [][DatabaseNext]_dbVars

-----------------------------------------------------------------------------
(* Properties.                                                             *)

\* The trie keeps the nodes above each object and nothing but objects below
\* its root: no object without the path insertAspaObj made for it.
DatabaseTypeOK ==
    /\ nodes \subseteq UNION {Above(c) : c \in Customers}
    /\ \A w \in nodes : Above(w) \subseteq nodes
    /\ DOMAIN aspaObjects \subseteq nodes \cap Customers
    /\ \A w \in DOMAIN aspaObjects : aspaObjects[w] \in Attestations(w)
    /\ countAspaObj \in 0 .. MaxCount

\* No other customer has its node above the one of c.
Alone(c) == \A d \in Customers : IsPrefix(d, c) => d = c

\* Where all customers are apart, the counter is the number of objects in the
\* trie, substitutions and refused withdrawals included.
CountIsExact == countAspaObj = Cardinality(DOMAIN aspaObjects)

\* The trie holds for each customer the object announced last, if it was not
\* withdrawn, and nothing else: no announcement is taken for one of another
\* AS, and a withdrawal with other providers has no effect.  An object below
\* another customer's is lost when that is withdrawn.
ObjectsExact ==
    /\ DOMAIN aspaObjects \subseteq Customers
    /\ \A c \in Customers :
          ObjectAt(c) = announced[c] \/ (ObjectAt(c) = None /\ ~Alone(c))

-----------------------------------------------------------------------------
(* What one would expect and does not hold; README.md, section 7, has the    *)
(* constants under which TLC shows it.                                       *)

\* What the cache announced is stored until it is withdrawn.
AnnouncedIsStored == \A c \in Customers : announced[c] # None => ObjectAt(c) # None
=============================================================================
