--------------------------- MODULE AspaPathsProofs ---------------------------
(***************************************************************************)
(* The trie of AspaDatabase.tla holds what is announced for every customer *)
(* that no other's digits begin, for objects for IPv4, and the paths of    *)
(* AspaPaths.tla get the verdict that follows from what is announced.  Its *)
(* shape is proved for objects of both address families.                   *)
(***************************************************************************)
EXTENDS AspaPaths, WellFoundedInduction, FiniteSetTheorems, TLAPS

-----------------------------------------------------------------------------
(***************************************************************************)
(* The loops of validateASPA decide whether a path is valley-free, for     *)
(* paths of any length.  The loops for K_val, L_val and u_val end at a     *)
(* first hop of some kind, which exists because the natural numbers are    *)
(* well-founded; what they leave is arithmetic.                            *)
(***************************************************************************)

(* The loops end.                                                          *)

\* A set of natural numbers that is not empty has a least element.
LEMMA HasLeast ==
    ASSUME NEW S \in SUBSET Nat, S # {}
    PROVE  \E x \in S : \A y \in S : x <= y
<1>1. \E x \in S : \A y \in S : ~(<<y, x>> \in OpToRel(<, Nat))
  BY NatLessThanWellFounded, WFMin
<1>2. \E x \in S : \A y \in S : ~(y < x)
  BY <1>1, Zenon DEF OpToRel
<1> QED
  BY <1>2

\* The first loop finds K_val.
LEMMA KExists ==
    ASSUME NEW n \in Nat, n >= 2, NEW u
    PROVE  \E k \in 1 .. n - 1 : IsK(k, n, u)
<1> DEFINE S == {i \in 1 .. n - 1 : i = n - 1 \/ u[i] # "valid"}
<1>1. n - 1 \in S /\ S \in SUBSET Nat
  OBVIOUS
<1>2. PICK k \in S : \A y \in S : k <= y
  BY <1>1, HasLeast
<1>3. \A i \in 1 .. k - 1 : u[i] = "valid"
  BY <1>2
<1> QED
  BY <1>2, <1>3 DEF IsK

\* The second one L_val, counting from the end.
LEMMA LExists ==
    ASSUME NEW n \in Nat, NEW k \in 1 .. n - 1, NEW d
    PROVE  \E l \in k + 1 .. n : IsL(l, k, n, d)
<1> DEFINE S == {j \in 0 .. n - k - 1 : j = n - k - 1 \/ d[n - j - 1] # "valid"}
<1>1. n - k - 1 \in S /\ S \in SUBSET Nat
  OBVIOUS
<1>2. PICK m \in S : \A y \in S : m <= y
  BY <1>1, HasLeast
<1>3. ASSUME NEW i \in (n - m) .. n - 1 PROVE d[i] = "valid"
  <2>1. PICK j \in 0 .. n - k - 1 : j < m /\ n - j - 1 = i
    BY <1>2
  <2>2. j \in Nat /\ m \in Nat /\ ~(m <= j)
    BY <2>1, <1>2
  <2>3. j \notin S
    BY <2>2, <1>2, Zenon
  <2>4. d[n - j - 1] = "valid"
    BY <2>1, <2>3
  <2> QED
    BY <2>1, <2>4
<1>4. n - m \in k + 1 .. n /\ (n - m = k + 1 \/ d[(n - m) - 1] # "valid")
  BY <1>2
<1> QED
  BY <1>3, <1>4 DEF IsL

\* The third one u_val, if there is such a hop.
LEMMA UExists ==
    ASSUME NEW n \in Nat, NEW k \in 1 .. n - 1, NEW l \in k + 1 .. n, NEW u
    PROVE  \E v \in 0 .. n : IsU(v, k, l, u)
<1> DEFINE S == {i \in k .. l - 2 : u[i] = "invalid"}
<1>1. CASE S = {}
  BY <1>1 DEF IsU
<1>2. CASE S # {}
  <2>1. S \in SUBSET Nat
    OBVIOUS
  <2>2. PICK v \in S : \A y \in S : v <= y
    BY <1>2, <2>1, HasLeast
  <2> QED
    BY <2>2 DEF IsU
<1> QED
  BY <1>1, <1>2

-----------------------------------------------------------------------------
(* What the loops leave.                                                   *)

\* The results of the hops of a path of n ASes.
HopsOf(n, t) == \A i \in 1 .. n - 1 : t[i] \in HopResults

\* A path is not valley-free if and only if a hop up that is not to a provider
\* comes before one down that is not from a provider.
LEMMA ValleyIs ==
    ASSUME NEW n \in Nat \ {0}, NEW u, NEW d, NEW bad
    PROVE  ~ValleyFree(n, u, d, bad) <=>
               \E i, j \in 1 .. n - 1 : i < j /\ u[i] \in bad /\ d[j] \in bad
<1>1. ASSUME NEW i \in 1 .. n - 1, NEW j \in 1 .. n - 1, i < j, u[i] \in bad, d[j] \in bad,
             ValleyFree(n, u, d, bad)
      PROVE  FALSE
  <2>1. PICK k \in 1 .. n : \E l \in {k, k + 1} :
            /\ l <= n
            /\ \A x \in 1 .. k - 1 : u[x] \notin bad
            /\ \A x \in l .. n - 1 : d[x] \notin bad
    BY <1>1 DEF ValleyFree
  <2>2. k <= i
    BY <1>1, <2>1
  <2>3. j < k + 1
    BY <1>1, <2>1
  <2> QED
    BY <1>1, <2>2, <2>3
<1>2. ASSUME \A i, j \in 1 .. n - 1 : i < j => u[i] \notin bad \/ d[j] \notin bad
      PROVE  ValleyFree(n, u, d, bad)
  <2> DEFINE S == {i \in 1 .. n - 1 : u[i] \in bad}
  <2>1. CASE S = {}
    BY <2>1 DEF ValleyFree
  <2>2. CASE S # {}
    <3>0. S \in SUBSET Nat
      OBVIOUS
    <3>1. PICK k \in S : \A y \in S : k <= y
      BY <2>2, <3>0, HasLeast
    <3>2. \A x \in 1 .. k - 1 : u[x] \notin bad
      BY <3>1
    <3>3. \A x \in k + 1 .. n - 1 : d[x] \notin bad
      BY <3>1, <1>2
    <3> QED
      BY <3>1, <3>2, <3>3 DEF ValleyFree
  <2> QED
    BY <2>1, <2>2
<1> QED
  BY <1>1, <1>2

\* Where the loops for K_val and L_val end, the result is that of the path.
LEMMA DownstreamIs ==
    ASSUME NEW n \in Nat, n >= 2, NEW u, NEW d, NEW type, HopsOf(n, u), HopsOf(n, d),
           NEW k \in 1 .. n - 1, IsK(k, n, u),
           NEW l \in k + 1 .. n, IsL(l, k, n, d),
           NEW v \in 0 .. n, IsU(v, k, l, u)
    PROVE  DownstreamFrom(k, l, v, n, type, d) = Meaning(n, type, "down", u, d)
<1> DEFINE Known(bad) == \E i, j \in 1 .. n - 1 : i < j /\ u[i] \in bad /\ d[j] \in bad
<1>1. ValleyFree(n, u, d, {"invalid"}) <=> ~Known({"invalid"})
  BY ValleyIs
<1>2. ValleyFree(n, u, d, {"invalid", "unknown"}) <=> ~Known({"invalid", "unknown"})
  BY ValleyIs
<1>3. Meaning(n, type, "down", u, d) =
          IF Known({"invalid"}) THEN "invalid"
          ELSE IF type # "sequence" THEN "unverifiable"
          ELSE IF ~Known({"invalid", "unknown"}) THEN "valid" ELSE "unknown"
  BY <1>1, <1>2 DEF Meaning
<1>4. \A i \in 1 .. n - 1 : u[i] # "valid" => k <= i
  BY DEF IsK
<1>5. \A j \in 1 .. n - 1 : d[j] # "valid" => j <= l - 1
  BY DEF IsL
<1>6. CASE k = n - 1 \/ l - k <= 1
  <2>1. ~Known({"invalid", "unknown"})
    BY <1>4, <1>5, <1>6
  <2>2. ~Known({"invalid"})
    BY <2>1
  <2> QED
    BY <2>1, <2>2, <1>3, <1>6 DEF DownstreamFrom, Final
<1>7. CASE ~(k = n - 1 \/ l - k <= 1)
  <2>1. Known({"invalid", "unknown"})
    <3>1. u[k] \in {"invalid", "unknown"} /\ d[l - 1] \in {"invalid", "unknown"}
      BY <1>7 DEF IsK, IsL, HopsOf, HopResults
    <3>2. k < l - 1 /\ l - 1 \in 1 .. n - 1
      BY <1>7
    <3> QED
      BY <3>1, <3>2
  <2>2. Known({"invalid"}) <=> v # 0 /\ \E j \in v + 1 .. l - 1 : d[j] = "invalid"
    <3>1. ASSUME v # 0, NEW j \in v + 1 .. l - 1, d[j] = "invalid" PROVE Known({"invalid"})
      <4>1. v \in k .. l - 2 /\ u[v] = "invalid"
        BY <3>1 DEF IsU
      <4>2. v \in 1 .. n - 1 /\ j \in 1 .. n - 1 /\ v < j
        BY <4>1
      <4> QED
        BY <3>1, <4>1, <4>2
    <3>2. ASSUME NEW i \in 1 .. n - 1, NEW j \in 1 .. n - 1, i < j, u[i] = "invalid",
                 d[j] = "invalid"
          PROVE  v # 0 /\ j \in v + 1 .. l - 1
      <4>1. k <= i /\ j <= l - 1
        BY <3>2, <1>4, <1>5
      <4>2. i \in k .. l - 2
        BY <3>2, <4>1
      <4>3. v \in k .. l - 2 /\ \A x \in k .. v - 1 : u[x] # "invalid"
        BY <3>2, <4>2 DEF IsU
      <4>4. v <= i
        BY <3>2, <4>2, <4>3
      <4> QED
        BY <3>2, <4>1, <4>3, <4>4
    <3> QED
      BY <3>1, <3>2
  <2> QED
    BY <2>1, <2>2, <1>3, <1>7 DEF DownstreamFrom, Final
<1> QED
  BY <1>6, <1>7

\* The verdict of validateASPA, whichever way a path was learned and however long
\* it is, is the one it deserves: invalid if no valley-free reading is left,
\* valid if the lookups prove one.
THEOREM ValidationIs ==
    ASSUME NEW n \in Nat \ {0}, NEW type, NEW dir \in {"up", "down"}, NEW u, NEW d,
           HopsOf(n, u), HopsOf(n, d)
    PROVE  validateASPA(n, type, dir, u, d) = Meaning(n, type, dir, u, d)
<1>1. CASE dir = "up"
  BY <1>1 DEF validateASPA, Meaning, Upstream, Final, HopsOf, HopResults
<1>2. CASE dir = "down" /\ n = 1
  <2>1. ValleyFree(n, u, d, {"invalid"}) /\ ValleyFree(n, u, d, {"invalid", "unknown"})
    BY <1>2, ValleyIs
  <2> QED
    BY <1>2, <2>1 DEF validateASPA, Meaning, Downstream, Final
<1>3. CASE dir = "down" /\ n # 1
  <2> DEFINE k == CHOOSE i \in 1 .. n - 1 : IsK(i, n, u)
             l == CHOOSE i \in k + 1 .. n : IsL(i, k, n, d)
             v == CHOOSE i \in 0 .. n : IsU(i, k, l, u)
  <2>0. n \in Nat /\ n >= 2
    BY <1>3
  <2>1. k \in 1 .. n - 1 /\ IsK(k, n, u)
    BY <2>0, KExists
  <2> HIDE DEF k
  <2>2. l \in k + 1 .. n /\ IsL(l, k, n, d)
    BY <2>0, <2>1, LExists
  <2> HIDE DEF l
  <2>3. v \in 0 .. n /\ IsU(v, k, l, u)
    BY <2>0, <2>1, <2>2, UExists
  <2> HIDE DEF v
  <2>4. DownstreamFrom(k, l, v, n, type, d) = Meaning(n, type, "down", u, d)
    BY <2>0, <2>1, <2>2, <2>3, DownstreamIs
  <2>5. validateASPA(n, type, dir, u, d) = DownstreamFrom(k, l, v, n, type, d)
    BY <1>3 DEF validateASPA, Downstream, k, l, v
  <2> QED
    BY <1>3, <2>4, <2>5
<1> QED
  BY <1>1, <1>2, <1>3

-----------------------------------------------------------------------------
(* The trie.                                                               *)

\* No customer's node is above another's.
Apart == \A c \in Customers : Alone(c)

\* The objects hang in the trie at nodes of customers, and are counted as long
\* as none is lost with another.
DbInv ==
    /\ DOMAIN aspaObjects \subseteq nodes \cap Customers
    /\ \A w \in DOMAIN aspaObjects : aspaObjects[w] \in Attestations(w)
    /\ IsFiniteSet(DOMAIN aspaObjects)
    /\ Apart => countAspaObj = Cardinality(DOMAIN aspaObjects)
    /\ announced = [c \in Customers |-> announced[c]]
    /\ \A c \in Customers :
          ObjectAt(c) = announced[c] \/ (ObjectAt(c) = None /\ ~Alone(c))

-----------------------------------------------------------------------------
(* Lemmas about the trie.                                                  *)

\* A node has an object or none.
LEMMA Present ==
    ASSUME DbInv, NEW c \in Customers
    PROVE  /\ ObjectAt(c) = None <=> c \notin DOMAIN aspaObjects
           /\ c \in DOMAIN aspaObjects => ObjectAt(c) = aspaObjects[c]
BY DatabaseAssumption DEF DbInv, ObjectAt

\* An insertion makes the node of its customer.
LEMMA AboveItself == ASSUME NEW c \in Customers PROVE c \in Above(c)
<1>1. PICK n \in 1 .. 5 : n = Len(c)
  BY DatabaseAssumption
<1>2. SubSeq(c, 1, n) = c
  BY <1>1, DatabaseAssumption
<1>3. n \in 1 .. n
  OBVIOUS
<1> QED
  BY <1>1, <1>2, <1>3 DEF Above

\* The object is freed, and no other one whose customer is alone.
LEMMA FreesOne ==
    ASSUME NEW c \in Customers, DbInv, c \in DOMAIN aspaObjects
    PROVE  /\ c \in Below(c)
           /\ \A d \in Customers : d \in Below(c) /\ d # c => ~Alone(d)
           /\ Apart => DOMAIN aspaObjects \ Below(c) = DOMAIN aspaObjects \ {c}
<1>1. c \in Below(c)
  <2>1. IsPrefix(c, c)
    BY DatabaseAssumption DEF IsPrefix
  <2> QED
    BY <2>1 DEF Below, DbInv
<1>2. \A d \in Customers : d \in Below(c) /\ d # c => ~Alone(d)
  BY DEF Alone, Below
<1>3. ASSUME Apart PROVE DOMAIN aspaObjects \ Below(c) = DOMAIN aspaObjects \ {c}
  BY <1>1, <1>2, <1>3 DEF Apart, DbInv
<1> QED
  BY <1>1, <1>2, <1>3

\* What handleAspaPdu makes of an announcement for IPv4.
LEMMA Announces ==
    ASSUME Afis = {AFI_IP}, NEW c \in Customers, NEW a \in Attestations(c),
           AnnouncePdu(c, a)
    PROVE  insertAspaObj(c, a) /\ announced' = [announced EXCEPT ![c] = a]
<1>1. a.afi = AFI_IP /\ [a EXCEPT !.afi = AFI_IP] = a
  BY DEF Attestations
<1>2. AfiOf(Flag(a.afi)) = AFI_IP /\ AFI_IP # 0
  BY <1>1 DEF AfiOf, Flag, AFI_IP, AFI_IP6
<1> QED
  BY <1>1, <1>2 DEF AnnouncePdu

\* And of a withdrawal.
LEMMA Withdraws ==
    ASSUME Afis = {AFI_IP}, NEW c \in Customers, NEW a \in Attestations(c),
           WithdrawPdu(c, a)
    PROVE  /\ delete_TrieNode_AspaObj(c, a)
           /\ announced' = [announced EXCEPT ![c] = IF @ = a THEN None ELSE @]
<1>1. a.afi = AFI_IP /\ [a EXCEPT !.afi = AFI_IP] = a
  BY DEF Attestations
<1>2. AfiOf(Flag(a.afi)) = AFI_IP /\ AFI_IP # 0
  BY <1>1 DEF AfiOf, Flag, AFI_IP, AFI_IP6
<1> QED
  BY <1>1, <1>2 DEF WithdrawPdu

-----------------------------------------------------------------------------
(* The invariant.                                                          *)

LEMMA InsertKeeps ==
    ASSUME DbInv, NEW c \in Customers, NEW a \in Attestations(c), insertAspaObj(c, a),
           announced' = [announced EXCEPT ![c] = a]
    PROVE  DbInv'
<1>1. DOMAIN aspaObjects' = DOMAIN aspaObjects \cup {c}
  BY DEF insertAspaObj
<1>2. DOMAIN aspaObjects' \subseteq nodes' \cap Customers
  BY <1>1, AboveItself DEF insertAspaObj, DbInv
<1>3. \A w \in DOMAIN aspaObjects' : aspaObjects'[w] \in Attestations(w)
  BY DEF insertAspaObj, DbInv
<1>4. /\ IsFiniteSet(DOMAIN aspaObjects')
      /\ Cardinality(DOMAIN aspaObjects') =
            IF c \in DOMAIN aspaObjects THEN Cardinality(DOMAIN aspaObjects)
            ELSE Cardinality(DOMAIN aspaObjects) + 1
  BY <1>1, FS_AddElement DEF DbInv
<1>5. Apart => countAspaObj' = Cardinality(DOMAIN aspaObjects')
  BY <1>4, Present DEF insertAspaObj, DbInv
<1>6. \A d : ObjectAt(d)' = IF d = c THEN a ELSE ObjectAt(d)
  BY DEF insertAspaObj, ObjectAt
<1>7. \A d \in Customers : ObjectAt(d)' = announced'[d] \/ (ObjectAt(d)' = None /\ ~Alone(d))
  BY <1>6 DEF DbInv
<1>8. announced' = [d \in Customers |-> announced'[d]]
  BY DEF DbInv
<1> QED
  BY <1>2, <1>3, <1>4, <1>5, <1>7, <1>8 DEF DbInv, Apart, Alone

LEMMA DeleteKeeps ==
    ASSUME DbInv, NEW c \in Customers, NEW a \in Attestations(c),
           delete_TrieNode_AspaObj(c, a),
           announced' = [announced EXCEPT ![c] = IF @ = a THEN None ELSE @]
    PROVE  DbInv'
<1>0. announced' = [d \in Customers |-> announced'[d]] /\ a # None
  BY DatabaseAssumption DEF DbInv
<1>1. CASE ObjectAt(c) # a
  <2>1. UNCHANGED <<nodes, aspaObjects, countAspaObj>> /\ \A d : ObjectAt(d)' = ObjectAt(d)
    BY <1>1 DEF delete_TrieNode_AspaObj, ObjectAt
  <2>2. \A d \in Customers :
          ObjectAt(d)' = announced'[d] \/ (ObjectAt(d)' = None /\ ~Alone(d))
    BY <1>1, <2>1 DEF DbInv
  <2> QED
    BY <1>0, <2>1, <2>2 DEF DbInv, Apart, Alone
<1>2. CASE ObjectAt(c) = a
  <2>1. Free(c) /\ c \in DOMAIN aspaObjects
    BY <1>0, <1>2, Present DEF delete_TrieNode_AspaObj
  <2>2. /\ DOMAIN aspaObjects' = DOMAIN aspaObjects \ Below(c)
        /\ \A d \in DOMAIN aspaObjects' : aspaObjects'[d] = aspaObjects[d]
    BY <2>1 DEF Free
  <2>3. DOMAIN aspaObjects' \subseteq nodes' \cap Customers
    BY <2>1 DEF Free, DbInv
  <2>4. \A w \in DOMAIN aspaObjects' : aspaObjects'[w] \in Attestations(w)
    BY <2>2 DEF DbInv
  <2>5. IsFiniteSet(DOMAIN aspaObjects')
    BY <2>2, FS_Difference DEF DbInv
  <2>6. ASSUME Apart PROVE countAspaObj' = Cardinality(DOMAIN aspaObjects')
    <3>1. DOMAIN aspaObjects' = DOMAIN aspaObjects \ {c}
      BY <2>1, <2>2, <2>6, FreesOne
    <3> QED
      BY <2>1, <2>6, <3>1, FS_RemoveElement DEF Free, DbInv
  <2>7. ASSUME NEW d \in Customers
        PROVE  ObjectAt(d)' = announced'[d] \/ (ObjectAt(d)' = None /\ ~Alone(d))
    <3>1. ObjectAt(d)' = IF d \in Below(c) THEN None ELSE ObjectAt(d)
      BY <2>2 DEF ObjectAt
    <3>2. CASE d = c
      <4>1. announced[c] = a
        BY <1>0, <1>2 DEF DbInv
      <4> QED
        BY <2>1, <3>1, <3>2, <4>1, FreesOne DEF DbInv
    <3>3. CASE d # c
      <4>1. announced'[d] = announced[d]
        BY <3>3 DEF DbInv
      <4> QED
        BY <2>1, <3>1, <3>3, <4>1, FreesOne DEF DbInv
    <3> QED
      BY <3>2, <3>3
  <2> QED
    BY <1>0, <2>3, <2>4, <2>5, <2>6, <2>7 DEF DbInv, Apart, Alone
<1> QED
  BY <1>1, <1>2

LEMMA DbInvHolds ==
    ASSUME Afis = {AFI_IP}
    PROVE  DatabaseSpec => []DbInv
<1>1. DatabaseInit => DbInv
  <2> SUFFICES ASSUME DatabaseInit PROVE DbInv
    OBVIOUS
  <2>1. DOMAIN aspaObjects = {}
    BY DEF DatabaseInit
  <2>2. \A c \in Customers : ObjectAt(c) = None /\ announced[c] = None
    BY <2>1 DEF DatabaseInit, ObjectAt
  <2> QED
    BY <2>1, <2>2, FS_EmptySet DEF DatabaseInit, DbInv
<1>2. DbInv /\ [DatabaseNext]_dbVars => DbInv'
  <2> SUFFICES ASSUME DbInv, [DatabaseNext]_dbVars PROVE DbInv'
    OBVIOUS
  <2>1. CASE UNCHANGED dbVars
    BY <2>1 DEF dbVars, DbInv, ObjectAt, Apart, Alone
  <2>2. ASSUME NEW c \in Customers, NEW a \in Attestations(c), AnnouncePdu(c, a)
        PROVE  DbInv'
    BY <2>2, Announces, InsertKeeps
  <2>3. ASSUME NEW c \in Customers, NEW a \in Attestations(c), WithdrawPdu(c, a)
        PROVE  DbInv'
    BY <2>3, Withdraws, DeleteKeeps
  <2> QED
    BY <2>1, <2>2, <2>3 DEF DatabaseNext
<1> QED
  BY <1>1, <1>2, PTL DEF DatabaseSpec

-----------------------------------------------------------------------------
(* The theorems.                                                           *)

\* The trie that insertAspaObj and delete_TrieNode_AspaObj keep by digits
\* holds for each customer the object announced last and not withdrawn, unless
\* it was lost with the object of a customer above.
THEOREM TrieIsExact ==
    ASSUME Afis = {AFI_IP}
    PROVE  DatabaseSpec => []ObjectsExact
<1>1. DbInv => ObjectsExact
  BY DEF DbInv, ObjectsExact
<1> QED
  BY <1>1, DbInvHolds, PTL

\* countAspaObj, which insertAspaObj and delete_TrieNode_AspaObj keep by
\* increments and decrements, is the number of objects in the trie.
THEOREM ObjectsCounted ==
    ASSUME Apart, Afis = {AFI_IP}
    PROVE  DatabaseSpec => []CountIsExact
<1>1. DbInv => CountIsExact
  BY DEF DbInv, CountIsExact
<1> QED
  BY <1>1, DbInvHolds, PTL

\* The loops of validateASPA over the trie come to the verdict that follows from
\* what is announced: for any customers and objects and for paths of any length,
\* as long as no AS of the path can lose its object with another.
THEOREM PathsAreJudged ==
    ASSUME Afis = {AFI_IP}
    PROVE  DatabaseSpec => []VerdictIsMeaning
<1>1. DbInv => VerdictIsMeaning
  <2> SUFFICES ASSUME DbInv, NEW p \in Paths, NEW type \in {"sequence", "set"},
                      NEW dir \in {"up", "down"}, NEW afi \in {AFI_IP, AFI_IP6},
                      \A i \in 1 .. Len(p) : Alone(p[i])
               PROVE  Verdict(p, type, dir, afi) =
                        Meaning(Len(p), type, dir, ToProvider(p, afi), FromProvider(p, afi))
    BY DEF VerdictIsMeaning
  <2>1. p \in Seq(Customers) /\ Len(p) \in Nat \ {0}
    BY PathsAssumption
  <2>2. \A i \in 1 .. Len(p) : p[i] \in Customers
    BY <2>1
  <2>3. \A i \in 1 .. Len(p) : ObjectAt(p[i]) = announced[p[i]]
    BY <2>2 DEF DbInv
  <2>4. \A i \in 1 .. Len(p) - 1 : i \in 1 .. Len(p) /\ i + 1 \in 1 .. Len(p)
    BY <2>1
  <2>5. StoredUp(p, afi) = ToProvider(p, afi) /\ StoredDown(p, afi) = FromProvider(p, afi)
    BY <2>3, <2>4 DEF StoredUp, ToProvider, StoredDown, FromProvider, ASPA_DB_lookup
  <2>6. HopsOf(Len(p), StoredUp(p, afi)) /\ HopsOf(Len(p), StoredDown(p, afi))
    BY DEF HopsOf, StoredUp, StoredDown, ASPA_DB_lookup, Lookup, HopResults
  <2> QED
    BY <2>1, <2>5, <2>6, ValidationIs DEF Verdict
<1> QED
  BY <1>1, DbInvHolds, PTL

-----------------------------------------------------------------------------
(* The types of the trie, also when objects for IPv6 come.                 *)

\* The trie contains what is above its nodes.  The count may be too large, since
\* objects are lost with others, but never too small.
TrieInv ==
    /\ DatabaseTypeOK
    /\ IsFiniteSet(DOMAIN aspaObjects)
    /\ Cardinality(DOMAIN aspaObjects) <= countAspaObj

Nodes == UNION {Above(c) : c \in Customers}

\* The digits above a customer's, one after the other.
LEMMA AboveIs ==
    ASSUME NEW c \in Seq(0 .. 9), NEW w
    PROVE  w \in Above(c) <=> \E i \in 1 .. Len(c) : w = SubSeq(c, 1, i)
BY DEF Above

\* A beginning of a beginning is a beginning.
LEMMA PartOf ==
    ASSUME NEW c \in Seq(0 .. 9), NEW i \in 1 .. Len(c)
    PROVE  /\ SubSeq(c, 1, i) \in Seq(0 .. 9) /\ Len(SubSeq(c, 1, i)) = i
           /\ \A j \in 1 .. i : SubSeq(SubSeq(c, 1, i), 1, j) = SubSeq(c, 1, j)
<1>1. /\ i \in Nat /\ Len(c) \in Nat /\ 1 \in 1 .. Len(c) + 1 /\ i \in 0 .. Len(c)
  OBVIOUS
<1>2. SubSeq(c, 1, i) \in Seq(0 .. 9) /\ Len(SubSeq(c, 1, i)) = i
  BY <1>1
<1>3. ASSUME NEW j \in 1 .. i
      PROVE  SubSeq(SubSeq(c, 1, i), 1, j) = SubSeq(c, 1, j)
  BY <1>1, <1>2
<1> QED
  BY <1>2, <1>3

\* The nodes above a customer's are closed under going up.
LEMMA AboveIsClosed ==
    ASSUME NEW c \in Customers
    PROVE  \A w \in Above(c) : Above(w) \subseteq Above(c)
<1> SUFFICES ASSUME NEW w \in Above(c), NEW v \in Above(w) PROVE v \in Above(c)
  OBVIOUS
<1>1. c \in Seq(0 .. 9)
  BY DatabaseAssumption
<1>2. PICK i \in 1 .. Len(c) : w = SubSeq(c, 1, i)
  BY <1>1, AboveIs
<1>3. w \in Seq(0 .. 9) /\ Len(w) = i
  BY <1>1, <1>2, PartOf
<1>4. PICK j \in 1 .. i : v = SubSeq(w, 1, j)
  BY <1>3, AboveIs
<1>5. v = SubSeq(c, 1, j) /\ j \in 1 .. Len(c)
  BY <1>1, <1>2, <1>4, PartOf
<1> QED
  BY <1>1, <1>5, AboveIs

\* A node is named by digits.
LEMMA NodesAreDigits ==
    ASSUME NEW w \in Nodes
    PROVE  w \in Seq(0 .. 9)
<1>1. PICK c \in Customers : w \in Above(c)
  BY DEF Nodes
<1>2. c \in Seq(0 .. 9)
  BY DatabaseAssumption
<1>3. PICK i \in 1 .. Len(c) : w = SubSeq(c, 1, i)
  BY <1>1, <1>2, AboveIs
<1> QED
  BY <1>2, <1>3, PartOf

\* What begins the digits of a node above w begins those of w.
LEMMA BelowGoesDown ==
    ASSUME NEW c \in Customers, NEW w \in Nodes, NEW v \in Above(w), IsPrefix(c, v)
    PROVE  IsPrefix(c, w)
<1>1. c \in Seq(0 .. 9) /\ Len(c) \in 1 .. 5 /\ w \in Seq(0 .. 9) /\ Len(w) \in Nat
  BY DatabaseAssumption, NodesAreDigits
<1>2. PICK j \in 1 .. Len(w) : v = SubSeq(w, 1, j)
  BY <1>1, AboveIs
<1>3. Len(v) = j /\ Len(c) <= j
  BY <1>1, <1>2, PartOf DEF IsPrefix
<1>4. Len(c) \in 1 .. j
  <2>1. j \in Nat
    BY <1>1
  <2>2. ASSUME NEW n \in 1 .. 5, n <= j PROVE n \in 1 .. j
    BY <2>1, <2>2
  <2> QED
    BY <1>1, <1>3, <2>2
<1>5. SubSeq(v, 1, Len(c)) = SubSeq(w, 1, Len(c))
  BY <1>1, <1>2, <1>4, PartOf
<1> QED
  BY <1>1, <1>2, <1>3, <1>5 DEF IsPrefix

\* An object that is accepted is stored as it came.
LEMMA StoredAsItCame ==
    ASSUME NEW c \in Customers, NEW a \in Attestations(c), AfiOf(Flag(a.afi)) # 0
    PROVE  [a EXCEPT !.afi = AfiOf(Flag(a.afi))] = a
<1>1. a.afi \in {AFI_IP, AFI_IP6}
  BY DatabaseAssumption DEF Attestations
<1>2. AfiOf(Flag(a.afi)) = a.afi
  BY <1>1 DEF AfiOf, Flag, AFI_IP, AFI_IP6
<1> QED
  BY <1>2 DEF Attestations

\* insertAspaObj makes the missing nodes, and counts an object that is new.
LEMMA InsertKeepsTypes ==
    ASSUME TrieInv, NEW c \in Customers, NEW a \in Attestations(c), insertAspaObj(c, a),
           countAspaObj < MaxCount
    PROVE  TrieInv'
<1>1. DOMAIN aspaObjects' = DOMAIN aspaObjects \cup {c}
  BY DEF insertAspaObj
<1>2. nodes' \subseteq Nodes
  BY DEF insertAspaObj, TrieInv, DatabaseTypeOK, Nodes
<1>3. \A w \in nodes' : Above(w) \subseteq nodes'
  BY AboveIsClosed DEF insertAspaObj, TrieInv, DatabaseTypeOK
<1>4. DOMAIN aspaObjects' \subseteq nodes' \cap Customers
  BY <1>1, AboveItself DEF insertAspaObj, TrieInv, DatabaseTypeOK
<1>5. \A w \in DOMAIN aspaObjects' : aspaObjects'[w] \in Attestations(w)
  BY DEF insertAspaObj, TrieInv, DatabaseTypeOK
<1>6. /\ IsFiniteSet(DOMAIN aspaObjects') /\ Cardinality(DOMAIN aspaObjects) \in Nat
      /\ Cardinality(DOMAIN aspaObjects') =
            IF c \in DOMAIN aspaObjects THEN Cardinality(DOMAIN aspaObjects)
            ELSE Cardinality(DOMAIN aspaObjects) + 1
  BY <1>1, FS_AddElement, FS_CardinalityType DEF TrieInv
<1>7. ObjectAt(c) = None <=> c \notin DOMAIN aspaObjects
  BY DatabaseAssumption DEF ObjectAt, TrieInv, DatabaseTypeOK
<1>8. countAspaObj' \in 0 .. MaxCount /\ Cardinality(DOMAIN aspaObjects') <= countAspaObj'
  BY <1>6, <1>7, DatabaseAssumption DEF insertAspaObj, TrieInv, DatabaseTypeOK
<1> QED
  BY <1>2, <1>3, <1>4, <1>5, <1>6, <1>8 DEF TrieInv, DatabaseTypeOK, Above, Nodes

\* A node that is left has kept the ones above it, and one object at least is gone
\* for the one that is no longer counted.
LEMMA FreeKeepsTypes ==
    ASSUME TrieInv, NEW c \in Customers, c \in DOMAIN aspaObjects, Free(c)
    PROVE  TrieInv'
<1>1. /\ DOMAIN aspaObjects' = DOMAIN aspaObjects \ Below(c)
      /\ \A w \in DOMAIN aspaObjects' : aspaObjects'[w] = aspaObjects[w]
  BY DEF Free
<1>2. nodes' \subseteq Nodes /\ nodes \subseteq Nodes
  BY DEF Free, TrieInv, DatabaseTypeOK, Nodes
<1>3. ASSUME NEW w \in nodes', NEW v \in Above(w) PROVE v \in nodes'
  <2>1. w \in nodes /\ ~IsPrefix(c, w)
    BY DEF Free, Below
  <2>2. v \in nodes
    BY <2>1 DEF TrieInv, DatabaseTypeOK
  <2>3. ~IsPrefix(c, v)
    BY <1>2, <2>1, BelowGoesDown
  <2> QED
    BY <2>2, <2>3 DEF Free, Below
<1>4. DOMAIN aspaObjects' \subseteq nodes' \cap Customers
  BY <1>1 DEF Free, TrieInv, DatabaseTypeOK
<1>5. \A w \in DOMAIN aspaObjects' : aspaObjects'[w] \in Attestations(w)
  BY <1>1 DEF TrieInv, DatabaseTypeOK
<1>6. /\ IsFiniteSet(DOMAIN aspaObjects \ {c})
      /\ Cardinality(DOMAIN aspaObjects \ {c}) = Cardinality(DOMAIN aspaObjects) - 1
      /\ Cardinality(DOMAIN aspaObjects \ {c}) \in Nat
      /\ Cardinality(DOMAIN aspaObjects) \in Nat
  BY FS_RemoveElement, FS_CardinalityType DEF TrieInv
<1>7. c \in Below(c)
  BY DatabaseAssumption DEF IsPrefix, Below, TrieInv, DatabaseTypeOK
<1>8. /\ IsFiniteSet(DOMAIN aspaObjects')
      /\ Cardinality(DOMAIN aspaObjects') <= Cardinality(DOMAIN aspaObjects) - 1
  BY <1>1, <1>6, <1>7, FS_Subset
<1>9. countAspaObj' \in 0 .. MaxCount /\ Cardinality(DOMAIN aspaObjects') <= countAspaObj'
  <2>1. Cardinality(DOMAIN aspaObjects') \in Nat
    BY <1>8, FS_CardinalityType
  <2> QED
    BY <1>6, <1>8, <2>1, DatabaseAssumption DEF Free, TrieInv, DatabaseTypeOK
<1> QED
  BY <1>2, <1>3, <1>4, <1>5, <1>8, <1>9 DEF TrieInv, DatabaseTypeOK, Above, Nodes

LEMMA TrieInvHolds == DatabaseSpec => []TrieInv
<1>1. DatabaseInit => TrieInv
  <2> SUFFICES ASSUME DatabaseInit PROVE TrieInv
    OBVIOUS
  <2>1. DOMAIN aspaObjects = {} /\ nodes = {} /\ countAspaObj = 0
    BY DEF DatabaseInit
  <2> QED
    BY <2>1, FS_EmptySet, DatabaseAssumption DEF TrieInv, DatabaseTypeOK
<1>2. TrieInv /\ [DatabaseNext]_dbVars => TrieInv'
  <2> SUFFICES ASSUME TrieInv, [DatabaseNext]_dbVars PROVE TrieInv'
    OBVIOUS
  <2>1. ASSUME UNCHANGED <<nodes, aspaObjects, countAspaObj>> PROVE TrieInv'
    BY <2>1 DEF TrieInv, DatabaseTypeOK, Above
  <2>2. CASE UNCHANGED dbVars
    BY <2>1, <2>2 DEF dbVars
  <2>3. ASSUME NEW c \in Customers, NEW a \in Attestations(c), AnnouncePdu(c, a)
        PROVE  TrieInv'
    BY <2>1, <2>3, StoredAsItCame, InsertKeepsTypes DEF AnnouncePdu
  <2>4. ASSUME NEW c \in Customers, NEW a \in Attestations(c), WithdrawPdu(c, a)
        PROVE  TrieInv'
    <3>1. CASE AfiOf(Flag(a.afi)) = 0
      BY <2>1, <2>4, <3>1 DEF WithdrawPdu
    <3>2. CASE AfiOf(Flag(a.afi)) # 0 /\ ObjectAt(c) = a
      <4>1. c \in DOMAIN aspaObjects
        BY <3>2, DatabaseAssumption DEF ObjectAt
      <4>2. Free(c)
        BY <2>4, <3>2, StoredAsItCame DEF WithdrawPdu, delete_TrieNode_AspaObj
      <4> QED
        BY <4>1, <4>2, FreeKeepsTypes
    <3>3. CASE AfiOf(Flag(a.afi)) # 0 /\ ObjectAt(c) # a
      BY <2>1, <2>4, <3>3, StoredAsItCame DEF WithdrawPdu, delete_TrieNode_AspaObj
    <3> QED
      BY <3>1, <3>2, <3>3
  <2> QED
    BY <2>2, <2>3, <2>4 DEF DatabaseNext
<1> QED
  BY <1>1, <1>2, PTL DEF DatabaseSpec

\* Whatever insertAspaObj and delete_TrieNode_AspaObj make and free, every node
\* of the trie has the ones above it, an object hangs at the node of its customer,
\* and the counter does not go below zero.
THEOREM DatabaseTypeCorrect == DatabaseSpec => []DatabaseTypeOK
<1>1. TrieInv => DatabaseTypeOK
  BY DEF TrieInv
<1> QED
  BY <1>1, TrieInvHolds, PTL

\* countAspaObj is never less than the number of objects in the trie, although a
\* withdrawal decrements it once and may free several objects: customers may be
\* below one another here, and objects of both address families come.
THEOREM ObjectsNotUndercounted ==
    DatabaseSpec => [](Cardinality(DOMAIN aspaObjects) <= countAspaObj)
<1>1. TrieInv => Cardinality(DOMAIN aspaObjects) <= countAspaObj
  BY DEF TrieInv
<1> QED
  BY <1>1, TrieInvHolds, PTL
=============================================================================
