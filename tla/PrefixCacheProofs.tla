-------------------------- MODULE PrefixCacheProofs --------------------------
(***************************************************************************)
(* Proofs about PrefixCache.tla, for any tree of prefixes and any finite   *)
(* sets of white-list entries and updates: the counters the walks rely on  *)
(* are exact, and the results are those of OriginValidation.tla.           *)
(***************************************************************************)
EXTENDS PrefixCache, FiniteSetTheorems, WellFoundedInduction, TLAPS

(***************************************************************************)
(* What the theorems need and the code does not enforce: no entry is       *)
(* announced again while it is in force (README.md, section 7, shows what  *)
(* happens otherwise), and there are fewer entries than the uint32_t       *)
(* roa_coverage can count.                                                 *)
(***************************************************************************)
OneCopyEach == MaxCopies <= 1 /\ Cardinality(ROAs) < CounterSize

\* The ROAs at q or above that reach q, and those that match an update.
ReachingCover(q) == {r \in Covering(q) : Reaches(r, q)}
MatchingOf(u) == {r \in Covering(PrefixOf[u]) :
                     Reaches(r, PrefixOf[u]) /\ r.as = OriginOf[u]}
Listed == {u \in Updates : update[u].list # "none"}
ListedFor(r) == {u \in Listed : r \in MatchingOf(u)}

StateOf(R) == IF R = {} THEN "notfound" ELSE "invalid"

\* Every ROA in force and every listed update is at a prefix that is stored.
TreeInv ==
    /\ Stored \subseteq nodes
    /\ \A r \in ROAs : roa[r].count \in {0, 1}
    /\ \A r \in ROAs : roa[r].count = 1 => entry[r.prefix].stored
    /\ \A u \in Listed : entry[PrefixOf[u]].stored

\* CoverageExact and MatchesCounted, as cardinalities.
CoverInv ==
    \A q \in Stored :
        /\ entry[q].coverage = Cardinality(ReachingCover(q))
        /\ entry[q].state = StateOf(Covering(q))

MatchInv ==
    /\ \A u \in Listed :
          /\ update[u].match = Cardinality(MatchingOf(u))
          /\ update[u].list = IF MatchingOf(u) = {} THEN "other" ELSE "valid"
    /\ \A r \in ROAs : roa[r].updates >= Cardinality(ListedFor(r))

\* The update cache has the state of the list an update is in.
ResultInv ==
    \A u \in Updates :
        result[u] = IF update[u].list = "none" THEN "none"
                    ELSE IF update[u].list = "valid" THEN "valid"
                    ELSE entry[PrefixOf[u]].state

\* None of these is inductive by itself: a walk is pruned by the coverage and
\* the states it finds, and counts right only if they are.
PrefixInv == PrefixTypeOK /\ TreeInv /\ CoverInv /\ MatchInv /\ ResultInv

-----------------------------------------------------------------------------
(* Lemmas about numbers and sums.                                          *)

LEMMA Smallest ==
    ASSUME NEW P \in SUBSET Nat, P # {}
    PROVE  \E n \in P : \A m \in P : n <= m
<1>1. PICK n \in P : \A m \in P : ~(<<m, n>> \in OpToRel(<, Nat))
  BY NatLessThanWellFounded, WFMin
<1>2. \A m \in P : ~(m < n)
  BY <1>1, Zenon DEF OpToRel
<1> QED
  BY <1>2

\* The sum of the copies of ROAs that are in force once each is their number.
SumOf(f, S) == MapThenSumSet(LAMBDA r : f[r].count, S)

LEMMA SumOfOnes ==
    ASSUME NEW f, NEW S, IsFiniteSet(S), \A s \in S : f[s].count = 1
    PROVE  SumOf(f, S) = Cardinality(S)
<1> DEFINE Sums(g) ==
        g = [s \in SUBSET S |->
                IF s = {} THEN 0
                ELSE f[CHOOSE x \in s : TRUE].count + g[s \ {CHOOSE x \in s : TRUE}]]
           card == [s \in SUBSET S |-> Cardinality(s)]
           iter == CHOOSE g : Sums(g)
<1>1. Sums(card)
  <2> SUFFICES ASSUME NEW s \in SUBSET S
               PROVE  Cardinality(s) =
                        IF s = {} THEN 0
                        ELSE f[CHOOSE x \in s : TRUE].count
                                + Cardinality(s \ {CHOOSE x \in s : TRUE})
    OBVIOUS
  <2>1. CASE s = {}
    BY <2>1, FS_EmptySet
  <2>2. CASE s # {}
    <3> DEFINE x == CHOOSE y \in s : TRUE
    <3>1. x \in s
      BY <2>2
    <3>2. IsFiniteSet(s) /\ Cardinality(s) \in Nat
      BY FS_Subset, FS_CardinalityType
    <3>3. Cardinality(s \ {x}) = Cardinality(s) - 1
      BY <3>1, <3>2, FS_RemoveElement
    <3>4. f[x].count = 1
      BY <3>1
    <3> HIDE DEF x
    <3>5. Cardinality(s) = f[x].count + Cardinality(s \ {x})
      BY <3>2, <3>3, <3>4
    <3> QED
      BY <2>2, <3>5 DEF x
  <2> QED
    BY <2>1, <2>2
<1>2. ASSUME NEW g, Sums(g)
      PROVE  \A s \in SUBSET S : g[s] = Cardinality(s)
  <2> DEFINE Bad == {n \in Nat : \E s \in SUBSET S : Cardinality(s) = n /\ g[s] # n}
  <2> SUFFICES ASSUME Bad # {}
               PROVE  FALSE
    BY FS_Subset, FS_CardinalityType
  <2>1. PICK n \in Bad : \A m \in Bad : n <= m
    BY Smallest
  <2>2. PICK s \in SUBSET S : Cardinality(s) = n /\ g[s] # n
    BY <2>1
  <2>3. IsFiniteSet(s)
    BY FS_Subset
  <2>4. g[s] = IF s = {} THEN 0
               ELSE f[CHOOSE x \in s : TRUE].count + g[s \ {CHOOSE x \in s : TRUE}]
    BY <1>2
  <2>5. s # {}
    BY <2>2, <2>4, FS_EmptySet
  <2> DEFINE x == CHOOSE y \in s : TRUE
  <2>6. x \in s
    BY <2>5
  <2>7. Cardinality(s \ {x}) = n - 1 /\ n - 1 \in Nat
    <3>1. Cardinality(s \ {x}) \in Nat /\ Cardinality(s) \in Nat
      BY <2>3, FS_RemoveElement, FS_CardinalityType
    <3>2. Cardinality(s \ {x}) = Cardinality(s) - 1
      BY <2>3, <2>6, FS_RemoveElement
    <3> QED
      BY <3>1, <3>2, <2>2
  <2>8. f[x].count = 1
    BY <2>6
  <2>9. g[s] = f[x].count + g[s \ {x}]
    BY <2>4, <2>5
  <2> HIDE DEF x
  <2>10. g[s \ {x}] = n - 1
    <3>1. n - 1 \notin Bad
      BY <2>1, <2>7
    <3> QED
      BY <3>1, <2>7
  <2> QED
    BY <2>1, <2>2, <2>8, <2>9, <2>10
<1>3. Sums(iter)
  BY <1>1
<1>4. iter[S] = Cardinality(S)
  BY <1>2, <1>3
<1> QED
  BY <1>4 DEF SumOf, MapThenSumSet, MapThenFoldSet

LEMMA CopiesCounted ==
    ASSUME NEW R \in SUBSET ROAs, \A r \in R : roa[r].count = 1
    PROVE  Copies(R) = Cardinality(R)
<1>1. IsFiniteSet(R)
  BY PrefixAssumption, FS_Subset
<1>2. Copies(R) = SumOf(roa, R)
  BY DEF Copies, SumOf, MapThenSumSet, MapThenFoldSet
<1> QED
  BY <1>1, <1>2, SumOfOnes

\* Sets of ROAs and of updates can be counted, and the ROAs are few enough.
LEMMA Countable ==
    ASSUME OneCopyEach
    PROVE  /\ \A R \in SUBSET ROAs :
                 /\ IsFiniteSet(R) /\ Cardinality(R) \in Nat
                 /\ Cardinality(R) < CounterSize
                 /\ Cardinality(R) = 0 <=> R = {}
           /\ \A U \in SUBSET Updates : IsFiniteSet(U) /\ Cardinality(U) \in Nat
<1>1. ASSUME NEW R \in SUBSET ROAs
      PROVE  /\ IsFiniteSet(R) /\ Cardinality(R) \in Nat
             /\ Cardinality(R) < CounterSize
             /\ Cardinality(R) = 0 <=> R = {}
  <2>1. IsFiniteSet(R) /\ Cardinality(R) <= Cardinality(ROAs)
    BY PrefixAssumption, FS_Subset
  <2>2. Cardinality(R) \in Nat /\ Cardinality(ROAs) \in Nat
    BY PrefixAssumption, <2>1, FS_CardinalityType
  <2>3. Cardinality(R) = 0 <=> R = {}
    BY <2>1, FS_EmptySet
  <2> QED
    BY <2>1, <2>2, <2>3, PrefixAssumption DEF OneCopyEach
<1>2. ASSUME NEW U \in SUBSET Updates
      PROVE  IsFiniteSet(U) /\ Cardinality(U) \in Nat
  BY PrefixAssumption, FS_Subset, FS_CardinalityType
<1> QED
  BY <1>1, <1>2

-----------------------------------------------------------------------------
(* Lemmas about the tree.                                                  *)

\* The prefixes above one another form a chain.
LEMMA Chain ==
    ASSUME NEW p \in Prefixes
    PROVE  /\ Above[p] \in SUBSET Prefixes /\ PLen[p] \in Nat
           /\ p \notin Above[p]
           /\ \A a \in Above[p] : PLen[a] \in Nat /\ PLen[a] < PLen[p] /\ Above[a] \subseteq Above[p]
           /\ \A a, b \in Above[p] : a = b \/ a \in Above[b] \/ b \in Above[a]
BY PrefixAssumption

\* The parent of a prefix is the nearest of those above it.
LEMMA Parent ==
    ASSUME NEW p \in Prefixes, Ancestors(p) # {}
    PROVE  /\ getParent(p) \in Ancestors(p) /\ getParent(p) \in Prefixes
           /\ \A a \in Ancestors(p) : a = getParent(p) \/ a \in Above[getParent(p)]
<1>1. Ancestors(p) \subseteq Above[p] /\ Ancestors(p) \subseteq Prefixes
  BY DEF Ancestors, Stored
<1> DEFINE Gaps == {PLen[p] - PLen[a] : a \in Ancestors(p)}
<1>2. Gaps \in SUBSET Nat /\ Gaps # {}
  BY <1>1, Chain
<1>3. PICK n \in Gaps : \A m \in Gaps : n <= m
  BY <1>2, Smallest
<1>4. PICK q \in Ancestors(p) : n = PLen[p] - PLen[q]
  BY <1>3
<1>5. ASSUME NEW a \in Ancestors(p)
      PROVE  PLen[a] <= PLen[q]
  <2>1. PLen[p] - PLen[q] <= PLen[p] - PLen[a]
    BY <1>3, <1>4
  <2>2. PLen[p] \in Nat /\ PLen[q] \in Nat /\ PLen[a] \in Nat
    BY <1>1, Chain
  <2> QED
    BY <2>1, <2>2
<1>6. getParent(p) \in Ancestors(p)
      /\ \A a \in Ancestors(p) : PLen[a] <= PLen[getParent(p)]
  BY <1>5 DEF getParent
<1>7. ASSUME NEW a \in Ancestors(p), a # getParent(p)
      PROVE  a \in Above[getParent(p)]
  <2>1. a \in Above[getParent(p)] \/ getParent(p) \in Above[a]
    BY <1>1, <1>6, <1>7, Chain
  <2>2. getParent(p) \notin Above[a]
    BY <1>1, <1>6, <1>7, Chain
  <2> QED
    BY <2>1, <2>2
<1> QED
  BY <1>1, <1>6, <1>7

-----------------------------------------------------------------------------
(* What the walks find, given the invariant.                               *)

\* A ROA in force above p is at a prefix that is stored.
LEMMA AtStored ==
    ASSUME TreeInv, NEW p \in Prefixes, NEW r \in Covering(p)
    PROVE  /\ r \in ROAs /\ roa[r].count = 1 /\ roa[r].count > 0
           /\ r.prefix \in Stored /\ r.prefix \in Prefixes
           /\ PLen[r.prefix] \in Nat /\ r.maxLen \in Nat
           /\ PLen[r.prefix] <= r.maxLen
           /\ r.prefix = p \/ r.prefix \in Ancestors(p)
<1>1. r \in ROAs /\ roa[r].count > 0 /\ r.prefix \in Above[p] \cup {p}
  BY DEF Covering
<1>2. roa[r].count = 1 /\ r.prefix \in Prefixes
  BY <1>1, PrefixAssumption DEF TreeInv
<1> QED
  BY <1>1, <1>2, PrefixAssumption DEF TreeInv, Stored, Ancestors

\* What covers a prefix covers the prefixes below it, and reaches the prefixes
\* between if it reaches one.
LEMMA CoverBelow ==
    ASSUME NEW p \in Prefixes, NEW a \in Above[p]
    PROVE  /\ Covering(a) \subseteq Covering(p)
           /\ \A r \in ROAs : Reaches(r, p) => Reaches(r, a)
<1>1. a \in Prefixes /\ PLen[a] \in Nat /\ PLen[p] \in Nat /\ PLen[a] < PLen[p]
      /\ Above[a] \subseteq Above[p]
  BY Chain
<1>2. \A r \in ROAs : r.maxLen \in Nat
  BY PrefixAssumption
<1>3. \A r \in ROAs : Reaches(r, p) => Reaches(r, a)
  BY <1>1, <1>2 DEF Reaches
<1>4. Covering(a) \subseteq Covering(p)
  BY <1>1 DEF Covering
<1> QED
  BY <1>3, <1>4

\* What covers the parent of a prefix is what covers the prefix from above.
LEMMA ParentCovers ==
    ASSUME PrefixInv, NEW p \in Prefixes, Ancestors(p) # {}
    PROVE  /\ getParent(p) \in Stored /\ getParent(p) \in Above[p]
           /\ Covering(getParent(p)) = {r \in Covering(p) : r.prefix \in Above[p]}
<1> DEFINE g == getParent(p)
           above == {r \in Covering(p) : r.prefix \in Above[p]}
<1>1. g \in Ancestors(p) /\ g \in Prefixes /\ \A a \in Ancestors(p) : a = g \/ a \in Above[g]
  BY Parent
<1> HIDE DEF g
<1>2. g \in Above[p] /\ g \in Stored
  BY <1>1 DEF Ancestors
<1>3. Covering(g) \subseteq above
  <2>1. Covering(g) \subseteq Covering(p) /\ Above[g] \subseteq Above[p]
    BY <1>2, CoverBelow, Chain
  <2>2. ASSUME NEW r \in Covering(g)
        PROVE  r.prefix \in Above[p]
    BY <1>2, <2>1 DEF Covering
  <2> QED
    BY <2>1, <2>2
<1>4. above \subseteq Covering(g)
  <2> SUFFICES ASSUME NEW r \in above
               PROVE  r \in Covering(g)
    OBVIOUS
  <2>1. r.prefix \in Ancestors(p) /\ r \in ROAs /\ roa[r].count > 0
    BY AtStored DEF PrefixInv, Ancestors
  <2> QED
    BY <1>1, <2>1 DEF Covering
<1> QED
  BY <1>2, <1>3, <1>4 DEF g

\* The state of the parent says whether there is a ROA above.
LEMMA StateOfParent ==
    ASSUME PrefixInv, NEW p \in Prefixes
    PROVE  ParentState(p) = StateOf({r \in Covering(p) : r.prefix \in Above[p]})
<1> DEFINE above == {r \in Covering(p) : r.prefix \in Above[p]}
<1>1. CASE Ancestors(p) = {}
  <2>1. above = {}
    <3> SUFFICES ASSUME NEW r \in above
                 PROVE  FALSE
      OBVIOUS
    <3>1. r.prefix \in Stored
      BY AtStored DEF PrefixInv
    <3> QED
      BY <1>1, <3>1 DEF Ancestors
  <2> QED
    BY <1>1, <2>1 DEF ParentState, StateOf
<1>2. CASE Ancestors(p) # {}
  <2>1. getParent(p) \in Stored /\ Covering(getParent(p)) = above
    BY <1>2, ParentCovers
  <2>2. entry[getParent(p)].state = StateOf(Covering(getParent(p)))
    BY <2>1 DEF PrefixInv, CoverInv
  <2>3. ParentState(p) = entry[getParent(p)].state
    BY <1>2 DEF ParentState
  <2> QED
    BY <2>1, <2>2, <2>3
<1> QED
  BY <1>1, <1>2

\* A walk upwards from g, at or above p, that only stops where no ROA reaches
\* from above misses none that reaches p.
LEMMA WalkUp ==
    ASSUME PrefixInv, NEW p \in Prefixes, NEW g \in Stored, g = p \/ g \in Above[p],
           NEW S \in SUBSET Stored,
           \A b \in Stored : ReachingCover(b) # {} => b \in S
    PROVE  Reaching(p, Upwards(g, S)) = {r \in Covering(g) : Reaches(r, p)}
<1>1. g \in Prefixes
  BY DEF Stored
<1>2. ASSUME NEW r \in Reaching(p, Upwards(g, S))
      PROVE  r \in Covering(g) /\ Reaches(r, p)
  BY DEF Reaching, Upwards, Covering, Reaches, Ancestors
<1>3. ASSUME NEW r \in Covering(g), Reaches(r, p)
      PROVE  r \in Reaching(p, Upwards(g, S))
  <2> DEFINE a == r.prefix
  <2>1. /\ r \in ROAs /\ roa[r].count > 0 /\ a \in Stored /\ a \in Prefixes
        /\ a = g \/ a \in Ancestors(g)
    BY <1>1, AtStored DEF PrefixInv
  <2>2. ASSUME NEW b \in Ancestors(g) \cup {g}, PLen[b] >= PLen[a]
        PROVE  b \in S
    <3>1. b \in Stored /\ b \in Prefixes /\ (b = g \/ b \in Above[g])
      BY <1>1 DEF Ancestors, Stored
    <3>2. a = g \/ a \in Above[g]
      BY <2>1 DEF Ancestors
    <3>3. a = b \/ a \in Above[b]
      <4>1. a = b \/ a \in Above[b] \/ b \in Above[a]
        BY <1>1, <3>1, <3>2, Chain
      <4>2. b \notin Above[a]
        BY <2>1, <2>2, <3>1, Chain
      <4> QED
        BY <4>1, <4>2
    <3>4. r \in Covering(b)
      BY <2>1, <3>3 DEF Covering
    <3>5. b = p \/ b \in Above[p]
      BY <3>1, Chain
    <3>6. Reaches(r, b)
      BY <1>3, <2>1, <3>5, CoverBelow
    <3> QED
      BY <3>1, <3>4, <3>6 DEF ReachingCover
  <2>3. a \in S
    BY <2>1, <2>2, Chain
  <2>4. a \in Upwards(g, S)
    BY <2>1, <2>2, <2>3 DEF Upwards
  <2> QED
    BY <1>3, <2>1, <2>4 DEF Reaching, Reaches
<1> QED
  <2>1. Reaching(p, Upwards(g, S)) \subseteq ROAs
    BY DEF Reaching
  <2> QED
    BY <1>2, <1>3

\* Both conditions the walks go on for are such.
LEMMA WalksGoOn ==
    ASSUME PrefixInv, OneCopyEach
    PROVE  /\ Covered \in SUBSET Stored /\ Invalids \in SUBSET Stored
           /\ \A b \in Stored : ReachingCover(b) # {} => b \in Covered /\ b \in Invalids
<1>1. Covered \in SUBSET Stored /\ Invalids \in SUBSET Stored
  BY DEF Covered, Invalids
<1>2. ASSUME NEW b \in Stored, ReachingCover(b) # {}
      PROVE  b \in Covered /\ b \in Invalids
  <2>1. entry[b].coverage = Cardinality(ReachingCover(b)) /\ entry[b].state = StateOf(Covering(b))
    BY DEF PrefixInv, CoverInv
  <2>2. ReachingCover(b) \in SUBSET ROAs /\ Covering(b) # {}
    BY <1>2 DEF ReachingCover, Covering
  <2>3. Cardinality(ReachingCover(b)) > 0
    BY <1>2, <2>2, Countable
  <2> QED
    BY <2>1, <2>2, <2>3 DEF Covered, Invalids, StateOf
<1> QED
  BY <1>1, <1>2

\* No ROA in force is at a prefix that is not stored.
LEMMA NotAt ==
    ASSUME PrefixInv, NEW p \in Prefixes, p \notin Stored
    PROVE  \A r \in Covering(p) : r.prefix \in Above[p]
<1> SUFFICES ASSUME NEW r \in Covering(p)
             PROVE  r.prefix \in Above[p]
  OBVIOUS
<1>1. r.prefix \in Stored
  BY AtStored DEF PrefixInv
<1> QED
  BY <1>1 DEF Covering

\* The coverage and state a prefix is created with are exact.
LEMMA NewPrefix ==
    ASSUME PrefixInv, OneCopyEach, NEW p \in Prefixes, p \notin Stored,
           NEW S, S = Covered \/ S = Invalids
    PROVE  /\ ParentState(p) = StateOf(Covering(p))
           /\ ParentState(p) = "notfound" => ReachingCover(p) = {}
           /\ ParentState(p) # "notfound" => Reaching(p, Upwards(getParent(p), S)) = ReachingCover(p)
<1>1. ParentState(p) = StateOf(Covering(p))
  <2>1. {r \in Covering(p) : r.prefix \in Above[p]} = Covering(p)
    BY NotAt
  <2> QED
    BY <2>1, StateOfParent
<1>2. ParentState(p) = "notfound" => ReachingCover(p) = {}
  BY <1>1 DEF StateOf, ReachingCover
<1>3. ASSUME ParentState(p) # "notfound"
      PROVE  Reaching(p, Upwards(getParent(p), S)) = ReachingCover(p)
  <2> DEFINE g == getParent(p)
  <2>1. Ancestors(p) # {}
    BY <1>3 DEF ParentState
  <2>2. g \in Ancestors(p) /\ g \in Prefixes /\ \A a \in Ancestors(p) : a = g \/ a \in Above[g]
    BY <2>1, Parent
  <2> HIDE DEF g
  <2>3. g \in Stored /\ g \in Above[p]
    BY <2>2 DEF Ancestors
  <2>4. Reaching(p, Upwards(g, S)) = {r \in Covering(g) : Reaches(r, p)}
    BY <2>3, WalkUp, WalksGoOn
  <2>5. Covering(p) = Covering(g)
    <3>1. Covering(g) \subseteq Covering(p)
      BY <2>3, CoverBelow
    <3>2. ASSUME NEW r \in Covering(p)
          PROVE  r \in Covering(g)
      <4>1. r.prefix \in Above[p] /\ r.prefix \in Stored /\ r \in ROAs /\ roa[r].count > 0
        BY NotAt, AtStored DEF PrefixInv
      <4> QED
        BY <2>2, <4>1 DEF Ancestors, Covering
    <3> QED
      BY <3>1, <3>2
  <2> QED
    BY <2>4, <2>5 DEF ReachingCover, g
<1> QED
  BY <1>1, <1>2, <1>3

-----------------------------------------------------------------------------
(* Requests.                                                               *)

\* What a prefix is stored with when it is exact.
ExactEntry(p) ==
    [stored |-> TRUE, coverage |-> Cardinality(ReachingCover(p)), state |-> StateOf(Covering(p))]

LEMMA ExactEntryTyped ==
    ASSUME OneCopyEach, NEW p
    PROVE  ExactEntry(p) \in Entry
<1>1. ReachingCover(p) \in SUBSET ROAs
  BY DEF ReachingCover, Covering
<1>2. Cardinality(ReachingCover(p)) \in 0 .. CounterSize - 1
  BY <1>1, Countable, PrefixAssumption
<1> QED
  BY <1>2 DEF ExactEntry, Entry, StateOf

\* An entry of a stored prefix is exact.
LEMMA StoredExact ==
    ASSUME PrefixInv, NEW p \in Stored
    PROVE  entry[p] = ExactEntry(p)
<1>1. entry[p] \in Entry /\ entry[p].stored
  BY DEF PrefixInv, PrefixTypeOK, Stored
<1>2. entry[p].coverage = Cardinality(ReachingCover(p)) /\ entry[p].state = StateOf(Covering(p))
  BY DEF PrefixInv, CoverInv
<1> QED
  BY <1>1, <1>2 DEF Entry, ExactEntry

\* The matches of different updates and the sets they are counted in.
LEMMA Sets ==
    /\ \A q : Covering(q) \in SUBSET ROAs /\ ReachingCover(q) \in SUBSET ROAs
    /\ \A u : MatchingOf(u) \in SUBSET ROAs
    /\ Listed \in SUBSET Updates /\ \A r : ListedFor(r) \in SUBSET Updates
BY DEF Covering, ReachingCover, MatchingOf, Listed, ListedFor

\* A step that leaves the entries and the counters alone keeps the invariant.
LEMMA SameEntries ==
    ASSUME PrefixInv, UNCHANGED <<entry, roa, update, result>>, nodes \subseteq nodes',
           nodes' \subseteq Prefixes, crashed' \in BOOLEAN
    PROVE  PrefixInv'
<1>1. Stored' = Stored /\ Listed' = Listed /\ \A q : Covering(q)' = Covering(q)
  BY DEF Stored, Listed, Covering
<1>2. \A q : ReachingCover(q)' = ReachingCover(q)
  BY <1>1 DEF ReachingCover, Reaches
<1>3. \A u : MatchingOf(u)' = MatchingOf(u)
  BY <1>1 DEF MatchingOf, Reaches
<1>4. \A r : ListedFor(r)' = ListedFor(r)
  BY <1>1, <1>3 DEF ListedFor
<1>5. PrefixTypeOK'
  BY DEF PrefixInv, PrefixTypeOK
<1>6. TreeInv'
  BY <1>1 DEF PrefixInv, TreeInv
<1>7. CoverInv'
  BY <1>1, <1>2 DEF PrefixInv, CoverInv, StateOf
<1>8. MatchInv'
  BY <1>1, <1>3, <1>4 DEF PrefixInv, MatchInv
<1>9. ResultInv'
  BY DEF PrefixInv, ResultInv
<1> QED
  BY <1>5, <1>6, <1>7, <1>8, <1>9 DEF PrefixInv

LEMMA PlaceStep ==
    ASSUME PrefixInv, OneCopyEach, NEW u \in Updates, update[u].list = "none",
           Place(u, ReachingCover(PrefixOf[u]), StateOf(Covering(PrefixOf[u]))),
           entry' = [entry EXCEPT ![PrefixOf[u]] = ExactEntry(PrefixOf[u])],
           nodes' = nodes \cup {PrefixOf[u]}, UNCHANGED crashed
    PROVE  PrefixInv'
<1> DEFINE p == PrefixOf[u]
           own == {r \in ReachingCover(p) : r.as = OriginOf[u]}
           n == Copies(own)
<1>1. p \in Prefixes
  BY PrefixAssumption
<1>2. own = MatchingOf(u)
  BY DEF ReachingCover, MatchingOf
<1>3. /\ update' = [update EXCEPT ![u] = [list |-> IF n = 0 THEN "other" ELSE "valid", match |-> n]]
      /\ result' = [result EXCEPT ![u] = IF n = 0 THEN StateOf(Covering(p)) ELSE "valid"]
      /\ roa' = [r \in ROAs |-> IF r \in own THEN [roa[r] EXCEPT !.updates = @ + 1] ELSE roa[r]]
  BY DEF Place
<1>4. n = Cardinality(MatchingOf(u)) /\ n \in Nat /\ (n = 0 <=> MatchingOf(u) = {})
  <2>1. MatchingOf(u) \in SUBSET ROAs
    BY Sets
  <2>2. \A r \in MatchingOf(u) : roa[r].count = 1
    BY <1>1, AtStored DEF MatchingOf, PrefixInv
  <2> QED
    BY <1>2, <2>1, <2>2, CopiesCounted, Countable
<1> HIDE DEF own, n, p
<1>5. /\ nodes \subseteq Prefixes /\ entry \in [Prefixes -> Entry] /\ roa \in [ROAs -> ROA]
      /\ update \in [Updates -> Update]
      /\ result \in [Updates -> {"none", "valid", "invalid", "notfound"}] /\ crashed \in BOOLEAN
  BY DEF PrefixInv, PrefixTypeOK
<1>6. \A r \in ROAs : roa[r].count \in Nat /\ roa[r].updates \in Nat
  BY <1>5 DEF ROA
<1>7. \A r \in ROAs : /\ roa'[r] \in ROA /\ roa'[r].count = roa[r].count
                      /\ roa'[r].updates = IF r \in own THEN roa[r].updates + 1 ELSE roa[r].updates
  BY <1>3, <1>5, <1>6 DEF ROA
<1>8. /\ \A q : Covering(q)' = Covering(q) /\ ReachingCover(q)' = ReachingCover(q)
      /\ \A v \in Updates : MatchingOf(v)' = MatchingOf(v)
  <2>1. \A q : Covering(q)' = Covering(q)
    BY <1>7 DEF Covering
  <2> QED
    BY <2>1 DEF ReachingCover, MatchingOf, Reaches
<1>9. /\ entry' \in [Prefixes -> Entry] /\ entry'[p] = ExactEntry(p)
      /\ \A q \in Prefixes \ {p} : entry'[q] = entry[q]
  BY <1>1, <1>5, ExactEntryTyped DEF p
<1>10. Stored' = Stored \cup {p}
  BY <1>1, <1>9 DEF Stored, ExactEntry
<1>11. /\ Listed' = Listed \cup {u} /\ u \notin Listed
       /\ update'[u] = [list |-> IF n = 0 THEN "other" ELSE "valid", match |-> n]
       /\ \A v \in Updates \ {u} : update'[v] = update[v]
       /\ update' \in [Updates -> Update]
  BY <1>3, <1>4, <1>5 DEF Listed, Update
<1>12. PrefixTypeOK'
  <2>1. nodes' \subseteq Prefixes
    BY <1>1, <1>5 DEF p
  <2>2. roa' \in [ROAs -> ROA]
    BY <1>3, <1>7
  <2>3. result' \in [Updates -> {"none", "valid", "invalid", "notfound"}]
    BY <1>3, <1>5 DEF StateOf
  <2> QED
    BY <1>5, <1>9, <1>11, <2>1, <2>2, <2>3 DEF PrefixTypeOK
<1>13. TreeInv'
  <2>1. Stored' \subseteq nodes'
    BY <1>10 DEF PrefixInv, TreeInv, p
  <2>2. \A r \in ROAs : roa'[r].count \in {0, 1}
    BY <1>7 DEF PrefixInv, TreeInv
  <2>3. ASSUME NEW q \in Prefixes, entry[q].stored
        PROVE  entry'[q].stored
    BY <1>9, <2>3 DEF ExactEntry
  <2>4. \A r \in ROAs : roa'[r].count = 1 => entry'[r.prefix].stored
    BY <1>7, <2>3, PrefixAssumption DEF PrefixInv, TreeInv
  <2>5. ASSUME NEW v \in Listed'
        PROVE  entry'[PrefixOf[v]].stored
    <3>1. CASE v = u
      BY <1>9, <3>1 DEF p, ExactEntry
    <3>2. CASE v # u
      <4>1. v \in Listed /\ PrefixOf[v] \in Prefixes
        BY <1>11, <3>2, PrefixAssumption DEF Listed
      <4> QED
        BY <2>3, <4>1 DEF PrefixInv, TreeInv
    <3> QED
      BY <3>1, <3>2
  <2> QED
    BY <2>1, <2>2, <2>4, <2>5 DEF TreeInv
<1>14. CoverInv'
  <2> SUFFICES ASSUME NEW q \in Stored'
               PROVE  /\ entry'[q].coverage = Cardinality(ReachingCover(q))
                      /\ entry'[q].state = StateOf(Covering(q))
    BY <1>8 DEF CoverInv, StateOf
  <2>1. CASE q = p
    BY <1>9, <2>1 DEF ExactEntry
  <2>2. CASE q # p
    BY <1>9, <1>10, <2>2 DEF PrefixInv, CoverInv, Stored
  <2> QED
    BY <2>1, <2>2
<1>15. MatchInv'
  <2>1. ASSUME NEW v \in Listed'
        PROVE  /\ update'[v].match = Cardinality(MatchingOf(v))
               /\ update'[v].list = IF MatchingOf(v) = {} THEN "other" ELSE "valid"
    <3>1. CASE v = u
      BY <1>4, <1>11, <3>1
    <3>2. CASE v # u
      BY <1>11, <3>2 DEF PrefixInv, MatchInv, Listed
    <3> QED
      BY <3>1, <3>2
  <2>2. ASSUME NEW r \in ROAs
        PROVE  roa'[r].updates >= Cardinality(ListedFor(r)')
    <3>1. roa[r].updates >= Cardinality(ListedFor(r))
      BY DEF PrefixInv, MatchInv
    <3>2. IsFiniteSet(ListedFor(r)) /\ Cardinality(ListedFor(r)) \in Nat
      BY Sets, Countable
    <3>3. u \notin ListedFor(r)
      BY <1>11 DEF ListedFor
    <3>4. CASE r \in own
      <4>1. ListedFor(r)' = ListedFor(r) \cup {u}
        BY <1>2, <1>8, <1>11, <3>4 DEF ListedFor, Listed
      <4>2. Cardinality(ListedFor(r) \cup {u}) = Cardinality(ListedFor(r)) + 1
        BY <3>2, <3>3, FS_AddElement
      <4> QED
        BY <1>6, <1>7, <3>1, <3>2, <3>4, <4>1, <4>2
    <3>5. CASE r \notin own
      <4>1. ListedFor(r)' = ListedFor(r)
        BY <1>2, <1>8, <1>11, <3>5 DEF ListedFor, Listed
      <4> QED
        BY <1>7, <3>1, <3>5, <4>1
    <3> QED
      BY <3>4, <3>5
  <2>3. \A v \in Listed' : v \in Updates
    BY DEF Listed
  <2> QED
    BY <1>8, <2>1, <2>2, <2>3 DEF MatchInv
<1>16. ResultInv'
  <2> SUFFICES ASSUME NEW v \in Updates
               PROVE  result'[v] = IF update'[v].list = "none" THEN "none"
                                   ELSE IF update'[v].list = "valid" THEN "valid"
                                   ELSE entry'[PrefixOf[v]].state
    BY DEF ResultInv
  <2>1. CASE v = u
    BY <1>3, <1>5, <1>9, <1>11, <2>1 DEF p, ExactEntry
  <2>2. CASE v # u
    <3>1. result'[v] = result[v] /\ update'[v] = update[v] /\ update[v] \in Update
      BY <1>3, <1>5, <1>11, <2>2
    <3>2. result[v] = IF update[v].list = "none" THEN "none"
                      ELSE IF update[v].list = "valid" THEN "valid"
                      ELSE entry[PrefixOf[v]].state
      BY DEF PrefixInv, ResultInv
    <3>3. ASSUME update[v].list # "none"
          PROVE  entry'[PrefixOf[v]].state = entry[PrefixOf[v]].state
      <4>1. PrefixOf[v] \in Stored
        BY <3>3, PrefixAssumption DEF PrefixInv, TreeInv, Listed, Stored
      <4>2. CASE PrefixOf[v] = p
        BY <1>9, <4>1, <4>2, StoredExact
      <4>3. CASE PrefixOf[v] # p
        BY <1>9, <4>1, <4>3 DEF Stored
      <4> QED
        BY <4>2, <4>3
    <3> QED
      BY <3>1, <3>2, <3>3
  <2> QED
    BY <2>1, <2>2
<1> QED
  BY <1>12, <1>13, <1>14, <1>15, <1>16 DEF PrefixInv

LEMMA RequestStep ==
    ASSUME PrefixInv, OneCopyEach, NEW u \in Updates, requestUpdateValidation(u)
    PROVE  PrefixInv'
<1> DEFINE p == PrefixOf[u]
<1>1. p \in Prefixes /\ update[u].list = "none" /\ entry \in [Prefixes -> Entry]
  BY PrefixAssumption DEF requestUpdateValidation, PrefixInv, PrefixTypeOK
<1>2. CASE RequestNew(u)
  <2>1. p \notin Stored
    BY <1>2 DEF RequestNew, PrefixInv, TreeInv
  <2> DEFINE R == IF ParentState(p) = "notfound" THEN {}
                  ELSE Reaching(p, Upwards(getParent(p), Invalids))
  <2>2. R = ReachingCover(p) /\ ParentState(p) = StateOf(Covering(p))
    BY <1>1, <2>1, NewPrefix
  <2>3. /\ nodes' = nodes \cup {p} /\ UNCHANGED crashed
        /\ entry' = [entry EXCEPT ![p] =
              [stored |-> TRUE, coverage |-> Cardinality(R), state |-> ParentState(p)]]
        /\ Place(u, R, ParentState(p))
    BY <1>2 DEF RequestNew
  <2> QED
    BY <1>1, <2>2, <2>3, PlaceStep DEF ExactEntry
<1>3. CASE RequestKnown(u)
  <2>1. p \in Stored /\ UNCHANGED <<nodes, entry, crashed>>
        /\ Place(u, Reaching(p, Upwards(p, Covered)), entry[p].state)
    BY <1>3 DEF RequestKnown
  <2>2. Reaching(p, Upwards(p, Covered)) = ReachingCover(p)
    BY <1>1, <2>1, WalkUp, WalksGoOn DEF ReachingCover
  <2>3. entry[p] = ExactEntry(p)
    BY <2>1, StoredExact
  <2>4. entry[p].state = StateOf(Covering(p))
    BY <2>3 DEF ExactEntry
  <2>5. entry' = [entry EXCEPT ![p] = ExactEntry(p)]
    BY <1>1, <2>1, <2>3
  <2>6. nodes' = nodes \cup {p}
    BY <2>1 DEF PrefixInv, TreeInv
  <2> QED
    BY <1>1, <2>1, <2>2, <2>4, <2>5, <2>6, PlaceStep
<1>4. CASE RequestNull(u)
  <2>1. crashed' = TRUE /\ UNCHANGED <<nodes, entry, roa, update, result>>
    BY <1>4 DEF RequestNull
  <2> QED
    BY <2>1, SameEntries DEF PrefixInv, PrefixTypeOK
<1> QED
  BY <1>2, <1>3, <1>4 DEF requestUpdateValidation

-----------------------------------------------------------------------------
(* Announcements.                                                          *)

\* The PC_Prefix a ROA finds or creates is exact.
LEMMA EntryForExact ==
    ASSUME PrefixInv, OneCopyEach, NEW p \in Prefixes
    PROVE  EntryFor(p) = ExactEntry(p)
<1>1. CASE p \in Stored
  BY <1>1, StoredExact DEF EntryFor, Stored
<1>2. CASE p \notin Stored
  <2>1. ~entry[p].stored
    BY <1>2 DEF Stored
  <2>2. /\ ParentState(p) = StateOf(Covering(p))
        /\ ParentState(p) = "notfound" => ReachingCover(p) = {}
        /\ ParentState(p) # "notfound" =>
              Reaching(p, Upwards(getParent(p), Covered)) = ReachingCover(p)
    BY <1>2, NewPrefix
  <2>3. ReachingCover(p) \in SUBSET ROAs /\ \A r \in ReachingCover(p) : roa[r].count = 1
    BY AtStored DEF ReachingCover, Covering, PrefixInv
  <2>4. Copies(ReachingCover(p)) = Cardinality(ReachingCover(p))
    BY <2>3, CopiesCounted
  <2>5. Cardinality(ReachingCover(p)) % CounterSize = Cardinality(ReachingCover(p))
    <3>1. Cardinality(ReachingCover(p)) \in Nat /\ Cardinality(ReachingCover(p)) < CounterSize
      BY <2>3, Countable
    <3> QED
      BY <3>1, PrefixAssumption
  <2>6. ReachingCover(p) = {} => Cardinality(ReachingCover(p)) = 0
    BY <2>3, Countable
  <2> QED
    BY <2>1, <2>2, <2>4, <2>5, <2>6 DEF EntryFor, ExactEntry
<1> QED
  BY <1>1, <1>2

\* What is covered and matched once r is in force too.
LEMMA CoverAdded ==
    ASSUME NEW r \in ROAs, roa[r].count = 0, roa'[r].count = 1,
           \A o \in ROAs \ {r} : roa'[o].count = roa[o].count
    PROVE  /\ \A q : /\ r \notin Covering(q)
                     /\ Covering(q)' = IF r.prefix \in Above[q] \cup {q} THEN Covering(q) \cup {r}
                                       ELSE Covering(q)
                     /\ ReachingCover(q)' =
                           IF r.prefix \in Above[q] \cup {q} /\ Reaches(r, q)
                           THEN ReachingCover(q) \cup {r} ELSE ReachingCover(q)
           /\ \A u : /\ r \notin MatchingOf(u)
                     /\ MatchingOf(u)' =
                           IF /\ r.prefix \in Above[PrefixOf[u]] \cup {PrefixOf[u]}
                              /\ Reaches(r, PrefixOf[u]) /\ r.as = OriginOf[u]
                           THEN MatchingOf(u) \cup {r} ELSE MatchingOf(u)
<1>1. \A q : /\ r \notin Covering(q)
            /\ Covering(q)' = IF r.prefix \in Above[q] \cup {q} THEN Covering(q) \cup {r}
                              ELSE Covering(q)
  BY DEF Covering
<1>2. \A q : ReachingCover(q)' =
                 IF r.prefix \in Above[q] \cup {q} /\ Reaches(r, q)
                 THEN ReachingCover(q) \cup {r} ELSE ReachingCover(q)
  BY <1>1 DEF ReachingCover, Reaches
<1>3. ASSUME NEW u
      PROVE  /\ r \notin MatchingOf(u)
             /\ MatchingOf(u)' =
                   IF /\ r.prefix \in Above[PrefixOf[u]] \cup {PrefixOf[u]}
                      /\ Reaches(r, PrefixOf[u]) /\ r.as = OriginOf[u]
                   THEN MatchingOf(u) \cup {r} ELSE MatchingOf(u)
  BY <1>1 DEF MatchingOf, Reaches
<1> QED
  BY <1>1, <1>2, <1>3

\* A walk down from p visits all but what lies below a prefix it stops at.
LEMMA Missed ==
    ASSUME NEW p \in Prefixes, NEW through, NEW q \in Subtree(p), q \notin Downwards(p, through)
    PROVE  \E a \in Subtree(p) : a \in Above[q] /\ a \in Prefixes /\ a \notin through
BY DEF Downwards, Subtree, Stored

LEMMA SubtreeFacts ==
    ASSUME NEW p \in Prefixes
    PROVE  /\ \A through : Downwards(p, through) \subseteq Subtree(p)
           /\ Subtree(p) \subseteq Stored \cup {p} /\ Subtree(p) \subseteq Prefixes
           /\ p \in Subtree(p) /\ \A through : p \in Downwards(p, through)
           /\ \A q \in Stored \cup {p} : q \in Subtree(p) <=> p \in Above[q] \cup {q}
<1>1. Subtree(p) \subseteq Stored \cup {p} /\ Subtree(p) \subseteq Prefixes /\ p \in Subtree(p)
  BY DEF Subtree, Stored
<1>2. ASSUME NEW a \in Subtree(p)
      PROVE  a \notin Above[p]
  <2>1. a = p \/ (a \in Prefixes /\ p \in Above[a])
    BY DEF Subtree, Stored
  <2> QED
    BY <2>1, Chain
<1>3. \A through : p \in Downwards(p, through) /\ Downwards(p, through) \subseteq Subtree(p)
  BY <1>1, <1>2 DEF Downwards
<1>4. ASSUME NEW q \in Stored \cup {p}
      PROVE  q \in Subtree(p) <=> p \in Above[q] \cup {q}
  BY Chain DEF Subtree
<1> QED
  BY <1>1, <1>3, <1>4

LEMMA AddStep ==
    ASSUME PrefixInv, OneCopyEach, NEW r \in ROAs, addROAwl(r)
    PROVE  PrefixInv'
<1> DEFINE p       == r.prefix
           known   == [entry EXCEPT ![p] = EntryFor(p)]
           through == {q \in Prefixes : Reaches(r, q) \/ known[q].state = "notfound"}
           visited == Downwards(p, through)
           matched == {u \in UpdatesAt({q \in visited : Reaches(r, q)}) : OriginOf[u] = r.as}
           changed == {u \in UpdatesAt({q \in visited : known[q].state = "notfound"}) :
                          update[u].list = "other"} \ matched
<1>1. /\ roa[r].count < MaxCopies
      /\ nodes' = nodes \cup {p}
      /\ entry' = [q \in Prefixes |->
            IF q \notin visited THEN known[q]
            ELSE [stored   |-> TRUE,
                  coverage |-> IF Reaches(r, q) THEN (known[q].coverage + 1) % CounterSize
                               ELSE known[q].coverage,
                  state    |-> "invalid"]]
      /\ roa' = [roa EXCEPT ![r] = [count |-> @.count + 1,
                                    updates |-> @.updates + Cardinality(matched)]]
      /\ update' = [u \in Updates |->
            IF u \in matched THEN [list |-> "valid", match |-> update[u].match + 1] ELSE update[u]]
      /\ result' = [u \in Updates |->
            IF u \in matched THEN "valid" ELSE IF u \in changed THEN "invalid" ELSE result[u]]
      /\ UNCHANGED crashed
  BY DEF addROAwl
<1>2. p \in Prefixes
  BY PrefixAssumption
<1>3. /\ nodes \subseteq Prefixes /\ entry \in [Prefixes -> Entry] /\ roa \in [ROAs -> ROA]
      /\ update \in [Updates -> Update]
      /\ result \in [Updates -> {"none", "valid", "invalid", "notfound"}] /\ crashed \in BOOLEAN
  BY DEF PrefixInv, PrefixTypeOK
<1>4. roa[r].count = 0 /\ roa[r].updates \in Nat
  BY <1>1, <1>3, PrefixAssumption DEF OneCopyEach, PrefixInv, TreeInv, ROA
<1>5. /\ \A q \in Stored \cup {p} : known[q] = ExactEntry(q)
      /\ known \in [Prefixes -> Entry]
      /\ \A q \in Prefixes \ {p} : known[q] = entry[q]
  <2>1. known[p] = ExactEntry(p)
    BY <1>2, <1>3, EntryForExact
  <2>2. \A q \in Prefixes \ {p} : known[q] = entry[q]
    BY <1>2, <1>3
  <2>3. \A q \in Stored : entry[q] = ExactEntry(q) /\ q \in Prefixes
    BY StoredExact DEF Stored
  <2>4. EntryFor(p) \in Entry
    BY <1>2, EntryForExact, ExactEntryTyped
  <2>5. known \in [Prefixes -> Entry]
    BY <1>2, <1>3, <2>4
  <2> QED
    BY <2>1, <2>2, <2>3, <2>5
<1>6. visited \subseteq Subtree(p) /\ p \in visited
  BY <1>2, SubtreeFacts
<1>7. \A u \in Updates : u \in matched <=>
          /\ u \in Listed /\ PrefixOf[u] \in visited /\ Reaches(r, PrefixOf[u])
          /\ OriginOf[u] = r.as
  BY DEF UpdatesAt, Listed
<1>8. \A u \in Updates : u \in changed <=>
          /\ u \in Listed /\ PrefixOf[u] \in visited /\ known[PrefixOf[u]].state = "notfound"
          /\ update[u].list = "other" /\ u \notin matched
  BY DEF UpdatesAt, Listed
<1>9. matched \in SUBSET Updates
  BY DEF UpdatesAt
<1> HIDE DEF known, matched, changed
<1>10. ASSUME NEW q \in Subtree(p), q \notin visited
       PROVE  ~Reaches(r, q) /\ Covering(q) # {} /\ q # p
  <2>1. PICK a \in Subtree(p) : a \in Above[q] /\ a \in Prefixes /\ a \notin through
    BY <1>2, <1>10, Missed
  <2>2. q \in Prefixes /\ a \in Stored \cup {p}
    BY <1>2, SubtreeFacts
  <2>3. ~Reaches(r, a) /\ known[a].state # "notfound"
    BY <2>1
  <2>4. Covering(a) # {}
    <3>1. known[a] = ExactEntry(a)
      BY <1>5, <2>2
    <3>2. StateOf(Covering(a)) # "notfound"
      BY <2>3, <3>1 DEF ExactEntry
    <3> QED
      BY <3>2 DEF StateOf
  <2> QED
    BY <1>6, <1>10, <2>1, <2>2, <2>3, <2>4, CoverBelow
<1> HIDE DEF through, visited
<1>11. /\ roa'[r] = [count |-> 1, updates |-> roa[r].updates + Cardinality(matched)]
       /\ \A o \in ROAs \ {r} : roa'[o] = roa[o]
       /\ Cardinality(matched) \in Nat
       /\ roa' \in [ROAs -> ROA]
  <2>1. Cardinality(matched) \in Nat
    BY <1>9, Countable
  <2>2. roa'[r] = [count |-> 1, updates |-> roa[r].updates + Cardinality(matched)]
    BY <1>1, <1>3, <1>4
  <2>3. \A o \in ROAs \ {r} : roa'[o] = roa[o]
    BY <1>1, <1>3
  <2>4. roa'[r] \in ROA
    BY <1>4, <2>1, <2>2 DEF ROA
  <2> QED
    BY <1>1, <1>3, <2>1, <2>2, <2>3, <2>4
<1>12. /\ \A q : /\ r \notin Covering(q)
                 /\ Covering(q)' = IF p \in Above[q] \cup {q} THEN Covering(q) \cup {r}
                                   ELSE Covering(q)
                 /\ ReachingCover(q)' =
                       IF p \in Above[q] \cup {q} /\ Reaches(r, q)
                       THEN ReachingCover(q) \cup {r} ELSE ReachingCover(q)
       /\ \A u : /\ r \notin MatchingOf(u)
                 /\ MatchingOf(u)' =
                       IF /\ p \in Above[PrefixOf[u]] \cup {PrefixOf[u]}
                          /\ Reaches(r, PrefixOf[u]) /\ r.as = OriginOf[u]
                       THEN MatchingOf(u) \cup {r} ELSE MatchingOf(u)
  BY <1>4, <1>11, CoverAdded
<1>13. ASSUME NEW q \in Stored \cup {p}
       PROVE  /\ entry'[q].stored
              /\ entry'[q].coverage = Cardinality(ReachingCover(q)')
              /\ entry'[q].state = StateOf(Covering(q)')
              /\ entry'[q] \in Entry
  <2>1. q \in Prefixes /\ (q \in Subtree(p) <=> p \in Above[q] \cup {q})
    BY <1>2, SubtreeFacts DEF Stored
  <2>2. known[q] = [stored |-> TRUE, coverage |-> Cardinality(ReachingCover(q)),
                    state |-> StateOf(Covering(q))]
    BY <1>5 DEF ExactEntry
  <2>3. /\ entry'[q].stored
        /\ entry'[q].coverage = Cardinality(ReachingCover(q)')
        /\ entry'[q].state = StateOf(Covering(q)')
    <3>1. CASE q \in visited
      <4>1. Covering(q)' = Covering(q) \cup {r}
        BY <1>6, <1>12, <2>1, <3>1
      <4>2. StateOf(Covering(q)') = "invalid"
        BY <4>1 DEF StateOf
      <4>3. CASE Reaches(r, q)
        <5>1. ReachingCover(q)' = ReachingCover(q) \cup {r} /\ r \notin ReachingCover(q)
          BY <1>6, <1>12, <2>1, <3>1, <4>3 DEF ReachingCover
        <5>2. /\ ReachingCover(q) \cup {r} \in SUBSET ROAs /\ IsFiniteSet(ReachingCover(q))
              /\ Cardinality(ReachingCover(q)) \in Nat
              /\ Cardinality(ReachingCover(q) \cup {r}) < CounterSize
          BY Sets, Countable
        <5>3. Cardinality(ReachingCover(q) \cup {r}) = Cardinality(ReachingCover(q)) + 1
          BY <5>1, <5>2, FS_AddElement
        <5>4. (Cardinality(ReachingCover(q)) + 1) % CounterSize = Cardinality(ReachingCover(q)) + 1
          BY <5>2, <5>3, PrefixAssumption
        <5>5. entry'[q] = [stored |-> TRUE, coverage |-> (known[q].coverage + 1) % CounterSize,
                           state |-> "invalid"]
          BY <1>1, <2>1, <3>1, <4>3
        <5>6. known[q].coverage = Cardinality(ReachingCover(q))
          BY <2>2
        <5> QED
          BY <4>2, <5>1, <5>3, <5>4, <5>5, <5>6
      <4>4. CASE ~Reaches(r, q)
        <5>1. ReachingCover(q)' = ReachingCover(q)
          BY <1>12, <4>4
        <5>2. entry'[q] = [stored |-> TRUE, coverage |-> known[q].coverage, state |-> "invalid"]
          BY <1>1, <2>1, <3>1, <4>4
        <5>3. known[q].coverage = Cardinality(ReachingCover(q))
          BY <2>2
        <5> QED
          BY <4>2, <5>1, <5>2, <5>3
      <4> QED
        BY <4>3, <4>4
    <3>2. CASE q \notin visited
      <4>1. entry'[q] = known[q]
        BY <1>1, <2>1, <3>2
      <4>2. CASE q \in Subtree(p)
        <5>1. ~Reaches(r, q) /\ Covering(q) # {}
          BY <1>10, <3>2, <4>2
        <5>2. ReachingCover(q)' = ReachingCover(q) /\ StateOf(Covering(q)') = StateOf(Covering(q))
          BY <1>12, <5>1 DEF StateOf
        <5> QED
          BY <2>2, <4>1, <5>2
      <4>3. CASE q \notin Subtree(p)
        BY <1>12, <2>1, <2>2, <4>1, <4>3
      <4> QED
        BY <4>2, <4>3
    <3> QED
      BY <3>1, <3>2
  <2>4. Cardinality(ReachingCover(q)') \in 0 .. CounterSize - 1
    <3>1. ReachingCover(q)' \in SUBSET ROAs
      BY <1>12, Sets
    <3> QED
      BY <3>1, Countable, PrefixAssumption
  <2>5. entry'[q] \in Entry
    <3>1. known[q] \in Entry
      BY <1>5, <2>1
    <3>2. \E c, t : entry'[q] = [stored |-> TRUE, coverage |-> c, state |-> t] \/ entry'[q] = known[q]
      BY <1>1, <2>1
    <3>3. entry'[q].state \in {"notfound", "invalid"}
      BY <2>3 DEF StateOf
    <3> QED
      BY <2>3, <2>4, <3>1, <3>2, <3>3 DEF Entry
  <2> QED
    BY <2>3, <2>5
<1>14. /\ \A q \in Prefixes \ (Stored \cup {p}) : entry'[q] = entry[q]
       /\ Stored' = Stored \cup {p}
       /\ entry' \in [Prefixes -> Entry]
  <2>1. ASSUME NEW q \in Prefixes \ (Stored \cup {p})
        PROVE  entry'[q] = entry[q]
    <3>1. q \notin visited
      BY <1>2, <1>6, SubtreeFacts
    <3> QED
      BY <1>1, <1>5, <3>1
  <2>2. Stored' = Stored \cup {p}
    BY <1>2, <1>13, <2>1 DEF Stored
  <2>3. ASSUME NEW q \in Prefixes
        PROVE  entry'[q] \in Entry
    BY <1>3, <1>13, <2>1
  <2> QED
    BY <1>1, <2>1, <2>2, <2>3
<1>15. ASSUME NEW u \in Listed
       PROVE  /\ u \in Updates /\ PrefixOf[u] \in Stored /\ PrefixOf[u] \in Prefixes
              /\ u \in matched <=> r \in MatchingOf(u)'
              /\ update[u].list = IF MatchingOf(u) = {} THEN "other" ELSE "valid"
              /\ update[u].match = Cardinality(MatchingOf(u))
  <2>1. u \in Updates /\ PrefixOf[u] \in Stored /\ PrefixOf[u] \in Prefixes
    BY PrefixAssumption DEF Listed, PrefixInv, TreeInv, Stored
  <2>2. PrefixOf[u] \in Subtree(p) <=> p \in Above[PrefixOf[u]] \cup {PrefixOf[u]}
    BY <1>2, <2>1, SubtreeFacts
  <2>3. u \in matched => r \in MatchingOf(u)'
    BY <1>6, <1>7, <1>12, <2>1, <2>2
  <2>4. r \in MatchingOf(u)' => u \in matched
    BY <1>7, <1>10, <1>12, <2>1, <2>2
  <2> QED
    BY <2>1, <2>3, <2>4 DEF PrefixInv, MatchInv
<1>16. \A u \in matched : u \in Listed
  BY <1>7, <1>9
<1>17. /\ \A u \in matched : update'[u] = [list |-> "valid", match |-> update[u].match + 1]
       /\ \A u \in Updates \ matched : update'[u] = update[u]
       /\ update' \in [Updates -> Update]
       /\ Listed' = Listed
  <2>1. \A u \in matched : update'[u] = [list |-> "valid", match |-> update[u].match + 1]
    BY <1>1, <1>9
  <2>2. \A u \in Updates \ matched : update'[u] = update[u]
    BY <1>1
  <2>3. ASSUME NEW u \in Updates
        PROVE  update'[u] \in Update
    <3>1. update[u].match \in Nat /\ update[u] \in Update
      BY <1>3 DEF Update
    <3>2. CASE u \in matched
      <4>1. update'[u] = [list |-> "valid", match |-> update[u].match + 1]
        BY <2>1, <3>2
      <4>2. update[u].match + 1 \in Nat
        BY <3>1
      <4> QED
        BY <4>1, <4>2 DEF Update
    <3>3. CASE u \notin matched
      BY <2>2, <3>1, <3>3
    <3> QED
      BY <3>2, <3>3
  <2>4. Listed' = Listed
    <3>1. ASSUME NEW u \in matched
          PROVE  u \in Updates /\ update[u].list # "none" /\ update'[u].list # "none"
      <4>1. u \in Updates /\ update[u].list # "none"
        BY <1>16 DEF Listed
      <4>2. update'[u] = [list |-> "valid", match |-> update[u].match + 1]
        BY <2>1
      <4> QED
        BY <4>1, <4>2
    <3> QED
      BY <2>2, <3>1 DEF Listed
  <2> QED
    BY <1>1, <2>1, <2>2, <2>3, <2>4
<1>18. PrefixTypeOK'
  <2>1. nodes' \subseteq Prefixes
    BY <1>1, <1>2, <1>3
  <2>2. result' \in [Updates -> {"none", "valid", "invalid", "notfound"}]
    BY <1>1, <1>3
  <2> QED
    BY <1>1, <1>3, <1>11, <1>14, <1>17, <2>1, <2>2 DEF PrefixTypeOK
<1>19. TreeInv'
  <2>1. Stored' \subseteq nodes'
    BY <1>1, <1>14 DEF PrefixInv, TreeInv
  <2>2. \A o \in ROAs : roa'[o].count \in {0, 1}
    BY <1>11 DEF PrefixInv, TreeInv
  <2>3. \A q \in Stored \cup {p} : entry'[q].stored
    BY <1>13
  <2>4. \A o \in ROAs : roa'[o].count = 1 => entry'[o.prefix].stored
    BY <1>11, <2>3, PrefixAssumption DEF PrefixInv, TreeInv, Stored
  <2>5. \A u \in Listed' : entry'[PrefixOf[u]].stored
    BY <1>15, <1>17, <2>3
  <2> QED
    BY <2>1, <2>2, <2>4, <2>5 DEF TreeInv
<1>20. CoverInv'
  <2> SUFFICES ASSUME NEW q \in Stored'
               PROVE  /\ entry'[q].coverage = Cardinality(ReachingCover(q)')
                      /\ entry'[q].state = StateOf(Covering(q)')
    BY DEF CoverInv, StateOf
  <2> QED
    BY <1>13, <1>14
<1>21. MatchInv'
  <2>1. ASSUME NEW u \in Listed
        PROVE  /\ update'[u].match = Cardinality(MatchingOf(u)')
               /\ update'[u].list = IF MatchingOf(u)' = {} THEN "other" ELSE "valid"
    <3>1. CASE u \in matched
      <4>1. MatchingOf(u)' = MatchingOf(u) \cup {r} /\ r \notin MatchingOf(u)
        BY <1>12, <1>15, <3>1
      <4>2. IsFiniteSet(MatchingOf(u))
        BY Sets, Countable
      <4>3. Cardinality(MatchingOf(u) \cup {r}) = Cardinality(MatchingOf(u)) + 1
        BY <4>1, <4>2, FS_AddElement
      <4>4. update'[u] = [list |-> "valid", match |-> update[u].match + 1]
        BY <1>17, <3>1
      <4>5. update[u].match = Cardinality(MatchingOf(u)) /\ MatchingOf(u)' # {}
        BY <1>15, <4>1
      <4> QED
        BY <4>1, <4>3, <4>4, <4>5
    <3>2. CASE u \notin matched
      <4>1. MatchingOf(u)' = MatchingOf(u)
        BY <1>12, <1>15, <3>2
      <4> QED
        BY <1>15, <1>17, <3>2, <4>1
    <3> QED
      BY <3>1, <3>2
  <2>2. ASSUME NEW o \in ROAs
        PROVE  roa'[o].updates >= Cardinality(ListedFor(o)')
    <3>1. CASE o = r
      <4>1. ListedFor(r)' = matched
        BY <1>9, <1>15, <1>16, <1>17 DEF ListedFor
      <4> QED
        BY <1>4, <1>11, <3>1, <4>1
    <3>2. CASE o # r
      <4>1. ListedFor(o)' = ListedFor(o)
        BY <1>12, <1>17, <3>2 DEF ListedFor
      <4> QED
        BY <1>11, <3>2, <4>1 DEF PrefixInv, MatchInv
    <3> QED
      BY <3>1, <3>2
  <2> QED
    BY <1>17, <2>1, <2>2 DEF MatchInv
<1>22. ResultInv'
  <2> SUFFICES ASSUME NEW u \in Updates
               PROVE  result'[u] = IF update'[u].list = "none" THEN "none"
                                   ELSE IF update'[u].list = "valid" THEN "valid"
                                   ELSE entry'[PrefixOf[u]].state
    BY DEF ResultInv
  <2>1. result[u] = IF update[u].list = "none" THEN "none"
                    ELSE IF update[u].list = "valid" THEN "valid"
                    ELSE entry[PrefixOf[u]].state
    BY DEF PrefixInv, ResultInv
  <2>2. CASE u \in matched
    BY <1>1, <1>17, <2>2
  <2>3. CASE u \notin matched /\ u \in changed
    <3>1. PrefixOf[u] \in visited /\ update'[u].list = "other"
      BY <1>8, <1>17, <2>3
    <3>2. entry'[PrefixOf[u]].state = "invalid"
      BY <1>1, <3>1, PrefixAssumption
    <3> QED
      BY <1>1, <2>3, <3>1, <3>2
  <2>4. CASE u \notin matched /\ u \notin changed
    <3>1. result'[u] = result[u] /\ update'[u] = update[u]
      BY <1>1, <1>17, <2>4
    <3>2. ASSUME update[u].list # "none", update[u].list # "valid"
          PROVE  entry'[PrefixOf[u]].state = entry[PrefixOf[u]].state
      <4>1. u \in Listed
        BY <3>2 DEF Listed
      <4>2. update[u].list = "other" /\ PrefixOf[u] \in Stored /\ PrefixOf[u] \in Prefixes
        BY <1>15, <3>2, <4>1
      <4>3. known[PrefixOf[u]] = entry[PrefixOf[u]]
        BY <1>5, <4>2, StoredExact
      <4>4. CASE PrefixOf[u] \in visited
        <5>1. known[PrefixOf[u]].state # "notfound"
          BY <1>8, <2>4, <4>1, <4>2, <4>4
        <5>2. entry[PrefixOf[u]].state \in {"notfound", "invalid"}
          BY <1>3, <4>2 DEF Entry
        <5> QED
          BY <1>1, <4>2, <4>3, <4>4, <5>1, <5>2
      <4>5. CASE PrefixOf[u] \notin visited
        BY <1>1, <4>2, <4>3, <4>5
      <4> QED
        BY <4>4, <4>5
    <3> QED
      BY <2>1, <3>1, <3>2
  <2> QED
    BY <2>2, <2>3, <2>4
<1> QED
  BY <1>18, <1>19, <1>20, <1>21, <1>22 DEF PrefixInv

-----------------------------------------------------------------------------
(* Withdrawals.                                                            *)

\* roa_coverage is decremented without wrapping.
LEMMA Decrement ==
    ASSUME NEW c \in Nat, NEW m \in Nat, 0 < c, c < m
    PROVE  (c + m - 1) % m = c - 1
<1>1. c + m - 1 = m * 1 + (c - 1) /\ c - 1 \in Nat /\ c - 1 < m
  OBVIOUS
<1> QED
  BY <1>1

LEMMA LeftExact ==
    ASSUME PrefixInv, OneCopyEach, NEW r \in ROAs, roa[r].count = 1, NEW q \in Subtree(r.prefix)
    PROVE  /\ q \in Stored /\ q \in Prefixes /\ r \in Covering(q)
           /\ Left(r, q) = Cardinality(ReachingCover(q) \ {r})
<1>1. q \in Stored /\ q \in Prefixes /\ r.prefix \in Above[q] \cup {q}
  BY PrefixAssumption DEF Subtree, PrefixInv, TreeInv, Stored
<1>2. r \in Covering(q)
  BY <1>1 DEF Covering
<1>3. entry[q].coverage = Cardinality(ReachingCover(q))
  BY <1>1 DEF PrefixInv, CoverInv
<1>4. CASE Reaches(r, q)
  <2>1. r \in ReachingCover(q)
    BY <1>2, <1>4 DEF ReachingCover
  <2>2. /\ IsFiniteSet(ReachingCover(q)) /\ Cardinality(ReachingCover(q)) \in Nat
        /\ Cardinality(ReachingCover(q)) < CounterSize /\ Cardinality(ReachingCover(q)) # 0
    BY <2>1, Sets, Countable
  <2>3. Cardinality(ReachingCover(q) \ {r}) = Cardinality(ReachingCover(q)) - 1
    BY <2>1, <2>2, FS_RemoveElement
  <2>4. (Cardinality(ReachingCover(q)) + CounterSize - 1) % CounterSize
          = Cardinality(ReachingCover(q)) - 1
    BY <2>2, Decrement, PrefixAssumption
  <2> QED
    BY <1>1, <1>2, <1>3, <1>4, <2>3, <2>4 DEF Left
<1>5. CASE ~Reaches(r, q)
  <2>1. ReachingCover(q) \ {r} = ReachingCover(q)
    BY <1>5 DEF ReachingCover
  <2> QED
    BY <1>1, <1>2, <1>3, <1>5, <2>1 DEF Left
<1> QED
  BY <1>4, <1>5

\* One step of the walk finds the state of a prefix from that of the one above.
LEMMA StateFromAbove ==
    ASSUME PrefixInv, OneCopyEach, NEW r \in ROAs, roa[r].count = 1, NEW q \in Subtree(r.prefix)
    PROVE  LET others == {o \in Covering(q) \ {r} : o.prefix \in Above[q]}
           IN  StateOf(Covering(q) \ {r}) =
                 IF StateOf(others) = "notfound" /\ Left(r, q) = 0 THEN "notfound" ELSE entry[q].state
<1> DEFINE others == {o \in Covering(q) \ {r} : o.prefix \in Above[q]}
<1>1. /\ q \in Stored /\ q \in Prefixes /\ r \in Covering(q)
      /\ Left(r, q) = Cardinality(ReachingCover(q) \ {r})
  BY LeftExact
<1>2. entry[q].state = "invalid"
  BY <1>1 DEF PrefixInv, CoverInv, StateOf
<1>3. Left(r, q) = 0 <=> ReachingCover(q) \ {r} = {}
  BY <1>1, Sets, Countable
<1>4. ASSUME NEW o \in Covering(q) \ {r}
      PROVE  o \in others \/ o \in ReachingCover(q) \ {r}
  <2>1. CASE o.prefix \in Above[q]
    BY <2>1
  <2>2. CASE o.prefix \notin Above[q]
    <3>1. o.prefix = q /\ o \in ROAs
      BY <2>2 DEF Covering
    <3>2. Reaches(o, q)
      BY <3>1, PrefixAssumption DEF Reaches
    <3> QED
      BY <3>2 DEF ReachingCover
  <2> QED
    BY <2>1, <2>2
<1>5. others \subseteq Covering(q) \ {r} /\ ReachingCover(q) \ {r} \subseteq Covering(q) \ {r}
  BY DEF ReachingCover
<1>6. StateOf(others) = "notfound" <=> others = {}
  BY DEF StateOf
<1> HIDE DEF others
<1>7. CASE others = {} /\ ReachingCover(q) \ {r} = {}
  <2>1. Covering(q) \ {r} = {}
    BY <1>4, <1>7
  <2> QED
    BY <1>3, <1>6, <1>7, <2>1 DEF StateOf, others
<1>8. CASE ~(others = {} /\ ReachingCover(q) \ {r} = {})
  <2>1. Covering(q) \ {r} # {}
    BY <1>5, <1>8
  <2> QED
    BY <1>2, <1>3, <1>6, <1>8, <2>1 DEF StateOf, others
<1> QED
  BY <1>7, <1>8

\* The states the walk leaves are those the other ROAs give.
LEMMA StateAfterExact ==
    ASSUME PrefixInv, OneCopyEach, NEW r \in ROAs, roa[r].count = 1
    PROVE  \A q \in Subtree(r.prefix) : StateAfter(r)[q] = StateOf(Covering(q) \ {r})
<1> DEFINE p == r.prefix
           From(s, q) == IF q = p THEN ParentState(p) ELSE s[getParent(q)]
           Solves(s) == s = [q \in Subtree(p) |->
               IF From(s, q) = "notfound" /\ Left(r, q) = 0 THEN "notfound" ELSE entry[q].state]
           exact == [q \in Subtree(p) |-> StateOf(Covering(q) \ {r})]
           after == CHOOSE s : Solves(s)
<1>1. p \in Prefixes
  BY PrefixAssumption
<1>2. ASSUME NEW q \in Subtree(p), q # p
      PROVE  /\ getParent(q) \in Subtree(p)
             /\ PLen[getParent(q)] \in Nat /\ PLen[q] \in Nat /\ PLen[getParent(q)] < PLen[q]
             /\ Covering(getParent(q)) = {o \in Covering(q) : o.prefix \in Above[q]}
  <2>1. q \in Prefixes /\ p \in Above[q] /\ p \in Stored
    BY <1>1, <1>2 DEF Subtree, Stored, PrefixInv, TreeInv
  <2>2. p \in Ancestors(q)
    BY <2>1 DEF Ancestors
  <2>3. getParent(q) \in Prefixes /\ (p = getParent(q) \/ p \in Above[getParent(q)])
    BY <2>1, <2>2, Parent
  <2>4. /\ getParent(q) \in Stored /\ getParent(q) \in Above[q]
        /\ Covering(getParent(q)) = {o \in Covering(q) : o.prefix \in Above[q]}
    BY <2>1, <2>2, ParentCovers
  <2>5. getParent(q) \in Subtree(p)
    BY <2>3, <2>4 DEF Subtree
  <2> QED
    BY <2>1, <2>3, <2>4, <2>5, Chain
<1>3. ASSUME NEW s, NEW q \in Subtree(p),
             q # p => s[getParent(q)] = StateOf(Covering(getParent(q)) \ {r})
      PROVE  StateOf(Covering(q) \ {r}) =
               IF From(s, q) = "notfound" /\ Left(r, q) = 0 THEN "notfound" ELSE entry[q].state
  <2> DEFINE others == {o \in Covering(q) \ {r} : o.prefix \in Above[q]}
  <2>1. From(s, q) = StateOf(others)
    <3>1. CASE q = p
      <4>1. {o \in Covering(q) : o.prefix \in Above[q]} = others
        BY <1>1, <3>1, Chain
      <4> QED
        BY <1>1, <3>1, <4>1, StateOfParent
    <3>2. CASE q # p
      <4>1. Covering(getParent(q)) \ {r} = others
        BY <1>2, <3>2
      <4> QED
        BY <1>3, <3>2, <4>1
    <3> QED
      BY <3>1, <3>2
  <2> HIDE DEF From
  <2> QED
    BY <2>1, StateFromAbove
<1> HIDE DEF From
<1>4. Solves(exact)
  <2> SUFFICES ASSUME NEW q \in Subtree(p)
               PROVE  StateOf(Covering(q) \ {r}) =
                        IF From(exact, q) = "notfound" /\ Left(r, q) = 0 THEN "notfound"
                        ELSE entry[q].state
    BY Zenon
  <2>1. q # p => exact[getParent(q)] = StateOf(Covering(getParent(q)) \ {r})
    BY <1>2
  <2> HIDE DEF exact
  <2> QED
    BY <1>3, <2>1
<1>5. Solves(after)
  BY <1>4
<1> HIDE DEF after
<1>6. ASSUME NEW q \in Subtree(p)
      PROVE  after[q] = IF From(after, q) = "notfound" /\ Left(r, q) = 0 THEN "notfound"
                        ELSE entry[q].state
  BY <1>5
<1>7. \A q \in Subtree(p) : after[q] = StateOf(Covering(q) \ {r})
  <2> DEFINE Bad == {n \in Nat : \E q \in Subtree(p) :
                        PLen[q] = n /\ after[q] # StateOf(Covering(q) \ {r})}
  <2> SUFFICES ASSUME Bad # {}
               PROVE  FALSE
    BY <1>1, SubtreeFacts, Chain
  <2>1. PICK n \in Bad : \A m \in Bad : n <= m
    BY Smallest
  <2>2. PICK q \in Subtree(p) : PLen[q] = n /\ after[q] # StateOf(Covering(q) \ {r})
    BY <2>1
  <2>3. ASSUME q # p
        PROVE  after[getParent(q)] = StateOf(Covering(getParent(q)) \ {r})
    <3>1. /\ getParent(q) \in Subtree(p) /\ PLen[getParent(q)] \in Nat
          /\ PLen[q] \in Nat /\ PLen[getParent(q)] < PLen[q]
      BY <1>2, <2>3
    <3>2. PLen[getParent(q)] \notin Bad
      BY <2>1, <2>2, <3>1
    <3> QED
      BY <3>1, <3>2
  <2> QED
    BY <1>3, <1>6, <2>2, <2>3
<1>8. StateAfter(r) = after
  BY DEF StateAfter, after, From
<1> QED
  BY <1>7, <1>8

\* What is covered and matched once r is not in force any more.
LEMMA CoverRemoved ==
    ASSUME NEW r \in ROAs, roa'[r].count = 0,
           \A o \in ROAs \ {r} : roa'[o].count = roa[o].count
    PROVE  /\ \A q : /\ Covering(q)' = Covering(q) \ {r}
                     /\ ReachingCover(q)' = ReachingCover(q) \ {r}
           /\ \A u : MatchingOf(u)' = MatchingOf(u) \ {r}
<1>1. \A q : Covering(q)' = Covering(q) \ {r}
  BY DEF Covering
<1>2. \A q : ReachingCover(q)' = ReachingCover(q) \ {r}
  BY <1>1 DEF ReachingCover, Reaches
<1>3. \A u : MatchingOf(u)' = MatchingOf(u) \ {r}
  BY <1>1 DEF MatchingOf, Reaches
<1> QED
  BY <1>1, <1>2, <1>3

LEMMA WithdrawStep ==
    ASSUME PrefixInv, OneCopyEach, NEW r \in ROAs, WithdrawKnown(r)
    PROVE  PrefixInv'
<1> DEFINE p         == r.prefix
           after     == StateAfter(r)
           cleared   == {q \in Subtree(p) : after[q] = "notfound" /\ Left(r, q) = 0}
           visited   == Downwards(p, {q \in Prefixes : Reaches(r, q)} \cup cleared)
           candidates == {u \in UpdatesAt({q \in visited : Reaches(r, q)}) :
                             update[u].list = "valid" /\ OriginOf[u] = r.as}
           changed   == {u \in UpdatesAt(visited \cap cleared) : update[u].list = "other"}
           unused    == /\ roa[r].count = 1 /\ UpdatesAt({p}) = {}
                        /\ \A o \in ROAs \ {r} : o.prefix = p => roa[o].count = 0
<1>1. PICK dropped \in SUBSET candidates :
        /\ roa[r].count > 0
        /\ entry' = [q \in Prefixes |->
              IF q = p /\ unused THEN NoEntry
              ELSE IF q \notin visited THEN entry[q]
              ELSE [stored |-> TRUE, coverage |-> Left(r, q), state |-> after[q]]]
        /\ roa' = [roa EXCEPT ![r] =
              [count |-> @.count - 1, updates |-> IF roa[r].count = 1 THEN 0 ELSE @.updates]]
        /\ Cardinality(dropped) = Limit(r, Cardinality(candidates))
        /\ update' = [u \in Updates |->
              IF u \notin dropped THEN update[u]
              ELSE [list  |-> IF update[u].match = 1 THEN "other" ELSE "valid",
                    match |-> update[u].match - 1]]
        /\ result' = [u \in Updates |->
              IF u \in changed \/ (u \in dropped /\ update[u].match = 1)
              THEN after[PrefixOf[u]] ELSE result[u]]
        /\ UNCHANGED <<nodes, crashed>>
  BY DEF WithdrawKnown
<1>2. p \in Prefixes
  BY PrefixAssumption
<1>3. /\ nodes \subseteq Prefixes /\ entry \in [Prefixes -> Entry] /\ roa \in [ROAs -> ROA]
      /\ update \in [Updates -> Update]
      /\ result \in [Updates -> {"none", "valid", "invalid", "notfound"}] /\ crashed \in BOOLEAN
  BY DEF PrefixInv, PrefixTypeOK
<1>4. roa[r].count = 1 /\ p \in Stored
  BY <1>1, <1>2 DEF PrefixInv, TreeInv, Stored
<1>5. Subtree(p) \subseteq Stored /\ visited \subseteq Subtree(p)
  BY <1>2, <1>4, SubtreeFacts
<1>6. ASSUME NEW q \in Subtree(p)
      PROVE  /\ after[q] = StateOf(Covering(q) \ {r})
             /\ Left(r, q) = Cardinality(ReachingCover(q) \ {r})
             /\ Left(r, q) \in 0 .. CounterSize - 1
             /\ q \in cleared <=> Covering(q) \ {r} = {}
             /\ q \in Prefixes /\ r \in Covering(q)
  <2>1. after[q] = StateOf(Covering(q) \ {r})
    BY <1>4, StateAfterExact
  <2>2. Left(r, q) = Cardinality(ReachingCover(q) \ {r}) /\ q \in Prefixes /\ r \in Covering(q)
    BY <1>4, LeftExact
  <2>3. Left(r, q) \in 0 .. CounterSize - 1 /\ (Left(r, q) = 0 <=> ReachingCover(q) \ {r} = {})
    <3>1. ReachingCover(q) \ {r} \in SUBSET ROAs
      BY Sets
    <3> QED
      BY <2>2, <3>1, Countable, PrefixAssumption
  <2>4. after[q] = "notfound" <=> Covering(q) \ {r} = {}
    BY <2>1 DEF StateOf
  <2>5. ReachingCover(q) \subseteq Covering(q)
    BY DEF ReachingCover
  <2> QED
    BY <2>1, <2>2, <2>3, <2>4, <2>5
<1>7. ASSUME NEW q \in Subtree(p), q \notin visited
      PROVE  ~Reaches(r, q) /\ Covering(q) \ {r} # {}
  <2>1. PICK a \in Subtree(p) : /\ a \in Above[q] /\ a \in Prefixes
                              /\ a \notin {b \in Prefixes : Reaches(r, b)} \cup cleared
    BY <1>2, <1>7, Missed
  <2>2. ~Reaches(r, a) /\ Covering(a) \ {r} # {}
    BY <1>6, <2>1
  <2> QED
    BY <1>6, <2>1, <2>2, CoverBelow
<1>8. \A u \in Updates : u \in candidates <=>
          /\ u \in Listed /\ PrefixOf[u] \in visited /\ Reaches(r, PrefixOf[u])
          /\ update[u].list = "valid" /\ OriginOf[u] = r.as
  BY DEF UpdatesAt, Listed
<1>9. \A u \in Updates : u \in changed <=>
          /\ u \in Listed /\ PrefixOf[u] \in visited /\ PrefixOf[u] \in cleared
          /\ update[u].list = "other"
  BY DEF UpdatesAt, Listed
<1>10. candidates \in SUBSET Updates
  BY DEF UpdatesAt
<1>11. unused => /\ \A u \in Listed : PrefixOf[u] # p
                 /\ \A o \in ROAs \ {r} : o.prefix = p => roa[o].count = 0
  BY DEF UpdatesAt, Listed
<1> HIDE DEF after, cleared, visited, candidates, changed, unused
<1>12. /\ roa'[r] = [count |-> 0, updates |-> 0]
       /\ \A o \in ROAs \ {r} : roa'[o] = roa[o]
       /\ roa' \in [ROAs -> ROA]
  <2>1. roa'[r] = [count |-> 0, updates |-> 0]
    BY <1>1, <1>3, <1>4
  <2>2. \A o \in ROAs \ {r} : roa'[o] = roa[o]
    BY <1>1, <1>3
  <2>3. roa'[r] \in ROA
    BY <2>1 DEF ROA
  <2> QED
    BY <1>1, <1>3, <2>1, <2>2, <2>3
<1>13. /\ \A q : /\ Covering(q)' = Covering(q) \ {r}
                 /\ ReachingCover(q)' = ReachingCover(q) \ {r}
       /\ \A u : MatchingOf(u)' = MatchingOf(u) \ {r}
  BY <1>12, CoverRemoved
<1>14. ASSUME NEW q \in Stored, ~(q = p /\ unused)
       PROVE  /\ entry'[q].stored
              /\ entry'[q].coverage = Cardinality(ReachingCover(q)')
              /\ entry'[q].state = StateOf(Covering(q)')
              /\ entry'[q] \in Entry
  <2>1. q \in Prefixes /\ (q \in Subtree(p) <=> p \in Above[q] \cup {q})
    BY <1>2, SubtreeFacts DEF Stored
  <2>2. /\ entry[q].stored /\ entry[q].coverage = Cardinality(ReachingCover(q))
        /\ entry[q].state = StateOf(Covering(q)) /\ entry[q] \in Entry
    BY <1>3, <2>1 DEF PrefixInv, CoverInv, Stored
  <2>3. CASE q \in visited
    <3>1. entry'[q] = [stored |-> TRUE, coverage |-> Left(r, q), state |-> after[q]]
      BY <1>1, <1>14, <2>1, <2>3
    <3>2. /\ after[q] = StateOf(Covering(q)') /\ Left(r, q) = Cardinality(ReachingCover(q)')
          /\ Left(r, q) \in 0 .. CounterSize - 1
      BY <1>5, <1>6, <1>13, <2>3
    <3>3. after[q] \in {"notfound", "invalid"}
      BY <3>2 DEF StateOf
    <3> QED
      BY <3>1, <3>2, <3>3 DEF Entry
  <2>4. CASE q \notin visited
    <3>1. entry'[q] = entry[q]
      BY <1>1, <1>14, <2>1, <2>4
    <3>2. ReachingCover(q) \ {r} = ReachingCover(q)
          /\ StateOf(Covering(q) \ {r}) = StateOf(Covering(q))
      <4>1. CASE q \in Subtree(p)
        <5>1. ~Reaches(r, q) /\ Covering(q) \ {r} # {} /\ r \in Covering(q)
          BY <1>6, <1>7, <2>4, <4>1
        <5> QED
          BY <5>1 DEF ReachingCover, StateOf
      <4>2. CASE q \notin Subtree(p)
        <5>1. r \notin Covering(q)
          BY <2>1, <4>2 DEF Covering
        <5>2. Covering(q) \ {r} = Covering(q) /\ ReachingCover(q) \ {r} = ReachingCover(q)
          BY <5>1 DEF ReachingCover
        <5> QED
          BY <5>2
      <4> QED
        BY <4>1, <4>2
    <3> QED
      BY <1>13, <2>2, <3>1, <3>2
  <2> QED
    BY <2>3, <2>4
<1>15. /\ Stored' \subseteq Stored
       /\ \A q \in Stored : ~(q = p /\ unused) => q \in Stored'
       /\ unused => p \notin Stored'
       /\ entry' \in [Prefixes -> Entry]
  <2>1. ASSUME NEW q \in Prefixes, q \notin Stored
        PROVE  entry'[q] = entry[q]
    <3>1. q \notin visited /\ q # p
      BY <1>4, <1>5, <2>1
    <3> QED
      BY <1>1, <2>1, <3>1
  <2>2. unused => entry'[p] = NoEntry
    BY <1>1, <1>2
  <2>3. NoEntry \in Entry
    BY PrefixAssumption DEF NoEntry, Entry
  <2>4. ASSUME NEW q \in Prefixes
        PROVE  entry'[q] \in Entry
    BY <1>3, <1>14, <2>1, <2>2, <2>3
  <2>5. Stored' \subseteq Stored
    BY <2>1 DEF Stored
  <2>6. \A q \in Stored : ~(q = p /\ unused) => q \in Stored'
    BY <1>14 DEF Stored
  <2>7. unused => p \notin Stored'
    BY <2>2 DEF Stored, NoEntry
  <2> QED
    BY <1>1, <2>4, <2>5, <2>6, <2>7
<1>16. ASSUME NEW u \in Listed
       PROVE  /\ u \in Updates /\ PrefixOf[u] \in Stored /\ PrefixOf[u] \in Prefixes
              /\ PrefixOf[u] \in Stored' /\ ~(PrefixOf[u] = p /\ unused)
              /\ u \in candidates <=> r \in MatchingOf(u)
              /\ update[u].list = IF MatchingOf(u) = {} THEN "other" ELSE "valid"
              /\ update[u].match = Cardinality(MatchingOf(u))
  <2>1. u \in Updates /\ PrefixOf[u] \in Stored /\ PrefixOf[u] \in Prefixes
    BY PrefixAssumption DEF Listed, PrefixInv, TreeInv, Stored
  <2>2. ~(PrefixOf[u] = p /\ unused) /\ PrefixOf[u] \in Stored'
    BY <1>11, <1>15, <2>1
  <2>3. update[u].list = (IF MatchingOf(u) = {} THEN "other" ELSE "valid")
        /\ update[u].match = Cardinality(MatchingOf(u))
    BY DEF PrefixInv, MatchInv
  <2>4. u \in candidates => r \in MatchingOf(u)
    BY <1>5, <1>6, <1>8, <2>1 DEF MatchingOf
  <2>5. ASSUME r \in MatchingOf(u)
        PROVE  u \in candidates
    <3>1. /\ p \in Above[PrefixOf[u]] \cup {PrefixOf[u]} /\ Reaches(r, PrefixOf[u])
          /\ r.as = OriginOf[u] /\ update[u].list = "valid"
      BY <2>3, <2>5 DEF MatchingOf, Covering
    <3>2. PrefixOf[u] \in Subtree(p)
      BY <1>2, <2>1, <3>1, SubtreeFacts
    <3> QED
      BY <1>7, <1>8, <2>1, <3>1, <3>2
  <2> QED
    BY <2>1, <2>2, <2>3, <2>4, <2>5
<1>17. dropped = candidates /\ candidates = ListedFor(r)
  <2>1. candidates = ListedFor(r)
    BY <1>8, <1>10, <1>16 DEF ListedFor, Listed
  <2>2. Cardinality(candidates) <= roa[r].updates
    BY <1>3, <2>1, Sets, Countable DEF PrefixInv, MatchInv, ROA
  <2>3. Cardinality(dropped) = Cardinality(candidates)
    BY <1>1, <2>2 DEF Limit
  <2>4. IsFiniteSet(candidates)
    BY <1>10, Countable
  <2> QED
    BY <2>1, <2>3, <2>4, FS_Subset
<1>18. ASSUME NEW u \in candidates
       PROVE  /\ u \in Listed /\ u \in Updates /\ r \in MatchingOf(u)
              /\ PrefixOf[u] \in visited
              /\ update[u].match \in Nat /\ update[u].match # 0
              /\ update[u].match = 1 <=> MatchingOf(u) \ {r} = {}
              /\ Cardinality(MatchingOf(u) \ {r}) = update[u].match - 1
              /\ update'[u].match = update[u].match - 1
              /\ update'[u].list = IF update[u].match = 1 THEN "other" ELSE "valid"
              /\ update'[u] \in Update
  <2>1. u \in Updates /\ u \in Listed /\ PrefixOf[u] \in visited
    BY <1>8, <1>10
  <2>2. r \in MatchingOf(u) /\ update[u].match = Cardinality(MatchingOf(u))
    BY <1>16, <2>1
  <2>3. /\ IsFiniteSet(MatchingOf(u)) /\ Cardinality(MatchingOf(u)) \in Nat
        /\ Cardinality(MatchingOf(u)) # 0
    BY <2>2, Sets, Countable
  <2>4. Cardinality(MatchingOf(u) \ {r}) = Cardinality(MatchingOf(u)) - 1
    BY <2>2, <2>3, FS_RemoveElement
  <2>5. Cardinality(MatchingOf(u) \ {r}) = 0 <=> MatchingOf(u) \ {r} = {}
    BY Sets, Countable
  <2>6. update'[u] = [list |-> IF update[u].match = 1 THEN "other" ELSE "valid",
                      match |-> update[u].match - 1]
    BY <1>1, <1>17, <2>1
  <2>7. update[u].match \in Nat /\ update[u].match # 0 /\ update[u].match - 1 \in Nat
    BY <2>2, <2>3
  <2>8. update[u].match = 1 <=> MatchingOf(u) \ {r} = {}
    BY <2>2, <2>4, <2>5, <2>7
  <2>9. /\ update'[u].match = update[u].match - 1
        /\ update'[u].list = IF update[u].match = 1 THEN "other" ELSE "valid"
        /\ update'[u] \in Update
    BY <2>6, <2>7 DEF Update
  <2> QED
    BY <2>1, <2>2, <2>4, <2>7, <2>8, <2>9
<1>19. /\ \A u \in Updates \ candidates : update'[u] = update[u]
       /\ update' \in [Updates -> Update]
       /\ Listed' = Listed
  <2>1. \A u \in Updates \ candidates : update'[u] = update[u]
    BY <1>1, <1>17
  <2>2. ASSUME NEW u \in Updates
        PROVE  /\ update'[u] \in Update
               /\ update'[u].list # "none" <=> update[u].list # "none"
    <3>1. update[u] \in Update
      BY <1>3
    <3>2. CASE u \in candidates
      <4>1. update'[u].list \in {"other", "valid"} /\ update'[u] \in Update
        BY <1>18, <3>2
      <4>2. update[u].list # "none"
        BY <1>18, <3>2 DEF Listed
      <4> QED
        BY <4>1, <4>2
    <3>3. CASE u \notin candidates
      BY <2>1, <3>1, <3>3
    <3> QED
      BY <3>2, <3>3
  <2>3. Listed' = Listed
    BY <2>2 DEF Listed
  <2> QED
    BY <1>1, <2>1, <2>2, <2>3
<1>20. ResultInv'
  <2> SUFFICES ASSUME NEW u \in Updates
               PROVE  result'[u] = IF update'[u].list = "none" THEN "none"
                                   ELSE IF update'[u].list = "valid" THEN "valid"
                                   ELSE entry'[PrefixOf[u]].state
    BY DEF ResultInv
  <2>1. result[u] = IF update[u].list = "none" THEN "none"
                    ELSE IF update[u].list = "valid" THEN "valid"
                    ELSE entry[PrefixOf[u]].state
    BY DEF PrefixInv, ResultInv
  <2>2. result'[u] = IF u \in changed \/ (u \in candidates /\ update[u].match = 1)
                     THEN after[PrefixOf[u]] ELSE result[u]
    BY <1>1, <1>17
  <2>3. ASSUME u \in Listed, PrefixOf[u] \in visited
        PROVE  entry'[PrefixOf[u]].state = after[PrefixOf[u]]
    BY <1>1, <1>16, <2>3
  <2>4. CASE u \in candidates
    <3>1. u \notin changed
      BY <1>8, <1>9, <2>4
    <3>2. update[u].list = "valid"
      BY <1>8, <2>4
    <3>3. update'[u].list = IF update[u].match = 1 THEN "other" ELSE "valid"
      BY <1>18, <2>4
    <3> QED
      BY <1>18, <2>1, <2>2, <2>3, <2>4, <3>1, <3>2, <3>3
  <2>5. CASE u \in changed
    <3>1. u \notin candidates /\ update[u].list = "other" /\ u \in Listed /\ PrefixOf[u] \in visited
      BY <1>8, <1>9, <2>5
    <3> QED
      BY <1>19, <2>2, <2>3, <2>5, <3>1
  <2>6. CASE u \notin candidates /\ u \notin changed
    <3>1. update'[u] = update[u] /\ result'[u] = result[u]
      BY <1>19, <2>2, <2>6
    <3>2. ASSUME update[u].list # "none", update[u].list # "valid"
          PROVE  entry'[PrefixOf[u]].state = entry[PrefixOf[u]].state
      <4>1. u \in Listed
        BY <3>2 DEF Listed
      <4>2. update[u].list = "other"
        BY <1>16, <3>2, <4>1
      <4>3. /\ PrefixOf[u] \in Stored /\ PrefixOf[u] \in Prefixes
            /\ ~(PrefixOf[u] = p /\ unused)
        BY <1>16, <4>1
      <4>4. CASE PrefixOf[u] \in visited
        <5>1. PrefixOf[u] \in Subtree(p) /\ PrefixOf[u] \notin cleared
          BY <1>5, <1>9, <2>6, <4>1, <4>2, <4>4
        <5>2. Covering(PrefixOf[u]) \ {r} # {} /\ after[PrefixOf[u]] = StateOf(Covering(PrefixOf[u]) \ {r})
          BY <1>6, <5>1
        <5>3. after[PrefixOf[u]] = "invalid" /\ StateOf(Covering(PrefixOf[u])) = "invalid"
          BY <5>2 DEF StateOf
        <5>4. entry[PrefixOf[u]].state = "invalid"
          BY <4>3, <5>3 DEF PrefixInv, CoverInv
        <5> QED
          BY <2>3, <4>1, <4>4, <5>3, <5>4
      <4>5. CASE PrefixOf[u] \notin visited
        BY <1>1, <4>3, <4>5
      <4> QED
        BY <4>4, <4>5
    <3> QED
      BY <2>1, <3>1, <3>2
  <2> QED
    BY <2>4, <2>5, <2>6
<1>21. PrefixTypeOK'
  <2>1. ASSUME NEW u \in Updates
        PROVE  result'[u] \in {"none", "valid", "invalid", "notfound"}
    <3>1. result'[u] = IF update'[u].list = "none" THEN "none"
                       ELSE IF update'[u].list = "valid" THEN "valid"
                       ELSE entry'[PrefixOf[u]].state
      BY <1>20 DEF ResultInv
    <3>2. entry'[PrefixOf[u]].state \in {"notfound", "invalid"}
      BY <1>15, PrefixAssumption DEF Entry
    <3> QED
      BY <3>1, <3>2
  <2>2. result' \in [Updates -> {"none", "valid", "invalid", "notfound"}]
    BY <1>1, <2>1
  <2> QED
    BY <1>1, <1>3, <1>12, <1>15, <1>19, <2>2 DEF PrefixTypeOK
<1>22. TreeInv'
  <2>1. Stored' \subseteq nodes'
    BY <1>1, <1>15 DEF PrefixInv, TreeInv
  <2>2. \A o \in ROAs : roa'[o].count \in {0, 1}
    BY <1>12 DEF PrefixInv, TreeInv
  <2>3. ASSUME NEW o \in ROAs, roa'[o].count = 1
        PROVE  entry'[o.prefix].stored
    <3>1. o # r /\ roa[o].count = 1
      BY <1>12, <2>3
    <3>2. o.prefix \in Stored
      BY <3>1, PrefixAssumption DEF PrefixInv, TreeInv, Stored
    <3>3. ~(o.prefix = p /\ unused)
      BY <1>11, <3>1
    <3> QED
      BY <1>14, <3>2, <3>3
  <2>4. \A u \in Listed' : entry'[PrefixOf[u]].stored
    BY <1>14, <1>16, <1>19
  <2> QED
    BY <2>1, <2>2, <2>3, <2>4 DEF TreeInv
<1>23. CoverInv'
  <2> SUFFICES ASSUME NEW q \in Stored'
               PROVE  /\ entry'[q].coverage = Cardinality(ReachingCover(q)')
                      /\ entry'[q].state = StateOf(Covering(q)')
    BY DEF CoverInv, StateOf
  <2> QED
    BY <1>14, <1>15
<1>24. MatchInv'
  <2>1. ASSUME NEW u \in Listed
        PROVE  /\ update'[u].match = Cardinality(MatchingOf(u)')
               /\ update'[u].list = IF MatchingOf(u)' = {} THEN "other" ELSE "valid"
    <3>1. CASE u \in candidates
      <4>1. MatchingOf(u)' = MatchingOf(u) \ {r}
        BY <1>13
      <4> QED
        BY <1>18, <3>1, <4>1
    <3>2. CASE u \notin candidates
      <4>1. MatchingOf(u)' = MatchingOf(u) /\ update'[u] = update[u]
        BY <1>13, <1>16, <1>19, <3>2
      <4> QED
        BY <1>16, <4>1
    <3> QED
      BY <3>1, <3>2
  <2>2. ASSUME NEW o \in ROAs
        PROVE  roa'[o].updates >= Cardinality(ListedFor(o)')
    <3>1. CASE o = r
      <4>1. ListedFor(r)' = {}
        BY <1>13 DEF ListedFor
      <4> QED
        BY <1>12, <3>1, <4>1, FS_EmptySet
    <3>2. CASE o # r
      <4>1. ListedFor(o)' = ListedFor(o)
        BY <1>13, <1>19, <3>2 DEF ListedFor
      <4> QED
        BY <1>12, <3>2, <4>1 DEF PrefixInv, MatchInv
    <3> QED
      BY <3>1, <3>2
  <2> QED
    BY <1>19, <2>1, <2>2 DEF MatchInv
<1> QED
  BY <1>20, <1>21, <1>22, <1>23, <1>24 DEF PrefixInv

-----------------------------------------------------------------------------
(* The invariant.                                                          *)

LEMMA InitInv == OneCopyEach /\ PrefixInit => PrefixInv
<1> SUFFICES ASSUME OneCopyEach, PrefixInit
             PROVE  PrefixInv
  OBVIOUS
<1>1. Stored = {} /\ Listed = {} /\ \A q : Covering(q) = {}
  BY DEF PrefixInit, Stored, Listed, Covering, NoEntry
<1>2. PrefixTypeOK
  <2>1. NoEntry \in Entry
    BY PrefixAssumption DEF NoEntry, Entry
  <2>2. [count |-> 0, updates |-> 0] \in ROA /\ [list |-> "none", match |-> 0] \in Update
    BY DEF ROA, Update
  <2> QED
    BY <2>1, <2>2 DEF PrefixInit, PrefixTypeOK
<1>3. TreeInv
  BY <1>1 DEF PrefixInit, TreeInv
<1>4. CoverInv
  BY <1>1 DEF CoverInv
<1>5. MatchInv
  <2>1. \A r : ListedFor(r) = {}
    BY <1>1 DEF ListedFor
  <2> QED
    BY <1>1, <2>1, FS_EmptySet DEF MatchInv, PrefixInit
<1>6. ResultInv
  BY DEF PrefixInit, ResultInv
<1> QED
  BY <1>2, <1>3, <1>4, <1>5, <1>6 DEF PrefixInv

LEMMA NextInv == OneCopyEach /\ PrefixInv /\ [PrefixNext]_pcVars => PrefixInv'
<1> SUFFICES ASSUME OneCopyEach, PrefixInv, [PrefixNext]_pcVars
             PROVE  PrefixInv'
  OBVIOUS
<1>1. ASSUME NEW u \in Updates, requestUpdateValidation(u)
      PROVE  PrefixInv'
  BY <1>1, RequestStep
<1>2. ASSUME NEW r \in ROAs, addROAwl(r)
      PROVE  PrefixInv'
  BY <1>2, AddStep
<1>3. ASSUME NEW r \in ROAs, WithdrawUnknown(r)
      PROVE  PrefixInv'
  <2>1. nodes' = nodes \cup {r.prefix} /\ UNCHANGED <<entry, roa, update, result, crashed>>
    BY <1>3 DEF WithdrawUnknown
  <2>2. r.prefix \in Prefixes /\ nodes \subseteq Prefixes /\ crashed \in BOOLEAN
    BY PrefixAssumption DEF PrefixInv, PrefixTypeOK
  <2> QED
    BY <2>1, <2>2, SameEntries
<1>4. ASSUME NEW r \in ROAs, WithdrawKnown(r)
      PROVE  PrefixInv'
  BY <1>4, WithdrawStep
<1>5. CASE UNCHANGED pcVars
  BY <1>5, SameEntries DEF pcVars, PrefixInv, PrefixTypeOK
<1> QED
  BY <1>1, <1>2, <1>3, <1>4, <1>5 DEF PrefixNext, delROAwl

LEMMA Invariance == ASSUME OneCopyEach PROVE PrefixSpec => []PrefixInv
<1>1. PrefixInit => PrefixInv
  BY InitInv
<1>2. PrefixInv /\ [PrefixNext]_pcVars => PrefixInv'
  BY NextInv
<1> QED
  BY <1>1, <1>2, PTL DEF PrefixSpec

\* Every variable of the prefix cache has its type (PrefixTypeOK).
THEOREM PrefixTypeCorrect == ASSUME OneCopyEach PROVE PrefixSpec => []PrefixTypeOK
<1>1. PrefixInv => PrefixTypeOK
  BY DEF PrefixInv
<1> QED
  BY <1>1, Invariance, PTL

LEMMA Inv_CoverageExact == PrefixInv => CoverageExact
<1> SUFFICES ASSUME PrefixInv, NEW q \in Stored
             PROVE  /\ entry[q].coverage = Copies({r \in Covering(q) : Reaches(r, q)})
                    /\ entry[q].state = IF Covering(q) = {} THEN "notfound" ELSE "invalid"
  BY DEF CoverageExact
<1>1. /\ entry[q].coverage = Cardinality(ReachingCover(q))
      /\ entry[q].state = StateOf(Covering(q))
  BY DEF PrefixInv, CoverInv
<1>2. ReachingCover(q) \in SUBSET ROAs /\ \A r \in ReachingCover(q) : roa[r].count = 1
  BY AtStored DEF ReachingCover, Covering, PrefixInv, Stored
<1>3. Copies(ReachingCover(q)) = Cardinality(ReachingCover(q))
  BY <1>2, CopiesCounted
<1> QED
  BY <1>1, <1>3 DEF ReachingCover, StateOf

\* Adding, removing and looking up entries, each with a walk that is pruned,
\* keep the coverage of every prefix equal to the number of ROAs that reach it,
\* and the state of its unmatched updates that of the ROAs above it.
THEOREM CoverageIsExact == ASSUME OneCopyEach PROVE PrefixSpec => []CoverageExact
BY Inv_CoverageExact, Invariance, PTL

LEMMA Inv_MatchesCounted == PrefixInv => MatchesCounted
<1> SUFFICES ASSUME PrefixInv
             PROVE  MatchesCounted
  OBVIOUS
<1>1. ASSUME NEW u \in Listed
      PROVE  /\ update[u].match = Copies(MatchingOf(u))
             /\ update[u].list = IF MatchingOf(u) = {} THEN "other" ELSE "valid"
  <2>1. PrefixOf[u] \in Prefixes
    BY PrefixAssumption DEF Listed
  <2>2. MatchingOf(u) \in SUBSET ROAs /\ \A r \in MatchingOf(u) : roa[r].count = 1
    BY <2>1, AtStored DEF MatchingOf, Covering, PrefixInv
  <2>3. Copies(MatchingOf(u)) = Cardinality(MatchingOf(u))
    BY <2>2, CopiesCounted
  <2> QED
    BY <2>3 DEF PrefixInv, MatchInv
<1>2. \A r \in ROAs : roa[r].updates >= Cardinality({u \in Listed : r \in MatchingOf(u)})
  BY DEF PrefixInv, MatchInv, ListedFor
<1> QED
  BY <1>1, <1>2 DEF MatchesCounted, Listed, MatchingOf

\* Every update counts exactly the ROAs that match it and is in the list that
\* says so, and every ROA counts at least the updates it matches, so that its
\* removal does not stop before it has found all of them.
THEOREM MatchesAreCounted == ASSUME OneCopyEach PROVE PrefixSpec => []MatchesCounted
BY Inv_MatchesCounted, Invariance, PTL

-----------------------------------------------------------------------------
(* The refinement.                                                         *)

Origin(u) == Validation!OriginState(u, Validation!InForce([r \in ROAs |-> roa[r].count]))

\* The results are those of RFC 6811 for the ROAs in force.
ResultsRight ==
    \A u \in Updates :
        /\ update[u].list = "none" => result[u] = "none"
        /\ update[u].list # "none" => result[u] = Origin(u) /\ Origin(u) # "none"

LEMMA Inv_ResultsRight == PrefixInv => ResultsRight
<1> SUFFICES ASSUME PrefixInv, NEW u \in Updates
             PROVE  /\ update[u].list = "none" => result[u] = "none"
                    /\ update[u].list # "none" => result[u] = Origin(u) /\ Origin(u) # "none"
  BY DEF ResultsRight
<1>1. result[u] = IF update[u].list = "none" THEN "none"
                  ELSE IF update[u].list = "valid" THEN "valid"
                  ELSE entry[PrefixOf[u]].state
  BY DEF PrefixInv, ResultInv
<1>2. ASSUME update[u].list # "none"
      PROVE  result[u] = Origin(u) /\ Origin(u) # "none"
  <2>1. u \in Listed /\ PrefixOf[u] \in Stored /\ PrefixOf[u] \in Prefixes
    BY <1>2, PrefixAssumption DEF Listed, PrefixInv, TreeInv, Stored
  <2>2. /\ update[u].list = IF MatchingOf(u) = {} THEN "other" ELSE "valid"
        /\ entry[PrefixOf[u]].state = StateOf(Covering(PrefixOf[u]))
    BY <2>1 DEF PrefixInv, MatchInv, CoverInv
  <2>3. Validation!InForce([r \in ROAs |-> roa[r].count]) = {r \in ROAs : roa[r].count > 0}
    BY DEF Validation!InForce
  <2>4. \A r \in ROAs : Validation!Covers(r, PrefixOf[u]) <=>
                            r.prefix \in Above[PrefixOf[u]] \cup {PrefixOf[u]}
    BY DEF Validation!Covers
  <2>5. (\E r \in {o \in ROAs : roa[o].count > 0} : Validation!Matches(r, u)) <=> MatchingOf(u) # {}
    BY <2>4 DEF Validation!Matches, MatchingOf, Covering, Reaches
  <2>6. (\E r \in {o \in ROAs : roa[o].count > 0} : Validation!Covers(r, PrefixOf[u]))
          <=> Covering(PrefixOf[u]) # {}
    BY <2>4 DEF Covering
  <2>7. Origin(u) = IF MatchingOf(u) # {} THEN "valid"
                    ELSE IF Covering(PrefixOf[u]) # {} THEN "invalid" ELSE "notfound"
    BY <2>3, <2>5, <2>6 DEF Origin, Validation!OriginState
  <2> QED
    BY <1>1, <1>2, <2>2, <2>7 DEF StateOf
<1> QED
  BY <1>1, <1>2

\* How often each entry is in force, as OriginValidation.tla has it.
CountOf == [r \in ROAs |-> roa[r].count]

LEMMA RequestSimulates ==
    ASSUME PrefixInv, ResultsRight, ResultsRight', NEW u \in Updates,
           requestUpdateValidation(u)
    PROVE  Validation!Request(u) \/ UNCHANGED Validation!ovVars
<1>1. /\ roa \in [ROAs -> ROA] /\ update \in [Updates -> Update]
      /\ result \in [Updates -> {"none", "valid", "invalid", "notfound"}]
  BY DEF PrefixInv, PrefixTypeOK
<1>2. CASE RequestNull(u)
  BY <1>2 DEF RequestNull, Validation!ovVars
<1>3. ASSUME NEW R, NEW state, Place(u, R, state)
      PROVE  Validation!Request(u)
  <2> DEFINE own == {r \in R : r.as = OriginOf[u]}
  <2>1. /\ update' = [update EXCEPT ![u] =
              [list |-> IF Copies(own) = 0 THEN "other" ELSE "valid", match |-> Copies(own)]]
        /\ result' = [result EXCEPT ![u] = IF Copies(own) = 0 THEN state ELSE "valid"]
        /\ roa' = [r \in ROAs |-> IF r \in own THEN [roa[r] EXCEPT !.updates = @ + 1] ELSE roa[r]]
    BY <1>3 DEF Place
  <2> HIDE DEF own
  <2>2. update'[u].list # "none"
    BY <1>1, <2>1
  <2>3. \A r \in ROAs : roa'[r].count = roa[r].count
    BY <1>1, <2>1 DEF ROA
  <2>4. CountOf' = CountOf
    BY <2>3 DEF CountOf
  <2>5. result'[u] = Origin(u)
    <3>1. result'[u] = Origin(u)'
      BY <2>2 DEF ResultsRight
    <3>2. Origin(u)' = Origin(u)
      BY <2>4 DEF Origin, CountOf, Validation!OriginState, Validation!InForce,
                  Validation!Matches, Validation!Covers
    <3> QED
      BY <3>1, <3>2
  <2>6. result' = [result EXCEPT ![u] = Origin(u)]
    BY <1>1, <2>1, <2>5
  <2>7. result[u] = "none"
    BY DEF requestUpdateValidation, ResultsRight
  <2> QED
    BY <2>4, <2>6, <2>7 DEF Validation!Request, Origin, CountOf
<1> QED
  BY <1>2, <1>3 DEF requestUpdateValidation, RequestNew, RequestKnown

\* When no update is added to or taken from the lists, the results are those
\* for the new counts.
LEMMA Revalidated ==
    ASSUME PrefixInv', ResultsRight, ResultsRight',
           \A u \in Updates : update'[u].list = "none" <=> update[u].list = "none"
    PROVE  result' = Validation!Validated([r \in ROAs |-> roa'[r].count])
<1>1. result' \in [Updates -> {"none", "valid", "invalid", "notfound"}]
  BY DEF PrefixInv, PrefixTypeOK
<1>2. ASSUME NEW u \in Updates
      PROVE  result'[u] = IF result[u] = "none" THEN "none"
                          ELSE Validation!OriginState(u,
                                  Validation!InForce([r \in ROAs |-> roa'[r].count]))
  <2>1. Origin(u)' = Validation!OriginState(u, Validation!InForce([r \in ROAs |-> roa'[r].count]))
    BY DEF Origin, Validation!OriginState, Validation!InForce, Validation!Matches, Validation!Covers
  <2>2. result[u] = "none" <=> update[u].list = "none"
    BY DEF ResultsRight
  <2>3. /\ update'[u].list = "none" => result'[u] = "none"
        /\ update'[u].list # "none" => result'[u] = Origin(u)'
    BY DEF ResultsRight
  <2> QED
    BY <2>1, <2>2, <2>3
<1> QED
  BY <1>1, <1>2 DEF Validation!Validated

LEMMA AnnounceSimulates ==
    ASSUME PrefixInv, PrefixInv', ResultsRight, ResultsRight', NEW r \in ROAs, addROAwl(r)
    PROVE  Validation!Announce(r)
<1> DEFINE known   == [entry EXCEPT ![r.prefix] = EntryFor(r.prefix)]
           through == {q \in Prefixes : Reaches(r, q) \/ known[q].state = "notfound"}
           visited == Downwards(r.prefix, through)
           matched == {u \in UpdatesAt({q \in visited : Reaches(r, q)}) : OriginOf[u] = r.as}
<1>1. roa \in [ROAs -> ROA]
  BY DEF PrefixInv, PrefixTypeOK
<1>2. /\ roa' = [roa EXCEPT ![r] = [count |-> @.count + 1,
                                    updates |-> @.updates + Cardinality(matched)]]
      /\ update' = [u \in Updates |->
            IF u \in matched THEN [list |-> "valid", match |-> update[u].match + 1] ELSE update[u]]
  BY DEF addROAwl
<1>3. \A u \in matched : update[u].list # "none"
  BY DEF UpdatesAt
<1> HIDE DEF matched
<1>4. \A u \in Updates : update'[u].list = "none" <=> update[u].list = "none"
  BY <1>2, <1>3
<1>5. [o \in ROAs |-> roa'[o].count] = [CountOf EXCEPT ![r] = @ + 1]
  BY <1>1, <1>2 DEF CountOf
<1>6. result' = Validation!Validated([o \in ROAs |-> roa'[o].count])
  BY <1>4, Revalidated
<1> QED
  BY <1>5, <1>6 DEF Validation!Announce, CountOf

LEMMA WithdrawSimulates ==
    ASSUME PrefixInv, PrefixInv', ResultsRight, ResultsRight', NEW r \in ROAs, WithdrawKnown(r)
    PROVE  Validation!Withdraw(r)
<1>1. roa \in [ROAs -> ROA]
  BY DEF PrefixInv, PrefixTypeOK
<1>2. PICK dropped \in SUBSET Updates :
        /\ \A u \in dropped : update[u].list = "valid"
        /\ update' = [u \in Updates |->
              IF u \notin dropped THEN update[u]
              ELSE [list  |-> IF update[u].match = 1 THEN "other" ELSE "valid",
                    match |-> update[u].match - 1]]
  BY DEF WithdrawKnown, UpdatesAt
<1>3. /\ roa[r].count > 0
      /\ roa' = [roa EXCEPT ![r] =
            [count |-> @.count - 1, updates |-> IF roa[r].count = 1 THEN 0 ELSE @.updates]]
  BY DEF WithdrawKnown
<1>4. \A u \in Updates : update'[u].list = "none" <=> update[u].list = "none"
  BY <1>2
<1>5. [o \in ROAs |-> roa'[o].count] = [CountOf EXCEPT ![r] = @ - 1]
  BY <1>1, <1>3 DEF CountOf
<1>6. result' = Validation!Validated([o \in ROAs |-> roa'[o].count])
  BY <1>4, Revalidated
<1> QED
  BY <1>3, <1>5, <1>6 DEF Validation!Withdraw, CountOf

LEMMA StepSimulates ==
    PrefixInv /\ PrefixInv' /\ ResultsRight /\ ResultsRight' /\ [PrefixNext]_pcVars
        => [Validation!Next]_Validation!ovVars
<1> SUFFICES ASSUME PrefixInv, PrefixInv', ResultsRight, ResultsRight', [PrefixNext]_pcVars
             PROVE  [Validation!Next]_Validation!ovVars
  OBVIOUS
<1>1. ASSUME NEW u \in Updates, requestUpdateValidation(u)
      PROVE  [Validation!Next]_Validation!ovVars
  BY <1>1, RequestSimulates DEF Validation!Next
<1>2. ASSUME NEW r \in ROAs, addROAwl(r)
      PROVE  [Validation!Next]_Validation!ovVars
  BY <1>2, AnnounceSimulates DEF Validation!Next
<1>3. ASSUME NEW r \in ROAs, WithdrawUnknown(r)
      PROVE  [Validation!Next]_Validation!ovVars
  BY <1>3 DEF WithdrawUnknown, Validation!ovVars
<1>4. ASSUME NEW r \in ROAs, WithdrawKnown(r)
      PROVE  [Validation!Next]_Validation!ovVars
  BY <1>4, WithdrawSimulates DEF Validation!Next
<1>5. CASE UNCHANGED pcVars
  BY <1>5 DEF pcVars, Validation!ovVars
<1> QED
  BY <1>1, <1>2, <1>3, <1>4, <1>5 DEF PrefixNext, delROAwl

\* In whatever order updates are requested and entries come and go, in any
\* tree of prefixes, every step of the prefix cache leaves the update cache with
\* the states RFC 6811 defines for the entries in force.
THEOREM PrefixImplementsValidation ==
    ASSUME OneCopyEach
    PROVE  PrefixSpec => ImplementsValidation
<1>1. PrefixInit => Validation!Init
  BY DEF PrefixInit, Validation!Init
<1>2. PrefixSpec => []PrefixInv
  BY Invariance
<1>3. PrefixInv => ResultsRight
  BY Inv_ResultsRight
<1>4. PrefixInv /\ PrefixInv' /\ ResultsRight /\ ResultsRight' /\ [PrefixNext]_pcVars
        => [Validation!Next]_Validation!ovVars
  BY StepSimulates
<1> QED
  BY <1>1, <1>2, <1>3, <1>4, PTL DEF PrefixSpec, ImplementsValidation, Validation!Spec
=============================================================================
