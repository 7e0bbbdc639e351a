----------------------------- MODULE PrefixCache -----------------------------
(***************************************************************************)
(* The prefix cache: srx-server/src/server/prefix_cache.c.                 *)
(*                                                                         *)
(* A patricia tree of prefixes.  A prefix that has updates or white-list   *)
(* entries ("ROAs") of its own carries a PC_Prefix, and the states of all  *)
(* updates are kept up to date by counting:                                *)
(*   roa_coverage   per prefix, the ROAs here or above whose maximum       *)
(*                  length reaches it                                      *)
(*   state_of_other per prefix, the state of its updates no ROA matches    *)
(*   roa_match      per update, the ROAs that match it; the update is in   *)
(*                  the list "valid" of its prefix if there is one, in     *)
(*                  "other" if not                                         *)
(*   update_count   per ROA, the updates it was counted for                *)
(* Adding or removing a ROA walks down the tree from its prefix and prunes *)
(* the walk where it believes that nothing can change.  What the walks     *)
(* visit is given here in closed form; a walk is one step.                 *)
(*                                                                         *)
(* A PC_AS exists at a prefix exactly if an update or a ROA there has that *)
(* AS, so it is not a variable.  There is one validation cache.  The lists *)
(* are sets: at one prefix all updates of an AS have equal roa_match       *)
(* (MatchesCounted), so that the unlinking loops move all of them or none. *)
(***************************************************************************)
EXTENDS Integers, FiniteSets, FiniteSetsExt

CONSTANTS
    Prefixes, PLen, Above, ROAs, Updates, PrefixOf, OriginOf,
                    \* see OriginValidation.tla
    Reserved,       \* the AS numbers of RFC 5398
    MaxCopies,      \* bound: how often a ROA is in force at the same time
    CounterSize     \* values of the uint32_t roa_coverage

ASSUME PrefixAssumption ==
    /\ PLen \in [Prefixes -> Nat]
    /\ Above \in [Prefixes -> SUBSET Prefixes]
    /\ \A p \in Prefixes : \A q \in Above[p] : PLen[q] < PLen[p] /\ Above[q] \subseteq Above[p]
    /\ \A p \in Prefixes : \A q, r \in Above[p] : q = r \/ q \in Above[r] \/ r \in Above[q]
    /\ \A r \in ROAs : r.prefix \in Prefixes /\ r.maxLen \in Nat /\ r.maxLen >= PLen[r.prefix]
    /\ IsFiniteSet(ROAs) /\ IsFiniteSet(Updates)
    /\ PrefixOf \in [Updates -> Prefixes]
    /\ MaxCopies \in Nat /\ CounterSize \in Nat \ {0}

VARIABLES
    nodes,          \* the prefixes that have a node in the tree
    entry,          \* the PC_Prefix of each prefix, if it is stored
    roa,            \* the PC_ROA of each white-list entry, if its count is not 0
    update,         \* the PC_Update of each update, if it is in a list
    result,         \* the origin validation result in the update cache
    crashed         \* the server followed a NULL pointer and is gone

pcVars == <<nodes, entry, roa, update, result, crashed>>

Entry  == [stored : BOOLEAN, coverage : 0 .. CounterSize - 1, state : {"notfound", "invalid"}]
ROA    == [count : Nat, updates : Nat]
Update == [list : {"none", "valid", "other"}, match : Nat]

NoEntry == [stored |-> FALSE, coverage |-> 0, state |-> "notfound"]

-----------------------------------------------------------------------------
(* The tree.                                                               *)

Stored == {p \in Prefixes : entry[p].stored}

\* getParent: the next less specific prefix that carries a PC_Prefix.
Ancestors(p) == Above[p] \cap Stored
getParent(p) == CHOOSE q \in Ancestors(p) : \A a \in Ancestors(p) : PLen[a] <= PLen[q]

\* The state a new or re-examined prefix gets from its parent.
ParentState(p) == IF Ancestors(p) = {} THEN "notfound" ELSE entry[getParent(p)].state

\* A walk upwards from p that ends at the first prefix that is not in S.
Upwards(p, S) ==
    {q \in S : (q = p \/ q \in Ancestors(p))
               /\ \A a \in Ancestors(p) \cup {p} : PLen[a] >= PLen[q] => a \in S}

\* The ROAs at the prefixes in S whose maximum length reaches p.
Reaching(p, S) == {r \in ROAs : roa[r].count > 0 /\ r.prefix \in S /\ PLen[p] <= r.maxLen}

Copies(R) == MapThenSumSet(LAMBDA r : roa[r].count, R)

Covered  == {p \in Stored : entry[p].coverage > 0}
Invalids == {p \in Stored : entry[p].state = "invalid"}

-----------------------------------------------------------------------------
(* requestUpdateValidation.                                                *)

\* Mutants: the result is not reported if no ROA matches; the ROAs do not count
\* the update.
Place_Silent(u, R, state) ==
    LET own == {r \in R : r.as = OriginOf[u]}
        n   == Copies(own)
    IN  /\ update' = [update EXCEPT ![u] =
              [list |-> IF n = 0 THEN "other" ELSE "valid", match |-> n]]
        /\ result' = [result EXCEPT ![u] = IF n = 0 THEN @ ELSE "valid"]
        /\ roa' = [r \in ROAs |->
              IF r \in own THEN [roa[r] EXCEPT !.updates = @ + 1] ELSE roa[r]]
Place_Uncounted(u, R, state) ==
    LET n == Copies({r \in R : r.as = OriginOf[u]})
    IN  /\ update' = [update EXCEPT ![u] =
              [list |-> IF n = 0 THEN "other" ELSE "valid", match |-> n]]
        /\ result' = [result EXCEPT ![u] = IF n = 0 THEN state ELSE "valid"]
        /\ UNCHANGED roa

\* Put the update into its list, given the state of the others at its prefix.
Place(u, R, state) ==
    LET own == {r \in R : r.as = OriginOf[u]}
        n   == Copies(own)
    IN  /\ update' = [update EXCEPT ![u] =
              [list |-> IF n = 0 THEN "other" ELSE "valid", match |-> n]]
        /\ result' = [result EXCEPT ![u] = IF n = 0 THEN state ELSE "valid"]
        /\ roa' = [r \in ROAs |->
              IF r \in own THEN [roa[r] EXCEPT !.updates = @ + 1] ELSE roa[r]]

\* The prefix has no node yet.  It inherits the state of its parent, and the
\* ROAs above are examined for as long as that state is invalid on the way up.
RequestNew(u) ==
    LET p == PrefixOf[u]
        R == IF ParentState(p) = "notfound" THEN {}
             ELSE Reaching(p, Upwards(getParent(p), Invalids))
    IN  /\ p \notin nodes
        /\ nodes' = nodes \cup {p}
        /\ entry' = [entry EXCEPT ![p] =
              [stored |-> TRUE, coverage |-> Cardinality(R), state |-> ParentState(p)]]
        /\ Place(u, R, ParentState(p))
        /\ UNCHANGED crashed

\* The prefix is known; the ROAs above are examined as long as there is coverage.
RequestKnown(u) ==
    LET p == PrefixOf[u]
    IN  /\ p \in Stored
        /\ Place(u, Reaching(p, Upwards(p, Covered)), entry[p].state)
        /\ UNCHANGED <<nodes, entry, crashed>>

\* The node exists but its data is NULL: a ROA withdrawal left it so.
RequestNull(u) ==
    /\ PrefixOf[u] \in nodes \ Stored
    /\ crashed' = TRUE
    /\ UNCHANGED <<nodes, entry, roa, update, result>>

requestUpdateValidation(u) ==
    /\ ~crashed /\ update[u].list = "none"
    /\ RequestNew(u) \/ RequestKnown(u) \/ RequestNull(u)

-----------------------------------------------------------------------------
(* addROAwl.                                                               *)

\* Mutant: the coverage of a new prefix is not looked up.
EntryFor_Bare(p) ==
    IF entry[p].stored THEN entry[p]
    ELSE [stored |-> TRUE, coverage |-> 0, state |-> ParentState(p)]

\* The PC_Prefix a ROA finds or creates at its prefix.  roa_count copies are
\* counted here, where RequestNew counts one.
EntryFor(p) ==
    IF entry[p].stored THEN entry[p]
    ELSE [stored   |-> TRUE,
          coverage |-> IF ParentState(p) = "notfound" THEN 0
                       ELSE Copies(Reaching(p, Upwards(getParent(p), Covered))) % CounterSize,
          state    |-> ParentState(p)]

Reaches(r, p) == PLen[p] <= r.maxLen

\* p and what is stored below it.
Subtree(p) == {p} \cup {q \in Stored : p \in Above[q]}

\* The prefixes a walk down from p visits, given those it continues from.
Downwards(p, through) ==
    {q \in Subtree(p) : \A a \in Subtree(p) : a \in Above[q] => a \in through}

UpdatesAt(S) == {u \in Updates : update[u].list # "none" /\ PrefixOf[u] \in S}

\* A ROA of a reserved AS is ignored.
addROAwl(r) ==
    ~crashed /\ r.as \notin Reserved /\
    LET p       == r.prefix
        known   == [entry EXCEPT ![p] = EntryFor(p)]
        through == {q \in Prefixes : Reaches(r, q) \/ known[q].state = "notfound"}
        visited == Downwards(p, through)
        matched == {u \in UpdatesAt({q \in visited : Reaches(r, q)}) : OriginOf[u] = r.as}
        changed == {u \in UpdatesAt({q \in visited : known[q].state = "notfound"}) :
                       update[u].list = "other"} \ matched
    IN  /\ roa[r].count < MaxCopies
        /\ nodes' = nodes \cup {p}
        /\ entry' = [q \in Prefixes |->
              IF q \notin visited THEN known[q]
              ELSE [stored   |-> TRUE,
                    coverage |-> IF Reaches(r, q) THEN (known[q].coverage + 1) % CounterSize
                                 ELSE known[q].coverage,
                    state    |-> "invalid"]]
        /\ roa' = [roa EXCEPT ![r] = [count |-> @.count + 1,
                                      updates |-> @.updates + Cardinality(matched)]]
        /\ update' = [u \in Updates |->
              IF u \in matched THEN [list |-> "valid", match |-> update[u].match + 1] ELSE update[u]]
        /\ result' = [u \in Updates |->
              IF u \in matched THEN "valid" ELSE IF u \in changed THEN "invalid" ELSE result[u]]
        /\ UNCHANGED crashed

-----------------------------------------------------------------------------
(* delROAwl.                                                               *)

\* The walk is not asked to go on for more updates than the ROA was counted
\* for; if that is too few, which ones it misses depends on the lists.
Limit(r, n) ==
    IF n <= roa[r].updates \/ (roa[r].count > 1 /\ roa[r].updates > 0) THEN n ELSE roa[r].updates

\* A ROA that is not in force leaves nothing but a node in the tree.
WithdrawUnknown(r) ==
    /\ ~crashed /\ roa[r].count = 0
    /\ nodes' = nodes \cup {r.prefix}
    /\ UNCHANGED <<entry, roa, update, result, crashed>>

\* The coverage of q without r.
Left(r, q) ==
    IF Reaches(r, q) THEN (entry[q].coverage + CounterSize - 1) % CounterSize
    ELSE entry[q].coverage

\* The states without r at its prefix and below: a prefix is not found any more
\* if the one above it is not and no ROA is left that reaches it.
StateAfter(r) ==
    LET p == r.prefix
        state[q \in Subtree(p)] ==
            LET above == IF q = p THEN ParentState(p) ELSE state[getParent(q)]
            IN  IF above = "notfound" /\ Left(r, q) = 0 THEN "notfound" ELSE entry[q].state
    IN  state

WithdrawKnown(r) ==
    LET p         == r.prefix
        after     == StateAfter(r)
        cleared   == {q \in Subtree(p) : after[q] = "notfound" /\ Left(r, q) = 0}
        visited   == Downwards(p, {q \in Prefixes : Reaches(r, q)} \cup cleared)
        candidates == {u \in UpdatesAt({q \in visited : Reaches(r, q)}) :
                          update[u].list = "valid" /\ OriginOf[u] = r.as}
        changed   == {u \in UpdatesAt(visited \cap cleared) : update[u].list = "other"}
        last      == roa[r].count = 1
        unused    == /\ last /\ UpdatesAt({p}) = {}
                     /\ \A o \in ROAs \ {r} : o.prefix = p => roa[o].count = 0
    IN  /\ ~crashed /\ roa[r].count > 0
        /\ entry' = [q \in Prefixes |->
              IF q = p /\ unused THEN NoEntry
              ELSE IF q \notin visited THEN entry[q]
              ELSE [stored |-> TRUE, coverage |-> Left(r, q), state |-> after[q]]]
        /\ roa' = [roa EXCEPT ![r] =
              [count |-> @.count - 1, updates |-> IF last THEN 0 ELSE @.updates]]
        /\ \E dropped \in SUBSET candidates :
            /\ Cardinality(dropped) = Limit(r, Cardinality(candidates))
            /\ update' = [u \in Updates |->
                  IF u \notin dropped THEN update[u]
                  ELSE [list  |-> IF update[u].match = 1 THEN "other" ELSE "valid",
                        match |-> update[u].match - 1]]
            /\ result' = [u \in Updates |->
                  IF u \in changed \/ (u \in dropped /\ update[u].match = 1)
                  THEN after[PrefixOf[u]] ELSE result[u]]
        /\ UNCHANGED <<nodes, crashed>>

delROAwl(r) == WithdrawUnknown(r) \/ WithdrawKnown(r)

-----------------------------------------------------------------------------
PrefixInit ==
    /\ nodes = {}
    /\ entry = [p \in Prefixes |-> NoEntry]
    /\ roa = [r \in ROAs |-> [count |-> 0, updates |-> 0]]
    /\ update = [u \in Updates |-> [list |-> "none", match |-> 0]]
    /\ result = [u \in Updates |-> "none"]
    /\ crashed = FALSE

PrefixNext ==
    \/ \E u \in Updates : requestUpdateValidation(u)
    \/ \E r \in ROAs : addROAwl(r) \/ delROAwl(r)

PrefixSpec == PrefixInit /\ [][PrefixNext]_pcVars

-----------------------------------------------------------------------------
(* Properties.                                                             *)

\* Every variable has its type.
PrefixTypeOK ==
    /\ nodes \subseteq Prefixes
    /\ entry \in [Prefixes -> Entry]
    /\ roa \in [ROAs -> ROA]
    /\ update \in [Updates -> Update]
    /\ result \in [Updates -> {"none", "valid", "invalid", "notfound"}]
    /\ crashed \in BOOLEAN

\* The ROAs in force at p or above it.
Covering(p) == {r \in ROAs : roa[r].count > 0 /\ r.prefix \in Above[p] \cup {p}}

\* "Number of ROAs covering this prefix (attached and through max-length)": the
\* pruning of every walk relies on this number, and the state of the others on
\* the fact that the walks which were pruned had nothing to change.
CoverageExact ==
    \A p \in Stored :
        /\ entry[p].coverage = Copies({r \in Covering(p) : Reaches(r, p)})
        /\ entry[p].state = IF Covering(p) = {} THEN "notfound" ELSE "invalid"

\* Every requested update counts the ROAs that match it and is in the list that
\* says so, and a ROA counts at least the updates it matches: a removal that
\* stopped before would leave an update valid for ever.
MatchesCounted ==
    LET Matching(u) == {r \in Covering(PrefixOf[u]) :
                           Reaches(r, PrefixOf[u]) /\ r.as = OriginOf[u]}
        Listed      == {u \in Updates : update[u].list # "none"}
    IN  /\ \A u \in Listed :
              /\ update[u].match = Copies(Matching(u))
              /\ update[u].list = IF Matching(u) = {} THEN "other" ELSE "valid"
        /\ \A r \in ROAs : roa[r].updates >= Cardinality({u \in Listed : r \in Matching(u)})

\* In whatever order updates are requested and ROAs come and go, the update
\* cache holds the state RFC 6811 defines for the ROAs in force, at once.
Validation == INSTANCE OriginValidation WITH
    copies <- [r \in ROAs |-> roa[r].count], verdict <- result

ImplementsValidation == Validation!Spec

-----------------------------------------------------------------------------
(* What one would expect and does not hold; README.md, section 7, has the    *)
(* constants under which TLC shows it.                                       *)

\* However often an entry was announced, the result of an update is its origin
\* validation state.
ResultIsOriginState ==
    \A u \in Updates : result[u] # "none" =>
        result[u] = Validation!OriginState(u, {r \in ROAs : roa[r].count > 0})

\* "The prefix already existed in the tree": then it carries a PC_Prefix.
NodeHasPrefix == ~crashed
=============================================================================
