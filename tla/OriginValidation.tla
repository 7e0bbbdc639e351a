-------------------------- MODULE OriginValidation --------------------------
(***************************************************************************)
(* What the prefix cache of the SRx server promises: the origin validation *)
(* state (RFC 6811) of every update it was asked about, with respect to    *)
(* the white-list entries announced and not withdrawn so far.  It has no   *)
(* tree, no counters and no memory of how it got there.  PrefixCache.tla   *)
(* models prefix_cache.c and is shown to implement this module.            *)
(***************************************************************************)
EXTENDS Naturals

CONSTANTS
    Prefixes,       \* IP prefixes
    PLen,           \* the length of each prefix
    Above,          \* the less specific prefixes that contain each prefix
    ROAs,           \* white-list entries: [prefix, as, maxLen]
    Updates,        \* updates
    PrefixOf,       \* the prefix each update announces
    OriginOf        \* the AS that originates each update

VARIABLES
    copies,         \* how often each white-list entry is in force
    verdict         \* the state of each update, "none" before it is requested

ovVars == <<copies, verdict>>

Verdicts == {"valid", "invalid", "notfound"}

InForce(count) == {r \in ROAs : count[r] > 0}

Covers(r, p) == r.prefix = p \/ r.prefix \in Above[p]

Matches(r, u) ==
    Covers(r, PrefixOf[u]) /\ r.as = OriginOf[u] /\ PLen[PrefixOf[u]] <= r.maxLen

OriginState(u, R) ==
    IF \E r \in R : Matches(r, u) THEN "valid"
    ELSE IF \E r \in R : Covers(r, PrefixOf[u]) THEN "invalid"
    ELSE "notfound"

Validated(count) ==
    [u \in Updates |->
        IF verdict[u] = "none" THEN "none" ELSE OriginState(u, InForce(count))]

Init ==
    /\ copies = [r \in ROAs |-> 0]
    /\ verdict = [u \in Updates |-> "none"]

Request(u) ==
    /\ verdict[u] = "none"
    /\ verdict' = [verdict EXCEPT ![u] = OriginState(u, InForce(copies))]
    /\ UNCHANGED copies

Announce(r) ==
    /\ copies' = [copies EXCEPT ![r] = @ + 1]
    /\ verdict' = Validated(copies')

Withdraw(r) ==
    /\ copies[r] > 0
    /\ copies' = [copies EXCEPT ![r] = @ - 1]
    /\ verdict' = Validated(copies')

Next ==
    \/ \E u \in Updates : Request(u)
    \/ \E r \in ROAs : Announce(r) \/ Withdraw(r)

Spec == Init /\ [][Next]_ovVars
=============================================================================
