----------------------------- MODULE RouterKeys ------------------------------
(***************************************************************************)
(* Router keys and the BGPsec results that depend on them.                 *)
(*   server/ski_cache.c          which update needs which key              *)
(*   bgpsec_openssl/key_storage.c  the keys, part of the crypto plug-in     *)
(*   bgpsec_openssl.c, bgpsec_handler.c  the validation of a path          *)
(*   server/update_cache.c       registers updates with the SKI cache      *)
(*   server/rpki_handler.c       keys that come and go, End of Data        *)
(*                                                                         *)
(* The SKI cache and the key storage count the same keys independently: a  *)
(* withdrawal is announced to the updates the SKI cache lists, and the      *)
(* validation asks the storage.  A triplet is an AS, an SKI and an          *)
(* algorithm.  An element of the SKI cache without keys and updates is one  *)
(* that does not exist.  Requests ask for a receipt and are answered at     *)
(* once; UpdateResults.tla has the queues between.                         *)
(***************************************************************************)
EXTENDS Naturals, Sequences, FiniteSets

CONSTANTS
    Updates, Clients,
    ASes,           \* numbers in the order of the network, as the storage compares them
    SKIs, Algos,
    Ecdsa,          \* the algorithm the plug-in supports
    Attr,           \* BGPsec_PATH by update: ASes, algorithm of each block, SKIs
    Keys,
    KeysAt,         \* by triplet: more than one key means that SKIs collide
    Signer,         \* by triplet: the key the router signs with
    Asking,         \* pairs of a client and an update it may ask about
    CounterSize,    \* 2^8: the width of _SKI_CACHE_DATA.counter
    MaxPdus,        \* bound: PDUs with a router key
    Gone, None

Triplets  == ASes \X SKIs \X Algos
Verdicts  == {"valid", "invalid"}
Undefined == "undefined"

\* Signature blocks and path segments; the SKIs of all blocks are one sequence.
Blocks(u)    == 1 .. Len(Attr[u].algo)
Segments(u)  == 1 .. Len(Attr[u].asn)
Positions(u) == Blocks(u) \X Segments(u)

ASSUME KeysAssumption ==
    /\ Attr \in [Updates -> [asn : Seq(ASes), algo : Seq(Algos), ski : Seq(SKIs)]]
    /\ \A u \in Updates :
          Len(Attr[u].ski) = Len(Attr[u].asn) * Len(Attr[u].algo)
    /\ KeysAt \in [Triplets -> SUBSET Keys] /\ Signer \in [Triplets -> Keys]
    /\ \A t \in Triplets : t[3] # Ecdsa => KeysAt[t] = {}   \* a PDU names no other
    /\ ASes \subseteq Nat /\ Ecdsa \in Algos /\ Asking \subseteq Clients \X Updates
    /\ CounterSize \in Nat /\ MaxPdus \in Nat /\ MaxPdus < CounterSize
    /\ Gone \notin Keys

VARIABLES
    store,          \* key storage: by triplet the array of keys
    list,           \* key storage: by bucket the elements that hold these arrays
    held,           \* what the validation cache has announced
    crashed,        \* the server has followed a NULL pointer
    keyCount,       \* SKI cache: keys by triplet
    regs,           \* SKI cache: registrations by triplet and update
    stored,         \* update cache: the updates it has
    listeners,      \* update cache: the clients of each
    result,         \* update cache: bgpsecResult
    cmds,           \* updates in the command queue
    checking,       \* the update in _processUpdateValidation, with its verdict
    rpkiQ,          \* updates queued with RQ_KEY
    draining,       \* handleEndOfData is at work
    told,           \* the result each client goes by
    missed,         \* history: clients that met one of the races named below
    pdus

storageVars == <<store, list, held, crashed>>
skiVars     == <<keyCount, regs>>
cacheVars   == <<stored, listeners, result>>
vars == <<storageVars, skiVars, cacheVars, cmds, checking, rpkiQ, draining, told, missed, pdus>>

\* The triplets of a block, as unregisterUpdate and validate find them.
Sought(u, p) ==
    <<Attr[u].asn[p[2]], Attr[u].ski[(p[1] - 1) * Len(Attr[u].asn) + p[2]], Attr[u].algo[p[1]]>>

\* The triplets whose keys decide about an update.
Needs == [u \in Updates |->
    {Sought(u, p) : p \in {q \in Positions(u) : Attr[u].algo[q[1]] = Ecdsa}}]

-----------------------------------------------------------------------------
(* The key storage.  Keys of one AS and SKI are an array, held by an element *)
(* of the list of the AS's bucket.  An element is linked if it has a pointer  *)
(* to the one before it; the code takes one that has not for the head.        *)

ks_getBucket(asn) ==
    ((asn \div 16777216) + ((asn \div 65536) % 256) + ((asn \div 256) % 256) + (asn % 256)) % 256

Buckets == {ks_getBucket(asn) : asn \in ASes}
Element == [t : Triplets, linked : BOOLEAN]

Has(s, k) == \E i \in 1 .. Len(s) : s[i] = k

\* Both functions compare the key with the elements in turn, one of which may
\* be a NULL pointer.
MeetsNull(s, k) ==
    \E j \in 1 .. Len(s) : s[j] = Gone /\ \A i \in 1 .. j - 1 : s[i] # k

WithKey(s, k) == IF Has(s, k) THEN s ELSE Append(s, k)

\* The number of keys is decremented inside the loop that moves the keys behind
\* the deleted one, so that the last key is never moved.  No key is stored twice.
WithoutKey(s, k) ==
    IF ~Has(s, k) THEN s
    ELSE LET n == Len(s)
             i == CHOOSE j \in 1 .. n : s[j] = k
         IN  IF i = n THEN SubSeq(s, 1, n - 1)
             ELSE SubSeq(s, 1, i - 1) \o SubSeq(s, i + 1, n - 1) \o <<Gone>>

\* What the head still leads to in front of an element that is taken out or is
\* inserted before, and what it does not lead to any more.
LedTo(l, i)  == IF l[i].linked THEN SubSeq(l, 1, i - 1) ELSE <<>>
Missing(l, i) == IF l[i].linked THEN {} ELSE {l[j].t : j \in 1 .. i - 1}

\* The element behind one that is taken out is given the pointer that has just
\* been cleared.
Behind(l, i) == [j \in 1 .. Len(l) - i |-> [l[i + j] EXCEPT !.linked = @ /\ j > 1]]

\* The keys of a triplet change, and others go missing with their elements;
\* nobody is told of these.
Stores(t, s, missing) ==
    /\ store' = [x \in Triplets |->
          IF x = t THEN s ELSE IF x \in missing THEN <<>> ELSE store[x]]
    /\ missed' = missed \cup {p \in Clients \X Updates :
          p[1] \in listeners[p[2]] /\ Needs[p[2]] \cap missing # {}}

\* Where a new element is inserted: before the first one of a higher AS.
InsertedAt(l, t, i) == l[i].t[1] > t[1] /\ \A j \in 1 .. i - 1 : l[j].t[1] <= t[1]

\* A second SKI of an AS that comes last in its bucket is not linked.
ks_storeKey(t, k) ==
    LET b == ks_getBucket(t[1])
        l == list[b]
    IN
    \/ /\ store[t] # <<>>
       /\ Stores(t, WithKey(store[t], k), {})
       /\ UNCHANGED list
    \/ /\ store[t] = <<>> /\ \A i \in 1 .. Len(l) : l[i].t[1] <= t[1]
       /\ list' = [list EXCEPT ![b] =
             Append(@, [t |-> t, linked |-> l # <<>> /\ l[Len(l)].t[1] # t[1]])]
       /\ Stores(t, <<k>>, {})
    \/ /\ store[t] = <<>>
       /\ \E i \in 1 .. Len(l) :
             /\ InsertedAt(l, t, i)
             /\ list' = [list EXCEPT ![b] =
                   LedTo(l, i) \o <<[l[i] EXCEPT !.t = t], [l[i] EXCEPT !.linked = TRUE]>>
                       \o SubSeq(l, i + 1, Len(l))]
             /\ Stores(t, <<k>>, Missing(l, i))

\* With its last key the element goes, _ks_freeKS_Elem.
ks_delKey(t, k) ==
    LET b == ks_getBucket(t[1])
        l == list[b]
        s == WithoutKey(store[t], k)
    IN
    \/ /\ s # <<>> \/ store[t] = <<>>
       /\ Stores(t, s, {})
       /\ UNCHANGED list
    \/ /\ s = <<>> /\ store[t] # <<>>
       /\ \E i \in 1 .. Len(l) :
             /\ l[i].t = t
             /\ list' = [list EXCEPT ![b] = LedTo(l, i) \o Behind(l, i)]
             /\ Stores(t, <<>>, Missing(l, i))

\* validate tries the keys until one is there, not until one fits.
Verified(t) ==
    \E j \in 1 .. Len(store[t]) :
        store[t][j] = Signer[t] /\ \A i \in 1 .. j - 1 : store[t][i] = Gone

Verdict(u) ==
    IF /\ \E b \in Blocks(u) : Attr[u].algo[b] = Ecdsa
       /\ \A t \in Needs[u] : Verified(t)
    THEN "valid" ELSE "invalid"

-----------------------------------------------------------------------------
(* The SKI cache.                                                          *)

\* Mutant: the offset ignores the segment.
Entered_First(u, p) == <<Attr[u].asn[p[2]], Attr[u].ski[p[1]], Attr[u].algo[p[1]]>>

\* The triplet ski_registerUpdate enters for a position; the offset into the
\* SKIs is right in the first block only.
Entered(u, p) ==
    <<Attr[u].asn[p[2]],
      Attr[u].ski[(p[2] - 1) + (p[2] - 1) * (p[1] - 1) + 1],
      Attr[u].algo[p[1]]>>

\* How often an update is entered into and taken out of an element.
Enters == [u \in Updates |-> [t \in Triplets |->
    Cardinality({p \in Positions(u) : Entered(u, p) = t})]]
Leaves == [u \in Updates |-> [t \in Triplets |->
    Cardinality({p \in Positions(u) : Sought(u, p) = t})]]

Unregistered(r, n) == IF r > n THEN r - n ELSE 0

ski_registerUpdate(u) ==
    /\ regs' = [t \in Triplets |-> [regs[t] EXCEPT ![u] = @ + Enters[u][t]]]
    /\ UNCHANGED keyCount

\* Mutant: an element nobody is registered with is freed, keys or not.
ski_unregisterUpdate_Frees(u) ==
    /\ regs' = [t \in Triplets |-> [regs[t] EXCEPT ![u] = Unregistered(@, Leaves[u][t])]]
    /\ keyCount' = [t \in Triplets |->
          IF Leaves[u][t] > 0 /\ \A v \in Updates : regs'[t][v] = 0 THEN 0 ELSE keyCount[t]]

ski_unregisterUpdate(u) ==
    /\ regs' = [t \in Triplets |-> [regs[t] EXCEPT ![u] = Unregistered(@, Leaves[u][t])]]
    /\ UNCHANGED keyCount

\* The updates that depend on a triplet.
Attached(t) == {u \in Updates : regs[t][u] > 0}

\* A key is announced to the updates that are attached, also if it is not the
\* first one.
ski_registerKey(t) ==
    /\ keyCount' = [keyCount EXCEPT ![t] = (@ + 1) % CounterSize]
    /\ rpkiQ' = rpkiQ \cup Attached(t)

\* Mutant: the withdrawal is announced only if the element has keys left.
ski_unregisterKey_Left(t) ==
    IF keyCount[t] = 0 THEN UNCHANGED <<keyCount, rpkiQ>>
    ELSE /\ keyCount' = [keyCount EXCEPT ![t] = IF Attached(t) = {} THEN 0 ELSE @ - 1]
         /\ rpkiQ' = IF keyCount'[t] > 0 THEN rpkiQ \cup Attached(t) ELSE rpkiQ

\* Without updates the element is freed, whatever its counter says.
ski_unregisterKey(t) ==
    IF keyCount[t] = 0 THEN UNCHANGED <<keyCount, rpkiQ>>
    ELSE /\ keyCount' = [keyCount EXCEPT ![t] = IF Attached(t) = {} THEN 0 ELSE @ - 1]
         /\ rpkiQ' = rpkiQ \cup Attached(t)

-----------------------------------------------------------------------------
(* The RPKI thread.                                                        *)

Idle == ~draining /\ ~crashed

\* handleRouterKey, an announcement; a session that starts over repeats them.
AnnounceKey(t, k) ==
    /\ Idle /\ k \in KeysAt[t] /\ pdus < MaxPdus
    /\ pdus' = pdus + 1
    /\ held' = held \cup {<<t, k>>}
    /\ crashed' = MeetsNull(store[t], k)
    /\ IF crashed' THEN UNCHANGED <<store, list, missed, keyCount, rpkiQ>>
       ELSE ks_storeKey(t, k) /\ ski_registerKey(t)
    /\ UNCHANGED <<regs, cacheVars, cmds, checking, draining, told>>

\* handleRouterKey, a withdrawal.
WithdrawKey(t, k) ==
    /\ Idle /\ <<t, k>> \in held /\ pdus < MaxPdus
    /\ pdus' = pdus + 1
    /\ held' = held \ {<<t, k>>}
    /\ crashed' = MeetsNull(store[t], k)
    /\ IF crashed' THEN UNCHANGED <<store, list, missed, keyCount, rpkiQ>>
       ELSE ks_delKey(t, k) /\ ski_unregisterKey(t)
    /\ UNCHANGED <<regs, cacheVars, cmds, checking, draining, told>>

EndOfData ==
    /\ Idle /\ rpkiQ # {}
    /\ draining' = TRUE
    /\ UNCHANGED <<storageVars, skiVars, cacheVars, cmds, checking, rpkiQ, told, missed, pdus>>

Broadcast(u, v) ==
    told' = [c \in Clients |-> IF c \in listeners[u] THEN [told[c] EXCEPT ![u] = v]
                               ELSE told[c]]

\* The clients of an update, and those of them that go by an old result with
\* nothing under way to correct it.
Pairs(cs, u) == {<<c, u>> : c \in cs}
Race(cs, u, v) ==
    missed' = IF v \in Verdicts /\ v # Verdict(u) /\ u \notin rpkiQ
              THEN missed \cup Pairs(cs, u) ELSE missed \ Pairs(cs, u)

\* handleEndOfData takes the next update from the queue, validates and
\* broadcasts; it does not store the result.
NotifyNext(u) ==
    /\ draining /\ ~crashed /\ u \in rpkiQ
    /\ rpkiQ' = rpkiQ \ {u}
    /\ draining' = (rpkiQ' # {})
    /\ Broadcast(u, Verdict(u))
    /\ missed' = missed \ Pairs(listeners[u], u)
    /\ UNCHANGED <<storageVars, skiVars, cacheVars, cmds, checking, pdus>>

-----------------------------------------------------------------------------
(* The receiver thread and the command thread.                             *)

\* processValidationRequest of an update that is new: only then is it
\* registered with the SKI cache.
RequestNew(c, u) ==
    /\ ~crashed /\ u \notin stored
    /\ stored' = stored \cup {u}
    /\ listeners' = [listeners EXCEPT ![u] = {c}]
    /\ ski_registerUpdate(u)
    /\ cmds' = cmds \cup {u}
    /\ UNCHANGED <<storageVars, result, checking, rpkiQ, draining, told, missed, pdus>>

\* The same of an update that is known.
RequestKnown(c, u) ==
    /\ ~crashed /\ u \in stored
    /\ listeners' = [listeners EXCEPT ![u] = @ \cup {c}]
    /\ told' = [told EXCEPT ![c][u] = result[u]]
    /\ Race({c}, u, result[u])
    /\ cmds' = cmds \cup {u}
    /\ UNCHANGED <<storageVars, skiVars, stored, result, checking, rpkiQ, draining, pdus>>

\* _processUpdateValidation as far as validateSignature.
CommandStart(u) ==
    /\ ~crashed /\ checking = None /\ u \in cmds
    /\ cmds' = cmds \ {u}
    /\ checking' = IF result[u] = Undefined THEN [update |-> u, verdict |-> Verdict(u)] ELSE None
    /\ UNCHANGED <<storageVars, skiVars, cacheVars, rpkiQ, draining, told, missed, pdus>>

\* The rest of it: modifyUpdateResult stores and broadcasts.
CommandStore ==
    /\ ~crashed /\ checking # None
    /\ LET u == checking.update
           v == checking.verdict
       IN  /\ result' = [result EXCEPT ![u] = v]
           /\ Broadcast(u, v)
           /\ Race(listeners[u], u, v)
    /\ checking' = None
    /\ UNCHANGED <<storageVars, skiVars, stored, listeners, cmds, rpkiQ, draining, pdus>>

Forget(c, us) ==
    /\ listeners' = [u \in Updates |-> IF u \in us THEN listeners[u] \ {c} ELSE listeners[u]]
    /\ told' = [told EXCEPT ![c] = [u \in Updates |-> IF u \in us THEN Undefined ELSE @[u]]]
    /\ missed' = missed \ ({c} \X us)

\* deleteUpdateFromCache: whichever client deletes the update, it is taken out
\* of the SKI cache.
DeleteUpdate(c, u) ==
    /\ ~crashed /\ checking = None /\ c \in listeners[u]
    /\ Forget(c, {u})
    /\ ski_unregisterUpdate(u)
    /\ UNCHANGED <<storageVars, stored, result, cmds, checking, rpkiQ, draining, pdus>>

\* unregisterClientID at the end of a session leaves the SKI cache alone.
EndSession(c) ==
    /\ ~crashed /\ \E u \in Updates : c \in listeners[u]
    /\ Forget(c, Updates)
    /\ UNCHANGED <<storageVars, skiVars, stored, result, cmds, checking, rpkiQ, draining, pdus>>

-----------------------------------------------------------------------------
KeysInit ==
    /\ store = [t \in Triplets |-> <<>>] /\ list = [b \in Buckets |-> <<>>] /\ held = {} /\ crashed = FALSE
    /\ keyCount = [t \in Triplets |-> 0]
    /\ regs = [t \in Triplets |-> [u \in Updates |-> 0]]
    /\ stored = {} /\ listeners = [u \in Updates |-> {}]
    /\ result = [u \in Updates |-> Undefined]
    /\ cmds = {} /\ checking = None /\ rpkiQ = {} /\ draining = FALSE
    /\ told = [c \in Clients |-> [u \in Updates |-> Undefined]] /\ missed = {} /\ pdus = 0

Rpki ==
    \/ \E t \in Triplets, k \in Keys : AnnounceKey(t, k) \/ WithdrawKey(t, k)
    \/ EndOfData
    \/ \E u \in Updates : NotifyNext(u)

Receiver == \E p \in Asking : RequestNew(p[1], p[2]) \/ RequestKnown(p[1], p[2])

Command ==
    \/ \E u \in Updates : CommandStart(u)
    \/ CommandStore
    \/ \E c \in Clients, u \in Updates : DeleteUpdate(c, u)

KeysNext == Rpki \/ Receiver \/ Command \/ \E c \in Clients : EndSession(c)

KeysSpec == KeysInit /\ [][KeysNext]_vars

-----------------------------------------------------------------------------
(* Properties.                                                             *)

\* The head of a bucket leads to the element of a triplet.
Reached(t) ==
    LET l == list[ks_getBucket(t[1])] IN \E i \in 1 .. Len(l) : l[i].t = t

KeysReached == \A t \in Triplets : store[t] # <<>> => Reached(t)

\* Every variable has its type, and the head of a bucket leads to all the keys
\* the storage has.
KeysTypeOK ==
    /\ store \in [Triplets -> Seq(Keys \cup {Gone})] /\ held \subseteq Triplets \X Keys
    /\ list \in [Buckets -> Seq(Element)]
    /\ KeysReached
    /\ crashed \in BOOLEAN /\ draining \in BOOLEAN
    /\ keyCount \in [Triplets -> 0 .. CounterSize - 1]
    /\ regs \in [Triplets -> [Updates -> Nat]]
    /\ stored \subseteq Updates /\ listeners \in [Updates -> SUBSET Clients]
    /\ result \in [Updates -> Verdicts \cup {Undefined}]
    /\ cmds \subseteq Updates /\ rpkiQ \subseteq Updates
    /\ checking \in [update : Updates, verdict : Verdicts] \cup {None}
    /\ told \in [Clients -> [Updates -> Verdicts \cup {Undefined}]]
    /\ missed \subseteq Clients \X Updates /\ pdus \in 0 .. MaxPdus

\* The SKIs of a triplet do not collide.
Unique(t) == \A j, k \in KeysAt[t] : j = k

\* The SKI cache lists the update with every key that decides about it.
Listed(u) == \A t \in Needs[u] : u \in Attached(t)

\* An update with one signature block is registered with all its keys, as
\* often as each occurs in the path, or not at all: ski_registerUpdate and
\* ski_unregisterUpdate find the same elements.
RegistrationsWhole ==
    \A u \in Updates : Len(Attr[u].algo) = 1 =>
        \/ \A t \in Triplets : regs[t][u] = Leaves[u][t]
        \/ \A t \in Triplets : regs[t][u] = 0

\* A key the storage has is counted by the SKI cache, or its withdrawal would
\* be kept from the updates that need it.
KeysCounted ==
    \A t \in Triplets : Unique(t) /\ store[t] # <<>> => keyCount[t] > 0

\* A client of a listed update goes by the verdict of the keys there are, or
\* waits for one; unless a validation was overtaken by a change of the keys, the
\* client was given a stored result that such a change had outdated, or a key of
\* the update went missing when another of its bucket was stored or deleted.
ToldUnlessMissed ==
    \A u \in Updates, c \in Clients :
        /\ c \in listeners[u] /\ <<c, u>> \notin missed
        /\ Listed(u) /\ \A t \in Needs[u] : Unique(t)
        => told[c][u] \in {Undefined, Verdict(u)} \/ u \in rpkiQ

-----------------------------------------------------------------------------
(* What one would expect and does not hold; README.md, section 7, has the    *)
(* constants under which TLC shows it.                                       *)

\* An update somebody listens to is in the SKI cache.
ListenersListed == \A u \in Updates : listeners[u] # {} => Listed(u)

\* What the validation cache has announced can be used.
HeldIsStored == \A h \in held : Has(store[h[1]], h[2])

\* The same of keys whose SKIs do not collide.
UniqueIsStored == \A h \in held : Unique(h[1]) => Has(store[h[1]], h[2])

\* A path is valid if the right keys are among those announced.
AllKeysTried ==
    \A t \in Triplets : <<t, Signer[t]>> \in held => Verified(t)

\* With nothing under way the stored result is the verdict.
StoredIsCurrent ==
    rpkiQ = {} => \A u \in Updates : Listed(u) => result[u] \in {Undefined, Verdict(u)}

NeverCrashes == ~crashed
=============================================================================
