------------------------------ MODULE RtrCache ------------------------------
(***************************************************************************)
(* The validation cache of tools/rpkirtr_svr.c: its list of entries, their *)
(* serial numbers, and the objects it answers a query with.                *)
(*                                                                         *)
(* The list is kept in the order of the serials: an entry is appended with *)
(* the next one, and a withdrawn entry is given the next one and moved to  *)
(* the end.  A node of the list is a record whose pos says where in the    *)
(* list it stands.  Withdrawn entries are deleted an hour later.           *)
(*                                                                         *)
(* The module is about the promise a serial number makes: a router that    *)
(* holds what was sent under serial s, and is sent what changed since s,   *)
(* holds what the cache holds.  RouterSession.tla has the connections.     *)
(* A command holds the lock of the list and is one step, but for append,   *)
(* which gives the lock up before it writes to the list and again after:   *)
(* the timer may delete entries it has counted, and until it has advanced  *)
(* the serial the new entries are announced under the old one.  Serials do *)
(* not wrap within the bounds.                                             *)
(***************************************************************************)
EXTENDS Integers, Sequences, FiniteSets

CONSTANTS
    Roas,           \* the ROAs, router keys and ASPA objects entries stand for
    MaxSerial,      \* bound: the highest serial given
    MaxNodes,       \* bound: how often a node is appended or moved
    MaxLines,       \* bound: entries added or removed by one command
    UINT32_MAX,     \* the initial value of minPSExpired
    BadFiles,       \* whether a file may have a line with a field missing
    Empties         \* whether the operator may use the command 'empty'

ASSUME RtrCacheAssumption ==
    /\ MaxSerial \in Nat /\ MaxNodes \in Nat /\ MaxLines \in Nat
    /\ UINT32_MAX \in Nat /\ MaxSerial < UINT32_MAX
    /\ BadFiles \in BOOLEAN /\ Empties \in BOOLEAN

VARIABLES
    entries,        \* the nodes of cache.entries
    tail,           \* the position of the last node appended
    maxSerial,
    console,        \* where the console is in an append, and what it knows
    minPSExpired,   \* the lowest serial at which a deleted entry was announced
    maxSExpired,    \* the highest one at which a deleted entry was withdrawn
    past,           \* history: for each serial, the sets of objects sent under it
    early,          \* history: those sent under it before it was advanced
    mishap,         \* history: a file was loaded in part, the list was emptied,
                    \*   or entries were deleted while an append counted them
    fell            \* history: the serial was set back

limits    == <<minPSExpired, maxSExpired>>
history   == <<past, early, mishap, fell>>
cacheVars == <<entries, tail, maxSerial, console, limits, history>>

\* An entry is told from others with the same content by where it was appended.
Id(e) == <<e.roa, e.born>>
Ids   == Roas \X (Nat \ {0})
Node  == [roa : Roas, born : Nat \ {0}, prev : 1 .. MaxSerial,
          serial : 1 .. MaxSerial, ann : BOOLEAN, pos : Nat \ {0}]

\* What the cache announces: the entries whose flag is set.
Announced(nodes) == {Id(e) : e \in {n \in nodes : n.ann}}

\* appendPrefixData: "append" is before it has the write lock, "count" after
\* that, before it has the read lock again.  before is numBefore, and added is
\* how many entries were read without an error.
Console == [at : {"idle", "append", "count"}, before : Nat, added : 0 .. MaxLines,
            succ : BOOLEAN]
Idle    == [at |-> "idle", before |-> 0, added |-> 0, succ |-> TRUE]

\* Nodes were appended that the serial was not advanced by.
Uncounted == \E e \in entries : e.serial > maxSerial

\* What may be sent under the current serial is remembered with it.
Remember ==
    LET now(f) == [f EXCEPT ![maxSerial'] = @ \cup {Announced(entries')}] IN
    IF Uncounted' THEN early' = now(early) /\ UNCHANGED past
    ELSE past' = now(past) /\ UNCHANGED early

-----------------------------------------------------------------------------
(* Answers.                                                                *)

\* True if the cache no longer has all that changed since the serial.
checkSerial(min, max, serial) ==
    IF min < max THEN min <= serial /\ serial <= max
    ELSE ~(serial < min) /\ serial > max

\* sendCacheObjects: from the first node with a higher serial to the end of the
\* list, without the withdrawals of what the router never saw.
Objects(isReset, serial) ==
    {e \in entries :
        /\ \E d \in entries : d.pos <= e.pos /\ (isReset \/ d.serial > serial)
        /\ isReset => e.ann
        /\ ~(e.serial # e.prev /\ e.prev > serial)}

-----------------------------------------------------------------------------
(* The commands of the console and the timer.                              *)

\* appendPrefixData (appendASPAData, appendRouterKeyData), up to where it gives
\* up the read lock to get the write lock.
appendPrefixData ==
    /\ console.at = "idle" /\ tail < MaxNodes
    /\ console' = [Idle EXCEPT !.at = "append", !.before = Cardinality(entries)]
    /\ UNCHANGED <<entries, tail, maxSerial, limits, history>>

\* Mutant: the first entry of a file is given the serial that is in use already.
readPrefixData_Late(lines, complete) ==
    LET n == Len(lines) IN
    /\ console.at = "append"
    /\ n \in 0 .. MaxLines /\ maxSerial + n <= MaxSerial /\ tail + n <= MaxNodes
    /\ entries' = entries \cup
          {[roa |-> lines[i], born |-> tail + i, prev |-> maxSerial + i - 1,
            serial |-> maxSerial + i - 1, ann |-> TRUE, pos |-> tail + i] : i \in 1 .. n}
    /\ tail' = tail + n
    /\ console' = [at |-> "count", before |-> console.before,
                   added |-> IF complete THEN n ELSE 0, succ |-> complete]
    /\ mishap' = (mishap \/ (~complete /\ n > 0))
    /\ UNCHANGED <<maxSerial, limits, fell>>
    /\ Remember

\* readPrefixData (readASPAData, readRouterKeyData) appends an entry for each
\* line; when it meets a line it refuses, the entries stay.  The write lock is
\* given up then.
readPrefixData(lines, complete) ==
    LET n == Len(lines) IN
    /\ console.at = "append"
    /\ n \in 0 .. MaxLines /\ maxSerial + n <= MaxSerial /\ tail + n <= MaxNodes
    /\ entries' = entries \cup
          {[roa |-> lines[i], born |-> tail + i, prev |-> maxSerial + i,
            serial |-> maxSerial + i, ann |-> TRUE, pos |-> tail + i] : i \in 1 .. n}
    /\ tail' = tail + n
    /\ console' = [at |-> "count", before |-> console.before,
                   added |-> IF complete THEN n ELSE 0, succ |-> complete]
    /\ mishap' = (mishap \/ (~complete /\ n > 0))
    /\ UNCHANGED <<maxSerial, limits, fell>>
    /\ Remember

\* The rest of appendPrefixData, under the read lock: the serial is advanced by
\* how much the list has grown since numBefore, not at all after an error.  The
\* list has grown by less than was appended, or has shrunk, if the timer deleted
\* entries while the lock was given up.
advanceSerial ==
    LET numAdded == IF console.succ THEN Cardinality(entries) - console.before ELSE 0 IN
    /\ console.at = "count"
    /\ maxSerial' = (maxSerial + numAdded) % (UINT32_MAX + 1)
    /\ console' = Idle
    /\ mishap' = (mishap \/ numAdded # console.added)
    /\ fell' = (fell \/ maxSerial' < maxSerial)
    /\ UNCHANGED <<entries, tail, limits>>
    /\ Remember

\* The entries f enumerates in the order of the list.
InOrder(f, n) == \A i, j \in 1 .. n : i < j => f[i].pos < f[j].pos

\* The node of an entry that is no longer announced.
Withdrawn(e, serial, pos) ==
    [roa |-> e.roa, born |-> e.born, prev |-> e.prev, serial |-> serial,
     ann |-> FALSE, pos |-> pos]

\* Mutant: the end of the list is not advanced by the nodes moved there.
processEntryRemoval_OldTail(first, last) ==
    \E n \in 1 .. MaxLines :
    \E f \in [1 .. n -> {e \in entries : e.pos \in first .. last /\ e.serial = e.prev}] :
        /\ console.at = "idle" /\ InOrder(f, n)
        /\ {f[i] : i \in 1 .. n} = {e \in entries : e.pos \in first .. last /\ e.serial = e.prev}
        /\ maxSerial + n <= MaxSerial /\ tail + n <= MaxNodes
        /\ entries' = (entries \ {f[i] : i \in 1 .. n}) \cup
              {Withdrawn(f[i], maxSerial + i, tail + i) : i \in 1 .. n}
        /\ tail' = tail
        /\ maxSerial' = maxSerial + n
        /\ UNCHANGED <<console, limits, mishap, fell>>
        /\ Remember

\* The entries at the positions that are not withdrawn yet are, in the order of
\* the list, given the next serials and moved to its end.
processEntryRemoval(first, last) ==
    \E n \in 1 .. MaxLines :
    \E f \in [1 .. n -> {e \in entries : e.pos \in first .. last /\ e.serial = e.prev}] :
        /\ console.at = "idle" /\ InOrder(f, n)
        /\ {f[i] : i \in 1 .. n} = {e \in entries : e.pos \in first .. last /\ e.serial = e.prev}
        /\ maxSerial + n <= MaxSerial /\ tail + n <= MaxNodes
        /\ entries' = (entries \ {f[i] : i \in 1 .. n}) \cup
              {Withdrawn(f[i], maxSerial + i, tail + i) : i \in 1 .. n}
        /\ tail' = tail + n
        /\ maxSerial' = maxSerial + n
        /\ UNCHANGED <<console, limits, mishap, fell>>
        /\ Remember

\* Mutant: the lowest serial of what was deleted is not kept.
deleteExpiredEntriesFromCache_NoMin(last) ==
    LET gone == {e \in entries : ~e.ann /\ e.pos <= last} IN
    /\ gone # {}
    /\ entries' = entries \ gone
    /\ \E max \in {maxSExpired} \cup {e.serial : e \in gone} :
          /\ \A m \in {maxSExpired} \cup {e.serial : e \in gone} : max >= m
          /\ maxSExpired' = max
    /\ UNCHANGED <<tail, maxSerial, console, minPSExpired, mishap, fell>>
    /\ Remember

\* The timer deletes the entries whose hour is over: those that were withdrawn,
\* and moved to the end of the list, first.
deleteExpiredEntriesFromCache(last) ==
    LET gone == {e \in entries : ~e.ann /\ e.pos <= last} IN
    /\ gone # {}
    /\ entries' = entries \ gone
    /\ \E min \in {minPSExpired} \cup {e.prev : e \in gone} :
          /\ \A m \in {minPSExpired} \cup {e.prev : e \in gone} : min <= m
          /\ minPSExpired' = min
    /\ \E max \in {maxSExpired} \cup {e.serial : e \in gone} :
          /\ \A m \in {maxSExpired} \cup {e.serial : e \in gone} : max >= m
          /\ maxSExpired' = max
    /\ UNCHANGED <<tail, maxSerial, console, mishap, fell>>
    /\ Remember

\* The list is emptied and nothing else is touched.
emptyCache ==
    /\ console.at = "idle" /\ entries # {}
    /\ entries' = {}
    /\ UNCHANGED <<tail, maxSerial, console, limits, fell>>
    /\ Remember
    /\ mishap' = TRUE

-----------------------------------------------------------------------------
\* setupCache
CacheInit ==
    /\ entries = {} /\ tail = 0 /\ maxSerial = 0
    /\ minPSExpired = UINT32_MAX /\ maxSExpired = 0
    /\ console = Idle
    /\ past = [s \in 0 .. MaxSerial |-> IF s = 0 THEN {{}} ELSE {}]
    /\ early = [s \in 0 .. MaxSerial |-> {}]
    /\ mishap = FALSE /\ fell = FALSE

\* What one append does after it has given up the lock; a file may be empty.
Read == \E n \in 0 .. MaxLines : \E lines \in [1 .. n -> Roas] :
    \/ readPrefixData(lines, TRUE)
    \/ BadFiles /\ readPrefixData(lines, FALSE)

Remove == \E first, last \in 1 .. tail : processEntryRemoval(first, last)

Expire == \E last \in 1 .. tail : deleteExpiredEntriesFromCache(last)

Empty == Empties /\ emptyCache

CacheNext == appendPrefixData \/ Read \/ advanceSerial \/ Remove \/ Expire \/ Empty

CacheSpec == CacheInit /\ [][CacheNext]_cacheVars

-----------------------------------------------------------------------------
(* Properties.                                                             *)

\* Every variable has its type.
CacheTypeOK ==
    /\ \A e \in entries : e \in Node /\ e.pos <= tail
    /\ IsFiniteSet(entries)
    /\ tail \in Nat
    /\ maxSerial \in 0 .. UINT32_MAX
    /\ console \in Console
    /\ minPSExpired \in 1 .. UINT32_MAX
    /\ maxSExpired \in 0 .. MaxSerial
    /\ past \in [0 .. MaxSerial -> SUBSET SUBSET Ids]
    /\ early \in [0 .. MaxSerial -> SUBSET SUBSET Ids]
    /\ mishap \in BOOLEAN /\ fell \in BOOLEAN

\* A router that holds a set of objects and is sent the ones that changed since
\* the serial ends with what the cache announces, is not sent an object it
\* holds, and is not told to withdraw one it does not hold.
Exact(held, serial) ==
    LET sent      == Objects(FALSE, serial)
        withdrawn == {Id(e) : e \in {o \in sent : ~o.ann}}
        announced == {Id(e) : e \in {o \in sent : o.ann}}
    IN  /\ withdrawn \subseteq held
        /\ announced \cap held = {}
        /\ (held \ withdrawn) \cup announced = Announced(entries)

\* The answer to a serial query brings a router up to date whatever serial it
\* asks with and whatever was added, withdrawn and deleted since, as long as the
\* list was never emptied, no file was loaded in part and no entry was deleted in
\* the middle of an append, and the router was not sent that serial before an
\* append had advanced it.  (Otherwise an answer may repeat objects, or leave the
\* router with old ones.)
DeltaExact ==
    mishap \/ \A s \in 0 .. MaxSerial :
        checkSerial(minPSExpired, maxSExpired, s) \/ \A held \in past[s] : Exact(held, s)

\* A query that is answered leaves the router with all the objects the cache
\* announces, after any of these mishaps too and with a serial it was sent too
\* early, unless the cache has set its serial back.
NothingMissing ==
    fell \/ \A s \in 0 .. MaxSerial :
        \/ checkSerial(minPSExpired, maxSExpired, s)
        \/ \A held \in past[s] \cup early[s] :
              LET sent == Objects(FALSE, s) IN
              Announced(entries) \subseteq
                  (held \ {Id(e) : e \in {o \in sent : ~o.ann}}) \cup
                      {Id(e) : e \in {o \in sent : o.ann}}

-----------------------------------------------------------------------------
(* What one would expect and does not hold; README.md, section 7, has the    *)
(* constants under which TLC shows it.                                       *)

\* A query is answered with a Cache Reset only if its serial cannot be served.
RefusedOnlyIfUnserved ==
    \A s \in 0 .. MaxSerial :
        checkSerial(minPSExpired, maxSExpired, s) =>
            \A held \in past[s] : ~Exact(held, s)

\* A serial is given once.
NeverSetBack == ~fell

\* DeltaExact whatever happens in the middle of an append ...
DeltaExactAlways ==
    \A s \in 0 .. MaxSerial :
        checkSerial(minPSExpired, maxSExpired, s) \/ \A held \in past[s] : Exact(held, s)

\* ... and for what was sent before the serial was advanced: the answer leaves
\* the router with what the cache announces, even if it repeats some of it.
EarlyCorrected ==
    mishap \/ \A s \in 0 .. MaxSerial :
        \/ checkSerial(minPSExpired, maxSExpired, s)
        \/ \A held \in early[s] :
              (held \ {Id(e) : e \in {o \in Objects(FALSE, s) : ~o.ann}})
                  \subseteq Announced(entries)
=============================================================================
