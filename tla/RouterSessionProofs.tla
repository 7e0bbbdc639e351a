------------------------- MODULE RouterSessionProofs -------------------------
(***************************************************************************)
(* The answers of a validation cache and what its clients make of them.    *)
(*                                                                         *)
(* The list.  The answer to a serial query is exact, for every number of   *)
(* serials and nodes, until there is a mishap: a file is loaded in part,   *)
(* the list is emptied, or entries are deleted in the middle of an append. *)
(* It is complete after these as well, as long as the serial is not set    *)
(* back, and also for what was sent before an append advanced the serial.  *)
(* The inductive invariant CacheInv says of every set that was sent under  *)
(* a serial s that an entry of the list is in it iff the entry was         *)
(* announced by then and was not withdrawn by then, and that what is no    *)
(* longer in the list keeps s within the window in which queries are       *)
(* refused.                                                                *)
(*                                                                         *)
(* The sessions.  Two invariants say what a router will have when it has   *)
(* processed what is on the way to it, until there is a mishap.  LackInv   *)
(* is about every router, as long as the cache is not started anew:        *)
(* whoever gives a serial to the router, or asks with it, knows what was   *)
(* announced under it.  ExactInv is about the routers that never asked for *)
(* what they had or were about to get and were never sent data before the  *)
(* serial was advanced: each ROA comes to be held once or not at all, as   *)
(* it was sent under the serial of the End of Data.                        *)
(***************************************************************************)
EXTENDS RouterSession, FiniteSetTheorems, SequenceTheorems, TLAPS

-----------------------------------------------------------------------------
(* The list of the cache and its answers.                                  *)

\* The serial of the last node: that of the cache, once it has been advanced.
Top == maxSerial + console.added

\* The nodes of the list, with the serials given so far.
ListOK ==
    \A e \in entries :
        /\ e \in [roa : Roas, born : 1 .. tail, prev : 1 .. Top,
                  serial : 1 .. Top, ann : BOOLEAN, pos : 1 .. tail]
        /\ e.prev <= e.serial
        /\ e.ann <=> e.serial = e.prev

\* The list is sorted, and no two nodes share a serial, a place or an origin.
Sorted ==
    \A d, e \in entries :
        /\ d.pos < e.pos <=> d.serial < e.serial
        /\ d.pos = e.pos \/ d.born = e.born \/ d.serial = e.serial => d = e

\* What is kept in a sent set, and why what is missing from the list is refused.
PastOK ==
    \A s \in 0 .. MaxSerial : \A had \in past[s] :
        /\ s <= maxSerial
        /\ \A e \in entries : Id(e) \in had <=> e.prev <= s /\ (e.ann \/ s < e.serial)
        /\ \A x \in had :
              \/ \E e \in entries : Id(e) = x
              \/ minPSExpired <= s /\ s < maxSExpired
        /\ \A x \in had : x \in Roas \X (1 .. tail)

NumbersOK ==
    /\ tail \in Nat /\ maxSerial \in 0 .. MaxSerial
    /\ console.added \in Nat /\ Top \in 0 .. MaxSerial
    /\ console.at # "count" \/ ~console.succ => console.added = 0
    /\ minPSExpired \in 1 .. UINT32_MAX /\ maxSExpired \in 0 .. Top
    /\ minPSExpired < maxSExpired \/ (minPSExpired = UINT32_MAX /\ maxSExpired = 0)

\* past is a function on the serials.
PastDomain == past = [s \in 0 .. MaxSerial |-> past[s]]

CacheInv == NumbersOK /\ ListOK /\ Sorted /\ PastDomain /\ PastOK

-----------------------------------------------------------------------------
\* The invariant holds at the start.
LEMMA CacheInit_Inv == CacheInit => CacheInv
<1> SUFFICES ASSUME CacheInit PROVE CacheInv
    OBVIOUS
<1>1. NumbersOK
    BY RtrCacheAssumption, SMT DEF CacheInit, NumbersOK, Idle, Top
<1>2. ListOK /\ Sorted /\ PastDomain
    BY DEF CacheInit, ListOK, Sorted, PastDomain
<1>3. PastOK
  <2> SUFFICES ASSUME NEW s \in 0 .. MaxSerial, NEW had \in past[s] PROVE s = 0 /\ had = {}
      BY RtrCacheAssumption DEF CacheInit, PastOK
  <2> QED BY DEF CacheInit
<1> QED BY <1>1, <1>2, <1>3 DEF CacheInv

\* A command that keeps the sorted list and the old sets in order also keeps
\* what it remembers in order: the new set is what the cache announces.
LEMMA RememberOK ==
    ASSUME NumbersOK, NumbersOK', ListOK', Sorted', PastDomain, Remember,
           maxSerial <= maxSerial',
           \A s \in 0 .. maxSerial : \A had \in past[s] :
              /\ \A e \in entries' : Id(e) \in had <=> e.prev <= s /\ (e.ann \/ s < e.serial)
              /\ \A x \in had :
                    \/ \E e \in entries' : Id(e) = x
                    \/ minPSExpired' <= s /\ s < maxSExpired'
              /\ \A x \in had : x \in Roas \X (1 .. tail'),
           \A s \in 0 .. MaxSerial : past[s] # {} => s <= maxSerial
    PROVE  PastDomain' /\ PastOK'
<1> USE RtrCacheAssumption
<1>0. maxSerial \in Nat /\ maxSerial' \in 0 .. MaxSerial /\ MaxSerial \in Nat
    BY SMT DEF NumbersOK
<1>1. PastDomain'
    BY DEF Remember, PastDomain
<1>2. ASSUME NEW s \in 0 .. MaxSerial, NEW had \in past'[s]
      PROVE  /\ s <= maxSerial'
             /\ \A e \in entries' : Id(e) \in had <=> e.prev <= s /\ (e.ann \/ s < e.serial)
             /\ \A x \in had :
                   \/ \E e \in entries' : Id(e) = x
                   \/ minPSExpired' <= s /\ s < maxSExpired'
             /\ \A x \in had : x \in Roas \X (1 .. tail')
  <2>1. CASE had \in past[s]
    <3>1. s <= maxSerial
        BY <2>1
    <3>2. s \in 0 .. maxSerial /\ s <= maxSerial'
        BY <3>1, <1>0, SMT
    <3> QED BY <2>1, <3>2
  <2>2. CASE s = maxSerial' /\ had = Announced(entries') /\ ~Uncounted'
    <3>1. ASSUME NEW e \in entries' PROVE Id(e) \in had <=> e.ann
        BY <2>2, SMT DEF Announced, Sorted, Id, ListOK
    <3>2. ASSUME NEW e \in entries' PROVE e.prev <= s /\ ~(s < e.serial)
      <4>1. e.prev \in Nat /\ e.serial \in Nat /\ e.prev <= e.serial
          BY SMT DEF ListOK, NumbersOK
      <4>2. ~(e.serial > maxSerial')
          BY <2>2 DEF Uncounted
      <4> QED BY <2>2, <4>1, <4>2, <1>0, SMT
    <3>3. \A x \in had : \E e \in entries' : Id(e) = x
        BY <2>2 DEF Announced
    <3>4. \A x \in had : x \in Roas \X (1 .. tail')
        BY <2>2, SMT DEF Announced, Id, ListOK
    <3>5. s <= maxSerial'
        BY <2>2, <1>0, SMT
    <3> QED BY <3>1, <3>2, <3>3, <3>4, <3>5
  <2>3. \/ past' = past
        \/ ~Uncounted' /\ past' = [past EXCEPT ![maxSerial'] = @ \cup {Announced(entries')}]
      BY DEF Remember
  <2> QED BY <2>1, <2>2, <2>3 DEF PastDomain
<1> QED BY <1>1, <1>2 DEF PastOK

\* What was sent was sent under the serials given so far.
LEMMA PastGiven == CacheInv => \A s \in 0 .. MaxSerial : past[s] # {} => s <= maxSerial
BY DEF CacheInv, PastOK

\* The sets sent so far are in order with the entries there are.
LEMMA PastThere ==
    ASSUME CacheInv, NEW s \in 0 .. maxSerial, NEW had \in past[s]
    PROVE  /\ s \in Nat
           /\ \A e \in entries : Id(e) \in had <=> e.prev <= s /\ (e.ann \/ s < e.serial)
           /\ \A x \in had :
                 \/ \E e \in entries : Id(e) = x
                 \/ minPSExpired <= s /\ s < maxSExpired
           /\ \A x \in had : x \in Roas \X (1 .. tail)
<1>1. s \in 0 .. MaxSerial /\ s \in Nat
    BY RtrCacheAssumption, SMT DEF CacheInv, NumbersOK
<1> QED BY <1>1 DEF CacheInv, PastOK

\* The console begins an append: nothing of the list is touched.
LEMMA BeginStep ==
    ASSUME CacheInv, appendPrefixData
    PROVE  CacheInv'
<1>1. /\ entries' = entries /\ tail' = tail /\ maxSerial' = maxSerial /\ past' = past
      /\ minPSExpired' = minPSExpired /\ maxSExpired' = maxSExpired
      /\ console.at = "idle" /\ console'.added = 0
    BY DEF appendPrefixData, limits, history, Idle
<1>2. console.added = 0 /\ Top' = Top
    BY <1>1 DEF CacheInv, NumbersOK, Top
<1>3. NumbersOK'
    BY <1>1, <1>2 DEF CacheInv, NumbersOK
<1> QED BY <1>1, <1>2, <1>3 DEF CacheInv, ListOK, Sorted, PastDomain, PastOK

\* Entries appended by a command that completes.
LEMMA AppendStep ==
    ASSUME CacheInv, NEW n \in 0 .. MaxLines, NEW lines \in [1 .. n -> Roas],
           readPrefixData(lines, TRUE)
    PROVE  CacheInv'
<1> USE RtrCacheAssumption DEF CacheInv
<1> DEFINE new(i) == [roa |-> lines[i], born |-> tail + i, prev |-> maxSerial + i,
                      serial |-> maxSerial + i, ann |-> TRUE, pos |-> tail + i]
<1>1. Len(lines) = n
    BY SMT
<1>2. /\ entries' = entries \cup {new(i) : i \in 1 .. n}
      /\ tail' = tail + n /\ maxSerial' = maxSerial
      /\ maxSerial + n <= MaxSerial
      /\ minPSExpired' = minPSExpired /\ maxSExpired' = maxSExpired
      /\ console.at = "append"
      /\ console' = [at |-> "count", before |-> console.before, added |-> n, succ |-> TRUE]
      /\ Remember
    BY <1>1 DEF readPrefixData, limits
<1>21. console.added = 0 /\ Top = maxSerial
    BY <1>2, SMT DEF NumbersOK, Top
<1>22. console'.added = n /\ console'.at = "count" /\ console'.succ = TRUE
    BY <1>2
<1>23. Top' = maxSerial + n
    BY <1>2, <1>22 DEF Top
<1>3. NumbersOK'
    BY <1>2, <1>21, <1>22, <1>23, SMT DEF NumbersOK
<1>4. ASSUME NEW e \in entries'
      PROVE  e \in entries \/ \E i \in 1 .. n : e = new(i)
    BY <1>2
<1>5. ListOK'
  <2> SUFFICES ASSUME NEW e \in entries'
               PROVE  /\ e \in [roa : Roas, born : 1 .. tail', prev : 1 .. Top',
                                serial : 1 .. Top', ann : BOOLEAN, pos : 1 .. tail']
                      /\ e.prev <= e.serial
                      /\ e.ann <=> e.serial = e.prev
      BY DEF ListOK
  <2>1. CASE e \in entries
      BY <2>1, <1>2, <1>21, <1>23, SMT DEF ListOK, NumbersOK
  <2>2. CASE \E i \in 1 .. n : e = new(i)
      BY <2>2, <1>2, <1>23, SMT DEF NumbersOK
  <2> QED BY <1>4, <2>1, <2>2
<1>6. Sorted'
  <2> SUFFICES ASSUME NEW d \in entries', NEW e \in entries'
               PROVE  /\ d.pos < e.pos <=> d.serial < e.serial
                      /\ d.pos = e.pos \/ d.born = e.born \/ d.serial = e.serial => d = e
      BY DEF Sorted
  <2>1. CASE d \in entries /\ e \in entries
      BY <2>1 DEF Sorted
  <2>2. CASE d \in entries /\ \E i \in 1 .. n : e = new(i)
      BY <2>2, <1>2, <1>21, SMT DEF ListOK, NumbersOK
  <2>3. CASE e \in entries /\ \E i \in 1 .. n : d = new(i)
      BY <2>3, <1>2, <1>21, SMT DEF ListOK, NumbersOK
  <2>4. ASSUME NEW i \in 1 .. n, NEW j \in 1 .. n, d = new(i), e = new(j)
        PROVE  /\ d.pos < e.pos <=> d.serial < e.serial
               /\ d.pos = e.pos \/ d.born = e.born \/ d.serial = e.serial => d = e
    <3>1. d.pos = tail + i /\ d.born = tail + i /\ d.serial = maxSerial + i
        BY <2>4
    <3>2. e.pos = tail + j /\ e.born = tail + j /\ e.serial = maxSerial + j
        BY <2>4
    <3>3. i = j => d = e
        BY <2>4
    <3> QED BY <3>1, <3>2, <3>3, SMT DEF NumbersOK
  <2> QED BY <1>4, <2>1, <2>2, <2>3, <2>4
<1>7. PastDomain' /\ PastOK'
  <2>1. ASSUME NEW s \in 0 .. maxSerial, NEW had \in past[s], NEW e \in entries'
        PROVE  Id(e) \in had <=> e.prev <= s /\ (e.ann \/ s < e.serial)
    <3>1. CASE e \in entries
        BY <3>1, PastThere
    <3>2. ASSUME NEW i \in 1 .. n, e = new(i)
          PROVE  Id(e) \notin had /\ ~(e.prev <= s)
      <4>1. e.born = tail + i /\ e.prev = maxSerial + i
          BY <3>2
      <4>2. ~(e.prev <= s)
          BY <4>1, SMT DEF NumbersOK
      <4>3. Id(e) \notin Roas \X (1 .. tail)
          BY <4>1, SMT DEF Id, NumbersOK
      <4> QED BY <4>2, <4>3, PastThere
    <3> QED BY <1>4, <3>1, <3>2
  <2>2. ASSUME NEW s \in 0 .. maxSerial, NEW had \in past[s], NEW x \in had
        PROVE  /\ \/ \E e \in entries' : Id(e) = x
                  \/ minPSExpired' <= s /\ s < maxSExpired'
               /\ x \in Roas \X (1 .. tail')
    <3>1. x \in Roas \X (1 .. tail)
        BY PastThere
    <3>2. 1 .. tail \subseteq 1 .. tail'
        BY <1>2, SMT DEF NumbersOK
    <3> QED BY <1>2, <3>1, <3>2, PastThere
  <2>3. maxSerial <= maxSerial'
      BY <1>2, SMT DEF NumbersOK
  <2> QED BY <1>2, <1>3, <1>5, <1>6, <2>1, <2>2, <2>3, RememberOK, PastGiven
<1> QED BY <1>3, <1>5, <1>6, <1>7

\* Nothing was read before the error: the list is as it was.
LEMMA FailStep ==
    ASSUME CacheInv, ~mishap', NEW n \in 0 .. MaxLines, NEW lines \in [1 .. n -> Roas],
           readPrefixData(lines, FALSE)
    PROVE  CacheInv' /\ entries' = entries /\ maxSerial' = maxSerial /\ Remember
<1> USE RtrCacheAssumption
<1>1. Len(lines) = n
    BY SMT
<1>2. n = 0
  <2>1. mishap' = (mishap \/ (~FALSE /\ n > 0))
      BY <1>1, Zenon DEF readPrefixData
  <2>2. ~(n > 0)
      BY <2>1
  <2> QED BY <2>2, SMT
<1>3. /\ entries' = entries /\ tail' = tail /\ maxSerial' = maxSerial
      /\ minPSExpired' = minPSExpired /\ maxSExpired' = maxSExpired
      /\ console.at = "append" /\ console'.added = 0 /\ Remember
  <2>1. 1 .. n = {} /\ tail + n = tail
      BY <1>2, SMT DEF CacheInv, NumbersOK
  <2> QED BY <1>1, <1>2, <2>1 DEF readPrefixData, limits
<1>4. console.added = 0 /\ Top' = Top
    BY <1>3, SMT DEF CacheInv, NumbersOK, Top
<1>5. NumbersOK' /\ ListOK' /\ Sorted'
    BY <1>3, <1>4 DEF CacheInv, NumbersOK, ListOK, Sorted
<1>6. PastDomain' /\ PastOK'
  <2>1. NumbersOK /\ PastDomain /\ maxSerial <= maxSerial'
      BY <1>3, SMT DEF CacheInv, NumbersOK
  <2>2. \A s \in 0 .. maxSerial : \A had \in past[s] :
              /\ \A e \in entries' : Id(e) \in had <=> e.prev <= s /\ (e.ann \/ s < e.serial)
              /\ \A x \in had :
                    \/ \E e \in entries' : Id(e) = x
                    \/ minPSExpired' <= s /\ s < maxSExpired'
              /\ \A x \in had : x \in Roas \X (1 .. tail')
      BY <1>3, PastThere
  <2> QED BY <1>3, <1>5, <2>1, <2>2, RememberOK, PastGiven
<1> QED BY <1>3, <1>5, <1>6 DEF CacheInv

\* A smaller number is its own remainder.
LEMMA Remainder == \A a, b \in Nat : a < b => a % b = a
OBVIOUS

\* The serial is advanced by what was appended.
LEMMA AdvanceStep ==
    ASSUME CacheInv, ~mishap', advanceSerial
    PROVE  /\ CacheInv' /\ entries' = entries /\ tail' = tail
           /\ maxSerial' = maxSerial + console.added /\ ~mishap
<1> USE RtrCacheAssumption
<1> DEFINE numAdded == IF console.succ THEN Cardinality(entries) - console.before ELSE 0
<1>1. /\ entries' = entries /\ tail' = tail
      /\ maxSerial' = (maxSerial + numAdded) % (UINT32_MAX + 1)
      /\ minPSExpired' = minPSExpired /\ maxSExpired' = maxSExpired
      /\ console' = Idle /\ mishap' = (mishap \/ numAdded # console.added)
      /\ Remember
    BY DEF advanceSerial, limits
<1>2. numAdded = console.added /\ ~mishap
    BY <1>1
<1> HIDE DEF numAdded
<1>3. /\ maxSerial \in Nat /\ console.added \in Nat /\ maxSerial + console.added \in 0 .. MaxSerial
      /\ UINT32_MAX + 1 \in Nat /\ MaxSerial \in Nat
    BY SMT DEF CacheInv, NumbersOK, Top
<1>4. maxSerial' = maxSerial + console.added
    BY <1>1, <1>2, <1>3, Remainder
<1>5. console'.added = 0 /\ console'.at = "idle" /\ Top' = Top /\ Top' = maxSerial'
    BY <1>1, <1>3, <1>4, SMT DEF Idle, Top
<1>6. NumbersOK' /\ ListOK' /\ Sorted'
    BY <1>1, <1>4, <1>5 DEF CacheInv, NumbersOK, ListOK, Sorted
<1>7. maxSerial <= maxSerial'
    BY <1>3, <1>4, SMT
<1>8. PastDomain' /\ PastOK'
  <2>1. NumbersOK /\ PastDomain
      BY DEF CacheInv
  <2>2. \A s \in 0 .. maxSerial : \A had \in past[s] :
              /\ \A e \in entries' : Id(e) \in had <=> e.prev <= s /\ (e.ann \/ s < e.serial)
              /\ \A x \in had :
                    \/ \E e \in entries' : Id(e) = x
                    \/ minPSExpired' <= s /\ s < maxSExpired'
              /\ \A x \in had : x \in Roas \X (1 .. tail')
      BY <1>1, PastThere
  <2> QED BY <1>1, <1>6, <1>7, <2>1, <2>2, RememberOK, PastGiven
<1> QED BY <1>1, <1>2, <1>4, <1>6, <1>8 DEF CacheInv

\* Entries that are withdrawn, in the order of the list.
LEMMA RemoveStep ==
    ASSUME CacheInv, NEW first \in 1 .. tail, NEW last \in 1 .. tail,
           processEntryRemoval(first, last)
    PROVE  CacheInv'
<1> USE RtrCacheAssumption DEF CacheInv
<1> DEFINE chosen == {e \in entries : e.pos \in first .. last /\ e.serial = e.prev}
<1>1. PICK n \in 1 .. MaxLines : \E f \in [1 .. n -> chosen] :
        /\ console.at = "idle" /\ console' = console
        /\ InOrder(f, n)
        /\ {f[i] : i \in 1 .. n} = chosen
        /\ maxSerial + n <= MaxSerial
        /\ entries' = (entries \ {f[i] : i \in 1 .. n}) \cup
              {Withdrawn(f[i], maxSerial + i, tail + i) : i \in 1 .. n}
        /\ tail' = tail + n
        /\ maxSerial' = maxSerial + n
        /\ Remember
        /\ minPSExpired' = minPSExpired /\ maxSExpired' = maxSExpired
    BY DEF processEntryRemoval, limits
<1>10. PICK f \in [1 .. n -> chosen] :
        /\ console.at = "idle" /\ console' = console
        /\ InOrder(f, n)
        /\ {f[i] : i \in 1 .. n} = chosen
        /\ maxSerial + n <= MaxSerial
        /\ entries' = (entries \ {f[i] : i \in 1 .. n}) \cup
              {Withdrawn(f[i], maxSerial + i, tail + i) : i \in 1 .. n}
        /\ tail' = tail + n
        /\ maxSerial' = maxSerial + n
        /\ Remember
        /\ minPSExpired' = minPSExpired /\ maxSExpired' = maxSExpired
    BY <1>1
<1>13. Top = maxSerial /\ Top' = maxSerial' /\ console' = console /\ console.added = 0
    BY <1>10, SMT DEF NumbersOK, Top
<1> DEFINE moved(i) == Withdrawn(f[i], maxSerial + i, tail + i)
<1>2. ASSUME NEW i \in 1 .. n
      PROVE  /\ f[i] \in entries /\ f[i].ann
             /\ moved(i) \in [roa : Roas, born : 1 .. tail, prev : 1 .. maxSerial,
                              serial : {maxSerial + i}, ann : {FALSE}, pos : {tail + i}]
             /\ moved(i).roa = f[i].roa /\ moved(i).born = f[i].born
             /\ moved(i).prev = f[i].prev
             /\ moved(i).serial = maxSerial + i /\ moved(i).pos = tail + i
             /\ moved(i).ann = FALSE
  <2>1. f[i] \in chosen
    <3> HIDE DEF chosen
    <3> QED BY <1>10
  <2>2. f[i] \in [roa : Roas, born : 1 .. tail, prev : 1 .. maxSerial,
                  serial : 1 .. maxSerial, ann : BOOLEAN, pos : 1 .. tail]
      BY <2>1, <1>13 DEF ListOK
  <2>3. f[i].ann
      BY <2>1 DEF ListOK
  <2>4. moved(i) = [roa |-> f[i].roa, born |-> f[i].born, prev |-> f[i].prev,
                    serial |-> maxSerial + i, ann |-> FALSE, pos |-> tail + i]
      BY DEF Withdrawn
  <2> HIDE DEF moved
  <2>5. moved(i).roa = f[i].roa /\ moved(i).born = f[i].born /\ moved(i).prev = f[i].prev
        /\ moved(i).serial = maxSerial + i /\ moved(i).ann = FALSE /\ moved(i).pos = tail + i
      BY <2>4
  <2> QED BY <2>1, <2>2, <2>3, <2>4, <2>5
<1>11. /\ tail' = tail + n /\ maxSerial' = maxSerial + n /\ maxSerial + n <= MaxSerial
       /\ minPSExpired' = minPSExpired /\ maxSExpired' = maxSExpired
    BY <1>10
<1>12. ListOK /\ Sorted /\ NumbersOK /\ tail \in Nat /\ maxSerial \in Nat
    BY SMT DEF NumbersOK
<1> HIDE DEF CacheInv, moved
<1>3. NumbersOK'
  <2> HIDE DEF chosen
  <2> QED BY <1>11, <1>12, <1>13, SMT DEF NumbersOK
<1>4. ASSUME NEW e \in entries'
      PROVE  e \in entries \/ \E i \in 1 .. n : e = moved(i)
    BY <1>10 DEF moved
<1>5. ListOK'
  <2> SUFFICES ASSUME NEW e \in entries'
               PROVE  /\ e \in [roa : Roas, born : 1 .. tail', prev : 1 .. maxSerial',
                                serial : 1 .. maxSerial', ann : BOOLEAN, pos : 1 .. tail']
                      /\ e.prev <= e.serial
                      /\ e.ann <=> e.serial = e.prev
      BY <1>13 DEF ListOK
  <2>1. CASE e \in entries
      BY <2>1, <1>11, <1>12, <1>13, SMT DEF ListOK
  <2>2. ASSUME NEW i \in 1 .. n, e = moved(i)
        PROVE  /\ e \in [roa : Roas, born : 1 .. tail', prev : 1 .. maxSerial',
                         serial : 1 .. maxSerial', ann : BOOLEAN, pos : 1 .. tail']
               /\ e.prev <= e.serial
               /\ e.ann <=> e.serial = e.prev
    <3>1. e \in [roa : Roas, born : 1 .. tail, prev : 1 .. maxSerial,
                serial : {maxSerial + i}, ann : {FALSE}, pos : {tail + i}]
        BY <2>2, <1>2
    <3>2. e.serial = maxSerial + i /\ e.pos = tail + i /\ e.ann = FALSE
        BY <3>1
    <3>3. e = [roa |-> e.roa, born |-> e.born, prev |-> e.prev, serial |-> e.serial,
               ann |-> e.ann, pos |-> e.pos]
        BY <3>1
    <3>4. e.roa \in Roas /\ e.born \in 1 .. tail /\ e.prev \in 1 .. maxSerial
        BY <3>1
    <3>5. /\ e.born \in 1 .. tail' /\ e.prev \in 1 .. maxSerial' /\ e.serial \in 1 .. maxSerial'
          /\ e.pos \in 1 .. tail' /\ e.prev <= e.serial /\ e.serial # e.prev
        BY <3>2, <3>4, <1>11, <1>12, SMTT(60)
    <3> QED BY <3>2, <3>3, <3>4, <3>5
  <2> QED BY <1>4, <2>1, <2>2
<1>6. \A i, j \in 1 .. n : moved(i).born = moved(j).born => i = j
  <2>0. \A i \in 1 .. n : moved(i).born = f[i].born
      BY <1>2
  <2> SUFFICES ASSUME NEW i \in 1 .. n, NEW j \in 1 .. n, f[i].born = f[j].born
               PROVE  i = j
      BY <2>0
  <2>1. f[i] = f[j]
      BY <1>2, <1>12 DEF Sorted
  <2>2. f[i].pos \in Nat
      BY <1>2, <1>12, SMT DEF ListOK
  <2>3. \A a, b \in 1 .. n : a < b => f[a].pos < f[b].pos
      BY <1>10 DEF InOrder
  <2> QED BY <1>11, <1>12, <2>1, <2>2, <2>3, SMT
<1>7. \A d \in entries, i \in 1 .. n : d.born = moved(i).born => d = f[i]
  <2> TAKE d \in entries, i \in 1 .. n
  <2>1. f[i] \in entries /\ moved(i).born = f[i].born
      BY <1>2
  <2>2. d.born = f[i].born => d = f[i]
    <3> HIDE DEF chosen
    <3> QED BY <2>1, <1>12 DEF Sorted
  <2> QED BY <2>1, <2>2
<1>8. Sorted'
  <2> SUFFICES ASSUME NEW d \in entries', NEW e \in entries'
               PROVE  /\ d.pos < e.pos <=> d.serial < e.serial
                      /\ d.pos = e.pos \/ d.born = e.born \/ d.serial = e.serial => d = e
      BY DEF Sorted
  <2>1. CASE d \in entries /\ e \in entries
      BY <2>1, <1>12 DEF Sorted
  <2>2. ASSUME NEW i \in 1 .. n, NEW x \in entries \ chosen
        PROVE  /\ x.pos < moved(i).pos /\ x.serial < moved(i).serial
               /\ ~(moved(i).pos < x.pos) /\ ~(moved(i).serial < x.serial)
               /\ x.pos # moved(i).pos /\ x.serial # moved(i).serial
               /\ x.born # moved(i).born
    <3>1. x.born # moved(i).born
        BY <1>10, <1>7
    <3>2. x.pos \in 1 .. tail /\ x.serial \in 1 .. maxSerial
        BY <1>12, <1>13 DEF ListOK
    <3>3. moved(i).pos = tail + i /\ moved(i).serial = maxSerial + i
        BY <1>2
    <3> QED BY <1>11, <1>12, <3>1, <3>2, <3>3, SMTT(60)
  <2>3. ASSUME NEW i \in 1 .. n, NEW j \in 1 .. n, d = moved(i), e = moved(j)
        PROVE  /\ d.pos < e.pos <=> d.serial < e.serial
               /\ d.pos = e.pos \/ d.born = e.born \/ d.serial = e.serial => d = e
    <3>1. d.pos = tail + i /\ d.serial = maxSerial + i /\ e.pos = tail + j
          /\ e.serial = maxSerial + j
        BY <2>3, <1>2
    <3>2. d.born = e.born => i = j
        BY <2>3, <1>6
    <3> QED BY <2>3, <1>11, <1>12, <3>1, <3>2, SMT
  <2>4. ASSUME NEW x \in entries'
        PROVE  x \in entries \ chosen \/ \E i \in 1 .. n : x = moved(i)
      BY <1>10 DEF moved
  <2> HIDE DEF chosen
  <2> QED BY <2>1, <2>2, <2>3, <2>4
<1>9. PastDomain' /\ PastOK'
  <2>1. ASSUME NEW s \in 0 .. maxSerial, NEW had \in past[s], NEW e \in entries'
        PROVE  Id(e) \in had <=> e.prev <= s /\ (e.ann \/ s < e.serial)
    <3>1. CASE e \in entries
        BY <3>1, PastThere
    <3>2. ASSUME NEW i \in 1 .. n, e = moved(i)
          PROVE  Id(e) \in had <=> e.prev <= s /\ (e.ann \/ s < e.serial)
      <4>1. Id(e) = Id(f[i]) /\ e.prev = f[i].prev /\ e.serial = maxSerial + i
          BY <3>2, <1>2 DEF Id
      <4>2. Id(f[i]) \in had <=> f[i].prev <= s
        <5>1. s \in Nat /\ maxSerial \in Nat /\ s <= maxSerial
            BY <1>12, SMT
        <5>2. Id(f[i]) \in had <=> f[i].prev <= s /\ (f[i].ann \/ s < f[i].serial)
            BY <1>2, PastThere
        <5> QED BY <1>2, <5>2
      <4>3. s < e.serial
          BY <4>1, <1>11, <1>12, SMT
      <4> QED BY <4>1, <4>2, <4>3
    <3> QED BY <1>4, <3>1, <3>2
  <2>2. ASSUME NEW s \in 0 .. maxSerial, NEW had \in past[s], NEW x \in had
        PROVE  /\ \/ \E e \in entries' : Id(e) = x
                  \/ minPSExpired' <= s /\ s < maxSExpired'
               /\ x \in Roas \X (1 .. tail')
    <3>1. x \in Roas \X (1 .. tail)
        BY PastThere
    <3>2. 1 .. tail \subseteq 1 .. tail'
        BY <1>11, <1>12, SMT
    <3>3. ASSUME NEW e \in entries PROVE \E d \in entries' : Id(d) = Id(e)
      <4>1. CASE e \in chosen
        <5>1. PICK i \in 1 .. n : e = f[i]
          <6> HIDE DEF chosen
          <6> QED BY <4>1, <1>10
        <5>2. Id(moved(i)) = Id(e)
            BY <5>1, <1>2 DEF Id
        <5>3. moved(i) \in entries'
            BY <1>10 DEF moved
        <5> QED BY <5>2, <5>3
      <4>2. CASE e \notin chosen
          BY <4>2, <1>10
      <4> QED BY <4>1, <4>2
    <3>4. \/ \E e \in entries : Id(e) = x
          \/ minPSExpired <= s /\ s < maxSExpired
        BY PastThere
    <3> QED BY <1>10, <3>1, <3>2, <3>3, <3>4
  <2>3. maxSerial <= maxSerial'
      BY <1>11, <1>12, SMT
  <2> QED BY <1>10, <1>3, <1>5, <1>8, <2>1, <2>2, <2>3, RememberOK, PastGiven DEF CacheInv
<1> QED BY <1>3, <1>5, <1>8, <1>9 DEF CacheInv

\* Entries that are deleted leave a window that covers what is missing now.
LEMMA ExpireStep ==
    ASSUME CacheInv, NEW last \in 1 .. tail, deleteExpiredEntriesFromCache(last)
    PROVE  CacheInv'
<1> USE RtrCacheAssumption DEF CacheInv
<1> DEFINE gone == {e \in entries : ~e.ann /\ e.pos <= last}
<1>1. /\ entries' = entries \ gone
      /\ gone # {}
      /\ minPSExpired' \in {minPSExpired} \cup {e.prev : e \in gone}
      /\ \A m \in {minPSExpired} \cup {e.prev : e \in gone} : minPSExpired' <= m
      /\ maxSExpired' \in {maxSExpired} \cup {e.serial : e \in gone}
      /\ \A m \in {maxSExpired} \cup {e.serial : e \in gone} : maxSExpired' >= m
      /\ tail' = tail /\ maxSerial' = maxSerial /\ console' = console
      /\ Remember
    BY DEF deleteExpiredEntriesFromCache
<1>10. Top' = Top
    BY <1>1 DEF Top
<1>2. ASSUME NEW e \in gone
      PROVE  /\ minPSExpired' <= e.prev /\ e.serial <= maxSExpired'
             /\ e.prev \in 1 .. Top /\ e.serial \in 1 .. Top
             /\ e.prev < e.serial
  <2>1. e.prev \in 1 .. Top /\ e.serial \in 1 .. Top /\ e.prev <= e.serial
        /\ e.serial # e.prev
      BY DEF ListOK
  <2>2. minPSExpired' <= e.prev /\ maxSExpired' >= e.serial
      BY <1>1
  <2>3. maxSExpired' \in Nat
      BY <1>1, SMT DEF NumbersOK, ListOK
  <2> QED BY <2>1, <2>2, <2>3, SMT DEF NumbersOK
<1>3. NumbersOK'
  <2>1. minPSExpired' \in 1 .. UINT32_MAX
    <3>1. CASE minPSExpired' = minPSExpired
        BY <3>1 DEF NumbersOK
    <3>2. CASE \E e \in gone : minPSExpired' = e.prev
        BY <3>2, <1>2, SMT DEF NumbersOK
    <3> QED BY <1>1, <3>1, <3>2
  <2>2. maxSExpired' \in 0 .. Top'
    <3>1. CASE maxSExpired' = maxSExpired
        BY <3>1, <1>1, <1>10 DEF NumbersOK
    <3>2. CASE \E e \in gone : maxSExpired' = e.serial
        BY <3>2, <1>1, <1>2, <1>10, SMT DEF NumbersOK
    <3> QED BY <1>1, <3>1, <3>2
  <2>3. minPSExpired' < maxSExpired'
    <3>1. PICK e \in gone : TRUE
        BY <1>1
    <3> QED BY <3>1, <1>2, <2>1, <2>2, SMT
  <2> QED BY <1>1, <1>10, <2>1, <2>2, <2>3 DEF NumbersOK
<1>4. ListOK' /\ Sorted'
    BY <1>1, <1>10 DEF ListOK, Sorted
<1>5. PastDomain' /\ PastOK'
  <2>1. ASSUME NEW s \in 0 .. maxSerial, NEW had \in past[s], NEW x \in had
        PROVE  \/ \E e \in entries' : Id(e) = x
               \/ minPSExpired' <= s /\ s < maxSExpired'
    <3>1. CASE \E e \in entries : Id(e) = x
      <4>1. PICK e \in entries : Id(e) = x
          BY <3>1
      <4>2. e.prev <= s /\ (e.ann \/ s < e.serial)
          BY <4>1, PastThere
      <4>3. CASE e \in gone
        <5>1. s \in Nat
            BY PastThere
        <5> QED BY <4>2, <4>3, <5>1, <1>2, <1>3, SMT DEF NumbersOK
      <4> QED BY <4>1, <4>3, <1>1
    <3>2. CASE minPSExpired <= s /\ s < maxSExpired
      <4>1. minPSExpired' <= minPSExpired /\ maxSExpired <= maxSExpired'
          BY <1>1, <1>3, SMT DEF NumbersOK
      <4>2. s \in Nat
          BY PastThere
      <4> QED BY <3>2, <4>1, <4>2, <1>3, SMT DEF NumbersOK
    <3> QED BY <3>1, <3>2, PastThere
  <2>2. maxSerial <= maxSerial'
      BY <1>1, SMT DEF NumbersOK
  <2>3. \A s \in 0 .. maxSerial : \A had \in past[s] :
          /\ \A e \in entries' : Id(e) \in had <=> e.prev <= s /\ (e.ann \/ s < e.serial)
          /\ \A x \in had : x \in Roas \X (1 .. tail')
      BY <1>1, PastThere
  <2> QED BY <1>1, <1>3, <1>4, <2>1, <2>2, <2>3, RememberOK, PastGiven
<1> QED BY <1>3, <1>4, <1>5

\* Every step that is not a mishap keeps the invariant.
LEMMA CacheNext_Inv == ~mishap' /\ CacheInv /\ [CacheNext]_cacheVars => CacheInv'
<1> SUFFICES ASSUME ~mishap', CacheInv, [CacheNext]_cacheVars PROVE CacheInv'
    OBVIOUS
<1>1. CASE Read
  <2>1. PICK n \in 0 .. MaxLines : \E lines \in [1 .. n -> Roas] :
            readPrefixData(lines, TRUE) \/ readPrefixData(lines, FALSE)
      BY <1>1 DEF Read
  <2>2. PICK lines \in [1 .. n -> Roas] :
            readPrefixData(lines, TRUE) \/ readPrefixData(lines, FALSE)
      BY <2>1
  <2>3. CASE readPrefixData(lines, FALSE)
      BY <2>3, FailStep
  <2> QED BY <2>2, <2>3, AppendStep
<1>2. CASE Remove
    BY <1>2, RemoveStep DEF Remove
<1>3. CASE Expire
    BY <1>3, ExpireStep DEF Expire
<1>4. CASE Empty
    BY <1>4 DEF Empty, emptyCache
<1>5. CASE UNCHANGED cacheVars
    BY <1>5 DEF cacheVars, limits, history, CacheInv, NumbersOK, Top, ListOK, Sorted, PastDomain,
                PastOK
<1>6. CASE appendPrefixData
    BY <1>6, BeginStep
<1>7. CASE advanceSerial
    BY <1>7, AdvanceStep
<1> QED BY <1>1, <1>2, <1>3, <1>4, <1>5, <1>6, <1>7 DEF CacheNext

\* A mishap is never forgotten.
LEMMA MishapStays == mishap /\ [CacheNext]_cacheVars => mishap'
BY DEF CacheNext, Read, Remove, Expire, Empty, appendPrefixData, readPrefixData, advanceSerial,
       processEntryRemoval, deleteExpiredEntriesFromCache, emptyCache, cacheVars, history

-----------------------------------------------------------------------------
\* The invariant makes every answer exact.
LEMMA Inv_DeltaExact == CacheInv => DeltaExact
<1> SUFFICES ASSUME CacheInv, NEW s \in 0 .. MaxSerial,
                    ~checkSerial(minPSExpired, maxSExpired, s), NEW had \in past[s]
             PROVE  Exact(had, s)
    BY DEF DeltaExact
<1> USE DEF CacheInv
<1>0. s \in 0 .. maxSerial
    BY RtrCacheAssumption, SMT DEF PastOK, NumbersOK
<1> DEFINE sent      == Objects(FALSE, s)
           withdrawn == {Id(e) : e \in {o \in sent : ~o.ann}}
           announced == {Id(e) : e \in {o \in sent : o.ann}}
<1>1. \A x \in had : \E e \in entries : Id(e) = x
    BY RtrCacheAssumption, <1>0, PastThere, SMT DEF checkSerial, NumbersOK
<1>2. \A e \in entries : Id(e) \in had <=> e.prev <= s /\ (e.ann \/ s < e.serial)
    BY <1>0, PastThere
<1>3. \A e \in entries : e \in sent <=> e.serial > s /\ (e.ann \/ e.prev <= s)
  <2> TAKE e \in entries
  <2>1. /\ e.serial \in Nat /\ e.prev \in Nat /\ e.pos \in Nat
        /\ e.ann <=> e.serial = e.prev
        /\ s \in Nat
      BY <1>0, SMT DEF ListOK, NumbersOK
  <2>2. (\E d \in entries : d.pos <= e.pos /\ d.serial > s) <=> e.serial > s
    <3>1. ASSUME NEW d \in entries, d.pos <= e.pos, d.serial > s PROVE e.serial > s
      <4>1. d.pos \in Nat /\ d.serial \in Nat
          BY SMT DEF ListOK, NumbersOK
      <4>2. ~(e.serial < d.serial)
          BY <3>1, <4>1, <2>1, SMT DEF Sorted
      <4> QED BY <3>1, <4>1, <4>2, <2>1, SMT
    <3>2. e.pos <= e.pos
        BY <2>1, SMT
    <3> QED BY <3>1, <3>2
  <2>3. e \in sent <=> /\ \E d \in entries : d.pos <= e.pos /\ d.serial > s
                       /\ ~(e.serial # e.prev /\ e.prev > s)
      BY DEF Objects
  <2> HIDE DEF sent
  <2> QED BY <2>1, <2>2, <2>3, SMT
<1>4. sent \subseteq entries
    BY DEF Objects
<1>5. \A d, e \in entries : Id(d) = Id(e) => d = e
    BY DEF Sorted, Id
<1>6. \A e \in entries : /\ e.ann \in BOOLEAN /\ e.prev \in Nat /\ e.serial \in Nat
                         /\ e.ann => e.serial = e.prev
    BY SMT DEF ListOK, NumbersOK
<1> HIDE DEF CacheInv, sent
<1>7. withdrawn \subseteq had
    BY <1>2, <1>3, <1>4, SMT
<1>8. announced \cap had = {}
    BY <1>2, <1>3, <1>4, <1>6, SMT
<1>9. (had \ withdrawn) \cup announced = Announced(entries)
  <2>1. ASSUME NEW x \in (had \ withdrawn) \cup announced PROVE x \in Announced(entries)
    <3>1. CASE x \in announced
        BY <3>1, <1>4 DEF Announced
    <3>2. CASE x \in had /\ x \notin withdrawn
      <4>1. PICK e \in entries : Id(e) = x
          BY <3>2, <1>1
      <4>2. e.ann
          BY <3>2, <4>1, <1>2, <1>3, <1>6, SMT
      <4> QED BY <4>1, <4>2 DEF Announced
    <3> QED BY <3>1, <3>2
  <2>2. ASSUME NEW x \in Announced(entries) PROVE x \in (had \ withdrawn) \cup announced
    <3>1. PICK e \in entries : e.ann /\ Id(e) = x
        BY DEF Announced
    <3>2. CASE e.prev <= s
      <4>1. x \in had
          BY <3>1, <3>2, <1>2
      <4>2. x \notin withdrawn
          BY <3>1, <1>4, <1>5
      <4> QED BY <4>1, <4>2
    <3>3. CASE ~(e.prev <= s)
      <4>1. e \in sent
          BY <3>1, <3>3, <1>0, <1>3, <1>6, SMT DEF CacheInv, NumbersOK
      <4> QED BY <3>1, <4>1
    <3> QED BY <3>2, <3>3
  <2> QED BY <2>1, <2>2
<1> QED BY <1>7, <1>8, <1>9 DEF Exact, sent

\* The answer to a serial query (sendCacheObjects of rpkirtr_svr.c) is exact,
\* whatever was added, withdrawn and deleted, as long as every file was loaded
\* in full and the cache was not emptied.
THEOREM AnswersAreExact == CacheSpec => []DeltaExact
<1>1. CacheInit => mishap \/ CacheInv
    BY CacheInit_Inv
<1>2. (mishap \/ CacheInv) /\ [CacheNext]_cacheVars => (mishap \/ CacheInv)'
    BY CacheNext_Inv, MishapStays
<1>3. mishap \/ CacheInv => DeltaExact
    BY Inv_DeltaExact DEF DeltaExact
<1> QED BY <1>1, <1>2, <1>3, PTL DEF CacheSpec

-----------------------------------------------------------------------------
\* Remembering what is announced keeps the types of the history.
LEMMA RememberTyped ==
    ASSUME CacheTypeOK, Remember, \A e \in entries' : e \in Node
    PROVE  /\ past' \in [0 .. MaxSerial -> SUBSET SUBSET Ids]
           /\ early' \in [0 .. MaxSerial -> SUBSET SUBSET Ids]
<1>1. Announced(entries') \in SUBSET Ids
    BY DEF Announced, Id, Ids, Node
<1>2. ASSUME NEW h \in [0 .. MaxSerial -> SUBSET SUBSET Ids]
      PROVE  [h EXCEPT ![maxSerial'] = @ \cup {Announced(entries')}]
                \in [0 .. MaxSerial -> SUBSET SUBSET Ids]
    BY <1>1
<1> QED BY <1>2 DEF Remember, CacheTypeOK

\* What is enumerated is finite.
LEMMA EnumeratedIsFinite ==
    ASSUME NEW n \in Nat, NEW g, g = [i \in 1 .. n |-> g[i]]
    PROVE  IsFiniteSet({g[i] : i \in 1 .. n})
<1>1. g \in Surjection(1 .. n, {g[i] : i \in 1 .. n})
    BY DEF Surjection
<1>2. IsFiniteSet(1 .. n)
    BY FS_Interval, SMT
<1> QED BY <1>1, <1>2, FS_Surjection

\* A step of the cache keeps the types, whatever the mishaps.
LEMMA CacheTypeStep == ASSUME CacheTypeOK, [CacheNext]_cacheVars PROVE CacheTypeOK'
<1> USE RtrCacheAssumption
<1>1. ASSUME NEW n \in 0 .. MaxLines, NEW lines \in [1 .. n -> Roas], NEW complete \in BOOLEAN,
             readPrefixData(lines, complete)
      PROVE  CacheTypeOK'
  <2> DEFINE new == [i \in 1 .. n |->
                [roa |-> lines[i], born |-> tail + i, prev |-> maxSerial + i,
                 serial |-> maxSerial + i, ann |-> TRUE, pos |-> tail + i]]
  <2>1. Len(lines) = n
      BY SMT
  <2>2. /\ tail' = tail + n /\ maxSerial + n <= MaxSerial
        /\ console' = [at |-> "count", before |-> console.before,
                       added |-> IF complete THEN n ELSE 0, succ |-> complete]
        /\ UNCHANGED <<maxSerial, minPSExpired, maxSExpired, fell>> /\ Remember
        /\ mishap' \in BOOLEAN
      BY <1>1, <2>1 DEF readPrefixData, limits, CacheTypeOK
  <2>3. ASSUME NEW i \in 1 .. n
        PROVE  new[i] \in Node /\ new[i].pos <= tail'
    <3>1. /\ tail + i \in Nat \ {0} /\ maxSerial + i \in 1 .. MaxSerial
          /\ tail + i <= tail' /\ lines[i] \in Roas
        BY <2>2, SMT DEF CacheTypeOK
    <3> QED BY <3>1 DEF Node
  <2>4. entries' = entries \cup {new[i] : i \in 1 .. n}
      BY <1>1, <2>1 DEF readPrefixData
  <2>5. IsFiniteSet(entries')
    <3>1. n \in Nat
        BY SMT
    <3>2. IsFiniteSet({new[i] : i \in 1 .. n})
        BY <3>1, EnumeratedIsFinite
    <3> HIDE DEF new
    <3> QED BY <2>4, <3>2, FS_Union DEF CacheTypeOK
  <2>6. ASSUME NEW e \in entries' PROVE e \in Node /\ e.pos <= tail'
    <3> HIDE DEF new
    <3>1. CASE e \in entries
      <4>1. e \in Node /\ e.pos \in Nat /\ e.pos <= tail
          BY <3>1 DEF CacheTypeOK, Node
      <4> QED BY <4>1, <2>2, SMT DEF CacheTypeOK
    <3>2. CASE \E i \in 1 .. n : e = new[i]
        BY <3>2, <2>3
    <3> QED BY <2>4, <3>1, <3>2
  <2>7. /\ tail' \in Nat /\ maxSerial' \in 0 .. UINT32_MAX
        /\ minPSExpired' \in 1 .. UINT32_MAX /\ maxSExpired' \in 0 .. MaxSerial
        /\ fell' \in BOOLEAN
      BY <2>2, SMT DEF CacheTypeOK
  <2>8. console' \in Console
    <3>1. console.before \in Nat /\ (IF complete THEN n ELSE 0) \in 0 .. MaxLines
        BY SMT DEF CacheTypeOK, Console
    <3> QED BY <2>2, <3>1 DEF Console
  <2>9. /\ past' \in [0 .. MaxSerial -> SUBSET SUBSET Ids]
        /\ early' \in [0 .. MaxSerial -> SUBSET SUBSET Ids]
      BY <2>2, <2>6, RememberTyped
  <2> QED BY <2>2, <2>5, <2>6, <2>7, <2>8, <2>9 DEF CacheTypeOK
<1>2. CASE Read
    BY <1>1, <1>2 DEF Read
<1>7. CASE appendPrefixData
  <2>1. /\ UNCHANGED <<entries, tail, maxSerial, minPSExpired, maxSExpired, past, early,
                       mishap, fell>>
        /\ console' = [Idle EXCEPT !.at = "append", !.before = Cardinality(entries)]
      BY <1>7 DEF appendPrefixData, limits, history
  <2>2. Cardinality(entries) \in Nat
      BY FS_CardinalityType DEF CacheTypeOK
  <2>3. console' \in Console
    <3>1. 0 \in 0 .. MaxLines
        BY SMT
    <3> QED BY <2>1, <2>2, <3>1 DEF Console, Idle
  <2> QED BY <2>1, <2>3 DEF CacheTypeOK
<1>8. CASE advanceSerial
  <2> DEFINE numAdded == IF console.succ THEN Cardinality(entries) - console.before ELSE 0
  <2>1. /\ UNCHANGED <<entries, tail, minPSExpired, maxSExpired>> /\ Remember
        /\ maxSerial' = (maxSerial + numAdded) % (UINT32_MAX + 1)
        /\ console' = Idle /\ mishap' \in BOOLEAN /\ fell' \in BOOLEAN
      BY <1>8, Zenon DEF advanceSerial, limits, CacheTypeOK
  <2>2. Cardinality(entries) \in Nat
      BY FS_CardinalityType DEF CacheTypeOK
  <2>3. numAdded \in Int
      BY <2>2, SMT DEF CacheTypeOK, Console
  <2> HIDE DEF numAdded
  <2>4. maxSerial' \in 0 .. UINT32_MAX
      BY <2>1, <2>3, SMT DEF CacheTypeOK
  <2>5. console' \in Console
    <3>1. 0 \in Nat /\ 0 \in 0 .. MaxLines
        BY SMT
    <3> QED BY <2>1, <3>1 DEF Console, Idle
  <2>6. \A e \in entries' : e \in Node /\ e.pos <= tail'
      BY <2>1 DEF CacheTypeOK
  <2>7. /\ past' \in [0 .. MaxSerial -> SUBSET SUBSET Ids]
        /\ early' \in [0 .. MaxSerial -> SUBSET SUBSET Ids]
      BY <2>1, <2>6, RememberTyped
  <2> QED BY <2>1, <2>4, <2>5, <2>6, <2>7 DEF CacheTypeOK
<1>3. ASSUME NEW first \in 1 .. tail, NEW last \in 1 .. tail, processEntryRemoval(first, last)
      PROVE  CacheTypeOK'
  <2> DEFINE chosen == {e \in entries : e.pos \in first .. last /\ e.serial = e.prev}
  <2>1. PICK n \in 1 .. MaxLines : \E f \in [1 .. n -> chosen] :
          /\ maxSerial + n <= MaxSerial
          /\ entries' = (entries \ {f[i] : i \in 1 .. n}) \cup
                {Withdrawn(f[i], maxSerial + i, tail + i) : i \in 1 .. n}
          /\ tail' = tail + n /\ maxSerial' = maxSerial + n
          /\ Remember
          /\ UNCHANGED <<console, minPSExpired, maxSExpired, mishap, fell>>
      BY <1>3 DEF processEntryRemoval, limits
  <2>2. PICK f \in [1 .. n -> chosen] :
          /\ maxSerial + n <= MaxSerial
          /\ entries' = (entries \ {f[i] : i \in 1 .. n}) \cup
                {Withdrawn(f[i], maxSerial + i, tail + i) : i \in 1 .. n}
          /\ tail' = tail + n /\ maxSerial' = maxSerial + n
          /\ Remember
          /\ UNCHANGED <<console, minPSExpired, maxSExpired, mishap, fell>>
      BY <2>1
  <2>3. ASSUME NEW i \in 1 .. n
        PROVE  Withdrawn(f[i], maxSerial + i, tail + i) \in Node
               /\ Withdrawn(f[i], maxSerial + i, tail + i).pos <= tail'
    <3>1. f[i] \in Node
        BY DEF CacheTypeOK
    <3>2. /\ tail + i \in Nat \ {0} /\ maxSerial + i \in 1 .. MaxSerial
          /\ tail + i <= tail'
        BY <2>2, SMT DEF CacheTypeOK
    <3> QED BY <3>1, <3>2 DEF Withdrawn, Node
  <2>4. \A e \in entries' : e \in entries \/ \E i \in 1 .. n :
            e = Withdrawn(f[i], maxSerial + i, tail + i)
      BY <2>2
  <2>5. \A e \in entries' : e \in Node
      BY <2>3, <2>4 DEF CacheTypeOK
  <2>6. ASSUME NEW e \in entries' PROVE e.pos <= tail'
    <3>1. CASE e \in entries
      <4>1. e.pos \in Nat /\ e.pos <= tail
          BY <3>1 DEF CacheTypeOK, Node
      <4> QED BY <4>1, <2>2, SMT DEF CacheTypeOK
    <3>2. CASE \E i \in 1 .. n : e = Withdrawn(f[i], maxSerial + i, tail + i)
        BY <3>2, <2>3
    <3> QED BY <2>4, <3>1, <3>2
  <2>7. /\ tail' \in Nat /\ maxSerial' \in 0 .. UINT32_MAX
        /\ minPSExpired' \in 1 .. UINT32_MAX /\ maxSExpired' \in 0 .. MaxSerial
      BY <2>2, SMT DEF CacheTypeOK
  <2>8. console' \in Console /\ mishap' \in BOOLEAN /\ fell' \in BOOLEAN
      BY <2>2 DEF CacheTypeOK
  <2>9. /\ past' \in [0 .. MaxSerial -> SUBSET SUBSET Ids]
        /\ early' \in [0 .. MaxSerial -> SUBSET SUBSET Ids]
      BY <2>2, <2>5, RememberTyped
  <2>10. IsFiniteSet(entries')
    <3> DEFINE moved == [i \in 1 .. n |-> Withdrawn(f[i], maxSerial + i, tail + i)]
    <3>1. n \in Nat
        BY SMT
    <3>2. IsFiniteSet({moved[i] : i \in 1 .. n})
        BY <3>1, EnumeratedIsFinite
    <3>3. entries' = (entries \ {f[i] : i \in 1 .. n}) \cup {moved[i] : i \in 1 .. n}
        BY <2>2
    <3> HIDE DEF moved
    <3>4. IsFiniteSet(entries \ {f[i] : i \in 1 .. n})
        BY FS_Subset DEF CacheTypeOK
    <3> QED BY <3>2, <3>3, <3>4, FS_Union
  <2> QED BY <2>5, <2>6, <2>7, <2>8, <2>9, <2>10 DEF CacheTypeOK
<1>4. ASSUME NEW upTo \in 1 .. tail, deleteExpiredEntriesFromCache(upTo)
      PROVE  CacheTypeOK'
  <2> DEFINE gone == {e \in entries : ~e.ann /\ e.pos <= upTo}
  <2>1. /\ entries' = entries \ gone
        /\ minPSExpired' \in {minPSExpired} \cup {e.prev : e \in gone}
        /\ maxSExpired' \in {maxSExpired} \cup {e.serial : e \in gone}
        /\ UNCHANGED <<tail, maxSerial, console, mishap, fell>> /\ Remember
      BY <1>4 DEF deleteExpiredEntriesFromCache
  <2>2. \A e \in gone : e.prev \in 1 .. MaxSerial /\ e.serial \in 1 .. MaxSerial
      BY DEF CacheTypeOK, Node
  <2>3. minPSExpired' \in 1 .. UINT32_MAX /\ maxSExpired' \in 0 .. MaxSerial
    <3>1. CASE minPSExpired' = minPSExpired
        BY <3>1, <2>1, <2>2, SMT DEF CacheTypeOK
    <3>2. CASE \E e \in gone : minPSExpired' = e.prev
      <4>1. minPSExpired' \in 1 .. MaxSerial
          BY <3>2, <2>2
      <4>2. maxSExpired' \in 0 .. MaxSerial
          BY <2>1, <2>2, SMT DEF CacheTypeOK
      <4> QED BY <4>1, <4>2, SMT
    <3> QED BY <2>1, <3>1, <3>2
  <2>4. \A e \in entries' : e \in Node /\ e.pos <= tail'
      BY <2>1 DEF CacheTypeOK
  <2>5. /\ past' \in [0 .. MaxSerial -> SUBSET SUBSET Ids]
        /\ early' \in [0 .. MaxSerial -> SUBSET SUBSET Ids]
      BY <2>1, <2>4, RememberTyped
  <2>6. IsFiniteSet(entries')
      BY <2>1, FS_Subset DEF CacheTypeOK
  <2> QED BY <2>1, <2>3, <2>4, <2>5, <2>6 DEF CacheTypeOK
<1>5. CASE Empty
  <2>1. /\ entries' = {} /\ mishap' = TRUE /\ Remember
        /\ UNCHANGED <<tail, maxSerial, console, minPSExpired, maxSExpired, fell>>
      BY <1>5 DEF Empty, emptyCache, limits
  <2>2. /\ past' \in [0 .. MaxSerial -> SUBSET SUBSET Ids]
        /\ early' \in [0 .. MaxSerial -> SUBSET SUBSET Ids]
      BY <2>1, RememberTyped
  <2>3. IsFiniteSet(entries')
      BY <2>1, FS_EmptySet
  <2> QED BY <2>1, <2>2, <2>3 DEF CacheTypeOK
<1>6. CASE UNCHANGED cacheVars
    BY <1>6 DEF CacheTypeOK, cacheVars, limits, history
<1> QED BY <1>2, <1>3, <1>4, <1>5, <1>6, <1>7, <1>8 DEF CacheNext, Remove, Expire

\* The variables keep their types, whatever the mishaps.
THEOREM CacheTypeCorrect == CacheSpec => []CacheTypeOK
<1> USE RtrCacheAssumption
<1>1. CacheInit => CacheTypeOK
  <2> SUFFICES ASSUME CacheInit PROVE CacheTypeOK
      OBVIOUS
  <2>1. minPSExpired \in 1 .. UINT32_MAX /\ maxSerial \in 0 .. UINT32_MAX
        /\ maxSExpired \in 0 .. MaxSerial /\ tail \in Nat
      BY SMT DEF CacheInit
  <2>2. console \in Console
    <3>1. 0 \in Nat /\ 0 \in 0 .. MaxLines
        BY SMT
    <3> QED BY <3>1 DEF CacheInit, Idle, Console
  <2>3. IsFiniteSet(entries)
      BY FS_EmptySet DEF CacheInit
  <2>4. /\ past \in [0 .. MaxSerial -> SUBSET SUBSET Ids]
        /\ early \in [0 .. MaxSerial -> SUBSET SUBSET Ids]
      BY DEF CacheInit
  <2>5. entries = {} /\ mishap \in BOOLEAN /\ fell \in BOOLEAN
      BY DEF CacheInit
  <2> QED BY <2>1, <2>2, <2>3, <2>4, <2>5 DEF CacheTypeOK
<1>2. CacheTypeOK /\ [CacheNext]_cacheVars => CacheTypeOK'
    BY CacheTypeStep
<1> QED BY <1>1, <1>2, PTL DEF CacheSpec

-----------------------------------------------------------------------------
(***************************************************************************)
(* With mishaps serials are given twice, so that the list is not sorted    *)
(* and nothing of CacheInv is left.  What is left, as long as the serial   *)
(* is not set back, is enough for the half of exactness that matters to    *)
(* the validity of routes.                                                 *)
(***************************************************************************)

\* Appended nodes have a place and an origin of their own; what is announced
\* was never moved.
NodesOK == \A e \in entries :
    e \in Node /\ e.pos <= tail /\ e.born <= tail /\ (e.ann => e.serial = e.prev)

OneNode == \A d, e \in entries : d.born = e.born => d = e

\* What is announced and has a serial that is not higher was sent with it.
OldWereSent == \A s \in 0 .. MaxSerial : \A had \in past[s] \cup early[s] :
    s <= maxSerial /\ \A e \in entries : e.ann /\ e.serial <= s => Id(e) \in had

MishapInv == CacheTypeOK /\ NodesOK /\ OneNode /\ (fell \/ OldWereSent)

LEMMA RememberSent ==
    ASSUME MishapInv, Remember, fell' = fell, maxSerial' \in Nat, maxSerial <= maxSerial',
           \A e \in entries' : e.ann => e \in entries \/ e.serial > maxSerial,
           \A e \in entries' : e \in Node
    PROVE  fell' \/ OldWereSent'
<1>1. maxSerial \in Nat
  BY SMT DEF MishapInv, CacheTypeOK
<1>2. ASSUME ~fell', NEW s \in 0 .. MaxSerial, NEW had \in past'[s] \cup early'[s]
      PROVE  /\ s <= maxSerial'
             /\ \A e \in entries' : e.ann /\ e.serial <= s => Id(e) \in had
  <2>0. s \in Nat
    BY SMT
  <2>1. CASE had \in past[s] \cup early[s]
    <3>1. s <= maxSerial /\ \A e \in entries : e.ann /\ e.serial <= s => Id(e) \in had
      BY <1>2, <2>1 DEF MishapInv, OldWereSent
    <3>2. ASSUME NEW e \in entries', e.ann, e.serial <= s PROVE e \in entries
      <4>1. e.serial \in Nat
        BY SMT DEF Node
      <4> QED
        BY <1>1, <2>0, <3>1, <3>2, <4>1, SMT
    <3>3. s <= maxSerial'
      BY <1>1, <2>0, <3>1, SMT
    <3> QED
      BY <3>1, <3>2, <3>3
  <2>2. CASE s = maxSerial' /\ had = Announced(entries')
    <3>1. s <= maxSerial'
      BY <2>0, <2>2, SMT
    <3> QED
      BY <2>2, <3>1 DEF Announced
  <2>3. ASSUME NEW h \in [0 .. MaxSerial -> SUBSET SUBSET Ids],
               had \in [h EXCEPT ![maxSerial'] = @ \cup {Announced(entries')}][s]
        PROVE  had \in h[s] \/ (s = maxSerial' /\ had = Announced(entries'))
    BY <2>3
  <2>4. /\ past \in [0 .. MaxSerial -> SUBSET SUBSET Ids]
        /\ early \in [0 .. MaxSerial -> SUBSET SUBSET Ids]
    BY DEF MishapInv, CacheTypeOK
  <2>5. \/ past' = past /\ early' = [early EXCEPT ![maxSerial'] = @ \cup {Announced(entries')}]
        \/ early' = early /\ past' = [past EXCEPT ![maxSerial'] = @ \cup {Announced(entries')}]
    BY DEF Remember
  <2>6. CASE early' = early /\ past' = [past EXCEPT ![maxSerial'] = @ \cup {Announced(entries')}]
    <3>1. had \in past'[s] \/ had \in early[s]
      BY <1>2, <2>6
    <3>2. had \in past'[s] => had \in past[s] \/ (s = maxSerial' /\ had = Announced(entries'))
      BY <2>3, <2>4, <2>6
    <3> QED
      BY <2>1, <2>2, <3>1, <3>2
  <2>7. CASE past' = past /\ early' = [early EXCEPT ![maxSerial'] = @ \cup {Announced(entries')}]
    <3>1. had \in early'[s] \/ had \in past[s]
      BY <1>2, <2>7
    <3>2. had \in early'[s] => had \in early[s] \/ (s = maxSerial' /\ had = Announced(entries'))
      BY <2>3, <2>4, <2>7
    <3> QED
      BY <2>1, <2>2, <3>1, <3>2
  <2> QED
    BY <2>5, <2>6, <2>7
<1> QED
  BY <1>2 DEF OldWereSent

LEMMA AppendMishap ==
    ASSUME MishapInv, NEW n \in 0 .. MaxLines, NEW lines \in [1 .. n -> Roas],
           NEW complete \in BOOLEAN, readPrefixData(lines, complete)
    PROVE  NodesOK' /\ OneNode' /\ (fell' \/ OldWereSent')
<1> USE RtrCacheAssumption
<1> DEFINE new(i) == [roa |-> lines[i], born |-> tail + i, prev |-> maxSerial + i,
                      serial |-> maxSerial + i, ann |-> TRUE, pos |-> tail + i]
<1>1. Len(lines) = n
  BY SMT
<1>2. /\ entries' = entries \cup {new(i) : i \in 1 .. n}
      /\ tail' = tail + n /\ maxSerial' = maxSerial /\ fell' = fell
      /\ maxSerial + n <= MaxSerial /\ Remember
  BY <1>1 DEF readPrefixData
<1>3. tail \in Nat /\ maxSerial \in Nat /\ MaxSerial \in Nat /\ n \in Nat
  BY SMT DEF MishapInv, CacheTypeOK
<1>4. ASSUME NEW i \in 1 .. n
      PROVE  /\ new(i) \in Node /\ new(i).pos <= tail' /\ new(i).born <= tail'
             /\ new(i).born = tail + i /\ new(i).serial > maxSerial
             /\ new(i).serial = new(i).prev
  <2>1. /\ tail + i \in Nat \ {0} /\ maxSerial + i \in 1 .. MaxSerial
        /\ tail + i <= tail' /\ lines[i] \in Roas /\ maxSerial + i > maxSerial
    BY <1>2, <1>3, SMT
  <2> QED
    BY <2>1 DEF Node
<1>5. \A e \in entries' : e \in entries \/ \E i \in 1 .. n : e = new(i)
  BY <1>2
<1> HIDE DEF new
<1>6. NodesOK'
  <2> SUFFICES ASSUME NEW e \in entries'
               PROVE  e \in Node /\ e.pos <= tail' /\ e.born <= tail'
                      /\ (e.ann => e.serial = e.prev)
    BY DEF NodesOK
  <2>1. CASE e \in entries
    <3>1. e \in Node /\ e.pos <= tail /\ e.born <= tail /\ (e.ann => e.serial = e.prev)
      BY <2>1 DEF MishapInv, NodesOK
    <3>2. e.pos \in Nat /\ e.born \in Nat
      BY <3>1 DEF Node
    <3> QED
      BY <1>2, <1>3, <3>1, <3>2, SMT
  <2> QED
    BY <1>4, <1>5, <2>1
<1>7. OneNode'
  <2> SUFFICES ASSUME NEW d \in entries', NEW e \in entries', d.born = e.born
               PROVE  d = e
    BY DEF OneNode
  <2>1. \A x \in entries : x.born \in Nat /\ x.born <= tail
    BY DEF MishapInv, NodesOK, Node
  <2>2. CASE d \in entries /\ e \in entries
    BY <2>2 DEF MishapInv, OneNode
  <2>3. \A x \in entries, i \in 1 .. n : x.born # new(i).born
    BY <1>3, <1>4, <2>1, SMT
  <2>4. \A i, j \in 1 .. n : new(i).born = new(j).born => i = j
    BY <1>3, <1>4, SMT
  <2> QED
    BY <1>5, <2>2, <2>3, <2>4
<1>8. fell' \/ OldWereSent'
  <2>1. maxSerial' \in Nat /\ maxSerial <= maxSerial'
    BY <1>2, <1>3, SMT
  <2>2. \A e \in entries' : e \in Node /\ (e \in entries \/ e.serial > maxSerial)
    BY <1>4, <1>5, <1>6 DEF NodesOK
  <2> QED
    BY <1>2, <2>1, <2>2, RememberSent
<1> QED
  BY <1>6, <1>7, <1>8

LEMMA RemoveMishap ==
    ASSUME MishapInv, NEW first \in 1 .. tail, NEW last \in 1 .. tail,
           processEntryRemoval(first, last)
    PROVE  NodesOK' /\ OneNode' /\ (fell' \/ OldWereSent')
<1> USE RtrCacheAssumption
<1> DEFINE chosen == {e \in entries : e.pos \in first .. last /\ e.serial = e.prev}
<1>1. PICK n \in 1 .. MaxLines : \E f \in [1 .. n -> chosen] :
        /\ InOrder(f, n)
        /\ {f[i] : i \in 1 .. n} = chosen
        /\ maxSerial + n <= MaxSerial
        /\ entries' = (entries \ {f[i] : i \in 1 .. n}) \cup
              {Withdrawn(f[i], maxSerial + i, tail + i) : i \in 1 .. n}
        /\ tail' = tail + n
        /\ maxSerial' = maxSerial + n /\ fell' = fell
        /\ Remember
  BY DEF processEntryRemoval
<1>2. PICK f \in [1 .. n -> chosen] :
        /\ InOrder(f, n)
        /\ {f[i] : i \in 1 .. n} = chosen
        /\ maxSerial + n <= MaxSerial
        /\ entries' = (entries \ {f[i] : i \in 1 .. n}) \cup
              {Withdrawn(f[i], maxSerial + i, tail + i) : i \in 1 .. n}
        /\ tail' = tail + n
        /\ maxSerial' = maxSerial + n /\ fell' = fell
        /\ Remember
  BY <1>1
<1>3. tail \in Nat /\ maxSerial \in Nat /\ MaxSerial \in Nat /\ n \in Nat
  BY SMT DEF MishapInv, CacheTypeOK
<1>10. tail' = tail + n /\ maxSerial' = maxSerial + n /\ maxSerial + n <= MaxSerial
  BY <1>2
<1> DEFINE moved(i) == Withdrawn(f[i], maxSerial + i, tail + i)
<1>4. chosen \subseteq entries
  OBVIOUS
<1> HIDE DEF chosen
<1>5. ASSUME NEW i \in 1 .. n
      PROVE  /\ f[i] \in chosen /\ f[i] \in Node /\ f[i].born <= tail
             /\ moved(i) \in Node /\ moved(i).pos <= tail' /\ moved(i).born <= tail'
             /\ moved(i).born = f[i].born /\ ~moved(i).ann
  <2>1. f[i] \in chosen /\ f[i] \in Node /\ f[i].born <= tail /\ f[i].born \in Nat
    BY <1>2, <1>4 DEF MishapInv, NodesOK, Node
  <2>2. /\ tail + i \in Nat \ {0} /\ maxSerial + i \in 1 .. MaxSerial
        /\ tail + i <= tail' /\ tail <= tail'
    BY <1>3, <1>10, SMT
  <2>3. moved(i) = [roa |-> f[i].roa, born |-> f[i].born, prev |-> f[i].prev,
                    serial |-> maxSerial + i, ann |-> FALSE, pos |-> tail + i]
    BY DEF Withdrawn
  <2>4. moved(i) \in Node
    <3>1. f[i].roa \in Roas /\ f[i].born \in Nat \ {0} /\ f[i].prev \in 1 .. MaxSerial
      BY <2>1 DEF Node
    <3> HIDE DEF moved
    <3> QED
      BY <2>2, <2>3, <3>1 DEF Node
  <2>5. f[i].born <= tail'
    BY <1>3, <2>1, <2>2, <1>10, SMT
  <2> QED
    BY <2>1, <2>2, <2>3, <2>4, <2>5
<1>6. \A e \in entries' : (e \in entries /\ e \notin chosen) \/ \E i \in 1 .. n : e = moved(i)
  BY <1>2
<1> HIDE DEF moved
<1>7. NodesOK'
  <2> SUFFICES ASSUME NEW e \in entries'
               PROVE  e \in Node /\ e.pos <= tail' /\ e.born <= tail'
                      /\ (e.ann => e.serial = e.prev)
    BY DEF NodesOK
  <2>1. CASE e \in entries
    <3>1. e \in Node /\ e.pos <= tail /\ e.born <= tail /\ (e.ann => e.serial = e.prev)
      BY <2>1 DEF MishapInv, NodesOK
    <3>2. e.pos \in Nat /\ e.born \in Nat
      BY <3>1 DEF Node
    <3> QED
      BY <1>3, <1>10, <3>1, <3>2, SMT
  <2> QED
    BY <1>5, <1>6, <2>1
<1>8. OneNode'
  <2> SUFFICES ASSUME NEW d \in entries', NEW e \in entries', d.born = e.born
               PROVE  d = e
    BY DEF OneNode
  <2>1. \A x, y \in entries : x.born = y.born => x = y
    BY DEF MishapInv, OneNode
  <2>2. \A x \in entries, i \in 1 .. n : x \notin chosen => x.born # moved(i).born
    BY <1>4, <1>5, <2>1
  <2>3. ASSUME NEW i \in 1 .. n, NEW j \in 1 .. n, moved(i).born = moved(j).born
        PROVE  i = j
    <3>1. f[i] = f[j]
      BY <1>4, <1>5, <2>1, <2>3
    <3>2. f[i].pos \in Nat
      BY <1>5 DEF Node
    <3>3. \A a, b \in 1 .. n : a < b => f[a].pos < f[b].pos
      BY <1>2 DEF InOrder
    <3> QED
      BY <1>3, <3>1, <3>2, <3>3, SMT
  <2> QED
    BY <1>6, <2>1, <2>2, <2>3
<1>9. fell' \/ OldWereSent'
  <2>1. maxSerial' \in Nat /\ maxSerial <= maxSerial'
    BY <1>3, <1>10, SMT
  <2>2. \A e \in entries' : e \in Node /\ (e.ann => e \in entries)
    BY <1>5, <1>6, <1>7 DEF NodesOK
  <2> QED
    BY <1>2, <2>1, <2>2, RememberSent
<1> QED
  BY <1>7, <1>8, <1>9

LEMMA MishapNext ==
    ASSUME MishapInv, [CacheNext]_cacheVars
    PROVE  NodesOK' /\ OneNode' /\ (fell' \/ OldWereSent')
<1>1. CASE Read
  <2>1. PICK n \in 0 .. MaxLines : \E lines \in [1 .. n -> Roas] :
            readPrefixData(lines, TRUE) \/ readPrefixData(lines, FALSE)
    BY <1>1 DEF Read
  <2>2. PICK lines \in [1 .. n -> Roas] :
            readPrefixData(lines, TRUE) \/ readPrefixData(lines, FALSE)
    BY <2>1
  <2> QED
    BY <2>2, AppendMishap
<1>2. CASE Remove
  BY <1>2, RemoveMishap DEF Remove
<1>3. CASE Expire \/ Empty
  <2>1. /\ entries' \subseteq entries /\ tail' = tail /\ maxSerial' = maxSerial
        /\ fell' = fell /\ Remember
    BY <1>3 DEF Expire, Empty, deleteExpiredEntriesFromCache, emptyCache
  <2>2. NodesOK' /\ OneNode'
    BY <2>1 DEF MishapInv, NodesOK, OneNode
  <2>3. maxSerial \in Nat /\ maxSerial <= maxSerial
    BY SMT DEF MishapInv, CacheTypeOK
  <2>4. fell' \/ OldWereSent'
    BY <2>1, <2>2, <2>3, RememberSent DEF NodesOK
  <2> QED
    BY <2>2, <2>4
<1>4. CASE UNCHANGED cacheVars \/ appendPrefixData
  <2>1. UNCHANGED <<entries, tail, maxSerial, past, early, fell>>
    BY <1>4 DEF cacheVars, history, appendPrefixData
  <2> QED
    BY <2>1 DEF MishapInv, NodesOK, OneNode, OldWereSent
<1>5. CASE advanceSerial
  <2>1. /\ entries' = entries /\ tail' = tail /\ Remember
        /\ fell' = (fell \/ maxSerial' < maxSerial)
    BY <1>5, Zenon DEF advanceSerial
  <2>2. NodesOK' /\ OneNode'
    BY <2>1 DEF MishapInv, NodesOK, OneNode
  <2>3. maxSerial \in Nat /\ maxSerial' \in Nat /\ fell \in BOOLEAN /\ fell' \in BOOLEAN
    <3>1. CacheTypeOK'
      BY <1>5, CacheTypeStep DEF MishapInv, CacheNext
    <3>2. fell \in BOOLEAN /\ fell' \in BOOLEAN
      BY <3>1 DEF MishapInv, CacheTypeOK
    <3> QED
      BY <3>1, <3>2, SMT DEF MishapInv, CacheTypeOK
  <2>4. ASSUME ~fell' PROVE OldWereSent'
    <3>1. ~fell /\ ~(maxSerial' < maxSerial)
      BY <2>1, <2>4
    <3>2. fell' = fell
      BY <2>3, <2>4, <3>1
    <3>3. maxSerial <= maxSerial'
      BY <2>3, <3>1, SMT
    <3> QED
      BY <2>1, <2>2, <2>3, <2>4, <3>2, <3>3, RememberSent DEF NodesOK
  <2> QED
    BY <2>2, <2>4
<1> QED
  BY <1>1, <1>2, <1>3, <1>4, <1>5 DEF CacheNext

\* Whatever mishap there was: what is announced is sent, or was sent already
\* and is not withdrawn.
LEMMA Inv_NothingMissing == MishapInv => NothingMissing
<1> SUFFICES ASSUME MishapInv, ~fell, NEW s \in 0 .. MaxSerial, NEW had \in past[s] \cup early[s],
                    NEW x \in Announced(entries)
             PROVE  x \in (had \ {Id(e) : e \in {o \in Objects(FALSE, s) : ~o.ann}}) \cup
                             {Id(e) : e \in {o \in Objects(FALSE, s) : o.ann}}
  BY DEF NothingMissing
<1>1. PICK e \in entries : e.ann /\ x = Id(e)
  BY DEF Announced
<1>2. e.pos \in Nat /\ e.serial \in Nat /\ e.serial = e.prev /\ s \in Nat
  BY <1>1, SMT DEF MishapInv, NodesOK, Node
<1>3. CASE e.serial > s
  <2>1. \E d \in entries : d.pos <= e.pos /\ (FALSE \/ d.serial > s)
    BY <1>2, <1>3, SMT
  <2>2. e \in Objects(FALSE, s)
    BY <1>2, <2>1 DEF Objects
  <2> QED
    BY <1>1, <2>2
<1>4. CASE ~(e.serial > s)
  <2>1. x \in had
    BY <1>1, <1>2, <1>4 DEF MishapInv, OldWereSent
  <2>2. \A o \in Objects(FALSE, s) : Id(o) = x => o = e
    BY <1>1 DEF Objects, Id, MishapInv, OneNode
  <2> QED
    BY <1>1, <2>1, <2>2
<1> QED
  BY <1>3, <1>4

\* A router that is answered has all the objects the cache announces, also
\* after files that were loaded in part, after the list was emptied and after it
\* was answered in the middle of an append, until the serial is set back.
THEOREM AnswersAreComplete == CacheSpec => []NothingMissing
<1>1. CacheInit => NodesOK /\ OneNode /\ (fell \/ OldWereSent)
  <2> SUFFICES ASSUME CacheInit PROVE NodesOK /\ OneNode /\ OldWereSent
    OBVIOUS
  <2>1. \A s \in 0 .. MaxSerial : past[s] \cup early[s] # {} => s <= maxSerial
    <3>1. 0 <= 0
      BY SMT
    <3> QED
      BY <3>1 DEF CacheInit
  <2> QED
    BY <2>1 DEF CacheInit, NodesOK, OneNode, OldWereSent
<1>2. MishapInv /\ [CacheNext]_cacheVars => NodesOK' /\ OneNode' /\ (fell' \/ OldWereSent')
  BY MishapNext
<1>3. MishapInv <=> CacheTypeOK /\ NodesOK /\ OneNode /\ (fell \/ OldWereSent)
  BY DEF MishapInv
<1>4. MishapInv => NothingMissing
  BY Inv_NothingMissing
<1> QED
  BY <1>1, <1>2, <1>3, <1>4, CacheTypeCorrect, PTL DEF CacheSpec


-----------------------------------------------------------------------------
(* Sequences of PDUs.                                                      *)

IsA(p, r)   == p.type = "prefix" /\ p.roa = r /\ p.ann
IsW(p, r)   == p.type = "prefix" /\ p.roa = r /\ ~p.ann
IsData(p)   == p.type \in {"response", "prefix", "end"}
IsEnd(p)    == p.type = "end"

\* Whether a sequence announces r, withdraws it, leaves a router with it, has
\* anything of an answer, and the Ends of Data in it.
HasA(q, r) == \E i \in 1 .. Len(q) : IsA(q[i], r)
HasW(q, r) == \E i \in 1 .. Len(q) : IsW(q[i], r)
EndsHeld(q, r) ==
    \E i \in 1 .. Len(q) : IsA(q[i], r) /\ \A j \in 1 .. Len(q) : i < j => ~IsW(q[j], r)
NoData(q)  == \A i \in 1 .. Len(q) : ~IsData(q[i])
Ends(q)    == {q[i] : i \in {j \in 1 .. Len(q) : IsEnd(q[j])}}

\* A sequence withdraws r at most once, then announces it at most once.
Clean(q, r) ==
    \A i, j \in 1 .. Len(q) : i < j =>
        /\ IsA(q[i], r) => ~IsA(q[j], r) /\ ~IsW(q[j], r)
        /\ IsW(q[i], r) => ~IsW(q[j], r)

\* Nothing of an answer comes after the End of Data.
EndLast(q) == \A i, j \in 1 .. Len(q) : i < j /\ IsEnd(q[i]) => ~IsData(q[j])

-----------------------------------------------------------------------------
\* Nothing is in an empty sequence.
LEMMA EmptyFacts ==
    /\ NoData(<<>>) /\ Ends(<<>>) = {} /\ EndLast(<<>>)
    /\ \A r : ~HasA(<<>>, r) /\ ~HasW(<<>>, r) /\ ~EndsHeld(<<>>, r) /\ Clean(<<>>, r)
<1>1. Len(<<>>) = 0 /\ 1 .. 0 = {}
  OBVIOUS
<1> QED
  BY <1>1 DEF NoData, Ends, EndLast, HasA, HasW, EndsHeld, Clean

\* What is in a sequence is in its head or in the rest.
LEMMA PopFacts ==
    ASSUME NEW S, NEW q \in Seq(S), q # <<>>
    PROVE  /\ NoData(q) <=> ~IsData(Head(q)) /\ NoData(Tail(q))
           /\ Ends(q) = Ends(Tail(q)) \cup (IF IsEnd(Head(q)) THEN {Head(q)} ELSE {})
           /\ EndLast(q) <=> EndLast(Tail(q)) /\ (IsEnd(Head(q)) => NoData(Tail(q)))
           /\ \A r :
                /\ HasA(q, r) <=> IsA(Head(q), r) \/ HasA(Tail(q), r)
                /\ HasW(q, r) <=> IsW(Head(q), r) \/ HasW(Tail(q), r)
                /\ EndsHeld(q, r) <=> \/ EndsHeld(Tail(q), r)
                                      \/ IsA(Head(q), r) /\ ~HasW(Tail(q), r)
                /\ Clean(q, r) <=> /\ Clean(Tail(q), r)
                                   /\ IsA(Head(q), r) => ~HasA(Tail(q), r) /\ ~HasW(Tail(q), r)
                                   /\ IsW(Head(q), r) => ~HasW(Tail(q), r)
<1> DEFINE t == Tail(q)
           h == Head(q)
<1>1. /\ t \in Seq(S) /\ Len(t) = Len(q) - 1 /\ Len(q) \in Nat /\ Len(q) >= 1 /\ Len(t) \in Nat
      /\ h = q[1] /\ \A i \in 1 .. Len(t) : t[i] = q[i + 1]
  BY HeadTailProperties, LenProperties, EmptySeq
<1> HIDE DEF t, h
\* What holds somewhere in q holds at its head or somewhere in its tail.
<1>2. ASSUME NEW i \in 1 .. Len(q)
      PROVE  i = 1 \/ (i - 1 \in 1 .. Len(t) /\ t[i - 1] = q[i])
  BY <1>1
<1>3. ASSUME NEW i \in 1 .. Len(t)
      PROVE  i + 1 \in 1 .. Len(q) /\ t[i] = q[i + 1]
  BY <1>1
<1>4. 1 \in 1 .. Len(q) /\ q[1] = h
  BY <1>1
<1>5. NoData(q) <=> ~IsData(h) /\ NoData(t)
  BY <1>2, <1>3, <1>4, Zenon DEF NoData
<1>6. Ends(q) = Ends(t) \cup (IF IsEnd(h) THEN {h} ELSE {})
  <2>1. ASSUME NEW p \in Ends(q) PROVE p \in Ends(t) \/ (IsEnd(h) /\ p = h)
    BY <1>2, <1>4 DEF Ends
  <2>2. ASSUME NEW p \in Ends(t) PROVE p \in Ends(q)
    BY <1>3 DEF Ends
  <2>3. IsEnd(h) => h \in Ends(q)
    BY <1>4 DEF Ends
  <2> QED
    BY <2>1, <2>2, <2>3
<1>7. EndLast(q) <=> EndLast(t) /\ (IsEnd(h) => NoData(t))
  <2>1. ASSUME EndLast(q) PROVE EndLast(t) /\ (IsEnd(h) => NoData(t))
    <3>1. ASSUME NEW i \in 1 .. Len(t), NEW j \in 1 .. Len(t), i < j, IsEnd(t[i])
          PROVE  ~IsData(t[j])
      <4>1. i + 1 < j + 1
        BY <3>1
      <4> QED
        BY <2>1, <3>1, <4>1, <1>3 DEF EndLast
    <3>2. ASSUME IsEnd(h), NEW j \in 1 .. Len(t) PROVE ~IsData(t[j])
      <4>1. 1 < j + 1
        OBVIOUS
      <4> QED
        BY <2>1, <3>2, <4>1, <1>3, <1>4 DEF EndLast
    <3> QED
      BY <3>1, <3>2 DEF EndLast, NoData
  <2>2. ASSUME EndLast(t), IsEnd(h) => NoData(t) PROVE EndLast(q)
    <3> SUFFICES ASSUME NEW i \in 1 .. Len(q), NEW j \in 1 .. Len(q), i < j, IsEnd(q[i])
                 PROVE  ~IsData(q[j])
      BY DEF EndLast
    <3>1. j - 1 \in 1 .. Len(t) /\ t[j - 1] = q[j]
      BY <1>2, <1>1
    <3>2. CASE i = 1
      BY <3>1, <3>2, <2>2, <1>4 DEF NoData
    <3>3. CASE i # 1
      <4>1. i - 1 \in 1 .. Len(t) /\ t[i - 1] = q[i] /\ i - 1 < j - 1
        BY <3>3, <1>2
      <4> QED
        BY <4>1, <3>1, <2>2 DEF EndLast
    <3> QED
      BY <3>2, <3>3
  <2> QED
    BY <2>1, <2>2
<1>8. ASSUME NEW r
      PROVE  /\ HasA(q, r) <=> IsA(h, r) \/ HasA(t, r)
             /\ HasW(q, r) <=> IsW(h, r) \/ HasW(t, r)
  BY <1>2, <1>3, <1>4, Zenon DEF HasA, HasW
<1>9. ASSUME NEW r
      PROVE  EndsHeld(q, r) <=> EndsHeld(t, r) \/ (IsA(h, r) /\ ~HasW(t, r))
  <2>1. ASSUME EndsHeld(q, r) PROVE EndsHeld(t, r) \/ (IsA(h, r) /\ ~HasW(t, r))
    <3>1. PICK i \in 1 .. Len(q) : IsA(q[i], r) /\ \A j \in 1 .. Len(q) : i < j => ~IsW(q[j], r)
      BY <2>1 DEF EndsHeld
    <3>2. ASSUME NEW j \in 1 .. Len(t), i < j + 1 PROVE ~IsW(t[j], r)
      BY <3>1, <3>2, <1>3
    <3>3. CASE i = 1
      <4>1. ~HasW(t, r)
        BY <3>2, <3>3 DEF HasW
      <4> QED
        BY <4>1, <3>1, <3>3, <1>4
    <3>4. CASE i # 1
      <4>1. i - 1 \in 1 .. Len(t) /\ t[i - 1] = q[i]
        BY <3>4, <1>2
      <4>2. \A j \in 1 .. Len(t) : i - 1 < j => ~IsW(t[j], r)
        BY <3>2
      <4> QED
        BY <4>1, <4>2, <3>1 DEF EndsHeld
    <3> QED
      BY <3>3, <3>4
  <2>2. ASSUME EndsHeld(t, r) PROVE EndsHeld(q, r)
    <3>1. PICK i \in 1 .. Len(t) : IsA(t[i], r) /\ \A j \in 1 .. Len(t) : i < j => ~IsW(t[j], r)
      BY <2>2 DEF EndsHeld
    <3>2. i + 1 \in 1 .. Len(q) /\ IsA(q[i + 1], r)
      BY <3>1, <1>3
    <3>3. ASSUME NEW j \in 1 .. Len(q), i + 1 < j PROVE ~IsW(q[j], r)
      <4>1. j - 1 \in 1 .. Len(t) /\ t[j - 1] = q[j] /\ i < j - 1
        BY <3>3, <1>2
      <4> QED
        BY <4>1, <3>1
    <3> QED
      BY <3>2, <3>3 DEF EndsHeld
  <2>3. ASSUME IsA(h, r), ~HasW(t, r) PROVE EndsHeld(q, r)
    <3>1. ASSUME NEW j \in 1 .. Len(q), 1 < j PROVE ~IsW(q[j], r)
      BY <3>1, <1>2, <2>3 DEF HasW
    <3> QED
      BY <3>1, <2>3, <1>4 DEF EndsHeld
  <2> QED
    BY <2>1, <2>2, <2>3
<1>10. ASSUME NEW r
       PROVE  Clean(q, r) <=> /\ Clean(t, r)
                              /\ IsA(h, r) => ~HasA(t, r) /\ ~HasW(t, r)
                              /\ IsW(h, r) => ~HasW(t, r)
  <2>1. ASSUME Clean(q, r)
        PROVE  /\ Clean(t, r)
               /\ IsA(h, r) => ~HasA(t, r) /\ ~HasW(t, r)
               /\ IsW(h, r) => ~HasW(t, r)
    <3>1. ASSUME NEW i \in 1 .. Len(t), NEW j \in 1 .. Len(t), i < j
          PROVE  /\ IsA(t[i], r) => ~IsA(t[j], r) /\ ~IsW(t[j], r)
                 /\ IsW(t[i], r) => ~IsW(t[j], r)
      <4>1. i + 1 < j + 1
        BY <3>1
      <4> QED
        BY <2>1, <4>1, <1>3 DEF Clean
    <3>2. ASSUME NEW j \in 1 .. Len(t)
          PROVE  /\ IsA(h, r) => ~IsA(t[j], r) /\ ~IsW(t[j], r)
                 /\ IsW(h, r) => ~IsW(t[j], r)
      <4>1. 1 < j + 1
        OBVIOUS
      <4> QED
        BY <2>1, <4>1, <1>3, <1>4 DEF Clean
    <3> QED
      BY <3>1, <3>2 DEF Clean, HasA, HasW
  <2>2. ASSUME Clean(t, r), IsA(h, r) => ~HasA(t, r) /\ ~HasW(t, r), IsW(h, r) => ~HasW(t, r)
        PROVE  Clean(q, r)
    <3> SUFFICES ASSUME NEW i \in 1 .. Len(q), NEW j \in 1 .. Len(q), i < j
                 PROVE  /\ IsA(q[i], r) => ~IsA(q[j], r) /\ ~IsW(q[j], r)
                        /\ IsW(q[i], r) => ~IsW(q[j], r)
      BY DEF Clean
    <3>1. j - 1 \in 1 .. Len(t) /\ t[j - 1] = q[j]
      BY <1>2, <1>1
    <3>2. CASE i = 1
      BY <3>1, <3>2, <2>2, <1>4 DEF HasA, HasW
    <3>3. CASE i # 1
      <4>1. i - 1 \in 1 .. Len(t) /\ t[i - 1] = q[i] /\ i - 1 < j - 1
        BY <3>3, <1>2
      <4> QED
        BY <4>1, <3>1, <2>2 DEF Clean
    <3> QED
      BY <3>2, <3>3
  <2> QED
    BY <2>1, <2>2
<1> QED
  BY <1>5, <1>6, <1>7, <1>8, <1>9, <1>10 DEF t, h

\* What is in a longer sequence was in it or is appended.
LEMMA PushFacts ==
    ASSUME NEW S, NEW q \in Seq(S), NEW p \in S
    PROVE  /\ NoData(Append(q, p)) <=> NoData(q) /\ ~IsData(p)
           /\ Ends(Append(q, p)) = Ends(q) \cup (IF IsEnd(p) THEN {p} ELSE {})
           /\ EndLast(Append(q, p)) <=> EndLast(q) /\ (IsData(p) => Ends(q) = {})
           /\ \A r :
                /\ HasA(Append(q, p), r) <=> HasA(q, r) \/ IsA(p, r)
                /\ HasW(Append(q, p), r) <=> HasW(q, r) \/ IsW(p, r)
                /\ EndsHeld(Append(q, p), r) <=> IsA(p, r) \/ (EndsHeld(q, r) /\ ~IsW(p, r))
                /\ Clean(Append(q, p), r) <=> /\ Clean(q, r)
                                              /\ IsA(p, r) => ~HasA(q, r)
                                              /\ IsW(p, r) => ~HasA(q, r) /\ ~HasW(q, r)
<1> DEFINE t == Append(q, p)
           n == Len(q)
<1>1. /\ n \in Nat /\ Len(t) = n + 1 /\ t[n + 1] = p
      /\ \A i \in 1 .. n : t[i] = q[i]
  BY AppendProperties, LenProperties
<1> HIDE DEF t, n
<1>2. ASSUME NEW i \in 1 .. Len(t)
      PROVE  (i \in 1 .. n /\ t[i] = q[i]) \/ (i = n + 1 /\ t[i] = p)
  BY <1>1
<1>3. ASSUME NEW i \in 1 .. n
      PROVE  i \in 1 .. Len(t) /\ t[i] = q[i] /\ i < n + 1
  BY <1>1
<1>4. n + 1 \in 1 .. Len(t) /\ t[n + 1] = p
  BY <1>1
<1>5. ASSUME NEW i \in 1 .. Len(t), NEW j \in 1 .. Len(t), i < j
      PROVE  i \in 1 .. n /\ t[i] = q[i]
  BY <1>1, <1>5
<1>6. NoData(t) <=> NoData(q) /\ ~IsData(p)
  BY <1>2, <1>3, <1>4, Zenon DEF NoData, n
<1>7. Ends(t) = Ends(q) \cup (IF IsEnd(p) THEN {p} ELSE {})
  <2>1. ASSUME NEW e \in Ends(t) PROVE e \in Ends(q) \/ (IsEnd(p) /\ e = p)
    BY <1>2 DEF Ends, n
  <2>2. ASSUME NEW e \in Ends(q) PROVE e \in Ends(t)
    BY <1>3 DEF Ends, n
  <2>3. IsEnd(p) => p \in Ends(t)
    BY <1>4 DEF Ends
  <2> QED
    BY <2>1, <2>2, <2>3
<1>8. EndLast(t) <=> EndLast(q) /\ (IsData(p) => Ends(q) = {})
  <2>1. ASSUME EndLast(t) PROVE EndLast(q) /\ (IsData(p) => Ends(q) = {})
    <3>1. EndLast(q)
      BY <2>1, <1>3 DEF EndLast, n
    <3>2. ASSUME NEW i \in 1 .. n, IsEnd(q[i]) PROVE ~IsData(p)
      BY <2>1, <3>2, <1>3, <1>4 DEF EndLast
    <3> QED
      BY <3>1, <3>2 DEF Ends, n
  <2>2. ASSUME EndLast(q), IsData(p) => Ends(q) = {},
               NEW i \in 1 .. Len(t), NEW j \in 1 .. Len(t), i < j, IsEnd(t[i])
        PROVE  ~IsData(t[j])
    <3>1. i \in 1 .. n /\ t[i] = q[i]
      BY <2>2, <1>5
    <3>2. CASE j \in 1 .. n /\ t[j] = q[j]
      BY <2>2, <3>1, <3>2 DEF EndLast, n
    <3>3. CASE t[j] = p
      BY <2>2, <3>1, <3>3 DEF Ends, n
    <3> QED
      BY <1>2, <3>2, <3>3
  <2> QED
    BY <2>1, <2>2 DEF EndLast
<1>9. ASSUME NEW r
      PROVE  /\ HasA(t, r) <=> HasA(q, r) \/ IsA(p, r)
             /\ HasW(t, r) <=> HasW(q, r) \/ IsW(p, r)
  BY <1>2, <1>3, <1>4, Zenon DEF HasA, HasW, n
<1>10. ASSUME NEW r
       PROVE  EndsHeld(t, r) <=> IsA(p, r) \/ (EndsHeld(q, r) /\ ~IsW(p, r))
  <2>1. ASSUME EndsHeld(t, r) PROVE IsA(p, r) \/ (EndsHeld(q, r) /\ ~IsW(p, r))
    <3>1. PICK i \in 1 .. Len(t) : IsA(t[i], r) /\ \A j \in 1 .. Len(t) : i < j => ~IsW(t[j], r)
      BY <2>1 DEF EndsHeld
    <3>2. CASE i \in 1 .. n /\ t[i] = q[i]
      <4>1. ~IsW(p, r)
        BY <3>1, <3>2, <1>3, <1>4
      <4>2. \A j \in 1 .. n : i < j => ~IsW(q[j], r)
        BY <3>1, <1>3
      <4> QED
        BY <4>1, <4>2, <3>1, <3>2 DEF EndsHeld, n
    <3>3. CASE t[i] = p
      BY <3>1, <3>3
    <3> QED
      BY <1>2, <3>2, <3>3
  <2>2. ASSUME IsA(p, r) PROVE EndsHeld(t, r)
    <3>1. ASSUME NEW j \in 1 .. Len(t), n + 1 < j PROVE FALSE
      BY <3>1, <1>1
    <3> QED
      BY <3>1, <2>2, <1>4 DEF EndsHeld
  <2>3. ASSUME EndsHeld(q, r), ~IsW(p, r) PROVE EndsHeld(t, r)
    <3>1. PICK i \in 1 .. n : IsA(q[i], r) /\ \A j \in 1 .. n : i < j => ~IsW(q[j], r)
      BY <2>3 DEF EndsHeld, n
    <3>2. ASSUME NEW j \in 1 .. Len(t), i < j PROVE ~IsW(t[j], r)
      BY <3>1, <3>2, <2>3, <1>2
    <3> QED
      BY <3>1, <3>2, <1>3 DEF EndsHeld
  <2> QED
    BY <2>1, <2>2, <2>3
<1>11. ASSUME NEW r
       PROVE  Clean(t, r) <=> /\ Clean(q, r)
                              /\ IsA(p, r) => ~HasA(q, r)
                              /\ IsW(p, r) => ~HasA(q, r) /\ ~HasW(q, r)
  <2>1. ASSUME Clean(t, r)
        PROVE  /\ Clean(q, r)
               /\ IsA(p, r) => ~HasA(q, r)
               /\ IsW(p, r) => ~HasA(q, r) /\ ~HasW(q, r)
    <3>1. Clean(q, r)
      BY <2>1, <1>3 DEF Clean, n
    <3>2. ASSUME NEW i \in 1 .. n
          PROVE  /\ IsA(q[i], r) => ~IsA(p, r) /\ ~IsW(p, r)
                 /\ IsW(q[i], r) => ~IsW(p, r)
      BY <2>1, <1>3, <1>4 DEF Clean
    <3> QED
      BY <3>1, <3>2 DEF HasA, HasW, n
  <2>2. ASSUME Clean(q, r), IsA(p, r) => ~HasA(q, r), IsW(p, r) => ~HasA(q, r) /\ ~HasW(q, r),
               NEW i \in 1 .. Len(t), NEW j \in 1 .. Len(t), i < j
        PROVE  /\ IsA(t[i], r) => ~IsA(t[j], r) /\ ~IsW(t[j], r)
               /\ IsW(t[i], r) => ~IsW(t[j], r)
    <3>1. i \in 1 .. n /\ t[i] = q[i]
      BY <2>2, <1>5
    <3>2. CASE j \in 1 .. n /\ t[j] = q[j]
      BY <2>2, <3>1, <3>2 DEF Clean, n
    <3>3. CASE t[j] = p
      BY <2>2, <3>1, <3>3 DEF HasA, HasW, n
    <3> QED
      BY <1>2, <3>2, <3>3
  <2> QED
    BY <2>1, <2>2 DEF Clean
<1> QED
  BY <1>6, <1>7, <1>8, <1>9, <1>10, <1>11 DEF t

-----------------------------------------------------------------------------
(* Answers.                                                                *)

\* A part of the list can be gone through in its order, and each node is met.
LEMMA Ordered ==
    ASSUME CacheInv, NEW nodes \in SUBSET entries
    PROVE  /\ Cardinality(nodes) \in Nat /\ IsFiniteSet(nodes)
           /\ InListOrder(nodes) \in [1 .. Cardinality(nodes) -> nodes]
           /\ \A i, j \in 1 .. Cardinality(nodes) : i < j =>
                 InListOrder(nodes)[i].pos < InListOrder(nodes)[j].pos
           /\ \A e \in nodes : \E i \in 1 .. Cardinality(nodes) : InListOrder(nodes)[i] = e
<1> DEFINE n == Cardinality(nodes)
           upto(e) == {d \in nodes : d.pos <= e.pos}
           rank == [e \in nodes |-> Cardinality(upto(e))]
           inOrder(s) == /\ s \in [1 .. n -> nodes]
                         /\ \A i, j \in 1 .. n : i < j => s[i].pos < s[j].pos
<1>1. /\ \A e \in nodes : e.pos \in 1 .. tail /\ e.pos \in Nat
      /\ \A d, e \in nodes : d.pos = e.pos => d = e
      /\ tail \in Nat
  BY DEF CacheInv, ListOK, Sorted, NumbersOK
<1>2. IsFiniteSet(nodes) /\ n \in Nat
  <2>1. [e \in nodes |-> e.pos] \in Injection(nodes, 1 .. tail)
    BY <1>1 DEF Injection, IsInjective
  <2>2. IsFiniteSet(1 .. tail)
    BY <1>1, FS_Interval
  <2> QED
    BY <2>1, <2>2, FS_Injection, FS_CardinalityType
<1>3. ASSUME NEW d \in nodes, NEW e \in nodes
      PROVE  /\ rank[d] \in 1 .. n
             /\ d.pos < e.pos => rank[d] < rank[e]
  <2>1. /\ IsFiniteSet(upto(d)) /\ IsFiniteSet(upto(e))
        /\ Cardinality(upto(d)) \in Nat /\ Cardinality(upto(e)) \in Nat
        /\ Cardinality(upto(d)) <= n
    BY <1>2, FS_Subset, FS_CardinalityType
  <2>2. Cardinality(upto(d)) # 0
    <3>1. d \in upto(d)
      BY <1>1
    <3> QED
      BY <2>1, <3>1, FS_EmptySet
  <2>3. ASSUME d.pos < e.pos
        PROVE  Cardinality(upto(d)) < Cardinality(upto(e))
    <3>1. upto(d) \subseteq upto(e) /\ e \in upto(e) /\ e \notin upto(d)
      BY <1>1, <2>3
    <3>2. upto(d) # upto(e)
      BY <3>1
    <3> HIDE DEF upto
    <3> QED
      BY <2>1, <3>1, <3>2, FS_Subset
  <2> QED
    BY <1>2, <2>1, <2>2, <2>3
<1>4. rank \in Surjection(nodes, 1 .. n)
  <2>1. rank \in Injection(nodes, 1 .. n)
    <3>1. \A d \in nodes : rank[d] \in 1 .. n
      BY <1>3
    <3>2. ASSUME NEW d \in nodes, NEW e \in nodes, rank[d] = rank[e]
          PROVE  d = e
      <4>1. ~(rank[d] < rank[e]) /\ ~(rank[e] < rank[d])
        BY <3>1, <3>2
      <4>2. ~(d.pos < e.pos) /\ ~(e.pos < d.pos)
        BY <4>1, <1>3
      <4> QED
        BY <4>2, <1>1
    <3> HIDE DEF upto
    <3>3. rank \in [nodes -> 1 .. n]
      BY <3>1
    <3> QED
      BY <3>2, <3>3 DEF Injection, IsInjective
  <2>2. IsFiniteSet(1 .. n) /\ Cardinality(1 .. n) = n
    BY <1>2, FS_Interval
  <2> HIDE DEF rank
  <2> QED
    BY <2>1, <2>2, FS_Injection
<1>5. \E s : inOrder(s)
  <2> DEFINE s == [i \in 1 .. n |-> CHOOSE e \in nodes : rank[e] = i]
  <2>1. ASSUME NEW i \in 1 .. n
        PROVE  s[i] \in nodes /\ rank[s[i]] = i
    <3> HIDE DEF rank
    <3>1. \E e \in nodes : rank[e] = i
      BY <1>4 DEF Surjection
    <3> QED
      BY <3>1
  <2>2. ASSUME NEW i \in 1 .. n, NEW j \in 1 .. n, i < j
        PROVE  s[i].pos < s[j].pos
    <3> HIDE DEF rank, s
    <3>1. s[i] \in nodes /\ s[j] \in nodes /\ rank[s[i]] = i /\ rank[s[j]] = j
      BY <2>1
    <3>2. ~(s[j].pos < s[i].pos)
      <4>1. s[j].pos < s[i].pos => j < i
        BY <3>1, <1>3
      <4> QED
        BY <4>1, <2>2
    <3>3. s[i].pos # s[j].pos
      BY <3>1, <1>1, <2>2
    <3> QED
      BY <3>1, <3>2, <3>3, <1>1
  <2>3. s \in [1 .. n -> nodes]
    BY <2>1
  <2> HIDE DEF s
  <2> QED
    BY <2>2, <2>3
<1> DEFINE list == InListOrder(nodes)
<1>6. inOrder(list)
  <2>1. \E s \in [1 .. n -> nodes] : \A i, j \in DOMAIN s : i < j => s[i].pos < s[j].pos
    <3>1. PICK s : inOrder(s)
      BY <1>5
    <3>2. DOMAIN s = 1 .. n
      BY <3>1
    <3> QED
      BY <3>1, <3>2
  <2>2. list \in [1 .. n -> nodes] /\ \A i, j \in DOMAIN list : i < j => list[i].pos < list[j].pos
    BY <2>1 DEF InListOrder
  <2> HIDE DEF list
  <2> QED
    BY <2>2
<1> HIDE DEF list
<1>7. list \in Surjection(1 .. n, nodes)
  <2>1. list \in Injection(1 .. n, nodes)
    <3>1. ASSUME NEW i \in 1 .. n, NEW j \in 1 .. n, list[i] = list[j]
          PROVE  i = j
      <4>1. list[i] \in nodes /\ list[i].pos \in Nat
        BY <1>1, <1>6
      <4>2. ~(i < j) /\ ~(j < i)
        BY <4>1, <3>1, <1>6
      <4> QED
        BY <4>2, <1>2
    <3> QED
      BY <3>1, <1>6 DEF Injection, IsInjective
  <2>2. IsFiniteSet(1 .. n) /\ Cardinality(1 .. n) = n
    BY <1>2, FS_Interval
  <2> QED
    BY <2>1, <2>2, <1>2, FS_Injection
<1> QED
  BY <1>2, <1>6, <1>7 DEF Surjection, list

\* What an answer says of each ROA, in terms of the objects it is made of.
EndPart == [type |-> "end"]

\* An answer has the chosen nodes in their order, and an End of Data at its end.
LEMMA AnswerFacts ==
    ASSUME CacheInv, NEW isReset \in BOOLEAN, NEW serial,
           NEW q, q = Answer(isReset, serial), NEW O, O = Objects(isReset, serial)
    PROVE  /\ q \in Seq(Part) /\ q # <<>>
           /\ Ends(q) = {EndPart} /\ EndLast(q) /\ ~NoData(q)
           /\ \A r \in Roas :
                /\ HasA(q, r) <=> \E e \in O : e.ann /\ e.roa = r
                /\ HasW(q, r) <=> \E e \in O : ~e.ann /\ e.roa = r
                /\ \A e \in O :
                     e.ann /\ e.roa = r /\ (\A d \in O : ~d.ann /\ d.roa = r => d.pos < e.pos)
                       => EndsHeld(q, r)
                /\ (\A d, e \in O : d.roa = r /\ e.roa = r /\ d.pos < e.pos => ~d.ann /\ e.ann)
                       => Clean(q, r)
<1> DEFINE list == InListOrder(O)
           n == Cardinality(O)
           response == [type |-> "response"]
           objects == [i \in 1 .. Len(list) |-> Prefix(list[i])]
<1>1. O \in SUBSET entries
  BY DEF Objects
<1>2. /\ n \in Nat
      /\ list \in [1 .. n -> O]
      /\ \A i, j \in 1 .. n : i < j => list[i].pos < list[j].pos
      /\ \A e \in O : \E i \in 1 .. n : list[i] = e
  BY <1>1, Ordered
<1>3. q = <<response>> \o objects \o <<EndPart>>
  BY DEF Answer, EndPart
<1> HIDE DEF list, n
<1>4. /\ \A e \in O : e.roa \in Roas /\ e.ann \in BOOLEAN /\ e.pos \in Nat
  BY <1>1, SMT DEF CacheInv, ListOK, NumbersOK
<1>5. /\ response \in Part /\ EndPart \in Part
      /\ \A e \in O : Prefix(e) \in Part
  BY <1>4 DEF Part, EndPart, Prefix
<1>6. Len(list) = n
  BY <1>2
<1>7. objects \in Seq(Part) /\ Len(objects) = n /\ \A i \in 1 .. n : objects[i] = Prefix(list[i])
  <2>1. objects \in [1 .. n -> Part]
    BY <1>2, <1>5, <1>6
  <2>2. objects \in Seq(Part)
    BY <2>1, <1>2
  <2> QED
    BY <1>2, <1>6, <2>1, <2>2
<1> HIDE DEF response, objects
<1>8. /\ q \in Seq(Part) /\ Len(q) = n + 2
      /\ q[1] = response /\ q[n + 2] = EndPart
      /\ \A i \in 1 .. n : q[i + 1] = Prefix(list[i])
  <2>1. <<response>> \in Seq(Part) /\ <<EndPart>> \in Seq(Part) /\ Len(<<response>>) = 1 /\ Len(<<EndPart>>) = 1
        /\ <<response>>[1] = response /\ <<EndPart>>[1] = EndPart
    BY <1>5
  <2>2. /\ <<response>> \o objects \in Seq(Part) /\ Len(<<response>> \o objects) = n + 1
        /\ \A i \in 1 .. n + 1 : (<<response>> \o objects)[i] =
                                    IF i <= 1 THEN <<response>>[i] ELSE objects[i - 1]
    <3>1. 1 + n = n + 1
      BY <1>2
    <3> QED
      BY <2>1, <1>7, <3>1, ConcatProperties
  <2>3. /\ q \in Seq(Part) /\ Len(q) = n + 2
        /\ \A i \in 1 .. n + 2 : q[i] = IF i <= n + 1 THEN (<<response>> \o objects)[i]
                                                     ELSE <<EndPart>>[i - (n + 1)]
    <3>1. (n + 1) + 1 = n + 2
      BY <1>2
    <3> QED
      BY <2>1, <2>2, <3>1, <1>3, ConcatProperties
  <2>4. q[1] = response
    BY <2>1, <2>2, <2>3, <1>2
  <2>5. q[n + 2] = EndPart
    BY <2>1, <2>3, <1>2
  <2>6. ASSUME NEW i \in 1 .. n PROVE q[i + 1] = Prefix(list[i])
    <3>1. i + 1 \in 1 .. n + 2 /\ i + 1 \in 1 .. n + 1 /\ i + 1 <= n + 1 /\ ~(i + 1 <= 1) /\ (i + 1) - 1 = i
      BY <1>2
    <3> QED
      BY <3>1, <2>2, <2>3, <1>7
  <2> QED
    BY <2>3, <2>4, <2>5, <2>6

\* Each place in the answer is one of three.
<1>9. ASSUME NEW i \in 1 .. Len(q)
      PROVE  \/ i = 1 /\ q[i] = response
             \/ i = n + 2 /\ q[i] = EndPart
             \/ i - 1 \in 1 .. n /\ q[i] = Prefix(list[i - 1])
  <2>1. i = 1 \/ i = n + 2 \/ (i - 1 \in 1 .. n /\ (i - 1) + 1 = i)
    BY <1>2, <1>8
  <2> QED
    BY <2>1, <1>8
<1>10. ASSUME NEW i \in 1 .. n
       PROVE  i + 1 \in 1 .. Len(q) /\ q[i + 1] = Prefix(list[i]) /\ list[i] \in O
  BY <1>2, <1>8
<1>11. /\ IsEnd(EndPart) /\ IsData(EndPart) /\ ~IsEnd(response)
       /\ \A e : ~IsEnd(Prefix(e))
       /\ \A r : ~IsA(response, r) /\ ~IsW(response, r) /\ ~IsA(EndPart, r) /\ ~IsW(EndPart, r)
       /\ \A e, r : /\ IsA(Prefix(e), r) <=> e.roa = r /\ e.ann
                    /\ IsW(Prefix(e), r) <=> e.roa = r /\ ~e.ann
  BY DEF IsEnd, IsData, IsA, IsW, EndPart, response, Prefix
<1>12. n + 2 \in 1 .. Len(q) /\ q[n + 2] = EndPart
  BY <1>2, <1>8
<1>13. q # <<>>
  BY <1>2, <1>8
<1>14. Ends(q) = {EndPart}
  <2>1. ASSUME NEW p \in Ends(q) PROVE p = EndPart
    BY <1>9, <1>11 DEF Ends
  <2>2. EndPart \in Ends(q)
    BY <1>11, <1>12 DEF Ends
  <2> QED
    BY <2>1, <2>2
<1>15. EndLast(q)
  <2>1. ASSUME NEW i \in 1 .. Len(q), NEW j \in 1 .. Len(q), i < j, IsEnd(q[i]) PROVE FALSE
    <3>1. i = n + 2
      BY <2>1, <1>9, <1>11
    <3> QED
      BY <3>1, <2>1, <1>8, <1>2
  <2> QED
    BY <2>1 DEF EndLast
<1>16. ~NoData(q)
  BY <1>11, <1>12 DEF NoData
<1>17. ASSUME NEW r \in Roas, NEW i \in 1 .. Len(q)
       PROVE  /\ IsA(q[i], r) => i - 1 \in 1 .. n /\ list[i - 1].roa = r /\ list[i - 1].ann
              /\ IsW(q[i], r) => i - 1 \in 1 .. n /\ list[i - 1].roa = r /\ ~list[i - 1].ann
  BY <1>9, <1>11
<1>18. ASSUME NEW r \in Roas
       PROVE  /\ HasA(q, r) <=> \E e \in O : e.ann /\ e.roa = r
              /\ HasW(q, r) <=> \E e \in O : ~e.ann /\ e.roa = r
  <2>1. ASSUME HasA(q, r) PROVE \E e \in O : e.ann /\ e.roa = r
    BY <2>1, <1>17, <1>10 DEF HasA
  <2>2. ASSUME HasW(q, r) PROVE \E e \in O : ~e.ann /\ e.roa = r
    BY <2>2, <1>17, <1>10 DEF HasW
  <2>3. ASSUME NEW e \in O, e.roa = r
        PROVE  \E i \in 1 .. Len(q) : q[i] = Prefix(e)
    <3>1. PICK i \in 1 .. n : list[i] = e
      BY <1>2
    <3> QED
      BY <3>1, <1>10
  <2> QED
    BY <2>1, <2>2, <2>3, <1>11 DEF HasA, HasW
<1>19. ASSUME NEW r \in Roas, NEW e \in O, e.ann, e.roa = r,
              \A d \in O : ~d.ann /\ d.roa = r => d.pos < e.pos
       PROVE  EndsHeld(q, r)
  <2>1. PICK k \in 1 .. n : list[k] = e
    BY <1>2
  <2>2. k + 1 \in 1 .. Len(q) /\ IsA(q[k + 1], r)
    BY <2>1, <1>10, <1>11, <1>19
  <2>3. ASSUME NEW j \in 1 .. Len(q), k + 1 < j, IsW(q[j], r) PROVE FALSE
    <3>1. j - 1 \in 1 .. n /\ list[j - 1].roa = r /\ ~list[j - 1].ann /\ k < j - 1
      BY <2>3, <1>17
    <3>2. list[j - 1] \in O /\ list[j - 1].pos \in Nat /\ e.pos \in Nat
      BY <3>1, <1>2, <1>4
    <3>3. list[j - 1].pos < e.pos
      BY <3>1, <3>2, <1>19
    <3>4. e.pos < list[j - 1].pos
      BY <3>1, <2>1, <1>2
    <3> QED
      BY <3>2, <3>3, <3>4
  <2> QED
    BY <2>2, <2>3 DEF EndsHeld
<1>20. ASSUME NEW r \in Roas,
              \A d, e \in O : d.roa = r /\ e.roa = r /\ d.pos < e.pos => ~d.ann /\ e.ann
       PROVE  Clean(q, r)
  <2> SUFFICES ASSUME NEW i \in 1 .. Len(q), NEW j \in 1 .. Len(q), i < j,
                      IsA(q[i], r) \/ IsW(q[i], r), IsA(q[j], r) \/ IsW(q[j], r)
               PROVE  IsW(q[i], r) /\ ~IsA(q[i], r) /\ ~IsW(q[j], r)
    BY DEF Clean
  <2>1. /\ i - 1 \in 1 .. n /\ j - 1 \in 1 .. n /\ i - 1 < j - 1
        /\ list[i - 1].roa = r /\ list[j - 1].roa = r
    BY <1>17
  <2>2. list[i - 1] \in O /\ list[j - 1] \in O /\ list[i - 1].pos < list[j - 1].pos
    BY <2>1, <1>2
  <2>3. ~list[i - 1].ann /\ list[j - 1].ann
    BY <2>1, <2>2, <1>20
  <2> QED
    BY <2>3, <1>17
<1> QED
  BY <1>8, <1>13, <1>14, <1>15, <1>16, <1>18, <1>19, <1>20

-----------------------------------------------------------------------------
(* The list of the cache, while no ROA is announced twice.                 *)

\* Of a ROA one node at most is announced, and those withdrawn come before it.
OneAnnounced == \A d, e \in entries : d.roa = e.roa /\ d.ann /\ e.ann => d = e
WithdrawnFirst == \A d, e \in entries : d.roa = e.roa /\ ~d.ann /\ e.ann => d.pos < e.pos

\* What is announced was sent under the current serial, once it is advanced, and
\* no set that was sent had a ROA twice.
SentNow == Uncounted \/ Announced(entries) \in past[maxSerial]
SentOnce == \A s \in 0 .. MaxSerial : \A had \in past[s] :
                \A x, y \in had : x[1] = y[1] => x = y

ListInv == OneAnnounced /\ WithdrawnFirst /\ SentNow /\ SentOnce

\* What a step of the cache does to the sessions: serials and what was sent
\* under them stay, and nothing old is announced anew.
CacheGoesOn ==
    /\ maxSerial <= maxSerial'
    /\ \A s \in 0 .. MaxSerial : past[s] \subseteq past'[s]
    /\ \A e \in entries' : e.ann /\ e.serial <= maxSerial => e \in entries

\* A list is finite.
LEMMA FiniteList ==
    ASSUME NEW nodes, NEW n \in Nat, \A e \in nodes : e.pos \in 1 .. n,
           \A d, e \in nodes : d.pos = e.pos => d = e
    PROVE  IsFiniteSet(nodes)
<1>1. [e \in nodes |-> e.pos] \in Injection(nodes, 1 .. n)
  BY DEF Injection, IsInjective
<1> QED
  BY <1>1, FS_Interval, FS_Injection

\* A set of one element at most has no two.
LEMMA OneAtMost ==
    ASSUME NEW T, IsFiniteSet(T), Cardinality(T) <= 1, NEW d \in T, NEW e \in T
    PROVE  d = e
<1> SUFFICES ASSUME d # e PROVE FALSE
  OBVIOUS
<1>1. IsFiniteSet({d}) /\ Cardinality({d}) = 1
  BY FS_Singleton
<1>2. {d} \subseteq T /\ {d} # T
  OBVIOUS
<1>3. Cardinality({d}) < Cardinality(T) /\ Cardinality(T) \in Nat
  BY <1>1, <1>2, FS_Subset, FS_CardinalityType
<1> QED
  BY <1>1, <1>3

\* No two nodes of a ROA are announced if it is announced once.
LEMMA OneCopy ==
    ASSUME CacheInv', \A r \in Roas : Copies(r)' <= 1
    PROVE  OneAnnounced'
<1>1. /\ \A e \in entries' : e.pos \in 1 .. tail' /\ e.roa \in Roas
      /\ \A d, e \in entries' : d.pos = e.pos => d = e
      /\ tail' \in Nat
  BY DEF CacheInv, ListOK, Sorted, NumbersOK
<1>2. IsFiniteSet(entries')
  BY <1>1, FiniteList
<1> SUFFICES ASSUME NEW d \in entries', NEW e \in entries', d.roa = e.roa, d.ann, e.ann
             PROVE  d = e
  BY DEF OneAnnounced
<1> DEFINE T == {x \in entries' : x.ann /\ x.roa = d.roa}
<1>3. IsFiniteSet(T)
  BY <1>2, FS_Subset
<1>4. Cardinality(T) <= 1
  BY <1>1 DEF Copies
<1>5. d \in T /\ e \in T
  OBVIOUS
<1> HIDE DEF T
<1> QED
  BY <1>3, <1>4, <1>5, OneAtMost

\* What is remembered keeps SentNow and SentOnce.
LEMMA Remembered ==
    ASSUME CacheInv, CacheInv', ListInv, Remember, OneAnnounced', maxSerial <= maxSerial'
    PROVE  /\ SentNow' /\ SentOnce'
           /\ \A s \in 0 .. MaxSerial : past[s] \subseteq past'[s]
<1> USE RtrCacheAssumption
<1>1. maxSerial' \in 0 .. MaxSerial /\ maxSerial \in Nat
  BY SMT DEF CacheInv, NumbersOK
<1>2. \/ Uncounted' /\ past' = past
      \/ ~Uncounted' /\ past' = [past EXCEPT ![maxSerial'] = @ \cup {Announced(entries')}]
  BY DEF Remember
<1>3. past = [s \in 0 .. MaxSerial |-> past[s]]
  BY DEF CacheInv, PastDomain
<1>4. SentNow'
  BY <1>1, <1>2, <1>3 DEF SentNow
<1>5. \A x, y \in Announced(entries') : x[1] = y[1] => x = y
  <2> SUFFICES ASSUME NEW x \in Announced(entries'), NEW y \in Announced(entries'), x[1] = y[1]
               PROVE  x = y
    OBVIOUS
  <2>1. PICK d \in entries' : d.ann /\ x = Id(d)
    BY DEF Announced
  <2>2. PICK e \in entries' : e.ann /\ y = Id(e)
    BY DEF Announced
  <2> QED
    BY <2>1, <2>2 DEF OneAnnounced, Id
<1>6. ASSUME NEW s \in 0 .. MaxSerial, NEW had \in past'[s]
      PROVE  had \in past[s] \/ had = Announced(entries')
  BY <1>2, <1>3, <1>6
<1>7. SentOnce'
  <2> SUFFICES ASSUME NEW s \in 0 .. MaxSerial, NEW had \in past'[s], NEW x \in had, NEW y \in had,
                      x[1] = y[1]
               PROVE  x = y
    BY DEF SentOnce
  <2>1. CASE had \in past[s]
    BY <2>1 DEF ListInv, SentOnce
  <2>2. CASE had = Announced(entries')
    BY <1>5, <2>2
  <2> QED
    BY <1>6, <2>1, <2>2
<1>8. \A s \in 0 .. MaxSerial : past[s] \subseteq past'[s]
  BY <1>2, <1>3
<1> QED
  BY <1>4, <1>7, <1>8

\* Entries are appended.
LEMMA ListAppend ==
    ASSUME CacheInv, CacheInv', ListInv, OneAnnounced',
           NEW n \in 0 .. MaxLines, NEW lines \in [1 .. n -> Roas], readPrefixData(lines, TRUE)
    PROVE  ListInv' /\ CacheGoesOn
<1> DEFINE new(i) == [roa |-> lines[i], born |-> tail + i, prev |-> maxSerial + i,
                      serial |-> maxSerial + i, ann |-> TRUE, pos |-> tail + i]
<1>1. n \in Nat /\ Len(lines) = n
  BY RtrCacheAssumption
<1>2. /\ entries' = entries \cup {new(i) : i \in 1 .. n}
      /\ maxSerial' = maxSerial /\ Remember
  BY <1>1 DEF readPrefixData
<1>3. /\ tail \in Nat /\ maxSerial \in Nat /\ maxSerial <= maxSerial'
      /\ \A e \in entries : e.pos \in 1 .. tail
  BY <1>1, <1>2 DEF CacheInv, NumbersOK, ListOK
<1>4. ASSUME NEW e \in entries', e \notin entries
      PROVE  e.ann /\ e.serial > maxSerial /\ e.pos > tail /\ e.pos \in Nat
  <2>1. PICK i \in 1 .. n : e = new(i)
    BY <1>2, <1>4
  <2>2. e.ann /\ e.serial = maxSerial + i /\ e.pos = tail + i
    BY <2>1
  <2> QED
    BY <2>2, <1>3
<1>5. WithdrawnFirst'
  <2> SUFFICES ASSUME NEW d \in entries', NEW e \in entries', d.roa = e.roa, ~d.ann, e.ann
               PROVE  d.pos < e.pos
    BY DEF WithdrawnFirst
  <2>1. d \in entries
    BY <1>4
  <2>2. CASE e \in entries
    BY <2>1, <2>2 DEF ListInv, WithdrawnFirst
  <2>3. CASE e \notin entries
    BY <2>1, <2>3, <1>3, <1>4
  <2> QED
    BY <2>2, <2>3
<1>6. \A e \in entries' : e.ann /\ e.serial <= maxSerial => e \in entries
  <2> SUFFICES ASSUME NEW e \in entries', e.serial <= maxSerial, e \notin entries PROVE FALSE
    OBVIOUS
  <2>1. e.serial \in Nat
    BY DEF CacheInv, ListOK
  <2> QED
    BY <2>1, <1>3, <1>4
<1> QED
  BY <1>2, <1>3, <1>5, <1>6, Remembered DEF ListInv, CacheGoesOn

\* The list stays as it is, and the serial is not advanced or is now.
LEMMA ListSame ==
    ASSUME CacheInv, CacheInv', ListInv, entries' = entries, maxSerial <= maxSerial',
           Remember \/ (maxSerial' = maxSerial /\ past' = past)
    PROVE  ListInv' /\ CacheGoesOn
<1>1. OneAnnounced' /\ WithdrawnFirst'
  BY DEF ListInv, OneAnnounced, WithdrawnFirst
<1>2. CASE Remember
  BY <1>1, <1>2, Remembered DEF ListInv, CacheGoesOn
<1>3. CASE maxSerial' = maxSerial /\ past' = past
  <2>1. SentNow' /\ SentOnce'
    BY <1>3 DEF ListInv, SentNow, SentOnce, Uncounted
  <2> QED
    BY <1>1, <1>3, <2>1 DEF ListInv, CacheGoesOn
<1> QED
  BY <1>2, <1>3

\* Entries are withdrawn and moved to the end.
LEMMA ListRemove ==
    ASSUME CacheInv, CacheInv', ListInv,
           NEW first \in 1 .. tail, NEW last \in 1 .. tail, processEntryRemoval(first, last)
    PROVE  ListInv' /\ CacheGoesOn
<1> DEFINE chosen == {e \in entries : e.pos \in first .. last /\ e.serial = e.prev}
<1>1. PICK n \in 1 .. MaxLines : \E f \in [1 .. n -> chosen] :
            /\ entries' = (entries \ {f[i] : i \in 1 .. n}) \cup
                  {Withdrawn(f[i], maxSerial + i, tail + i) : i \in 1 .. n}
            /\ maxSerial' = maxSerial + n /\ Remember
  BY DEF processEntryRemoval
<1>2. PICK f \in [1 .. n -> chosen] :
            /\ entries' = (entries \ {f[i] : i \in 1 .. n}) \cup
                  {Withdrawn(f[i], maxSerial + i, tail + i) : i \in 1 .. n}
            /\ maxSerial' = maxSerial + n /\ Remember
  BY <1>1
<1>3. n \in Nat /\ maxSerial \in Nat /\ maxSerial <= maxSerial'
  BY <1>2, RtrCacheAssumption DEF CacheInv, NumbersOK
<1>4. ASSUME NEW e \in entries', e.ann
      PROVE  e \in entries /\ e \notin {f[i] : i \in 1 .. n}
  BY <1>2, <1>4 DEF Withdrawn
<1>5. ASSUME NEW e \in entries', e \notin entries
      PROVE  \E i \in 1 .. n : e.roa = f[i].roa /\ f[i] \in entries /\ f[i].ann
  <2>1. PICK i \in 1 .. n : e = Withdrawn(f[i], maxSerial + i, tail + i)
    BY <1>2, <1>5
  <2>2. f[i] \in entries /\ f[i].serial = f[i].prev
    BY <1>2
  <2> QED
    BY <2>1, <2>2 DEF Withdrawn, CacheInv, ListOK
<1>6. OneAnnounced'
  BY <1>4 DEF ListInv, OneAnnounced
<1>7. WithdrawnFirst'
  <2> SUFFICES ASSUME NEW d \in entries', NEW e \in entries', d.roa = e.roa, ~d.ann, e.ann
               PROVE  d.pos < e.pos
    BY DEF WithdrawnFirst
  <2>1. e \in entries /\ e \notin {f[i] : i \in 1 .. n}
    BY <1>4
  <2>2. CASE d \in entries
    BY <2>1, <2>2 DEF ListInv, WithdrawnFirst
  <2>3. CASE d \notin entries
    <3>1. PICK i \in 1 .. n : d.roa = f[i].roa /\ f[i] \in entries /\ f[i].ann
      BY <2>3, <1>5
    <3>2. f[i] = e
      BY <3>1, <2>1 DEF ListInv, OneAnnounced
    <3> QED
      BY <3>2, <2>1
  <2> QED
    BY <2>2, <2>3
<1>8. \A e \in entries' : e.ann /\ e.serial <= maxSerial => e \in entries
  BY <1>4
<1> QED
  BY <1>2, <1>3, <1>6, <1>7, <1>8, Remembered DEF ListInv, CacheGoesOn

\* Withdrawn entries are deleted.
LEMMA ListExpire ==
    ASSUME CacheInv, CacheInv', ListInv, Expire
    PROVE  ListInv' /\ CacheGoesOn
<1>1. entries' \subseteq entries /\ maxSerial' = maxSerial /\ Remember
  BY DEF Expire, deleteExpiredEntriesFromCache
<1>2. OneAnnounced' /\ WithdrawnFirst'
  BY <1>1 DEF ListInv, OneAnnounced, WithdrawnFirst
<1>3. maxSerial <= maxSerial'
  BY <1>1 DEF CacheInv, NumbersOK
<1> QED
  BY <1>1, <1>2, <1>3, Remembered DEF ListInv, CacheGoesOn

\* Nothing of the list is touched.
LEMMA ListStays ==
    ASSUME CacheInv, ListInv, UNCHANGED cacheVars
    PROVE  CacheInv' /\ ListInv' /\ CacheGoesOn
<1>1. CacheInv'
  BY DEF cacheVars, limits, history, CacheInv, NumbersOK, Top, ListOK, Sorted, PastDomain, PastOK
<1>2. ListInv'
  BY DEF cacheVars, history, ListInv, OneAnnounced, WithdrawnFirst, SentNow, SentOnce, Uncounted
<1>3. maxSerial <= maxSerial
  BY DEF CacheInv, NumbersOK
<1> QED
  BY <1>1, <1>2, <1>3 DEF cacheVars, history, CacheGoesOn

CacheSafe == CacheInv /\ ListInv

\* The commands of the console, until there is a mishap.
LEMMA ChangeStep ==
    ASSUME CacheSafe, ~mishap', Change
    PROVE  CacheSafe' /\ CacheGoesOn
<1>1. appendPrefixData \/ advanceSerial \/ Read \/ Remove
  BY DEF Change
<1>2. CacheInv'
  BY <1>1, CacheNext_Inv DEF CacheSafe, CacheNext
<1>3. OneAnnounced'
  BY <1>2, OneCopy DEF Change
<1>4. maxSerial \in Nat /\ console.added \in Nat /\ maxSerial <= maxSerial
  BY DEF CacheSafe, CacheInv, NumbersOK
<1>5. CASE appendPrefixData
  <2>1. entries' = entries /\ maxSerial' = maxSerial /\ past' = past
    BY <1>5 DEF appendPrefixData, history
  <2> QED
    BY <1>2, <1>4, <2>1, ListSame DEF CacheSafe
<1>6. CASE advanceSerial
  <2>1. entries' = entries /\ maxSerial' = maxSerial + console.added
    BY <1>6, AdvanceStep DEF CacheSafe
  <2>2. maxSerial <= maxSerial' /\ Remember
    BY <1>4, <1>6, <2>1 DEF advanceSerial
  <2> QED
    BY <1>2, <2>1, <2>2, ListSame DEF CacheSafe
<1>7. CASE Read
  <2>1. PICK n \in 0 .. MaxLines : \E lines \in [1 .. n -> Roas] :
             readPrefixData(lines, TRUE) \/ readPrefixData(lines, FALSE)
    BY <1>7 DEF Read
  <2>2. PICK lines \in [1 .. n -> Roas] :
             readPrefixData(lines, TRUE) \/ readPrefixData(lines, FALSE)
    BY <2>1
  <2>3. CASE readPrefixData(lines, TRUE)
    BY <1>2, <1>3, <2>3, ListAppend DEF CacheSafe
  <2>4. CASE readPrefixData(lines, FALSE)
    <3>1. entries' = entries /\ maxSerial' = maxSerial /\ Remember
      BY <2>4, FailStep DEF CacheSafe
    <3> QED
      BY <1>2, <1>4, <3>1, ListSame DEF CacheSafe
  <2> QED
    BY <2>2, <2>3, <2>4
<1>8. CASE Remove
  <2>1. PICK first \in 1 .. tail, last \in 1 .. tail : processEntryRemoval(first, last)
    BY <1>8 DEF Remove
  <2> QED
    BY <1>2, <2>1, ListRemove DEF CacheSafe
<1> QED
  BY <1>1, <1>5, <1>6, <1>7, <1>8

\* The cache within a session.
LEMMA CacheStep ==
    ASSUME CacheSafe, ~mishap', Change \/ Timer \/ UNCHANGED cacheVars
    PROVE  CacheSafe' /\ CacheGoesOn
<1>1. CASE Change
  BY <1>1, ChangeStep
<1>2. CASE Timer /\ Expire
  <2>1. CacheInv'
    BY <1>2, CacheNext_Inv DEF CacheSafe, CacheNext
  <2> QED
    BY <1>2, <2>1, ListExpire DEF CacheSafe
<1>3. CASE UNCHANGED cacheVars
  BY <1>3, ListStays DEF CacheSafe
<1> QED
  BY <1>1, <1>2, <1>3 DEF Timer

\* A cache that is started, or started anew.
LEMMA CacheStarts ==
    ASSUME CacheInit
    PROVE  CacheSafe
<1>1. CacheInv
  BY CacheInit_Inv
<1>2. SentNow /\ SentOnce
  BY RtrCacheAssumption DEF CacheInit, SentNow, SentOnce, Announced
<1> QED
  BY <1>1, <1>2 DEF CacheInit, CacheSafe, ListInv, OneAnnounced, WithdrawnFirst

\* The cache is started anew.
LEMMA CacheRestarts ==
    ASSUME CacheSafe, NEW sid \in SessionIDs, Restart(sid)
    PROVE  CacheSafe'
<1> USE RtrCacheAssumption
<1>1. /\ entries' = {} /\ tail' = tail /\ maxSerial' = 0
      /\ minPSExpired' = UINT32_MAX /\ maxSExpired' = 0 /\ console' = Idle
      /\ past' = [s \in 0 .. MaxSerial |-> IF s = 0 THEN {{}} ELSE {}]
  BY DEF Restart
<1>2. NumbersOK'
  BY <1>1, SMT DEF CacheSafe, CacheInv, NumbersOK, Top, Idle
<1>3. ListOK' /\ Sorted' /\ PastDomain'
  BY <1>1 DEF ListOK, Sorted, PastDomain
<1>4. ASSUME NEW s \in 0 .. MaxSerial, NEW had \in past'[s] PROVE s = 0 /\ had = {}
  BY <1>1, <1>4
<1>5. PastOK'
  BY <1>1, <1>4, SMT DEF PastOK
<1>6. SentNow' /\ SentOnce'
  BY <1>1, <1>4 DEF SentNow, SentOnce, Announced
<1> QED
  BY <1>1, <1>2, <1>3, <1>5, <1>6
     DEF CacheSafe, CacheInv, ListInv, OneAnnounced, WithdrawnFirst

-----------------------------------------------------------------------------
(* The types of a session.                                                 *)

\* A query that is asked, and what a PDU does to the client.
LEMMA AskTyped ==
    ASSUME SessionTypeOK, NEW c \in Routers, NEW k \in Client,
           NEW type \in {"serial", "reset"}, Ask(c, type, k)
    PROVE  /\ queries' \in [Routers -> Seq(Query)]
           /\ \A d \in Routers : Len(queries'[d]) <= MaxQueries
           /\ repeated' \subseteq Routers
<1> DEFINE q == [type |-> type, sid |-> k.sid, serial |-> k.serial]
<1>1. q \in Query
  BY DEF Query, Client
<1>2. queries[c] \in Seq(Query) /\ Len(queries[c]) < MaxQueries
  BY DEF SessionTypeOK, Ask
<1> HIDE DEF q
<1>3. Append(queries[c], q) \in Seq(Query) /\ Len(Append(queries[c], q)) = Len(queries[c]) + 1
  BY <1>1, <1>2, AppendProperties
<1>4. queries' = [queries EXCEPT ![c] = IF c \in conn THEN Append(queries[c], q) ELSE queries[c]]
  BY DEF Ask, q
<1>5. queries' \in [Routers -> Seq(Query)]
  BY <1>3, <1>4 DEF SessionTypeOK
<1>6. ASSUME NEW d \in Routers PROVE Len(queries'[d]) <= MaxQueries
  <2>1. Len(queries[c]) + 1 <= MaxQueries
    BY <1>2, SessionAssumption, LenProperties
  <2>2. CASE d = c
    BY <2>1, <2>2, <1>2, <1>3, <1>4 DEF SessionTypeOK
  <2>3. CASE d # c
    BY <2>3, <1>4 DEF SessionTypeOK
  <2> QED
    BY <2>2, <2>3
<1>7. repeated' \subseteq Routers
  BY DEF Ask, SessionTypeOK
<1> QED
  BY <1>5, <1>6, <1>7

\* The session ID is noted.
LEMMA CheckedTyped ==
    ASSUME NEW k \in Client, NEW sid \in SessionIDs
    PROVE  Checked(k, sid) \in Client
BY DEF Checked, Client

\* What is first on the way and what is left of it.
LEMMA HeadTail ==
    ASSUME SessionTypeOK, NEW c \in Routers
    PROVE  /\ pdus[c] # <<>> => Head(pdus[c]) \in PDU /\ Tail(pdus[c]) \in Seq(PDU)
           /\ sending[c] # <<>> => Head(sending[c]) \in Part /\ Tail(sending[c]) \in Seq(Part)
           /\ queries[c] # <<>> => Head(queries[c]) \in Query /\ Tail(queries[c]) \in Seq(Query)
BY HeadTailProperties DEF SessionTypeOK

\* One round of receivePDUs, by the type of the PDU.
LEMMA Received ==
    ASSUME SessionTypeOK, NEW c \in Routers, NEW go, NEW halt, NEW onEnd,
           Receive(c, go, halt, onEnd),
           NEW p, p = Head(pdus[c]), NEW k, k = [client[c] EXCEPT !.lastRecv = p.type]
    PROVE  /\ pdus[c] # <<>> /\ p \in PDU /\ k \in Client
           /\ pdus' = [pdus EXCEPT ![c] = Tail(pdus[c])]
           /\ UNCHANGED <<cacheVars, sessionID, notify, conn, sending, otherVars>>
           /\ \/ /\ p.type = "notify" /\ p.sid \in SessionIDs /\ SameSession(k, p.sid)
                 /\ client' = [client EXCEPT ![c] = Checked(k, p.sid)]
                 /\ at' = [at EXCEPT ![c] = go]
                 /\ Ask(c, "serial", Checked(k, p.sid)) /\ UNCHANGED held
              \/ /\ p.type = "notify" /\ p.sid \in SessionIDs /\ ~SameSession(k, p.sid)
                 /\ client' = [client EXCEPT ![c] = Checked(k, p.sid)]
                 /\ at' = [at EXCEPT ![c] = halt]
                 /\ UNCHANGED <<queries, held, repeated>>
              \/ /\ p.type = "response" /\ p.sid \in SessionIDs
                 /\ client' = [client EXCEPT ![c] = Checked(k, p.sid)]
                 /\ at' = [at EXCEPT ![c] = IF SameSession(k, p.sid) THEN go
                                            ELSE IF HasCallback THEN halt ELSE "crashed"]
                 /\ UNCHANGED <<queries, held, repeated>>
              \/ /\ p.type = "prefix" /\ p.roa \in Roas /\ p.ann \in BOOLEAN /\ Hold(c, p)
                 /\ client' = [client EXCEPT ![c] = k]
                 /\ at' = [at EXCEPT ![c] = go]
                 /\ UNCHANGED <<queries, repeated>>
              \/ /\ p.type = "end" /\ p.sid \in SessionIDs /\ p.serial \in 0 .. UINT32_MAX
                 /\ SameSession(k, p.sid)
                 /\ client' = [client EXCEPT ![c] = [Checked(k, p.sid) EXCEPT !.serial = p.serial]]
                 /\ at' = [at EXCEPT ![c] = onEnd]
                 /\ UNCHANGED <<queries, held, repeated>>
              \/ /\ p.type = "end" /\ p.sid \in SessionIDs /\ p.serial \in 0 .. UINT32_MAX
                 /\ ~SameSession(k, p.sid)
                 /\ client' = [client EXCEPT ![c] = Checked(k, p.sid)]
                 /\ at' = [at EXCEPT ![c] = halt]
                 /\ UNCHANGED <<queries, held, repeated>>
              \/ /\ p.type = "reset"
                 /\ client' = [client EXCEPT ![c] = k]
                 /\ at' = [at EXCEPT ![c] = go]
                 /\ Ask(c, "reset", k) /\ UNCHANGED held
<1>1. pdus[c] # <<>> /\ p \in PDU
  BY HeadTail DEF Receive
<1>2. k \in Client
  BY <1>1 DEF SessionTypeOK, Client, PDU
<1>3. /\ p.type \in {"notify", "response"} => p.sid \in SessionIDs
      /\ p.type = "prefix" => p.roa \in Roas /\ p.ann \in BOOLEAN
      /\ p.type = "end" => p.sid \in SessionIDs /\ p.serial \in 0 .. UINT32_MAX
  BY <1>1 DEF PDU
<1> QED
  BY <1>1, <1>2, <1>3 DEF Receive

\* A ROA is counted up or down.
LEMMA HoldTyped ==
    ASSUME SessionTypeOK, NEW c \in Routers, NEW p, p.roa \in Roas, p.ann \in BOOLEAN, Hold(c, p)
    PROVE  /\ held' \in [Routers -> [Roas -> Nat]]
           /\ \A d \in Routers, r \in Roas : d # c \/ r # p.roa => held'[d][r] = held[d][r]
           /\ p.ann => held'[c][p.roa] = held[c][p.roa] + 1
           /\ ~p.ann => held'[c][p.roa] = IF held[c][p.roa] = 0 THEN 0 ELSE held[c][p.roa] - 1
<1> DEFINE n == IF p.ann THEN held[c][p.roa] + 1
                ELSE IF held[c][p.roa] = 0 THEN 0 ELSE held[c][p.roa] - 1
<1>1. held[c][p.roa] \in Nat
  BY DEF SessionTypeOK
<1>2. n \in Nat
  BY <1>1
<1>3. held' = [held EXCEPT ![c][p.roa] = n]
  BY DEF Hold
<1> HIDE DEF n
<1>4. held' \in [Routers -> [Roas -> Nat]]
  BY <1>2, <1>3 DEF SessionTypeOK
<1>5. /\ \A d \in Routers, r \in Roas : d # c \/ r # p.roa => held'[d][r] = held[d][r]
      /\ held'[c][p.roa] = n
  BY <1>3 DEF SessionTypeOK
<1> QED
  BY <1>4, <1>5 DEF n

Places == {"start", "first", "receive", "lost", "reload", "stopped", "crashed"}

\* One round of receivePDUs keeps the types.
LEMMA ReceiveTyped ==
    ASSUME SessionTypeOK, NEW c \in Routers, NEW go \in Places, NEW halt \in Places,
           NEW onEnd \in Places, Receive(c, go, halt, onEnd)
    PROVE  SessionTypeOK'
<1> DEFINE p == Head(pdus[c])
           k == [client[c] EXCEPT !.lastRecv = p.type]
<1>1. pdus[c] # <<>> /\ p \in PDU /\ k \in Client
  BY Received
<1>2. pdus' = [pdus EXCEPT ![c] = Tail(pdus[c])] /\ Tail(pdus[c]) \in Seq(PDU)
  BY <1>1, Received, HeadTail
<1>3. UNCHANGED <<cacheVars, sessionID, notify, conn, sending, otherVars>>
  BY Received
<1>4. pdus' \in [Routers -> Seq(PDU)]
  BY <1>2 DEF SessionTypeOK
<1>5. /\ queries' \in [Routers -> Seq(Query)]
      /\ \A d \in Routers : Len(queries'[d]) <= MaxQueries
      /\ repeated' \subseteq Routers
  <2>1. CASE UNCHANGED <<queries, repeated>>
    BY <2>1 DEF SessionTypeOK
  <2>2. CASE Ask(c, "reset", k)
    BY <2>2, <1>1, AskTyped
  <2>3. CASE p.sid \in SessionIDs /\ Ask(c, "serial", Checked(k, p.sid))
    BY <2>3, <1>1, AskTyped, CheckedTyped
  <2> QED
    BY <2>1, <2>2, <2>3, Received
<1>6. held' \in [Routers -> [Roas -> Nat]]
  <2>1. CASE UNCHANGED held
    BY <2>1 DEF SessionTypeOK
  <2>2. CASE p.roa \in Roas /\ p.ann \in BOOLEAN /\ Hold(c, p)
    BY <2>2, HoldTyped
  <2> QED
    BY <2>1, <2>2, Received
<1>7. at' \in [Routers -> Places]
  <2>1. \E place \in Places : at' = [at EXCEPT ![c] = place]
    <3> DEFINE else == IF SameSession(k, p.sid) THEN go ELSE IF HasCallback THEN halt ELSE "crashed"
    <3>1. "crashed" \in Places /\ else \in Places
      BY DEF Places
    <3>2. \/ at' = [at EXCEPT ![c] = go] \/ at' = [at EXCEPT ![c] = halt]
          \/ at' = [at EXCEPT ![c] = onEnd] \/ at' = [at EXCEPT ![c] = else]
      BY Received
    <3> HIDE DEF else
    <3> QED
      BY <3>1, <3>2
  <2> QED
    BY <2>1 DEF SessionTypeOK, Places
<1>8. client' \in [Routers -> Client]
  <2>1. \E x \in Client : client' = [client EXCEPT ![c] = x]
    <3>1. ASSUME p.sid \in SessionIDs PROVE Checked(k, p.sid) \in Client
      BY <3>1, <1>1, CheckedTyped
    <3>2. ASSUME p.sid \in SessionIDs, p.serial \in 0 .. UINT32_MAX
          PROVE  [Checked(k, p.sid) EXCEPT !.serial = p.serial] \in Client
      BY <3>1, <3>2 DEF Client
    <3> QED
      BY <1>1, <3>1, <3>2, Received
  <2> QED
    BY <2>1 DEF SessionTypeOK
<1> QED
  BY <1>3, <1>4, <1>5, <1>6, <1>7, <1>8 DEF SessionTypeOK, otherVars, Places

\* A PDU for all that are connected.
LEMMA ToAllTyped ==
    ASSUME SessionTypeOK, NEW p \in PDU, ToAll(p)
    PROVE  /\ pdus' \in [Routers -> Seq(PDU)]
           /\ \A c \in Routers :
                 pdus'[c] = IF c \in conn THEN Append(pdus[c], p) ELSE pdus[c]
<1>1. \A c \in Routers : Append(pdus[c], p) \in Seq(PDU)
  BY AppendProperties DEF SessionTypeOK
<1>2. pdus' = [c \in Routers |-> IF c \in conn THEN Append(pdus[c], p) ELSE pdus[c]]
  BY DEF ToAll
<1>3. \A c \in Routers : (IF c \in conn THEN Append(pdus[c], p) ELSE pdus[c]) \in Seq(PDU)
  BY <1>1 DEF SessionTypeOK
<1> QED
  BY <1>2, <1>3

\* A Serial Notify is a PDU.
LEMMA NotifyTyped == \A sid \in SessionIDs : NotifyPDU(sid) \in PDU
BY DEF NotifyPDU, PDU

\* The types hold at the start.
LEMMA TypesInit == SessionInit => SessionTypeOK
<1> SUFFICES ASSUME SessionInit PROVE SessionTypeOK
  OBVIOUS
<1>1. /\ <<>> \in Seq(PDU) /\ <<>> \in Seq(Part) /\ <<>> \in Seq(Query) /\ Len(<<>>) = 0
      /\ 0 <= MaxQueries /\ 0 \in SessionIDs /\ 0 \in 0 .. UINT32_MAX
  BY SessionAssumption, RtrCacheAssumption
<1>2. [lastRecv |-> NoPDU, sid |-> NoPDU, startup |-> TRUE, changed |-> FALSE, serial |-> 0] \in Client
  BY <1>1 DEF Client
<1> QED
  BY <1>1, <1>2 DEF SessionInit, SessionTypeOK

\* What is written of a part of an answer is a PDU.
LEMMA WrittenTyped ==
    ASSUME SessionTypeOK, CacheSafe, NEW h \in Part
    PROVE  Written(h) \in PDU
<1>1. maxSerial \in 0 .. UINT32_MAX
  BY RtrCacheAssumption, SMT DEF CacheSafe, CacheInv, NumbersOK
<1>2. sessionID \in SessionIDs
  BY DEF SessionTypeOK
<1>3. CASE h.type = "response"
  BY <1>2, <1>3 DEF Written, PDU
<1>4. CASE h.type = "end"
  BY <1>1, <1>2, <1>4 DEF Written, PDU
<1>5. CASE h.type # "response" /\ h.type # "end"
  BY <1>5 DEF Written, PDU, Part
<1> QED
  BY <1>3, <1>4, <1>5

\* Every step keeps them.
LEMMA TypesStep ==
    ASSUME SessionTypeOK, CacheSafe, [SessionNext]_vars
    PROVE  SessionTypeOK'
<1> USE DEF Disturb, Command
<1>1. CASE Change
  BY <1>1 DEF Change, SessionTypeOK, netVars, rtrVars, otherVars
<1>2. CASE Timer
  <2>1. pdus' \in [Routers -> Seq(PDU)]
    <3>1. CASE notify
      BY <1>2, <3>1, ToAllTyped, NotifyTyped DEF Timer, SessionTypeOK
    <3>2. CASE ~notify
      BY <1>2, <3>2 DEF Timer, SessionTypeOK
    <3> QED
      BY <3>1, <3>2
  <2> QED
    BY <1>2, <2>1 DEF Timer, SessionTypeOK, rtrVars, otherVars
<1>3. CASE NotifyNow
  <2>1. pdus' \in [Routers -> Seq(PDU)]
    BY <1>3, ToAllTyped, NotifyTyped DEF NotifyNow, SessionTypeOK
  <2> QED
    BY <1>3, <2>1 DEF NotifyNow, SessionTypeOK, rtrVars
<1>4. ASSUME NEW sid \in SessionIDs, NewSession(sid) PROVE SessionTypeOK'
  <2>1. pdus' \in [Routers -> Seq(PDU)]
    BY <1>4, ToAllTyped, NotifyTyped DEF NewSession
  <2> QED
    BY <1>4, <2>1 DEF NewSession, SessionTypeOK, rtrVars
<1>5. ASSUME NEW sid \in SessionIDs, Restart(sid) PROVE SessionTypeOK'
  <2>1. /\ <<>> \in Seq(PDU) /\ <<>> \in Seq(Part) /\ <<>> \in Seq(Query)
        /\ Len(<<>>) <= MaxQueries
    BY SessionAssumption
  <2>2. /\ stuck' = FALSE /\ ahead' = ahead
        /\ sessionID' = sid /\ notify' = FALSE /\ conn' = {} /\ restarted' \in BOOLEAN
        /\ queries' = [c \in Routers |-> <<>>] /\ sending' = [c \in Routers |-> <<>>]
        /\ \E some \in SUBSET Routers : pdus' = [c \in Routers |-> IF c \in some THEN pdus[c] ELSE <<>>]
        /\ UNCHANGED rtrVars
    BY <1>5 DEF Restart, SessionTypeOK
  <2>3. pdus' \in [Routers -> Seq(PDU)]
    BY <2>1, <2>2 DEF SessionTypeOK
  <2> QED
    BY <2>1, <2>2, <2>3 DEF SessionTypeOK, rtrVars
<1>6. ASSUME NEW c \in Routers, HandleQuery(c) PROVE SessionTypeOK'
  <2> DEFINE q == Head(queries[c])
             answer == IF q.type = "reset" THEN Answer(TRUE, 0)
                       ELSE IF q.sid # sessionID THEN <<>>
                       ELSE IF checkSerial(minPSExpired, maxSExpired, q.serial)
                            THEN <<[type |-> "reset"]>>
                       ELSE Answer(FALSE, q.serial)
  <2>1. answer \in Seq(Part)
    <3>1. Answer(TRUE, 0) \in Seq(Part) /\ Answer(FALSE, q.serial) \in Seq(Part)
      BY AnswerFacts DEF CacheSafe
    <3>2. [type |-> "reset"] \in Part
      BY DEF Part
    <3>3. <<[type |-> "reset"]>> \in Seq(Part) /\ <<>> \in Seq(Part)
      BY <3>2
    <3> QED
      BY <3>1, <3>3
  <2>2. /\ queries[c] # <<>>
        /\ sending' = [sending EXCEPT ![c] = answer]
        /\ queries' = [queries EXCEPT ![c] = Tail(queries[c])]
        /\ notify' = FALSE
        /\ UNCHANGED <<sessionID, conn, pdus, rtrVars, otherVars>>
    BY <1>6 DEF HandleQuery
  <2> HIDE DEF answer
  <2>3. Tail(queries[c]) \in Seq(Query) /\ Len(Tail(queries[c])) <= MaxQueries
    <3>1. queries[c] \in Seq(Query) /\ Len(queries[c]) <= MaxQueries
      BY DEF SessionTypeOK
    <3> QED
      BY <2>2, <3>1, HeadTailProperties, LenProperties, SessionAssumption
  <2> QED
    BY <2>1, <2>2, <2>3 DEF SessionTypeOK, rtrVars, otherVars
<1>7. ASSUME NEW c \in Routers, Send(c) PROVE SessionTypeOK'
  <2> DEFINE p == Written(Head(sending[c]))
  <2>1. Head(sending[c]) \in Part /\ Tail(sending[c]) \in Seq(Part)
    BY <1>7, HeadTailProperties DEF Send, SessionTypeOK
  <2>2. p \in PDU
    BY <2>1, WrittenTyped
  <2>3. Append(pdus[c], p) \in Seq(PDU)
    BY <2>2, AppendProperties DEF SessionTypeOK
  <2>4. /\ pdus' = [pdus EXCEPT ![c] = IF c \in conn THEN Append(pdus[c], p) ELSE pdus[c]]
        /\ sending' = [sending EXCEPT ![c] = Tail(sending[c])]
        /\ ahead' = ahead \/ ahead' = ahead \cup {c}
    BY <1>7 DEF Send
  <2> HIDE DEF p
  <2>5. pdus' \in [Routers -> Seq(PDU)] /\ sending' \in [Routers -> Seq(Part)]
    BY <2>1, <2>3, <2>4 DEF SessionTypeOK
  <2>6. ahead' \subseteq Routers
    BY <2>4 DEF SessionTypeOK
  <2> QED
    BY <1>7, <2>5, <2>6 DEF Send, SessionTypeOK, rtrVars
<1>8. ASSUME NEW c \in Routers, Lose(c) PROVE SessionTypeOK'
  <2>1. <<>> \in Seq(Part) /\ <<>> \in Seq(Query) /\ Len(<<>>) <= MaxQueries
    BY SessionAssumption
  <2>2. PICK n \in 0 .. Len(pdus[c]) : pdus' = [pdus EXCEPT ![c] = SubSeq(pdus[c], 1, n)]
    BY <1>8 DEF Lose
  <2>3. SubSeq(pdus[c], 1, n) \in Seq(PDU)
    <3>1. pdus[c] \in Seq(PDU)
      BY DEF SessionTypeOK
    <3>2. Len(pdus[c]) \in Nat /\ \A i \in 1 .. n : pdus[c][i] \in PDU
      BY <3>1, LenProperties, ElementOfSeq
    <3> QED
      BY <3>2, SubSeqProperties
  <2>4. pdus' \in [Routers -> Seq(PDU)]
    BY <2>2, <2>3 DEF SessionTypeOK
  <2> QED
    BY <1>8, <2>1, <2>4 DEF Lose, SessionTypeOK, rtrVars
<1>9. ASSUME NEW c \in Routers, Start(c) PROVE SessionTypeOK'
  <2>1. CASE Ask(c, "reset", client[c]) /\ at' = [at EXCEPT ![c] = "first"]
             /\ UNCHANGED <<cacheVars, sessionID, notify, conn, sending, pdus, client, held, otherVars>>
    <3>1. /\ queries' \in [Routers -> Seq(Query)]
          /\ \A d \in Routers : Len(queries'[d]) <= MaxQueries
          /\ repeated' \subseteq Routers
      <4>1. client[c] \in Client
        BY DEF SessionTypeOK
      <4> QED
        BY <2>1, <4>1, AskTyped
    <3> QED
      BY <2>1, <3>1 DEF SessionTypeOK, otherVars
  <2>2. CASE Goes(c, "start", "lost") /\ UNCHANGED <<client, repeated>>
    BY <2>2 DEF Goes, SessionTypeOK, netVars, otherVars
  <2> QED
    BY <1>9, <2>1, <2>2 DEF Start
<1>10. ASSUME NEW c \in Routers, First(c) PROVE SessionTypeOK'
  <2>1. \A type : Decided(type) \in Places
    BY DEF Decided, Places
  <2>2. CASE \E next \in Places : Receive(c, next, next, next)
    BY <2>2, ReceiveTyped
  <2>3. CASE Goes(c, "first", Decided(client[c].lastRecv)) /\ UNCHANGED <<client, repeated>>
    <3>1. at' \in [Routers -> Places]
      BY <2>1, <2>3 DEF Goes, SessionTypeOK, Places
    <3> QED
      BY <2>3, <3>1 DEF Goes, SessionTypeOK, netVars, otherVars, Places
  <2> QED
    BY <1>10, <2>1, <2>2, <2>3 DEF First
<1>11. ASSUME NEW c \in Routers, Loop(c) PROVE SessionTypeOK'
  <2>1. {"receive", "lost"} \subseteq Places
    BY DEF Places
  <2>2. CASE Goes(c, "receive", "lost") /\ UNCHANGED <<client, repeated>>
    BY <2>2 DEF Goes, SessionTypeOK, netVars, otherVars
  <2> QED
    BY <1>11, <2>1, <2>2, ReceiveTyped DEF Loop
<1>12. ASSUME NEW c \in Routers, Reload(c) PROVE SessionTypeOK'
  <2>1. {"reload", "start"} \subseteq Places
    BY DEF Places
  <2>2. CASE Goes(c, "reload", "start") /\ UNCHANGED <<client, repeated>>
    BY <2>2 DEF Goes, SessionTypeOK, netVars, otherVars
  <2> QED
    BY <1>12, <2>1, <2>2, ReceiveTyped DEF Reload
<1>13. ASSUME NEW c \in Routers, Reconnect(c) PROVE SessionTypeOK'
  <2> DEFINE q == [type |-> "reset", sid |-> client[c].sid, serial |-> client[c].serial]
  <2>1. client[c] \in Client /\ q \in Query
    BY DEF SessionTypeOK, Client, Query
  <2>2. /\ <<>> \in Seq(PDU) /\ <<>> \in Seq(Part) /\ <<>> \in Seq(Query) /\ Len(<<>>) <= MaxQueries
        /\ <<q>> \in Seq(Query) /\ Len(<<q>>) <= MaxQueries
    <3> HIDE DEF q
    <3> QED
      BY <2>1, SessionAssumption
  <2>3. [client[c] EXCEPT !.startup = @ \/ client[c].changed] \in Client
    BY <2>1 DEF Client
  <2>4. client' = [client EXCEPT ![c] = [client[c] EXCEPT !.startup = @ \/ client[c].changed]]
    BY <1>13 DEF Reconnect, SessionTypeOK
  <2>5. client' \in [Routers -> Client]
    BY <2>3, <2>4 DEF SessionTypeOK
  <2>6. queries' = [queries EXCEPT ![c] = IF client[c].changed THEN <<q>> ELSE <<>>]
    BY <1>13 DEF Reconnect
  <2>7. /\ queries' \in [Routers -> Seq(Query)]
        /\ \A d \in Routers : Len(queries'[d]) <= MaxQueries
    <3> HIDE DEF q
    <3> QED
      BY <2>2, <2>6 DEF SessionTypeOK
  <2>8. /\ conn' = conn \cup {c} /\ repeated' \subseteq Routers
        /\ sending' = [sending EXCEPT ![c] = <<>>] /\ pdus' = [pdus EXCEPT ![c] = <<>>]
        /\ at' = [at EXCEPT ![c] = IF client[c].changed THEN "reload" ELSE "start"]
        /\ UNCHANGED <<sessionID, notify, held, restarted, stuck, ahead>>
    BY <1>13 DEF Reconnect, SessionTypeOK, otherVars
  <2> HIDE DEF q
  <2> QED
    BY <2>2, <2>5, <2>7, <2>8 DEF SessionTypeOK
<1>14. CASE UNCHANGED vars
  BY <1>14 DEF vars, netVars, rtrVars, otherVars, SessionTypeOK
<1>15. CASE Alarm
  BY <1>15 DEF Alarm, SessionTypeOK, netVars, rtrVars
<1> QED
  BY <1>1, <1>2, <1>3, <1>4, <1>5, <1>6, <1>7, <1>8, <1>9, <1>10, <1>11, <1>12, <1>13, <1>14, <1>15
     DEF SessionNext, Operator, Router, Serve

-----------------------------------------------------------------------------
(* What a step leaves alone.                                               *)

\* Nothing of router d is touched.
Untouched(d) ==
    /\ pdus'[d] = pdus[d] /\ sending'[d] = sending[d] /\ queries'[d] = queries[d]
    /\ client'[d] = client[d] /\ at'[d] = at[d] /\ held'[d] = held[d]
    /\ d \in conn' <=> d \in conn
    /\ d \in repeated' <=> d \in repeated
    /\ d \in ahead' <=> d \in ahead

\* A PDU concerns the router that reads it.
LEMMA ReceiveOfOne ==
    ASSUME SessionTypeOK, NEW c \in Routers, NEW go, NEW halt, NEW onEnd,
           Receive(c, go, halt, onEnd), NEW d \in Routers, d # c
    PROVE  Untouched(d) /\ UNCHANGED <<cacheVars, sessionID>>
<1> DEFINE p == Head(pdus[c])
           k == [client[c] EXCEPT !.lastRecv = p.type]
<1>1. /\ pdus' = [pdus EXCEPT ![c] = Tail(pdus[c])]
      /\ UNCHANGED <<cacheVars, sessionID, notify, conn, sending, otherVars>>
  BY Received
<1>2. held'[d] = held[d]
  <2>1. CASE UNCHANGED held
    BY <2>1
  <2>2. CASE p.roa \in Roas /\ p.ann \in BOOLEAN /\ Hold(c, p)
    BY <2>2 DEF Hold, SessionTypeOK
  <2> QED
    BY <2>1, <2>2, Received
<1>3. queries'[d] = queries[d] /\ (d \in repeated' <=> d \in repeated)
  <2>1. CASE UNCHANGED <<queries, repeated>>
    BY <2>1
  <2>2. ASSUME NEW type, NEW x, Ask(c, type, x)
        PROVE  queries'[d] = queries[d] /\ (d \in repeated' <=> d \in repeated)
    BY <2>2 DEF Ask, SessionTypeOK
  <2>3. \/ UNCHANGED <<queries, repeated>> \/ Ask(c, "reset", k)
        \/ Ask(c, "serial", Checked(k, p.sid))
    BY Received
  <2> QED
    BY <2>1, <2>2, <2>3
<1>4. client'[d] = client[d]
  <2>1. \E x : client' = [client EXCEPT ![c] = x]
    <3> DEFINE x == Checked(k, p.sid)
    <3>1. \/ client' = [client EXCEPT ![c] = k] \/ client' = [client EXCEPT ![c] = x]
          \/ client' = [client EXCEPT ![c] = [x EXCEPT !.serial = p.serial]]
      BY Received
    <3> HIDE DEF x, k, p
    <3> QED
      BY <3>1
  <2> QED
    BY <2>1 DEF SessionTypeOK
<1>5. at'[d] = at[d]
  <2>1. \E x : at' = [at EXCEPT ![c] = x]
    <3> DEFINE else == IF SameSession(k, p.sid) THEN go ELSE IF HasCallback THEN halt ELSE "crashed"
    <3>1. \/ at' = [at EXCEPT ![c] = go] \/ at' = [at EXCEPT ![c] = halt]
          \/ at' = [at EXCEPT ![c] = onEnd] \/ at' = [at EXCEPT ![c] = else]
      BY Received
    <3> HIDE DEF else
    <3> QED
      BY <3>1
  <2> QED
    BY <2>1 DEF SessionTypeOK
<1> QED
  BY <1>1, <1>2, <1>3, <1>4, <1>5 DEF Untouched, SessionTypeOK, otherVars

\* A step of a router, or for it, concerns no other router.
LEMMA StepOfOne ==
    ASSUME SessionTypeOK, NEW c \in Routers, Router(c) \/ Serve(c) \/ Lose(c),
           NEW d \in Routers, d # c
    PROVE  Untouched(d) /\ UNCHANGED <<cacheVars, sessionID>>
<1>1. ASSUME NEW from, NEW to, Goes(c, from, to), UNCHANGED <<client, repeated>>
      PROVE  Untouched(d) /\ UNCHANGED <<cacheVars, sessionID>>
  BY <1>1 DEF Goes, Untouched, SessionTypeOK, netVars, otherVars
<1>2. ASSUME Start(c) PROVE Untouched(d) /\ UNCHANGED <<cacheVars, sessionID>>
  <2>1. CASE Ask(c, "reset", client[c]) /\ at' = [at EXCEPT ![c] = "first"]
             /\ UNCHANGED <<cacheVars, sessionID, notify, conn, sending, pdus, client, held, otherVars>>
    BY <2>1 DEF Ask, Untouched, SessionTypeOK, otherVars
  <2> QED
    BY <1>1, <1>2, <2>1 DEF Start
<1>3. CASE First(c)
  BY <1>1, <1>3, ReceiveOfOne DEF First
<1>4. CASE Loop(c)
  BY <1>1, <1>4, ReceiveOfOne DEF Loop
<1>5. CASE Reload(c)
  BY <1>1, <1>5, ReceiveOfOne DEF Reload
<1>6. CASE Reconnect(c)
  BY <1>6 DEF Reconnect, Untouched, SessionTypeOK, otherVars
<1>7. CASE HandleQuery(c)
  <2>1. /\ \E x : sending' = [sending EXCEPT ![c] = x]
        /\ queries' = [queries EXCEPT ![c] = Tail(queries[c])]
        /\ UNCHANGED <<cacheVars, sessionID, conn, pdus, rtrVars, otherVars>>
    BY <1>7 DEF HandleQuery
  <2> QED
    BY <2>1 DEF Untouched, SessionTypeOK, rtrVars, otherVars
<1>8. CASE Send(c)
  BY <1>8 DEF Send, Untouched, SessionTypeOK, rtrVars
<1>9. CASE Lose(c)
  BY <1>9 DEF Lose, Disturb, Untouched, SessionTypeOK, rtrVars
<1> QED
  BY <1>2, <1>3, <1>4, <1>5, <1>6, <1>7, <1>8, <1>9 DEF Router, Serve

\* The steps of the cache and of its operator but a restart: a notification may
\* be sent to the routers that are connected.
Notified(d) ==
    /\ \/ pdus'[d] = pdus[d]
       \/ d \in conn /\ \E sid \in SessionIDs : pdus'[d] = Append(pdus[d], NotifyPDU(sid))
    /\ sending'[d] = sending[d] /\ queries'[d] = queries[d]
    /\ client'[d] = client[d] /\ at'[d] = at[d] /\ held'[d] = held[d]
    /\ d \in conn' <=> d \in conn
    /\ d \in repeated' <=> d \in repeated
    /\ d \in ahead' <=> d \in ahead
    /\ sending[d] # <<>> => entries' = entries

\* The other steps send a notification at most.
LEMMA StepOfAll ==
    ASSUME SessionTypeOK, NEW d \in Routers,
           \/ Change \/ Timer \/ Alarm \/ NotifyNow
           \/ (\E sid \in SessionIDs : NewSession(sid)) \/ UNCHANGED vars
    PROVE  Notified(d)
<1> USE DEF Disturb, Command
<1>1. ASSUME NEW sid \in SessionIDs, ToAll(NotifyPDU(sid))
      PROVE  \/ pdus'[d] = pdus[d]
             \/ d \in conn /\ \E x \in SessionIDs : pdus'[d] = Append(pdus[d], NotifyPDU(x))
  BY <1>1 DEF ToAll
<1>2. CASE Change
  <2>1. sending[d] # <<>> => entries' = entries
    BY <1>2 DEF Change, appendPrefixData, advanceSerial, Unlocked
  <2> QED
    BY <1>2, <2>1 DEF Change, Notified, netVars, rtrVars, otherVars
<1>3. CASE Timer
  BY <1>1, <1>3 DEF Timer, Unlocked, Notified, rtrVars, otherVars, SessionTypeOK
<1>4. CASE NotifyNow
  BY <1>1, <1>4 DEF NotifyNow, Notified, rtrVars, cacheVars, SessionTypeOK
<1>5. CASE \E sid \in SessionIDs : NewSession(sid)
  BY <1>1, <1>5 DEF NewSession, Notified, rtrVars, cacheVars
<1>6. CASE UNCHANGED vars
  BY <1>6 DEF vars, Notified, netVars, rtrVars, otherVars, cacheVars
<1>7. CASE Alarm
  BY <1>7 DEF Alarm, Notified, netVars, rtrVars, cacheVars
<1> QED
  BY <1>2, <1>3, <1>4, <1>5, <1>6, <1>7

\* The list goes on in every step that is not a restart.
LEMMA CacheInStep ==
    ASSUME ~mishap', CacheSafe, SessionTypeOK, [SessionNext]_vars,
           ~\E sid \in SessionIDs : Restart(sid)
    PROVE  CacheSafe' /\ CacheGoesOn /\ sessionID <= sessionID'
<1>1. sessionID \in Nat
  BY SessionAssumption DEF SessionTypeOK
<1>2. CASE Change \/ Timer
  <2>1. sessionID' = sessionID
    BY <1>2 DEF Change, Timer
  <2> QED
    BY <1>1, <1>2, <2>1, CacheStep
<1>3. ASSUME NEW c \in Routers, Router(c) \/ Serve(c) \/ Lose(c)
      PROVE  UNCHANGED <<cacheVars, sessionID>>
  <2>1. ASSUME NEW from, NEW to, Goes(c, from, to) PROVE UNCHANGED <<cacheVars, sessionID>>
    BY <2>1 DEF Goes
  <2>2. ASSUME NEW go, NEW halt, NEW onEnd, Receive(c, go, halt, onEnd)
        PROVE  UNCHANGED <<cacheVars, sessionID>>
    BY <2>2, Received
  <2>3. CASE First(c) \/ Loop(c) \/ Reload(c)
    BY <2>1, <2>2, <2>3 DEF First, Loop, Reload
  <2>4. CASE Start(c) \/ Reconnect(c)
    BY <2>1, <2>4 DEF Start, Reconnect
  <2>5. CASE Serve(c) \/ Lose(c)
    BY <2>5 DEF Serve, HandleQuery, Send, Lose
  <2> QED
    BY <1>3, <2>3, <2>4, <2>5 DEF Router
<1>4. CASE NotifyNow \/ (\E sid \in SessionIDs : NewSession(sid)) \/ Alarm \/ UNCHANGED vars
  <2>1. UNCHANGED cacheVars
    BY <1>4 DEF NotifyNow, NewSession, Alarm, vars
  <2>2. sessionID <= sessionID'
    <3>1. ASSUME NEW sid \in SessionIDs, NewSession(sid) PROVE sessionID <= sessionID'
      BY <1>1, <3>1, SessionAssumption DEF NewSession
    <3> QED
      BY <1>1, <1>4, <3>1 DEF NotifyNow, Alarm, vars
  <2> QED
    BY <2>1, <2>2, CacheStep
<1>5. CASE \E c \in Routers : Router(c) \/ Serve(c) \/ Lose(c)
  <2>1. UNCHANGED <<cacheVars, sessionID>>
    BY <1>3, <1>5
  <2> QED
    BY <1>1, <2>1, CacheStep
<1> QED
  BY <1>2, <1>4, <1>5 DEF SessionNext, Operator

-----------------------------------------------------------------------------
(* Nothing is lacking while the cache is not started anew.                 *)

\* The router holds r once it has processed what is on the way to it.
Sure(c, r) ==
    \/ EndsHeld(sending[c], r)
    \/ /\ ~HasW(sending[c], r)
       /\ EndsHeld(pdus[c], r) \/ (~HasW(pdus[c], r) /\ held[c][r] > 0)

\* Then it holds all that is announced and was so under serial s.
Knows(c, s) == \A e \in entries : e.ann /\ e.serial <= s => Sure(c, e.roa)

\* Or all that is announced, also under a serial that is not in use yet.
KnowsAll(c) == \A e \in entries : e.ann => Sure(c, e.roa)

\* A Reset Query is handled before the query at place i.
ResetBefore(q, i) == \E j \in 1 .. Len(q) : j < i /\ q[j].type = "reset"

\* Whoever gives the router a serial, or asks for what changed since, knows it.
EndsKnown(c) ==
    /\ \A p \in Ends(pdus[c]) : p.serial <= maxSerial /\ (c \in conn => Knows(c, p.serial))
    /\ Ends(sending[c]) # {} /\ c \in conn => KnowsAll(c)
QueriesKnown(c) == \A i \in 1 .. Len(queries[c]) : \A s \in {queries[c][i].serial} :
    /\ s <= maxSerial
    /\ c \in conn /\ queries[c][i].type = "serial" => Knows(c, s) \/ ResetBefore(queries[c], i)
ClientKnown(c) == \A s \in {client[c].serial} :
    /\ s <= maxSerial
    /\ c \in conn /\ at[c] \in {"first", "receive", "reload"} =>
          Knows(c, s) \/ ResetBefore(queries[c], Len(queries[c]) + 1)
KnownOK(c) == EndsKnown(c) /\ QueriesKnown(c) /\ ClientKnown(c)

LackInv == restarted \/ \A c \in Routers : KnownOK(c)

\* A step that leaves the router with what it was sure of.
LEMMA KnowsKept ==
    ASSUME CacheSafe, CacheSafe', CacheGoesOn, NEW c \in Routers,
           \A r \in Roas : Sure(c, r) => Sure(c, r)',
           NEW s \in Nat, s <= maxSerial, Knows(c, s)
    PROVE  Knows(c, s)'
<1> SUFFICES ASSUME NEW e \in entries', e.ann, e.serial <= s PROVE Sure(c, e.roa)'
  BY DEF Knows
<1>1. maxSerial \in Nat /\ e.serial \in Nat /\ e.roa \in Roas
  BY DEF CacheSafe, CacheInv, NumbersOK, ListOK
<1>2. e \in entries
  BY <1>1 DEF CacheGoesOn
<1>3. Sure(c, e.roa)
  BY <1>2 DEF Knows
<1> QED
  BY <1>1, <1>3

\* The types of what belongs to one router.
LEMMA Typed ==
    ASSUME SessionTypeOK, NEW c \in Routers
    PROVE  /\ client[c] \in Client /\ client[c].serial \in Nat
           /\ pdus[c] \in Seq(PDU) /\ sending[c] \in Seq(Part) /\ queries[c] \in Seq(Query)
           /\ Len(queries[c]) \in Nat
           /\ \A i \in 1 .. Len(queries[c]) : queries[c][i].serial \in Nat
           /\ \A p \in Ends(pdus[c]) : p.serial \in Nat
<1>1. /\ client[c] \in Client /\ client[c].serial \in Nat
      /\ pdus[c] \in Seq(PDU) /\ sending[c] \in Seq(Part) /\ queries[c] \in Seq(Query)
  BY DEF SessionTypeOK, Client
<1>2. \A i \in 1 .. Len(queries[c]) : queries[c][i].serial \in Nat
  <2> SUFFICES ASSUME NEW i \in 1 .. Len(queries[c]) PROVE queries[c][i].serial \in Nat
    OBVIOUS
  <2>1. queries[c][i] \in Query
    BY <1>1, ElementOfSeq
  <2> QED
    BY <2>1 DEF Query
<1>3. \A q \in Seq(PDU) : \A p \in Ends(q) : p.serial \in Nat
  <2> SUFFICES ASSUME NEW q \in Seq(PDU), NEW p \in Ends(q) PROVE p.serial \in Nat
    OBVIOUS
  <2>1. p \in PDU /\ p.type = "end"
    BY ElementOfSeq DEF Ends, IsEnd
  <2> QED
    BY <2>1 DEF PDU
<1> QED
  BY <1>1, <1>2, <1>3, LenProperties

\* What is written says of a ROA what the part says; an End of Data has the
\* session and the serial of the moment.
LEMMA WrittenFacts ==
    ASSUME NEW h \in Part
    PROVE  /\ IsEnd(Written(h)) <=> IsEnd(h)
           /\ IsData(Written(h)) <=> IsData(h)
           /\ \A r : (IsA(Written(h), r) <=> IsA(h, r)) /\ (IsW(Written(h), r) <=> IsW(h, r))
           /\ IsEnd(h) => Written(h).sid = sessionID /\ Written(h).serial = maxSerial
<1>1. CASE h.type = "response"
  BY <1>1 DEF Written, IsEnd, IsData, IsA, IsW
<1>2. CASE h.type = "end"
  BY <1>2 DEF Written, IsEnd, IsData, IsA, IsW
<1>3. CASE h.type # "response" /\ h.type # "end"
  <2>1. Written(h) = h
    BY <1>3 DEF Written
  <2> QED
    BY <1>3, <2>1 DEF IsEnd
<1> QED
  BY <1>1, <1>2, <1>3

\* A notification does not make a router less sure.
LEMMA SureKept ==
    ASSUME SessionTypeOK, NEW c \in Routers, Notified(c)
    PROVE  /\ \A r \in Roas : Sure(c, r) <=> Sure(c, r)'
           /\ Ends(pdus'[c]) = Ends(pdus[c])
<1>1. CASE pdus'[c] = pdus[c]
  BY <1>1 DEF Notified, Sure
<1>2. ASSUME NEW sid \in SessionIDs, pdus'[c] = Append(pdus[c], NotifyPDU(sid))
      PROVE  /\ \A r \in Roas : Sure(c, r) <=> Sure(c, r)'
             /\ Ends(pdus'[c]) = Ends(pdus[c])
  <2>1. NotifyPDU(sid) \in PDU /\ ~IsEnd(NotifyPDU(sid))
        /\ \A r : ~IsA(NotifyPDU(sid), r) /\ ~IsW(NotifyPDU(sid), r)
    BY NotifyTyped DEF NotifyPDU, IsEnd, IsA, IsW
  <2>2. pdus[c] \in Seq(PDU)
    BY Typed
  <2>3. /\ Ends(pdus'[c]) = Ends(pdus[c])
        /\ \A r : /\ HasW(pdus'[c], r) <=> HasW(pdus[c], r)
                  /\ EndsHeld(pdus'[c], r) <=> EndsHeld(pdus[c], r)
    <3> DEFINE p == NotifyPDU(sid)
    <3> HIDE DEF p
    <3>1. /\ Ends(Append(pdus[c], p)) = Ends(pdus[c]) \cup (IF IsEnd(p) THEN {p} ELSE {})
          /\ \A r : /\ HasW(Append(pdus[c], p), r) <=> HasW(pdus[c], r) \/ IsW(p, r)
                    /\ EndsHeld(Append(pdus[c], p), r) <=> IsA(p, r) \/ (EndsHeld(pdus[c], r) /\ ~IsW(p, r))
      BY <2>1, <2>2, PushFacts DEF p
    <3>2. ~IsEnd(p) /\ (\A r : ~IsA(p, r) /\ ~IsW(p, r)) /\ pdus'[c] = Append(pdus[c], p)
      BY <1>2, <2>1 DEF p
    <3> QED
      BY <3>1, <3>2, Zenon
  <2> QED
    BY <2>3 DEF Notified, Sure
<1> QED
  BY <1>1, <1>2 DEF Notified

\* A router nothing is done to is not sent anything either.
LEMMA UntouchedNotified ==
    ASSUME NEW c \in Routers, Untouched(c), UNCHANGED cacheVars
    PROVE  Notified(c)
BY DEF Untouched, Notified, cacheVars

\* A router that a step at most sends a notification knows what it knew.
LEMMA KnownByOthers ==
    ASSUME SessionTypeOK, CacheSafe, CacheSafe', CacheGoesOn,
           NEW c \in Routers, Notified(c), KnownOK(c)
    PROVE  KnownOK(c)'
<1>1. maxSerial \in Nat /\ maxSerial' \in Nat /\ maxSerial <= maxSerial'
  BY DEF CacheSafe, CacheInv, NumbersOK, CacheGoesOn
<1>2. \A s \in Nat : s <= maxSerial => s <= maxSerial' /\ (Knows(c, s) => Knows(c, s)')
  BY <1>1, KnowsKept, SureKept
<1>3. EndsKnown(c)'
  <2>1. Ends(pdus'[c]) = Ends(pdus[c]) /\ \A r \in Roas : Sure(c, r) => Sure(c, r)'
    BY SureKept
  <2>2. \A p \in Ends(pdus'[c]) : p.serial <= maxSerial' /\ (c \in conn' => Knows(c, p.serial)')
    BY <1>2, <2>1, Typed DEF KnownOK, EndsKnown, Notified
  <2>3. Ends(sending'[c]) # {} /\ c \in conn' => KnowsAll(c)'
    <3> SUFFICES ASSUME Ends(sending[c]) # {}, c \in conn PROVE KnowsAll(c)'
      BY DEF Notified
    <3>1. entries' = entries
      BY EmptyFacts DEF Notified
    <3>2. \A e \in entries : e.roa \in Roas
      BY DEF CacheSafe, CacheInv, ListOK
    <3> QED
      BY <2>1, <3>1, <3>2 DEF KnownOK, EndsKnown, KnowsAll
  <2> QED
    BY <2>2, <2>3 DEF EndsKnown
<1>4. QueriesKnown(c)'
  BY <1>2, Typed DEF KnownOK, QueriesKnown, ResetBefore, Notified
<1>5. ClientKnown(c)'
  BY <1>2, Typed DEF KnownOK, ClientKnown, ResetBefore, Notified
<1> QED
  BY <1>3, <1>4, <1>5 DEF KnownOK

\* A PDU of an answer is sent.
LEMMA KnownSend ==
    ASSUME SessionTypeOK, CacheSafe, NEW c \in Routers, KnownOK(c), Send(c)
    PROVE  KnownOK(c)'
<1> DEFINE h == Head(sending[c])
           t == Tail(sending[c])
           w == Written(h)
<1>1. /\ sending[c] # <<>> /\ sending'[c] = t
      /\ pdus'[c] = IF c \in conn THEN Append(pdus[c], w) ELSE pdus[c]
      /\ UNCHANGED <<entries, maxSerial, conn, queries, at, client, held>>
  BY DEF Send, SessionTypeOK, cacheVars, rtrVars
<1>2. /\ h \in Part /\ t \in Seq(Part) /\ w \in PDU
      /\ pdus[c] \in Seq(PDU) /\ sending[c] \in Seq(Part)
  BY <1>1, HeadTail, Typed, WrittenTyped
<1>3. /\ IsEnd(w) <=> IsEnd(h)
      /\ \A r : (IsA(w, r) <=> IsA(h, r)) /\ (IsW(w, r) <=> IsW(h, r))
      /\ IsEnd(h) => w.serial = maxSerial
  BY <1>2, WrittenFacts
<1>4. /\ Ends(sending[c]) = Ends(t) \cup (IF IsEnd(h) THEN {h} ELSE {})
      /\ Ends(Append(pdus[c], w)) = Ends(pdus[c]) \cup (IF IsEnd(w) THEN {w} ELSE {})
      /\ \A r : /\ HasW(sending[c], r) <=> IsW(h, r) \/ HasW(t, r)
                /\ EndsHeld(sending[c], r) <=> EndsHeld(t, r) \/ (IsA(h, r) /\ ~HasW(t, r))
                /\ HasW(Append(pdus[c], w), r) <=> HasW(pdus[c], r) \/ IsW(w, r)
                /\ EndsHeld(Append(pdus[c], w), r) <=>
                      IsA(w, r) \/ (EndsHeld(pdus[c], r) /\ ~IsW(w, r))
  <2>1. w \in PDU /\ pdus[c] \in Seq(PDU)
    BY <1>2
  <2> HIDE DEF w
  <2> QED
    BY <1>1, <1>2, <2>1, PopFacts, PushFacts
<1> HIDE DEF h, t, w
<1>5. ASSUME c \in conn, NEW r, Sure(c, r) PROVE Sure(c, r)'
  BY <1>1, <1>3, <1>4, <1>5 DEF Sure
<1>6. /\ \A s \in Nat : c \in conn /\ Knows(c, s) => Knows(c, s)'
      /\ c \in conn /\ KnowsAll(c) => KnowsAll(c)'
      /\ \A s \in Nat : c \in conn /\ KnowsAll(c) => Knows(c, s)'
  BY <1>1, <1>5 DEF Knows, KnowsAll
<1>7. EndsKnown(c)'
  <2>1. ASSUME NEW p \in Ends(pdus'[c])
        PROVE  p.serial <= maxSerial /\ (c \in conn => Knows(c, p.serial)')
    <3>1. CASE p \in Ends(pdus[c])
      <4>1. /\ p.serial \in Nat /\ p.serial <= maxSerial
            /\ c \in conn => Knows(c, p.serial)
        BY <3>1, Typed DEF KnownOK, EndsKnown
      <4> QED
        BY <4>1, <1>6
    <3>2. CASE p = w /\ IsEnd(h) /\ c \in conn
      <4>1. p.serial = maxSerial /\ maxSerial \in Nat
        BY <1>3, <3>2 DEF CacheSafe, CacheInv, NumbersOK
      <4>2. KnowsAll(c)
        BY <1>4, <3>2 DEF KnownOK, EndsKnown
      <4> QED
        BY <4>1, <4>2, <3>2, <1>6, SMT
    <3> QED
      BY <1>1, <1>3, <1>4, <2>1, <3>1, <3>2
  <2>2. Ends(sending'[c]) # {} /\ c \in conn => KnowsAll(c)'
    BY <1>1, <1>4, <1>6 DEF KnownOK, EndsKnown
  <2> QED
    BY <1>1, <2>1, <2>2 DEF EndsKnown
<1>8. QueriesKnown(c)'
  BY <1>1, <1>6, Typed DEF KnownOK, QueriesKnown, ResetBefore
<1>9. ClientKnown(c)'
  BY <1>1, <1>6, Typed DEF KnownOK, ClientKnown, ResetBefore
<1> QED
  BY <1>7, <1>8, <1>9 DEF KnownOK

\* The connection breaks: nothing is claimed of a router without one.
LEMMA KnownLose ==
    ASSUME SessionTypeOK, CacheSafe, NEW c \in Routers, KnownOK(c), Lose(c)
    PROVE  KnownOK(c)'
<1>1. /\ c \notin conn' /\ queries'[c] = <<>> /\ sending'[c] = <<>>
      /\ \E n \in 0 .. Len(pdus[c]) : pdus'[c] = SubSeq(pdus[c], 1, n)
      /\ UNCHANGED <<entries, maxSerial, at, client, held>>
  BY DEF Lose, SessionTypeOK, cacheVars, rtrVars
<1>2. PICK n \in 0 .. Len(pdus[c]) : pdus'[c] = SubSeq(pdus[c], 1, n)
  BY <1>1
<1>3. Ends(pdus'[c]) \subseteq Ends(pdus[c])
  <2>1. pdus[c] \in Seq(PDU) /\ Len(pdus[c]) \in Nat
    BY Typed, LenProperties
  <2>2. /\ Len(SubSeq(pdus[c], 1, n)) = n
        /\ \A i \in 1 .. n : SubSeq(pdus[c], 1, n)[i] = pdus[c][i] /\ i \in 1 .. Len(pdus[c])
    <3>1. \A i \in 1 .. n : pdus[c][i] \in PDU
      BY <2>1, ElementOfSeq
    <3> QED
      BY <2>1, <3>1, SubSeqProperties
  <2> QED
    BY <1>2, <2>2 DEF Ends
<1>4. Ends(sending'[c]) = {}
  BY <1>1, EmptyFacts
<1>5. EndsKnown(c)'
  BY <1>1, <1>3, <1>4 DEF KnownOK, EndsKnown
<1>6. QueriesKnown(c)' /\ ClientKnown(c)'
  BY <1>1 DEF KnownOK, QueriesKnown, ClientKnown
<1> QED
  BY <1>5, <1>6 DEF KnownOK

\* A query is handled.
LEMMA KnownHandle ==
    ASSUME SessionTypeOK, CacheSafe, NEW c \in Routers, KnownOK(c), HandleQuery(c)
    PROVE  KnownOK(c)'
<1> DEFINE q == Head(queries[c])
           Q == queries[c]
<1>1. /\ Q # <<>> /\ sending[c] = <<>> /\ queries'[c] = Tail(Q)
      /\ UNCHANGED <<entries, maxSerial, conn, pdus, at, client, held>>
  BY DEF HandleQuery, SessionTypeOK, cacheVars, rtrVars
<1>2. sending'[c] = IF q.type = "reset" THEN Answer(TRUE, 0)
                    ELSE IF q.sid # sessionID THEN <<>>
                    ELSE IF checkSerial(minPSExpired, maxSExpired, q.serial)
                         THEN <<[type |-> "reset"]>>
                    ELSE Answer(FALSE, q.serial)
  BY DEF HandleQuery, SessionTypeOK
<1>3. /\ Q \in Seq(Query) /\ q = Q[1] /\ q \in Query /\ Len(Q) \in Nat /\ Len(Q) >= 1
      /\ Len(Tail(Q)) = Len(Q) - 1 /\ \A i \in 1 .. Len(Tail(Q)) : Tail(Q)[i] = Q[i + 1]
  BY <1>1, Typed, HeadTailProperties, HeadTail, LenProperties, EmptySeq
<1>4. /\ maxSerial \in Nat /\ CacheInv /\ sessionID \in SessionIDs
      /\ \A e \in entries : e.pos \in Nat /\ e.serial \in Nat /\ e.roa \in Roas /\ (e.ann => e.serial = e.prev)
  BY DEF CacheSafe, CacheInv, NumbersOK, ListOK, SessionTypeOK
<1> HIDE DEF q, Q
\* An answer tells the router everything.
<1>5. ASSUME NEW isReset \in BOOLEAN, NEW serial \in Nat, sending'[c] = Answer(isReset, serial),
             isReset \/ Knows(c, serial)
      PROVE  KnowsAll(c)'
  <2> DEFINE O == Objects(isReset, serial)
  <2>1. \A r \in Roas :
           /\ HasW(sending'[c], r) <=> \E e \in O : ~e.ann /\ e.roa = r
           /\ \A e \in O :
                e.ann /\ e.roa = r /\ (\A d \in O : ~d.ann /\ d.roa = r => d.pos < e.pos)
                  => EndsHeld(sending'[c], r)
    BY <1>4, <1>5, AnswerFacts
  <2> SUFFICES ASSUME NEW e \in entries, e.ann PROVE Sure(c, e.roa)'
    BY <1>1 DEF KnowsAll
  <2>2. e.pos \in Nat /\ e.serial \in Nat /\ e.roa \in Roas /\ e.serial = e.prev
    BY <1>4
  <2>3. CASE isReset \/ e.serial > serial
    <3>1. e \in O
      BY <2>2, <2>3 DEF Objects
    <3>2. \A d \in O : ~d.ann /\ d.roa = e.roa => d.pos < e.pos
      BY DEF Objects, CacheSafe, ListInv, WithdrawnFirst
    <3>3. EndsHeld(sending'[c], e.roa)
      BY <2>1, <2>2, <3>1, <3>2
    <3> QED
      BY <3>3 DEF Sure
  <2>4. CASE ~isReset /\ e.serial <= serial
    <3>1. Sure(c, e.roa)
      BY <1>5, <2>4 DEF Knows
    <3>2. ~EndsHeld(sending[c], e.roa)
      BY <1>1, EmptyFacts
    <3>3. ~HasW(sending'[c], e.roa)
      <4>1. ASSUME NEW d \in O, ~d.ann, d.roa = e.roa PROVE FALSE
        <5>1. d \in entries /\ d.pos \in Nat /\ d.serial \in Nat
          BY <1>4 DEF Objects
        <5>2. PICK x \in entries : x.pos <= d.pos /\ x.serial > serial
          BY <2>4 DEF Objects
        <5>3. x.pos \in Nat /\ x.serial \in Nat
          BY <1>4
        <5>4. x.serial <= d.serial
          <6>1. CASE x.pos = d.pos
            BY <5>1, <5>3, <6>1, <1>4 DEF CacheInv, Sorted
          <6>2. CASE x.pos < d.pos
            <7>1. x.serial < d.serial
              BY <5>1, <6>2, <1>4 DEF CacheInv, Sorted
            <7> QED
              BY <7>1, <5>1, <5>3
          <6> QED
            BY <5>1, <5>2, <5>3, <6>1, <6>2
        <5>5. d.pos < e.pos
          BY <4>1, <5>1 DEF CacheSafe, ListInv, WithdrawnFirst
        <5>6. d.serial < e.serial
          BY <5>1, <5>5, <1>4 DEF CacheInv, Sorted
        <5> QED
          BY <5>1, <5>2, <5>3, <5>4, <5>6, <2>2, <2>4
      <4> QED
        BY <4>1, <2>1, <2>2
    <3> QED
      BY <3>1, <3>2, <3>3, <1>1 DEF Sure
  <2> QED
    BY <2>2, <2>3, <2>4
<1>6. CASE q.type = "reset" \/ (q.type = "serial" /\ sending'[c] = Answer(FALSE, q.serial))
  <2>0. c \in conn => KnowsAll(c)'
    <3>1. CASE q.type = "reset"
      BY <1>2, <1>5, <3>1
    <3>2. CASE q.type = "serial" /\ sending'[c] = Answer(FALSE, q.serial)
      <4>1. q.serial \in Nat
        BY <1>3 DEF Query
      <4>2. ~ResetBefore(Q, 1)
        BY <1>3 DEF ResetBefore
      <4>3. c \in conn => Knows(c, q.serial)
        <5>1. 1 \in 1 .. Len(Q)
          BY <1>3
        <5> QED
          BY <5>1, <1>3, <3>2, <4>2 DEF KnownOK, QueriesKnown, Q
      <4> QED
        BY <1>5, <3>2, <4>1, <4>3
    <3> QED
      BY <1>6, <3>1, <3>2
  <2>1. c \in conn => \A s \in Nat : Knows(c, s)'
    BY <2>0 DEF Knows, KnowsAll
  <2>3. EndsKnown(c)'
    <3>1. \A p \in Ends(pdus[c]) : p.serial <= maxSerial /\ p.serial \in Nat
      BY Typed DEF KnownOK, EndsKnown
    <3> QED
      BY <1>1, <2>0, <2>1, <3>1 DEF EndsKnown
  <2>4. QueriesKnown(c)'
    <3> SUFFICES ASSUME NEW i \in 1 .. Len(Tail(Q))
                 PROVE  /\ Tail(Q)[i].serial <= maxSerial
                        /\ c \in conn => \A s \in {Tail(Q)[i].serial} : Knows(c, s)'
      BY <1>1 DEF QueriesKnown
    <3>1. i + 1 \in 1 .. Len(Q) /\ Tail(Q)[i] = Q[i + 1]
      BY <1>3
    <3>2. Q[i + 1].serial \in Nat /\ Q[i + 1].serial <= maxSerial
      BY <3>1, Typed DEF Q, KnownOK, QueriesKnown
    <3> QED
      BY <2>1, <3>1, <3>2
  <2>5. ClientKnown(c)'
    BY <1>1, <2>1, Typed DEF KnownOK, ClientKnown
  <2> QED
    BY <2>3, <2>4, <2>5 DEF KnownOK
<1>7. CASE q.type = "serial" /\ sending'[c] \in {<<>>, <<[type |-> "reset"]>>}
  <2>1. Ends(sending'[c]) = {} /\ \A r : ~HasW(sending'[c], r) /\ ~EndsHeld(sending'[c], r)
    <3> DEFINE z == [type |-> "reset"]
    <3>1. <<>> \in Seq(Part) /\ z \in Part /\ <<z>> = Append(<<>>, z)
      BY DEF Part
    <3>2. ~IsEnd(z) /\ \A r : ~IsA(z, r) /\ ~IsW(z, r)
      BY DEF IsEnd, IsA, IsW
    <3> HIDE DEF z
    <3>3. Ends(<<z>>) = {} /\ \A r : ~HasW(<<z>>, r) /\ ~EndsHeld(<<z>>, r)
      <4>1. /\ Ends(Append(<<>>, z)) = Ends(<<>>) \cup (IF IsEnd(z) THEN {z} ELSE {})
            /\ \A r : /\ HasW(Append(<<>>, z), r) <=> HasW(<<>>, r) \/ IsW(z, r)
                      /\ EndsHeld(Append(<<>>, z), r) <=>
                            IsA(z, r) \/ (EndsHeld(<<>>, r) /\ ~IsW(z, r))
        BY <3>1, PushFacts
      <4> QED
        BY <3>1, <3>2, <4>1, EmptyFacts
    <3> QED
      BY <1>7, <3>3, EmptyFacts DEF z
  <2>2. \A r : Sure(c, r) => Sure(c, r)'
    BY <1>1, <2>1, EmptyFacts DEF Sure
  <2>3. \A s \in Nat : Knows(c, s) => Knows(c, s)'
    BY <1>1, <2>2 DEF Knows
  <2>4. EndsKnown(c)'
    BY <1>1, <2>1, <2>3, Typed DEF KnownOK, EndsKnown
  <2>5. \A i \in 1 .. Len(Q) : ResetBefore(Q, i + 1) => ResetBefore(Tail(Q), i)
    <3> SUFFICES ASSUME NEW i \in 1 .. Len(Q), ResetBefore(Q, i + 1) PROVE ResetBefore(Tail(Q), i)
      OBVIOUS
    <3>1. PICK j \in 1 .. Len(Q) : j < i + 1 /\ Q[j].type = "reset"
      BY DEF ResetBefore
    <3>2. j # 1
      BY <1>3, <1>7, <3>1
    <3>3. j - 1 \in 1 .. Len(Tail(Q)) /\ (j - 1) + 1 = j /\ j - 1 < i
      BY <1>3, <3>1, <3>2
    <3>4. Tail(Q)[j - 1] = Q[j]
      BY <1>3, <3>3
    <3> QED
      BY <3>1, <3>3, <3>4 DEF ResetBefore
  <2>6. QueriesKnown(c)'
    <3> SUFFICES ASSUME NEW i \in 1 .. Len(Tail(Q)), NEW s, s = Tail(Q)[i].serial
                 PROVE  /\ s <= maxSerial
                        /\ c \in conn /\ Tail(Q)[i].type = "serial" =>
                             Knows(c, s)' \/ ResetBefore(Tail(Q), i)
      BY <1>1 DEF QueriesKnown
    <3>1. i + 1 \in 1 .. Len(Q) /\ Tail(Q)[i] = Q[i + 1] /\ i \in 1 .. Len(Q)
      BY <1>3
    <3>2. /\ s \in Nat /\ s <= maxSerial
          /\ c \in conn /\ Tail(Q)[i].type = "serial" => Knows(c, s) \/ ResetBefore(Q, i + 1)
      BY <3>1, Typed DEF Q, KnownOK, QueriesKnown
    <3> QED
      BY <2>3, <2>5, <3>1, <3>2
  <2>7. ClientKnown(c)'
    <3>1. ResetBefore(Q, Len(Q) + 1) => ResetBefore(Tail(Q), Len(Tail(Q)) + 1)
      BY <2>5, <1>3
    <3> QED
      BY <1>1, <2>3, <3>1, Typed DEF KnownOK, ClientKnown, Q
  <2> QED
    BY <2>4, <2>6, <2>7 DEF KnownOK
<1>8. q.type \in {"serial", "reset"}
  BY <1>3 DEF Query
<1> QED
  BY <1>2, <1>6, <1>7, <1>8

\* The router reads a PDU.
LEMMA KnownReceive ==
    ASSUME SessionTypeOK, CacheSafe, NEW c \in Routers, KnownOK(c),
           NEW go, NEW halt, NEW onEnd, Receive(c, go, halt, onEnd),
           at[c] \in {"first", "receive", "reload"}
    PROVE  KnownOK(c)'
<1> DEFINE p == Head(pdus[c])
           t == Tail(pdus[c])
           k == [client[c] EXCEPT !.lastRecv = p.type]
           Q == queries[c]
<1>1. /\ pdus[c] # <<>> /\ pdus[c] \in Seq(PDU) /\ p \in PDU /\ t \in Seq(PDU) /\ k \in Client
      /\ pdus'[c] = t
      /\ UNCHANGED <<entries, maxSerial, conn, sending>>
  BY Received, Typed, HeadTail DEF SessionTypeOK, cacheVars
<1>2. k.serial = client[c].serial /\ \A sid : Checked(k, sid).serial = k.serial
  <2>1. k.serial = client[c].serial
    BY Typed DEF Client
  <2>2. \A sid : Checked(k, sid).serial = k.serial
    BY <1>1 DEF Checked, Client
  <2> QED
    BY <2>1, <2>2
<1>3. /\ Ends(pdus[c]) = Ends(t) \cup (IF IsEnd(p) THEN {p} ELSE {})
      /\ \A r : /\ HasA(pdus[c], r) <=> IsA(p, r) \/ HasA(t, r)
                /\ HasW(pdus[c], r) <=> IsW(p, r) \/ HasW(t, r)
                /\ EndsHeld(pdus[c], r) <=> EndsHeld(t, r) \/ (IsA(p, r) /\ ~HasW(t, r))
  BY <1>1, PopFacts

\* What the router was sure of stays so.
<1>4. ASSUME NEW r \in Roas, Sure(c, r) PROVE Sure(c, r)'
  <2>1. /\ IsA(p, r) => held'[c][r] > 0
        /\ ~IsW(p, r) /\ held[c][r] > 0 => held'[c][r] > 0
    <3>1. CASE UNCHANGED held /\ p.type # "prefix"
      BY <3>1 DEF IsA
    <3>2. CASE p.type = "prefix" /\ p.roa \in Roas /\ p.ann \in BOOLEAN /\ Hold(c, p)
      <4>1. /\ \A x \in Roas : x # p.roa => held'[c][x] = held[c][x]
            /\ p.ann => held'[c][p.roa] = held[c][p.roa] + 1
        BY <3>2, HoldTyped
      <4>2. held[c][p.roa] \in Nat
        BY <3>2 DEF SessionTypeOK
      <4> QED
        BY <3>2, <4>1, <4>2 DEF IsA, IsW
    <3> QED
      BY <3>1, <3>2, Received
  <2> QED
    BY <1>1, <1>3, <1>4, <2>1 DEF Sure
<1>5. \A s \in Nat : Knows(c, s) => Knows(c, s)'
  BY <1>1, <1>4 DEF Knows, CacheSafe, CacheInv, ListOK
<1> DEFINE asked(x) == [type |-> x, sid |-> Checked(k, p.sid).sid, serial |-> client[c].serial]
           reset == [type |-> "reset", sid |-> k.sid, serial |-> client[c].serial]

\* At most one query is asked, and its serial is the client's.
<1>6. \/ queries'[c] = Q
      \/ /\ queries'[c] = Append(Q, asked("serial")) /\ asked("serial") \in Query
         /\ client'[c].serial = client[c].serial
      \/ /\ queries'[c] = Append(Q, reset) /\ reset \in Query
         /\ client'[c].serial = client[c].serial
  <2>1. CASE UNCHANGED queries
    BY <2>1
  <2>2. CASE /\ p.sid \in SessionIDs /\ Ask(c, "serial", Checked(k, p.sid))
             /\ client' = [client EXCEPT ![c] = Checked(k, p.sid)]
    <3>1. Checked(k, p.sid) \in Client
      BY <1>1, <2>2, CheckedTyped
    <3>2. queries'[c] = Q \/ queries'[c] = Append(Q, asked("serial"))
      BY <1>2, <2>2 DEF Ask, SessionTypeOK
    <3>3. asked("serial") \in Query
      BY <1>2, <3>1 DEF Query, Client
    <3>4. client'[c].serial = client[c].serial
      BY <1>2, <2>2 DEF SessionTypeOK
    <3> QED
      BY <3>2, <3>3, <3>4
  <2>3. CASE Ask(c, "reset", k) /\ client' = [client EXCEPT ![c] = k]
    <3>1. queries'[c] = Q \/ queries'[c] = Append(Q, reset)
      BY <1>2, <2>3 DEF Ask, SessionTypeOK
    <3>2. reset \in Query
      BY <1>1, <1>2 DEF Query, Client
    <3>3. client'[c].serial = client[c].serial
      BY <1>2, <2>3 DEF SessionTypeOK
    <3> QED
      BY <3>1, <3>2, <3>3
  <2> QED
    BY <2>1, <2>2, <2>3, Received
<1>7. \/ client'[c].serial = client[c].serial
      \/ IsEnd(p) /\ client'[c].serial = p.serial
  <2>1. CASE client' = [client EXCEPT ![c] = k]
    BY <1>2, <2>1 DEF SessionTypeOK
  <2>2. CASE client' = [client EXCEPT ![c] = Checked(k, p.sid)]
    BY <1>2, <2>2 DEF SessionTypeOK
  <2>3. CASE /\ p.type = "end" /\ p.sid \in SessionIDs
             /\ client' = [client EXCEPT ![c] = [Checked(k, p.sid) EXCEPT !.serial = p.serial]]
    <3>1. Checked(k, p.sid) \in Client
      BY <1>1, <2>3, CheckedTyped
    <3>2. client'[c].serial = p.serial
      BY <2>3, <3>1 DEF SessionTypeOK, Client
    <3> QED
      BY <2>3, <3>2 DEF IsEnd
  <2> QED
    BY <2>1, <2>2, <2>3, Received
<1>8. /\ Q \in Seq(Query) /\ Len(Q) \in Nat /\ client[c].serial \in Nat
      /\ \A i \in 1 .. Len(Q) : Q[i].serial \in Nat
      /\ \A x \in Ends(pdus[c]) : x.serial \in Nat
  BY Typed
<1>9. \A x : /\ Len(Append(Q, x)) = Len(Q) + 1 /\ Append(Q, x)[Len(Q) + 1] = x
             /\ \A i \in 1 .. Len(Q) : Append(Q, x)[i] = Q[i]
  BY <1>8
<1> HIDE DEF p, t, k, Q, asked, reset
<1>10. EndsKnown(c)'
  <2>1. KnowsAll(c) => KnowsAll(c)'
    BY <1>1, <1>4 DEF KnowsAll, CacheSafe, CacheInv, ListOK
  <2>2. /\ \A x \in Ends(pdus[c]) : x.serial <= maxSerial /\ (c \in conn => Knows(c, x.serial))
        /\ Ends(sending[c]) # {} /\ c \in conn => KnowsAll(c)
    BY DEF KnownOK, EndsKnown
  <2>3. Ends(pdus'[c]) \subseteq Ends(pdus[c])
    BY <1>1, <1>3
  <2> QED
    BY <1>1, <1>5, <1>8, <2>1, <2>2, <2>3 DEF EndsKnown
<1>11. \A i \in 1 .. Len(Q) + 1 : ResetBefore(Q, i) => ResetBefore(queries'[c], i)
  <2> SUFFICES ASSUME NEW i \in 1 .. Len(Q) + 1, ResetBefore(Q, i)
               PROVE  ResetBefore(queries'[c], i)
    OBVIOUS
  <2>1. CASE queries'[c] = Q
    BY <2>1
  <2>2. ASSUME NEW x, queries'[c] = Append(Q, x) PROVE ResetBefore(queries'[c], i)
    BY <1>8, <1>9, <2>2 DEF ResetBefore
  <2> QED
    BY <1>6, <2>1, <2>2
<1>12. QueriesKnown(c)'
  <2> SUFFICES ASSUME NEW i \in 1 .. Len(queries'[c]), NEW s, s = queries'[c][i].serial
               PROVE  /\ s <= maxSerial
                      /\ c \in conn /\ queries'[c][i].type = "serial" =>
                           Knows(c, s)' \/ ResetBefore(queries'[c], i)
    BY <1>1 DEF QueriesKnown
  <2>1. CASE i \in 1 .. Len(Q) /\ queries'[c][i] = Q[i]
    BY <1>5, <1>8, <1>11, <2>1 DEF KnownOK, QueriesKnown, Q
  <2>2. CASE i = Len(Q) + 1 /\ queries'[c][i] \in {asked("serial"), reset}
    <3>1. s = client[c].serial
      BY <2>2 DEF asked, reset
    <3>2. s <= maxSerial /\ (c \in conn => Knows(c, s) \/ ResetBefore(Q, Len(Q) + 1))
      BY <3>1 DEF KnownOK, ClientKnown, Q
    <3>3. Len(Q) + 1 \in 1 .. Len(Q) + 1
      BY <1>8
    <3> QED
      BY <1>5, <1>8, <1>11, <2>2, <3>1, <3>2, <3>3
  <2>3. CASE queries'[c] = Q
    BY <2>1, <2>3
  <2>4. ASSUME NEW x \in {asked("serial"), reset}, queries'[c] = Append(Q, x)
        PROVE  \/ i \in 1 .. Len(Q) /\ queries'[c][i] = Q[i]
               \/ i = Len(Q) + 1 /\ queries'[c][i] \in {asked("serial"), reset}
    <3>1. i \in 1 .. Len(Q) \/ i = Len(Q) + 1
      BY <1>8, <1>9, <2>4
    <3> QED
      BY <3>1, <1>9, <2>4
  <2> QED
    BY <1>6, <2>1, <2>2, <2>3, <2>4
<1>13. ClientKnown(c)'
  <2>1. CASE client'[c].serial = client[c].serial
    <3> DEFINE s == client[c].serial
    <3>1. s <= maxSerial /\ (c \in conn => Knows(c, s) \/ ResetBefore(Q, Len(Q) + 1))
      BY DEF KnownOK, ClientKnown, Q
    <3>2. ResetBefore(Q, Len(Q) + 1) => ResetBefore(queries'[c], Len(queries'[c]) + 1)
      <4> SUFFICES ASSUME ResetBefore(Q, Len(Q) + 1)
                   PROVE  ResetBefore(queries'[c], Len(queries'[c]) + 1)
        OBVIOUS
      <4>1. CASE queries'[c] = Q
        BY <4>1
      <4>2. ASSUME NEW x, queries'[c] = Append(Q, x)
            PROVE  ResetBefore(queries'[c], Len(queries'[c]) + 1)
        BY <1>8, <1>9, <4>2 DEF ResetBefore
      <4> QED
        BY <1>6, <4>1, <4>2
    <3>3. \A z \in {s} : z \in Nat /\ (Knows(c, z) => Knows(c, z)')
      BY <1>5, <1>8
    <3> QED
      BY <1>1, <2>1, <3>1, <3>2, <3>3 DEF ClientKnown
  <2>2. CASE IsEnd(p) /\ client'[c].serial = p.serial
    <3>1. p \in Ends(pdus[c])
      BY <1>3, <2>2
    <3>2. \A z \in {p.serial} : z <= maxSerial /\ (c \in conn => Knows(c, z)')
      BY <1>5, <1>8, <3>1 DEF KnownOK, EndsKnown
    <3> QED
      BY <1>1, <2>2, <3>2 DEF ClientKnown
  <2> QED
    BY <1>7, <2>1, <2>2
<1> QED
  BY <1>10, <1>12, <1>13 DEF KnownOK

\* The router moves on without a PDU.
LEMMA KnownGoes ==
    ASSUME SessionTypeOK, CacheSafe, NEW c \in Routers, KnownOK(c),
           NEW from, NEW to, Goes(c, from, to), UNCHANGED <<client, repeated>>,
           c \notin conn
    PROVE  KnownOK(c)'
<1>1. UNCHANGED <<entries, maxSerial, conn, pdus, sending, queries, client, held>>
  BY DEF Goes, cacheVars, netVars
<1>2. EndsKnown(c)' /\ QueriesKnown(c)' /\ ClientKnown(c)'
  BY <1>1 DEF KnownOK, EndsKnown, QueriesKnown, ClientKnown
<1> QED
  BY <1>2 DEF KnownOK

\* A Reset Query is asked at the head of the loop.
LEMMA KnownStart ==
    ASSUME SessionTypeOK, CacheSafe, NEW c \in Routers, KnownOK(c), Start(c)
    PROVE  KnownOK(c)'
<1>1. CASE Goes(c, "start", "lost") /\ c \notin conn /\ UNCHANGED <<client, repeated>>
  BY <1>1, KnownGoes
<1>2. CASE Ask(c, "reset", client[c]) /\ at' = [at EXCEPT ![c] = "first"]
           /\ UNCHANGED <<cacheVars, sessionID, notify, conn, sending, pdus, client, held, otherVars>>
  <2> DEFINE Q == queries[c]
             x == [type |-> "reset", sid |-> client[c].sid, serial |-> client[c].serial]
  <2>1. UNCHANGED <<entries, maxSerial, conn, pdus, sending, client, held>>
    BY <1>2 DEF cacheVars
  <2>2. /\ c \in conn => queries'[c] = Append(Q, x)
        /\ c \notin conn => queries'[c] = Q
    BY <1>2 DEF Ask, SessionTypeOK
  <2>3. /\ Q \in Seq(Query) /\ Len(Q) \in Nat
        /\ Len(Append(Q, x)) = Len(Q) + 1 /\ Append(Q, x)[Len(Q) + 1] = x
        /\ \A i \in 1 .. Len(Q) : Append(Q, x)[i] = Q[i]
    BY Typed
  <2>4. x.type = "reset" /\ x.serial = client[c].serial
    OBVIOUS
  <2> HIDE DEF Q, x
  <2>5. \A r : Sure(c, r) = Sure(c, r)'
    BY <2>1 DEF Sure
  <2>6. \A s : Knows(c, s) => Knows(c, s)'
    BY <2>1, <2>5 DEF Knows
  <2>7. EndsKnown(c)'
    BY <2>1, <2>5, <2>6 DEF KnownOK, EndsKnown, KnowsAll
  <2>8. CASE c \notin conn
    BY <2>1, <2>2, <2>7, <2>8 DEF KnownOK, QueriesKnown, ClientKnown, Q
  <2>9. CASE c \in conn
    <3>1. \A i \in 1 .. Len(Q) : ResetBefore(Q, i) => ResetBefore(queries'[c], i)
      BY <2>2, <2>3, <2>9 DEF ResetBefore
    <3>2. QueriesKnown(c)'
      <4> SUFFICES ASSUME NEW i \in 1 .. Len(queries'[c]), NEW s, s = queries'[c][i].serial
                   PROVE  /\ s <= maxSerial
                          /\ queries'[c][i].type = "serial" =>
                               Knows(c, s)' \/ ResetBefore(queries'[c], i)
        BY <2>1 DEF QueriesKnown
      <4>1. CASE i \in 1 .. Len(Q)
        <5>1. queries'[c][i] = Q[i]
          BY <4>1, <2>2, <2>3, <2>9
        <5> QED
          BY <4>1, <5>1, <2>6, <3>1, <2>9 DEF KnownOK, QueriesKnown, Q
      <4>2. CASE i = Len(Q) + 1
        BY <4>2, <2>2, <2>3, <2>4, <2>9 DEF KnownOK, ClientKnown
      <4> QED
        BY <2>2, <2>3, <2>9, <4>1, <4>2
    <3>3. ClientKnown(c)'
      <4>1. ResetBefore(queries'[c], Len(queries'[c]) + 1)
        BY <2>2, <2>3, <2>4, <2>9 DEF ResetBefore
      <4> QED
        BY <2>1, <4>1 DEF KnownOK, ClientKnown
    <3> QED
      BY <2>7, <3>2, <3>3 DEF KnownOK
  <2> QED
    BY <2>8, <2>9
<1> QED
  BY <1>1, <1>2 DEF Start

\* A new connection has nothing on the way but a Reset Query.
LEMMA KnownReconnect ==
    ASSUME SessionTypeOK, CacheSafe, NEW c \in Routers, KnownOK(c), Reconnect(c)
    PROVE  KnownOK(c)'
<1> DEFINE x == [type |-> "reset", sid |-> client[c].sid, serial |-> client[c].serial]
<1>1. /\ pdus'[c] = <<>> /\ sending'[c] = <<>> /\ maxSerial' = maxSerial
      /\ client'[c].serial = client[c].serial
      /\ \/ queries'[c] = <<x>> /\ at'[c] = "reload"
         \/ queries'[c] = <<>> /\ at'[c] = "start"
  BY DEF Reconnect, SessionTypeOK, cacheVars, Client
<1>2. client[c].serial <= maxSerial /\ x.type = "reset" /\ x.serial = client[c].serial
  BY DEF KnownOK, ClientKnown
<1> HIDE DEF x
<1>3. EndsKnown(c)'
  BY <1>1, EmptyFacts DEF EndsKnown
<1>4. QueriesKnown(c)'
  BY <1>1, <1>2 DEF QueriesKnown
<1>5. ClientKnown(c)'
  <2>1. CASE queries'[c] = <<x>>
    <3>1. 1 \in 1 .. Len(<<x>>) /\ 1 < Len(<<x>>) + 1 /\ <<x>>[1] = x
      OBVIOUS
    <3>2. ResetBefore(<<x>>, Len(<<x>>) + 1)
      BY <3>1, <1>2 DEF ResetBefore
    <3> QED
      BY <1>1, <1>2, <2>1, <3>2 DEF ClientKnown
  <2>2. CASE at'[c] = "start"
    BY <1>1, <1>2, <2>2 DEF ClientKnown
  <2> QED
    BY <1>1, <2>1, <2>2
<1> QED
  BY <1>3, <1>4, <1>5 DEF KnownOK

LEMMA LackStarts == SessionInit => LackInv
<1> SUFFICES ASSUME SessionInit, NEW c \in Routers PROVE KnownOK(c)
  BY DEF LackInv
<1>1. /\ pdus[c] = <<>> /\ sending[c] = <<>> /\ queries[c] = <<>> /\ at[c] = "start"
      /\ client[c].serial = 0 /\ maxSerial = 0
  BY DEF SessionInit, CacheInit
<1> QED
  BY <1>1, EmptyFacts DEF KnownOK, EndsKnown, QueriesKnown, ClientKnown

\* Every step keeps the invariant; a restart of the cache ends what it claims.
LEMMA LackStep ==
    ASSUME ~mishap', SessionTypeOK, CacheSafe, CacheSafe', LackInv, [SessionNext]_vars
    PROVE  LackInv'
<1>1. CASE \E sid \in SessionIDs : Restart(sid)
  BY <1>1 DEF Restart, Disturb, LackInv
<1>2. CASE ~\E sid \in SessionIDs : Restart(sid)
  <2>1. CacheGoesOn
    BY <1>2, CacheInStep
  <2>2. restarted => restarted'
    <3>1. ASSUME NEW from, NEW to, NEW c \in Routers, Goes(c, from, to)
          PROVE  UNCHANGED restarted
      BY <3>1 DEF Goes, otherVars
    <3>2. ASSUME NEW go, NEW halt, NEW onEnd, NEW c \in Routers, Receive(c, go, halt, onEnd)
          PROVE  UNCHANGED restarted
      BY <3>2 DEF Receive, otherVars
    <3>3. ASSUME NEW c \in Routers, Router(c) \/ Serve(c) PROVE UNCHANGED restarted
      BY <3>1, <3>2, <3>3 DEF Router, Serve, Start, First, Loop, Reconnect, Reload,
                              HandleQuery, Send, otherVars
    <3>4. CASE Change \/ Timer \/ UNCHANGED vars
      BY <3>4 DEF Change, Timer, vars, otherVars
    <3> QED
      BY <3>3, <3>4 DEF SessionNext, Operator, Alarm, NotifyNow, NewSession, Restart, Lose, Command, Disturb
  <2> SUFFICES ASSUME NEW c \in Routers, KnownOK(c) PROVE KnownOK(c)'
    BY <2>2 DEF LackInv
  <2>3. CASE Change \/ Timer \/ Alarm \/ NotifyNow \/ (\E sid \in SessionIDs : NewSession(sid))
             \/ UNCHANGED vars
    BY <2>1, <2>3, StepOfAll, KnownByOthers
  <2>4. ASSUME NEW d \in Routers, d # c, Router(d) \/ Serve(d) \/ Lose(d) PROVE KnownOK(c)'
    BY <2>1, <2>4, StepOfOne, UntouchedNotified, KnownByOthers
  <2>5. CASE Serve(c) \/ Lose(c)
    BY <2>5, KnownHandle, KnownSend, KnownLose DEF Serve
  <2>6. CASE Router(c)
    <3>1. CASE Start(c)
      BY <3>1, KnownStart
    <3>2. CASE Reconnect(c)
      BY <3>2, KnownReconnect
    <3>3. CASE First(c)
      BY <3>3, KnownReceive, KnownGoes DEF First, Lost
    <3>4. CASE Loop(c)
      BY <3>4, KnownReceive, KnownGoes DEF Loop, Lost
    <3>5. CASE Reload(c)
      BY <3>5, KnownReceive, KnownGoes DEF Reload, Lost
    <3> QED
      BY <2>6, <3>1, <3>2, <3>3, <3>4, <3>5 DEF Router
  <2> QED
    BY <1>2, <2>3, <2>4, <2>5, <2>6 DEF SessionNext, Operator
<1> QED
  BY <1>1, <1>2

\* A server that went by the serials of one run of the cache lacks nothing.
LEMMA NothingLackingOnce ==
    ASSUME SessionTypeOK, CacheSafe, LackInv, ~restarted, ~Uncounted, NEW c \in Routers, Current(c),
           NEW r \in Roas, Copies(r) > 0
    PROVE  held[c][r] > 0
<1>1. /\ c \in conn /\ at[c] = "receive" /\ queries[c] = <<>> /\ sending[c] = <<>>
      /\ pdus[c] = <<>> /\ client[c].serial = maxSerial
  BY DEF Current, AtRest
<1>2. ~ResetBefore(queries[c], Len(queries[c]) + 1)
  BY <1>1 DEF ResetBefore
<1>3. \A s \in {client[c].serial} : Knows(c, s)
  BY <1>1, <1>2 DEF LackInv, KnownOK, ClientKnown
<1>4. PICK e \in entries : e.ann /\ e.roa = r
  <2>1. CASE {e \in entries : e.ann /\ e.roa = r} = {}
    BY <2>1, FS_EmptySet DEF Copies
  <2> QED
    BY <2>1
<1>5. e.serial <= maxSerial
  <2>1. e.serial \in Nat /\ maxSerial \in Nat
    BY SMT DEF CacheSafe, CacheInv, ListOK, NumbersOK
  <2> QED
    BY <2>1 DEF Uncounted
<1>6. Sure(c, r)
  BY <1>1, <1>3, <1>4, <1>5 DEF Knows
<1> QED
  BY <1>1, <1>6, EmptyFacts DEF Sure

-----------------------------------------------------------------------------
(* Each ROA is held as often as it is announced.                           *)

\* Whether a set that was sent has r.
Mentions(had, r) == \E x \in had : x[1] = r

\* The router holds what was sent under serial s.
HeldIs(c, s) ==
    /\ s \in 0 .. maxSerial
    /\ \E had \in past[s] : \A r \in Roas :
          /\ Mentions(had, r) => held[c][r] = 1
          /\ ~Mentions(had, r) => held[c][r] = 0

\* The router holds r, or does not, when it has processed what is on the way.
WillHold(c, r) ==
    \/ HasA(pdus[c], r) \/ HasA(sending[c], r)
    \/ held[c][r] = 1 /\ ~HasW(pdus[c], r) /\ ~HasW(sending[c], r)
WillLack(c, r) ==
    /\ ~HasA(pdus[c], r) /\ ~HasA(sending[c], r)
    /\ held[c][r] = 0 \/ HasW(pdus[c], r) \/ HasW(sending[c], r)
Leads(c, s) ==
    /\ s \in 0 .. maxSerial
    /\ \E had \in past[s] : \A r \in Roas :
          /\ Mentions(had, r) => WillHold(c, r)
          /\ ~Mentions(had, r) => WillLack(c, r)

\* What is on the way comes to what the list announces.
LeadsNow(c) ==
    \A r \in Roas : /\ Mentions(Announced(entries), r) => WillHold(c, r)
                    /\ ~Mentions(Announced(entries), r) => WillLack(c, r)

\* Nothing of an answer is on the way.
Quiet(c) == NoData(pdus[c]) /\ NoData(sending[c])

\* There is one query at a time, and none while an answer is on the way.
OneQuery(c) == queries[c] # <<>> =>
    Len(queries[c]) = 1 /\ sending[c] = <<>> /\ NoData(pdus[c])

\* Everything is asked for by a router that has nothing, and what changed since
\* a serial by one that has what was sent under it, if it is of this session.
QueryOK(c) == queries[c] # <<>> =>
    \A q \in {Head(queries[c])} :
        /\ q.type = "reset" => \A r \in Roas : held[c][r] = 0
        /\ q.type = "serial" =>
              /\ q.sid \in SessionIDs /\ q.sid <= sessionID
              /\ q.sid = sessionID => HeldIs(c, q.serial)

\* A ROA is withdrawn and announced once at most, in this order; it is withdrawn
\* if it is held and announced if it is not.
StreamOf(c, r) ==
    /\ Clean(pdus[c], r) /\ Clean(sending[c], r)
    /\ HasA(pdus[c], r) => ~HasA(sending[c], r) /\ ~HasW(sending[c], r)
    /\ HasW(pdus[c], r) => ~HasW(sending[c], r)
    /\ HasW(pdus[c], r) \/ HasW(sending[c], r) => held[c][r] = 1
    /\ HasA(pdus[c], r) \/ HasA(sending[c], r) =>
          HasW(pdus[c], r) \/ HasW(sending[c], r) \/ held[c][r] = 0
StreamOK(c) == \A r \in Roas : StreamOf(c, r)

\* An answer ends with an End of Data, whose serial is that of the data; what is
\* not sent yet is given the serial of the moment when it is.
EndOK(c) ==
    /\ EndLast(pdus[c]) /\ EndLast(sending[c])
    /\ Ends(pdus[c]) # {} => NoData(sending[c])
    /\ ~Quiet(c) => Ends(pdus[c]) # {} \/ Ends(sending[c]) # {}
    /\ \A p \in Ends(pdus[c]) : p.sid <= sessionID /\ Leads(c, p.serial)
    /\ Ends(sending[c]) # {} => LeadsNow(c)

\* In between the router has what was sent under its serial.
ClientOK(c) ==
    /\ at[c] = "receive" /\ Quiet(c) => \A k \in {client[c]} :
          /\ ~k.startup /\ k.sid \in SessionIDs /\ k.sid <= sessionID
          /\ k.sid = sessionID => HeldIs(c, k.serial)
    /\ at[c] = "reload" /\ Quiet(c) => queries[c] # <<>> /\ Head(queries[c]).type = "reset"

ExactOK(c) == OneQuery(c) /\ QueryOK(c) /\ StreamOK(c) /\ EndOK(c) /\ ClientOK(c)

ExactInv == \A c \in conn \ (repeated \cup ahead) : at[c] # "stopped" => ExactOK(c)

\* Without data there is no End of Data and nothing of a ROA.
LEMMA NoDataFacts ==
    ASSUME NEW q, NoData(q)
    PROVE  /\ Ends(q) = {} /\ EndLast(q)
           /\ \A r : ~HasA(q, r) /\ ~HasW(q, r) /\ Clean(q, r)
<1>1. \A p : ~IsData(p) => ~IsEnd(p) /\ \A r : ~IsA(p, r) /\ ~IsW(p, r)
  BY DEF IsData, IsEnd, IsA, IsW
<1> QED
  BY <1>1 DEF NoData, Ends, EndLast, HasA, HasW, Clean

\* A PDU that is not of an answer makes no difference.
LEMMA NotifyFacts ==
    ASSUME NEW q \in Seq(PDU), NEW sid \in SessionIDs
    PROVE  /\ NoData(Append(q, NotifyPDU(sid))) <=> NoData(q)
           /\ Ends(Append(q, NotifyPDU(sid))) = Ends(q)
           /\ EndLast(Append(q, NotifyPDU(sid))) <=> EndLast(q)
           /\ \A r : /\ HasA(Append(q, NotifyPDU(sid)), r) <=> HasA(q, r)
                     /\ HasW(Append(q, NotifyPDU(sid)), r) <=> HasW(q, r)
                     /\ Clean(Append(q, NotifyPDU(sid)), r) <=> Clean(q, r)
<1> DEFINE p == NotifyPDU(sid)
<1>1. p \in PDU /\ ~IsData(p) /\ ~IsEnd(p) /\ \A r : ~IsA(p, r) /\ ~IsW(p, r)
  BY NotifyTyped DEF NotifyPDU, IsData, IsEnd, IsA, IsW
<1> HIDE DEF p
<1>2. /\ NoData(Append(q, p)) <=> NoData(q) /\ ~IsData(p)
      /\ Ends(Append(q, p)) = Ends(q) \cup (IF IsEnd(p) THEN {p} ELSE {})
      /\ EndLast(Append(q, p)) <=> EndLast(q) /\ (IsData(p) => Ends(q) = {})
      /\ \A r :
           /\ HasA(Append(q, p), r) <=> HasA(q, r) \/ IsA(p, r)
           /\ HasW(Append(q, p), r) <=> HasW(q, r) \/ IsW(p, r)
           /\ Clean(Append(q, p), r) <=> /\ Clean(q, r)
                                         /\ IsA(p, r) => ~HasA(q, r)
                                         /\ IsW(p, r) => ~HasA(q, r) /\ ~HasW(q, r)
  BY <1>1, PushFacts
<1>3. \A r : /\ HasA(Append(q, p), r) <=> HasA(q, r)
             /\ HasW(Append(q, p), r) <=> HasW(q, r)
             /\ Clean(Append(q, p), r) <=> Clean(q, r)
  BY <1>1, <1>2, Zenon
<1>4. Ends(Append(q, p)) = Ends(q)
  BY <1>1, <1>2
<1> QED
  BY <1>1, <1>2, <1>3, <1>4 DEF p

\* What was sent is not forgotten.
LEMMA HeldKept ==
    ASSUME CacheSafe, CacheSafe', CacheGoesOn, NEW c \in Routers, held'[c] = held[c],
           NEW s, HeldIs(c, s)
    PROVE  HeldIs(c, s)'
<1>1. /\ maxSerial \in Nat /\ maxSerial' \in Nat /\ maxSerial <= maxSerial'
      /\ MaxSerial \in Nat /\ maxSerial <= MaxSerial
  BY RtrCacheAssumption DEF CacheSafe, CacheInv, NumbersOK, CacheGoesOn
<1>2. s \in 0 .. maxSerial /\ s \in 0 .. maxSerial' /\ s \in 0 .. MaxSerial
  BY <1>1 DEF HeldIs
<1>3. past[s] \subseteq past'[s]
  BY <1>2 DEF CacheGoesOn
<1> QED
  BY <1>2, <1>3 DEF HeldIs

\* What is on the way still comes to what was sent under a serial.
LEMMA LeadsKept ==
    ASSUME CacheSafe, CacheSafe', CacheGoesOn, NEW c \in Routers,
           \A r \in Roas : (WillHold(c, r) => WillHold(c, r)') /\ (WillLack(c, r) => WillLack(c, r)'),
           NEW s, Leads(c, s)
    PROVE  Leads(c, s)'
<1>1. /\ maxSerial \in Nat /\ maxSerial' \in Nat /\ maxSerial <= maxSerial'
      /\ MaxSerial \in Nat /\ maxSerial <= MaxSerial
  BY RtrCacheAssumption DEF CacheSafe, CacheInv, NumbersOK, CacheGoesOn
<1>2. s \in 0 .. maxSerial /\ s \in 0 .. maxSerial' /\ s \in 0 .. MaxSerial
  BY <1>1 DEF Leads
<1>3. past[s] \subseteq past'[s]
  BY <1>2 DEF CacheGoesOn
<1>4. PICK had \in past[s] : \A r \in Roas :
          /\ Mentions(had, r) => WillHold(c, r)
          /\ ~Mentions(had, r) => WillLack(c, r)
  BY DEF Leads
<1> QED
  BY <1>2, <1>3, <1>4 DEF Leads

\* What is on the way is as it was, but for a notification.
LEMMA StreamKept ==
    ASSUME SessionTypeOK, NEW c \in Routers, Notified(c)
    PROVE  /\ Quiet(c) <=> Quiet(c)'
           /\ NoData(pdus'[c]) <=> NoData(pdus[c])
           /\ Ends(pdus'[c]) = Ends(pdus[c]) /\ (EndLast(pdus'[c]) <=> EndLast(pdus[c]))
           /\ \A r : /\ StreamOf(c, r) <=> StreamOf(c, r)'
                     /\ WillHold(c, r) <=> WillHold(c, r)'
                     /\ WillLack(c, r) <=> WillLack(c, r)'
<1>1. pdus[c] \in Seq(PDU)
  BY Typed
<1>2. /\ NoData(pdus'[c]) <=> NoData(pdus[c])
      /\ Ends(pdus'[c]) = Ends(pdus[c]) /\ (EndLast(pdus'[c]) <=> EndLast(pdus[c]))
      /\ \A r : /\ HasA(pdus'[c], r) <=> HasA(pdus[c], r)
                /\ HasW(pdus'[c], r) <=> HasW(pdus[c], r)
                /\ Clean(pdus'[c], r) <=> Clean(pdus[c], r)
  <2>1. CASE pdus'[c] = pdus[c]
    BY <2>1
  <2>2. ASSUME NEW sid \in SessionIDs, pdus'[c] = Append(pdus[c], NotifyPDU(sid))
        PROVE  /\ NoData(pdus'[c]) <=> NoData(pdus[c])
               /\ Ends(pdus'[c]) = Ends(pdus[c]) /\ (EndLast(pdus'[c]) <=> EndLast(pdus[c]))
               /\ \A r : /\ HasA(pdus'[c], r) <=> HasA(pdus[c], r)
                         /\ HasW(pdus'[c], r) <=> HasW(pdus[c], r)
                         /\ Clean(pdus'[c], r) <=> Clean(pdus[c], r)
    BY <1>1, <2>2, NotifyFacts
  <2> QED
    BY <2>1, <2>2 DEF Notified
<1>3. sending'[c] = sending[c] /\ held'[c] = held[c]
  BY DEF Notified
<1> QED
  BY <1>2, <1>3 DEF Quiet, StreamOf, WillHold, WillLack

\* A router that a step at most sends a notification stays exact.
LEMMA ExactByOthers ==
    ASSUME SessionTypeOK, SessionTypeOK', CacheSafe, CacheSafe', CacheGoesOn, sessionID <= sessionID',
           NEW c \in Routers, Notified(c), ExactOK(c)
    PROVE  ExactOK(c)'
<1>1. /\ sending'[c] = sending[c] /\ queries'[c] = queries[c] /\ client'[c] = client[c]
      /\ at'[c] = at[c] /\ held'[c] = held[c]
  BY DEF Notified
<1>2. \A s : (HeldIs(c, s) => HeldIs(c, s)') /\ (Leads(c, s) => Leads(c, s)')
  BY <1>1, HeldKept, LeadsKept, StreamKept
<1>3. sessionID \in Nat /\ sessionID' \in Nat /\ SessionIDs \subseteq Nat
  BY SessionAssumption DEF SessionTypeOK
<1>4. OneQuery(c)'
  BY <1>1, StreamKept DEF ExactOK, OneQuery
<1>5. QueryOK(c)'
  <2> SUFFICES ASSUME queries[c] # <<>>, NEW q, q = Head(queries[c])
               PROVE  /\ q.type = "reset" => \A r \in Roas : held[c][r] = 0
                      /\ q.type = "serial" =>
                            /\ q.sid \in SessionIDs /\ q.sid <= sessionID'
                            /\ q.sid = sessionID' => HeldIs(c, q.serial)'
    BY <1>1 DEF QueryOK
  <2>1. /\ q.type = "reset" => \A r \in Roas : held[c][r] = 0
        /\ q.type = "serial" =>
              /\ q.sid \in SessionIDs /\ q.sid <= sessionID
              /\ q.sid = sessionID => HeldIs(c, q.serial)
    BY DEF ExactOK, QueryOK
  <2>2. q.type = "serial" => q.sid <= sessionID' /\ (q.sid = sessionID' => q.sid = sessionID)
    <3>1. \A n \in Nat : n <= sessionID => n <= sessionID' /\ (n = sessionID' => n = sessionID)
      BY <1>3
    <3>2. q.type = "serial" => q.sid \in Nat /\ q.sid <= sessionID
      BY <1>3, <2>1
    <3> QED
      BY <3>1, <3>2
  <2> QED
    BY <1>2, <2>1, <2>2
<1>6. StreamOK(c)'
  BY StreamKept DEF ExactOK, StreamOK
<1>7. EndOK(c)'
  <2>1. \A p \in Ends(pdus[c]) : p.sid \in Nat
    <3> SUFFICES ASSUME NEW q \in Seq(PDU), NEW p \in Ends(q) PROVE p.sid \in Nat
      BY Typed
    <3>1. p \in PDU /\ p.type = "end"
      BY ElementOfSeq DEF Ends, IsEnd
    <3> QED
      BY <1>3, <3>1 DEF PDU
  <2>2. \A p \in Ends(pdus[c]) : p.sid <= sessionID' /\ Leads(c, p.serial)'
    BY <1>2, <1>3, <2>1 DEF ExactOK, EndOK
  <2>3. Ends(sending[c]) # {} => LeadsNow(c)'
    <3> SUFFICES ASSUME Ends(sending[c]) # {} PROVE LeadsNow(c)'
      OBVIOUS
    <3>1. LeadsNow(c)
      BY DEF ExactOK, EndOK
    <3>2. entries' = entries
      BY EmptyFacts DEF Notified
    <3> QED
      BY <3>1, <3>2, StreamKept DEF LeadsNow
  <2>4. /\ EndLast(pdus[c]) /\ EndLast(sending[c])
        /\ Ends(pdus[c]) # {} => NoData(sending[c])
        /\ ~Quiet(c) => Ends(pdus[c]) # {} \/ Ends(sending[c]) # {}
    BY DEF ExactOK, EndOK
  <2>5. /\ Quiet(c) <=> Quiet(c)'
        /\ Ends(pdus'[c]) = Ends(pdus[c]) /\ (EndLast(pdus'[c]) <=> EndLast(pdus[c]))
    BY StreamKept
  <2> QED
    BY <1>1, <2>2, <2>3, <2>4, <2>5 DEF EndOK
<1>8. ClientOK(c)'
  <2>1. ASSUME at[c] = "receive", Quiet(c), NEW k, k = client[c]
        PROVE  /\ ~k.startup /\ k.sid \in SessionIDs /\ k.sid <= sessionID'
               /\ k.sid = sessionID' => HeldIs(c, k.serial)'
    <3>1. /\ ~k.startup /\ k.sid \in SessionIDs /\ k.sid <= sessionID
          /\ k.sid = sessionID => HeldIs(c, k.serial)
      BY <2>1 DEF ExactOK, ClientOK
    <3>2. \A n \in Nat : n <= sessionID => n <= sessionID' /\ (n = sessionID' => n = sessionID)
      BY <1>3
    <3>3. k.sid \in Nat
      BY <1>3, <3>1
    <3> QED
      BY <1>2, <3>1, <3>2, <3>3
  <2>2. Quiet(c)' => Quiet(c)
    BY StreamKept
  <2> QED
    BY <1>1, <2>1, <2>2 DEF ExactOK, ClientOK
<1> QED
  BY <1>4, <1>5, <1>6, <1>7, <1>8 DEF ExactOK

\* A PDU of an answer is sent.
LEMMA ExactSend ==
    ASSUME SessionTypeOK, CacheSafe, CacheSafe', CacheGoesOn, NEW c \in Routers, c \in conn,
           ExactOK(c), Send(c), c \notin ahead'
    PROVE  ExactOK(c)'
<1> DEFINE h == Head(sending[c])
           t == Tail(sending[c])
           w == Written(h)
<1>1. /\ sending[c] # <<>> /\ sending'[c] = t /\ pdus'[c] = Append(pdus[c], w)
      /\ UNCHANGED <<cacheVars, sessionID, queries, at, client, held>>
      /\ h.type = "end" => ~Uncounted
  BY DEF Send, SessionTypeOK, rtrVars
<1>2. /\ h \in Part /\ t \in Seq(Part) /\ w \in PDU
      /\ pdus[c] \in Seq(PDU) /\ sending[c] \in Seq(Part)
  BY <1>1, HeadTail, Typed, WrittenTyped
<1>21. /\ IsEnd(w) <=> IsEnd(h)
       /\ IsData(w) <=> IsData(h)
       /\ \A r : (IsA(w, r) <=> IsA(h, r)) /\ (IsW(w, r) <=> IsW(h, r))
       /\ IsEnd(h) => w.sid = sessionID /\ w.serial = maxSerial /\ ~Uncounted
  <2>1. IsEnd(h) => ~Uncounted
    BY <1>1 DEF IsEnd
  <2> QED
    BY <1>2, <2>1, WrittenFacts
<1> HIDE DEF h, t, w
<1>3. /\ NoData(sending[c]) <=> ~IsData(h) /\ NoData(t)
      /\ Ends(sending[c]) = Ends(t) \cup (IF IsEnd(h) THEN {h} ELSE {})
      /\ EndLast(sending[c]) <=> EndLast(t) /\ (IsEnd(h) => NoData(t))
      /\ \A r : /\ HasA(sending[c], r) <=> IsA(h, r) \/ HasA(t, r)
                /\ HasW(sending[c], r) <=> IsW(h, r) \/ HasW(t, r)
                /\ Clean(sending[c], r) <=> /\ Clean(t, r)
                                            /\ IsA(h, r) => ~HasA(t, r) /\ ~HasW(t, r)
                                            /\ IsW(h, r) => ~HasW(t, r)
  BY <1>1, <1>2, PopFacts DEF h, t
<1>4. /\ NoData(pdus'[c]) <=> NoData(pdus[c]) /\ ~IsData(w)
      /\ Ends(pdus'[c]) = Ends(pdus[c]) \cup (IF IsEnd(w) THEN {w} ELSE {})
      /\ EndLast(pdus'[c]) <=> EndLast(pdus[c]) /\ (IsData(w) => Ends(pdus[c]) = {})
      /\ \A r : /\ HasA(pdus'[c], r) <=> HasA(pdus[c], r) \/ IsA(w, r)
                /\ HasW(pdus'[c], r) <=> HasW(pdus[c], r) \/ IsW(w, r)
                /\ Clean(pdus'[c], r) <=> /\ Clean(pdus[c], r)
                                          /\ IsA(w, r) => ~HasA(pdus[c], r)
                                          /\ IsW(w, r) => ~HasA(pdus[c], r) /\ ~HasW(pdus[c], r)
  BY <1>1, <1>2, PushFacts
<1>5. IsEnd(h) => IsData(h)
  BY DEF IsEnd, IsData
<1>6. Quiet(c) <=> Quiet(c)'
  BY <1>1, <1>21, <1>3, <1>4, Zenon DEF Quiet
<1>7. ASSUME NEW r \in Roas
      PROVE  /\ StreamOf(c, r)'
             /\ WillHold(c, r) => WillHold(c, r)'
             /\ WillLack(c, r) => WillLack(c, r)'
  <2>1. StreamOf(c, r)
    BY DEF ExactOK, StreamOK
  <2>2. held'[c][r] = held[c][r] /\ ~(IsA(h, r) /\ IsW(h, r))
    BY <1>1 DEF IsA, IsW
  <2>3. /\ HasA(sending[c], r) <=> IsA(h, r) \/ HasA(t, r)
        /\ HasW(sending[c], r) <=> IsW(h, r) \/ HasW(t, r)
        /\ Clean(sending[c], r) <=> /\ Clean(t, r)
                                    /\ IsA(h, r) => ~HasA(t, r) /\ ~HasW(t, r)
                                    /\ IsW(h, r) => ~HasW(t, r)
    BY <1>3
  <2>4. /\ HasA(pdus'[c], r) <=> HasA(pdus[c], r) \/ IsA(h, r)
        /\ HasW(pdus'[c], r) <=> HasW(pdus[c], r) \/ IsW(h, r)
        /\ Clean(pdus'[c], r) <=> /\ Clean(pdus[c], r)
                                  /\ IsA(h, r) => ~HasA(pdus[c], r)
                                  /\ IsW(h, r) => ~HasA(pdus[c], r) /\ ~HasW(pdus[c], r)
    BY <1>4, <1>21
  <2> QED
    BY <1>1, <2>1, <2>2, <2>3, <2>4 DEF StreamOf, WillHold, WillLack
<1>8. \A s : (HeldIs(c, s) => HeldIs(c, s)') /\ (Leads(c, s) => Leads(c, s)')
  BY <1>1, <1>7, HeldKept, LeadsKept
<1>9. queries[c] = <<>>
  BY <1>1 DEF ExactOK, OneQuery
<1>10. OneQuery(c)' /\ QueryOK(c)'
  BY <1>1, <1>9 DEF OneQuery, QueryOK
<1>11. StreamOK(c)'
  BY <1>7 DEF StreamOK
<1>12. EndOK(c)'
  <2>1. /\ EndLast(pdus[c]) /\ EndLast(sending[c])
        /\ Ends(pdus[c]) # {} => NoData(sending[c])
        /\ ~Quiet(c) => Ends(pdus[c]) # {} \/ Ends(sending[c]) # {}
        /\ \A p \in Ends(pdus[c]) : p.sid <= sessionID /\ Leads(c, p.serial)
        /\ Ends(sending[c]) # {} => LeadsNow(c)
    BY DEF ExactOK, EndOK
  <2>2. EndLast(pdus'[c]) /\ EndLast(sending'[c]) /\ (Ends(pdus'[c]) # {} => NoData(sending'[c]))
    BY <1>1, <1>21, <1>3, <1>4, <1>5, <2>1
  <2>3. ~Quiet(c)' => Ends(pdus'[c]) # {} \/ Ends(sending'[c]) # {}
    BY <1>1, <1>21, <1>3, <1>4, <1>6, <2>1
  <2>4. LeadsNow(c) => LeadsNow(c)'
    BY <1>1, <1>7 DEF LeadsNow, cacheVars
  <2>5. ASSUME NEW p \in Ends(pdus'[c]) PROVE p.sid <= sessionID /\ Leads(c, p.serial)'
    <3>1. CASE p \in Ends(pdus[c])
      BY <1>8, <2>1, <3>1
    <3>2. CASE p = w /\ IsEnd(h)
      <4>1. p.sid = sessionID /\ p.serial = maxSerial /\ ~Uncounted
        BY <1>21, <3>2
      <4>2. sessionID \in Nat /\ maxSerial \in Nat
        BY SessionAssumption DEF SessionTypeOK, CacheSafe, CacheInv, NumbersOK
      <4>3. LeadsNow(c)
        BY <1>3, <2>1, <3>2
      <4>4. Announced(entries) \in past[maxSerial] /\ maxSerial \in 0 .. maxSerial
        BY <4>1, <4>2 DEF CacheSafe, ListInv, SentNow
      <4>5. Leads(c, maxSerial)
        BY <4>3, <4>4 DEF Leads, LeadsNow
      <4> QED
        BY <1>8, <4>1, <4>2, <4>5
    <3> QED
      BY <1>21, <1>4, <2>5, <3>1, <3>2
  <2>6. Ends(sending'[c]) # {} => LeadsNow(c)'
    BY <1>1, <1>3, <2>1, <2>4
  <2> QED
    BY <1>1, <2>2, <2>3, <2>5, <2>6 DEF EndOK
<1>13. ClientOK(c)'
  BY <1>1, <1>6, <1>8, Zenon DEF ExactOK, ClientOK
<1> QED
  BY <1>10, <1>11, <1>12, <1>13 DEF ExactOK

\* What an answer says of a ROA.
LEMMA AnswerParts ==
    ASSUME CacheInv, NEW isReset \in BOOLEAN, NEW s, NEW r \in Roas
    PROVE  /\ HasA(Answer(isReset, s), r) <=>
                \E e \in Objects(isReset, s) : e.ann /\ e.roa = r
           /\ HasW(Answer(isReset, s), r) <=>
                \E e \in Objects(isReset, s) : ~e.ann /\ e.roa = r
           /\ (\A d, e \in Objects(isReset, s) :
                   d.roa = r /\ e.roa = r /\ d.pos < e.pos => ~d.ann /\ e.ann)
                => Clean(Answer(isReset, s), r)
BY AnswerFacts

\* The answer to a Reset Query brings all that is announced.
LEMMA ResetAnswer ==
    ASSUME SessionTypeOK, CacheSafe, NEW isReset \in BOOLEAN, NEW serial,
           NEW q, q = Answer(isReset, serial), NEW r \in Roas
    PROVE  isReset => /\ Clean(q, r) /\ ~HasW(q, r)
                      /\ HasA(q, r) <=> Mentions(Announced(entries), r)
<1> DEFINE O == Objects(isReset, serial)
<1>1. CacheInv
  BY DEF CacheSafe
<1>2. /\ HasA(q, r) <=> \E e \in O : e.ann /\ e.roa = r
      /\ HasW(q, r) <=> \E e \in O : ~e.ann /\ e.roa = r
      /\ (\A d, e \in O : d.roa = r /\ e.roa = r /\ d.pos < e.pos => ~d.ann /\ e.ann)
              => Clean(q, r)
  BY <1>1, AnswerParts
<1> SUFFICES ASSUME isReset
             PROVE  /\ Clean(q, r) /\ ~HasW(q, r)
                    /\ HasA(q, r) <=> Mentions(Announced(entries), r)
  OBVIOUS
<1>3. \A e \in entries : e.pos \in Nat /\ (e.ann <=> e.serial = e.prev)
  BY DEF CacheSafe, CacheInv, ListOK
<1>4. O = {e \in entries : e.ann}
  BY <1>3 DEF Objects
<1> HIDE DEF O
<1>5. Mentions(Announced(entries), r) <=> \E e \in O : e.ann /\ e.roa = r
  <2>1. \A e : Id(e)[1] = e.roa
    BY DEF Id
  <2>2. Announced(entries) = {Id(e) : e \in O}
    BY <1>4 DEF Announced
  <2>3. \A e \in O : e.ann
    BY <1>4
  <2>4. (\E x \in {Id(e) : e \in O} : x[1] = r) <=> \E e \in O : e.roa = r
    BY <2>1
  <2> QED
    BY <2>2, <2>3, <2>4 DEF Mentions
<1>6. ASSUME NEW d \in O, NEW e \in O, d.roa = e.roa, d.pos < e.pos PROVE FALSE
  <2>1. d = e
    BY <1>4, <1>6 DEF CacheSafe, ListInv, OneAnnounced
  <2>2. e.pos \in Nat
    BY <1>3, <1>4
  <2> QED
    BY <2>1, <2>2, <1>6
<1>7. \A e \in O : e.ann
  BY <1>4
<1> QED
  BY <1>2, <1>5, <1>6, <1>7

\* The answer to a Serial Query brings what changed to a router that has what
\* was sent under the serial.
LEMMA SerialAnswer ==
    ASSUME SessionTypeOK, ~mishap, CacheSafe, NEW c \in Routers, NEW s \in 0 .. maxSerial,
           NEW q, q = Answer(FALSE, s), ~checkSerial(minPSExpired, maxSExpired, s), HeldIs(c, s)
    PROVE  \A r \in Roas :
              /\ Clean(q, r)
              /\ HasW(q, r) => held[c][r] = 1
              /\ HasA(q, r) => HasW(q, r) \/ held[c][r] = 0
              /\ Mentions(Announced(entries), r) =>
                    HasA(q, r) \/ (held[c][r] = 1 /\ ~HasW(q, r))
              /\ ~Mentions(Announced(entries), r) =>
                    ~HasA(q, r) /\ (held[c][r] = 0 \/ HasW(q, r))
<1> DEFINE O == Objects(FALSE, s)
           withdrawn == {Id(e) : e \in {o \in O : ~o.ann}}
           announced == {Id(e) : e \in {o \in O : o.ann}}
<1>1. /\ CacheInv /\ O \subseteq entries
      /\ \A e \in entries : e.pos \in Nat
  BY DEF CacheSafe, CacheInv, ListOK, Objects
<1>0. s \in 0 .. MaxSerial
  BY RtrCacheAssumption DEF CacheSafe, CacheInv, NumbersOK
<1>2. ASSUME NEW r \in Roas
      PROVE  /\ HasA(q, r) <=> \E e \in O : e.ann /\ e.roa = r
             /\ HasW(q, r) <=> \E e \in O : ~e.ann /\ e.roa = r
             /\ (\A d, e \in O : d.roa = r /\ e.roa = r /\ d.pos < e.pos => ~d.ann /\ e.ann)
                    => Clean(q, r)
  BY <1>1, AnswerParts
<1> HIDE DEF O
<1>3. PICK had \in past[s] : \A r \in Roas :
          /\ Mentions(had, r) => held[c][r] = 1
          /\ ~Mentions(had, r) => held[c][r] = 0
  BY DEF HeldIs
<1>4. /\ withdrawn \subseteq had /\ announced \cap had = {}
      /\ (had \ withdrawn) \cup announced = Announced(entries)
  <2>1. Exact(had, s)
    BY <1>0, <1>1, Inv_DeltaExact DEF DeltaExact
  <2> QED
    BY <2>1 DEF Exact, O
<1>5. \A x, y \in had : x[1] = y[1] => x = y
  BY <1>0 DEF CacheSafe, ListInv, SentOnce
<1>6. \A e : Id(e)[1] = e.roa
  BY DEF Id
<1>7. ASSUME NEW r \in Roas
      PROVE  /\ HasA(q, r) <=> \E x \in announced : x[1] = r
             /\ HasW(q, r) <=> \E x \in withdrawn : x[1] = r
  <2>1. (\E e \in O : e.ann /\ e.roa = r) <=> \E x \in announced : x[1] = r
    BY <1>6
  <2>2. (\E e \in O : ~e.ann /\ e.roa = r) <=> \E x \in withdrawn : x[1] = r
    BY <1>6
  <2> QED
    BY <1>2, <2>1, <2>2
<1>8. ASSUME NEW r \in Roas, NEW d \in O, NEW e \in O, d.roa = r, e.roa = r, d.pos < e.pos
      PROVE  ~d.ann /\ e.ann
  <2>1. d \in entries /\ e \in entries /\ d # e /\ ~(e.pos < d.pos)
    BY <1>1, <1>8
  <2>2. ~(d.ann /\ e.ann)
    BY <2>1, <1>8 DEF CacheSafe, ListInv, OneAnnounced
  <2>3. ~(d.ann /\ ~e.ann)
    BY <2>1, <1>8 DEF CacheSafe, ListInv, WithdrawnFirst
  <2>4. ~(~d.ann /\ ~e.ann)
    <3> SUFFICES ASSUME ~d.ann, ~e.ann PROVE FALSE
      OBVIOUS
    <3>1. Id(d) \in had /\ Id(e) \in had
      BY <1>4
    <3>2. Id(d) = Id(e)
      BY <1>5, <1>6, <1>8, <3>1
    <3>3. d.born = e.born
      BY <3>2 DEF Id
    <3> QED
      BY <2>1, <3>3, <1>1 DEF CacheInv, Sorted
  <2> QED
    BY <2>2, <2>3, <2>4
<1> SUFFICES ASSUME NEW r \in Roas
             PROVE  /\ Clean(q, r)
                    /\ HasW(q, r) => held[c][r] = 1
                    /\ HasA(q, r) => HasW(q, r) \/ held[c][r] = 0
                    /\ Mentions(Announced(entries), r) =>
                          HasA(q, r) \/ (held[c][r] = 1 /\ ~HasW(q, r))
                    /\ ~Mentions(Announced(entries), r) =>
                          ~HasA(q, r) /\ (held[c][r] = 0 \/ HasW(q, r))
  OBVIOUS
<1>9. Clean(q, r)
  BY <1>2, <1>8
<1>10. /\ HasA(q, r) <=> \E x \in announced : x[1] = r
       /\ HasW(q, r) <=> \E x \in withdrawn : x[1] = r
       /\ Mentions(had, r) => held[c][r] = 1
       /\ ~Mentions(had, r) => held[c][r] = 0
  BY <1>3, <1>7
<1>11. \A x, y \in Announced(entries) : x[1] = y[1] => x = y
  BY <1>6 DEF CacheSafe, ListInv, OneAnnounced, Announced
<1> HIDE DEF announced, withdrawn
<1>12. HasW(q, r) => held[c][r] = 1
  BY <1>4, <1>10 DEF Mentions
<1>13. HasA(q, r) => HasW(q, r) \/ held[c][r] = 0
  <2> SUFFICES ASSUME HasA(q, r), ~HasW(q, r), Mentions(had, r) PROVE FALSE
    BY <1>10
  <2>1. PICK x \in announced : x[1] = r
    BY <1>10
  <2>2. PICK y \in had : y[1] = r
    BY DEF Mentions
  <2>3. y \notin withdrawn
    BY <2>2, <1>10
  <2>4. x \in Announced(entries) /\ y \in Announced(entries)
    BY <2>1, <2>2, <2>3, <1>4
  <2>5. x = y
    BY <2>1, <2>2, <2>4, <1>11
  <2> QED
    BY <2>1, <2>2, <2>5, <1>4
<1>14. ASSUME Mentions(Announced(entries), r)
       PROVE  HasA(q, r) \/ (held[c][r] = 1 /\ ~HasW(q, r))
  <2>1. PICK x \in Announced(entries) : x[1] = r
    BY <1>14 DEF Mentions
  <2>2. CASE x \in announced
    BY <2>1, <2>2, <1>10
  <2>3. CASE x \in had \ withdrawn
    <3>1. ~HasW(q, r)
      BY <2>1, <2>3, <1>4, <1>5, <1>10
    <3> QED
      BY <2>1, <2>3, <3>1, <1>10 DEF Mentions
  <2> QED
    BY <1>4, <2>2, <2>3
<1>15. ASSUME ~Mentions(Announced(entries), r)
       PROVE  ~HasA(q, r) /\ (held[c][r] = 0 \/ HasW(q, r))
  <2>1. ~HasA(q, r)
    BY <1>4, <1>10, <1>15 DEF Mentions
  <2>2. ASSUME Mentions(had, r) PROVE HasW(q, r)
    BY <1>4, <1>10, <1>15, <2>2 DEF Mentions
  <2> QED
    BY <2>1, <2>2, <1>10
<1> QED
  BY <1>9, <1>12, <1>13, <1>14, <1>15

\* A query is handled.
LEMMA ExactHandle ==
    ASSUME SessionTypeOK, ~mishap, CacheSafe, CacheSafe', CacheGoesOn, NEW c \in Routers,
           ExactOK(c), HandleQuery(c)
    PROVE  ExactOK(c)'
<1> DEFINE q == Head(queries[c])
           z == <<[type |-> "reset"]>>
<1>1. /\ queries[c] # <<>> /\ sending[c] = <<>> /\ queries'[c] = Tail(queries[c])
      /\ UNCHANGED <<cacheVars, sessionID, pdus, at, client, held>>
  BY DEF HandleQuery, SessionTypeOK, rtrVars
<1>2. sending'[c] = IF q.type = "reset" THEN Answer(TRUE, 0)
                    ELSE IF q.sid # sessionID THEN <<>>
                    ELSE IF checkSerial(minPSExpired, maxSExpired, q.serial)
                         THEN z
                    ELSE Answer(FALSE, q.serial)
  BY DEF HandleQuery, SessionTypeOK
<1>3. /\ Len(queries[c]) = 1 /\ NoData(pdus[c])
      /\ q.type = "reset" => \A r \in Roas : held[c][r] = 0
      /\ q.type = "serial" =>
            /\ q.sid \in SessionIDs /\ q.sid <= sessionID
            /\ q.sid = sessionID => HeldIs(c, q.serial)
  BY <1>1 DEF ExactOK, OneQuery, QueryOK
<1>4. queries'[c] = <<>>
  BY <1>1, <1>3, Typed, HeadTailProperties, EmptySeq
<1>5. /\ q \in Query /\ CacheInv /\ sessionID \in SessionIDs /\ sessionID \in Nat
      /\ maxSerial \in Nat
  BY <1>1, HeadTail, SessionAssumption DEF CacheSafe, CacheInv, NumbersOK, SessionTypeOK
<1> HIDE DEF q, z
<1>6. /\ Ends(pdus[c]) = {} /\ EndLast(pdus[c])
      /\ \A r : ~HasA(pdus[c], r) /\ ~HasW(pdus[c], r) /\ Clean(pdus[c], r)
  BY <1>3, NoDataFacts
<1>7. OneQuery(c)' /\ QueryOK(c)'
  BY <1>4 DEF OneQuery, QueryOK

\* A router that is answered, with data or without.
<1>8. ASSUME NEW isReset \in BOOLEAN, NEW serial, sending'[c] = Answer(isReset, serial),
             \A r \in Roas :
                /\ Clean(sending'[c], r)
                /\ HasW(sending'[c], r) => held[c][r] = 1
                /\ HasA(sending'[c], r) => HasW(sending'[c], r) \/ held[c][r] = 0
                /\ Mentions(Announced(entries), r) =>
                      HasA(sending'[c], r) \/ (held[c][r] = 1 /\ ~HasW(sending'[c], r))
                /\ ~Mentions(Announced(entries), r) =>
                      ~HasA(sending'[c], r) /\ (held[c][r] = 0 \/ HasW(sending'[c], r))
      PROVE  ExactOK(c)'
  <2>1. Ends(sending'[c]) = {EndPart} /\ EndLast(sending'[c]) /\ ~NoData(sending'[c])
    BY <1>5, <1>8, AnswerFacts
  <2>2. ASSUME NEW r \in Roas
        PROVE  /\ StreamOf(c, r)'
               /\ Mentions(Announced(entries), r) => WillHold(c, r)'
               /\ ~Mentions(Announced(entries), r) => WillLack(c, r)'
    BY <1>1, <1>6, <1>8 DEF StreamOf, WillHold, WillLack
  <2>3. LeadsNow(c)'
    BY <1>1, <2>2 DEF LeadsNow, cacheVars
  <2>4. EndOK(c)'
    <3>1. Ends(pdus'[c]) = {} /\ EndLast(pdus'[c])
      BY <1>1, <1>6
    <3> QED
      BY <1>1, <2>1, <2>3, <3>1 DEF EndOK
  <2>5. ClientOK(c)'
    BY <2>1 DEF ClientOK, Quiet
  <2>6. StreamOK(c)'
    BY <2>2 DEF StreamOK
  <2> QED
    BY <1>7, <2>4, <2>5, <2>6 DEF ExactOK
<1>9. ASSUME NoData(sending'[c]), q.type = "serial"
      PROVE  ExactOK(c)'
  <2>1. /\ Ends(sending'[c]) = {} /\ EndLast(sending'[c])
        /\ \A r : ~HasA(sending'[c], r) /\ ~HasW(sending'[c], r) /\ Clean(sending'[c], r)
    BY <1>9, NoDataFacts
  <2>2. StreamOK(c)'
    BY <1>1, <1>6, <2>1 DEF StreamOK, StreamOf
  <2>3. EndOK(c)'
    BY <1>1, <1>3, <1>6, <1>9, <2>1 DEF EndOK, Quiet
  <2>4. Quiet(c)
    BY <1>1, <1>3, EmptyFacts DEF Quiet
  <2>5. at[c] # "reload"
    BY <1>9, <2>4 DEF ExactOK, ClientOK, q
  <2>6. ClientOK(c)'
    <3>1. \A s : HeldIs(c, s) => HeldIs(c, s)'
      BY <1>1, HeldKept
    <3> QED
      BY <1>1, <2>4, <2>5, <3>1, Zenon DEF ExactOK, ClientOK
  <2> QED
    BY <1>7, <2>2, <2>3, <2>6 DEF ExactOK
<1>10. CASE q.type = "reset"
  <2>1. sending'[c] = Answer(TRUE, 0)
    BY <1>2, <1>10
  <2>2. ASSUME NEW isReset \in BOOLEAN, isReset, NEW serial, sending'[c] = Answer(isReset, serial)
        PROVE  ExactOK(c)'
    <3>1. ASSUME NEW r \in Roas
          PROVE  /\ Clean(sending'[c], r) /\ ~HasW(sending'[c], r)
                 /\ HasA(sending'[c], r) <=> Mentions(Announced(entries), r)
      BY <2>2, ResetAnswer
    <3>2. \A r \in Roas : held[c][r] = 0
      BY <1>3, <1>10
    <3> QED
      BY <1>8, <2>2, <3>1, <3>2
  <2> QED
    BY <2>1, <2>2
<1>11. CASE q.type = "serial" /\ q.sid = sessionID
            /\ ~checkSerial(minPSExpired, maxSExpired, q.serial)
  <2>1. sending'[c] = Answer(FALSE, q.serial) /\ HeldIs(c, q.serial)
    BY <1>2, <1>3, <1>11
  <2>2. q.serial \in 0 .. maxSerial
    BY <2>1 DEF HeldIs
  <2>3. \A r \in Roas :
                /\ Clean(sending'[c], r)
                /\ HasW(sending'[c], r) => held[c][r] = 1
                /\ HasA(sending'[c], r) => HasW(sending'[c], r) \/ held[c][r] = 0
                /\ Mentions(Announced(entries), r) =>
                      HasA(sending'[c], r) \/ (held[c][r] = 1 /\ ~HasW(sending'[c], r))
                /\ ~Mentions(Announced(entries), r) =>
                      ~HasA(sending'[c], r) /\ (held[c][r] = 0 \/ HasW(sending'[c], r))
    BY <1>11, <2>1, <2>2, SerialAnswer
  <2> QED
    BY <1>8, <2>1, <2>3
<1>12. CASE q.type = "serial" /\ sending'[c] = <<>>
  BY <1>9, <1>12, EmptyFacts
<1>13. CASE q.type = "serial" /\ sending'[c] = z
  <2>1. NoData(z)
    BY DEF z, NoData, IsData
  <2> QED
    BY <1>9, <1>13, <2>1
<1>14. q.type \in {"serial", "reset"}
  BY <1>5 DEF Query
<1> QED
  BY <1>2, <1>10, <1>11, <1>12, <1>13, <1>14

\* A query is asked that repeats nothing.
LEMMA AskedOnce ==
    ASSUME SessionTypeOK, NEW c \in Routers, c \in conn, NEW type, NEW x, Ask(c, type, x),
           c \notin repeated'
    PROVE  /\ queries[c] = <<>> /\ sending[c] = <<>> /\ NoData(pdus[c])
           /\ type = "reset" => \A r \in Roas : held[c][r] = 0
           /\ queries'[c] = <<[type |-> type, sid |-> x.sid, serial |-> x.serial]>>
<1>1. ~Repeats(c, type)
  BY DEF Ask
<1>2. queries[c] = <<>> /\ sending[c] = <<>>
  BY <1>1 DEF Repeats
<1>3. NoData(pdus[c])
  <2>1. pdus[c] \in Seq(PDU) /\ DOMAIN pdus[c] = 1 .. Len(pdus[c])
    BY Typed
  <2> QED
    BY <1>1, <2>1 DEF Repeats, NoData, IsData
<1>4. ASSUME type = "reset", NEW r \in Roas PROVE held[c][r] = 0
  BY <1>1, <1>4 DEF Repeats, SessionTypeOK
<1>5. queries'[c] = Append(queries[c], [type |-> type, sid |-> x.sid, serial |-> x.serial])
  BY DEF Ask, SessionTypeOK
<1> QED
  BY <1>2, <1>3, <1>4, <1>5

\* A PDU is processed, and what is on the way comes to the same.
LEMMA StreamReceive ==
    ASSUME SessionTypeOK, NEW c \in Routers, NEW go, NEW halt, NEW onEnd,
           Receive(c, go, halt, onEnd), NEW r \in Roas, StreamOf(c, r)
    PROVE  /\ StreamOf(c, r)'
           /\ WillHold(c, r) => WillHold(c, r)'
           /\ WillLack(c, r) => WillLack(c, r)'
<1> DEFINE p == Head(pdus[c])
           t == Tail(pdus[c])
<1>1. pdus[c] # <<>> /\ pdus[c] \in Seq(PDU) /\ pdus'[c] = t /\ sending'[c] = sending[c]
  BY Received, Typed DEF SessionTypeOK
<1>2. held[c][r] \in Nat
  BY DEF SessionTypeOK
<1>3. /\ IsA(p, r) => held'[c][r] = held[c][r] + 1
      /\ IsW(p, r) => held'[c][r] = IF held[c][r] = 0 THEN 0 ELSE held[c][r] - 1
      /\ ~IsA(p, r) /\ ~IsW(p, r) => held'[c][r] = held[c][r]
      /\ ~(IsA(p, r) /\ IsW(p, r))
  <2>1. CASE UNCHANGED held /\ p.type # "prefix"
    BY <2>1 DEF IsA, IsW
  <2>2. CASE p.type = "prefix" /\ p.roa \in Roas /\ p.ann \in BOOLEAN /\ Hold(c, p)
    <3>1. /\ \A x \in Roas : x # p.roa => held'[c][x] = held[c][x]
          /\ p.ann => held'[c][p.roa] = held[c][p.roa] + 1
          /\ ~p.ann => held'[c][p.roa] = IF held[c][p.roa] = 0 THEN 0 ELSE held[c][p.roa] - 1
      BY <2>2, HoldTyped
    <3> QED
      BY <2>2, <3>1 DEF IsA, IsW
  <2> QED
    BY <2>1, <2>2, Received
<1>4. /\ HasA(pdus[c], r) <=> IsA(p, r) \/ HasA(t, r)
      /\ HasW(pdus[c], r) <=> IsW(p, r) \/ HasW(t, r)
      /\ Clean(pdus[c], r) <=> /\ Clean(t, r)
                               /\ IsA(p, r) => ~HasA(t, r) /\ ~HasW(t, r)
                               /\ IsW(p, r) => ~HasW(t, r)
  BY <1>1, PopFacts
<1> HIDE DEF p, t
<1> QED
  BY <1>1, <1>2, <1>3, <1>4 DEF StreamOf, WillHold, WillLack

\* Where receivePDUs is called from, and where it leaves the client.
Placed(c, go, halt, onEnd) ==
    \/ at[c] = "receive" /\ go = "receive" /\ halt = "lost" /\ onEnd = "receive"
    \/ at[c] = "reload" /\ go = "reload" /\ halt = "start" /\ onEnd = "start"
    \/ /\ at[c] = "first" /\ halt = go /\ onEnd = go
       /\ go = IF Head(pdus[c]).type = "response" THEN "receive" ELSE "stopped"

\* The router reads a PDU, by the type of it.
LEMMA ReceivedAt ==
    ASSUME SessionTypeOK, NEW c \in Routers, NEW go, NEW halt, NEW onEnd,
           Receive(c, go, halt, onEnd), Placed(c, go, halt, onEnd), at'[c] # "stopped",
           NEW p, p = Head(pdus[c]), NEW k, k = client[c], NEW x, x = client'[c]
    PROVE  \/ /\ p.type = "notify" /\ queries'[c] = queries[c] /\ held'[c] = held[c]
              /\ at'[c] \in {"lost", "start"}
           \/ /\ p.type = "notify" /\ held'[c] = held[c]
              /\ at[c] \in {"receive", "reload"} /\ at'[c] = at[c]
              /\ ~k.startup => x.sid = k.sid /\ x.startup = k.startup /\ x.serial = k.serial
              /\ Ask(c, "serial", x)
           \/ /\ p.type \in {"response", "prefix"} /\ queries'[c] = queries[c]
           \/ /\ p.type = "end" /\ queries'[c] = queries[c] /\ held'[c] = held[c]
              /\ at[c] = "receive" /\ at'[c] = "receive"
              /\ p.sid \in SessionIDs /\ x.sid = p.sid /\ ~x.startup /\ x.serial = p.serial
           \/ /\ p.type = "end" /\ queries'[c] = queries[c] /\ held'[c] = held[c]
              /\ at'[c] \in {"lost", "start"}
           \/ /\ p.type = "reset" /\ held'[c] = held[c]
              /\ at[c] \in {"receive", "reload"} /\ at'[c] = at[c]
              /\ x.sid = k.sid /\ x.startup = k.startup /\ x.serial = k.serial
              /\ Ask(c, "reset", x)
<1> DEFINE y == [client[c] EXCEPT !.lastRecv = p.type]
<1>1. p \in PDU /\ y \in Client /\ k \in Client
  BY Received, Typed
<1>2. y.sid = k.sid /\ y.startup = k.startup /\ y.serial = k.serial
  BY <1>1 DEF Client
<1>3. /\ \A z : client' = [client EXCEPT ![c] = z] => x = z
      /\ \A z : at' = [at EXCEPT ![c] = z] => at'[c] = z
  BY DEF SessionTypeOK
<1> HIDE DEF y
<1>4. ASSUME p.sid \in SessionIDs
      PROVE  /\ Checked(y, p.sid) \in Client
             /\ ~y.startup => /\ Checked(y, p.sid).sid = y.sid
                              /\ Checked(y, p.sid).startup = y.startup
             /\ Checked(y, p.sid).serial = y.serial
             /\ SameSession(y, p.sid) => Checked(y, p.sid).sid = p.sid /\ ~Checked(y, p.sid).startup
  BY <1>1, <1>4, CheckedTyped DEF Checked, SameSession, Client
<1>5. CASE /\ p.type = "notify" /\ p.sid \in SessionIDs /\ SameSession(y, p.sid)
           /\ client' = [client EXCEPT ![c] = Checked(y, p.sid)]
           /\ at' = [at EXCEPT ![c] = go]
           /\ Ask(c, "serial", Checked(y, p.sid)) /\ UNCHANGED held
  <2>1. x = Checked(y, p.sid) /\ at'[c] = go
    BY <1>3, <1>5
  <2>2. at[c] \in {"receive", "reload"} /\ at'[c] = at[c]
    BY <1>5, <2>1 DEF Placed
  <2> QED
    BY <1>2, <1>4, <1>5, <2>1, <2>2
<1>6. CASE /\ p.type \in {"notify", "end"} /\ at' = [at EXCEPT ![c] = halt]
           /\ UNCHANGED <<queries, held>>
  <2>1. at'[c] \in {"lost", "start"}
    BY <1>3, <1>6 DEF Placed
  <2> QED
    BY <1>6, <2>1
<1>7. CASE /\ p.type = "end" /\ p.sid \in SessionIDs /\ SameSession(y, p.sid)
           /\ client' = [client EXCEPT ![c] = [Checked(y, p.sid) EXCEPT !.serial = p.serial]]
           /\ at' = [at EXCEPT ![c] = onEnd] /\ UNCHANGED <<queries, held>>
  <2>1. x = [Checked(y, p.sid) EXCEPT !.serial = p.serial] /\ at'[c] = onEnd
    BY <1>3, <1>7
  <2>2. x.sid = p.sid /\ ~x.startup /\ x.serial = p.serial
    BY <1>4, <1>7, <2>1 DEF Client
  <2>3. (at[c] = "receive" /\ at'[c] = "receive") \/ at'[c] = "start"
    BY <1>7, <2>1 DEF Placed
  <2> QED
    BY <1>7, <2>2, <2>3
<1>8. CASE /\ p.type = "reset" /\ client' = [client EXCEPT ![c] = y]
           /\ at' = [at EXCEPT ![c] = go] /\ Ask(c, "reset", y) /\ UNCHANGED held
  <2>1. x = y /\ at'[c] = go
    BY <1>3, <1>8
  <2>2. at[c] \in {"receive", "reload"} /\ at'[c] = at[c]
    BY <1>8, <2>1 DEF Placed
  <2> QED
    BY <1>2, <1>8, <2>1, <2>2
<1>9. CASE p.type \in {"response", "prefix"} /\ UNCHANGED queries
  BY <1>9
<1> QED
  BY <1>5, <1>6, <1>7, <1>8, <1>9, Received DEF y

\* The router reads a PDU.
LEMMA ExactReceive ==
    ASSUME SessionTypeOK, CacheSafe, CacheSafe', CacheGoesOn, NEW c \in Routers, c \in conn,
           ExactOK(c), NEW go, NEW halt, NEW onEnd, Receive(c, go, halt, onEnd),
           Placed(c, go, halt, onEnd), at'[c] # "stopped", c \notin repeated',
           NEW p, p = Head(pdus[c]), NEW k, k = client[c], NEW x, x = client'[c]
    PROVE  ExactOK(c)'
<1> DEFINE t == Tail(pdus[c])
           Notified1 == /\ p.type = "notify" /\ held'[c] = held[c]
                        /\ at[c] \in {"receive", "reload"} /\ at'[c] = at[c]
                        /\ ~k.startup => x.sid = k.sid /\ x.startup = k.startup /\ x.serial = k.serial
                        /\ Ask(c, "serial", x)
           Ended == /\ p.type = "end" /\ queries'[c] = queries[c] /\ held'[c] = held[c]
                    /\ at[c] = "receive" /\ at'[c] = "receive"
                    /\ p.sid \in SessionIDs /\ x.sid = p.sid /\ ~x.startup /\ x.serial = p.serial
           Asked == /\ p.type = "reset" /\ held'[c] = held[c]
                    /\ at[c] \in {"receive", "reload"} /\ at'[c] = at[c]
                    /\ x.sid = k.sid /\ x.startup = k.startup /\ x.serial = k.serial
                    /\ Ask(c, "reset", x)
           Left == /\ p.type \in {"notify", "end"} /\ queries'[c] = queries[c]
                   /\ held'[c] = held[c] /\ at'[c] \in {"lost", "start"}
           Piece == p.type \in {"response", "prefix"} /\ queries'[c] = queries[c]
<1>1. /\ pdus[c] # <<>> /\ pdus[c] \in Seq(PDU) /\ p \in PDU /\ pdus'[c] = t
      /\ UNCHANGED <<cacheVars, sessionID, sending>>
  <2>1. /\ pdus[c] # <<>> /\ p \in PDU /\ pdus' = [pdus EXCEPT ![c] = Tail(pdus[c])]
        /\ UNCHANGED <<cacheVars, sessionID, notify, conn, sending, otherVars>>
    BY Received
  <2> QED
    BY <2>1, Typed DEF SessionTypeOK
<1>2. Notified1 \/ Ended \/ Asked \/ Left \/ Piece
  BY ReceivedAt
<1>3. p.type \in {"response", "prefix"} => UNCHANGED queries
  BY Received
<1>4. /\ NoData(pdus[c]) <=> ~IsData(p) /\ NoData(t)
      /\ Ends(pdus[c]) = Ends(t) \cup (IF IsEnd(p) THEN {p} ELSE {})
      /\ EndLast(pdus[c]) <=> EndLast(t) /\ (IsEnd(p) => NoData(t))
  BY <1>1, PopFacts
<1>5. ~IsData(p) => held'[c] = held[c]
  BY <1>2 DEF IsData
<1>6. \A r \in Roas : /\ StreamOf(c, r)'
                      /\ WillHold(c, r) => WillHold(c, r)'
                      /\ WillLack(c, r) => WillLack(c, r)'
  BY StreamReceive DEF ExactOK, StreamOK
<1>7. \A s : /\ Leads(c, s) => Leads(c, s)'
             /\ held'[c] = held[c] /\ HeldIs(c, s) => HeldIs(c, s)'
  BY <1>6, LeadsKept, HeldKept
<1>8. ASSUME NEW type, Ask(c, type, x)
      PROVE  /\ queries[c] = <<>> /\ sending[c] = <<>> /\ NoData(pdus[c]) /\ at[c] # "reload"
             /\ type = "reset" => \A r \in Roas : held[c][r] = 0
             /\ queries'[c] = <<[type |-> type, sid |-> x.sid, serial |-> x.serial]>>
  <2>1. /\ queries[c] = <<>> /\ sending[c] = <<>> /\ NoData(pdus[c])
        /\ type = "reset" => \A r \in Roas : held[c][r] = 0
        /\ queries'[c] = <<[type |-> type, sid |-> x.sid, serial |-> x.serial]>>
    BY <1>8, AskedOnce
  <2>2. at[c] # "reload"
    BY <2>1, EmptyFacts DEF ExactOK, ClientOK, Quiet
  <2> QED
    BY <2>1, <2>2
<1>9. /\ at[c] = "receive" /\ Quiet(c) =>
            /\ ~k.startup /\ k.sid \in SessionIDs /\ k.sid <= sessionID
            /\ k.sid = sessionID => HeldIs(c, k.serial)
      /\ at[c] = "reload" /\ Quiet(c) => queries[c] # <<>> /\ Head(queries[c]).type = "reset"
  BY DEF ExactOK, ClientOK
<1>10. Notified1 \/ Asked => at[c] = "receive" /\ Quiet(c) /\ sending[c] = <<>> /\ NoData(pdus[c])
  BY <1>8, EmptyFacts DEF Quiet
<1>11. IsEnd(p) => Quiet(c)'
  <2> SUFFICES ASSUME IsEnd(p) PROVE Quiet(c)'
    OBVIOUS
  <2>1. p \in Ends(pdus[c]) /\ NoData(t)
    BY <1>4 DEF ExactOK, EndOK
  <2>2. NoData(sending[c])
    BY <2>1 DEF ExactOK, EndOK
  <2> QED
    BY <1>1, <2>1, <2>2 DEF Quiet
<1>12. ~IsEnd(p) => Ends(t) = Ends(pdus[c])
  BY <1>4
<1>13. IsData(p) /\ ~IsEnd(p) => ~Quiet(c)'
  <2> SUFFICES ASSUME IsData(p), ~IsEnd(p), Quiet(c)' PROVE FALSE
    OBVIOUS
  <2>1. ~Quiet(c)
    BY <1>4 DEF Quiet
  <2>2. Ends(pdus[c]) # {} \/ Ends(sending[c]) # {}
    BY <2>1 DEF ExactOK, EndOK
  <2>3. Ends(t) = {} /\ Ends(sending[c]) = {}
    BY <1>1, NoDataFacts DEF Quiet
  <2> QED
    BY <1>12, <2>2, <2>3
<1>14. ~IsData(p) => (Quiet(c)' <=> Quiet(c))
  BY <1>1, <1>4 DEF Quiet
<1>15. /\ p.type \in {"notify", "reset"} => ~IsData(p)
       /\ p.type = "end" <=> IsEnd(p)
       /\ p.type \in {"response", "prefix"} => IsData(p) /\ ~IsEnd(p)
       /\ IsEnd(p) => IsData(p)
  BY DEF IsData, IsEnd
<1>16. StreamOK(c)'
  BY <1>6 DEF StreamOK
<1>17. EndOK(c)'
  <2>1. /\ EndLast(pdus[c]) /\ EndLast(sending[c])
        /\ Ends(pdus[c]) # {} => NoData(sending[c])
        /\ ~Quiet(c) => Ends(pdus[c]) # {} \/ Ends(sending[c]) # {}
        /\ \A z \in Ends(pdus[c]) : z.sid <= sessionID /\ Leads(c, z.serial)
        /\ Ends(sending[c]) # {} => LeadsNow(c)
    BY DEF ExactOK, EndOK
  <2>2. ~Quiet(c)' => Ends(t) # {} \/ Ends(sending[c]) # {}
    <3> SUFFICES ASSUME ~Quiet(c)' PROVE Ends(t) # {} \/ Ends(sending[c]) # {}
      OBVIOUS
    <3>1. ~IsEnd(p) /\ ~Quiet(c)
      BY <1>1, <1>4, <1>11 DEF Quiet
    <3> QED
      BY <1>12, <2>1, <3>1
  <2>3. \A z \in Ends(t) : z.sid <= sessionID /\ Leads(c, z.serial)'
    BY <1>4, <1>7, <2>1
  <2>4. Ends(sending[c]) # {} => LeadsNow(c)'
    BY <1>1, <1>6, <2>1 DEF LeadsNow, cacheVars
  <2> QED
    BY <1>1, <1>4, <2>1, <2>2, <2>3, <2>4 DEF EndOK
<1>18. OneQuery(c)'
  <2>1. CASE queries'[c] = queries[c]
    BY <1>1, <1>4, <2>1 DEF ExactOK, OneQuery
  <2>2. ASSUME NEW type, Ask(c, type, x) PROVE OneQuery(c)'
    <3>1. sending'[c] = <<>> /\ NoData(pdus'[c])
      BY <1>1, <1>4, <1>8, <2>2
    <3>2. \A z : Len(<<z>>) = 1
      OBVIOUS
    <3>3. Len(queries'[c]) = 1
      BY <1>8, <2>2, <3>2
    <3> QED
      BY <3>1, <3>3 DEF OneQuery
  <2> QED
    BY <1>2, <2>1, <2>2
<1>19. QueryOK(c)'
  <2> DEFINE OK(q) == /\ q.type = "reset" => \A r \in Roas : held'[c][r] = 0
                      /\ q.type = "serial" =>
                            /\ q.sid \in SessionIDs /\ q.sid <= sessionID
                            /\ q.sid = sessionID => HeldIs(c, q.serial)'
  <2> SUFFICES ASSUME queries'[c] # <<>>, NEW q, q = Head(queries'[c]) PROVE OK(q)
    BY <1>1 DEF QueryOK
  <2>1. CASE queries'[c] = queries[c]
    <3>1. held'[c] = held[c]
      BY <1>4, <1>5, <2>1 DEF ExactOK, OneQuery
    <3>2. /\ q.type = "reset" => \A r \in Roas : held[c][r] = 0
          /\ q.type = "serial" =>
                /\ q.sid \in SessionIDs /\ q.sid <= sessionID
                /\ q.sid = sessionID => HeldIs(c, q.serial)
      BY <2>1 DEF ExactOK, QueryOK
    <3> QED
      BY <1>7, <3>1, <3>2
  <2>2. CASE Asked
    <3>1. /\ queries'[c] = <<[type |-> "reset", sid |-> x.sid, serial |-> x.serial]>>
          /\ \A r \in Roas : held[c][r] = 0
      BY <1>8, <2>2
    <3>2. q.type = "reset"
      BY <3>1
    <3> QED
      BY <2>2, <3>1, <3>2
  <2>3. CASE Notified1
    <3>1. queries'[c] = <<[type |-> "serial", sid |-> x.sid, serial |-> x.serial]>>
      BY <1>8, <2>3
    <3>2. q.type = "serial" /\ q.sid = x.sid /\ q.serial = x.serial
      BY <3>1
    <3>3. /\ ~k.startup /\ k.sid \in SessionIDs /\ k.sid <= sessionID
          /\ k.sid = sessionID => HeldIs(c, k.serial)
      BY <1>9, <1>10, <2>3
    <3>4. x.sid = k.sid /\ x.serial = k.serial
      BY <2>3, <3>3
    <3> QED
      BY <1>7, <2>3, <3>2, <3>3, <3>4
  <2> QED
    BY <1>2, <2>1, <2>2, <2>3
<1>20. ClientOK(c)'
  <2>1. CASE Notified1 \/ Asked
    <3>1. at'[c] = "receive" /\ held'[c] = held[c]
      BY <1>10, <2>1
    <3>2. /\ ~k.startup /\ k.sid \in SessionIDs /\ k.sid <= sessionID
          /\ k.sid = sessionID => HeldIs(c, k.serial)
      BY <1>9, <1>10, <2>1
    <3>3. x.sid = k.sid /\ x.serial = k.serial /\ ~x.startup
      BY <2>1, <3>2
    <3>4. /\ ~x.startup /\ x.sid \in SessionIDs /\ x.sid <= sessionID
          /\ x.sid = sessionID => HeldIs(c, x.serial)'
      BY <1>7, <3>1, <3>2, <3>3
    <3> QED
      BY <1>1, <3>1, <3>4 DEF ClientOK
  <2>2. CASE Left
    BY <2>2 DEF ClientOK
  <2>3. CASE Piece
    BY <1>13, <1>15, <2>3 DEF ClientOK
  <2>4. CASE Ended
    <3>1. p \in Ends(pdus[c])
      BY <1>4, <1>15, <2>4
    <3>2. p.sid <= sessionID /\ Leads(c, p.serial)'
      BY <1>7, <3>1 DEF ExactOK, EndOK
    <3>3. \A r : /\ ~HasA(pdus'[c], r) /\ ~HasW(pdus'[c], r)
                 /\ ~HasA(sending'[c], r) /\ ~HasW(sending'[c], r)
      BY <1>11, <1>15, <2>4, NoDataFacts DEF Quiet
    <3>4. HeldIs(c, p.serial)'
      BY <3>2, <3>3 DEF HeldIs, Leads, WillHold, WillLack
    <3> QED
      BY <1>1, <2>4, <3>2, <3>4 DEF ClientOK
  <2> QED
    BY <1>2, <2>1, <2>2, <2>3, <2>4
<1> QED
  BY <1>16, <1>17, <1>18, <1>19, <1>20 DEF ExactOK

\* A connection starts with a Reset Query.
LEMMA ExactStart ==
    ASSUME SessionTypeOK, NEW c \in Routers, c \in conn, ExactOK(c), Start(c), c \notin repeated'
    PROVE  ExactOK(c)'
<1>1. /\ Ask(c, "reset", client[c]) /\ at'[c] = "first"
      /\ UNCHANGED <<cacheVars, sessionID, sending, pdus, client, held>>
  BY DEF Start, SessionTypeOK
<1>2. /\ sending[c] = <<>> /\ NoData(pdus[c])
      /\ \A r \in Roas : held[c][r] = 0
      /\ queries'[c] = <<[type |-> "reset", sid |-> client[c].sid, serial |-> client[c].serial]>>
  BY <1>1, AskedOnce
<1>3. OneQuery(c)' /\ QueryOK(c)'
  <2>1. \A z : Len(<<z>>) = 1 /\ Head(<<z>>) = z
    OBVIOUS
  <2>2. Len(queries'[c]) = 1 /\ Head(queries'[c]).type = "reset"
    BY <1>2, <2>1
  <2> QED
    BY <1>1, <1>2, <2>2 DEF OneQuery, QueryOK
<1>4. StreamOK(c)'
  BY <1>1 DEF ExactOK, StreamOK, StreamOf
<1>5. EndOK(c)'
  BY <1>1 DEF ExactOK, EndOK, Quiet, Leads, LeadsNow, WillHold, WillLack, cacheVars, history
<1>6. ClientOK(c)'
  BY <1>1 DEF ClientOK
<1> QED
  BY <1>3, <1>4, <1>5, <1>6 DEF ExactOK

\* On a new connection a Reset Query may be on its way, from a router without ROAs.
LEMMA ExactReconnect ==
    ASSUME SessionTypeOK, NEW c \in Routers, Reconnect(c), c \notin repeated'
    PROVE  ExactOK(c)'
<1> DEFINE q == [type |-> "reset", sid |-> client[c].sid, serial |-> client[c].serial]
<1>1. /\ pdus'[c] = <<>> /\ sending'[c] = <<>> /\ UNCHANGED held
      /\ \/ queries'[c] = <<>> /\ at'[c] = "start"
         \/ /\ queries'[c] = <<q>> /\ at'[c] = "reload"
            /\ ~\E r \in Roas : held[c][r] > 0
  BY DEF Reconnect, SessionTypeOK
<1>2. q.type = "reset"
  OBVIOUS
<1> HIDE DEF q
<1>3. \A r : /\ ~HasA(pdus'[c], r) /\ ~HasW(pdus'[c], r) /\ Clean(pdus'[c], r)
             /\ ~HasA(sending'[c], r) /\ ~HasW(sending'[c], r) /\ Clean(sending'[c], r)
  BY <1>1, EmptyFacts
<1>4. /\ NoData(pdus'[c]) /\ Ends(pdus'[c]) = {} /\ EndLast(pdus'[c])
      /\ NoData(sending'[c]) /\ Ends(sending'[c]) = {} /\ EndLast(sending'[c])
  BY <1>1, EmptyFacts
<1>5. Len(<<q>>) = 1 /\ Head(<<q>>) = q /\ <<q>> # <<>>
  OBVIOUS
<1>6. OneQuery(c)' /\ QueryOK(c)'
  <2>1. (~\E r \in Roas : held[c][r] > 0) => \A r \in Roas : held'[c][r] = 0
    BY <1>1 DEF SessionTypeOK
  <2> QED
    BY <1>1, <1>2, <1>4, <1>5, <2>1 DEF OneQuery, QueryOK
<1>7. StreamOK(c)'
  BY <1>3 DEF StreamOK, StreamOf
<1>8. EndOK(c)'
  BY <1>4 DEF EndOK, Quiet
<1>9. ClientOK(c)'
  BY <1>1, <1>2, <1>5 DEF ClientOK
<1> QED
  BY <1>6, <1>7, <1>8, <1>9 DEF ExactOK

\* The invariant holds at the start.
LEMMA ExactStarts == SessionInit => ExactInv
<1> SUFFICES ASSUME SessionInit, NEW c \in Routers PROVE ExactOK(c)
  BY DEF ExactInv, SessionInit
<1>1. pdus[c] = <<>> /\ sending[c] = <<>> /\ queries[c] = <<>> /\ at[c] = "start"
  BY DEF SessionInit
<1> QED
  BY <1>1, EmptyFacts DEF ExactOK, OneQuery, QueryOK, StreamOK, StreamOf, EndOK, ClientOK, Quiet

\* What a router was sent too early it was sent for good.
LEMMA AheadStays ==
    ASSUME SessionTypeOK, NEW c \in Routers, c \in ahead, [SessionNext]_vars
    PROVE  c \in ahead'
<1> USE DEF otherVars
<1>1. ASSUME NEW d \in Routers, Router(d) PROVE UNCHANGED ahead
  <2>1. ASSUME NEW from, NEW to, Goes(d, from, to) PROVE UNCHANGED ahead
    BY <2>1 DEF Goes
  <2>2. ASSUME NEW go, NEW halt, NEW onEnd, Receive(d, go, halt, onEnd) PROVE UNCHANGED ahead
    BY <2>2 DEF Receive
  <2> QED
    BY <1>1, <2>1, <2>2 DEF Router, Start, First, Loop, Reconnect, Reload
<1>2. ASSUME NEW d \in Routers, Serve(d) \/ Lose(d) PROVE c \in ahead'
  BY <1>2 DEF Serve, HandleQuery, Send, Lose, Disturb
<1>3. CASE Operator \/ Timer \/ Alarm \/ UNCHANGED vars
  BY <1>3 DEF Operator, Change, Timer, Alarm, NotifyNow, NewSession, Restart, Command, Disturb, vars
<1> QED
  BY <1>1, <1>2, <1>3 DEF SessionNext

\* Every step keeps it for the routers that did not ask twice.
LEMMA ExactStep ==
    ASSUME ~mishap, ~mishap', SessionTypeOK, SessionTypeOK', CacheSafe, CacheSafe', ExactInv,
           [SessionNext]_vars
    PROVE  ExactInv'
<1>1. CASE \E sid \in SessionIDs : Restart(sid)
  BY <1>1 DEF Restart, ExactInv
<1>2. CASE ~\E sid \in SessionIDs : Restart(sid)
  <2>1. CacheGoesOn /\ sessionID <= sessionID'
    BY <1>2, CacheInStep
  <2> SUFFICES ASSUME NEW c \in Routers, c \in conn', c \notin repeated', c \notin ahead',
                      at'[c] # "stopped"
               PROVE  ExactOK(c)'
    BY DEF ExactInv, SessionTypeOK
  <2>2. c \in conn /\ c \notin repeated /\ at[c] # "stopped" => ExactOK(c)
    BY AheadStays DEF ExactInv
  <2>3. CASE Change \/ Timer \/ Alarm \/ NotifyNow \/ (\E sid \in SessionIDs : NewSession(sid))
             \/ UNCHANGED vars
    <3>1. Notified(c)
      BY <2>3, StepOfAll
    <3>2. c \in conn /\ c \notin repeated /\ at'[c] = at[c]
      BY <3>1 DEF Notified
    <3> QED
      BY <2>1, <2>2, <3>1, <3>2, ExactByOthers
  <2>4. ASSUME NEW d \in Routers, d # c, Router(d) \/ Serve(d) \/ Lose(d) PROVE ExactOK(c)'
    <3>1. Untouched(c) /\ UNCHANGED cacheVars
      BY <2>4, StepOfOne
    <3>2. ExactOK(c)
      BY <2>2, <3>1 DEF Untouched
    <3> QED
      BY <2>1, <3>1, <3>2, UntouchedNotified, ExactByOthers
  <2>5. CASE Lose(c)
    BY <2>5 DEF Lose
  <2>6. CASE Serve(c)
    <3>1. ExactOK(c)
      BY <2>2, <2>6 DEF Serve, HandleQuery, Send, rtrVars
    <3>2. c \in conn
      BY <2>6 DEF Serve, HandleQuery, Send
    <3> QED
      BY <2>1, <2>6, <3>1, <3>2, ExactHandle, ExactSend DEF Serve
  <2>7. CASE Reconnect(c)
    BY <2>7, ExactReconnect
  <2>8. CASE Start(c)
    <3>1. c \in conn
      BY <2>8 DEF Start, Goes, netVars
    <3>2. c \notin repeated /\ at[c] # "stopped"
      BY <2>8 DEF Start, Ask, Goes
    <3> QED
      BY <2>2, <2>8, <3>1, <3>2, ExactStart
  <2>9. ASSUME NEW go, NEW halt, NEW onEnd, Receive(c, go, halt, onEnd), Placed(c, go, halt, onEnd)
        PROVE  ExactOK(c)'
    <3>1. c \in conn
      BY <2>9, Received
    <3>2. c \notin repeated
      BY <2>9, Received DEF Ask
    <3>3. at[c] # "stopped"
      BY <2>9 DEF Placed
    <3> QED
      BY <2>1, <2>2, <2>9, <3>1, <3>2, <3>3, ExactReceive
  <2>10. CASE First(c) \/ Loop(c) \/ Reload(c)
    <3>1. ~Lost(c)
      BY <2>10, <2>9 DEF First, Loop, Reload, Lost, Goes, netVars, Receive, Placed, Decided
    <3> QED
      BY <2>9, <2>10, <3>1 DEF First, Loop, Reload, Placed, Decided
  <2> QED
    BY <1>2, <2>3, <2>4, <2>5, <2>6, <2>7, <2>8, <2>10 DEF SessionNext, Operator, Router
<1> QED
  BY <1>1, <1>2

\* What was withdrawn was withdrawn under a serial the cache has reached.
Window ==
    /\ maxSExpired <= maxSerial
    /\ \A e \in entries : ~e.ann => e.serial <= maxSerial

\* It stays so, also in the middle of an append.
LEMMA WindowStep ==
    ASSUME SessionTypeOK, CacheSafe, ~mishap', Window, [SessionNext]_vars
    PROVE  Window'
<1> USE RtrCacheAssumption
<1>1. /\ maxSerial \in Nat /\ maxSExpired \in Nat /\ console.added \in Nat
      /\ \A e \in entries : e.serial \in Nat
  BY SMT DEF CacheSafe, CacheInv, NumbersOK, ListOK, Top
<1>2. CASE Change
  <2>1. CASE appendPrefixData
    BY <2>1 DEF appendPrefixData, limits, Window
  <2>2. CASE advanceSerial
    <3>1. entries' = entries /\ maxSerial' = maxSerial + console.added /\ UNCHANGED limits
      BY <2>2, AdvanceStep DEF CacheSafe, advanceSerial
    <3> QED
      BY <1>1, <3>1 DEF Window, limits
  <2>3. ASSUME NEW n \in 0 .. MaxLines, NEW lines \in [1 .. n -> Roas],
               readPrefixData(lines, TRUE) \/ readPrefixData(lines, FALSE)
        PROVE  Window'
    <3>1. UNCHANGED <<maxSerial, maxSExpired>>
      BY <2>3 DEF readPrefixData, limits
    <3>2. ASSUME NEW e \in entries', ~e.ann PROVE e \in entries
      BY <2>3, <3>2 DEF readPrefixData
    <3> QED
      BY <3>1, <3>2 DEF Window
  <2>4. ASSUME NEW first \in 1 .. tail, NEW last \in 1 .. tail, processEntryRemoval(first, last)
        PROVE  Window'
    <3> DEFINE chosen == {e \in entries : e.pos \in first .. last /\ e.serial = e.prev}
    <3>1. PICK n \in 1 .. MaxLines : \E f \in [1 .. n -> chosen] :
              /\ entries' = (entries \ {f[i] : i \in 1 .. n}) \cup
                    {Withdrawn(f[i], maxSerial + i, tail + i) : i \in 1 .. n}
              /\ maxSerial' = maxSerial + n /\ UNCHANGED limits
      BY <2>4 DEF processEntryRemoval
    <3>2. n \in Nat /\ maxSerial <= maxSerial' /\ maxSExpired' = maxSExpired
      BY <1>1, <3>1 DEF limits
    <3>3. ASSUME NEW e \in entries', e \notin entries PROVE e.serial <= maxSerial'
      BY <1>1, <3>1, <3>2, <3>3 DEF Withdrawn
    <3> QED
      BY <1>1, <3>1, <3>2, <3>3 DEF Window
  <2> QED
    BY <1>2, <2>1, <2>2, <2>3, <2>4 DEF Change, Read, Remove
<1>3. ASSUME NEW last, deleteExpiredEntriesFromCache(last) PROVE Window'
  <2>1. /\ entries' \subseteq entries /\ maxSerial' = maxSerial
        /\ \/ maxSExpired' = maxSExpired
           \/ \E e \in entries : ~e.ann /\ maxSExpired' = e.serial
    BY <1>3 DEF deleteExpiredEntriesFromCache
  <2> QED
    BY <2>1 DEF Window
<1>4. CASE Timer
  BY <1>3, <1>4 DEF Timer, Expire, Window, cacheVars, limits
<1>5. CASE \E sid \in SessionIDs : Restart(sid)
  <2>1. maxSExpired' = 0 /\ maxSerial' = 0 /\ entries' = {}
    BY <1>5 DEF Restart
  <2> QED
    BY <2>1 DEF Window
<1>6. ASSUME UNCHANGED cacheVars PROVE Window'
  BY <1>6 DEF Window, cacheVars, limits
<1>7. CASE NotifyNow \/ Alarm \/ (\E sid \in SessionIDs : NewSession(sid)) \/ UNCHANGED vars
  BY <1>6, <1>7 DEF NotifyNow, Alarm, NewSession, vars
<1>8. CASE \E c \in Routers : Router(c) \/ Serve(c) \/ Lose(c)
  <2>1. ASSUME NEW c \in Routers, Router(c) \/ Serve(c) \/ Lose(c) PROVE UNCHANGED cacheVars
    <3>1. ASSUME NEW from, NEW to, Goes(c, from, to) PROVE UNCHANGED cacheVars
      BY <3>1 DEF Goes
    <3>2. ASSUME NEW go, NEW halt, NEW onEnd, Receive(c, go, halt, onEnd) PROVE UNCHANGED cacheVars
      BY <3>2, Received
    <3> QED
      BY <2>1, <3>1, <3>2 DEF Router, Start, First, Loop, Reconnect, Reload,
                              Serve, HandleQuery, Send, Lose
  <2> QED
    BY <1>6, <1>8, <2>1
<1> QED
  BY <1>2, <1>4, <1>5, <1>7, <1>8 DEF SessionNext, Operator

\* A router at rest has what was sent under the current serial, which is what
\* the list announces.
LEMMA ExactAtRest ==
    ASSUME SessionTypeOK, CacheSafe, Window, ~Uncounted, ExactInv,
           NEW c \in Routers \ (repeated \cup ahead), Current(c), NEW r \in Roas
    PROVE  held[c][r] = Copies(r)
<1> DEFINE T == {e \in entries : e.ann /\ e.roa = r}
<1>1. /\ c \in conn /\ at[c] = "receive" /\ Quiet(c)
      /\ client[c].sid = sessionID /\ client[c].serial = maxSerial
  BY EmptyFacts DEF Current, AtRest, Quiet
<1>2. ExactOK(c)
  BY <1>1 DEF ExactInv
<1>3. HeldIs(c, maxSerial)
  BY <1>1, <1>2 DEF ExactOK, ClientOK
<1>4. PICK had \in past[maxSerial] : \A x \in Roas :
          /\ Mentions(had, x) => held[c][x] = 1
          /\ ~Mentions(had, x) => held[c][x] = 0
  BY <1>3 DEF HeldIs
<1>5. maxSerial \in 0 .. MaxSerial /\ maxSerial \in Nat /\ Top \in Nat /\ maxSExpired \in Nat
  BY RtrCacheAssumption DEF CacheSafe, CacheInv, NumbersOK
<1>6. \A e \in entries : /\ e.prev \in Nat /\ e.serial \in Nat /\ e.prev <= e.serial
                         /\ e.serial <= maxSerial
  BY <1>5 DEF CacheSafe, CacheInv, ListOK, Uncounted
<1>7. /\ \A e \in entries : Id(e) \in had <=> e.ann
      /\ \A x \in had : \E e \in entries : Id(e) = x
  <2>1. /\ \A e \in entries : Id(e) \in had <=>
                e.prev <= maxSerial /\ (e.ann \/ maxSerial < e.serial)
        /\ \A x \in had : \/ \E e \in entries : Id(e) = x
                          \/ minPSExpired <= maxSerial /\ maxSerial < maxSExpired
    BY <1>4, <1>5 DEF CacheSafe, CacheInv, PastOK
  <2>2. maxSExpired <= maxSerial
    BY DEF Window
  <2> QED
    BY <1>5, <1>6, <2>1, <2>2
<1>8. Mentions(had, r) <=> T # {}
  <2>1. \A e : Id(e)[1] = e.roa
    BY DEF Id
  <2>2. T # {} => Mentions(had, r)
    BY <1>7, <2>1 DEF Mentions
  <2>3. Mentions(had, r) => T # {}
    <3> SUFFICES ASSUME NEW x \in had, x[1] = r PROVE T # {}
      BY DEF Mentions
    <3>1. PICK e \in entries : Id(e) = x
      BY <1>7
    <3>2. e \in T
      BY <1>7, <2>1, <3>1
    <3> QED
      BY <3>2
  <2> QED
    BY <2>2, <2>3
<1>9. CASE T = {}
  BY <1>4, <1>8, <1>9, FS_EmptySet DEF Copies
<1>10. ASSUME NEW e \in T PROVE held[c][r] = Copies(r)
  <2>1. T = {e}
    BY <1>10 DEF CacheSafe, ListInv, OneAnnounced
  <2>2. Cardinality(T) = 1
    BY <2>1, FS_Singleton
  <2> QED
    BY <1>4, <1>8, <1>10, <2>2 DEF Copies
<1> QED
  BY <1>9, <1>10

-----------------------------------------------------------------------------
\* The inductive invariant of the sessions, which is about the time until a mishap.
SessionInv == mishap \/ (SessionTypeOK /\ CacheSafe /\ Window /\ LackInv /\ ExactInv)

\* The invariant holds at the start.
LEMMA SessionStarts == SessionInit => SessionInv
<1> SUFFICES ASSUME SessionInit PROVE SessionInv
  OBVIOUS
<1>1. CacheInit
  BY DEF SessionInit
<1>2. Window
  BY <1>1 DEF CacheInit, Window
<1> QED
  BY <1>1, <1>2, TypesInit, CacheStarts, LackStarts, ExactStarts DEF SessionInv

\* A mishap is remembered.
LEMMA MishapIsKept ==
    ASSUME mishap, [SessionNext]_vars
    PROVE  mishap'
<1>1. ASSUME UNCHANGED cacheVars PROVE mishap'
  BY <1>1 DEF cacheVars, history
<1>2. CASE Change \/ Timer
  <2>1. [CacheNext]_cacheVars
    BY <1>2 DEF Change, Timer, CacheNext
  <2> QED
    BY <2>1, MishapStays
<1>3. CASE \E sid \in SessionIDs : NewSession(sid) \/ Restart(sid)
  BY <1>1, <1>3 DEF NewSession, Restart
<1>4. CASE NotifyNow \/ Alarm \/ UNCHANGED vars
  BY <1>1, <1>4 DEF NotifyNow, Alarm, vars
<1>5. ASSUME NEW c \in Routers, Router(c) \/ Serve(c) \/ Lose(c) PROVE UNCHANGED cacheVars
  <2>1. ASSUME NEW from, NEW to, Goes(c, from, to) PROVE UNCHANGED cacheVars
    BY <2>1 DEF Goes
  <2>2. ASSUME NEW go, NEW halt, NEW onEnd, Receive(c, go, halt, onEnd) PROVE UNCHANGED cacheVars
    BY <2>2 DEF Receive
  <2> QED
    BY <1>5, <2>1, <2>2 DEF Router, Start, First, Loop, Reconnect, Reload,
                            Serve, HandleQuery, Send, Lose
<1> QED
  BY <1>1, <1>2, <1>3, <1>4, <1>5 DEF SessionNext, Operator

\* Every step keeps the invariant.
LEMMA SessionStep ==
    ASSUME SessionInv, [SessionNext]_vars
    PROVE  SessionInv'
<1> SUFFICES ASSUME ~mishap'
             PROVE  (SessionTypeOK /\ CacheSafe /\ Window /\ LackInv /\ ExactInv)'
  BY DEF SessionInv
<1>1. ~mishap
  BY MishapIsKept
<1>2. SessionTypeOK /\ CacheSafe /\ Window /\ LackInv /\ ExactInv
  BY <1>1 DEF SessionInv
<1>3. SessionTypeOK'
  BY <1>2, TypesStep
<1>4. CacheSafe'
  <2>1. CASE \E sid \in SessionIDs : Restart(sid)
    BY <1>2, <2>1, CacheRestarts
  <2>2. CASE ~\E sid \in SessionIDs : Restart(sid)
    BY <1>2, <2>2, CacheInStep
  <2> QED
    BY <2>1, <2>2
<1>5. Window'
  BY <1>2, WindowStep
<1>6. LackInv'
  BY <1>2, <1>4, LackStep
<1>7. ExactInv'
  BY <1>1, <1>2, <1>3, <1>4, ExactStep
<1> QED
  BY <1>3, <1>4, <1>5, <1>6, <1>7

\* Every variable keeps its type: what is on the way are PDUs of the protocol,
\* and a client is always at a place of manageConnection.  (What an answer consists
\* of rests on the order of the list, which is shown until a mishap.)
THEOREM SessionTypeCorrect == SessionSpec => [](mishap \/ SessionTypeOK)
<1>1. SessionInit => SessionInv
  BY SessionStarts
<1>2. SessionInv /\ [SessionNext]_vars => SessionInv'
  BY SessionStep
<1>3. SessionInv => (mishap \/ SessionTypeOK)
  BY DEF SessionInv
<1> QED
  BY <1>1, <1>2, <1>3, PTL DEF SessionSpec

\* A server that has processed the End of Data of the current serial lacks no
\* ROA of the cache, however often it was notified, lost its connection, found a
\* new session or was answered in the middle of an append, until a mishap.
THEOREM ServersLackNothing == SessionSpec => [](mishap \/ NothingLacking)
<1>1. SessionInit => SessionInv
  BY SessionStarts
<1>2. SessionInv /\ [SessionNext]_vars => SessionInv'
  BY SessionStep
<1>3. SessionInv => (mishap \/ NothingLacking)
  <2> SUFFICES ASSUME SessionInv, ~mishap, ~Uncounted, NEW c \in Routers, Current(c),
                      ~(restarted /\ c \in repeated \cup ahead), NEW r \in Roas, Copies(r) > 0
               PROVE  held[c][r] > 0
    BY DEF NothingLacking
  <2>1. CASE ~restarted
    BY <2>1, NothingLackingOnce DEF SessionInv
  <2>2. CASE c \notin repeated \cup ahead
    BY <2>2, ExactAtRest DEF SessionInv
  <2> QED
    BY <2>1, <2>2
<1> QED
  BY <1>1, <1>2, <1>3, PTL DEF SessionSpec

\* It holds each of them once, unless it asked for what it had or was about to
\* get or was answered in the middle of an append, until a mishap: an answer is
\* never applied to anything but what it was computed for.
THEOREM ServersAreExact == SessionSpec => []ExactUnlessRepeated
<1>1. SessionInit => SessionInv
  BY SessionStarts
<1>2. SessionInv /\ [SessionNext]_vars => SessionInv'
  BY SessionStep
<1>3. SessionInv => ExactUnlessRepeated
  BY ExactAtRest DEF SessionInv, ExactUnlessRepeated
<1> QED
  BY <1>1, <1>2, <1>3, PTL DEF SessionSpec
=============================================================================
