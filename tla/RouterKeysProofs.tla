-------------------------- MODULE RouterKeysProofs ---------------------------
(***************************************************************************)
(* The SKI cache of RouterKeys.tla and the key storage agree about keys    *)
(* whose SKIs do not collide, and a client of an update that is listed     *)
(* with all its keys hears of every change of its verdict, but for the     *)
(* races and the loss of keys the module names.                            *)
(***************************************************************************)
EXTENDS RouterKeys, SequenceTheorems, FiniteSetTheorems, TLAPS

\* The array of a triplet without collisions has its one key or does not exist.
OneKey == \A t \in Triplets : Unique(t) =>
    store[t] = <<>> \/ \E k \in KeysAt[t] : store[t] = <<k>>

\* An update that was never stored has no clients and no registrations.
NewIsUnknown == \A u \in Updates : u \notin stored =>
    listeners[u] = {} /\ \A t \in Triplets : regs[t][u] = 0

\* A client that does not listen goes by no result.
ToldListeners == \A u \in Updates, c \in Clients :
    c \notin listeners[u] => told[c][u] = Undefined

\* No key is counted that no PDU brought.
CountsBounded == \A t \in Triplets : keyCount[t] <= pdus

KeysInv ==
    /\ KeysTypeOK
    /\ \A h \in held : h[2] \in KeysAt[h[1]]
    /\ OneKey /\ NewIsUnknown /\ ToldListeners /\ CountsBounded
    /\ KeysCounted /\ RegistrationsWhole /\ ToldUnlessMissed

-----------------------------------------------------------------------------
(* Lemmas about the key storage.                                           *)

\* Arrays stay arrays of keys and empty slots.
LEMMA WithoutKeyType ==
    ASSUME NEW k \in Keys, NEW s \in Seq(Keys \cup {Gone})
    PROVE  WithoutKey(s, k) \in Seq(Keys \cup {Gone})
<1> DEFINE S == Keys \cup {Gone}
<1>1. CASE ~Has(s, k)
  BY <1>1 DEF WithoutKey
<1>2. CASE Has(s, k)
  <2> DEFINE n == Len(s)
             i == CHOOSE j \in 1 .. n : s[j] = k
  <2>1. i \in 1 .. n /\ n \in Nat
    BY <1>2 DEF Has
  <2>2. \A j \in 1 .. n : s[j] \in S
    BY <2>1
  <2>3. ASSUME NEW m \in Nat, NEW l \in Nat, 1 <= m, l <= n
        PROVE  SubSeq(s, m, l) \in Seq(S)
    <3>1. \A j \in m .. l : s[j] \in S
      BY <2>1, <2>2, <2>3
    <3> HIDE DEF S
    <3> QED
      BY <3>1, SubSeqProperties, m \in Int, l \in Int
  <2>6. SubSeq(s, 1, n - 1) \in Seq(S) /\ SubSeq(s, 1, i - 1) \in Seq(S)
        /\ SubSeq(s, i + 1, n - 1) \in Seq(S)
    <3>1. n - 1 \in Nat /\ i - 1 \in Nat /\ i + 1 \in Nat /\ i + 1 >= 1 /\ n - 1 <= n /\ i - 1 <= n
      BY <2>1
    <3>2. SubSeq(s, 1, n - 1) \in Seq(S)
      BY <3>1, <2>3, 1 \in Nat, 1 <= 1
    <3>3. SubSeq(s, 1, i - 1) \in Seq(S)
      <4> HIDE DEF i, n
      <4> QED
        BY <3>1, <2>3, 1 \in Nat, 1 <= 1
    <3>4. SubSeq(s, i + 1, n - 1) \in Seq(S)
      <4> HIDE DEF i, n
      <4> QED
        BY <3>1, <2>3
    <3> QED
      BY <3>2, <3>3, <3>4
  <2>4. <<Gone>> \in Seq(S)
    OBVIOUS
  <2>5. SubSeq(s, 1, i - 1) \o SubSeq(s, i + 1, n - 1) \o <<Gone>> \in Seq(S)
    BY <2>6, <2>4
  <2> QED
    BY <1>2, <2>6, <2>5 DEF WithoutKey
<1> QED
  BY <1>1, <1>2

LEMMA WithKeyType ==
    ASSUME NEW k \in Keys, NEW s \in Seq(Keys \cup {Gone})
    PROVE  WithKey(s, k) \in Seq(Keys \cup {Gone})
BY DEF WithKey

\* A key is stored once, and deleted without a trace, where SKIs do not collide.
LEMMA SingleKey ==
    ASSUME NEW k \in Keys, NEW s, s = <<>> \/ s = <<k>>
    PROVE  WithKey(s, k) = <<k>> /\ WithoutKey(s, k) = <<>>
<1>1. CASE s = <<>>
  <2>1. Len(s) = 0 /\ ~Has(s, k)
    BY <1>1 DEF Has
  <2> QED
    BY <1>1, <2>1 DEF WithKey, WithoutKey
<1>2. CASE s = <<k>>
  <2>1. Len(s) = 1 /\ s[1] = k /\ 1 \in 1 .. 1
    BY <1>2
  <2>2. Has(s, k)
    BY <2>1 DEF Has
  <2>3. (CHOOSE j \in 1 .. Len(s) : s[j] = k) = 1
    BY <2>1
  <2>4. SubSeq(s, 1, 1 - 1) = <<>>
    BY <1>2
  <2> QED
    BY <1>2, <2>1, <2>2, <2>3, <2>4 DEF WithKey, WithoutKey
<1> QED
  BY <1>1, <1>2

\* Where the elements of joined lists are.
Joined(p, q, m) ==
    /\ Len(m) = Len(p) + Len(q) /\ Len(p) \in Nat /\ Len(q) \in Nat
    /\ \A j \in 1 .. Len(p) : m[j] = p[j]
    /\ \A j \in 1 .. Len(q) : m[Len(p) + j] = q[j]

LEMMA ConcatTwo ==
    ASSUME NEW S, NEW p \in Seq(S), NEW q \in Seq(S)
    PROVE  p \o q \in Seq(S) /\ Joined(p, q, p \o q)
BY ConcatProperties DEF Joined

JoinedThree(p, r, q, m) ==
    /\ Len(m) = Len(p) + 2 + Len(q) /\ Len(p) \in Nat /\ Len(q) \in Nat
    /\ \A j \in 1 .. Len(p) : m[j] = p[j]
    /\ m[Len(p) + 1] = r[1] /\ m[Len(p) + 2] = r[2]
    /\ \A j \in 1 .. Len(q) : m[Len(p) + 2 + j] = q[j]

LEMMA ConcatThree ==
    ASSUME NEW S, NEW p \in Seq(S), NEW r \in Seq(S), NEW q \in Seq(S), Len(r) = 2
    PROVE  p \o r \o q \in Seq(S) /\ JoinedThree(p, r, q, p \o r \o q)
<1> DEFINE a == p \o r
           m == a \o q
<1>1. a \in Seq(S) /\ Joined(p, r, a)
  BY ConcatTwo
<1>2. m \in Seq(S) /\ Joined(a, q, m)
  BY <1>1, ConcatTwo
<1> HIDE DEF a, m
<1>3. JoinedThree(p, r, q, m)
  <2>1. Len(a) = Len(p) + 2 /\ Len(p) \in Nat /\ Len(q) \in Nat /\ Len(m) = Len(p) + 2 + Len(q)
    BY <1>1, <1>2 DEF Joined
  <2>2. a[Len(p) + 1] = r[1] /\ a[Len(p) + 2] = r[2]
    BY <1>1 DEF Joined
  <2>3. \A j \in 1 .. Len(p) : m[j] = p[j]
    BY <1>1, <1>2, <2>1 DEF Joined
  <2>4. m[Len(p) + 1] = r[1] /\ m[Len(p) + 2] = r[2]
    BY <1>2, <2>1, <2>2 DEF Joined
  <2>5. \A j \in 1 .. Len(q) : m[Len(p) + 2 + j] = q[j]
    BY <1>2, <2>1 DEF Joined
  <2> QED
    BY <2>1, <2>3, <2>4, <2>5 DEF JoinedThree
<1> QED
  BY <1>2, <1>3 DEF a, m

\* An element of a list in front of one that is taken out, or behind it.
LEMMA ListParts ==
    ASSUME NEW l \in Seq(Element), NEW i \in 1 .. Len(l)
    PROVE  /\ LedTo(l, i) \in Seq(Element) /\ Behind(l, i) \in Seq(Element)
           /\ SubSeq(l, i + 1, Len(l)) \in Seq(Element)
           /\ Len(Behind(l, i)) = Len(l) - i /\ Len(SubSeq(l, i + 1, Len(l))) = Len(l) - i
           /\ \A j \in i + 1 .. Len(l) :
                 /\ j - i \in 1 .. Len(l) - i
                 /\ Behind(l, i)[j - i].t = l[j].t /\ SubSeq(l, i + 1, Len(l))[j - i] = l[j]
           /\ \A j \in 1 .. i - 1 : l[j].t \in Missing(l, i) \/
                 (j \in 1 .. Len(LedTo(l, i)) /\ LedTo(l, i)[j] = l[j])
<1> DEFINE n == Len(l)
           m == n - i
<1>1. n \in Nat /\ i \in Nat /\ i >= 1 /\ i <= n /\ m \in Nat
      /\ \A j \in 1 .. n : l[j] \in Element /\ l[j].linked \in BOOLEAN
  <2>1. n \in Nat /\ i \in Nat /\ i >= 1 /\ i <= n /\ m \in Nat
    OBVIOUS
  <2>2. \A j \in 1 .. n : l[j] \in Element
    OBVIOUS
  <2>3. \A e \in Element : e.linked \in BOOLEAN
    BY DEF Element
  <2> QED
    BY <2>1, <2>2, <2>3
<1>2. \A j \in 1 .. m : [l[i + j] EXCEPT !.linked = @ /\ j > 1] \in Element
                       /\ [l[i + j] EXCEPT !.linked = @ /\ j > 1].t = l[i + j].t
  <2> SUFFICES ASSUME NEW j \in 1 .. m
               PROVE  /\ [l[i + j] EXCEPT !.linked = @ /\ j > 1] \in Element
                      /\ [l[i + j] EXCEPT !.linked = @ /\ j > 1].t = l[i + j].t
    OBVIOUS
  <2>1. l[i + j] \in Element /\ (l[i + j].linked /\ j > 1) \in BOOLEAN
    BY <1>1
  <2> QED
    BY <2>1 DEF Element
<1>3. Behind(l, i) \in Seq(Element) /\ Len(Behind(l, i)) = m
      /\ \A j \in 1 .. m : Behind(l, i)[j].t = l[i + j].t
  <2>1. Behind(l, i) = [j \in 1 .. m |-> [l[i + j] EXCEPT !.linked = @ /\ j > 1]]
    BY DEF Behind
  <2>2. \A j \in 1 .. m : Behind(l, i)[j] \in Element /\ Behind(l, i)[j].t = l[i + j].t
    BY <1>2, <2>1
  <2>3. Behind(l, i) \in [1 .. m -> Element]
    BY <2>1, <2>2
  <2>4. Behind(l, i) \in Seq(Element) /\ Len(Behind(l, i)) = m
    <3> HIDE DEF m
    <3> QED
      BY <1>1, <2>3
  <2> QED
    BY <2>1, <1>2, <2>4
<1>4. \A a, b \in Int : 1 <= a /\ b <= n /\ a <= b + 1 =>
         /\ SubSeq(l, a, b) \in Seq(Element) /\ Len(SubSeq(l, a, b)) = b - a + 1
         /\ \A j \in 1 .. b - a + 1 : SubSeq(l, a, b)[j] = l[a + j - 1]
  <2> SUFFICES ASSUME NEW a \in Int, NEW b \in Int, 1 <= a, b <= n, a <= b + 1
               PROVE  /\ SubSeq(l, a, b) \in Seq(Element) /\ Len(SubSeq(l, a, b)) = b - a + 1
                      /\ \A j \in 1 .. b - a + 1 : SubSeq(l, a, b)[j] = l[a + j - 1]
    OBVIOUS
  <2>1. \A j \in a .. b : l[j] \in Element
    BY <1>1
  <2> QED
    BY <2>1, SubSeqProperties
<1>5. /\ SubSeq(l, i + 1, n) \in Seq(Element) /\ Len(SubSeq(l, i + 1, n)) = m
      /\ \A j \in 1 .. m : SubSeq(l, i + 1, n)[j] = l[i + j]
  BY <1>1, <1>4
<1>6. /\ SubSeq(l, 1, i - 1) \in Seq(Element) /\ Len(SubSeq(l, 1, i - 1)) = i - 1
      /\ \A j \in 1 .. i - 1 : SubSeq(l, 1, i - 1)[j] = l[j]
  BY <1>1, <1>4
<1>7. LedTo(l, i) \in Seq(Element)
  BY <1>6 DEF LedTo
<1>8. \A j \in i + 1 .. n :
         /\ j - i \in 1 .. m
         /\ Behind(l, i)[j - i].t = l[j].t /\ SubSeq(l, i + 1, n)[j - i] = l[j]
  <2> SUFFICES ASSUME NEW j \in i + 1 .. n
               PROVE  /\ j - i \in 1 .. m
                      /\ Behind(l, i)[j - i].t = l[j].t /\ SubSeq(l, i + 1, n)[j - i] = l[j]
    OBVIOUS
  <2>1. j - i \in 1 .. m /\ i + (j - i) = j
    BY <1>1
  <2> QED
    BY <1>3, <1>5, <2>1
<1>9. \A j \in 1 .. i - 1 : l[j].t \in Missing(l, i) \/
         (j \in 1 .. Len(LedTo(l, i)) /\ LedTo(l, i)[j] = l[j])
  BY <1>6 DEF Missing, LedTo
<1> QED
  BY <1>3, <1>5, <1>7, <1>8, <1>9

\* A triplet is in the bucket of its AS.
LEMMA BucketOf ==
    ASSUME KeysTypeOK, NEW t \in Triplets
    PROVE  ks_getBucket(t[1]) \in Buckets /\ list[ks_getBucket(t[1])] \in Seq(Element)
BY DEF KeysTypeOK, Triplets, Buckets

\* What a PDU does to the storage: its triplet gets its keys, others may go
\* missing, and the lists lead to all that remains.
StorageStep(t, s) ==
    /\ list' \in [Buckets -> Seq(Element)]
    /\ KeysReached'
    /\ \E missing : Stores(t, s, missing)

LEMMA StoreStep ==
    ASSUME KeysTypeOK, NEW t \in Triplets, NEW k \in Keys, ks_storeKey(t, k)
    PROVE  StorageStep(t, WithKey(store[t], k))
<1> DEFINE b == ks_getBucket(t[1])
           l == list[b]
<1>1. /\ b \in Buckets /\ l \in Seq(Element) /\ list \in [Buckets -> Seq(Element)]
      /\ Len(l) \in Nat
      /\ KeysReached
  BY BucketOf DEF KeysTypeOK
<1>2. store[t] = <<>> => WithKey(store[t], k) = <<k>>
  <2>1. store[t] = <<>> => ~Has(store[t], k)
    BY DEF Has
  <2> QED
    BY <2>1 DEF WithKey
<1>3. CASE store[t] # <<>> /\ Stores(t, WithKey(store[t], k), {}) /\ UNCHANGED list
  <2>1. \A x \in Triplets : store'[x] # <<>> => store[x] # <<>>
    BY <1>3 DEF Stores
  <2> QED
    BY <1>1, <1>3, <2>1 DEF StorageStep, Reached, KeysReached
<1> DEFINE new == [t |-> t, linked |-> l # <<>> /\ l[Len(l)].t[1] # t[1]]
<1>4. CASE /\ store[t] = <<>> /\ list' = [list EXCEPT ![b] = Append(l, new)]
           /\ Stores(t, <<k>>, {})
  <2>1. new \in Element /\ new.t = t
    BY DEF Element
  <2> HIDE DEF new
  <2>2. /\ Append(l, new) \in Seq(Element) /\ Len(Append(l, new)) = Len(l) + 1
        /\ \A j \in 1 .. Len(l) : Append(l, new)[j] = l[j]
        /\ Append(l, new)[Len(l) + 1] = new
    BY <1>1, <2>1, AppendProperties
  <2>3. list'[b] = Append(l, new) /\ list' \in [Buckets -> Seq(Element)]
        /\ \A c \in Buckets \ {b} : list'[c] = list[c]
    BY <1>1, <1>4, <2>2
  <2>4. ASSUME NEW x \in Triplets, store'[x] # <<>> PROVE Reached(x)'
    <3>1. ks_getBucket(x[1]) \in Buckets
      BY BucketOf
    <3>2. CASE x = t
      <4>1. Len(l) + 1 \in 1 .. Len(list'[b]) /\ list'[b][Len(l) + 1].t = t
        BY <1>1, <2>1, <2>2, <2>3
      <4> QED
        BY <3>2, <4>1 DEF Reached
    <3>3. CASE x # t
      <4>1. store[x] # <<>>
        BY <1>4, <2>4, <3>3 DEF Stores
      <4>2. PICK i \in 1 .. Len(list[ks_getBucket(x[1])]) : list[ks_getBucket(x[1])][i].t = x
        BY <1>1, <4>1 DEF Reached, KeysReached
      <4>3. i \in 1 .. Len(list'[ks_getBucket(x[1])]) /\ list'[ks_getBucket(x[1])][i].t = x
        <5>1. CASE ks_getBucket(x[1]) = b
          <6>1. i \in 1 .. Len(l) /\ l[i].t = x
            BY <4>2, <5>1
          <6>2. i \in 1 .. Len(Append(l, new)) /\ Append(l, new)[i].t = x
            BY <1>1, <2>2, <6>1
          <6> QED
            BY <2>3, <5>1, <6>2
        <5>2. CASE ks_getBucket(x[1]) # b
          BY <2>3, <3>1, <4>2, <5>2
        <5> QED
          BY <5>1, <5>2
      <4> QED
        BY <4>3 DEF Reached
    <3> QED
      BY <3>2, <3>3
  <2> QED
    BY <1>2, <1>4, <2>3, <2>4 DEF StorageStep, KeysReached
<1>5. ASSUME NEW i \in 1 .. Len(l), store[t] = <<>>,
             list' = [list EXCEPT ![b] =
                LedTo(l, i) \o <<[l[i] EXCEPT !.t = t], [l[i] EXCEPT !.linked = TRUE]>>
                    \o SubSeq(l, i + 1, Len(l))],
             Stores(t, <<k>>, Missing(l, i))
      PROVE  StorageStep(t, WithKey(store[t], k))
  <2> DEFINE front == LedTo(l, i)
             two   == <<[l[i] EXCEPT !.t = t], [l[i] EXCEPT !.linked = TRUE]>>
             back  == SubSeq(l, i + 1, Len(l))
             m     == front \o two \o back
  <2>1. l[i] \in Element
    BY <1>1
  <2>2. /\ two \in Seq(Element) /\ Len(two) = 2 /\ two[1].t = t /\ two[2].t = l[i].t
    <3>1. /\ [l[i] EXCEPT !.t = t] \in Element /\ [l[i] EXCEPT !.linked = TRUE] \in Element
          /\ [l[i] EXCEPT !.t = t].t = t /\ [l[i] EXCEPT !.linked = TRUE].t = l[i].t
      BY <2>1 DEF Element
    <3>2. PICK e, f : e = [l[i] EXCEPT !.t = t] /\ f = [l[i] EXCEPT !.linked = TRUE]
      OBVIOUS
    <3>3. two = <<e, f>> /\ e \in Element /\ f \in Element /\ e.t = t /\ f.t = l[i].t
      BY <3>1, <3>2
    <3> HIDE DEF two
    <3>4. Len(two) = 2 /\ two[1] = e /\ two[2] = f
      BY <3>3
    <3>5. two \in Seq(Element)
      BY <3>3
    <3> QED
      BY <3>3, <3>4, <3>5
  <2>3. front \in Seq(Element) /\ back \in Seq(Element) /\ Len(back) = Len(l) - i
    BY <1>1, ListParts
  <2>4. \A j \in i + 1 .. Len(l) : j - i \in 1 .. Len(back) /\ back[j - i] = l[j]
    BY <1>1, <2>3, ListParts
  <2>5. \A j \in 1 .. i - 1 : l[j].t \in Missing(l, i) \/
           (j \in 1 .. Len(front) /\ front[j] = l[j])
    BY <1>1, ListParts
  <2> HIDE DEF front, two, back
  <2>6. /\ m \in Seq(Element) /\ Len(m) = Len(front) + 2 + Len(back)
        /\ Len(front) \in Nat /\ Len(back) \in Nat
        /\ \A j \in 1 .. Len(front) : m[j] = front[j]
        /\ m[Len(front) + 1] = two[1] /\ m[Len(front) + 2] = two[2]
        /\ \A j \in 1 .. Len(back) : m[Len(front) + 2 + j] = back[j]
    <3> HIDE DEF m
    <3>1. m = front \o two \o back
      BY DEF m
    <3>2. front \o two \o back \in Seq(Element)
          /\ JoinedThree(front, two, back, front \o two \o back)
      BY <2>2, <2>3, ConcatThree
    <3> QED
      BY <3>1, <3>2 DEF JoinedThree
  <2> HIDE DEF m
  <2>7. list'[b] = m /\ list' \in [Buckets -> Seq(Element)]
        /\ \A c \in Buckets \ {b} : list'[c] = list[c]
    BY <1>1, <1>5, <2>6 DEF m, front, two, back
  <2>8. ASSUME NEW x \in Triplets, store'[x] # <<>> PROVE Reached(x)'
    <3>1. ks_getBucket(x[1]) \in Buckets
      BY BucketOf
    <3>2. CASE x = t
      <4>1. Len(front) + 1 \in 1 .. Len(list'[b]) /\ list'[b][Len(front) + 1].t = t
        BY <2>2, <2>6, <2>7
      <4> QED
        BY <3>2, <4>1 DEF Reached
    <3>3. CASE x # t
      <4>1. store[x] # <<>> /\ x \notin Missing(l, i)
        BY <1>5, <2>8, <3>3 DEF Stores
      <4>2. PICK j \in 1 .. Len(list[ks_getBucket(x[1])]) : list[ks_getBucket(x[1])][j].t = x
        BY <1>1, <4>1 DEF Reached, KeysReached
      <4>3. CASE ks_getBucket(x[1]) # b
        BY <2>7, <3>1, <4>2, <4>3 DEF Reached
      <4>4. CASE ks_getBucket(x[1]) = b
        <5>1. j \in 1 .. Len(l) /\ l[j].t = x
          BY <4>2, <4>4
        <5>2. \E h \in 1 .. Len(m) : m[h].t = x
          <6>1. CASE j < i
            <7>1. j \in 1 .. Len(front) /\ front[j] = l[j]
              BY <1>1, <2>5, <4>1, <5>1, <6>1
            <7>2. j \in 1 .. Len(m) /\ m[j].t = x
              BY <2>6, <5>1, <7>1
            <7> QED
              BY <7>2
          <6>2. CASE j = i
            <7>1. Len(front) + 2 \in 1 .. Len(m) /\ m[Len(front) + 2].t = x
              BY <2>2, <2>6, <5>1, <6>2
            <7> QED
              BY <7>1
          <6>3. CASE j > i
            <7>1. j - i \in 1 .. Len(back) /\ back[j - i] = l[j]
              BY <1>1, <2>4, <5>1, <6>3
            <7>2. m[Len(front) + 2 + (j - i)] = l[j]
              BY <2>6, <7>1
            <7>3. Len(front) + 2 + (j - i) \in 1 .. Len(m)
              BY <2>6, <7>1
            <7> QED
              BY <5>1, <7>2, <7>3
          <6> QED
            BY <1>1, <5>1, <6>1, <6>2, <6>3
        <5> QED
          BY <2>7, <4>4, <5>2 DEF Reached
      <4> QED
        BY <4>3, <4>4
    <3> QED
      BY <3>2, <3>3
  <2> QED
    BY <1>2, <1>5, <2>7, <2>8 DEF StorageStep, KeysReached
<1> QED
  BY <1>3, <1>4, <1>5 DEF ks_storeKey

LEMMA DelStep ==
    ASSUME KeysTypeOK, NEW t \in Triplets, NEW k \in Keys, ks_delKey(t, k)
    PROVE  StorageStep(t, WithoutKey(store[t], k))
<1> DEFINE b == ks_getBucket(t[1])
           l == list[b]
           s == WithoutKey(store[t], k)
<1>1. /\ b \in Buckets /\ l \in Seq(Element) /\ list \in [Buckets -> Seq(Element)]
      /\ Len(l) \in Nat
      /\ KeysReached
  BY BucketOf DEF KeysTypeOK
<1>2. CASE (s # <<>> \/ store[t] = <<>>) /\ Stores(t, s, {}) /\ UNCHANGED list
  <2>1. store[t] = <<>> => s = <<>>
    <3>1. store[t] = <<>> => ~Has(store[t], k)
      BY DEF Has
    <3> QED
      BY <3>1 DEF WithoutKey
  <2>2. \A x \in Triplets : store'[x] # <<>> => store[x] # <<>>
    BY <1>2, <2>1 DEF Stores
  <2> QED
    BY <1>1, <1>2, <2>2 DEF StorageStep, Reached, KeysReached
<1>3. ASSUME NEW i \in 1 .. Len(l), l[i].t = t, s = <<>>,
             list' = [list EXCEPT ![b] = LedTo(l, i) \o Behind(l, i)],
             Stores(t, <<>>, Missing(l, i))
      PROVE  StorageStep(t, s)
  <2> DEFINE front == LedTo(l, i)
             back  == Behind(l, i)
             m     == front \o back
  <2>1. front \in Seq(Element) /\ back \in Seq(Element) /\ Len(back) = Len(l) - i
    BY <1>1, ListParts
  <2>2. \A j \in i + 1 .. Len(l) : j - i \in 1 .. Len(back) /\ back[j - i].t = l[j].t
    BY <1>1, <2>1, ListParts
  <2>3. \A j \in 1 .. i - 1 : l[j].t \in Missing(l, i) \/
           (j \in 1 .. Len(front) /\ front[j] = l[j])
    BY <1>1, ListParts
  <2> HIDE DEF front, back
  <2>4. /\ m \in Seq(Element) /\ Len(m) = Len(front) + Len(back)
        /\ Len(front) \in Nat /\ Len(back) \in Nat
        /\ \A j \in 1 .. Len(front) : m[j] = front[j]
        /\ \A j \in 1 .. Len(back) : m[Len(front) + j] = back[j]
    <3> HIDE DEF m
    <3>1. m = front \o back
      BY DEF m
    <3>2. front \o back \in Seq(Element) /\ Joined(front, back, front \o back)
      BY <2>1, ConcatTwo
    <3> QED
      BY <3>1, <3>2 DEF Joined
  <2> HIDE DEF m
  <2>5. list'[b] = m /\ list' \in [Buckets -> Seq(Element)]
        /\ \A c \in Buckets \ {b} : list'[c] = list[c]
    BY <1>1, <1>3, <2>4 DEF m, front, back
  <2>6. ASSUME NEW x \in Triplets, store'[x] # <<>> PROVE Reached(x)'
    <3>1. x # t /\ store[x] # <<>> /\ x \notin Missing(l, i) /\ ks_getBucket(x[1]) \in Buckets
      BY <1>3, <2>6, BucketOf DEF Stores
    <3>2. PICK j \in 1 .. Len(list[ks_getBucket(x[1])]) : list[ks_getBucket(x[1])][j].t = x
      BY <1>1, <3>1 DEF Reached, KeysReached
    <3>3. CASE ks_getBucket(x[1]) # b
      BY <2>5, <3>1, <3>2, <3>3 DEF Reached
    <3>4. CASE ks_getBucket(x[1]) = b
      <4>1. j \in 1 .. Len(l) /\ l[j].t = x /\ j # i
        BY <1>3, <3>1, <3>2, <3>4
      <4>2. \E h \in 1 .. Len(m) : m[h].t = x
        <5>1. CASE j < i
          <6>1. j \in 1 .. Len(front) /\ front[j] = l[j]
            BY <1>1, <2>3, <3>1, <4>1, <5>1
          <6>2. j \in 1 .. Len(m) /\ m[j].t = x
            BY <2>4, <4>1, <6>1
          <6> QED
            BY <6>2
        <5>2. CASE j > i
          <6>1. j - i \in 1 .. Len(back) /\ back[j - i].t = l[j].t
            BY <1>1, <2>2, <4>1, <5>2
          <6>2. m[Len(front) + (j - i)].t = x
            BY <2>4, <4>1, <6>1
          <6>3. Len(front) + (j - i) \in 1 .. Len(m)
            BY <2>4, <6>1
          <6> QED
            BY <6>2, <6>3
        <5> QED
          BY <1>1, <4>1, <5>1, <5>2
      <4> QED
        BY <2>5, <3>4, <4>2 DEF Reached
    <3> QED
      BY <3>3, <3>4
  <2> QED
    BY <1>3, <2>5, <2>6 DEF StorageStep, KeysReached
<1> QED
  BY <1>2, <1>3 DEF ks_delKey

-----------------------------------------------------------------------------
(* Lemmas about the SKI cache.                                             *)

\* Positions are counted by numbers.
LEMMA RegsAreNat ==
    ASSUME NEW u \in Updates, NEW t \in Triplets
    PROVE  Enters[u][t] \in Nat /\ Leaves[u][t] \in Nat
<1>1. IsFiniteSet(Positions(u))
  <2>1. Len(Attr[u].algo) \in Nat /\ Len(Attr[u].asn) \in Nat
    BY KeysAssumption
  <2>2. IsFiniteSet(Blocks(u)) /\ IsFiniteSet(Segments(u))
    <3>1. \A m \in Nat : IsFiniteSet(1 .. m)
      BY FS_Interval
    <3> QED
      BY <2>1, <3>1 DEF Blocks, Segments
  <2> QED
    BY <2>2, FS_Product DEF Positions
<1>2. IsFiniteSet({p \in Positions(u) : Entered(u, p) = t})
  BY <1>1, FS_Subset
<1>3. IsFiniteSet({p \in Positions(u) : Sought(u, p) = t})
  BY <1>1, FS_Subset
<1> QED
  BY <1>2, <1>3, FS_CardinalityType DEF Enters, Leaves

\* With one block an update is entered where it is sought.
LEMMA OneBlock ==
    ASSUME NEW u \in Updates, NEW t \in Triplets, Len(Attr[u].algo) = 1
    PROVE  Enters[u][t] = Leaves[u][t]
<1>1. ASSUME NEW p \in Positions(u) PROVE Entered(u, p) = Sought(u, p)
  <2>1. p[1] = 1 /\ p[2] \in Nat /\ Len(Attr[u].asn) \in Nat
    BY KeysAssumption DEF Positions, Blocks, Segments
  <2>2. (p[2] - 1) + (p[2] - 1) * (p[1] - 1) + 1 = p[2]
    BY <2>1
  <2>3. (p[1] - 1) * Len(Attr[u].asn) + p[2] = p[2]
    BY <2>1
  <2> QED
    BY <2>2, <2>3 DEF Entered, Sought
<1>2. {p \in Positions(u) : Entered(u, p) = t} = {p \in Positions(u) : Sought(u, p) = t}
  BY <1>1
<1> QED
  BY <1>2 DEF Enters, Leaves

\* An offset into rows of equal length.
LEMMA RowMajor ==
    ASSUME NEW n \in Nat, NEW m \in Nat, NEW b \in 1 .. m, NEW j \in 1 .. n
    PROVE  (b - 1) * n + j \in 1 .. n * m
<1>1. b - 1 \in Nat /\ m - b \in Nat /\ m = (b - 1) + 1 + (m - b)
  OBVIOUS
<1>2. \A x, y \in Nat : n * (x + 1 + y) = x * n + n + y * n /\ x * n \in Nat /\ y * n \in Nat
  OBVIOUS
<1>3. n * m = (b - 1) * n + n + (m - b) * n /\ (b - 1) * n \in Nat /\ (m - b) * n \in Nat
  BY <1>1, <1>2
<1> QED
  BY <1>3

\* The keys an update needs are at triplets.
LEMMA NeedsTriplets == ASSUME NEW u \in Updates PROVE Needs[u] \subseteq Triplets
<1>1. ASSUME NEW p \in Positions(u) PROVE Sought(u, p) \in Triplets
  <2> DEFINE a == Attr[u]
             n == Len(a.asn)
             o == (p[1] - 1) * n + p[2]
  <2>1. /\ a.asn \in Seq(ASes) /\ a.algo \in Seq(Algos) /\ a.ski \in Seq(SKIs)
        /\ Len(a.ski) = n * Len(a.algo) /\ n \in Nat /\ Len(a.algo) \in Nat
        /\ p[1] \in 1 .. Len(a.algo) /\ p[2] \in 1 .. n
    <3>1. a \in [asn : Seq(ASes), algo : Seq(Algos), ski : Seq(SKIs)]
      BY KeysAssumption
    <3>2. p[1] \in Blocks(u) /\ p[2] \in Segments(u)
      BY DEF Positions
    <3>3. Len(a.ski) = n * Len(a.algo)
      BY KeysAssumption
    <3>4. a.asn \in Seq(ASes) /\ a.algo \in Seq(Algos) /\ a.ski \in Seq(SKIs)
      BY <3>1
    <3>5. n \in Nat /\ Len(a.algo) \in Nat
      BY <3>4
    <3>6. p[1] \in 1 .. Len(a.algo) /\ p[2] \in 1 .. n
      BY <3>2 DEF Blocks, Segments
    <3> QED
      BY <3>3, <3>4, <3>5, <3>6
  <2>2. o \in 1 .. Len(a.ski)
    BY <2>1, RowMajor
  <2>3. a.asn[p[2]] \in ASes /\ a.algo[p[1]] \in Algos /\ a.ski[o] \in SKIs
    BY <2>1, <2>2, ElementOfSeq
  <2> QED
    BY <2>3 DEF Sought, Triplets
<1> QED
  BY <1>1 DEF Needs

\* Keys at one triplet decide about the updates that need it, and no others.
LEMMA VerdictStays ==
    ASSUME NEW u \in Updates, \A t \in Needs[u] : store'[t] = store[t]
    PROVE  Verdict(u)' = Verdict(u)
<1>1. \A t \in Needs[u] : Verified(t)' <=> Verified(t)
  BY DEF Verified
<1> QED
  BY <1>1 DEF Verdict

\* There are too few PDUs for a counter to wrap.
LEMMA NoWrap ==
    ASSUME KeysInv, NEW t \in Triplets, pdus < MaxPdus
    PROVE  /\ (keyCount[t] + 1) % CounterSize = keyCount[t] + 1
           /\ keyCount[t] + 1 \in 1 .. CounterSize - 1
<1>1. /\ keyCount[t] \in Nat /\ keyCount[t] <= pdus /\ pdus \in Nat
      /\ CounterSize \in Nat /\ MaxPdus \in Nat /\ MaxPdus < CounterSize
  BY KeysAssumption DEF KeysInv, KeysTypeOK, CountsBounded
<1> QED
  BY <1>1

-----------------------------------------------------------------------------
(* The invariant.                                                          *)

LEMMA KeysInitInv == ASSUME KeysInit PROVE KeysInv
<1>1. KeysTypeOK
  <2>1. 0 \in 0 .. CounterSize - 1 /\ 0 \in 0 .. MaxPdus /\ 0 \in Nat
    BY KeysAssumption
  <2>2. /\ store \in [Triplets -> Seq(Keys \cup {Gone})] /\ list \in [Buckets -> Seq(Element)]
        /\ \A t \in Triplets : store[t] = <<>>
    BY DEF KeysInit
  <2> QED
    BY <2>1, <2>2 DEF KeysInit, KeysTypeOK, KeysReached
<1>2. OneKey /\ NewIsUnknown /\ ToldListeners /\ KeysCounted /\ RegistrationsWhole
  BY DEF KeysInit, OneKey, NewIsUnknown, ToldListeners, KeysCounted, RegistrationsWhole
<1>3. CountsBounded
  BY DEF KeysInit, CountsBounded
<1>4. ToldUnlessMissed
  BY DEF KeysInit, ToldUnlessMissed
<1> QED
  BY <1>1, <1>2, <1>3, <1>4 DEF KeysInv, KeysInit

\* What a withdrawal does to the counter.
LEMMA UnregisterKeyType ==
    ASSUME KeysTypeOK, NEW t \in Triplets, ski_unregisterKey(t)
    PROVE  /\ keyCount' \in [Triplets -> 0 .. CounterSize - 1]
           /\ rpkiQ' \subseteq Updates
           /\ \A x \in Triplets : keyCount'[x] <= keyCount[x]
           /\ \A x \in Triplets \ {t} : keyCount'[x] = keyCount[x]
<1>1. keyCount[t] \in 0 .. CounterSize - 1 /\ CounterSize \in Nat
  BY KeysAssumption DEF KeysTypeOK
<1>2. CASE keyCount[t] = 0
  BY <1>2 DEF ski_unregisterKey, KeysTypeOK
<1>3. CASE keyCount[t] # 0
  <2>1. keyCount[t] - 1 \in 0 .. CounterSize - 1 /\ 0 \in 0 .. CounterSize - 1
    BY <1>1, <1>3
  <2>2. PICK n \in 0 .. CounterSize - 1 :
          keyCount' = [keyCount EXCEPT ![t] = n] /\ n <= keyCount[t]
    BY <1>1, <1>3, <2>1 DEF ski_unregisterKey
  <2>3. rpkiQ' = rpkiQ \cup Attached(t)
    BY <1>3 DEF ski_unregisterKey
  <2> QED
    BY <2>2, <2>3 DEF KeysTypeOK, Attached
<1> QED
  BY <1>2, <1>3

LEMMA StepType ==
    ASSUME KeysTypeOK, NEW t \in Triplets, NEW s \in Seq(Keys \cup {Gone}), StorageStep(t, s)
    PROVE  /\ store' \in [Triplets -> Seq(Keys \cup {Gone})] /\ missed' \subseteq Clients \X Updates
           /\ list' \in [Buckets -> Seq(Element)]
           /\ KeysReached'
<1>1. PICK missing : Stores(t, s, missing)
  BY DEF StorageStep
<1>2. <<>> \in Seq(Keys \cup {Gone})
  OBVIOUS
<1> QED
  BY <1>1, <1>2 DEF StorageStep, Stores, KeysTypeOK

LEMMA KeysTypeNext == ASSUME KeysInv, [KeysNext]_vars PROVE KeysTypeOK'
<1> USE DEF KeysTypeOK
<1>0. KeysTypeOK /\ CounterSize \in Nat /\ MaxPdus \in Nat
  BY KeysAssumption DEF KeysInv
<1>b. UNCHANGED <<store, list>> => KeysReached'
  BY <1>0 DEF KeysReached, Reached
<1>a. \A u \in Updates : Verdict(u) \in Verdicts
  BY DEF Verdict, Verdicts
<1>1. ASSUME NEW t \in Triplets, NEW k \in Keys, AnnounceKey(t, k) PROVE KeysTypeOK'
  <2> USE <1>1 DEF AnnounceKey, cacheVars
  <2>1. pdus' \in 0 .. MaxPdus /\ held' \subseteq Triplets \X Keys
    BY <1>0
  <2>2. crashed' \in BOOLEAN
    BY DEF MeetsNull
  <2>3. CASE crashed'
    BY <1>0, <1>b, <2>1, <2>2, <2>3
  <2>4. CASE ~crashed'
    <3>1. /\ store' \in [Triplets -> Seq(Keys \cup {Gone})] /\ missed' \subseteq Clients \X Updates
          /\ list' \in [Buckets -> Seq(Element)]
          /\ KeysReached'
      <4>1. StorageStep(t, WithKey(store[t], k)) /\ store[t] \in Seq(Keys \cup {Gone})
        BY <1>0, <2>4, StoreStep
      <4>2. WithKey(store[t], k) \in Seq(Keys \cup {Gone})
        BY <4>1, WithKeyType
      <4> QED
        BY <1>0, <4>1, <4>2, StepType
    <3>2. keyCount' \in [Triplets -> 0 .. CounterSize - 1]
      <4>1. keyCount' = [keyCount EXCEPT ![t] = (keyCount[t] + 1) % CounterSize] /\ pdus < MaxPdus
        BY <2>4 DEF ski_registerKey
      <4>2. (keyCount[t] + 1) % CounterSize \in 0 .. CounterSize - 1
        BY <4>1, NoWrap
      <4> QED
        BY <1>0, <4>1, <4>2
    <3>3. rpkiQ' \subseteq Updates
      BY <1>0, <2>4 DEF ski_registerKey, Attached
    <3> QED
      BY <1>0, <2>1, <2>2, <3>1, <3>2, <3>3
  <2> QED
    BY <2>2, <2>3, <2>4
<1>2. ASSUME NEW t \in Triplets, NEW k \in Keys, WithdrawKey(t, k) PROVE KeysTypeOK'
  <2> USE <1>2 DEF WithdrawKey, cacheVars
  <2>1. pdus' \in 0 .. MaxPdus /\ held' \subseteq Triplets \X Keys
    BY <1>0
  <2>2. crashed' \in BOOLEAN
    BY DEF MeetsNull
  <2>3. CASE crashed'
    BY <1>0, <1>b, <2>1, <2>2, <2>3
  <2>4. CASE ~crashed'
    <3>1. /\ store' \in [Triplets -> Seq(Keys \cup {Gone})] /\ missed' \subseteq Clients \X Updates
          /\ list' \in [Buckets -> Seq(Element)]
          /\ KeysReached'
      <4>1. StorageStep(t, WithoutKey(store[t], k)) /\ store[t] \in Seq(Keys \cup {Gone})
        BY <1>0, <2>4, DelStep
      <4>2. WithoutKey(store[t], k) \in Seq(Keys \cup {Gone})
        BY <4>1, WithoutKeyType
      <4> QED
        BY <1>0, <4>1, <4>2, StepType
    <3>2. keyCount' \in [Triplets -> 0 .. CounterSize - 1] /\ rpkiQ' \subseteq Updates
      BY <1>0, <2>4, UnregisterKeyType
    <3> QED
      BY <1>0, <2>1, <2>2, <3>1, <3>2
  <2> QED
    BY <2>2, <2>3, <2>4
<1>3. ASSUME EndOfData PROVE KeysTypeOK'
  BY <1>0, <1>b, <1>3 DEF EndOfData, storageVars, skiVars, cacheVars
<1>4. ASSUME NEW u \in Updates, NotifyNext(u) PROVE KeysTypeOK'
  <2>1. told' \in [Clients -> [Updates -> Verdicts \cup {Undefined}]]
    BY <1>0, <1>b, <1>a, <1>4 DEF NotifyNext, Broadcast
  <2>2. draining' \in BOOLEAN /\ rpkiQ' \subseteq Updates /\ missed' \subseteq Clients \X Updates
    BY <1>0, <1>b, <1>4 DEF NotifyNext
  <2> QED
    BY <1>0, <1>b, <1>4, <2>1, <2>2 DEF NotifyNext, storageVars, skiVars, cacheVars
<1>5. ASSUME NEW c \in Clients, NEW u \in Updates, RequestNew(c, u) PROVE KeysTypeOK'
  <2>1. regs' \in [Triplets -> [Updates -> Nat]]
    BY <1>0, <1>b, <1>5, RegsAreNat DEF RequestNew, ski_registerUpdate
  <2> QED
    BY <1>0, <1>b, <1>5, <2>1 DEF RequestNew, ski_registerUpdate, storageVars
<1>6. ASSUME NEW c \in Clients, NEW u \in Updates, RequestKnown(c, u) PROVE KeysTypeOK'
  <2>1. missed' \subseteq Clients \X Updates
    BY <1>0, <1>b, <1>6 DEF RequestKnown, Race, Pairs
  <2>2. told' \in [Clients -> [Updates -> Verdicts \cup {Undefined}]]
    BY <1>0, <1>b, <1>6 DEF RequestKnown
  <2>3. listeners' \in [Updates -> SUBSET Clients]
    BY <1>0, <1>b, <1>6 DEF RequestKnown
  <2> QED
    BY <1>0, <1>b, <1>6, <2>1, <2>2, <2>3 DEF RequestKnown, storageVars, skiVars
<1>7. ASSUME NEW u \in Updates, CommandStart(u) PROVE KeysTypeOK'
  BY <1>0, <1>b, <1>a, <1>7 DEF CommandStart, storageVars, skiVars, cacheVars
<1>8. ASSUME CommandStore PROVE KeysTypeOK'
  <2> USE <1>8 DEF CommandStore
  <2>1. checking.update \in Updates /\ checking.verdict \in Verdicts
    BY <1>0
  <2>2. missed' \subseteq Clients \X Updates
    BY <1>0, <2>1 DEF Race, Pairs
  <2>3. told' \in [Clients -> [Updates -> Verdicts \cup {Undefined}]]
    BY <1>0, <2>1 DEF Broadcast
  <2> QED
    BY <1>0, <1>b, <2>1, <2>2, <2>3 DEF storageVars, skiVars
<1>9. ASSUME NEW c \in Clients, NEW us \in SUBSET Updates, Forget(c, us)
      PROVE  /\ listeners' \in [Updates -> SUBSET Clients]
             /\ told' \in [Clients -> [Updates -> Verdicts \cup {Undefined}]]
             /\ missed' \subseteq Clients \X Updates
  BY <1>0, <1>b, <1>9 DEF Forget
<1>10. ASSUME NEW c \in Clients, NEW u \in Updates, DeleteUpdate(c, u) PROVE KeysTypeOK'
  <2>1. \A r, n \in Nat : Unregistered(r, n) \in Nat
    BY DEF Unregistered
  <2>2. regs' \in [Triplets -> [Updates -> Nat]]
    BY <1>0, <1>b, <1>10, <2>1, RegsAreNat DEF DeleteUpdate, ski_unregisterUpdate
  <2> QED
    BY <1>0, <1>b, <1>9, <1>10, <2>2 DEF DeleteUpdate, ski_unregisterUpdate, storageVars
<1>11. ASSUME NEW c \in Clients, EndSession(c) PROVE KeysTypeOK'
  BY <1>0, <1>b, <1>9, <1>11 DEF EndSession, storageVars, skiVars
<1>12. ASSUME UNCHANGED vars PROVE KeysTypeOK'
  BY <1>0, <1>b, <1>12 DEF vars, storageVars, skiVars, cacheVars
<1> QED
  BY <1>1, <1>2, <1>3, <1>4, <1>5, <1>6, <1>7, <1>8, <1>10, <1>11, <1>12, KeysAssumption
     DEF KeysNext, Rpki, Receiver, Command

\* What the validation cache announced, the storage and the counters.
HeldInv ==
    /\ \A h \in held : h[2] \in KeysAt[h[1]]
    /\ OneKey /\ CountsBounded /\ KeysCounted

LEMMA StepEffect ==
    ASSUME NEW t \in Triplets, NEW s, StorageStep(t, s)
    PROVE  store'[t] = s /\ \A x \in Triplets \ {t} : store'[x] \in {<<>>, store[x]}
BY DEF StorageStep, Stores

LEMMA HeldNext == ASSUME KeysInv, [KeysNext]_vars PROVE HeldInv'
<1>0. HeldInv /\ KeysTypeOK
  BY DEF KeysInv, HeldInv
<1>1. ASSUME UNCHANGED <<store, held, keyCount, pdus>> PROVE HeldInv'
  BY <1>0, <1>1 DEF HeldInv, OneKey, CountsBounded, KeysCounted
<1>2. ASSUME NEW t \in Triplets, NEW k \in Keys, AnnounceKey(t, k) PROVE HeldInv'
  <2> USE <1>2 DEF AnnounceKey
  <2>1. \A h \in held' : h[2] \in KeysAt[h[1]]
    BY <1>0 DEF HeldInv
  <2>2. pdus \in Nat /\ pdus' = pdus + 1 /\ \A x \in Triplets : keyCount[x] \in Nat
    BY <1>0, KeysAssumption DEF KeysTypeOK
  <2>3. CASE crashed'
    BY <1>0, <2>1, <2>2, <2>3 DEF HeldInv, OneKey, CountsBounded, KeysCounted
  <2>4. CASE ~crashed'
    <3>1. /\ store'[t] = WithKey(store[t], k)
          /\ \A x \in Triplets \ {t} : store'[x] \in {<<>>, store[x]}
          /\ keyCount' = [keyCount EXCEPT ![t] = (keyCount[t] + 1) % CounterSize]
      BY <1>0, <2>4, StoreStep, StepEffect DEF ski_registerKey
    <3>2. (keyCount[t] + 1) % CounterSize = keyCount[t] + 1
      BY NoWrap
    <3>3. keyCount' = [keyCount EXCEPT ![t] = keyCount[t] + 1]
      BY <3>1, <3>2
    <3>4. CountsBounded'
      BY <1>0, <2>2, <3>3 DEF HeldInv, CountsBounded, KeysTypeOK
    <3>5. KeysCounted'
      BY <1>0, <2>2, <3>1, <3>3 DEF HeldInv, KeysCounted, KeysTypeOK
    <3>6. ASSUME Unique(t) PROVE store'[t] = <<k>>
      <4>1. store[t] = <<>> \/ store[t] = <<k>>
        BY <1>0, <3>6 DEF HeldInv, OneKey, Unique
      <4> QED
        BY <1>0, <3>1, <4>1, SingleKey DEF KeysTypeOK
    <3>7. OneKey'
      BY <1>0, <3>1, <3>6 DEF HeldInv, OneKey, KeysTypeOK
    <3> QED
      BY <2>1, <3>4, <3>5, <3>7 DEF HeldInv
  <2> QED
    BY <2>3, <2>4
<1>3. ASSUME NEW t \in Triplets, NEW k \in Keys, WithdrawKey(t, k) PROVE HeldInv'
  <2> USE <1>3 DEF WithdrawKey
  <2>1. \A h \in held' : h[2] \in KeysAt[h[1]]
    BY <1>0 DEF HeldInv
  <2>2. pdus \in Nat /\ pdus' = pdus + 1 /\ \A x \in Triplets : keyCount[x] \in Nat
    BY <1>0, KeysAssumption DEF KeysTypeOK
  <2>3. CASE crashed'
    BY <1>0, <2>1, <2>2, <2>3 DEF HeldInv, OneKey, CountsBounded, KeysCounted
  <2>4. CASE ~crashed'
    <3>1. /\ store'[t] = WithoutKey(store[t], k)
          /\ \A x \in Triplets \ {t} : store'[x] \in {<<>>, store[x]}
          /\ ski_unregisterKey(t)
      BY <1>0, <2>4, DelStep, StepEffect
    <3>2. /\ keyCount' \in [Triplets -> 0 .. CounterSize - 1]
          /\ \A x \in Triplets : keyCount'[x] <= keyCount[x]
          /\ \A x \in Triplets \ {t} : keyCount'[x] = keyCount[x]
      BY <1>0, <3>1, UnregisterKeyType
    <3>3. CountsBounded'
      <4>1. \A x \in Triplets : keyCount'[x] \in Nat
        BY <3>2, KeysAssumption
      <4> QED
        BY <1>0, <2>2, <3>2, <4>1 DEF HeldInv, CountsBounded
    <3>4. ASSUME Unique(t) PROVE store'[t] = <<>>
      <4>1. k \in KeysAt[t]
        BY <1>0 DEF HeldInv
      <4>2. store[t] = <<>> \/ store[t] = <<k>>
        BY <1>0, <3>4, <4>1 DEF HeldInv, OneKey, Unique
      <4> QED
        BY <1>0, <3>1, <4>2, SingleKey DEF KeysTypeOK
    <3>5. KeysCounted'
      BY <1>0, <3>1, <3>2, <3>4 DEF HeldInv, KeysCounted, KeysTypeOK
    <3>6. OneKey'
      BY <1>0, <3>1, <3>4 DEF HeldInv, OneKey, KeysTypeOK
    <3> QED
      BY <2>1, <3>3, <3>5, <3>6 DEF HeldInv
  <2> QED
    BY <2>3, <2>4
<1> QED
  BY <1>1, <1>2, <1>3
     DEF KeysNext, Rpki, Receiver, Command, EndOfData, NotifyNext, RequestNew, RequestKnown,
         CommandStart, CommandStore, DeleteUpdate, EndSession, ski_registerUpdate,
         ski_unregisterUpdate, vars, storageVars, skiVars

\* Who is registered with what.
ListInv == NewIsUnknown /\ ToldListeners /\ RegistrationsWhole

LEMMA ListNext == ASSUME KeysInv, [KeysNext]_vars PROVE ListInv'
<1>0. ListInv /\ KeysTypeOK
  BY DEF KeysInv, ListInv
<1>1. ASSUME UNCHANGED <<stored, listeners, regs, told>> PROVE ListInv'
  BY <1>0, <1>1 DEF ListInv, NewIsUnknown, ToldListeners, RegistrationsWhole
<1>2. ASSUME NEW u \in Updates, NEW v, Broadcast(u, v), UNCHANGED <<stored, listeners, regs>>
      PROVE  ListInv'
  <2>1. ToldListeners'
    BY <1>0, <1>2 DEF ListInv, ToldListeners, Broadcast, KeysTypeOK
  <2> QED
    BY <1>0, <1>2, <2>1 DEF ListInv, NewIsUnknown, RegistrationsWhole
<1>3. ASSUME NEW c \in Clients, NEW u \in Updates, RequestNew(c, u) PROVE ListInv'
  <2> USE <1>3 DEF RequestNew
  <2>1. regs' = [x \in Triplets |-> [regs[x] EXCEPT ![u] = @ + Enters[u][x]]]
    BY DEF ski_registerUpdate
  <2>2. \A x \in Triplets : regs'[x][u] = Enters[u][x]
    BY <1>0, <2>1, RegsAreNat DEF ListInv, NewIsUnknown, KeysTypeOK
  <2>3. \A x \in Triplets, w \in Updates \ {u} : regs'[x][w] = regs[x][w]
    BY <1>0, <2>1 DEF KeysTypeOK
  <2>4. NewIsUnknown'
    BY <1>0, <2>3 DEF ListInv, NewIsUnknown, KeysTypeOK
  <2>5. ToldListeners'
    BY <1>0 DEF ListInv, NewIsUnknown, ToldListeners, KeysTypeOK
  <2>6. RegistrationsWhole'
    BY <1>0, <2>2, <2>3, OneBlock DEF ListInv, RegistrationsWhole
  <2> QED
    BY <2>4, <2>5, <2>6 DEF ListInv
<1>4. ASSUME NEW c \in Clients, NEW u \in Updates, RequestKnown(c, u) PROVE ListInv'
  <2> USE <1>4 DEF RequestKnown, skiVars
  <2>1. NewIsUnknown' /\ RegistrationsWhole'
    BY <1>0 DEF ListInv, NewIsUnknown, RegistrationsWhole, KeysTypeOK
  <2>2. ToldListeners'
    BY <1>0 DEF ListInv, ToldListeners, KeysTypeOK
  <2> QED
    BY <2>1, <2>2 DEF ListInv
<1>5. ASSUME NEW c \in Clients, NEW us \in SUBSET Updates, Forget(c, us)
      PROVE  ToldListeners' /\ \A u \in Updates : listeners[u] = {} => listeners'[u] = {}
  BY <1>0, <1>5 DEF Forget, ListInv, ToldListeners, KeysTypeOK
<1>6. ASSUME NEW c \in Clients, NEW u \in Updates, DeleteUpdate(c, u) PROVE ListInv'
  <2> USE <1>6 DEF DeleteUpdate
  <2>1. regs' = [x \in Triplets |-> [regs[x] EXCEPT ![u] = Unregistered(@, Leaves[u][x])]]
    BY DEF ski_unregisterUpdate
  <2>2. \A x \in Triplets : regs'[x][u] = Unregistered(regs[x][u], Leaves[u][x])
    BY <1>0, <2>1 DEF KeysTypeOK
  <2>3. \A x \in Triplets, w \in Updates \ {u} : regs'[x][w] = regs[x][w]
    BY <1>0, <2>1 DEF KeysTypeOK
  <2>5. \A x \in Triplets :
          /\ regs[x][u] = 0 => regs'[x][u] = 0
          /\ regs[x][u] = Leaves[u][x] => regs'[x][u] = 0
    BY <2>2, RegsAreNat DEF Unregistered
  <2>6. NewIsUnknown'
    BY <1>0, <1>5, <2>3, <2>5 DEF ListInv, NewIsUnknown
  <2>7. RegistrationsWhole'
    BY <1>0, <2>3, <2>5 DEF ListInv, RegistrationsWhole
  <2> QED
    BY <1>5, <2>6, <2>7 DEF ListInv
<1>7. ASSUME NEW c \in Clients, EndSession(c) PROVE ListInv'
  <2> USE <1>7 DEF EndSession, skiVars
  <2>1. NewIsUnknown'
    BY <1>0, <1>5 DEF ListInv, NewIsUnknown
  <2> QED
    BY <1>0, <1>5, <2>1 DEF ListInv, RegistrationsWhole
<1>8. ASSUME NEW u \in Updates, NotifyNext(u) PROVE ListInv'
  BY <1>2, <1>8 DEF NotifyNext, skiVars, cacheVars
<1>9. ASSUME CommandStore PROVE ListInv'
  <2>1. checking.update \in Updates
    BY <1>0, <1>9 DEF CommandStore, KeysTypeOK
  <2> QED
    BY <1>2, <1>9, <2>1 DEF CommandStore, skiVars
<1>10. ASSUME NEW t \in Triplets, NEW k \in Keys, AnnounceKey(t, k) \/ WithdrawKey(t, k)
       PROVE  ListInv'
  BY <1>1, <1>10 DEF AnnounceKey, WithdrawKey, cacheVars
<1>11. ASSUME EndOfData \/ UNCHANGED vars \/ \E u \in Updates : CommandStart(u) PROVE ListInv'
  BY <1>1, <1>11 DEF EndOfData, CommandStart, vars, skiVars, cacheVars
<1> QED
  BY <1>3, <1>4, <1>6, <1>7, <1>8, <1>9, <1>10, <1>11, KeysAssumption
     DEF KeysNext, Rpki, Receiver, Command

\* The verdict a client goes by.
LEMMA ToldNext == ASSUME KeysInv, [KeysNext]_vars PROVE ToldUnlessMissed'
<1> DEFINE Good(c, u) ==
      /\ c \in listeners[u] /\ <<c, u>> \notin missed
      /\ Listed(u) /\ \A t \in Needs[u] : Unique(t)
      => told[c][u] \in {Undefined, Verdict(u)} \/ u \in rpkiQ
<1>0. KeysTypeOK /\ HeldInv /\ ListInv /\ \A u \in Updates, c \in Clients : Good(c, u)
  BY DEF KeysInv, HeldInv, ListInv, ToldUnlessMissed
<1> SUFFICES ASSUME NEW u \in Updates, NEW c \in Clients PROVE Good(c, u)'
  BY DEF ToldUnlessMissed
<1>1. ASSUME UNCHANGED <<store, regs, listeners, told, missed>>, rpkiQ \subseteq rpkiQ'
      PROVE  Good(c, u)'
  <2>1. Verdict(u)' = Verdict(u)
    BY <1>1, VerdictStays
  <2>2. Listed(u)' = Listed(u)
    BY <1>1 DEF Listed, Attached
  <2> QED
    BY <1>0, <1>1, <2>1, <2>2
\* A change of the storage that concerns the update is put into the queue,
\* unless the key went missing with another.
<1>2. ASSUME NEW t \in Triplets, NEW s, StorageStep(t, s), UNCHANGED <<regs, listeners, told>>,
             store'[t] # store[t] /\ Unique(t) => rpkiQ' = rpkiQ \cup Attached(t),
             rpkiQ \subseteq rpkiQ'
      PROVE  Good(c, u)'
  <2>1. Listed(u)' = Listed(u)
    BY <1>2 DEF Listed, Attached
  <2>2. PICK missing : Stores(t, s, missing)
    BY <1>2 DEF StorageStep
  <2>3. CASE t \in Needs[u] /\ store'[t] # store[t]
    BY <1>2, <2>1, <2>3 DEF Listed
  <2>4. CASE Needs[u] \cap missing # {}
    <3>1. c \in listeners[u] => <<c, u>> \in missed'
      BY <2>2, <2>4 DEF Stores
    <3> QED
      BY <1>2, <3>1
  <2>5. CASE ~(t \in Needs[u] /\ store'[t] # store[t]) /\ Needs[u] \cap missing = {}
    <3>1. \A x \in Needs[u] : store'[x] = store[x]
      BY <2>2, <2>5, NeedsTriplets DEF Stores
    <3>2. Verdict(u)' = Verdict(u)
      BY <3>1, VerdictStays
    <3>3. <<c, u>> \notin missed' => <<c, u>> \notin missed
      BY <2>2 DEF Stores
    <3> QED
      BY <1>0, <1>2, <2>1, <3>2, <3>3
  <2> QED
    BY <2>3, <2>4, <2>5
<1>3. ASSUME NEW t \in Triplets, NEW k \in Keys, AnnounceKey(t, k) PROVE Good(c, u)'
  <2> USE <1>3 DEF AnnounceKey, cacheVars
  <2>1. CASE crashed'
    BY <1>1, <2>1
  <2>2. CASE ~crashed'
    <3>1. StorageStep(t, WithKey(store[t], k)) /\ rpkiQ' = rpkiQ \cup Attached(t)
      BY <1>0, <2>2, StoreStep DEF ski_registerKey
    <3> QED
      BY <1>2, <3>1
  <2> QED
    BY <2>1, <2>2
<1>4. ASSUME NEW t \in Triplets, NEW k \in Keys, WithdrawKey(t, k) PROVE Good(c, u)'
  <2> USE <1>4 DEF WithdrawKey, cacheVars
  <2>1. CASE crashed'
    BY <1>1, <2>1
  <2>2. CASE ~crashed'
    <3>1. StorageStep(t, WithoutKey(store[t], k)) /\ ski_unregisterKey(t)
      BY <1>0, <2>2, DelStep
    <3>2. store'[t] = WithoutKey(store[t], k)
      BY <3>1, StepEffect
    <3>3. rpkiQ \subseteq rpkiQ' /\ (keyCount[t] # 0 => rpkiQ' = rpkiQ \cup Attached(t))
      BY <3>1 DEF ski_unregisterKey
    <3>4. ASSUME Unique(t), store'[t] # store[t] PROVE keyCount[t] # 0
      <4>1. store[t] # <<>>
        BY <1>0, <3>2, <3>4, SingleKey DEF KeysTypeOK
      <4> QED
        BY <1>0, <3>4, <4>1 DEF HeldInv, KeysCounted
    <3> QED
      BY <1>2, <3>1, <3>3, <3>4
  <2> QED
    BY <2>1, <2>2
\* Steps that leave the keys alone.
<1>5. ASSUME UNCHANGED store PROVE Verdict(u)' = Verdict(u)
  BY <1>5, VerdictStays
<1>6. ASSUME NEW w \in Updates, NotifyNext(w) PROVE Good(c, u)'
  <2> USE <1>6 DEF NotifyNext, storageVars, skiVars, cacheVars
  <2>1. Verdict(u)' = Verdict(u) /\ Listed(u)' = Listed(u)
    BY <1>5 DEF Listed, Attached
  <2>2. CASE u = w /\ c \in listeners[u]
    <3>1. told'[c][u] = Verdict(u)
      BY <1>0, <2>2 DEF Broadcast, KeysTypeOK
    <3> QED
      BY <2>1, <3>1
  <2>3. CASE ~(u = w /\ c \in listeners[u])
    <3>1. c \in listeners[u] => told'[c][u] = told[c][u] /\ (u \in rpkiQ => u \in rpkiQ')
      BY <1>0, <2>3 DEF Broadcast, KeysTypeOK
    <3>2. c \in listeners[u] /\ <<c, u>> \notin missed' => <<c, u>> \notin missed
      BY <2>3 DEF Pairs
    <3> QED
      BY <1>0, <2>1, <3>1, <3>2
  <2> QED
    BY <2>2, <2>3
\* A result that is not the verdict makes the race known.
<1>7. ASSUME NEW cs \in SUBSET Clients, NEW w \in Updates, NEW v \in Verdicts \cup {Undefined},
             Race(cs, w, v), UNCHANGED <<store, regs, rpkiQ>>,
             c \in listeners'[u] => c \in listeners[u] \/ (c \in cs /\ u = w),
             told'[c][u] = IF c \in cs /\ u = w THEN v ELSE told[c][u]
      PROVE  Good(c, u)'
  <2>1. Verdict(u)' = Verdict(u) /\ Listed(u)' = Listed(u)
    BY <1>5, <1>7 DEF Listed, Attached
  <2>2. CASE c \in cs /\ u = w
    <3>1. <<c, u>> \notin missed' => v \in {Undefined, Verdict(u)} \/ u \in rpkiQ
      BY <1>7, <2>2 DEF Race, Pairs
    <3> QED
      BY <1>7, <2>1, <2>2, <3>1
  <2>3. CASE ~(c \in cs /\ u = w)
    <3>1. <<c, u>> \notin missed' => <<c, u>> \notin missed
      BY <1>7, <2>3 DEF Race, Pairs
    <3> QED
      BY <1>0, <1>7, <2>1, <2>3, <3>1
  <2> QED
    BY <2>2, <2>3
<1>8. ASSUME NEW d \in Clients, NEW w \in Updates, RequestKnown(d, w) PROVE Good(c, u)'
  <2> USE <1>8 DEF RequestKnown, storageVars, skiVars
  <2>1. result[w] \in Verdicts \cup {Undefined}
    BY <1>0 DEF KeysTypeOK
  <2>2. told'[c][u] = IF c \in {d} /\ u = w THEN result[w] ELSE told[c][u]
    BY <1>0 DEF KeysTypeOK
  <2>3. c \in listeners'[u] => c \in listeners[u] \/ (c \in {d} /\ u = w)
    BY <1>0 DEF KeysTypeOK
  <2> QED
    BY <1>7, <2>1, <2>2, <2>3
<1>9. ASSUME CommandStore PROVE Good(c, u)'
  <2> USE <1>9 DEF CommandStore, storageVars, skiVars
  <2> DEFINE w == checking.update
             v == checking.verdict
  <2>1. w \in Updates /\ v \in Verdicts
    BY <1>0 DEF KeysTypeOK
  <2>2. listeners[w] \in SUBSET Clients
    BY <1>0, <2>1 DEF KeysTypeOK
  <2>3. told'[c][u] = IF c \in listeners[w] /\ u = w THEN v ELSE told[c][u]
    BY <1>0, <2>1 DEF Broadcast, KeysTypeOK
  <2> HIDE DEF w, v
  <2>4. Race(listeners[w], w, v)
    BY DEF w, v
  <2> QED
    BY <1>7, <2>1, <2>2, <2>3, <2>4
<1>10. ASSUME NEW d \in Clients, NEW w \in Updates, RequestNew(d, w) PROVE Good(c, u)'
  <2> USE <1>10 DEF RequestNew, storageVars
  <2>1. Verdict(u)' = Verdict(u)
    BY <1>5
  <2>2. CASE u = w
    <3>1. told'[c][u] = Undefined
      BY <1>0, <2>2 DEF ListInv, NewIsUnknown, ToldListeners
    <3> QED
      BY <3>1
  <2>3. CASE u # w
    <3>1. Listed(u)' = Listed(u)
      <4>1. \A t \in Triplets : regs'[t][u] = regs[t][u]
        BY <1>0, <2>3 DEF ski_registerUpdate, KeysTypeOK
      <4> QED
        BY <4>1, NeedsTriplets DEF Listed, Attached
    <3>2. listeners'[u] = listeners[u]
      BY <1>0, <2>3 DEF KeysTypeOK
    <3> QED
      BY <1>0, <2>1, <3>1, <3>2
  <2> QED
    BY <2>2, <2>3
<1>11. ASSUME NEW d \in Clients, NEW us \in SUBSET Updates, Forget(d, us), UNCHANGED <<store, rpkiQ>>,
              Listed(u)' => Listed(u)
       PROVE  Good(c, u)'
  <2>1. Verdict(u)' = Verdict(u)
    BY <1>5, <1>11
  <2>2. c \in listeners'[u] => /\ c \in listeners[u] /\ told'[c][u] = told[c][u]
                               /\ <<c, u>> \notin missed' => <<c, u>> \notin missed
    BY <1>0, <1>11 DEF Forget, KeysTypeOK
  <2> QED
    BY <1>0, <1>11, <2>1, <2>2
<1>12. ASSUME NEW d \in Clients, NEW w \in Updates, DeleteUpdate(d, w) PROVE Good(c, u)'
  <2> USE <1>12 DEF DeleteUpdate, storageVars
  <2>1. \A t \in Triplets : regs'[t][u] > 0 => regs[t][u] > 0
    <3>1. ASSUME NEW t \in Triplets PROVE regs'[t][u] > 0 => regs[t][u] > 0
      <4>1. regs'[t] = [regs[t] EXCEPT ![w] = Unregistered(regs[t][w], Leaves[w][t])]
        BY DEF ski_unregisterUpdate
      <4>2. regs[t][u] \in Nat /\ Leaves[u][t] \in Nat
        BY <1>0, RegsAreNat DEF KeysTypeOK
      <4>3. regs'[t][u] \in {regs[t][u], Unregistered(regs[t][u], Leaves[u][t])}
        BY <1>0, <4>1 DEF KeysTypeOK
      <4> QED
        BY <4>2, <4>3 DEF Unregistered
    <3> QED
      BY <3>1
  <2>2. Listed(u)' => Listed(u)
    BY <2>1, NeedsTriplets DEF Listed, Attached
  <2> QED
    BY <1>11, <2>2
<1>13. ASSUME NEW d \in Clients, EndSession(d) PROVE Good(c, u)'
  BY <1>11, <1>13 DEF EndSession, storageVars, skiVars, Listed, Attached
<1>14. ASSUME EndOfData \/ UNCHANGED vars \/ \E w \in Updates : CommandStart(w) PROVE Good(c, u)'
  BY <1>1, <1>14 DEF EndOfData, CommandStart, vars, storageVars, skiVars, cacheVars
<1> QED
  BY <1>3, <1>4, <1>6, <1>8, <1>9, <1>10, <1>12, <1>13, <1>14, KeysAssumption
     DEF KeysNext, Rpki, Receiver, Command

-----------------------------------------------------------------------------
(* The theorems.                                                           *)

LEMMA KeysInvHolds == KeysSpec => []KeysInv
<1>1. KeysInv /\ [KeysNext]_vars => KeysInv'
  BY KeysTypeNext, HeldNext, ListNext, ToldNext DEF KeysInv, HeldInv, ListInv
<1> QED
  BY KeysInitInv, <1>1, PTL DEF KeysSpec

\* The storage, the SKI cache and the results keep their types.
THEOREM KeysTypeCorrect == KeysSpec => []KeysTypeOK
BY KeysInvHolds, PTL DEF KeysInv

\* ski_registerUpdate and ski_unregisterUpdate find the same elements for a path
\* with one signature block, of any length and with any repetition of keys.
THEOREM RegistrationsAreWhole == KeysSpec => []RegistrationsWhole
BY KeysInvHolds, PTL DEF KeysInv

\* A key in the storage whose SKI does not collide is counted by the SKI cache.
THEOREM KeysAreCounted == KeysSpec => []KeysCounted
BY KeysInvHolds, PTL DEF KeysInv

\* For any paths and keys: a client of an update that the SKI cache lists hears
\* of every change of its verdict, unless one of the two races took place or a
\* key went missing from the storage.
THEOREM ClientsAreTold == KeysSpec => []ToldUnlessMissed
BY KeysInvHolds, PTL DEF KeysInv
=============================================================================
