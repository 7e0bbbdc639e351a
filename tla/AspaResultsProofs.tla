--------------------------- MODULE AspaResultsProofs ---------------------------
(***************************************************************************)
(* Proofs about AspaResults.tla, for any number of updates, paths,         *)
(* requests, PDUs and seconds.                                             *)
(***************************************************************************)
EXTENDS AspaResults, SequenceTheorems, TLAPS

(***************************************************************************)
(* What two of the theorems need and the code does not see to.  A proxy    *)
(* that wants no receipt is not told a result that differs from its        *)
(* default; the results of one path are shared by all directions it comes  *)
(* from.                                                                   *)
(***************************************************************************)
ReceiptsWanted == FALSE \notin Receipts

OneDirection == \A u, w \in Updates : PathOf[u] = PathOf[w] => DirOf[u] = DirOf[w]

-----------------------------------------------------------------------------
(* Invariants the properties rest on.                                      *)

\* What is queued or in work is stored.
StoredOnly ==
    /\ \A i \in 1 .. Len(cmdQ) : entry[cmdQ[i]] # None
    /\ cmd # None => entry[cmd.update] # None
    /\ walk # None => \A u \in walk.todo : entry[u] # None
    /\ walk # None /\ walk.at # None => entry[walk.at.update] # None
    /\ \A u \in rpkiQ \cup answered : entry[u] # None

TypeInv == AspaResultsTypeOK /\ StoredOnly

\* A reply or a notification to the proxy about an update is still to come.
Coming(u) ==
    \/ recv # None /\ recv.update = u
    \/ \E i \in 1 .. Len(cmdQ) : cmdQ[i] = u
    \/ cmd # None /\ cmd.update = u
    \/ u \in rpkiQ

\* Until then it may go by something else.
ToldUnlessComing ==
    /\ recv # None => recv.receipt
    /\ \A u \in answered : entry[u].default # "invalid" =>
          told[u] = entry[u].result \/ Coming(u)

\* A path is validated in the direction of its updates.
DirectionKept == \A u \in Updates : Path(u) # None => Path(u).dir = DirOf[u]

\* The walk has yet to look at an update, or is at it.
Ahead(u) ==
    \/ walk = None /\ ~fresh
    \/ walk # None /\ (u \in walk.todo \/ (walk.at # None /\ walk.at.update = u))

\* CurrentUnlessRaced while the threads are at work.
CurrentUnlessAhead ==
    \A u \in Updates \ raced : entry[u] # None /\ entry[u].result # Undefined =>
        entry[u].result = Due(u) \/ Ahead(u)

\* The walk has the verdict, and the command thread can only have stored the
\* same since the walk read the result.
WalkIsCurrent == walk # None /\ walk.at # None =>
    LET u == walk.at.update IN
    /\ walk.at.value = Due(u)
    /\ u \notin raced => entry[u].result \in {walk.at.old, Due(u)}

CurrentInv == DirectionKept /\ CurrentUnlessAhead /\ WalkIsCurrent

-----------------------------------------------------------------------------
(* Lemmas about the state.                                                 *)

LEMMA Appended ==
    ASSUME NEW S, NEW q \in Seq(S), NEW x \in S
    PROVE  /\ Append(q, x) \in Seq(S) /\ Len(q) \in Nat
           /\ Len(Append(q, x)) = Len(q) + 1
           /\ \A i \in 1 .. Len(q) : Append(q, x)[i] = q[i]
           /\ Append(q, x)[Len(q) + 1] = x
BY AppendProperties, LenProperties

LEMMA Taken ==
    ASSUME NEW S, NEW q \in Seq(S), q # <<>>
    PROVE  /\ Tail(q) \in Seq(S) /\ Head(q) \in S /\ Head(q) = q[1]
           /\ Len(q) \in Nat /\ Len(q) >= 1 /\ Len(Tail(q)) = Len(q) - 1
           /\ \A i \in 1 .. Len(q) - 1 : Tail(q)[i] = q[i + 1]
BY HeadTailProperties, LenProperties

\* The parts of what is stored.
LEMMA Stored ==
    ASSUME TypeInv, NEW u \in Updates
    PROVE  /\ PathOf[u] \in Paths /\ DirOf[u] \in Dirs
           /\ entry[u] # None => /\ entry[u].result \in Results
                                 /\ entry[u].default \in Results \cup {DoNotUse}
                                 /\ Path(u) # None /\ Says(u) \in Verdicts
           /\ Path(u) # None => /\ Path(u) \in PathEntry /\ Path(u).result \in Results
                                /\ Path(u).dir \in Dirs
<1> USE AspaResultsAssumption
<1>1. PathOf[u] \in Paths /\ DirOf[u] \in Dirs
  BY DEF Dirs
<1>2. Path(u) # None =>
         /\ Path(u) \in PathEntry /\ Path(u).result \in Results /\ Path(u).dir \in Dirs
  BY <1>1 DEF TypeInv, AspaResultsTypeOK, Path, PathEntry
<1>3. entry[u] # None =>
         /\ entry[u].result \in Results /\ entry[u].default \in Results \cup {DoNotUse}
         /\ Path(u) # None
  BY DEF TypeInv, AspaResultsTypeOK, Entry
<1>4. entry[u] # None => Says(u) \in Verdicts
  BY <1>1, <1>2, <1>3 DEF TypeInv, AspaResultsTypeOK, Says
<1> QED
  BY <1>1, <1>2, <1>3, <1>4

\* The parts of what the threads have copied.
LEMMA Copied ==
    ASSUME TypeInv
    PROVE  /\ recv # None =>
                 /\ recv.update \in Updates /\ recv.default \in Results
                 /\ recv.receipt \in BOOLEAN /\ recv.result \in Results
                 /\ recv.stored \in BOOLEAN /\ (recv.stored <=> entry[recv.update] # None)
                 /\ recv.path # None => Path(recv.update) # None
           /\ cmd # None =>
                 /\ cmd.update \in Updates /\ cmd.value \in Results
                 /\ cmd.verdict \in Results /\ entry[cmd.update] # None
           /\ walk # None =>
                 /\ walk.time \in 0 .. MaxClock /\ walk.todo \subseteq Updates
                 /\ walk.at \in Visit \cup {None}
           /\ walk # None /\ walk.at # None =>
                 /\ walk.at.update \in Updates /\ walk.at.old \in Results
                 /\ walk.at.path \in PathEntry /\ walk.at.path.result \in Results
                 /\ walk.at.path.modified \in 0 .. MaxClock
                 /\ walk.at.value \in Verdicts /\ entry[walk.at.update] # None
<1>1. recv # None =>
         /\ recv.update \in Updates /\ recv.default \in Results
         /\ recv.receipt \in BOOLEAN /\ recv.result \in Results
         /\ recv.stored \in BOOLEAN /\ (recv.stored <=> entry[recv.update] # None)
         /\ recv.path # None => Path(recv.update) # None
  BY DEF TypeInv, AspaResultsTypeOK, Request
<1>2. cmd # None =>
         /\ cmd.update \in Updates /\ cmd.value \in Results
         /\ cmd.verdict \in Results /\ entry[cmd.update] # None
  BY DEF TypeInv, AspaResultsTypeOK, StoredOnly, Task
<1>3. walk # None =>
         /\ walk.time \in 0 .. MaxClock /\ walk.todo \subseteq Updates
         /\ walk.at \in Visit \cup {None}
  BY DEF TypeInv, AspaResultsTypeOK, Walk
<1>4. walk # None /\ walk.at # None =>
         /\ walk.at.update \in Updates /\ walk.at.old \in Results
         /\ walk.at.path \in PathEntry /\ walk.at.path.result \in Results
         /\ walk.at.path.modified \in 0 .. MaxClock
         /\ walk.at.value \in Verdicts /\ entry[walk.at.update] # None
  BY <1>3 DEF TypeInv, StoredOnly, Visit, PathEntry
<1> QED
  BY <1>1, <1>2, <1>3, <1>4

-----------------------------------------------------------------------------
(* Types, and what is queued or in work.                                   *)

LEMMA TypeLook ==
    ASSUME TypeInv, NEW u \in Updates, NEW d \in Defaults, NEW r \in Receipts, Look(u, d, r)
    PROVE  TypeInv' /\ recv' \in Request
<1> USE AspaResultsAssumption
<1>1. recv' = [update |-> u, default |-> d, receipt |-> r,
               result |-> IF entry[u] # None THEN entry[u].result
                          ELSE IF Path(u) # None THEN Path(u).result ELSE d,
               stored |-> entry[u] # None, path |-> Path(u)]
  BY DEF Look
<1>2. Path(u) \in PathEntry \cup {None}
  BY Stored
<1>3. recv' \in Request
  BY <1>1, <1>2, Stored DEF Request
<1>4. recv'.stored <=> entry[recv'.update] # None
  BY <1>1
<1>5. recv'.path # None => Path(recv'.update) # None
  BY <1>1
<1>6. told' \in [Updates -> Results] /\ requests' \in 0 .. MaxRequests
  BY DEF Look, TypeInv, AspaResultsTypeOK
<1> QED
  BY <1>3, <1>4, <1>5, <1>6 DEF Look, TypeInv, AspaResultsTypeOK, StoredOnly, Path

LEMMA TypeRegister ==
    ASSUME TypeInv, Register
    PROVE  TypeInv'
<1> USE AspaResultsAssumption
<1> DEFINE u == recv.update
<1>1. /\ recv # None /\ recv' = None /\ u \in Updates /\ PathOf[u] \in Paths
      /\ answered' = answered \cup {u}
  BY Copied, Stored DEF Register
<1>2. /\ entry' \in [Updates -> Entry \cup {None}] /\ entry'[u] # None
      /\ \A w \in Updates : entry[w] # None => entry'[w] # None
      /\ \A w \in Updates : w # u => entry'[w] = entry[w]
  <2>1. CASE recv.stored
    BY <1>1, <2>1, Copied DEF Register, TypeInv, AspaResultsTypeOK
  <2>2. CASE ~recv.stored
    <3>1. \E e \in Entry : entry' = [entry EXCEPT ![u] = e]
      <4>1. CASE recv.path # None
        <5>1. [result |-> recv.result, default |-> DoNotUse] \in Entry
          BY <1>1, Copied DEF Entry
        <5> QED
          BY <1>1, <2>2, <4>1, <5>1 DEF Register
      <4>2. CASE recv.path = None
        <5>1. [result |-> Undefined, default |-> recv.default] \in Entry
          BY <1>1, Copied DEF Entry, Results
        <5> QED
          BY <1>1, <2>2, <4>2, <5>1 DEF Register
      <4> QED
        BY <4>1, <4>2
    <3> QED
      BY <1>1, <3>1 DEF TypeInv, AspaResultsTypeOK
  <2> QED
    BY <2>1, <2>2
<1>3. /\ known' \in [Paths -> PathEntry \cup {None}] /\ known'[PathOf[u]] # None
      /\ \A p \in Paths : known[p] # None => known'[p] # None
  <2>1. CASE recv.stored \/ recv.path # None
    <3>1. known' = known /\ Path(u) # None
      BY <1>1, <2>1, Copied, Stored DEF Register
    <3> QED
      BY <3>1 DEF TypeInv, AspaResultsTypeOK, Path
  <2>2. CASE ~recv.stored /\ recv.path = None
    <3> DEFINE e == [result |-> recv.default, modified |-> 0, dir |-> DirOf[u]]
    <3>1. e \in PathEntry
      BY <1>1, Copied, Stored DEF PathEntry
    <3>2. known' = [known EXCEPT ![PathOf[u]] = e]
      BY <1>1, <2>2 DEF Register
    <3> QED
      BY <1>1, <3>1, <3>2 DEF TypeInv, AspaResultsTypeOK
  <2> QED
    BY <1>1, <2>1, <2>2, Copied
<1>4. \A w \in Updates : entry'[w] # None => Path(w)' # None
  BY <1>1, <1>2, <1>3 DEF TypeInv, AspaResultsTypeOK, Path
<1>5. cmdQ' \in Seq(Updates) /\ \A i \in 1 .. Len(cmdQ') : entry'[cmdQ'[i]] # None
  <2>1. cmdQ \in Seq(Updates) /\ \A i \in 1 .. Len(cmdQ) : cmdQ[i] \in Updates
    BY DEF TypeInv, AspaResultsTypeOK
  <2>2. \A i \in 1 .. Len(cmdQ) : entry'[cmdQ[i]] # None
    BY <1>2, <2>1 DEF TypeInv, StoredOnly
  <2>3. cmdQ' = cmdQ \/ cmdQ' = Append(cmdQ, u)
    BY <1>1 DEF Register, Queued
  <2>4. CASE cmdQ' = Append(cmdQ, u)
    BY <1>1, <1>2, <2>1, <2>2, <2>4, Appended
  <2> QED
    BY <2>1, <2>2, <2>3, <2>4
<1>6. walk' \in Walk \cup {None} /\ (walk # None => walk' # None)
      /\ (walk' # None => /\ \A w \in walk'.todo : entry'[w] # None
                          /\ walk # None /\ walk'.at = walk.at)
  <2>1. walk' = walk \/ (walk # None /\ walk' = [walk EXCEPT !.todo = @ \cup {u}])
    BY <1>1 DEF Register
  <2>2. CASE walk' = walk
    BY <1>2, <2>2, Copied DEF TypeInv, AspaResultsTypeOK, StoredOnly
  <2>3. CASE walk # None /\ walk' = [walk EXCEPT !.todo = @ \cup {u}]
    <3>1. walk \in Walk
      BY <2>3 DEF TypeInv, AspaResultsTypeOK
    <3>2. walk' \in Walk /\ walk'.todo = walk.todo \cup {u} /\ walk'.at = walk.at
      BY <1>1, <2>3, <3>1 DEF Walk
    <3> QED
      BY <1>1, <1>2, <2>3, <3>2, Copied DEF TypeInv, StoredOnly
  <2> QED
    BY <2>1, <2>2, <2>3
<1>7. told' \in [Updates -> Results] /\ raced' \subseteq Updates
  BY <1>1, Copied DEF Register, Race, TypeInv, AspaResultsTypeOK
<1>8. StoredOnly'
  <2>1. cmd' = cmd /\ rpkiQ' = rpkiQ
    BY DEF Register
  <2>2. cmd # None => entry'[cmd.update] # None
    BY <1>2, Copied
  <2>3. walk' # None /\ walk'.at # None => entry'[walk'.at.update] # None
    BY <1>2, <1>6, Copied
  <2>4. \A w \in rpkiQ' \cup answered' : entry'[w] # None
    BY <1>1, <1>2, <2>1 DEF TypeInv, AspaResultsTypeOK, StoredOnly
  <2> QED
    BY <1>5, <1>6, <2>1, <2>2, <2>3, <2>4 DEF StoredOnly
<1>9. AspaResultsTypeOK'
  <2>1. answered' \subseteq Updates /\ (rpkiQ' # {} => walk' # None)
    BY <1>1, <1>6 DEF Register, TypeInv, AspaResultsTypeOK
  <2> QED
    BY <1>1, <1>2, <1>3, <1>4, <1>5, <1>6, <1>7, <2>1
    DEF Register, TypeInv, AspaResultsTypeOK
<1> QED
  BY <1>8, <1>9 DEF TypeInv

\* What the command thread begins with is a task for the update.
LEMMA TaskOf ==
    ASSUME TypeInv, NEW u \in Updates, entry[u] # None
    PROVE  /\ Validation(u) \in Task /\ Validation(u).update = u
           /\ \A v \in Results : Given(u, v) \in Task /\ Given(u, v).update = u
<1>1. Path(u) \in PathEntry /\ Path(u).result \in Results /\ Says(u) \in Results
  BY Stored DEF Results
<1> QED
  BY <1>1 DEF Validation, Given, Task

LEMMA TypeCommandStart ==
    ASSUME TypeInv, CommandStart
    PROVE  TypeInv'
<1> USE AspaResultsAssumption
<1> DEFINE u == Head(cmdQ)
<1>1. /\ cmdQ \in Seq(Updates) /\ cmdQ # <<>> /\ u \in Updates /\ entry[u] # None
      /\ cmdQ' \in Seq(Updates)
      /\ \A i \in 1 .. Len(cmdQ') : entry[cmdQ'[i]] # None
  <2>1. cmdQ \in Seq(Updates) /\ cmdQ # <<>> /\ cmdQ' = Tail(cmdQ)
    BY DEF CommandStart, TypeInv, AspaResultsTypeOK
  <2>2. /\ u \in Updates /\ u = cmdQ[1] /\ cmdQ' \in Seq(Updates)
        /\ Len(cmdQ) \in Nat /\ Len(cmdQ) >= 1 /\ Len(cmdQ') = Len(cmdQ) - 1
        /\ \A i \in 1 .. Len(cmdQ) - 1 : cmdQ'[i] = cmdQ[i + 1]
    BY <2>1, Taken
  <2>3. \A i \in 1 .. Len(cmdQ) : entry[cmdQ[i]] # None
    BY DEF TypeInv, StoredOnly
  <2> QED
    BY <2>1, <2>2, <2>3
<1>2. cmd' \in Task \cup {None} /\ (cmd' # None => cmd'.update = u)
  <2>1. Validation(u) \in Task /\ Validation(u).update = u
    BY <1>1, TaskOf
  <2>2. \A v \in Results : Given(u, v) \in Task /\ Given(u, v).update = u
    BY <1>1, TaskOf
  <2>3. entry[u].result \in Results /\ "invalid" \in Results
    BY <1>1, Stored DEF Results, Verdicts
  <2>4. \/ cmd' = Validation(u) \/ cmd' = Given(u, "invalid")
        \/ cmd' = Given(u, entry[u].result) \/ cmd' = None
    BY DEF CommandStart
  <2> QED
    BY <2>1, <2>2, <2>3, <2>4
<1> QED
  BY <1>1, <1>2 DEF CommandStart, TypeInv, AspaResultsTypeOK, StoredOnly, Path

LEMMA TypeCommandStore ==
    ASSUME TypeInv, CommandStore
    PROVE  TypeInv'
<1> USE AspaResultsAssumption
<1> DEFINE u == cmd.update
<1>1. /\ cmd # None /\ cmd' = None /\ u \in Updates /\ cmd.value \in Results
      /\ cmd.verdict \in Results
      /\ entry[u] # None /\ Path(u) # None /\ PathOf[u] \in Paths
  BY Copied, Stored DEF CommandStore
<1>2. /\ entry' \in [Updates -> Entry \cup {None}]
      /\ \A w \in Updates : entry'[w] = None <=> entry[w] = None
  <2>1. entry[u] \in Entry /\ entry' = [entry EXCEPT ![u].result = cmd.value]
    BY <1>1 DEF CommandStore, TypeInv, AspaResultsTypeOK
  <2>2. [entry[u] EXCEPT !.result = cmd.value] \in Entry
    BY <1>1, <2>1 DEF Entry
  <2> QED
    BY <1>1, <2>1, <2>2 DEF TypeInv, AspaResultsTypeOK
<1>3. /\ known' \in [Paths -> PathEntry \cup {None}]
      /\ \A p \in Paths : known'[p] = None <=> known[p] = None
  <2>1. CASE known' = known
    BY <2>1 DEF TypeInv, AspaResultsTypeOK
  <2>2. CASE known' = [known EXCEPT ![PathOf[u]].result = cmd.verdict,
                                    ![PathOf[u]].modified = clock]
    <3>1. known[PathOf[u]] \in PathEntry /\ clock \in 0 .. MaxClock
      BY <1>1, Stored DEF Path, TypeInv, AspaResultsTypeOK
    <3> DEFINE e == [known[PathOf[u]] EXCEPT !.result = cmd.verdict, !.modified = clock]
    <3>2. e \in PathEntry
      BY <1>1, <3>1 DEF PathEntry
    <3>3. known' = [known EXCEPT ![PathOf[u]] = e]
      BY <1>1, <2>2 DEF TypeInv, AspaResultsTypeOK
    <3> QED
      BY <1>1, <3>1, <3>2, <3>3 DEF TypeInv, AspaResultsTypeOK
  <2> QED
    BY <1>1, <2>1, <2>2 DEF CommandStore
<1>4. told' \in [Updates -> Results] /\ raced' \subseteq Updates
  BY <1>1 DEF CommandStore, Announced, Race, TypeInv, AspaResultsTypeOK
<1>5. \A w \in Updates : entry'[w] # None => Path(w)' # None
  BY <1>2, <1>3 DEF TypeInv, AspaResultsTypeOK, Path
<1>6. recv # None => /\ recv.stored <=> entry'[recv.update] # None
                     /\ recv.path # None => Path(recv.update)' # None
  <2>1. recv' = recv
    BY DEF CommandStore
  <2>2. recv # None => recv.update \in Updates /\ PathOf[recv.update] \in Paths
    BY Copied, Stored
  <2> QED
    BY <1>2, <1>3, <2>1, <2>2, Copied DEF Path
<1>7. StoredOnly'
  <2>1. \A i \in 1 .. Len(cmdQ) : cmdQ[i] \in Updates
    BY DEF TypeInv, AspaResultsTypeOK
  <2>2. rpkiQ \cup answered \subseteq Updates
    BY DEF TypeInv, AspaResultsTypeOK
  <2> QED
    BY <1>1, <1>2, <2>1, <2>2, Copied DEF CommandStore, TypeInv, StoredOnly
<1> QED
  BY <1>1, <1>2, <1>3, <1>4, <1>5, <1>6, <1>7 DEF CommandStore, TypeInv, AspaResultsTypeOK

LEMMA TypeWalkRead ==
    ASSUME TypeInv, WalkRead
    PROVE  TypeInv'
<1> USE AspaResultsAssumption
<1>1. PICK u \in walk.todo : walk' = [walk EXCEPT !.todo = @ \ {u},
          !.at = [update |-> u, old |-> entry[u].result, path |-> Path(u), value |-> Says(u)]]
  BY DEF WalkRead
<1>2. walk # None /\ walk \in Walk /\ u \in Updates /\ entry[u] # None
  BY Copied DEF WalkRead, TypeInv, AspaResultsTypeOK, StoredOnly
<1> DEFINE v == [update |-> u, old |-> entry[u].result, path |-> Path(u), value |-> Says(u)]
<1>3. v \in Visit /\ v.update = u
  BY <1>2, Stored DEF Visit
<1>4. walk' = [walk EXCEPT !.todo = @ \ {u}, !.at = v]
  BY <1>1
<1> HIDE DEF v
<1>5. walk' \in Walk /\ walk'.todo = walk.todo \ {u} /\ walk'.at = v
  BY <1>2, <1>3, <1>4 DEF Walk
<1>6. AspaResultsTypeOK'
  BY <1>2, <1>5 DEF WalkRead, TypeInv, AspaResultsTypeOK, Path
<1> QED
  BY <1>2, <1>3, <1>5, <1>6 DEF WalkRead, TypeInv, StoredOnly

LEMMA TypeWalkWrite ==
    ASSUME TypeInv, WalkWrite
    PROVE  TypeInv'
<1> USE AspaResultsAssumption
<1> DEFINE at == walk.at
           u  == at.update
<1>1. /\ walk # None /\ at # None /\ walk \in Walk /\ u \in Updates /\ entry[u] # None
      /\ Path(u) # None /\ PathOf[u] \in Paths /\ at.value \in Results
      /\ at.path.result \in Results
  BY Copied, Stored DEF WalkWrite, TypeInv, AspaResultsTypeOK, Results
<1>2. /\ entry' \in [Updates -> Entry \cup {None}]
      /\ \A w \in Updates : entry'[w] = None <=> entry[w] = None
  <2>1. entry' = entry \/ \E r \in Results : entry' = [entry EXCEPT ![u].result = r]
    BY <1>1 DEF WalkWrite, TakenOver
  <2>2. CASE entry' = entry
    BY <2>2 DEF TypeInv, AspaResultsTypeOK
  <2>3. ASSUME NEW r \in Results, entry' = [entry EXCEPT ![u].result = r]
        PROVE  <1>2!1 /\ <1>2!2
    <3>1. entry[u] \in Entry
      BY <1>1 DEF TypeInv, AspaResultsTypeOK
    <3>2. [entry[u] EXCEPT !.result = r] \in Entry
      BY <3>1 DEF Entry
    <3> QED
      BY <1>1, <2>3, <3>2 DEF TypeInv, AspaResultsTypeOK
  <2> QED
    BY <2>1, <2>2, <2>3
<1>3. /\ known' \in [Paths -> PathEntry \cup {None}]
      /\ \A p \in Paths : known'[p] = None <=> known[p] = None
  <2>1. CASE known' = known
    BY <2>1 DEF TypeInv, AspaResultsTypeOK
  <2>2. CASE known' = [known EXCEPT ![PathOf[u]].result = at.value,
                                    ![PathOf[u]].modified = clock]
    <3>1. known[PathOf[u]] \in PathEntry /\ clock \in 0 .. MaxClock
      BY <1>1, Stored DEF Path, TypeInv, AspaResultsTypeOK
    <3> DEFINE e == [known[PathOf[u]] EXCEPT !.result = at.value, !.modified = clock]
    <3>2. e \in PathEntry
      BY <1>1, <3>1 DEF PathEntry
    <3>3. known' = [known EXCEPT ![PathOf[u]] = e]
      BY <1>1, <2>2 DEF TypeInv, AspaResultsTypeOK
    <3> QED
      BY <1>1, <3>1, <3>2, <3>3 DEF TypeInv, AspaResultsTypeOK
  <2> QED
    BY <1>1, <2>1, <2>2 DEF WalkWrite
<1>4. walk' \in Walk /\ walk'.todo = walk.todo /\ walk'.at = None
  BY <1>1 DEF WalkWrite, Walk
<1>5. raced' \subseteq Updates /\ rpkiQ' \subseteq Updates /\ rpkiQ' \subseteq rpkiQ \cup {u}
  BY <1>1 DEF WalkWrite, TakenOver, Race, TypeInv, AspaResultsTypeOK
<1>6. \A w \in Updates : entry'[w] # None => Path(w)' # None
  BY <1>2, <1>3 DEF TypeInv, AspaResultsTypeOK, Path
<1>7. recv # None => /\ recv.stored <=> entry'[recv.update] # None
                     /\ recv.path # None => Path(recv.update)' # None
  <2>1. recv' = recv
    BY DEF WalkWrite
  <2>2. recv # None => recv.update \in Updates /\ PathOf[recv.update] \in Paths
    BY Copied, Stored
  <2> QED
    BY <1>2, <1>3, <2>1, <2>2, Copied DEF Path
<1>8. StoredOnly'
  <2>1. \A i \in 1 .. Len(cmdQ) : cmdQ[i] \in Updates
    BY DEF TypeInv, AspaResultsTypeOK
  <2>2. answered \subseteq Updates
    BY DEF TypeInv, AspaResultsTypeOK
  <2>3. walk.todo \subseteq Updates
    BY <1>1, Copied
  <2> QED
    BY <1>1, <1>2, <1>4, <1>5, <2>1, <2>2, <2>3, Copied DEF WalkWrite, TypeInv, StoredOnly
<1> QED
  BY <1>1, <1>2, <1>3, <1>4, <1>5, <1>6, <1>7, <1>8 DEF WalkWrite, TypeInv, AspaResultsTypeOK

LEMMA TypeNext ==
    ASSUME TypeInv, [AspaResultsNext]_vars
    PROVE  TypeInv'
<1> USE AspaResultsAssumption
<1>1. CASE \E u \in Updates, d \in Defaults, r \in Receipts : Look(u, d, r)
  BY <1>1, TypeLook
<1>2. CASE Register
  BY <1>2, TypeRegister
<1>3. CASE CommandStart
  BY <1>3, TypeCommandStart
<1>4. CASE CommandStore
  BY <1>4, TypeCommandStore
<1>5. ASSUME NEW p \in Paths, NEW dir \in Dirs, NEW v \in Verdicts, Pdu(p, dir, v)
      PROVE  TypeInv'
  <2>1. verdict' \in [Paths -> [Dirs -> Verdicts]] /\ pdus' \in 0 .. MaxPdus
    BY <1>5 DEF Pdu, TypeInv, AspaResultsTypeOK
  <2> QED
    BY <1>5, <2>1 DEF Pdu, TypeInv, AspaResultsTypeOK, StoredOnly, Path
<1>6. CASE EndOfData
  <2>1. walk' = [time |-> clock, todo |-> {u \in Updates : entry[u] # None}, at |-> None]
    BY <1>6 DEF EndOfData
  <2>2. walk' \in Walk
    BY <2>1 DEF Walk, TypeInv, AspaResultsTypeOK
  <2> QED
    BY <1>6, <2>1, <2>2 DEF EndOfData, TypeInv, AspaResultsTypeOK, StoredOnly, Path
<1>7. CASE WalkRead
  BY <1>7, TypeWalkRead
<1>8. CASE WalkWrite
  BY <1>8, TypeWalkWrite
<1>9. CASE Dequeue
  <2>1. PICK u \in rpkiQ : told' = [told EXCEPT ![u] = entry[u].result] /\ rpkiQ' = rpkiQ \ {u}
    BY <1>9 DEF Dequeue
  <2>2. u \in Updates /\ entry[u].result \in Results
    BY <2>1, Stored DEF TypeInv, AspaResultsTypeOK, StoredOnly
  <2> QED
    BY <1>9, <2>1, <2>2 DEF Dequeue, TypeInv, AspaResultsTypeOK, StoredOnly, Path
<1>10. CASE Processed
  BY <1>10 DEF Processed, Emptied, TypeInv, AspaResultsTypeOK, StoredOnly, Path
<1>11. CASE Tick
  BY <1>11 DEF Tick, TypeInv, AspaResultsTypeOK, StoredOnly, Path
<1>12. CASE UNCHANGED vars
  BY <1>12 DEF vars, TypeInv, AspaResultsTypeOK, StoredOnly, Path
<1> QED
  BY <1>1, <1>2, <1>3, <1>4, <1>5, <1>6, <1>7, <1>8, <1>9, <1>10, <1>11, <1>12
  DEF AspaResultsNext, Receiver, Command, Rpki

LEMMA TypeInvHolds == AspaResultsSpec => []TypeInv
<1> USE AspaResultsAssumption
<1>1. AspaResultsInit => TypeInv
  BY DEF AspaResultsInit, TypeInv, AspaResultsTypeOK, StoredOnly, Results, Undefined
<1>2. TypeInv /\ [AspaResultsNext]_vars => TypeInv'
  BY TypeNext
<1> QED
  BY <1>1, <1>2, PTL DEF AspaResultsSpec

\* Every variable has its type, and what is queued or in work is about updates
\* that are stored, with a path that is known.
THEOREM AspaResultsTypeCorrect == AspaResultsSpec => []AspaResultsTypeOK
<1>1. TypeInv => AspaResultsTypeOK
  BY DEF TypeInv
<1> QED
  BY <1>1, TypeInvHolds, PTL

-----------------------------------------------------------------------------
(* What the proxy goes by.                                                 *)

\* What is to come stays to come while an action leaves it alone.
LEMMA ComingKept ==
    ASSUME UNCHANGED <<recv, cmdQ, cmd>>, NEW u, u \in rpkiQ => u \in rpkiQ'
    PROVE  Coming(u) => Coming(u)'
BY DEF Coming

LEMMA ToldNext ==
    ASSUME ReceiptsWanted, TypeInv, ToldUnlessComing, [AspaResultsNext]_vars
    PROVE  ToldUnlessComing'
<1> USE AspaResultsAssumption
<1> DEFINE Right(u) == entry[u].default # "invalid" => told[u] = entry[u].result \/ Coming(u)
<1>0. /\ answered \subseteq Updates /\ told \in [Updates -> Results]
      /\ cmdQ \in Seq(Updates) /\ \A u \in answered : entry[u] # None
      /\ \A u \in answered : Right(u)
      /\ recv # None => recv.receipt
  BY DEF TypeInv, AspaResultsTypeOK, StoredOnly, ToldUnlessComing
<1>1. ASSUME NEW u \in Updates, NEW d \in Defaults, NEW r \in Receipts, Look(u, d, r)
      PROVE  ToldUnlessComing'
  <2>1. /\ recv = None /\ recv' # None /\ recv'.update = u /\ recv'.receipt
        /\ told' = [told EXCEPT ![u] = d]
        /\ UNCHANGED <<entry, answered, cmdQ, cmd, rpkiQ>>
    <3>1. r = TRUE
      BY DEF ReceiptsWanted
    <3>2. recv' # None
      BY <1>1, TypeLook
    <3> QED
      BY <1>1, <3>1, <3>2 DEF Look
  <2>2. ASSUME NEW w \in answered PROVE Right(w)'
    <3>1. CASE w = u
      BY <2>1, <3>1 DEF Coming
    <3>2. CASE w # u
      <4>1. Right(w) /\ told'[w] = told[w]
        BY <1>0, <2>1, <3>2
      <4>2. Coming(w) => Coming(w)'
        BY <2>1 DEF Coming
      <4> QED
        BY <2>1, <4>1, <4>2
    <3> QED
      BY <3>1, <3>2
  <2> QED
    BY <2>1, <2>2 DEF ToldUnlessComing
<1>2. CASE Register
  <2> DEFINE u == recv.update
  <2>1. /\ recv # None /\ recv' = None /\ u \in Updates /\ recv.receipt
        /\ cmdQ' = Append(cmdQ, u) /\ answered' = answered \cup {u}
        /\ told' = [told EXCEPT ![u] = recv.result]
        /\ UNCHANGED <<cmd, rpkiQ>>
    BY <1>0, <1>2, Copied DEF Register, Queued
  <2>2. /\ Len(cmdQ) \in Nat /\ Len(cmdQ') = Len(cmdQ) + 1
        /\ \A i \in 1 .. Len(cmdQ) : cmdQ'[i] = cmdQ[i]
        /\ cmdQ'[Len(cmdQ')] = u
    BY <1>0, <2>1, Appended
  <2>3. ASSUME NEW w \in answered, w # u PROVE Right(w)'
    <3>1. entry'[w] = entry[w] /\ told'[w] = told[w]
      BY <1>0, <1>2, <2>1, <2>3 DEF Register, TypeInv, AspaResultsTypeOK
    <3>2. Coming(w) => Coming(w)'
      BY <2>1, <2>2, <2>3 DEF Coming
    <3> QED
      BY <1>0, <3>1, <3>2
  <2>4. ASSUME NEW w \in answered', w = u PROVE Right(w)'
    <3>1. \E i \in 1 .. Len(cmdQ') : cmdQ'[i] = w
      BY <2>2, <2>4
    <3> QED
      BY <3>1 DEF Coming
  <2> QED
    BY <2>1, <2>3, <2>4 DEF ToldUnlessComing
<1>3. CASE CommandStart
  <2> DEFINE u == Head(cmdQ)
  <2>1. /\ cmd = None /\ cmdQ # <<>> /\ cmdQ' = Tail(cmdQ) /\ u \in Updates /\ u = cmdQ[1]
        /\ Len(cmdQ) \in Nat /\ Len(cmdQ) >= 1 /\ Len(cmdQ') = Len(cmdQ) - 1
        /\ \A i \in 1 .. Len(cmdQ) - 1 : cmdQ'[i] = cmdQ[i + 1]
        /\ UNCHANGED <<recv, rpkiQ, answered, entry, told>>
    <3>1. cmd = None /\ cmdQ # <<>> /\ cmdQ' = Tail(cmdQ)
          /\ UNCHANGED <<recv, rpkiQ, answered, entry, told>>
      BY <1>3 DEF CommandStart
    <3> QED
      BY <1>0, <3>1, Taken
  <2>2. ASSUME NEW w \in answered PROVE Right(w)'
    <3>1. ASSUME Coming(w), entry[w].default # "invalid" PROVE Coming(w)'
      <4>1. CASE w = u
        <5>1. cmd' = Validation(u) \/ cmd' = Given(u, entry[u].result)
          BY <1>3, <3>1, <4>1 DEF CommandStart
        <5>2. entry[u] # None /\ entry[u].result \in Results
          BY <1>0, <2>1, <4>1, Stored
        <5>3. cmd' # None /\ cmd'.update = w
          BY <1>0, <2>1, <4>1, <5>1, <5>2, TaskOf
        <5> QED
          BY <5>3 DEF Coming
      <4>2. CASE w # u
        <5>1. \A i \in 1 .. Len(cmdQ) : cmdQ[i] = w =>
                 i - 1 \in 1 .. Len(cmdQ') /\ cmdQ'[i - 1] = w
          BY <2>1, <4>2
        <5> QED
          BY <2>1, <3>1, <5>1 DEF Coming
      <4> QED
        BY <4>1, <4>2
    <3> QED
      BY <1>0, <2>1, <2>2, <3>1
  <2> QED
    BY <1>0, <2>1, <2>2 DEF ToldUnlessComing
<1>4. CASE CommandStore
  <2> DEFINE u == cmd.update
  <2>1. /\ cmd # None /\ cmd' = None /\ u \in Updates
        /\ entry' = [entry EXCEPT ![u].result = cmd.value]
        /\ told' = [told EXCEPT ![u] = cmd.value]
        /\ UNCHANGED <<recv, cmdQ, rpkiQ, answered>>
    BY <1>4, Copied DEF CommandStore, Announced
  <2>2. ASSUME NEW w \in answered PROVE Right(w)'
    <3>1. CASE w = u
      <4>1. told'[u] = cmd.value /\ entry'[u].result = cmd.value
        BY <1>0, <2>1, <3>1 DEF TypeInv, AspaResultsTypeOK, Entry
      <4> QED
        BY <3>1, <4>1
    <3>2. CASE w # u
      <4>1. entry'[w] = entry[w] /\ told'[w] = told[w]
        BY <1>0, <2>1, <3>2 DEF TypeInv, AspaResultsTypeOK
      <4>2. Coming(w) => Coming(w)'
        BY <2>1, <3>2 DEF Coming
      <4> QED
        BY <1>0, <4>1, <4>2
    <3> QED
      BY <3>1, <3>2
  <2> QED
    BY <1>0, <2>1, <2>2 DEF ToldUnlessComing
<1>5. ASSUME NEW p \in Paths, NEW dir \in Dirs, NEW v \in Verdicts, Pdu(p, dir, v)
      PROVE  ToldUnlessComing'
  BY <1>5 DEF Pdu, ToldUnlessComing, Coming
<1>6. CASE EndOfData \/ WalkRead \/ Tick \/ UNCHANGED vars
  BY <1>6 DEF EndOfData, WalkRead, Tick, vars, ToldUnlessComing, Coming
<1>7. CASE WalkWrite
  <2> DEFINE u == walk.at.update
  <2>1. /\ UNCHANGED <<recv, cmdQ, cmd, answered, told>> /\ u \in Updates
        /\ rpkiQ \subseteq rpkiQ'
        /\ entry' = entry \/ (u \in rpkiQ' /\ \E x : entry' = [entry EXCEPT ![u].result = x])
    BY <1>7, Copied DEF WalkWrite, TakenOver
  <2>2. ASSUME NEW w \in answered PROVE Right(w)'
    <3>1. Coming(w) => Coming(w)'
      BY <2>1, ComingKept
    <3>2. CASE entry'[w] = entry[w]
      BY <1>0, <2>1, <3>1, <3>2
    <3>3. CASE entry'[w] # entry[w]
      <4>1. w \in rpkiQ'
        BY <1>0, <2>1, <3>3 DEF TypeInv, AspaResultsTypeOK
      <4> QED
        BY <4>1 DEF Coming
    <3> QED
      BY <3>2, <3>3
  <2> QED
    BY <1>0, <2>1, <2>2 DEF ToldUnlessComing
<1>8. CASE Dequeue
  <2>1. PICK u \in rpkiQ : told' = [told EXCEPT ![u] = entry[u].result] /\ rpkiQ' = rpkiQ \ {u}
    BY <1>8 DEF Dequeue
  <2>2. UNCHANGED <<entry, recv, cmdQ, cmd, answered>>
    BY <1>8 DEF Dequeue
  <2>3. ASSUME NEW w \in answered PROVE Right(w)'
    <3>1. w # u => told'[w] = told[w] /\ (Coming(w) => Coming(w)')
      BY <1>0, <2>1, <2>2 DEF Coming
    <3>2. w = u => told'[w] = entry'[w].result
      BY <1>0, <2>1, <2>2
    <3> QED
      BY <1>0, <2>2, <3>1, <3>2
  <2> QED
    BY <1>0, <2>2, <2>3 DEF ToldUnlessComing
<1>9. CASE Processed
  BY <1>9 DEF Processed, ToldUnlessComing, Coming
<1> QED
  BY <1>1, <1>2, <1>3, <1>4, <1>5, <1>6, <1>7, <1>8, <1>9
  DEF AspaResultsNext, Receiver, Command, Rpki

\* With receipts, the proxy goes by the result the server has when all is
\* quiet, whatever replies, validations and walks overtook each other.
THEOREM ProxyIsInformed ==
    ASSUME ReceiptsWanted
    PROVE  AspaResultsSpec => []Informed
<1>1. AspaResultsInit => ToldUnlessComing
  BY DEF AspaResultsInit, ToldUnlessComing
<1>2. TypeInv /\ ToldUnlessComing /\ [AspaResultsNext]_vars => ToldUnlessComing'
  BY ToldNext
<1>3. TypeInv /\ ToldUnlessComing => Informed
  <2> SUFFICES ASSUME TypeInv, ToldUnlessComing, AtRest,
                      NEW u \in answered, entry[u].default # "invalid"
               PROVE  told[u] = entry[u].result
    BY DEF Informed
  <2>1. rpkiQ = {} /\ cmdQ = <<>> /\ Len(cmdQ) = 0 /\ recv = None /\ cmd = None
    BY DEF AtRest, TypeInv, AspaResultsTypeOK
  <2>2. ~Coming(u)
    BY <2>1 DEF Coming
  <2> QED
    BY <2>2 DEF ToldUnlessComing
<1> QED
  BY <1>1, <1>2, <1>3, TypeInvHolds, PTL DEF AspaResultsSpec

-----------------------------------------------------------------------------
(* The results and the verdicts.                                           *)

LEMMA DirectionNext ==
    ASSUME OneDirection, TypeInv, DirectionKept, [AspaResultsNext]_vars
    PROVE  DirectionKept'
<1> USE AspaResultsAssumption
<1>1. known \in [Paths -> PathEntry \cup {None}] /\ \A u \in Updates : PathOf[u] \in Paths
  BY DEF TypeInv, AspaResultsTypeOK
<1>2. CASE known' = known
  BY <1>2 DEF DirectionKept, Path
<1>3. ASSUME NEW u \in Updates, Path(u) # None, NEW r, NEW t,
             known' = [known EXCEPT ![PathOf[u]].result = r, ![PathOf[u]].modified = t]
      PROVE  DirectionKept'
  <2>1. known[PathOf[u]] \in PathEntry
    BY <1>1, <1>3 DEF Path
  <2>2. known'[PathOf[u]].dir = known[PathOf[u]].dir
    BY <1>1, <1>3, <2>1 DEF PathEntry
  <2>3. \A p \in Paths : p # PathOf[u] => known'[p] = known[p]
    BY <1>1, <1>3
  <2> QED
    BY <1>1, <1>3, <2>2, <2>3 DEF DirectionKept, Path
<1>4. ASSUME NEW u \in Updates, NEW r,
             known' = [known EXCEPT ![PathOf[u]] = [result |-> r, modified |-> 0, dir |-> DirOf[u]]]
      PROVE  DirectionKept'
  BY <1>1, <1>4 DEF DirectionKept, Path, OneDirection
<1>5. CASE Register
  <2>1. recv # None /\ recv.update \in Updates
    BY <1>5, Copied DEF Register
  <2>2. known' = known \/ \E r : known' = [known EXCEPT ![PathOf[recv.update]] =
                                   [result |-> r, modified |-> 0, dir |-> DirOf[recv.update]]]
    BY <1>5 DEF Register
  <2> QED
    BY <1>2, <1>4, <2>1, <2>2
<1>6. CASE CommandStore
  <2>1. cmd # None /\ cmd.update \in Updates /\ Path(cmd.update) # None
    BY <1>6, Copied, Stored DEF CommandStore
  <2>2. known' = known \/ known' = [known EXCEPT ![PathOf[cmd.update]].result = cmd.verdict,
                                                 ![PathOf[cmd.update]].modified = clock]
    BY <1>6 DEF CommandStore
  <2> QED
    BY <1>2, <1>3, <2>1, <2>2
<1>7. CASE WalkWrite
  <2> DEFINE u == walk.at.update
  <2>1. walk # None /\ walk.at # None /\ u \in Updates /\ Path(u) # None
    BY <1>7, Copied, Stored DEF WalkWrite
  <2>2. known' = known \/ known' = [known EXCEPT ![PathOf[u]].result = walk.at.value,
                                                 ![PathOf[u]].modified = clock]
    BY <1>7 DEF WalkWrite
  <2> QED
    BY <1>2, <1>3, <2>1, <2>2
<1> QED
  BY <1>2, <1>5, <1>6, <1>7
  DEF AspaResultsNext, Receiver, Command, Rpki, Look, CommandStart, Pdu, EndOfData, WalkRead,
      Dequeue, Processed, Tick, vars

\* An action that neither changes results nor verdicts, nor moves the walk,
\* leaves them as they were.
LEMMA CurrentUnchanged ==
    ASSUME CurrentUnlessAhead, WalkIsCurrent,
           UNCHANGED <<entry, raced, verdict, walk, fresh>>
    PROVE  CurrentUnlessAhead' /\ WalkIsCurrent'
<1>1. \A u : Due(u)' = Due(u) /\ Ahead(u)' = Ahead(u)
  BY DEF Due, Ahead
<1> QED
  BY <1>1 DEF CurrentUnlessAhead, WalkIsCurrent

\* The verdict on the path of a stored update is the one on the update.
LEMMA SaysIsDue ==
    ASSUME TypeInv, DirectionKept, NEW u \in Updates, Path(u) # None
    PROVE  Says(u) = Due(u)
BY DEF DirectionKept, Says, Due

LEMMA CurrentRegister ==
    ASSUME TypeInv, CurrentInv, Register
    PROVE  CurrentUnlessAhead' /\ WalkIsCurrent'
<1> USE AspaResultsAssumption
<1> DEFINE u == recv.update
<1>1. recv # None /\ u \in Updates /\ UNCHANGED <<verdict, fresh, clock>>
  BY Copied DEF Register
<1>2. CASE recv.stored
  BY <1>1, <1>2, CurrentUnchanged DEF Register, CurrentInv
<1>3. CASE ~recv.stored
  <2>1. /\ entry[u] = None /\ entry \in [Updates -> Entry \cup {None}]
        /\ raced \subseteq Updates
    BY <1>1, <1>3, Copied DEF TypeInv, AspaResultsTypeOK
  <2>2. /\ walk # None => walk' # None /\ walk'.at = walk.at /\ walk.todo \subseteq walk'.todo
        /\ walk = None => walk' = None
    <3>1. walk' = walk \/ (walk # None /\ walk' = [walk EXCEPT !.todo = @ \cup {u}])
      BY <1>1, <1>3 DEF Register
    <3>2. CASE walk # None /\ walk' = [walk EXCEPT !.todo = @ \cup {u}]
      <4>1. walk \in Walk
        BY <3>2 DEF TypeInv, AspaResultsTypeOK
      <4>2. walk' \in Walk /\ walk'.todo = walk.todo \cup {u} /\ walk'.at = walk.at
        BY <1>1, <3>2, <4>1 DEF Walk
      <4> QED
        BY <3>2, <4>2
    <3> QED
      BY <3>1, <3>2
  <2>3. \A w \in Updates : Ahead(w) => Ahead(w)'
    BY <1>1, <2>2 DEF Ahead
  <2>4. \A w \in Updates : w # u => entry'[w] = entry[w] /\ (w \in raced' <=> w \in raced)
    BY <1>1, <1>3, <2>1 DEF Register, Race
  <2>5. u \notin raced' /\ entry'[u].result # Undefined => entry'[u].result = Due(u)
    <3>1. CASE recv.path # None
      <4>1. entry'[u].result = recv.result /\ recv.result \in Results
        BY <1>1, <1>3, <2>1, <3>1, Copied DEF Register
      <4>2. raced' = IF recv.result \in Verdicts /\ recv.result # Says(u)
                     THEN raced \cup {u} ELSE raced \ {u}
        BY <1>1, <1>3, <3>1 DEF Register, Race
      <4>3. Says(u) = Due(u)
        BY <1>1, <3>1, Copied, SaysIsDue DEF CurrentInv
      <4> QED
        BY <4>1, <4>2, <4>3 DEF Results
    <3>2. CASE recv.path = None
      BY <1>1, <1>3, <2>1, <3>2 DEF Register
    <3> QED
      BY <3>1, <3>2
  <2>6. \A w : Due(w)' = Due(w)
    BY <1>1 DEF Due
  <2>7. CurrentUnlessAhead'
    <3> SUFFICES ASSUME NEW w \in Updates \ raced', entry'[w] # None,
                        entry'[w].result # Undefined
                 PROVE  entry'[w].result = Due(w) \/ Ahead(w)'
      BY <2>6 DEF CurrentUnlessAhead
    <3>1. CASE w = u
      BY <2>5, <3>1
    <3>2. CASE w # u
      BY <2>3, <2>4, <3>2 DEF CurrentInv, CurrentUnlessAhead
    <3> QED
      BY <3>1, <3>2
  <2>8. WalkIsCurrent'
    <3> SUFFICES ASSUME walk' # None, walk'.at # None
                 PROVE  LET w == walk.at.update IN
                        /\ walk.at.value = Due(w)
                        /\ w \notin raced' => entry'[w].result \in {walk.at.old, Due(w)}
      BY <2>2, <2>6 DEF WalkIsCurrent
    <3>1. walk # None /\ walk.at # None /\ walk.at.update \in Updates /\ walk.at.update # u
      BY <2>1, <2>2, Copied
    <3> QED
      BY <2>4, <3>1 DEF CurrentInv, WalkIsCurrent
  <2> QED
    BY <2>7, <2>8
<1> QED
  BY <1>2, <1>3, <1>1, Copied

LEMMA CurrentCommandStore ==
    ASSUME TypeInv, CurrentInv, CommandStore
    PROVE  CurrentUnlessAhead' /\ WalkIsCurrent'
<1> USE AspaResultsAssumption
<1> DEFINE u == cmd.update
<1>1. /\ cmd # None /\ u \in Updates /\ entry[u] # None /\ Path(u) # None
      /\ UNCHANGED <<verdict, walk, fresh>>
  BY Copied, Stored DEF CommandStore
<1>2. /\ entry \in [Updates -> Entry \cup {None}] /\ raced \subseteq Updates
      /\ entry[u] \in Entry
  BY <1>1 DEF TypeInv, AspaResultsTypeOK
<1>3. /\ entry'[u].result = cmd.value
      /\ \A w \in Updates : w # u => entry'[w] = entry[w] /\ (w \in raced' <=> w \in raced)
  BY <1>1, <1>2 DEF CommandStore, Race, Entry
<1>4. u \notin raced' =>
         \/ cmd.value = Due(u)
         \/ u \notin raced /\ entry[u].result = cmd.value
  <2>1. Says(u) = Due(u)
    BY <1>1, SaysIsDue DEF CurrentInv
  <2> QED
    BY <1>1, <2>1 DEF CommandStore, Race
<1>5. \A w : Due(w)' = Due(w) /\ Ahead(w)' = Ahead(w)
  BY <1>1 DEF Due, Ahead
<1>6. CurrentUnlessAhead'
  <2> SUFFICES ASSUME NEW w \in Updates \ raced', entry'[w] # None,
                      entry'[w].result # Undefined
               PROVE  entry'[w].result = Due(w) \/ Ahead(w)
    BY <1>5 DEF CurrentUnlessAhead
  <2>1. CASE w = u
    BY <1>1, <1>3, <1>4, <2>1 DEF CurrentInv, CurrentUnlessAhead
  <2>2. CASE w # u
    BY <1>3, <2>2 DEF CurrentInv, CurrentUnlessAhead
  <2> QED
    BY <2>1, <2>2
<1>7. WalkIsCurrent'
  <2> SUFFICES ASSUME walk # None, walk.at # None
               PROVE  LET w == walk.at.update IN
                      /\ walk.at.value = Due(w)
                      /\ w \notin raced' => entry'[w].result \in {walk.at.old, Due(w)}
    BY <1>1, <1>5 DEF WalkIsCurrent
  <2>1. walk.at.update \in Updates
    BY Copied
  <2>2. CASE walk.at.update = u
    BY <1>3, <1>4, <2>2 DEF CurrentInv, WalkIsCurrent
  <2>3. CASE walk.at.update # u
    BY <1>3, <2>1, <2>3 DEF CurrentInv, WalkIsCurrent
  <2> QED
    BY <2>2, <2>3
<1> QED
  BY <1>6, <1>7

LEMMA CurrentWalkWrite ==
    ASSUME TypeInv, CurrentInv, WalkWrite
    PROVE  CurrentUnlessAhead' /\ WalkIsCurrent'
<1> USE AspaResultsAssumption
<1> DEFINE at == walk.at
           u  == at.update
<1>1. /\ walk # None /\ at # None /\ walk \in Walk /\ u \in Updates /\ entry[u] # None
      /\ at.value = Due(u)
      /\ u \notin raced => entry[u].result \in {at.old, Due(u)}
      /\ UNCHANGED <<verdict, fresh>>
  BY Copied DEF WalkWrite, TypeInv, AspaResultsTypeOK, CurrentInv, WalkIsCurrent
<1>2. walk' \in Walk /\ walk'.todo = walk.todo /\ walk'.at = None /\ walk' # None
  BY <1>1 DEF WalkWrite, Walk
<1>3. /\ entry \in [Updates -> Entry \cup {None}] /\ raced \subseteq Updates
      /\ entry[u] \in Entry
  BY <1>1 DEF TypeInv, AspaResultsTypeOK
<1>4. \A w \in Updates : w # u => entry'[w] = entry[w] /\ (w \in raced' <=> w \in raced)
  BY <1>1, <1>3 DEF WalkWrite, TakenOver, Race
<1>5. u \notin raced' => entry'[u].result = at.value
  <2>1. CASE walk.time > at.path.modified
    <3>1. raced' = IF at.value = at.path.result /\ entry[u].result # at.value
                   THEN raced \cup {u} ELSE raced \ {u}
      BY <2>1 DEF WalkWrite, Race
    <3>2. CASE at.value = at.path.result
      BY <2>1, <3>1, <3>2 DEF WalkWrite
    <3>3. CASE at.value # at.path.result
      <4>1. entry' = [entry EXCEPT ![u].result = at.value]
        BY <2>1, <3>3 DEF WalkWrite
      <4> QED
        BY <1>1, <1>3, <4>1 DEF Entry
    <3> QED
      BY <3>2, <3>3
  <2>2. CASE ~(walk.time > at.path.modified)
    <3>1. raced' = IF at.path.result # at.value \/ (u \in raced /\ at.old = at.path.result)
                   THEN raced \cup {u} ELSE raced \ {u}
      BY <2>2 DEF WalkWrite, Race
    <3>2. CASE at.old = at.path.result
      <4>1. entry' = entry
        BY <2>2, <3>2 DEF WalkWrite, TakenOver
      <4> QED
        BY <1>1, <3>1, <3>2, <4>1
    <3>3. CASE at.old # at.path.result
      <4>1. entry' = [entry EXCEPT ![u].result = at.path.result]
        BY <2>2, <3>3 DEF WalkWrite, TakenOver
      <4>2. entry'[u].result = at.path.result
        BY <1>1, <1>3, <4>1 DEF Entry
      <4> QED
        BY <3>1, <4>2
    <3> QED
      BY <3>2, <3>3
  <2> QED
    BY <2>1, <2>2
<1>6. CurrentUnlessAhead'
  <2> SUFFICES ASSUME NEW w \in Updates \ raced', entry'[w] # None,
                      entry'[w].result # Undefined
               PROVE  entry'[w].result = Due(w)' \/ Ahead(w)'
    BY DEF CurrentUnlessAhead
  <2>1. Due(w)' = Due(w)
    BY <1>1 DEF Due
  <2>2. CASE w = u
    BY <1>1, <1>5, <2>1, <2>2
  <2>3. CASE w # u
    <3>1. Ahead(w) => Ahead(w)'
      BY <1>1, <1>2, <2>3 DEF Ahead
    <3> QED
      BY <1>4, <2>1, <2>3, <3>1 DEF CurrentInv, CurrentUnlessAhead
  <2> QED
    BY <2>2, <2>3
<1>7. WalkIsCurrent'
  BY <1>2 DEF WalkIsCurrent
<1> QED
  BY <1>6, <1>7

LEMMA CurrentNext ==
    ASSUME OneDirection, TypeInv, CurrentInv, [AspaResultsNext]_vars
    PROVE  CurrentInv'
<1> USE AspaResultsAssumption
<1>0. DirectionKept'
  BY DirectionNext DEF CurrentInv
<1> SUFFICES CurrentUnlessAhead' /\ WalkIsCurrent'
  BY <1>0 DEF CurrentInv
<1>1. CASE \/ \E u \in Updates, d \in Defaults, r \in Receipts : Look(u, d, r)
           \/ CommandStart \/ Dequeue \/ Tick \/ UNCHANGED vars
  <2>1. UNCHANGED <<entry, raced, verdict, walk, fresh>>
    BY <1>1 DEF Look, CommandStart, Dequeue, Tick, vars
  <2> QED
    BY <2>1, CurrentUnchanged DEF CurrentInv
<1>2. CASE Register
  BY <1>2, CurrentRegister
<1>3. CASE CommandStore
  BY <1>3, CurrentCommandStore
<1>4. ASSUME NEW p \in Paths, NEW dir \in Dirs, NEW v \in Verdicts, Pdu(p, dir, v)
      PROVE  CurrentUnlessAhead' /\ WalkIsCurrent'
  <2>1. walk' = None /\ fresh' = FALSE
    BY <1>4 DEF Pdu
  <2> QED
    BY <2>1 DEF CurrentUnlessAhead, WalkIsCurrent, Ahead
<1>5. CASE EndOfData
  <2>1. walk' = [time |-> clock, todo |-> {u \in Updates : entry[u] # None}, at |-> None]
        /\ entry' = entry
    BY <1>5 DEF EndOfData
  <2>2. walk' # None
    <3>1. walk' \in Walk
      BY <2>1 DEF Walk, TypeInv, AspaResultsTypeOK
    <3> QED
      BY <3>1
  <2>3. \A u \in Updates : entry'[u] # None => Ahead(u)'
    BY <2>1, <2>2 DEF Ahead
  <2> QED
    BY <2>1, <2>3 DEF CurrentUnlessAhead, WalkIsCurrent
<1>6. CASE WalkRead
  <2>1. PICK u \in walk.todo : walk' = [walk EXCEPT !.todo = @ \ {u},
            !.at = [update |-> u, old |-> entry[u].result, path |-> Path(u), value |-> Says(u)]]
    BY <1>6 DEF WalkRead
  <2>2. walk # None /\ walk \in Walk /\ u \in Updates /\ entry[u] # None
        /\ UNCHANGED <<entry, raced, verdict, fresh>>
    BY <1>6, <2>1, Copied DEF WalkRead, TypeInv, AspaResultsTypeOK, StoredOnly
  <2> DEFINE v == [update |-> u, old |-> entry[u].result, path |-> Path(u), value |-> Says(u)]
  <2>3. v \in Visit /\ v.update = u /\ v.old = entry[u].result /\ v.value = Due(u)
    BY <2>2, Stored, SaysIsDue DEF Visit, CurrentInv
  <2>4. walk' = [walk EXCEPT !.todo = @ \ {u}, !.at = v]
    BY <2>1
  <2> HIDE DEF v
  <2>5. walk' \in Walk /\ walk'.todo = walk.todo \ {u} /\ walk'.at = v
    BY <2>2, <2>3, <2>4 DEF Walk
  <2>6. \A w : Due(w)' = Due(w)
    BY <2>2 DEF Due
  <2>7. \A w \in Updates : Ahead(w) => Ahead(w)'
    BY <1>6, <2>2, <2>3, <2>5 DEF Ahead, WalkRead
  <2>8. CurrentUnlessAhead'
    BY <2>2, <2>6, <2>7 DEF CurrentInv, CurrentUnlessAhead
  <2>9. WalkIsCurrent'
    BY <2>2, <2>3, <2>5, <2>6 DEF WalkIsCurrent
  <2> QED
    BY <2>8, <2>9
<1>7. CASE WalkWrite
  BY <1>7, CurrentWalkWrite
<1>8. CASE Processed
  <2>1. /\ walk # None /\ walk.at = None /\ walk.todo = {} /\ walk' = None
        /\ UNCHANGED <<entry, raced, verdict>>
    BY <1>8 DEF Processed, Emptied
  <2>2. \A w : ~Ahead(w) /\ Due(w)' = Due(w)
    BY <2>1 DEF Ahead, Due
  <2> QED
    BY <2>1, <2>2 DEF CurrentInv, CurrentUnlessAhead, WalkIsCurrent
<1> QED
  BY <1>1, <1>2, <1>3, <1>4, <1>5, <1>6, <1>7, <1>8
  DEF AspaResultsNext, Receiver, Command, Rpki

\* When each path comes from one direction only, an update that missed none of
\* the races has the verdict on its path when all is quiet.
THEOREM ResultsAreCurrent ==
    ASSUME OneDirection
    PROVE  AspaResultsSpec => []CurrentUnlessRaced
<1>1. AspaResultsInit => CurrentInv
  BY AspaResultsAssumption DEF AspaResultsInit, CurrentInv, DirectionKept,
     CurrentUnlessAhead, WalkIsCurrent, Path
<1>2. TypeInv /\ CurrentInv /\ [AspaResultsNext]_vars => CurrentInv'
  BY CurrentNext
<1>3. CurrentInv => CurrentUnlessRaced
  BY DEF CurrentInv, CurrentUnlessAhead, CurrentUnlessRaced, AtRest, Ahead
<1> QED
  BY <1>1, <1>2, <1>3, TypeInvHolds, PTL DEF AspaResultsSpec
=============================================================================
