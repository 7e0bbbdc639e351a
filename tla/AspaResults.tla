----------------------------- MODULE AspaResults -----------------------------
(***************************************************************************)
(* The ASPA results of updates and the three threads that set them.        *)
(*   server_connection_handler.c  the receiver: requests and replies       *)
(*   command_handler.c            the command thread: first validation     *)
(*   aspa_trie.c, update_cache.c  the RPKI thread: after each End of Data  *)
(*                                it walks over all updates                *)
(*   aspath_cache.c               the paths and their results              *)
(*                                                                         *)
(* Updates that share a path share its entry in the path cache, which all  *)
(* threads copy, compare and write back without a lock around the three.   *)
(* What validateASPA says of a path in a direction is verdict, which the   *)
(* PDUs of the RPKI cache change (AspaValidation.tla and AspaDatabase.tla   *)
(* have the details).  Times are seconds, as time() returns them.  One     *)
(* proxy asks; UpdateResults.tla has several.                              *)
(***************************************************************************)
EXTENDS Naturals, Sequences

CONSTANTS
    Updates,
    Paths,
    PathOf, DirOf,  \* path and direction of each update
    Defaults,       \* results the proxy passes along with a request
    Receipts,       \* whether it asks for a receipt
    MaxRequests,    \* bound: requests a behaviour has
    MaxPdus,        \* bound: PDUs that change a verdict
    MaxClock,       \* bound: seconds
    None

Dirs      == {DirOf[u] : u \in Updates}
Verdicts  == {"valid", "invalid"}
Undefined == "undefined"
DoNotUse  == "donotuse"
Results   == Verdicts \cup {Undefined}

\* An entry of the path cache, one of the update cache, and what the receiver
\* thread, the command thread and the walk have copied.
PathEntry == [result : Results, modified : 0 .. MaxClock, dir : Dirs]
Entry     == [result : Results, default : Results \cup {DoNotUse}]
Request   == [update : Updates, default : Results, receipt : BOOLEAN,
              result : Results, stored : BOOLEAN, path : PathEntry \cup {None}]
Task      == [update : Updates, path : PathEntry \cup {None}, verdict : Results,
              value : Results]
Visit     == [update : Updates, old : Results, path : PathEntry, value : Verdicts]
Walk      == [time : 0 .. MaxClock, todo : SUBSET Updates, at : Visit \cup {None}]

ASSUME AspaResultsAssumption ==
    /\ None \notin PathEntry /\ None \notin Entry /\ None \notin Request
    /\ None \notin Task /\ None \notin Visit /\ None \notin Walk
    /\ PathOf \in [Updates -> Paths] /\ DirOf \in [Updates -> {"up", "down"}]
    /\ Defaults \subseteq Results /\ Receipts \subseteq BOOLEAN
    /\ {MaxRequests, MaxPdus, MaxClock} \subseteq Nat /\ MaxClock > 0

VARIABLES
    clock,
    verdict,        \* by path and direction
    known,          \* the path cache: result, time of the last change, direction
    entry,          \* the update cache: result and default
    recv,           \* the request in processValidationRequest, with what it read
    cmdQ, cmd,      \* the command queue, the command in _processUpdateValidation
    walk,           \* the walk of the RPKI thread
    rpkiQ,          \* the updates queued with RQ_ASPA
    told,           \* the result the proxy goes by
    answered,       \* the updates it asked about and is answered about
    fresh,          \* history: no PDU since the last End of Data
    raced,          \* history: updates that met one of the races named below
    requests, pdus

vars == <<clock, verdict, known, entry, recv, cmdQ, cmd, walk, rpkiQ, told,
          answered, fresh, raced, requests, pdus>>

\* The verdict on an update in its own direction, and the one its path gets.
Due(u)  == verdict[PathOf[u]][DirOf[u]]
Path(u) == known[PathOf[u]]
Says(u) == verdict[PathOf[u]][Path(u).dir]

Race(u, lost) == raced' = IF lost THEN raced \cup {u} ELSE raced \ {u}

-----------------------------------------------------------------------------
(* The receiver thread.                                                    *)

\* processValidationRequest as far as the copy of the path's result.
Look(u, d, receipt) ==
    /\ recv = None /\ requests < MaxRequests
    /\ requests' = requests + 1
    /\ recv' = [update |-> u, default |-> d, receipt |-> receipt,
                result |-> IF entry[u] # None THEN entry[u].result
                           ELSE IF Path(u) # None THEN Path(u).result ELSE d,
                stored |-> entry[u] # None, path |-> Path(u)]
    /\ told' = [told EXCEPT ![u] = d]
    /\ UNCHANGED <<clock, verdict, known, entry, cmdQ, cmd, walk, rpkiQ, answered,
                   fresh, raced, pdus>>

\* Mutant: a path that is registered already needs no validation.
Queued_New(u) == cmdQ' = IF recv.path = None THEN Append(cmdQ, u) ELSE cmdQ

Queued(u) == cmdQ' = Append(cmdQ, u)

\* The rest of it.  A result the path has already is taken over, otherwise the
\* path is stored with the proxy's default as its result.  Only a request with
\* a receipt is answered and validated.
Register ==
    /\ recv # None
    /\ LET u == recv.update IN
       /\ IF recv.stored THEN UNCHANGED <<known, entry, raced, walk>>
          ELSE /\ IF recv.path # None
                  THEN /\ entry' = [entry EXCEPT ![u] =
                                       [result |-> recv.result, default |-> DoNotUse]]
                       /\ Race(u, recv.result \in Verdicts /\ recv.result # Says(u))
                       /\ UNCHANGED known
                  ELSE /\ known' = [known EXCEPT ![PathOf[u]] =
                              [result |-> recv.default, modified |-> 0, dir |-> DirOf[u]]]
                       /\ entry' = [entry EXCEPT ![u] =
                                       [result |-> Undefined, default |-> recv.default]]
                       /\ UNCHANGED raced
               /\ walk' = IF walk = None \/ walk.todo = {} THEN walk
                          ELSE [walk EXCEPT !.todo = @ \cup {u}]
       /\ IF recv.receipt
          THEN /\ told' = [told EXCEPT ![u] = recv.result]
               /\ Queued(u)
          ELSE UNCHANGED <<told, cmdQ>>
       /\ answered' = answered \cup {u}
    /\ recv' = None
    /\ UNCHANGED <<clock, verdict, cmd, rpkiQ, fresh, requests, pdus>>

-----------------------------------------------------------------------------
(* The command thread.                                                     *)

\* The validation of a path.  Its old result, which getAspathListFromAspathCache
\* put in the place of the update's, is what the update is given unless it is
\* undefined; the verdict only goes to the path.
Validation(u) ==
    [update |-> u, path |-> Path(u), verdict |-> Says(u),
     value |-> IF Path(u).result = Undefined THEN Says(u) ELSE Path(u).result]

\* A result the update is given without one.
Given(u, value) == [update |-> u, path |-> None, verdict |-> value, value |-> value]

\* _processUpdateValidation up to the result.  An update that has one is not
\* validated again, nor is one the proxy found invalid itself.
CommandStart ==
    /\ cmd = None /\ cmdQ # <<>>
    /\ LET u == Head(cmdQ) IN
       cmd' = CASE entry[u].result = Undefined /\ entry[u].default # "invalid" ->
                       Validation(u)
                [] entry[u].result = Undefined /\ entry[u].default = "invalid" ->
                       Given(u, "invalid")
                [] entry[u].result # Undefined /\ entry[u].default # "invalid" ->
                       Given(u, entry[u].result)
                [] OTHER -> None
    /\ cmdQ' = Tail(cmdQ)
    /\ UNCHANGED <<clock, verdict, known, entry, recv, walk, rpkiQ, told, answered,
                   fresh, raced, requests, pdus>>

\* Mutant: the callback is only called for a change.
Announced_Changes(u, value) ==
    told' = IF entry[u].result # value THEN [told EXCEPT ![u] = value] ELSE told

\* modifyUpdateResult: the callback is called, whether or not it is a change.
Announced(u, value) == told' = [told EXCEPT ![u] = value]

\* The rest of it: the path's result, and modifyUpdateResult.
CommandStore ==
    /\ cmd # None
    /\ LET u == cmd.update IN
       /\ known' = IF cmd.path = None \/ cmd.path.result = cmd.verdict THEN known
                   ELSE [known EXCEPT ![PathOf[u]].result = cmd.verdict,
                                      ![PathOf[u]].modified = clock]
       /\ entry' = [entry EXCEPT ![u].result = cmd.value]
       /\ Announced(u, cmd.value)
       /\ Race(u, \/ u \in raced /\ entry[u].result = cmd.value
                  \/ entry[u].result # cmd.value /\
                        (cmd.value # cmd.verdict \/ cmd.verdict # Says(u)))
    /\ cmd' = None
    /\ UNCHANGED <<clock, verdict, recv, cmdQ, walk, rpkiQ, answered, fresh, requests, pdus>>

-----------------------------------------------------------------------------
(* The RPKI thread.                                                        *)

\* An ASPA PDU that changes the verdict on a path.
Pdu(p, dir, v) ==
    /\ walk = None /\ pdus < MaxPdus /\ verdict[p][dir] # v
    /\ pdus' = pdus + 1
    /\ verdict' = [verdict EXCEPT ![p][dir] = v]
    /\ fresh' = FALSE
    /\ UNCHANGED <<clock, known, entry, recv, cmdQ, cmd, walk, rpkiQ, told, answered,
                   raced, requests>>

\* handleEndOfData: process_ASPA_EndOfData begins.
EndOfData ==
    /\ walk = None /\ ~fresh
    /\ walk' = [time |-> clock, todo |-> {u \in Updates : entry[u] # None}, at |-> None]
    /\ UNCHANGED <<clock, verdict, known, entry, recv, cmdQ, cmd, rpkiQ, told,
                   answered, fresh, raced, requests, pdus>>

\* process_ASPA_EndOfData_main up to the verdict.
WalkRead ==
    /\ walk # None /\ walk.at = None
    /\ \E u \in walk.todo : walk' = [walk EXCEPT !.todo = @ \ {u},
          !.at = [update |-> u, old |-> entry[u].result, path |-> Path(u), value |-> Says(u)]]
    /\ UNCHANGED <<clock, verdict, known, entry, recv, cmdQ, cmd, rpkiQ, told,
                   answered, fresh, raced, requests, pdus>>

\* Mutant: what was validated in the walk already is not taken over.
TakenOver_Not(at, u) == UNCHANGED <<entry, rpkiQ>>

\* The path has been validated after the End of Data: its result is taken over.
TakenOver(at, u) ==
    IF at.old = at.path.result THEN UNCHANGED <<entry, rpkiQ>>
    ELSE entry' = [entry EXCEPT ![u].result = at.path.result] /\ rpkiQ' = rpkiQ \cup {u}

\* The rest of it.  A path is validated once in a walk.
WalkWrite ==
    /\ walk # None /\ walk.at # None
    /\ LET at == walk.at
           u  == at.update
       IN  IF walk.time > at.path.modified
           THEN /\ known' = [known EXCEPT ![PathOf[u]].result = at.value,
                                          ![PathOf[u]].modified = clock]
                /\ IF at.value = at.path.result THEN UNCHANGED <<entry, rpkiQ>>
                   ELSE /\ entry' = [entry EXCEPT ![u].result = at.value]
                        /\ rpkiQ' = rpkiQ \cup {u}
                /\ Race(u, at.value = at.path.result /\ entry[u].result # at.value)
           ELSE /\ TakenOver(at, u)
                /\ Race(u, \/ at.path.result # at.value
                           \/ u \in raced /\ at.old = at.path.result)
                /\ UNCHANGED known
    /\ walk' = [walk EXCEPT !.at = None]
    /\ UNCHANGED <<clock, verdict, recv, cmdQ, cmd, told, answered, fresh, requests, pdus>>

\* handleEndOfData empties the queue: the proxy is told of what changed.
Dequeue ==
    /\ walk # None /\ walk.at = None /\ walk.todo = {}
    /\ \E u \in rpkiQ : told' = [told EXCEPT ![u] = entry[u].result] /\ rpkiQ' = rpkiQ \ {u}
    /\ UNCHANGED <<clock, verdict, known, entry, recv, cmdQ, cmd, walk, answered,
                   fresh, raced, requests, pdus>>

Emptied == walk.at = None /\ walk.todo = {} /\ rpkiQ = {}

Processed ==
    /\ walk # None /\ Emptied
    /\ walk' = None /\ fresh' = TRUE
    /\ UNCHANGED <<clock, verdict, known, entry, recv, cmdQ, cmd, rpkiQ, told,
                   answered, raced, requests, pdus>>

-----------------------------------------------------------------------------
Tick ==
    /\ clock < MaxClock /\ clock' = clock + 1
    /\ UNCHANGED <<verdict, known, entry, recv, cmdQ, cmd, walk, rpkiQ, told,
                   answered, fresh, raced, requests, pdus>>

AspaResultsInit ==
    /\ clock = 1
    /\ verdict \in [Paths -> [Dirs -> Verdicts]]
    /\ known = [p \in Paths |-> None] /\ entry = [u \in Updates |-> None]
    /\ recv = None /\ cmdQ = <<>> /\ cmd = None /\ walk = None /\ rpkiQ = {}
    /\ told = [u \in Updates |-> Undefined] /\ answered = {}
    /\ fresh = TRUE /\ raced = {} /\ requests = 0 /\ pdus = 0

Receiver == Register \/ \E u \in Updates, d \in Defaults, r \in Receipts : Look(u, d, r)
Command  == CommandStart \/ CommandStore
Rpki     == EndOfData \/ WalkRead \/ WalkWrite \/ Dequeue \/ Processed

AspaResultsNext ==
    \/ Receiver \/ Command \/ Rpki \/ Tick
    \/ \E p \in Paths, dir \in Dirs, v \in Verdicts : Pdu(p, dir, v)

\* The threads go on with what they have begun and empty their queues.
AspaResultsSpec ==
    /\ AspaResultsInit /\ [][AspaResultsNext]_vars
    /\ WF_vars(Register) /\ WF_vars(Command) /\ WF_vars(Rpki)

-----------------------------------------------------------------------------
(* Properties.                                                             *)

\* Every variable has its type, and what is queued or in work is about updates
\* that are stored, with a path that is known.
AspaResultsTypeOK ==
    /\ clock \in 1 .. MaxClock
    /\ verdict \in [Paths -> [Dirs -> Verdicts]]
    /\ known \in [Paths -> PathEntry \cup {None}]
    /\ entry \in [Updates -> Entry \cup {None}]
    /\ \A u \in Updates : entry[u] # None => Path(u) # None
    /\ recv \in Request \cup {None}
    /\ recv # None => /\ (recv.stored <=> entry[recv.update] # None)
                      /\ (recv.path # None => Path(recv.update) # None)
    /\ cmdQ \in Seq(Updates) /\ cmd \in Task \cup {None}
    /\ walk \in Walk \cup {None}
    /\ rpkiQ \subseteq Updates /\ (rpkiQ # {} => walk # None)
    /\ told \in [Updates -> Results]
    /\ answered \subseteq Updates /\ raced \subseteq Updates
    /\ fresh \in BOOLEAN
    /\ requests \in 0 .. MaxRequests /\ pdus \in 0 .. MaxPdus

\* No thread has anything left to do.
AtRest == recv = None /\ cmdQ = <<>> /\ cmd = None /\ walk = None /\ fresh

\* When all is quiet, the proxy goes by the result the server has, whatever
\* replies, validations and walks overtook each other.  An update whose proxy
\* found it invalid itself is left alone by the command thread, so that a reply
\* to a second request that was overtaken is not corrected.
Informed == AtRest =>
    \A u \in answered : entry[u].default # "invalid" => told[u] = entry[u].result

\* There are six ways to miss the verdict: a reply or a validation that was
\* overtaken by a walk, a change within the second of the last one, a path
\* another update has had validated, a validation that gives the update the old
\* result of its path, and a default the proxy found invalid.
CurrentUnlessRaced == AtRest =>
    \A u \in Updates \ raced : entry[u] # None /\ entry[u].result # Undefined =>
        entry[u].result = Due(u)

\* A request that is answered leads to a result.
Validated == \A u \in Updates :
    recv # None /\ recv.update = u /\ recv.receipt ~> entry[u] # None /\ entry[u].result # Undefined

-----------------------------------------------------------------------------
(* What one would expect and does not hold; README.md, section 7, has the    *)
(* constants under which TLC shows it.                                       *)

\* When all is quiet, the proxy goes by the result the server has.
ToldAtRest == AtRest => \A u \in answered : told[u] = entry[u].result

\* When all is quiet, the result of an update is the verdict on its path.
CurrentAtRest == AtRest =>
    \A u \in Updates : entry[u] # None /\ entry[u].result # Undefined =>
        entry[u].result = Due(u)

\* A walk that validates a path leaves its update with the verdict.
WalkCorrects == [][
    walk # None /\ walk.at # None /\ walk.time > walk.at.path.modified /\ walk'.at = None
        => entry'[walk.at.update].result = walk.at.value]_vars

\* A validation leaves its update with the verdict.
ValidationCorrects == [][
    cmd # None /\ cmd.path # None /\ cmd' = None
        => entry'[cmd.update].result = cmd.verdict]_vars

\* An update whose proxy found it invalid itself does not become valid.
NeighborCheckKept ==
    \A u \in Updates : entry[u] # None /\ entry[u].default = "invalid" =>
        entry[u].result # "valid"
=============================================================================
