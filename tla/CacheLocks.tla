----------------------------- MODULE CacheLocks -----------------------------
(***************************************************************************)
(* The two locks of the update cache and the order its functions take them *)
(* in: tableLock, a read/write lock around the hash table, and itemMutex   *)
(* around the entries (srx-server/src/server/update_cache.c).              *)
(*                                                                         *)
(* A function is the sequence of its lock operations; what it does between *)
(* them is modelled elsewhere.  A thread runs one function after another,  *)
(* in any order, out of those its handlers call.                           *)
(***************************************************************************)
EXTENDS Naturals, Sequences, FiniteSets

CONSTANTS
    ClientThreads,  \* the threads of the connections
    NoThread        \* nobody holds the lock

VARIABLES
    todo,           \* the lock operations the function a thread is in has left
    readers,        \* the threads that hold tableLock for reading
    writer,         \* the one that holds it for writing
    owner           \* the one that holds itemMutex

vars == <<todo, readers, writer, owner>>

Threads == {"receiver", "command", "rpki"} \cup ClientThreads

-----------------------------------------------------------------------------
(* The functions.                                                          *)

tableFind == <<"read", "unread">>
tableAdd  == <<"write", "unwrite">>

getUpdateResult == tableFind

\* A new update is added to the table while itemMutex is held.
storeUpdate == tableFind \o <<"lock">> \o tableAdd \o <<"unlock">>

\* The clients are informed within the call, and looked up for it, unless the
\* caller asked not to.
modifyUpdateResult(notify) ==
    tableFind \o <<"lock">> \o (IF notify THEN tableFind ELSE <<>>) \o <<"unlock">>

deleteUpdateFromCache == tableFind

unregisterClientID == <<"write", "lock", "unlock", "unwrite">>

\* A request for validation, and what it makes the prefix cache do.
ReceiverFunctions == {getUpdateResult, storeUpdate, modifyUpdateResult(FALSE)}

\* Validations and deletions; the end of a connection may be left to this thread.
CommandFunctions ==
    {getUpdateResult, modifyUpdateResult(TRUE), deleteUpdateFromCache, unregisterClientID}

\* ROAs change, and at the End of Data the updates are looked up.
RpkiFunctions == {getUpdateResult, modifyUpdateResult(FALSE)}

\* A connection ends.
ClientFunctions == {unregisterClientID}

\* The functions the handlers of a thread call.
Functions(t) ==
    CASE t = "receiver" -> ReceiverFunctions
      [] t = "command"  -> CommandFunctions
      [] t = "rpki"     -> RpkiFunctions
      [] OTHER          -> ClientFunctions

-----------------------------------------------------------------------------
(* The locks.                                                              *)

acquireReadLock(t) ==
    /\ writer = NoThread
    /\ readers' = readers \cup {t}
    /\ UNCHANGED <<writer, owner>>

acquireWriteLock(t) ==
    /\ writer = NoThread /\ readers = {}
    /\ writer' = t
    /\ UNCHANGED <<readers, owner>>

lockMutex(t) ==
    /\ owner = NoThread
    /\ owner' = t
    /\ UNCHANGED <<readers, writer>>

unlockReadLock(t)  == readers' = readers \ {t} /\ UNCHANGED <<writer, owner>>
unlockWriteLock(t) == writer' = NoThread /\ UNCHANGED <<readers, owner>>
unlockMutex(t)     == owner' = NoThread /\ UNCHANGED <<readers, writer>>

-----------------------------------------------------------------------------
LocksInit ==
    /\ todo = [t \in Threads |-> <<>>]
    /\ readers = {} /\ writer = NoThread /\ owner = NoThread

\* A handler calls one of them.
Call(t) ==
    /\ todo[t] = <<>>
    /\ \E f \in Functions(t) : todo' = [todo EXCEPT ![t] = f]
    /\ UNCHANGED <<readers, writer, owner>>

\* The next lock operation of the function, once the lock is free.
Step(t) ==
    /\ todo[t] # <<>>
    /\ LET op == Head(todo[t]) IN
        \/ op = "read"    /\ acquireReadLock(t)
        \/ op = "unread"  /\ unlockReadLock(t)
        \/ op = "write"   /\ acquireWriteLock(t)
        \/ op = "unwrite" /\ unlockWriteLock(t)
        \/ op = "lock"    /\ lockMutex(t)
        \/ op = "unlock"  /\ unlockMutex(t)
    /\ todo' = [todo EXCEPT ![t] = Tail(@)]

LocksNext == \E t \in Threads : Call(t) \/ Step(t)

LocksSpec == LocksInit /\ [][LocksNext]_vars

-----------------------------------------------------------------------------
(* Properties.                                                             *)

\* The thread waits for a lock that another one holds.
Blocked(t) ==
    LET op == Head(todo[t]) IN
        \/ op \in {"read", "write"} /\ writer # NoThread
        \/ op = "write" /\ readers # {}
        \/ op = "lock" /\ owner # NoThread

\* Whatever functions the threads are in, one of them can go on: no end of a
\* connection and no request brings the update cache to a standstill.
NoDeadlock ==
    LET busy == {t \in Threads : todo[t] # <<>>}
    IN  busy # {} => \E t \in busy : ~Blocked(t)
=============================================================================
