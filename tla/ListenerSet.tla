----------------------------- MODULE ListenerSet -----------------------------
(***************************************************************************)
(* What an entry of the update cache promises about its clients: it keeps  *)
(* the set of those that registered and did not leave, and it may be       *)
(* collected exactly while that set is empty.  UpdateClients.tla models    *)
(* the array of update_cache.c and is shown to implement this module.      *)
(***************************************************************************)
CONSTANT ClientIDs

VARIABLES listeners, collectable

setVars == <<listeners, collectable>>

Init == listeners = {} /\ collectable = TRUE

Join(c) ==
    /\ listeners' = listeners \cup {c}
    /\ collectable' = FALSE

Quit(c) ==
    /\ c \in listeners
    /\ listeners' = listeners \ {c}
    /\ collectable' = (listeners' = {})

Next == \E c \in ClientIDs : Join(c) \/ Quit(c)

Spec == Init /\ [][Next]_setVars
=============================================================================
