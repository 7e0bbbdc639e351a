------------------------------ MODULE AspaPaths ------------------------------
(***************************************************************************)
(* AS paths and the database they are validated with: validateASPA         *)
(* (AspaValidation.tla) asks the trie (AspaDatabase.tla) about each hop.    *)
(* The RPKI thread changes the trie between validations; a validation is   *)
(* one step here.                                                          *)
(***************************************************************************)
EXTENDS AspaDatabase, AspaValidation

CONSTANT Paths      \* the AS paths of updates, the origin first

ASSUME PathsAssumption == \A p \in Paths : p \in Seq(Customers) /\ Len(p) > 0

\* Mutant: customer and provider are swapped.
StoredUp_Swapped(p, afi) ==
    [i \in 1 .. Len(p) - 1 |-> ASPA_DB_lookup(p[i + 1], p[i], afi)]

\* The lookups of the loops, each AS and the next as its provider ...
StoredUp(p, afi) == [i \in 1 .. Len(p) - 1 |-> ASPA_DB_lookup(p[i], p[i + 1], afi)]

\* ... and the other way around.
StoredDown(p, afi) == [i \in 1 .. Len(p) - 1 |-> ASPA_DB_lookup(p[i + 1], p[i], afi)]

\* What validateASPA returns for an update.
Verdict(p, type, dir, afi) ==
    validateASPA(Len(p), type, dir, StoredUp(p, afi), StoredDown(p, afi))

\* What the announced objects say of the hops.
ToProvider(p, afi)   == [i \in 1 .. Len(p) - 1 |-> Lookup(announced[p[i]], p[i + 1], afi)]
FromProvider(p, afi) == [i \in 1 .. Len(p) - 1 |-> Lookup(announced[p[i + 1]], p[i], afi)]

-----------------------------------------------------------------------------
\* Whatever objects were announced, substituted and withdrawn, the loops over
\* the trie find out whether what is announced leaves a path valley-free.
VerdictIsMeaning ==
    \A p \in Paths, type \in {"sequence", "set"}, dir \in {"up", "down"}, afi \in {AFI_IP, AFI_IP6} :
        (\A i \in 1 .. Len(p) : Alone(p[i])) =>
            Verdict(p, type, dir, afi) =
                Meaning(Len(p), type, dir, ToProvider(p, afi), FromProvider(p, afi))
=============================================================================
