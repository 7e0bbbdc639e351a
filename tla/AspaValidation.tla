--------------------------- MODULE AspaValidation ---------------------------
(***************************************************************************)
(* Validation of AS paths with ASPA objects, validateASPA of               *)
(* server/command_handler.c.                                               *)
(*                                                                         *)
(* AS 1 is the origin of the path and AS n the neighbour it was learned    *)
(* from (the code reverses the path first).  u[i] is what ASPA_DB_lookup   *)
(* says of AS i + 1 being a provider of AS i, d[i] of AS i being one of    *)
(* AS i + 1.  The order of the loops does not matter for their results: a  *)
(* loop that runs to the first hop of a kind is the least such hop.        *)
(***************************************************************************)
EXTENDS Naturals

HopResults == {"valid", "invalid", "unknown"}

-----------------------------------------------------------------------------
(* The algorithm.                                                          *)

\* Validation_Result: an AS_SET makes unverifiable what is not invalid.
Final(type, result) == IF type = "sequence" THEN result ELSE "unverifiable"

\* Upstream Validation: every hop has to lead to a provider.
Upstream(n, type, u) ==
    IF \E i \in 1 .. n - 1 : u[i] = "invalid" THEN "invalid"
    ELSE Final(type, IF \A i \in 1 .. n - 1 : u[i] = "valid" THEN "valid" ELSE "unknown")

\* The loop for K_val: the AS up to which every hop leads to a provider.
IsK(k, n, u) ==
    /\ k = n - 1 \/ u[k] # "valid"
    /\ \A i \in 1 .. k - 1 : u[i] = "valid"

\* The loop for L_val: the AS from which every hop comes from a provider.
IsL(l, k, n, d) ==
    /\ l = k + 1 \/ d[l - 1] # "valid"
    /\ \A i \in l .. n - 1 : d[i] = "valid"

\* The loop for u_val: the first hop that does not lead to a provider, or 0.
IsU(v, k, l, u) ==
    \/ v = 0 /\ \A i \in k .. l - 2 : u[i] # "invalid"
    \/ /\ v \in k .. l - 2 /\ u[v] = "invalid"
       /\ \A i \in k .. v - 1 : u[i] # "invalid"

\* Mutant: the hop after L is not looked at.
DownstreamFrom_Short(k, l, v, n, type, d) ==
    IF k = n - 1 \/ l - k <= 2 THEN Final(type, "valid")
    ELSE IF v # 0 /\ \E j \in v + 1 .. l - 1 : d[j] = "invalid" THEN "invalid"
    ELSE Final(type, "unknown")

\* Downstream Validation: up to K, down from L, and what is in between.
DownstreamFrom(k, l, v, n, type, d) ==
    IF k = n - 1 \/ l - k <= 1 THEN Final(type, "valid")
    ELSE IF v # 0 /\ \E j \in v + 1 .. l - 1 : d[j] = "invalid" THEN "invalid"
    ELSE Final(type, "unknown")

Downstream(n, type, u, d) ==
    IF n = 1 THEN Final(type, "valid")
    ELSE LET k == CHOOSE i \in 1 .. n - 1 : IsK(i, n, u)
             l == CHOOSE i \in k + 1 .. n : IsL(i, k, n, d)
             v == CHOOSE i \in 0 .. n : IsU(i, k, l, u)
         IN  DownstreamFrom(k, l, v, n, type, d)

validateASPA(n, type, dir, u, d) ==
    IF dir = "up" THEN Upstream(n, type, u) ELSE Downstream(n, type, u, d)

-----------------------------------------------------------------------------
(* What the result of a path means.                                        *)

\* A path goes up from provider to provider as far as AS k, then at most one
\* hop further, and down from customer to customer from there, as far as bad
\* allows.
ValleyFree(n, u, d, bad) ==
    \E k \in 1 .. n : \E l \in {k, k + 1} :
        /\ l <= n
        /\ \A i \in 1 .. k - 1 : u[i] \notin bad
        /\ \A i \in l .. n - 1 : d[i] \notin bad

\* What the result of a path means: a path from a provider is valid if it is
\* known to be valley-free, and invalid if it cannot be whatever the ASes
\* without an object do.  One from a customer has to go up all the way.
Meaning(n, type, dir, u, d) ==
    LET allowed(bad) == IF dir = "down" THEN ValleyFree(n, u, d, bad)
                        ELSE \A i \in 1 .. n - 1 : u[i] \notin bad
    IN  IF ~allowed({"invalid"}) THEN "invalid"
        ELSE IF type # "sequence" THEN "unverifiable"
        ELSE IF allowed({"invalid", "unknown"}) THEN "valid" ELSE "unknown"
=============================================================================
