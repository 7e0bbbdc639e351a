----------------------------- MODULE MCAspaPaths -----------------------------
(* An instance of AspaPaths.tla for TLC. *)
EXTENDS AspaPaths

\* The ASes of a path, and AS 10 whose digits begin with those of AS 1.
MCRoute     == <<<<1>>, <<2>>, <<3, 4>>, <<3, 5>>, <<4>>>>
MCNested    == <<1, 0>>
MCCustomers == {MCRoute[i] : i \in DOMAIN MCRoute} \cup {MCNested}

\* Objects list the neighbours on the path or a foreign AS.
MCProvidersOf == [c \in MCCustomers |->
    {<<9>>} \cup {MCRoute[i] : i \in {j \in DOMAIN MCRoute :
                 \E k \in DOMAIN MCRoute : MCRoute[k] = c /\ (j = k + 1 \/ k = j + 1)}}]

\* The path and its parts.
MCPaths == {SubSeq(MCRoute, i, j) : i, j \in DOMAIN MCRoute} \ {<<>>}

MCAfis == {AFI_IP}
=============================================================================
