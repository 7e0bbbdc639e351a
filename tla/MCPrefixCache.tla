--------------------------- MODULE MCPrefixCache ---------------------------
(* An instance of PrefixCache.tla for TLC: a chain of three prefixes and a *)
(* second one of the longest length beside it; two ASes, one more reserved. *)
EXTENDS PrefixCache, TLC

CONSTANTS p8, p16, p24, q24

MCPrefixes == {p8, p16, p24, q24}

MCPLen == [p \in MCPrefixes |-> CASE p = p8 -> 8 [] p = p16 -> 16 [] OTHER -> 24]

MCAbove == [p \in MCPrefixes |->
    CASE p = p8 -> {} [] p = p16 -> {p8} [] p = p24 -> {p8, p16} [] p = q24 -> {p8}]

White(p, as, maxLen) == [prefix |-> p, as |-> as, maxLen |-> maxLen]

\* Of AS 1 and 2, short ones that reach nothing below and long ones, and one
\* of a reserved AS.
MCROAs ==
    {White(p8, 1, 8), White(p8, 1, 24), White(p8, 2, 16), White(p16, 2, 24),
     White(p16, 1, 16), White(p24, 1, 24), White(q24, 3, 24)}

MCReserved == {3}

MCPrefixOf == "u16" :> p16 @@ "u24" :> p24 @@ "v24" :> p24 @@ "w24" :> q24
MCOriginOf == "u16" :> 1   @@ "u24" :> 1   @@ "v24" :> 2   @@ "w24" :> 1
MCUpdates  == DOMAIN MCPrefixOf
=============================================================================
