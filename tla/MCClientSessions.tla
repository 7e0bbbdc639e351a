-------------------------- MODULE MCClientSessions --------------------------
(* Instances of ClientSessions.tla for TLC.                                *)
EXTENDS ClientSessions

CONSTANTS s1, s2, s3

\* Proxy 1 connects twice, proxy 2 once; nothing is configured, or proxy 2 is.
MCProxyOf    == [s \in Sockets |-> IF s = s3 THEN 2 ELSE 1]
MCMapping    == [c \in ClientIDs |-> 0]
MCConfigured == [c \in ClientIDs |-> IF c = 2 THEN 2 ELSE 0]
=============================================================================
