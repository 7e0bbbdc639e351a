---------------------------- MODULE UpdateResults ----------------------------
(***************************************************************************)
(* How proxies learn the result of the updates they asked about.           *)
(*   server_connection_handler.c  the receiver thread: requests, replies   *)
(*   command_handler.c            the command thread: validation           *)
(*   rpki_handler.c, rpki_queue.c the RPKI thread: changes and End of Data *)
(*   srx_packet_sender.c          the send queue and its thread            *)
(*   update_cache.c               results and listeners                    *)
(*                                                                         *)
(* Four threads write to a proxy's connection: replies go through the send *)
(* queue, broadcasts do not, and a reply carries the result its handler    *)
(* read before it registered the proxy as a listener.  The module models   *)
(* one kind of validation (the origin of the update) for proxies that stay *)
(* connected; ClientSessions.tla has the connections and PrefixCache.tla   *)
(* says which result a validation has.  A call into either cache is one    *)
(* step, apart from the lookup that precedes the registration.             *)
(***************************************************************************)
EXTENDS Naturals, Sequences, SequencesExt

CONSTANTS
    Clients,        \* the client IDs of the proxies
    Updates,        \* the updates they ask about
    States,         \* the results a validation may have
    Undefined,      \* SRx_RESULT_UNDEFINED
    Defaults,       \* the results proxies pass along with a request
    MaxRequests,    \* bound: verify and delete PDUs a behaviour sends
    MaxChanges,     \* bound: results the RPKI thread sets
    None            \* no request is being handled

Results == States \cup {Undefined}
PDU     == [op : {"verify", "delete"}, client : Clients, update : Updates,
            default : Results, receipt : BOOLEAN]
Lookups == [pdu : PDU, value : Results]

ASSUME ResultsAssumption ==
    /\ None \notin Lookups
    /\ Undefined \notin States
    /\ Defaults \subseteq States \cup {Undefined}
    /\ MaxRequests \in Nat /\ MaxChanges \in Nat

VARIABLES
    recvQ,          \* the receiver queue
    lookup,         \* the request in processValidationRequest, with what it read
    entry,          \* the update cache
    cmdQ,           \* the command queue
    rpkiQ,          \* the RPKI queue
    draining,       \* handleEndOfData is emptying the RPKI queue
    sendQ,          \* the send queue
    belief,         \* the result each proxy goes by
    wants,          \* the updates a proxy asked about and did not delete since
    raced,          \* history: pairs that lost one of the races named below
    dropped,        \* history: pairs a late delete request took off the list
    requests,       \* PDUs sent so far
    changes         \* results set by the RPKI thread so far

vars == <<recvQ, lookup, entry, cmdQ, rpkiQ, draining, sendQ, belief, wants,
          raced, dropped, requests, changes>>

Pairs   == Clients \X Updates
Message == [client : Clients, update : Updates, value : Results]
Entry   == [stored : BOOLEAN, result : Results, clients : SUBSET Clients]

Has(q, c, u) == \E i \in DOMAIN q : q[i].client = c /\ q[i].update = u

\* A request of the proxy about the update that has not been answered yet.
Asking(c, u) ==
    \/ \E i \in DOMAIN recvQ : recvQ[i].op = "verify" /\ recvQ[i].client = c /\ recvQ[i].update = u
    \/ lookup # None /\ lookup.pdu.client = c /\ lookup.pdu.update = u

-----------------------------------------------------------------------------
(* What the threads share.                                                 *)

\* broadcastResult: every listener is sent the result at once, past the queue.
Broadcast(u, v) ==
    /\ belief' = [c \in Clients |->
          IF c \in entry[u].clients THEN [belief[c] EXCEPT ![u] = v] ELSE belief[c]]
    /\ raced' = {p \in raced : p[2] # u \/ p[1] \notin entry[u].clients}

\* rq_queue: each update is listed only once.
RqQueue(q, u) == IF Contains(q, u) THEN q ELSE Append(q, u)

\* Mutant: the receipt flag is not looked at.
ReplyNeeded_Differs(pdu, value) == pdu.default # value

\* A reply, and with it the validation command, is due when the proxy asked
\* for a receipt or has another result than the server.
ReplyNeeded(pdu, value) == pdu.receipt \/ pdu.default # value

\* Mutant: only the request that stores the update registers its client.
Joined_First(i, c) ==
    IF i.stored THEN i ELSE [stored |-> TRUE, result |-> Undefined, clients |-> {c}]

\* The client becomes a listener of the update, which is stored if it is new.
Joined(i, c) ==
    IF i.stored THEN [i EXCEPT !.clients = @ \cup {c}]
    ELSE [stored |-> TRUE, result |-> Undefined, clients |-> {c}]

-----------------------------------------------------------------------------
(* The proxies.                                                            *)

\* verifyUpdate: the proxy goes by its default until it hears of a result.
Verify(c, u, default, receipt) ==
    /\ requests < MaxRequests
    /\ requests' = requests + 1
    /\ recvQ' = Append(recvQ, [op |-> "verify", client |-> c, update |-> u,
                               default |-> default, receipt |-> receipt])
    /\ belief' = [belief EXCEPT ![c][u] = default]
    /\ wants' = wants \cup {<<c, u>>}
    /\ raced' = raced \ {<<c, u>>}
    /\ UNCHANGED <<lookup, entry, cmdQ, rpkiQ, draining, sendQ, dropped, changes>>

Delete(c, u) ==
    /\ requests < MaxRequests
    /\ <<c, u>> \in wants
    /\ requests' = requests + 1
    /\ recvQ' = Append(recvQ, [op |-> "delete", client |-> c, update |-> u,
                               default |-> Undefined, receipt |-> FALSE])
    /\ wants' = wants \ {<<c, u>>}
    /\ UNCHANGED <<lookup, entry, cmdQ, rpkiQ, draining, sendQ, belief, raced,
                   dropped, changes>>

-----------------------------------------------------------------------------
(* The receiver thread.                                                    *)

\* processValidationRequest up to the result getUpdateResult finds.  The reply
\* about a new update carries the proxy's own default.
Lookup ==
    /\ lookup = None
    /\ recvQ # <<>> /\ Head(recvQ).op = "verify"
    /\ LET pdu == Head(recvQ)
           i   == entry[pdu.update]
       IN  lookup' = [pdu |-> pdu, value |-> IF i.stored THEN i.result ELSE pdu.default]
    /\ recvQ' = Tail(recvQ)
    /\ UNCHANGED <<entry, cmdQ, rpkiQ, draining, sendQ, belief, wants, raced,
                   dropped, requests, changes>>

\* The rest of it: register, queue the reply, queue the command.  A proxy that
\* needs no reply to what was read, and is wrong by now, has lost a race.
Answer ==
    /\ lookup # None
    /\ LET pdu == lookup.pdu
           c   == pdu.client
           u   == pdu.update
           now == entry[u].result
       IN  /\ entry' = [entry EXCEPT ![u] = Joined(@, c)]
           /\ IF ReplyNeeded(pdu, lookup.value)
              THEN /\ sendQ' = Append(sendQ, [client |-> c, update |-> u,
                                              value |-> lookup.value])
                   /\ cmdQ' = Append(cmdQ, pdu)
                   /\ UNCHANGED raced
              ELSE /\ raced' = IF lookup.value # now THEN raced \cup {<<c, u>>} ELSE raced
                   /\ UNCHANGED <<sendQ, cmdQ>>
    /\ lookup' = None
    /\ dropped' = dropped \ {<<lookup.pdu.client, lookup.pdu.update>>}
    /\ UNCHANGED <<recvQ, rpkiQ, draining, belief, wants, requests, changes>>

\* A delete request is left to the command thread.
PassDelete ==
    /\ lookup = None
    /\ recvQ # <<>> /\ Head(recvQ).op = "delete"
    /\ cmdQ' = Append(cmdQ, Head(recvQ))
    /\ recvQ' = Tail(recvQ)
    /\ UNCHANGED <<lookup, entry, rpkiQ, draining, sendQ, belief, wants, raced,
                   dropped, requests, changes>>

-----------------------------------------------------------------------------
(* The command thread.                                                     *)

\* _processUpdateValidation: an update without a result gets one, and
\* modifyUpdateResult has it broadcast.
ProcessValidation ==
    /\ cmdQ # <<>> /\ Head(cmdQ).op = "verify"
    /\ LET u == Head(cmdQ).update IN
        IF entry[u].result = Undefined
        THEN \E v \in States : entry' = [entry EXCEPT ![u].result = v] /\ Broadcast(u, v)
        ELSE UNCHANGED <<entry, belief, raced>>
    /\ cmdQ' = Tail(cmdQ)
    /\ UNCHANGED <<recvQ, lookup, rpkiQ, draining, sendQ, wants, dropped, requests,
                   changes>>

\* _processDeleteUpdate.  The proxy may have asked for the update again, and
\* have been registered, since: then it loses its registration for good.  It
\* also loses the broadcasts that come before its request is answered.
ProcessDelete ==
    /\ cmdQ # <<>> /\ Head(cmdQ).op = "delete"
    /\ LET c == Head(cmdQ).client
           u == Head(cmdQ).update
       IN  /\ entry' = [entry EXCEPT ![u].clients = @ \ {c}]
           /\ raced' = IF Asking(c, u) THEN raced \cup {<<c, u>>} ELSE raced
           /\ dropped' = dropped \cup (wants \cap {<<c, u>>})
    /\ cmdQ' = Tail(cmdQ)
    /\ UNCHANGED <<recvQ, lookup, rpkiQ, draining, sendQ, belief, wants, requests, changes>>

-----------------------------------------------------------------------------
(* The RPKI thread.                                                        *)

\* Mutant: the change is stored and not queued.
ROAChange_Unqueued(u) ==
    /\ ~draining
    /\ entry[u].result # Undefined
    /\ changes < MaxChanges
    /\ changes' = changes + 1
    /\ \E v \in States : entry' = [entry EXCEPT ![u].result = v]
    /\ UNCHANGED <<recvQ, lookup, cmdQ, rpkiQ, draining, sendQ, belief, wants, raced,
                   dropped, requests>>

\* notifyUpdateCacheForROAChange: a ROA came or went and an update that was
\* validated has another result.  It is stored, the notification is put off.
ROAChange(u) ==
    /\ ~draining
    /\ entry[u].result # Undefined
    /\ changes < MaxChanges
    /\ changes' = changes + 1
    /\ \E v \in States : entry' = [entry EXCEPT ![u].result = v]
    /\ rpkiQ' = RqQueue(rpkiQ, u)
    /\ UNCHANGED <<recvQ, lookup, cmdQ, draining, sendQ, belief, wants, raced,
                   dropped, requests>>

\* handleEndOfData starts.
EndOfData ==
    /\ ~draining /\ rpkiQ # <<>>
    /\ draining' = TRUE
    /\ UNCHANGED <<recvQ, lookup, entry, cmdQ, rpkiQ, sendQ, belief, wants, raced,
                   dropped, requests, changes>>

\* One round of its loop: the result is read again and broadcast.
NotifyNext ==
    /\ draining
    /\ LET u == Head(rpkiQ) IN Broadcast(u, entry[u].result)
    /\ rpkiQ' = Tail(rpkiQ)
    /\ draining' = (Tail(rpkiQ) # <<>>)
    /\ UNCHANGED <<recvQ, lookup, entry, cmdQ, sendQ, wants, dropped, requests, changes>>

-----------------------------------------------------------------------------
(* The thread of the send queue.                                           *)

\* The proxy learns the result the reply was queued with.  If the update has
\* another one by now, the reply was overtaken, or will be corrected.  If the
\* proxy is not listed, but asked again after a deletion, the reply replaces the
\* default it asked with, which the server still takes for what it goes by.
Deliver ==
    /\ sendQ # <<>>
    /\ LET m == Head(sendQ)
           p == <<m.client, m.update>>
           i == entry[m.update]
       IN  /\ belief' = [belief EXCEPT ![m.client][m.update] = m.value]
           /\ raced' = IF m.value # i.result THEN raced \cup {p}
                       ELSE IF m.client \in i.clients THEN raced \ {p}
                       ELSE IF Asking(m.client, m.update) THEN raced \cup {p}
                       ELSE raced
    /\ sendQ' = Tail(sendQ)
    /\ UNCHANGED <<recvQ, lookup, entry, cmdQ, rpkiQ, draining, wants, dropped, requests,
                   changes>>

-----------------------------------------------------------------------------
ResultsInit ==
    /\ recvQ = <<>> /\ cmdQ = <<>> /\ rpkiQ = <<>> /\ sendQ = <<>>
    /\ lookup = None /\ draining = FALSE
    /\ entry = [u \in Updates |-> [stored |-> FALSE, result |-> Undefined, clients |-> {}]]
    /\ belief = [c \in Clients |-> [u \in Updates |-> Undefined]]
    /\ wants = {} /\ raced = {} /\ dropped = {}
    /\ requests = 0 /\ changes = 0

Proxies == \E c \in Clients, u \in Updates :
    \/ \E d \in Defaults, receipt \in BOOLEAN : Verify(c, u, d, receipt)
    \/ Delete(c, u)

ReceiverThread == Lookup \/ Answer \/ PassDelete
CommandThread  == ProcessValidation \/ ProcessDelete
RPKIThread     == EndOfData \/ NotifyNext \/ \E u \in Updates : ROAChange(u)

ResultsNext == Proxies \/ ReceiverThread \/ CommandThread \/ RPKIThread \/ Deliver

\* The threads that serve a queue run.  What the validation cache sends, and
\* when it ends its data, is not up to the server; that a loop once started
\* is finished is.
ResultsSpec ==
    /\ ResultsInit /\ [][ResultsNext]_vars
    /\ WF_vars(ReceiverThread) /\ WF_vars(CommandThread)
    /\ WF_vars(Deliver) /\ WF_vars(NotifyNext)

-----------------------------------------------------------------------------
(* Properties.                                                             *)

\* Every variable has its type, and the RPKI queue lists an update only once.
ResultsTypeOK ==
    /\ recvQ \in Seq(PDU) /\ cmdQ \in Seq(PDU) /\ sendQ \in Seq(Message)
    /\ lookup = None \/ lookup \in Lookups
    /\ entry \in [Updates -> Entry]
    /\ rpkiQ \in Seq(Updates) /\ IsInjective(rpkiQ)
    /\ draining \in BOOLEAN /\ (draining => rpkiQ # <<>>)
    /\ belief \in [Clients -> [Updates -> Results]]
    /\ wants \subseteq Pairs /\ raced \subseteq Pairs /\ dropped \subseteq Pairs
    /\ requests \in 0 .. MaxRequests /\ changes \in 0 .. MaxChanges

\* A listener that goes by another result than the cache has will hear again:
\* its request is still to be answered, a reply is queued, or the change waits
\* for the End of Data.  It stays wrong only if it lost one of four races since
\* it asked: a reply in the send queue was overtaken by a broadcast, a result
\* changed between the lookup and a registration that needed no reply, a reply
\* from before a deletion arrived after the next request, or a deletion was
\* processed after the next request and hid a broadcast from the proxy.
InformedUnlessRaced ==
    \A u \in Updates : \A c \in entry[u].clients :
        entry[u].result \notin {Undefined, belief[c][u]} =>
            \/ Asking(c, u)
            \/ Has(sendQ, c, u)
            \/ Contains(rpkiQ, u)
            \/ <<c, u>> \in raced

\* A proxy that asked about an update and did not delete it since is one of its
\* listeners, once its request was handled, unless a delete request it sent
\* earlier was processed after the registration.
RequestersListed ==
    \A p \in wants \ dropped : Asking(p[1], p[2]) \/ p[1] \in entry[p[2]].clients

\* Every update a receipt was requested for is validated in the end, whatever
\* default the proxy passed along and whoever else asked about it.
ValidationHappens ==
    \A u \in Updates :
        (\E i \in DOMAIN recvQ : recvQ[i].op = "verify" /\ recvQ[i].update = u /\ recvQ[i].receipt)
            ~> entry[u].result # Undefined

\* Nothing is queued or in progress.
Quiet ==
    /\ recvQ = <<>> /\ cmdQ = <<>> /\ rpkiQ = <<>> /\ sendQ = <<>>
    /\ lookup = None

-----------------------------------------------------------------------------
(* What one would expect and does not hold; README.md, section 7, has the    *)
(* constants under which TLC shows it.                                       *)

\* Once everything was handled, a proxy goes by the result the server has for
\* every update it asked about.
ProxiesInformed ==
    Quiet => \A p \in wants :
        entry[p[2]].result # Undefined => belief[p[1]][p[2]] = entry[p[2]].result
=============================================================================
