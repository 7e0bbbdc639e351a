---------------------------- MODULE RouterSession ----------------------------
(***************************************************************************)
(* The RPKI to Router session between the SRx server and a validation      *)
(* cache.                                                                  *)
(*   server/rpki_router_client.c  the client of the server: manageConnection *)
(*                                and receivePDUs                          *)
(*   server/rpki_handler.c        what the server does with a PDU          *)
(*   tools/rpkirtr_svr.c          the cache: console, timer and the threads *)
(*                                that serve its clients                   *)
(* RtrCache.tla has the list of the cache.  A router here is an SRx server *)
(* with the ROAs it holds; the versions of the protocol, the error reports *)
(* and the delays are left out.                                            *)
(*                                                                         *)
(* The read lock of the cache is held while an answer is sent, PDU by PDU, *)
(* so the list does not change then; but the serial may, and a Serial      *)
(* Notify is sent under the read lock as well and may come between two     *)
(* PDUs of an answer.                                                      *)
(***************************************************************************)
EXTENDS RtrCache

CONSTANTS
    Routers,        \* the servers connected to the cache
    SessionIDs,     \* the session IDs of the cache, in increasing order
    HasCallback,    \* whether the server sets sessionIDChangedCallback
    Disturbances,   \* what happens besides add and remove: commands and losses
    MaxDisturbances, \* bound: how often it happens
    MaxQueries,     \* bound: queries on the way to the cache on a connection
    NoPDU           \* lastRecv before the first PDU

ASSUME SessionAssumption ==
    /\ SessionIDs \subseteq Nat /\ 0 \in SessionIDs
    /\ HasCallback \in BOOLEAN
    /\ Disturbances \subseteq {"notify", "session", "restart", "loss", "alarm"}
    /\ MaxDisturbances \in Nat /\ MaxQueries \in Nat \ {0}

VARIABLES
    sessionID,      \* of the cache
    notify,         \* service.notify: the timer has a change to announce
    stuck,          \* the console waits for a lock it holds, and the timer with it
    conn,           \* the routers that are connected
    queries,        \* PDUs on the way to the cache
    sending,        \* what is left to send of the answer to a router
    pdus,           \* PDUs on the way to the router
    at,             \* where manageConnection is
    client,         \* the fields of RPKIRouterClient
    held,           \* how many copies of each ROA the server holds
    repeated,       \* history: the router asked for what it had or had asked for
    ahead,          \* history: the router was sent data before the serial was advanced
    restarted,      \* history: the cache was started anew, and its serials with it
    disturbances

netVars == <<conn, queries, sending, pdus>>
rtrVars == <<at, client, held, repeated>>
otherVars == <<stuck, ahead, restarted, disturbances>>
vars == <<cacheVars, sessionID, notify, netVars, rtrVars, otherVars>>

Client == [lastRecv : {NoPDU, "notify", "response", "prefix", "end", "reset"},
           sid : SessionIDs \cup {NoPDU}, startup : BOOLEAN, changed : BOOLEAN,
           serial : 0 .. UINT32_MAX]
Query  == [type : {"serial", "reset"}, sid : SessionIDs \cup {NoPDU}, serial : 0 .. UINT32_MAX]

\* What is on the way to a router.
PDU == [type : {"response", "notify"}, sid : SessionIDs]
         \cup [type : {"prefix"}, roa : Roas, ann : BOOLEAN]
         \cup [type : {"end"}, sid : SessionIDs, serial : 0 .. UINT32_MAX]
         \cup [type : {"reset"}]

\* What is left to send of an answer; the session and the serial are those of the
\* moment when the PDU is sent.
Part == [type : {"response", "end", "reset"}] \cup [type : {"prefix"}, roa : Roas, ann : BOOLEAN]

\* How often the cache announces a ROA.
Copies(r) == Cardinality({e \in entries : e.ann /\ e.roa = r})

-----------------------------------------------------------------------------
(* The cache.                                                              *)

\* Nobody holds the read lock of the list.
Unlocked == \A c \in Routers : sending[c] = <<>>

\* The objects of an answer, in the order of the list.
InListOrder(nodes) ==
    CHOOSE s \in [1 .. Cardinality(nodes) -> nodes] :
        \A i, j \in DOMAIN s : i < j => s[i].pos < s[j].pos

Prefix(e) == [type |-> "prefix", roa |-> e.roa, ann |-> e.ann]

\* Mutant: off by one, the first change after the serial is not sent.
Answer_OffByOne(isReset, serial) ==
    LET list == InListOrder(Objects(isReset, serial + 1)) IN
    <<[type |-> "response"]>> \o [i \in 1 .. Len(list) |-> Prefix(list[i])]
        \o <<[type |-> "end"]>>

\* sendCacheObjects: Cache Response, the objects, End of Data.
Answer(isReset, serial) ==
    LET list == InListOrder(Objects(isReset, serial)) IN
    <<[type |-> "response"]>> \o [i \in 1 .. Len(list) |-> Prefix(list[i])]
        \o <<[type |-> "end"]>>

\* handleClient and sendCacheObjects.  A query for another session is dropped
\* without an answer, one that cannot be served is answered with Cache Reset.
HandleQuery(c) ==
    /\ queries[c] # <<>> /\ sending[c] = <<>>
    /\ LET q == Head(queries[c]) IN
        /\ notify' = FALSE
        /\ sending' = [sending EXCEPT ![c] =
              IF q.type = "reset" THEN Answer(TRUE, 0)
              ELSE IF q.sid # sessionID THEN <<>>
              ELSE IF checkSerial(minPSExpired, maxSExpired, q.serial)
                   THEN <<[type |-> "reset"]>>
              ELSE Answer(FALSE, q.serial)]
    /\ queries' = [queries EXCEPT ![c] = Tail(@)]
    /\ UNCHANGED <<cacheVars, sessionID, conn, pdus, rtrVars, otherVars>>

\* sendCacheResponse, sendPDUWithSerial and the others: the PDU of a part.
Written(part) ==
    IF part.type = "response" THEN [type |-> "response", sid |-> sessionID]
    ELSE IF part.type = "end" THEN [type |-> "end", sid |-> sessionID, serial |-> maxSerial]
    ELSE part

\* One PDU of an answer is written to the socket.
Send(c) ==
    /\ sending[c] # <<>>
    /\ pdus' = [pdus EXCEPT ![c] = IF c \in conn THEN Append(@, Written(Head(sending[c]))) ELSE @]
    /\ sending' = [sending EXCEPT ![c] = Tail(@)]
    /\ ahead' = IF Head(sending[c]).type = "end" /\ Uncounted
                THEN ahead \cup {c} ELSE ahead
    /\ UNCHANGED <<cacheVars, sessionID, notify, conn, queries, rtrVars,
                   stuck, restarted, disturbances>>

\* sendSerialNotifyToAllClients, sendCacheResetToAllClients
ToAll(pdu) == pdus' = [c \in Routers |-> IF c \in conn THEN Append(pdus[c], pdu) ELSE pdus[c]]
NotifyPDU(sid) == [type |-> "notify", sid |-> sid]

\* append, in its three parts, and remove, which leave the notification to the
\* timer.  The operator does not append what is announced already.
Change ==
    /\ ~stuck
    /\ \/ appendPrefixData /\ (\E r \in Roas : Copies(r) = 0)
       \/ advanceSerial
       \/ Unlocked /\ (Read \/ Remove)
    /\ \A r \in Roas : Copies(r)' <= 1
    /\ notify' = (notify \/ maxSerial' # maxSerial)
    /\ UNCHANGED <<sessionID, netVars, rtrVars, otherVars>>

\* Mutant: the notification is withdrawn and not sent.
Timer_Silent ==
    /\ ~stuck /\ Unlocked
    /\ Expire \/ UNCHANGED cacheVars
    /\ notify' = FALSE
    /\ UNCHANGED <<sessionID, netVars, rtrVars, otherVars>>

\* serviceTimerExpired: old withdrawals are deleted, changes are announced.
Timer ==
    /\ ~stuck /\ Unlocked
    /\ Expire \/ UNCHANGED cacheVars
    /\ notify' = FALSE
    /\ IF notify THEN ToAll(NotifyPDU(sessionID)) ELSE UNCHANGED pdus
    /\ UNCHANGED <<sessionID, conn, queries, sending, rtrVars, otherVars>>

\* Something of the operator or the network that MaxDisturbances counts.
Disturb(name) ==
    /\ name \in Disturbances /\ disturbances < MaxDisturbances
    /\ disturbances' = disturbances + 1
    /\ restarted' = (restarted \/ name = "restart")
    /\ UNCHANGED ahead

\* A command besides append and remove.
Command(name) == Disturb(name) /\ ~stuck /\ console.at = "idle" /\ UNCHANGED stuck

\* The alarm of the timer comes while the console, which handles it, holds the
\* read lock, as it does in many of its commands: neither goes on.
Alarm ==
    /\ Disturb("alarm") /\ ~stuck /\ console.at # "append"
    /\ stuck' = TRUE
    /\ UNCHANGED <<cacheVars, sessionID, notify, netVars, rtrVars>>

\* The command 'notify', which is also how addNow and removeNow end.
NotifyNow ==
    /\ Command("notify")
    /\ ToAll(NotifyPDU(sessionID))
    /\ UNCHANGED <<cacheVars, sessionID, notify, conn, queries, sending, rtrVars>>

\* processSessionID
NewSession(sid) ==
    /\ Command("session")
    /\ sid > sessionID
    /\ sessionID' = sid
    /\ ToAll(NotifyPDU(sid))
    /\ UNCHANGED <<cacheVars, notify, conn, queries, sending, rtrVars>>

\* The cache is started anew, with the session ID its script sets.
Restart(sid) ==
    /\ Disturb("restart")
    /\ entries' = {} /\ maxSerial' = 0 /\ UNCHANGED tail
    /\ minPSExpired' = UINT32_MAX /\ maxSExpired' = 0
    /\ past' = [s \in 0 .. MaxSerial |-> IF s = 0 THEN {{}} ELSE {}]
    /\ early' = [s \in 0 .. MaxSerial |-> {}] /\ UNCHANGED <<mishap, fell>>
    /\ console' = Idle /\ stuck' = FALSE
    /\ sessionID' = sid /\ notify' = FALSE
    /\ conn' = {}
    /\ queries' = [c \in Routers |-> <<>>] /\ sending' = [c \in Routers |-> <<>>]
    /\ \E some \in SUBSET Routers :
          pdus' = [c \in Routers |-> IF c \in some THEN pdus[c] ELSE <<>>]
    /\ UNCHANGED rtrVars

\* A connection breaks.  What arrived before can still be read.
Lose(c) ==
    /\ c \in conn /\ Disturb("loss") /\ UNCHANGED stuck
    /\ conn' = conn \ {c}
    /\ queries' = [queries EXCEPT ![c] = <<>>]
    /\ sending' = [sending EXCEPT ![c] = <<>>]
    /\ \E n \in 0 .. Len(pdus[c]) : pdus' = [pdus EXCEPT ![c] = SubSeq(@, 1, n)]
    /\ UNCHANGED <<cacheVars, sessionID, notify, rtrVars>>

-----------------------------------------------------------------------------
(* The client.                                                             *)

\* The router has, or is about to get, what it asks for.
Repeats(c, type) ==
    \/ queries[c] # <<>> \/ sending[c] # <<>>
    \/ \E i \in DOMAIN pdus[c] : pdus[c][i].type \in {"response", "prefix", "end"}
    \/ type = "reset" /\ \E r \in Roas : held[c][r] > 0

\* sendResetQuery, sendSerialQuery
Ask(c, type, k) ==
    /\ Len(queries[c]) < MaxQueries
    /\ queries' = [queries EXCEPT ![c] = IF c \in conn
            THEN Append(@, [type |-> type, sid |-> k.sid, serial |-> k.serial]) ELSE @]
    /\ repeated' = IF Repeats(c, type) THEN repeated \cup {c} ELSE repeated

\* checkSessionID: the first one is adopted, another one is noted.
Checked(k, sid) ==
    IF k.startup THEN [k EXCEPT !.startup = FALSE, !.sid = sid, !.changed = FALSE]
    ELSE [k EXCEPT !.changed = @ \/ k.sid # sid]

SameSession(k, sid) == k.startup \/ k.sid = sid

\* Mutant: withdrawals are not processed.
Hold_NoWithdrawal(c, p) ==
    held' = [held EXCEPT ![c][p.roa] = IF p.ann THEN @ + 1 ELSE @]

\* handlePrefix of rpki_handler.c
Hold(c, p) == held' = [held EXCEPT ![c][p.roa] = IF p.ann THEN @ + 1 ELSE IF @ = 0 THEN 0 ELSE @ - 1]

\* One round of receivePDUs.  Afterwards the client is at go, or at halt if the
\* PDU ends the loop; onEnd is where an End of Data takes it.
Receive(c, go, halt, onEnd) ==
    LET p == Head(pdus[c])
        k == [client[c] EXCEPT !.lastRecv = p.type]
        Next_(x, place) == /\ client' = [client EXCEPT ![c] = x]
                           /\ at' = [at EXCEPT ![c] = place]
    IN
    /\ pdus[c] # <<>>
    /\ pdus' = [pdus EXCEPT ![c] = Tail(@)]
    /\ \/ /\ p.type = "notify"
          /\ LET x == Checked(k, p.sid) IN
             IF SameSession(k, p.sid)
             THEN Next_(x, go) /\ Ask(c, "serial", x)
             ELSE Next_(x, halt) /\ UNCHANGED <<queries, repeated>>
          /\ UNCHANGED held
       \/ /\ p.type = "response"
          /\ Next_(Checked(k, p.sid),
                   IF SameSession(k, p.sid) THEN go ELSE IF HasCallback THEN halt ELSE "crashed")
          /\ UNCHANGED <<queries, held, repeated>>
       \/ /\ p.type = "prefix"
          /\ Hold(c, p)
          /\ Next_(k, go)
          /\ UNCHANGED <<queries, repeated>>
       \/ /\ p.type = "end"
          /\ LET x == Checked(k, p.sid) IN
             IF SameSession(k, p.sid)
             THEN Next_([x EXCEPT !.serial = p.serial], onEnd)
             ELSE Next_(x, halt)
          /\ UNCHANGED <<queries, held, repeated>>
       \/ /\ p.type = "reset"
          /\ Ask(c, "reset", k)
          /\ Next_(k, go)
          /\ UNCHANGED held
    /\ UNCHANGED <<cacheVars, sessionID, notify, conn, sending, otherVars>>

\* Nothing is left to read and nothing will come.
Lost(c) == c \notin conn /\ pdus[c] = <<>>

Goes(c, from, to) ==
    /\ at[c] = from
    /\ at' = [at EXCEPT ![c] = to]
    /\ UNCHANGED <<cacheVars, sessionID, notify, netVars, held, otherVars>>

\* Mutant: a client that has data asks for what changed since.
Start_Serial(c) ==
    \/ /\ at[c] = "start"
       /\ Ask(c, IF client[c].serial = 0 THEN "reset" ELSE "serial", client[c])
       /\ at' = [at EXCEPT ![c] = "first"]
       /\ UNCHANGED <<cacheVars, sessionID, notify, conn, sending, pdus, client, held,
                      otherVars>>
    \/ c \notin conn /\ Goes(c, "start", "lost") /\ UNCHANGED <<client, repeated>>

\* The head of the loop: every connection starts with a Reset Query.  The write
\* to a broken connection may fail or not.
Start(c) ==
    \/ /\ at[c] = "start"
       /\ Ask(c, "reset", client[c])
       /\ at' = [at EXCEPT ![c] = "first"]
       /\ UNCHANGED <<cacheVars, sessionID, notify, conn, sending, pdus, client, held,
                      otherVars>>
    \/ c \notin conn /\ Goes(c, "start", "lost") /\ UNCHANGED <<client, repeated>>

\* What manageConnection does by the type of the last PDU, be it from this
\* connection or not.
Decided(type) == IF type = "response" THEN "receive" ELSE "stopped"

\* The single poll, and what follows from the PDU.
First(c) ==
    /\ at[c] = "first"
    /\ \/ LET next == Decided(Head(pdus[c]).type) IN Receive(c, next, next, next)
       \/ Lost(c) /\ Goes(c, "first", Decided(client[c].lastRecv))
                  /\ UNCHANGED <<client, repeated>>

\* The loop that processes data until the connection or the session ends.
Loop(c) ==
    /\ at[c] = "receive"
    /\ \/ Receive(c, "receive", "lost", "receive")
       \/ Lost(c) /\ Goes(c, "receive", "lost") /\ UNCHANGED <<client, repeated>>

\* connectionCallback, reconnectToServer.  A changed session is begun anew, and
\* its data is asked for once more than that of others.
Reconnect(c) ==
    LET changed == client[c].changed IN
    /\ at[c] = "lost"
    /\ conn' = conn \cup {c}
    /\ client' = [client EXCEPT ![c].startup = @ \/ changed]
    /\ queries' = [queries EXCEPT ![c] =
          IF changed THEN <<[type |-> "reset", sid |-> client[c].sid,
                             serial |-> client[c].serial]>>
          ELSE <<>>]
    /\ repeated' = IF changed /\ (\E r \in Roas : held[c][r] > 0)
                   THEN repeated \cup {c} ELSE repeated
    /\ sending' = [sending EXCEPT ![c] = <<>>]
    /\ pdus' = [pdus EXCEPT ![c] = <<>>]
    /\ at' = [at EXCEPT ![c] = IF changed THEN "reload" ELSE "start"]
    /\ UNCHANGED <<cacheVars, sessionID, notify, held, otherVars>>

\* The data of a changed session, up to End of Data.
Reload(c) ==
    /\ at[c] = "reload"
    /\ \/ Receive(c, "reload", "start", "start")
       \/ Lost(c) /\ Goes(c, "reload", "start") /\ UNCHANGED <<client, repeated>>

-----------------------------------------------------------------------------
\* createRPKIRouterClient: the socket is connected before the thread starts.
SessionInit ==
    /\ CacheInit
    /\ sessionID = 0 /\ notify = FALSE /\ stuck = FALSE
    /\ conn = Routers
    /\ queries = [c \in Routers |-> <<>>] /\ sending = [c \in Routers |-> <<>>]
    /\ pdus = [c \in Routers |-> <<>>]
    /\ at = [c \in Routers |-> "start"]
    /\ client = [c \in Routers |-> [lastRecv |-> NoPDU, sid |-> NoPDU, startup |-> TRUE,
                                    changed |-> FALSE, serial |-> 0]]
    /\ held = [c \in Routers |-> [r \in Roas |-> 0]]
    /\ repeated = {} /\ ahead = {} /\ restarted = FALSE
    /\ disturbances = 0

Router(c) == Start(c) \/ First(c) \/ Loop(c) \/ Reconnect(c) \/ Reload(c)
Serve(c)  == HandleQuery(c) \/ Send(c)

Operator ==
    \/ Change \/ NotifyNow
    \/ \E sid \in SessionIDs : NewSession(sid) \/ Restart(sid)

SessionNext ==
    \/ Operator \/ Timer \/ Alarm
    \/ \E c \in Routers : Router(c) \/ Serve(c) \/ Lose(c)

\* The thread of the client and those of the cache run, an append comes to its
\* end, and the timer fires.  The operator need not do anything, nor need a
\* connection break.
SessionSpec ==
    /\ SessionInit /\ [][SessionNext]_vars
    /\ WF_vars(Timer) /\ WF_vars(console.at # "idle" /\ Change)
    /\ \A c \in Routers : WF_vars(Router(c)) /\ WF_vars(Serve(c))

-----------------------------------------------------------------------------
(* Properties.                                                             *)

\* Every variable has its type.
SessionTypeOK ==
    /\ sessionID \in SessionIDs /\ notify \in BOOLEAN /\ restarted \in BOOLEAN
    /\ stuck \in BOOLEAN /\ ahead \subseteq Routers
    /\ conn \subseteq Routers /\ repeated \subseteq Routers
    /\ queries \in [Routers -> Seq(Query)]
    /\ sending \in [Routers -> Seq(Part)] /\ pdus \in [Routers -> Seq(PDU)]
    /\ \A c \in Routers : Len(queries[c]) <= MaxQueries
    /\ at \in [Routers -> {"start", "first", "receive", "lost", "reload", "stopped", "crashed"}]
    /\ client \in [Routers -> Client]
    /\ held \in [Routers -> [Roas -> Nat]]

\* The router is connected and has processed all the cache sent it.
AtRest(c) ==
    /\ c \in conn /\ at[c] = "receive" /\ client[c].lastRecv = "end"
    /\ queries[c] = <<>> /\ sending[c] = <<>> /\ pdus[c] = <<>>

\* The router goes by the current data of the cache.
Current(c) == AtRest(c) /\ client[c].sid = sessionID /\ client[c].serial = maxSerial

\* A server that has processed the End of Data of the current serial holds every
\* ROA of the cache, whatever was lost or repeated before, unless the
\* cache set its serial back.  (A cache that is restarted gives out its serials
\* again, and a server that asks while it is being answered, or was answered too
\* early, may then ask with one of the time before.)
NothingLacking ==
    fell \/ Uncounted \/ \A c \in Routers :
        Current(c) /\ ~(restarted /\ c \in repeated \cup ahead) =>
            \A r \in Roas : Copies(r) > 0 => held[c][r] > 0

\* It holds each ROA as often as the cache announces it, unless it asked for
\* data it had already, or asked again before it was answered, or was answered
\* in the middle of an append, or the timer deleted entries in the middle of one.
ExactUnlessRepeated ==
    mishap \/ Uncounted \/ \A c \in Routers \ (repeated \cup ahead) : Current(c) =>
        \A r \in Roas : held[c][r] = Copies(r)

\* What the cache announces reaches the router in the end, unless the client
\* has given up or the cache is stuck.  (It holds for one server: the query of
\* one withdraws the notification of all.)
LearnsAll ==
    \A c \in Routers : <>[](Current(c) \/ at[c] \in {"stopped", "crashed"} \/ stuck)

-----------------------------------------------------------------------------
(* What one would expect and does not hold; README.md, section 7, has the    *)
(* constants under which TLC shows it.                                       *)

\* A client whose connection is lost tries to reconnect, and never gives up.
KeepsTrying == \A c \in Routers : at[c] # "stopped"

\* A new session ID of the cache does not end the server.
SurvivesNewSession == \A c \in Routers : at[c] # "crashed"

\* Once the data of a new session is loaded, what is left of the old is gone.
StaleRemoved ==
    \A c \in Routers : Current(c) => \A r \in Roas : held[c][r] > 0 => Copies(r) > 0

\* A server that never asked twice holds each ROA once, also if it was answered
\* in the middle of an append.
ExactWhenever ==
    mishap \/ Uncounted \/ \A c \in Routers \ repeated : Current(c) =>
        \A r \in Roas : held[c][r] = Copies(r)

\* The server lacks nothing, also if entries were deleted in the middle of an append.
NothingEverLacking ==
    Uncounted \/ \A c \in Routers : Current(c) /\ ~(restarted /\ c \in repeated) =>
        \A r \in Roas : Copies(r) > 0 => held[c][r] > 0
=============================================================================
