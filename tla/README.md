# The SRx server in TLA+

SRx adds origin, path (BGPsec) and ASPA validation to a BGP router. A router
contains a *proxy* (`client/srx_api.c`) that sends the updates it receives to
the *SRx server*; the server validates them against data it obtains from an
RPKI *validation cache*, answers, and notifies the proxies again whenever a
result changes.

The repository holds several generations of this code. This project describes
the newest, `src/srx_grpc_v6/srx-server/src` (paths below are relative to it),
compiled without `USE_GRPC` and run in its default mode: TCP connections, the
receiver queue and the send queue enabled, one command thread.
`src/srx`, `src/qsrx`, `src/client` and `src/server` are older copies;
`src/srx_grpc_v6/quagga-srx` is Quagga with the client patched in, of which only
the functions that drive the client are modelled.

Contents: 1 inventory, 2 modules, 3 runs, 4 fairness, 5 proofs, 6 what is only
checked and what is not modelled, 7 disagreements found, 8 plan.

## 1. Inventory

| component | state | operations | interacts with |
|---|---|---|---|
| proxy map (`server_connection_handler.c`) | `proxyMap[256]`, `noMappings` | `findClientID`, `createClientID`, `addMapping`, `deactivateConnectionMapping` | handshake, end of a session, broadcast |
| connections (`util/server_socket.c`, `packet.c`) | one `ClientThread` per connection, list of clients | accept, receive, clean-up, close | hands PDUs to the connection handler, reports the end of a connection |
| connection handler (same file as the map) | receiver queue | `_handlePacket`, `processValidationRequest`, `handleStatusChange` | update cache, command queue, send queue |
| command handler (`command_handler.c`, `command_queue.c`) | command queue | handshake, goodbye, validation, delete, `broadcastResult` | proxy map, update cache, prefix cache |
| update cache (`update_cache.c`) | hash table and list of entries: results, defaults, array of clients, GC flag | `storeUpdate`, `getUpdateResult`, `modifyUpdateResult`, `deleteUpdateFromCache`, `unregisterClientID` | calls back `broadcastResult` when a result changes |
| prefix cache (`prefix_cache.c`) | patricia tree of prefixes, white-list entries (ROAs), updates, counters | `requestUpdateValidation`, `addROAwl`, `delROAwl` | stores results in the update cache |
| RPKI handler and queue (`rpki_handler.c`, `rpki_queue.c`) | updates whose result may have changed since the last End of Data | `handlePrefix`, `handleRouterKey`, `handleAspaPdu`, `handleEndOfData`, `rq_queue`, `rq_dequeue` | prefix cache, SKI cache, ASPA database, update cache, broadcast |
| send queue (`srx_packet_sender.c`) | PDUs to be sent | `addToSendQueue`, `sendQueueThreadLoop` | connections |
| RPKI to Router client (`rpki_router_client.c`) | session and serial number | queries, refresh, reconnect | RPKI handler |
| validation cache (`tools/rpkirtr_svr.c`) | list of objects with serials, session, clients | console commands, expiry, answers, notifications | RPKI to Router clients |
| SKI cache (`ski_cache.c`) | which update needs which router key, how many keys there are | register and unregister updates and keys | update cache, RPKI queue |
| BGPsec (`bgpsec_handler.c`, plug-in `bgpsec_openssl`) | public keys by AS and SKI | store, delete, `validate` | RPKI handler, command handler |
| ASPA (`aspa_trie.c`, `aspath_cache.c`) | ASPA objects, paths with their results | `validateASPA`, End of Data walk | update cache, RPKI queue |
| client API (`client/`, `util/client_socket.c`; `bgp_route.c` and `bgpd.c` of the router) | connection of a proxy, two copies of its descriptor, send queue; read thread and retry timer of the router | connect, handshake, verify, delete, reconnect, give up | server, the other descriptors of the router |
| gRPC service (`grpc_service.c`, Go code) | - | the same handlers, called from Go | all of the above |

Threads of the server: the accept loop; one client thread per connection; the
receiver thread; the command thread; the thread of the send queue; the RPKI
thread. What is hard about this code lies between them:

* **Two ways for one connection.** A PDU travels from the client thread through
  the receiver queue and the command queue; the end of the connection is acted
  upon by the client thread at once. GOODBYE and HELLO therefore meet a state
  that may have moved on.
* **Four writers to one connection.** Replies take the send queue, broadcasts
  do not; ROA changes are stored at once and announced after End of Data.
* **Counters instead of searches.** `noMappings`, `updateCount`,
  `noPossibleClients`, `roa_coverage`, `roa_match` and `update_count` each
  decide where a walk stops, so each must be right after every sequence of
  operations.
* **Two records of one thing.** The SKI cache and the key storage count the
  same keys; the update and its path both have an ASPA result; cache and server
  both keep serials. Each pair is changed by different calls.
* **Two locks in two orders** in the update cache.
* **Locks that are given up in between.** `changeReadToWriteLock` unlocks before
  it locks. What the validation cache counted before an append need not be so
  after it, and its answers may go out between the two.
* **Lists with shortcuts.** Whoever has no predecessor is the head, and a key of
  the storage that was not given one is taken for it.
* **Three owners of one descriptor.** The library, the router and the router's
  read threads each keep the number of the connection and forget it at different
  times; the operating system gives the number to whoever opens the next file.

What makes each component correct: the map is a partial injection and a proxy
that crashed finds its ID again; a session that ended leaves nothing behind and
a session that lasts keeps its notifications; an entry of the update cache has
exactly the clients that registered; the result of an update is its RFC 6811
state for the ROAs in force, its ASPA result the verdict on its path, its BGPsec
result that of the keys there are; a listener with an outdated result hears
again; every update is validated; the server comes to hold what the validation
cache announces; a router that lost its connection comes back and touches no
descriptor of others on the way; no thread waits for ever. `PROJECT.json` lists the
hazards line by line, with the property that would catch each.

## 2. Modules

| module | models | state | actions |
|---|---|---|---|
| `ProxyDirectory` | abstract: proxies and client IDs as a partial injection | `clientOf`, `session` | `Admit`, `Leave` |
| `ProxyMap` | the array, its scans and its counter | `proxyMap`, `added` | `Register` (handshake: lookup or new ID, `addMapping`), `deactivateConnectionMapping` |
| `ClientSessions` (extends `ProxyMap`) | connections, client threads, receiver and command thread, registrations | `peer`, `stream`, `thread`, `recvQ`, `cmdQ`, `item`, `updateCount` | one per PDU and thread: `Receive`, `Cleanup`, `HandleHello` ... `HandleUnknown`, `AcceptHello`, `RefuseHello`, `ProcessGoodbye`, `ProcessDelete`; the proxies: `Connect`, `Request`, `Leave` |
| `ListenerSet` | abstract: the clients of an update as a set | `listeners`, `collectable` | `Join`, `Quit` |
| `UpdateClients` | the array of clients of one entry | `clients`, `gcFlag`, `updateCount` | `addClientReference`, `deleteUpdateFromCache` |
| `OriginValidation` | abstract: RFC 6811 states for the ROAs in force | `copies`, `verdict` | `Request`, `Announce`, `Withdraw` |
| `PrefixCache` | the tree with its counters and pruned walks | `nodes`, `entry`, `roa`, `update`, `result`, `crashed` | `requestUpdateValidation` (new, known or NULL node), `addROAwl`, `delROAwl` |
| `UpdateResults` | how results reach proxies, through four threads | `recvQ`, `lookup`, `entry`, `cmdQ`, `rpkiQ`, `draining`, `sendQ`, `belief`, ... | `Lookup`, `Answer`, `PassDelete`; `ProcessValidation`, `ProcessDelete`; `ROAChange`, `EndOfData`, `NotifyNext`; `Deliver`; the proxies: `Verify`, `Delete` |
| `CacheLocks` | `tableLock` and `itemMutex` | `todo`, `readers`, `writer`, `owner` | `Call`, `Step` |
| `RtrCache` | the list of the validation cache and the answers to queries | `entries`, `maxSerial`, `console`, `minPSExpired`, `maxSExpired`; `past`, `early`, `mishap`, `fell` | `appendPrefixData`, `Read` (the lines of a file or the console, good or bad), `advanceSerial`; `Remove`, `Expire`, `Empty` |
| `RouterSession` (extends `RtrCache`) | the session between that cache and SRx servers | `queries`, `sending`, `pdus`, `at`, `client`, `held`, `stuck`, ... | the cache: `HandleQuery`, `Send`, `Change`, `Timer`, `Alarm`, `NotifyNow`, `NewSession`, `Restart`; the network: `Lose`; the client: `Start`, `First`, `Loop`, `Reconnect`, `Reload` |
| `AspaValidation` | `validateASPA`, and what a valley-free path is | none: operators | - |
| `AspaDatabase` | the trie of ASPA objects by the digits of the AS | `nodes`, `aspaObjects`, `countAspaObj`, `announced` | `AnnouncePdu`, `WithdrawPdu` |
| `AspaPaths` (extends both) | paths validated with the trie | | |
| `AspaResults` | the ASPA results of updates and paths, and the three threads that set them | `known`, `entry`, `recv`, `cmd`, `walk`, `rpkiQ`, `told`, ... | `Look`, `Register`; `CommandStart`, `CommandStore`; `Pdu`, `EndOfData`, `WalkRead`, `WalkWrite`, `Dequeue`, `Processed`; `Tick` |
| `RouterKeys` | SKI cache, key storage, BGPsec results | `store`, `list`, `keyCount`, `regs`, `stored`, `listeners`, `result`, `rpkiQ`, `told`, ... | `AnnounceKey`, `WithdrawKey`, `EndOfData`, `NotifyNext`; `RequestNew`, `RequestKnown`; `CommandStart`, `CommandStore`, `DeleteUpdate`; `EndSession` |
| `ProxyClient` | a router's connection to the server: the client API and the functions of bgpd that drive it | `fds`, `lib`, `thr`, `mode`, `net`, `mishaps`, ... | the router: `Connect`, `checkClientConnection`, `HandshakeRead`, `HandshakeAlarm`, `respawnReceivePacket`, `verifyUpdate`, `SelectFails`; other parts of it: `OtherOpens`, `OtherCloses`; server and network: `Serve`, `Notify`, `SeesEnd`, `Cut`, `ServerStops`, `ServerStarts` |
| `ClientSessionsProofs`, `UpdateCacheProofs`, `RouterSessionProofs`, `AspaPathsProofs`, `AspaResultsProofs`, `RouterKeysProofs`, `PrefixCacheProofs`, `ProxyClientProofs` | theorems | | |
| `MC...` | values of the constants for TLC | | |

Correspondence, where it is not one to one:

* **Counters.** The code never decrements the one-byte `noMappings`. `added`
  counts the same events without wrapping and `noMappings` is its value modulo
  `CounterSize`. The proofs need to speak about the true number.
* **Connections** stand for their `ClientThread` and are used once; a proxy
  that comes back opens another.
* **Walks** through the tree of prefixes are given in closed form: the set of
  prefixes a walk reaches, given where it is pruned. Without that, the module
  would repeat the C code; with it, the pruning conditions, which are what can
  be wrong, stand out. A `PC_AS` exists exactly if it has updates or ROAs and is
  not a variable. When a ROA is withdrawn, `update_count` may end the walk
  early; which updates are missed then depends on the order of lists and is
  left open.
* **`lookup`** in `UpdateResults` is the local variable of
  `processValidationRequest` between reading the result and registering the
  client: the only place where that module splits a handler.
* **`raced` and `dropped`** in `UpdateResults` are history variables: the pairs of
  a proxy and an update that lost one of four races and did not hear since, and
  those whose registration a delayed deletion took away. No action reads them.
* **An append of the validation cache** is three steps: `appendPrefixData` counts
  the list under the read lock, `readPrefixData` writes to it under the write
  lock, `advanceSerial` counts again under the read lock and raises the serial.
  `changeReadToWriteLock` and `changeWriteToReadLock` (`util/rwlock.c:80-94`) give
  the lock up in between, so that the timer may expire entries in both gaps and
  answers go out in the second (`Uncounted`) or in the middle of the third. The
  three `append...Data` functions are alike and one operator.
* **`past`, `early`, `mishap` and `fell`** in `RtrCache` are history variables:
  the sets of objects a router may hold that was served under a serial, after
  an append had raised it and before; whether a file was loaded in part, the list
  emptied or an entry expired while an append counted; and whether the serial
  was set back by that. `restarted`, `repeated` and `ahead` in `RouterSession`, `raced` and `fresh` in `AspaResults` and `missed` in
  `RouterKeys` name, in the same way, the circumstances under which the code
  gives up a promise. No action reads them. `mishaps` in `ProxyClient` is of the
  same kind: the troubles after which a promise is off, and the harm done to
  descriptors of others.
* **One router, one thread.** bgpd runs its "threads" one after the other. In
  `ProxyClient` a function that runs to its end is one step and an operator from
  one state of the router to the next; only where it waits (`mode`: a handshake,
  a read) is it divided. Descriptors are numbers of a table, given out the lowest
  first, so that a number that is kept too long comes to mean something else. A
  pointer to a thread that runs or ran already is `Stale`: cancelling it cancels
  the timer that may use its memory now, or nothing.
* **The read lock of the cache** is held while an answer is sent. In
  `RouterSession` the list therefore does not change while `sending` is not
  empty. The serial may, because an append raises it under a read lock too: an
  End of Data (`Written`) has the serial of the moment when it is sent. And a
  Serial Notify may come between two PDUs of an answer.
* **`Alarm`.** The timer's signal is handled by the console's thread. If it comes
  while that thread holds the read lock, `serviceTimerExpired` waits for a lock its
  own thread holds (`timer.c:117-147`, `rpkirtr_svr.c:3153-3160`): `stuck`.
* **The trie** is the set of the digit strings that have a node; an object is a
  record at such a string. The loops of `validateASPA` are functions over the
  hops of a path.
* **`known`** in `AspaResults` is an entry of the path cache. All threads copy
  an entry, compare and write back without a lock around the three, so each
  handler is split where it works on its copy. `Validation` has both values a
  validation of a path ends with: the verdict, for the path, and what the update
  is given, which is the path's old result unless that is undefined. A path with
  an AS_SET is not modelled; its branches lead to the same modification.
* **The buckets of the key storage** are in `list`: the elements the head leads to,
  in order. An element is `linked` if it has the pointer to the one before. One
  that has not is taken for the head, and what stands before it is lost
  (`LedTo`, `Missing`). The pointers behind that nobody follows are left out.
* **Signatures.** `Signer` in `RouterKeys` names the key a signature was made
  with; `Verified` is what `validate` finds out with the keys in the order of
  the storage. An element of the SKI cache that has neither keys nor updates is
  one that does not exist.
* **Mutants.** A definition whose name is another one's followed by `_` and a
  word (`Found_ByIndex`) is that definition with a plausible mistake. It is
  used by no specification; `PROJECT.json` names the property that rules it out.

`ProxyMap` is composed into `ClientSessions` by `EXTENDS`: every action of the
sessions either uses an operation of the map or leaves it alone, which
`ClientSessionsProofs` proves. `PrefixCache` determines the result that
`UpdateResults` lets a validation choose freely; `AspaPaths` determines the
verdict `AspaResults` lets a PDU change freely; what `RouterSession` has in
`held` is what `PrefixCache` counts. `CacheLocks` determines whether the cache
calls that are single steps elsewhere can end.

## 3. Runs

Runs that pass:

| run | question | bounds |
|---|---|---|
| `sessions_crash` | Does the array, used by all threads of the server, behave like `ProxyDirectory`? Does a proxy keep its ID, and is it refused only for the two reasons the code intends? Do crashes, also unnoticed ones, with requests in flight, leave every greeted proxy with its mapping and nothing of the others? Is every HELLO answered? | 2 client IDs, the higher one configured for a proxy, and a third proxy that never comes but must be welcome while an ID is free; one proxy has two connections: it comes back while the first is still being cleaned up |
| `sessions_requests` | Are reference counts exact, GC flags right, and does the end of a session drop every reference, however proxies leave? | 2 proxies, 2 updates, 3 requests, four ways to leave; as many clients per update as expected |
| `update_clients` | Does the array behave like a set? | 5 clients in an array of 2: two extensions, removal at every position |
| `prefix_cache` | Are the counters exact and the incremental results those of RFC 6811 after every step? | three nested prefixes and one beside them; 7 ROAs of 2 ASes that reach nothing, something or everything below, and a reserved one; 4 updates, two of them at one prefix |
| `update_results` | Does a listener with an outdated result hear again? Is every update with a receipt validated? Are those who asked registered? | 2 proxies, 1 update, any default of the proxy, 3 requests, 2 changes |
| `rtr_cache` | Is every answer to a serial query exact? Does any answer, after whatever mishap, lack an object? | 1 ROA, 6 serials, 6 nodes of the list, files of 0 to 2 lines with and without an error: an object is announced, withdrawn, deleted in or between two appends, and announced again, also twice; 277,056 states |
| `router_session` | Does the server come to hold what the cache announces, and each object as often? | 1 server, 1 ROA, 3 serials, 1 of: a lost connection, a new session, a restart with an old or a new session ID, a notification at a wrong moment, an alarm at a wrong moment; 549,020 states |
| `aspa_paths` | Does the trie hold what is announced? Does every path get the verdict that follows from it? | 6 customers, one of them below another in the trie, each with objects for every subset of its neighbours and a foreign AS; all 15 parts of a path of five ASes, both directions, both types |
| `aspa_results` | Does the proxy know what the server knows? Does every request get a result? When is a result not the verdict? | 2 updates with one path, one with a default its proxy found invalid, 3 requests, 2 PDUs, 2 seconds: a PDU before, in and after the second of a validation |
| `router_keys` | Do SKI cache and key storage agree? Does a client hear of every change of its verdict? | 2 clients, a path that meets an AS twice; keys of ASes 1 and 256, which share a bucket of the storage: two SKIs of AS 1, two of AS 256, one of them of two colliding keys; 5 PDUs |
| `proxy_client` | Does a router that lost its connection come back? Does one thread take care of it? Is the router greeted before it takes itself for connected? Is no descriptor of others closed, written or read? | 3 descriptors, one of which another part of the router may hold, 3 connections, 3 of: connecting by hand, a server that stops or says goodbye, a connection that breaks, an error, a request on a dead connection; a queue of 1 request: two losses with the retries between them, a router that gives up, and one that is connected anew |

The bounds are small, but each lets the interesting thing happen: an ID that
changes hands, an array that grows and shrinks, a ROA above, at and below an
update, a broadcast while a reply waits. One update is enough for
`update_results`: updates share only the queues, and a request to any of two
proxies delays the other's. `prefix_cache` has every ROA in force once at most
(`MaxCopies = 1`), `sessions_requests` stays within `MinClients`, `aspa_paths`
has objects for IPv4 only and `router_session` one server, because beyond these
limits the code is wrong (section 7). One ROA is enough for `router_session`:
`rtr_cache`, and the proof of `AnswersAreExact`, are about the content of an
answer, the session about when answers are asked for and lost. One ROA is enough
for `rtr_cache` because entries with the same content are told apart by where
they were appended. Two disturbances were tried once: for the invariants
(5,283,898 states) and, with two serials and two nodes, for `LearnsAll` (198,339
states); both hold. Five PDUs let `router_keys` announce three keys of a bucket in
any order and withdraw two, which is what it takes to lose a key with another's.

Three descriptors let `proxy_client` meet every mistake with a number: the old
connection, the new one and somebody else's file. A fourth fault brought
nothing new when it was tried for the invariants.

`CHECK_DEADLOCK FALSE` stands where the environment is bounded (requests,
connections, serials, PDUs and changes are used up) and where the server follows
a NULL pointer and is gone (`prefix_cache`, `router_keys`), and where the main
loop of the router has ended (`proxy_client`).

One run ends in a counterexample, `cache_locks`; the other counterexamples are
reproduced with the constants in section 7.

## 4. Fairness

* `FairSessions`: weak fairness for every client thread, the receiver thread
  and the command thread. They are loops over `poll`, a condition variable or a
  queue, and the scheduler of the operating system runs a thread that can run.
  Proxies have none: they may stay silent for ever.
* `ResultsSpec`: the same for the receiver thread, the command thread and the
  thread of the send queue. `NotifyNext` is fair because `handleEndOfData`, once
  started, loops until the queue is empty. `EndOfData` and `ROAChange` are not
  fair: nothing the server does makes the validation cache send them. No
  property depends on them.
* `SessionSpec`: weak fairness for the timer of the cache (it fires every
  minute, unless it is stuck), for an append that has begun (its console does
  nothing else), the thread of each client and the thread of the cache that
  serves it. The operator and the network have none: a connection that never breaks
  and a cache nobody touches are possible.
* `AspaResultsSpec`: the receiver thread goes on with a request it has begun,
  the command thread and the RPKI thread empty their queues. `EndOfData` is part
  of the RPKI thread because a validation cache ends what it sends with an End
  of Data; `Pdu`, `Look` and `Tick` are not fair. `Validated` depends on the
  command thread only.
* `ClientSpec`: weak fairness for the retry timer, which fires after ten seconds,
  for a read thread whose descriptor is ready, and for the handshake, which
  ends with a PDU, the end of the connection or the alarm. The server, the
  network, the operator and the other parts of the router have none: `ComesBack`
  does not need a server that answers, as a router whose attempts fail gives up.

Handlers are single steps in these modules, so a lock that is never released
cannot show there. That is what `CacheLocks` is about.

## 5. Proofs

`ClientSessionsProofs` holds for any number of client IDs, proxies, connections
and updates and any configuration. About the map alone, from `MapAssumption`:

* `MapTypeCorrect`: `MapTypeOK` is inductive as it stands.
* `SocketsOfActiveOnly`: an element has a connection exactly while it is
  active. By induction with the type invariant.
* `CrashedProxiesKeepIDs`: the action property `CrashedKeepsID`. A step changes
  the proxy of an element only if the element was free (`addMapping` writes only
  where `proxyID` is 0) or if it is given up without being configured or crashed.
* `OneClientIDPerProxy`: `UniqueMapping`, under the hypothesis
  `CounterNeverWraps` (fewer mappings are ever installed than the counter has
  values), which the code does not enforce. `UniqueMapping` is not inductive: a
  handshake creates a second mapping as soon as the scan stops too early. The
  strengthening `MapInv` adds `CountCoversOccupied`: the occupied elements are
  never more than the installations counted. With it, `FindResult` shows that
  the scan finds a proxy exactly if it has a mapping, `CandidateResult` what the
  handshake proposes, and `RegisterEffect` and `DeactivateEffect` what a step
  changes. The last needs cardinalities (`FiniteSetTheorems`): one element is
  occupied more only if `added` grew.
* `RefusedForAReason`: `NoSpuriousRefusal`, under `CounterNeverWraps` and
  `NobodyIsZero` (no proxy calls itself 0, the value of a free element, which
  the code does not check: `server_connection_handler.c:1437` looks it up like
  any other). It needs `FreeIsIdle` beside `MapInv`: an element without a proxy
  is not active, so the one the handshake proposes is never refused.
* `MapImplementsDirectory`: `MapSpec => ImplementsDirectory`, under
  `CounterNeverWraps`. The invariant `DirInv` is `MapInv`,
  `SocketOnlyWhileActive` (a proxy that is admitted has no other session) and
  `ConfiguredStay` (an element installed from the configuration belongs to its
  proxy for good, so nobody configured is ever forgotten). `ClientIn` and
  `SessionIn` are what the refinement mapping sees in an array; the lemmas say
  that a proxy is seen exactly at the element it holds and that a change of one
  element is not seen by the others. `RegisterIsAdmit` and `DeactivateIsLeave`
  map the steps; a HELLO with proxy ID 0 and the end of a session without
  mapping are stutters.

And about the threads that use it, from `SessionsAssumption`:

* `SessionsUseMap`: `SessionsSpec => MapSpec`. The supporting invariant
  `ThreadsOK` types what is needed to see that an element given up is one of the
  array (`routerID` of the thread) and a connection one of the connections (the
  entries of both queues); one lemma per thread.
* `SessionsOneClientID`, `SessionsRefuseForAReason` and
  `SessionsImplementDirectory`: hence `UniqueMapping`, `NoSpuriousRefusal` and
  `ImplementsDirectory` for all interleavings of the server's threads.
* `MappingsAgree`: `MappingAndThreadAgree`, for all ways to leave. It is not
  inductive: a second HELLO of a connection would move its thread to another
  client ID. `HelloInv` adds `HelloOnce` (a connection has one HELLO, in its
  stream, in the receiver queue or in the command queue, and nowhere twice) and
  `WaitingIsUnknown` (until it is processed, no mapping names the connection
  and its thread has no client ID). The lemmas `Pushed` to `StreamTaken` say
  what a queue keeps, `ProxyHop` to `CommandHop` how the HELLO moves on.
* `GreetedSessionsAreKept`: `SessionKept`, under `NoGoodbyes` (`Departures` is
  among crashes and aborted handshakes). Then no PDU that ends a session is
  queued (`NoEndQueued`), and a greeted connection has its mapping until its own
  clean-up (`GreetedIsMapped`).
* `TheDeadAreForgotten`: `NoDeadMapping`, under `CrashesOnly` (proxies wait for
  the answer to HELLO before they are lost). `WaitingIsAlive`: the end of the
  stream is not reached while a HELLO waits, so that a handshake is accepted for
  live connections only; `MappedIsAlive`: each active mapping has one. Without
  the hypotheses both properties are violated (section 7, and section 6 on
  aborted handshakes).
* `UnusedIsCollectable`: `CollectableIffUnused`, with no hypothesis. The
  extension of an array leaves the flag alone, but a first client never extends
  one (`ReferenceAdded`).
* `CountOfReferences`: `CountIsExact`, under `FewUpdates` (fewer updates than a
  count has values, `MinClients` being any positive number) for behaviours in
  which no update ever has more than `MinClients` clients (`[]ArraysSuffice`);
  the code counts no client that extends an array. With the count exact the walk
  of `unregisterClientID` cannot stop early (`UnregisterTakesAll`), hence
  `EndLeavesNoReference`: `EndUnregisters`, under the same hypotheses.
* `SessionsTypeCorrect`: the types.

`UpdateCacheProofs` is about the array of clients of an entry and about the
results that reach them. From `ClientsAssumption`:

* `ClientsTypeCorrect` and `ArrayStaysCompact`: the types and
  `CompactAndUnique` are inductive together (`ArrayInv`), also when the size
  wraps: a wrapped extension only truncates the array.
* `ArrayImplementsSet`: `ClientsSpec => ImplementsSet`, under `SizeNeverWraps`
  (the number of clients plus one extension fits into the one byte of
  `noPossibleClients`), which the code does not enforce. `ExtensionFits` shows
  by the pigeonhole principle that a full array without duplicates that does
  not list the client leaves room. `FlagExact` is needed beside `ArrayInv`: an
  extension leaves the flag for the garbage collector alone, which is right only
  because a full array is never empty.

`RouterSessionProofs`. Of the list of the cache, from `RtrCacheAssumption`:

* `AnswersAreExact`: `DeltaExact`, for any number of entries and serials. A
  router that applies an answer to what it held under its serial then holds
  what the cache announces, if it was not sent that serial before it was raised,
  until a mishap. `DeltaExact` says nothing of how an answer is composed;
  `CacheInv` does: the list is sorted by serial (`Sorted`), entry and list agree
  on who is withdrawn and when (`ListOK`), and a set that was sent under a
  serial contains an entry exactly if it was announced by then and not yet
  withdrawn, where what has left the list since keeps its serial within the
  window of refused ones (`PastOK`). The entries an append has not counted yet
  are as many as it will count, unless something was deleted meanwhile, which
  is then a mishap.
* `AnswersAreComplete`: `NothingMissing`, also after a mishap and for what was
  sent too early, as long as the serial was not set back. Of the invariant only
  `MishapInv` is left then: the shape of the list (`NodesOK`, `OneNode`) and that
  an announced entry whose serial is not newer than the one a router asks with
  is among what was sent under it (`OldWereSent`).
* `CacheTypeCorrect`: the types, also after a mishap.

And of the sessions, for any number of servers, session IDs, queries on the way
and disturbances, from `SessionAssumption` too:

* `ServersLackNothing`: `mishap \/ NothingLacking`. Nothing can be said of a
  router alone, because an answer is on the way while the list changes.
  `LackInv` is about what it will have: an answer in `sending`, then what is in
  `pdus`, then what it holds leave it `Sure` of a ROA. Whatever gives the router a
  serial (an End of Data on the way) or makes it ask with one (its `client`, a
  query on the way) goes with a router that is sure of all that is announced and
  was so under that serial, or a Reset Query goes before. That needs no
  assumption on repetitions: answers may overlap in any number. It needs serials
  that mean one thing, hence `restarted`. An answer of the second gap has
  more than its serial says, and one that the append overtakes has a serial of
  entries it carries already; `Window` says of the entries not counted yet that
  they are the last of the list and consecutive, and `AheadStays` that who was
  sent such an answer is marked.
* The theorem stops at a mishap, for which `SessionInv` has no more to say. The
  run goes on after the mishaps it has (an entry that expires in the middle of an
  append) until the serial is set back. A file that is loaded in part announces
  entries no serial was raised for, and those a server may lack.
* The search for it showed that an earlier form of `NothingLacking`, which
  excluded only restarts with a session ID used before, held within the bounds
  of the run and not beyond: a server that noticed a change of session
  reconnects after the cache was restarted with a fresh and higher ID. It adopts
  that ID with the first PDU and keeps its serial of the earlier run, and a
  notification between the PDUs of the answer makes it ask in the new session
  with that serial. `NothingLacking` now excludes every restart for servers that
  ask twice. A server that was answered too early asks with such a serial
  without having asked twice; the proof showed that too, after TLC had not.
* `ServersAreExact`: `ExactUnlessRepeated`. `ExactInv` is about routers that
  did not repeat a query and were not answered ahead of the serial: at most one query is on the way, and none with an
  answer (`OneQuery`); a Reset Query comes from a router without ROAs, a Serial
  Query of this session from one that holds what was sent under its serial
  (`QueryOK`); what is on the way withdraws what is held and announces what is
  not, each once (`StreamOK`), and comes to what was sent under the serial of
  its End of Data (`EndOK`). It covers restarts: the session ID of a query or of
  a client is at most that of the cache, and the serial counts only if they are
  equal. `SerialAnswer` takes from `DeltaExact` what an answer does to a router;
  the list alone needs `ListInv` besides, that no ROA is announced by two nodes
  and that a withdrawn node precedes the announced one of the same ROA.
* `SessionTypeCorrect`: the types, until a mishap as well.

`PrefixCacheProofs`, from `PrefixAssumption`, for any tree of prefixes and any
finite sets of ROAs and updates, under `OneCopyEach`: no ROA is announced again
while it is in force, and there are fewer ROAs than `roa_coverage` counts. The
code enforces neither; without the first, section 7 has what happens.

* `CoverageIsExact`: `CoverageExact`; `MatchesAreCounted`: `MatchesCounted`;
  `PrefixTypeCorrect`: the types. None is inductive by itself, because every
  walk is pruned by the counters and states it finds. `PrefixInv` takes them
  together with `TreeInv` (what is in force or listed is at a stored prefix) and
  `ResultInv` (the update cache has the state of the list an update is in).
* Upwards, a walk ends at the first prefix that nothing covers. `ParentCovers`
  and `WalkUp` show that nothing above it can cover either, so that a request
  counts all ROAs that reach it (`PlaceStep`).
* Downwards, a walk leaves a branch at the first prefix a ROA does not reach.
  In `AddStep` and `WithdrawStep` each stored prefix is visited and changed, or
  neither its coverage nor its matches depend on the ROA; `Missed` and
  `WalksGoOn` are the geometry of that: longer prefixes are not reached either,
  and their state has been decided above them.
* A withdrawal sets the states below its prefix one from the other.
  `StateAfterExact` says what comes out, "notfound" exactly where no ROA is left
  above: a smallest prefix with another outcome would have a parent with one.
  `SumOfOnes` does the same for the sum in `Copies`.
* `PrefixImplementsValidation`: `ImplementsValidation`. `ResultsRight` reads off
  the invariant that each result is the state RFC 6811 gives the update;
  `RequestSimulates`, `AnnounceSimulates` and `WithdrawSimulates` map the steps.

`UpdateCacheProofs` again, from `ResultsAssumption`, for any number of proxies,
updates, requests and changes:

* `ListenersAreInformed`: `InformedUnlessRaced`. A registered proxy goes by the
  current result, or a reply or a notification is on its way that will correct
  it, or it lost one of four races. The inductive invariant `ResultsInv` adds
  what the argument needs of the queues: a command refers to an update that is
  stored (`CommandsStored`), the default of a queued request is what its proxy
  goes by when the request is answered (`DefaultIsCurrent`), an update that is
  not stored has no listeners and no result (`NewIsEmpty`). The attempt showed
  that the model named three races of four: a deletion that is processed between
  a request and its reply.
* `ProxiesAreListed`: `RequestersListed`; `ResultsTypeCorrect`: the types.

`AspaPathsProofs`, of validation:

* `ValidationIs`: for a path of any length, `validateASPA` gives the verdict of
  `Meaning`, which speaks of valley-free paths and knows no loops. The lemmas
  show that the bounds the loops stop at exist (`KExists`, `LExists`,
  `UExists`) and that a path is valley-free exactly if they meet (`ValleyIs`).

And of the trie, for IPv4 objects only (`Afis = {AFI_IP}`), the ones the
server takes:

* `TrieIsExact`: a customer that is alone on its branch of the trie has the
  object that is announced. `DbInv` says of the others what is left: the object
  that is announced or none.
* `ObjectsCounted`: if all customers are alone, `countAspaObj` is the number of
  objects in the trie.
* `PathsAreJudged`: hence, with `ValidationIs`, `VerdictIsMeaning`: a path gets
  the verdict that follows from what is announced.

For objects of both address families and customers below one another:

* `DatabaseTypeCorrect`: `DatabaseTypeOK`, the shape of the trie: a node has the
  ones above it, because `insertAspaObj` makes them all (`AboveIsClosed`) and what
  is left by a withdrawal was not below it (`BelowGoesDown`).
* `ObjectsNotUndercounted`: `countAspaObj` is at least the number of objects. It
  is not the number, since a withdrawal that frees the objects of several
  customers decrements it once (`TrieInv`); the same argument keeps it from
  going below zero.

`AspaResultsProofs`, from `AspaResultsAssumption`, for any number of updates,
paths, requests and PDUs:

* `ProxyIsInformed`: `Informed`, if every request wants a receipt
  (`ReceiptsWanted`; section 7 has what happens without). At rest follows from
  `ToldUnlessComing`, which says for every state: the proxy goes by the stored
  result, or a command or a step of the walk that will tell it is pending. The
  attempt showed that an update with an invalid default must be excluded.
* `ResultsAreCurrent`: `CurrentUnlessRaced`, if a path comes from one direction
  only (`OneDirection`). `CurrentInv` relates what every thread holds in its
  copy to the time of the last change: `CurrentUnlessAhead` (a result is the
  verdict, or something that will set it is ahead), `WalkIsCurrent` (the copy of
  the walk) and `DirectionKept`. `raced` names the six ways to miss a verdict; the
  sixth is that a validation gives its update the old result of the path.
* `AspaResultsTypeCorrect`: the types.

`RouterKeysProofs`, from the assumptions of `RouterKeys`, for any number of
updates, paths, keys and clients:

* `RegistrationsAreWhole`, `KeysAreCounted`: SKI cache and update cache agree on
  which updates wait for which triplets, SKI cache and key storage on how many
  keys a triplet has. The second needs `OneKey`: a triplet that only one key can
  have has it in the storage once or not at all. For colliding keys it fails.
* `ClientsAreTold`: `ToldUnlessMissed`. A client knows the verdict, or the
  update waits in a queue, or one of the listed losses occurred: among them that a
  key of the update goes missing when another of its bucket is stored or deleted,
  which nobody is told of. The argument: a verdict changes only when a triplet the
  update needs gets or loses its key (`VerdictStays`). A listed update is registered with each of these
  (`RegistrationsWhole`), so an announcement queues it; a withdrawal queues it
  only because the count reaches the value the code compares with
  (`KeysCounted`). `NewIsUnknown` and `ToldListeners` are the rest of `KeysInv`.
  `CountsBounded` with the assumption `MaxPdus < CounterSize` keeps the counter
  from wrapping, which the code does not enforce.
* `KeysTypeCorrect`: the types, and that every key the storage has is one the
  head of its bucket leads to.

`ProxyClientProofs`, from `ClientAssumption`, for any number of descriptors,
connections, faults and queued requests:

* `ClientInvariant` is the inductive invariant `ClientInv`, from which the
  others are read off. Each function of the code is an operator from world to
  world; one lemma says field by field what it does (`CloseEffect`,
  `WrittenEffect`, ...), and one lemma per action puts these together.
* What can be said depends on what has happened, so the invariant has parts of
  growing strength for fewer troubles. Always: the types, and that table and
  connections fit (`Linked`: a connection has one descriptor, one the router has
  a descriptor of was not left by it, one whose session is over is not open).
  Without a failed request and before giving up (`Calm`): who takes care of the
  connection in each mode (`CareInv`). Without an error PDU (`Known`): which
  numbers are connections (`PlaceInv`). Without a handshake that timed out
  (`Careful`): the number `rq` or the library keeps is nobody else's
  (`HarmInv`). Or without a skipped handshake (`Polite`): who was greeted
  (`GreetInv`).
* `ConnectionHasOneCaretaker`: `OneCaretaker`. It needs to know what the
  connection may still deliver: `Greeting`, after a HELLO, and `Refused`, after an
  attempt that failed, which is nothing that could make the router believe in a
  session.
* `OthersAreUntouched`: `OthersUntouched`. A number that is kept is harmless only
  while it is that of the own connection. The connection of a new attempt never
  has the number of the one it replaces (`lib.oldFD # thr.rq` in a handshake),
  because the old one is closed only when the attempt is over.
* `ConnectedIsGreeted`: `GreetedIfUp`. From `GreetInv`, `PlaceInv` and `Linked`.
* `ClientTypesCorrect`: the types.

## 6. What is only checked, and what is not modelled

Every invariant, action property and refinement that a passing run checks is
also proved, under the hypotheses section 5 names. Only model-checked: the six
liveness properties below, and `CacheLocks`, whose one property fails.

Some type invariants are listed by no run, because a theorem states them:
`MapTypeOK`, `SessionsTypeOK`, `PrefixTypeOK`, `ResultsTypeOK`,
`AspaResultsTypeOK`, `SessionTypeOK`, `DatabaseTypeOK` and `ClientTypeOK`. They
hold when they are added to the configuration of their module.

Three things are out of the prover's reach and stay with TLC: liveness under
fairness (`HelloAnswered`, `LeftIsForgotten`, `ValidationHappens`, `LearnsAll`,
`Validated`, `ComesBack`); induction over data as a rule that could be cited, so
that each recursive function needs an argument of its own, by a smallest
counterexample (`StateAfterExact`, `SumOfOnes`); and `RECURSIVE` operators, of
which the modules with proofs have none.

Not modelled: the components marked so in `PROJECT.json`, with reasons there.
Within the modelled ones:

* **Client sessions**: the mode without receiver queue and the worker pool; peer
  changes; a second HELLO on a connection and a HELLO of another version. A
  client ID of a HELLO that is still queued when its connection was cleaned up
  stays mapped to a dead connection; `NoDeadMapping` is therefore checked for
  proxies that wait for the answer before they leave, as the client API does.
* **Update cache**: garbage collection and the time an update is kept after its
  deletion; collisions of update identifiers; the two functions that change the
  array of clients without the mutex (undefined behaviour).
* **Queues**: shutdown, the linked list of the command queue, allocation
  failures.
* **Prefix cache**: its locks are compiled out; each call is one step.
* **RPKI to Router**: the negotiation of versions, error reports and the
  console commands that send a PDU by hand. `processEntryRemoval` has a gap
  between its locks like that of an append; entries that expire in it can make it
  follow a NULL pointer, which is not modelled: it takes its entries from the list
  as it is when it has the write lock. An alarm that comes while the console
  holds the write lock (undefined in POSIX) is left out. Serials do not wrap.
* **ASPA**: collisions of path identifiers; the lock-free trie within one call.
* **BGPsec**: the signature bytes, signing, key files, `ski_clean`; the key
  storage is used by the command thread and the RPKI thread without a lock. The
  arrays of the storage are reallocated with too little memory
  (`sizeof + noKeys`, `key_storage.c:627` and `632`), which is undefined from three
  colliding keys on; the model has two.
* **Client API**: peer changes, deletions, requests for signatures and the
  contents of results; what becomes of queued requests, which the code never
  sends. A write succeeds or fails at once: `sendNum` repeats it after `EAGAIN`
  and forgets the descriptor after any other error (`socket.c:184-197`).
  Therefore the library never reports `COM_ERR_PROXY_COULD_NOT_SEND`, for which it
  would have to keep it (`srx_api.c:906-933`), and that branch of
  `threadControlCall` (`bgp_route.c:435-443`) is left out, as is the one of an
  unknown update, which does nothing. A PDU arrives whole, and a read on a descriptor without data waits,
  whether or not the descriptor blocks. A file other parts of the router open is
  one at a time, and they do not notice what is done to it.

Each of these that can go wrong is a hazard, with a note unless a property
comes close enough.

## 7. Disagreements between the code and what it says

One of them is a run:

| run | property | what happens |
|---|---|---|
| `cache_locks` | `NoDeadlock` | the end of a session and the storing of an update take two locks in opposite orders |

The others are stated as properties that no configuration lists. TLC finds each
violated by the given configuration, with the changes in the third column and
the property as the only one:

| property of module | configuration | changes | what happens |
|---|---|---|---|
| `SessionKept` of `ClientSessions` | `SessionsRequests.cfg` | `HelloIDs = {1, 2}`, `MaxAdditions = 7`, three sockets, `Updates = {u1}`, `Requests = {}`, `MaxRequests = 1`, `Departures = {"goodbye"}` | the client thread frees an ID, another proxy gets it, and the first one's GOODBYE, still queued, deactivates it (`server_connection_handler.c:1103`); the map entry is "actively used" (`.h:79`) by a proxy that is skipped from then on |
| `AllClientsReachable` of `UpdateClients` | `MCUpdateClients.cfg` | `ClientIDs = {1, 2, 3}` | a third client extends the array, `minNumberOfClients` does not follow although it "will be always maintained" (`update_cache.h:97`), and no client is notified any more |
| `ResultIsOriginState` of `PrefixCache` | `MCPrefixCache.cfg` | `MaxCopies = 2` | a ROA announced twice is counted once by a new prefix and twice by everyone else (`prefix_cache.c:795`) |
| `NodeHasPrefix` of `PrefixCache` | `MCPrefixCache.cfg` | none | a withdrawal leaves a node without data, the next update of that prefix follows the NULL pointer (`prefix_cache.c:607`) |
| `ProxiesInformed` of `UpdateResults` | `MCUpdateResults.cfg` | `Clients = {1}`, `MaxRequests = 1`, `MaxChanges = 0` | the queued default arrives after the validated result that was sent directly, and stays |
| `RefusedOnlyIfUnserved` of `RtrCache` | `RtrCache.cfg` | `Empties = FALSE`, `BadFiles = FALSE` | `checkSerial` refuses the serial of the last deletion, which can be served (`rpkirtr_svr.c:374`) |
| `NeverSetBack` of `RtrCache` | `RtrCache.cfg` | `BadFiles = FALSE`, `Empties = FALSE` | more entries expire in the middle of an append than it adds: `cache.maxSerial += numAdded` lowers the serial (`rpkirtr_svr.c:1977-1987`) |
| `DeltaExactAlways` of `RtrCache` | `RtrCache.cfg` | `BadFiles = FALSE`, `Empties = FALSE` | the same gap makes `numAdded` too small, and serials are given out again |
| `EarlyCorrected` of `RtrCache` | `RtrCache.cfg` | `BadFiles = FALSE`, `Empties = FALSE` | a router that was answered between the append and its serial keeps what was withdrawn since |
| `ExactWhenever` of `RouterSession` | `RouterSession.cfg` | `Disturbances = {}`, `MaxDisturbances = 0` | such a router is sent the new objects again with the next answer |
| `NothingEverLacking` of `RouterSession` | `RouterSession.cfg` | `Disturbances = {}`, `MaxDisturbances = 0` | after the serial was set back a router goes by one that has other objects |
| `DeltaExact` without `~mishap` | `RtrCache.cfg` | none | a file with a bad line counts no entry, the entries before it keep serials that are given out again; the comment (`rpkirtr_svr.c:1269`) says the line is skipped |
| `NothingLacking` without `~(restarted ...)` | `RouterSession.cfg` | `MaxDisturbances = 2` | a restarted cache gives its serials out again, and a server that asks twice goes by the serial of the older answer |
| `KeepsTrying` of `RouterSession` | `RouterSession.cfg` | `Disturbances = {"loss"}`, `MaxDisturbances = 1` | a connection lost before its first response ends the client, which "will try to reconnect" (`rpki_router_client.h:259`) |
| `SurvivesNewSession` of `RouterSession` | `RouterSession.cfg` | `Disturbances = {"restart"}`, `MaxDisturbances = 1` | a response with another session ID calls `sessionIDChangedCallback`, which is never set (`rpki_router_client.c:661`) |
| `StaleRemoved` of `RouterSession` | `RouterSession.cfg` | `Disturbances = {"session"}`, `MaxDisturbances = 1`, `HasCallback = TRUE` | "the stale remaining data can be removed" (`rpki_router_client.c:968`), but nobody does it |
| `LearnsAll` of `RouterSession` | `RouterSession.cfg` | `Routers = {a, b}`, `Disturbances = {}`, `MaxDisturbances = 0` | the query of one server withdraws the notification of all (`rpkirtr_svr.c:506`) |
| `AnnouncedIsStored` of `AspaDatabase` | `AspaPaths.cfg` | none, or `MCAfis` with `AFI_IP6` too | the withdrawal of AS 1 frees AS 10 with it (`aspa_trie.c:249`); an IPv6 object is refused because the flag is passed as 2 (`rpki_handler.c:512`) |
| `CurrentAtRest` of `AspaResults` | `AspaResults.cfg` | none, or `DirOf <- MCDirs` with `MaxPdus = 0` | an End of Data in the second of the last validation validates nothing (`aspa_trie.c:523`); the same path from a customer and from a provider shares one result |
| `ValidationCorrects` of `AspaResults` | `AspaResults.cfg` | none | the result of the path is copied to the update before the validation (`aspath_cache.c:346`, called from `command_handler.c:776`) and wins over the verdict after it (`command_handler.c:843-848`): the path gets the verdict, the update the old result |
| `WalkCorrects` of `AspaResults` | `AspaResults.cfg` | none | the walk compares with the result of the path, not of the update, so the second update of a path keeps the old one (`aspa_trie.c:541`) |
| `ToldAtRest` of `AspaResults` | `AspaResults.cfg` | none | a reply to a second request waits while the walk changes the result; for an update with an invalid default the command thread then tells nobody (`command_handler.c:756`) |
| `NeighborCheckKept` of `AspaResults` | `AspaResults.cfg` | none | the walk replaces the invalid default that the command thread keeps (`command_handler.c:756`) |
| `Informed` of `AspaResults` | `AspaResults.cfg` | `Receipts = {FALSE}`, `MaxPdus = 0` | the default for ASPA is not compared with the result, so a proxy that wants no receipt is not told (`server_connection_handler.c:811`) |
| `UniqueIsStored` of `RouterKeys` | `RouterKeys.cfg` | none | a second SKI of an AS that comes last in its bucket is not linked (`key_storage.c:845`); when it is withdrawn it is taken for the head, and the keys before it are lost (`key_storage.c:423-437`) |
| `ListenersListed` of `RouterKeys` | `RouterKeys.cfg` | none, or `Updates = {"both"}` and `Asking <- MCAskingBoth` | an update is registered with the SKI cache only when it is new, but taken out by any client that deletes it (`update_cache.c:1050`) |
| `HeldIsStored` of `RouterKeys` | `RouterKeys.cfg` | none | the withdrawal of one of several colliding keys decrements the number of keys while it shifts them and loses the last (`key_storage.c:610`) |
| `NeverCrashes` of `RouterKeys` | `RouterKeys.cfg` | `MaxPdus = 4` | the NULL left in its place is used |
| `AllKeysTried` of `RouterKeys` | `RouterKeys.cfg` | none | "we check all colliding keys" (`ski_cache.c`), but `validate` stops after the first that fails |
| `StoredIsCurrent` of `RouterKeys` | `RouterKeys.cfg` | none | `handleEndOfData` validates and broadcasts, but does not store the result (`rpki_handler.c:291`) |
| `OneCaretaker` without `"requestFailed"` | `ProxyClient.cfg` | none | `g_current_read_thread` does not know the first read thread, so a request that cannot be sent starts the timer and leaves that thread (`bgp_route.c:451`) |
| `OthersUntouched` without `"timedOut"` | `ProxyClient.cfg` | none | the alarm of the handshake closes the descriptor and its number is closed again after the next attempt, whoever has it then (`client_connection_handler.c:460`) |
| `OthersUntouched` without `"error"` or `"requestFailed"` | `ProxyClient.cfg` | none | `threadControlCall` closes the descriptor, the library goes on using the number (`bgp_route.c:455`) |
| `OthersUntouched` without `"gaveUp"` | `ProxyClient.cfg` | none | `rq->clientFD` keeps the number that was closed, and giving up again closes it again (`bgp_route.c:202`) |
| `GreetedIfUp` without `"skipped"` | `ProxyClient.cfg` | none | if GOODBYE cannot be sent, `established` stays set and the next handshake does not wait for its answer (`client_connection_handler.c:506`) |
| `ComesBack` without `"queueFull"` | `ProxyClient.cfg` | none | a full send queue is no transmission error, and `verifyUpdate` tries again for ever (`srx_api.c:889`) |
| `ComesBack` without `"error"` or `"requestFailed"` | `ProxyClient.cfg` | none | a read thread stays or is added for a descriptor that was closed, `select` fails and bgpd ends (`bgp_route.c:246`) |
| `ComesBack` without `"gaveUp"` | `ProxyClient.cfg` | none | after two failed attempts the router starts over without a server; a success in between does not reset their count (`bgp_route.c:170`) |

Two more show by the hypotheses of proofs: after 256 installations the counter
of the map wraps and a known proxy may get a second ID; the one-byte size of the
array of clients wraps with the extension that passes 255. And the offset of a
second signature block is computed wrongly (`ski_cache.c:1325`): `Entered` models
it, and `RegistrationsWhole` is stated for updates with one block.

## 8. Plan

Done: 1 `ProxyMap` with `ProxyDirectory`; 2 `ClientSessions` and
`UpdateClients` with `ListenerSet`; 3 `PrefixCache` with `OriginValidation`;
4 `UpdateResults`; 5 `CacheLocks`; 6 `RtrCache` and `RouterSession`; 7
`AspaValidation`, `AspaDatabase`, `AspaPaths` and `AspaResults`; 8 `RouterKeys`;
9 `ProxyClient`; the proofs of section 5.

Next modules, in this order; the runs are kept to a dozen, so that a run of a new
module takes the place of a weaker one:

10. `QueueShutdown`: a queue with its mutex, condition and thread, and the order
    of the shutdown in `main.c`; the receiver queue and the send queue are two
    instances. Every thread ends; nobody joins a thread that waits for him.
11. `CommandList`: the linked list of the command queue with the pointer to the
    next item, implementing a FIFO.
12. The gRPC service as another set of threads that call the same handlers.

Theorems: those planned are proved (section 5). A proof that `UpdateResults`
with the results of `PrefixCache` in place of its free choice keeps
`InformedUnlessRaced` would join the two halves of origin validation.
