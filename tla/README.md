# A verification project for the Kademlia node

TLA+ models of the DHT node in `src/src`, the TLC runs that check them and the
theorems that TLAPS proves about them. Paths below are relative to the
repository; `node.ts` is `src/node/node.ts`, and so on.

## 1. The system

A process is one `KademliaNode`. Node ids are small integers; node *i* listens
on UDP and WebSocket port 3000 + *i* and serves HTTP on port 2000 + *i*. Node 0
is the bootstrap node. All state is in memory.

| Component | State | Operations | Talks to |
|---|---|---|---|
| K-bucket (`kBucket.ts`) | list of at most 3 peers | `updateBucketNode`, `removeNode`, `moveToFront` | pings through the UDP transport |
| Routing table (`routingTable.ts`) | map from bucket index to bucket; the value store | `updateTables`, `findNode`, `nodeStore`, `findValue` | called by every message handler |
| UDP transport (`udpTransport.ts`, `node.ts` `udpMessageResolver`) | listeners per request id, promises and timers | `sendMessage`, the send callback, `handleMessage` raising events | datagrams |
| DHT operations (`dhtOperations.ts`) | the call in progress | `store`, `findValue`, `secureStore`, gateway calls | `sendManyUdp`, the routing table |
| Discovery (`node.ts` `findNodes`, `discoveryScheduler.ts`) | shortlist and contacts of a round | a round every 30 s | FIND_NODE / REPLY, then WebSocket connections |
| Keys and encryption (`crypto/`) | own key pair, keys of other nodes | offers in PING, STORE and FIND_VALUE; KEY_DISCOVERY | every message to a node with a known key |
| Key directory and bootstrap (`crypto/keyDiscovery.ts`, `node.ts` `bootstrap`) | noted requests, discovered keys; records in the DHT | `storeOwnKeyInDHT`, `findKeyInDHT`, `discoverKeys`, `bootstrap` | `store`, `findValue`, pings, KEY_DISCOVERY |
| Gateway registry (`gateway.ts`, `dhtOperations.ts`) | own registrations, records in the DHT | register, find, heartbeat | `store`, `sendSingleFindValue` |
| WebSocket transport (`wsTransport.ts`) | connections, neighbours, seen broadcasts | connect, handshake, broadcast, close | its close event removes a peer from the table |
| HTTP API (`http/`) | none | a route per node operation | the node |

JavaScript runs one callback at a time, so a step of the models is the code
between two suspension points: a handler up to its first `await` on the
network, the continuation of a promise, a timer. What is concurrent is the
order of datagrams, send callbacks, timers, socket events and API calls, on
one node and across nodes.

What is hard in it:

* an answer, its timer and the callback that starts listening for it race;
* datagrams are lost, late and reordered, and a restarted node answers on the
  same port with none of its state;
* the routing table is changed by whatever message comes, while stores and
  lookups decide from it who holds a value;
* a store writes to several nodes and fails as a whole when one is silent;
* keys are 5 bits wide, so distinct values share keys and a key can be a node id.

What makes each part correct:

* **K-bucket and table**: no peer twice, every peer in its own bucket, at most
  3 per bucket, nobody evicted, `findNode` neither too short nor blind to the
  key's bucket;
* **UDP transport**: a call settles once, resolves only if it was carried out,
  always settles, and loses no answer but one that comes too early;
* **Store and lookup**: a value is found under its own key only, acknowledged
  replicas hold it, a writer finds what the replicas it lists still hold, calls return;
* **Discovery**: rounds end, tables list only peers that were heard from, a node
  and its contact know each other, a connected peer is listed;
* **Keys**: a stored key belongs to the node it is stored for, two nodes with
  each other's keys understand each other after a restart;
* **Key directory**: what it gives is a key of the right node, two nodes that a bootstrap
  made meet keep each other's keys, a bootstrap ends, noted requests do not pile up;
* **Gateways**: what is registered is found, and is what the gateway registered;
* **WebSocket**: the two Maps agree with the sockets that are open, a broadcast
  reaches every linked node and is handled once.

## 2. The modules

| Module | Models | Extends |
|---|---|---|
| `Keyspace` | ids, XOR distance, `getBucketIndex`, sorting by distance | |
| `KBucket` | `KBucket` as operators on sequences | `Keyspace` |
| `TableOps` | `RoutingTable` as operators on a table: `updateTables`, removal, `findNode` | `KBucket` |
| `RoutingTable` | the table of one node as a state machine, with the pings of full buckets | `TableOps` |
| `KnownPeers` | abstract: what a table promises, without buckets | `Keyspace` |
| `UdpTransport` | one request from `sendMessage` to its settling, any interleaving | |
| `UdpCall` | abstract: what `sendMessage` promises its caller | |
| `Gateway` | registering gateways and finding them, over several nodes with colliding keys and restarts | `TableOps` |
| `GatewayRegistry` | abstract: what a lookup of gateways may return | |
| `DhtStore` | `store` and `findValue` over several nodes with their tables, calls at once on one node, restarts, disconnections | `TableOps` |
| `Discovery` | rounds of FIND_NODE over several nodes, and the connections they open | `TableOps` |
| `WsTransport` | sockets between nodes, the Maps that file them, handshakes and broadcasts | |
| `KeyExchange` | who stores whose public key, what is encrypted for which key, what is dropped | |
| `KeyDirectory` | public keys kept in the DHT, the bootstrap of a node, noted key requests | |
| `MCRoutingTable`, `MCUdpTransport`, `MCDhtStore`, `MCKeyExchange`, `MCGateway`, `MCDiscovery`, `MCWsTransport`, `MCKeyDirectory` | instances for TLC | |
| `TableLemmas` | lemmas about the operators of `TableOps`, for any table | `TableOps` |
| `RoutingTableProofs`, `DiscoveryProofs`, `DhtStoreProofs`, `KeyExchangeProofs`, `KeyDirectoryProofs`, `GatewayProofs` | theorems | the module of that name, and `TableLemmas` in those with tables |
| `TransportProofs` | theorems about both transports | `WsTransport`, `UdpTransport` |

`DhtStore` is the composition: each of its nodes updates its table with the
operators that `RoutingTable` is built from, whenever it handles a message.
`Discovery` is another one, of tables and connections. `KeyDirectory` uses the DHT
through what `DhtStore` shows of it: a lookup returns a value that was once stored
under the key that is read, or nothing, and returns.

### Representation

An id is the set of positions of its one bits (`5 = {0, 2}`, node 0 is `{}`):
XOR is then the symmetric difference and the order of distances is decided by
the highest differing bit. This makes the bit scan of `getBucketIndex` a `Max`
and lets the provers reason about it. `MCRoutingTable` assumes, and TLC
evaluates, that the representation agrees with the numbers.

A peer is its id. Its port is a function of the id, its address is that of all
nodes, and `lastSeen` is written and never read.

### `RoutingTable`

| Action | Code |
|---|---|
| `UpdateTables(p)` | `updateTables` and `updateBucketNode`, the ping of a full bucket included (it is not awaited by `updateTables`) |
| `ProbeAnswered(p)` | the PONG of that ping, which reports its sender like any message |
| `ProbeTimeout(p)` | the `catch` of `updateBucketNode`, whose eviction is commented out |
| `HandleTcpDisconnect(p)` | `handleTcpDisconnet` |

`findNode` is an operator: the rounds of its loop are the function `Within`,
the result is what sorting and slicing leaves. Its cap of `BIT_SIZE` gathered
peers is left out: a table over the 32-value keyspace has at most 13 peers.

### `UdpTransport`

The variables are those of one `resId`: the promise (`outcome`), the listeners
(`listening`), whether the callback of `server.send` has run (`called`), and
the copies of request and answer in the network. The names that every specification has
(`Init`, `Next`, ...) begin with `Udp` here, so that one module can prove about both
transports. `SendMessage` sends and starts
the timer, `SendCallback` is `udpMessageResolver`, `HandleRequest` is the other
node's handler with the send of its answer, `HandleAnswer` raises the event,
`Timeout` is `timeoutReject`. The callback may run after the answer was read:
nothing orders the two. Such an answer is lost and the call times out, although it was
carried out; `OnlyEarlyAnswersAreLost` says that this is the only way in which an answer
that is read in time is lost at the caller. That three listeners are registered and one is removed, so
that two stay with every request, is left as it is and no property speaks of it: no
behaviour could be without it.

### `DhtStore`

| Action | Code |
|---|---|
| `StoreCall` | `store` up to its `await`: targets, the local copy, the STORE messages |
| `HandleStore`, `HandleFindValue` | the cases of `handleMessage`, with `updateTables`, `nodeStore` and the answer |
| `HandlePong`, `HandleFoundResponse` | the events and the continuations of `Promise.all` |
| `StoreTimeout`, `FindTimeout` | the rejection of one request: it fails a store, and counts as "no value" in a lookup |
| `FindCall`, `AskNext`, `SettleQuery` | `findValue`: local copy, chunks of `ALPHA`, the closest answer of a chunk |
| `Contact` | any other message from a node (pings, discovery) |
| `Restart`, `Disconnect` | a process that starts over with the state of `start()`; the close events that others see |

A value is looked up by its text and stored under the hash of the text, so one
model value stands for both, and `HashOf` gives its key. Each request has its own
`resId` in the code; here a call number and the asked node identify it. A message
that a restarted node cannot decrypt is dropped there, which is a lost message. The API
takes calls at any time, so that several are in progress on one node: `call` has them all.
Records that are stored under other names (public keys, gateways) are not calls
of this module; they are those of `KeyDirectory` and `Gateway`. `Traffic` says which
nodes send each other messages of other kinds, also a node to itself; the rest meet by
stores and lookups.

`handled`, `acked` and `completed` are history, and so are the fields `replicas`, `listed` and
`completed` of a lookup: who had acknowledged the value to this node, runs since, and was
on its table when the lookup began. Only a restart of either end takes an acknowledgement out
of `acked`; a close event does not, as the replica holds the value all the same.

### `KeyExchange`

A key is `<<node, life>>`: a node makes a new pair each time it starts. A message
carries an offer (`keyExchange`), a secure payload (the sender's key, and the key
that it is encrypted for), both or neither.

| Action | Code |
|---|---|
| `SendStore`, `SecureStore`, `SendSingleFindValue`, `SecurePing`, `SendPlain`, `SendKeyDiscoveryRequest` | the six ways to send a request: `sendManyUdp`, `secureStore`, `sendSingleFindValue`, `securePing`, `handleFindNodeQuery` and the ping of a full bucket, `sendKeyDiscoveryRequest` |
| `Drop` | the `catch` around `processMessage`, which has stored the sender's key by then |
| `HandleStore` ... `HandleReply` | the cases of `handleMessage`, each with the answer of `handleMessageResponse`; `EchoOf` is the request's data that comes back in the PONG to a STORE |
| `HandleFoundResponse` | the case, and the listener of `udpMessageResolver`, which is what stores the offer |
| `HandleKeyDiscovery` | `handleKeyDiscoveryMessage` |
| `SetEncryptionEnabled`, `CleanupOldKeys`, `Restart` | the switch, the hourly cleaning, a new process |

The network is the set of all messages ever sent, so that loss, delay, repetition
and delivery to a restarted node need no actions of their own. Encryption is the
rule that a payload can be read by the key it was made for; signatures always
verify, because a payload carries the key it was signed with.

### `KeyDirectory`

The keys of a node are those of `KeyExchange`; here they come from pings, from
KEY_DISCOVERY and from the DHT. A lookup of a peer's key reads `ReadAt`, the hash of
the digits of `StoredAt`, because `findKeyInDHT` hashes the name of the key and
`findValue` hashes the number again. For none of the 32 numbers these are the same,
which is an assumption on the constants.

| Action | Code |
|---|---|
| `StoreOwnKeyInDHT`, `RegisterAsGateway` | the two kinds of records of a node that a lookup may take: its key, and a gateway's, which has no `publicKey` |
| `Bootstrap`, `PingSettled`, `PingTimeout` | `bootstrap`: one `securePing` after the other, then `discoverKeys` for the nodes given |
| `FindKeyInDHT`, `SendKeyDiscoveryRequest`, `KeyDiscoveryTimeout` | `requestPeerKey`, for one listed peer after the other |
| `DiscoverKeys` | the route that calls `discoverKeys`: it notes requests and sends nothing |
| `HandlePing`, `HandlePong`, `HandleKeyDiscovery` | the cases of `handleMessage`, with the key stored and the answer |
| `Elapse`, `Clean`, `Restart` | the age of a request, the hourly cleaning, a new process |

`SendKeyDiscoveryRequest` is always possible, because a lookup may return nothing;
`FindKeyInDHT` when some record under the key that is read names the peer. It stores what
the record has for a `publicKey` over whatever key is known, as the code does. The last
step of a bootstrap, `findNodes`, is `StartRound` of `Discovery`. `met` is history: pairs
whose ping was answered in time with the key that the peer still has.

### `Gateway`

A record is `[chain, node, stamp]`. `Primary` and `Specific` give the two keys it is
stored under, with whatever collisions the hash has.

| Action | Code |
|---|---|
| `NewGateway`, then `StoreGateway` or `StoreGatewaySecure` | `storeGateway`, `storeGatewaySimple` and the secure handler of the controller: the record is made, its endpoint checked, which is awaited, and then stored with `store` or `storeGatewaySecure`; also `registerAsGatewaySecure` |
| `RegisterAsGateway` | `registerAsGateway` and the heartbeat that repeats it |
| `StoreValue` | any other `store`, of a value or a public key |
| `FindGateways` | `findGateways` and `findGatewaysSecure` up to the first peer asked: the own registration, the local copy, the candidates |
| `HandleFoundResponse`, `FindTimeout` | the continuations of `sendSingleFindValue`: `Proceed` takes a record and returns, or asks the next peer |
| `HandleStore`, `HandleFindValue` | the cases of `handleMessage` |
| `Restart` | a process that starts over |

The table is not a variable here: each call finds some table of `Tables`, because
between two calls any message may have changed it. That is why the handlers leave
`updateTables` out, and why a PONG, which changes nothing else, is no message of this
module; nothing waits for it, as `storeGateway` settles whoever answers. `DhtStore`
has the tables. `holders` and `held` are history: the peers a lookup may ask that held
a record of the chain when it began, less those that did not answer or restarted.

`registerAsGateway` and the heartbeat are methods of the node that no route calls. The
FIND_GATEWAY message has a handler and no sender, and is left out.

### `Discovery`

A round is a record: its shortlist, the contacts that have answered, the iteration, and
the positions whose query has not settled. Rounds of one node overlap, because a query
waits 45 s and the cron job fires every 30 s.

| Action | Code |
|---|---|
| `StartRound` | the cron job: `findNodes`, with the first slice sent |
| `HandleFindNode` | the case of `handleMessage`: the requester is reported first, then the nearest peers are looked up |
| `HandleReply` | the case, and the continuation of `handleFindNodeQuery` |
| `QueryTimeout` | its `catch` |
| `Search`, `Proceed`, `EndRound` | not actions but their ends: the next slice of `findNodeRecursiveSearch`, or `updateTables` of the contacts and `refreshAndUpdateConnections` |
| `Connected`, `Refused`, `Disconnect` | the open, error and close events of a dialled socket, the last with `handleTcpDisconnet` |
| `Contact`, `Restart` | as in `DhtStore` |

The slice is `shortlist.slice(iteration * ALPHA, ...)`, as written: when a round starts
with fewer than `ALPHA` peers, as the first one does with node 0 alone, the first
answers land in positions that no slice covers. With `ALPHA` at 2, node 4 asks node 0,
is told of nodes 5 and 6, and asks node 6 only. Two nodes that know node 0 therefore need
not meet, and none of the properties says that they do.

`candidate` is `shortlist[0]` throughout, since a shortlist only grows. Each round that dials
a peer makes a socket of its own, `<<n, p, round>>`, and each socket has its own open, error
and close event; the entry in `connections` is that of the pair, so that the close event of
an earlier socket deletes the entry that a later one has made, and takes its peer off the
table. `cutOff` is history: the pairs whose last close event came while the peer was being
dialled again, which is how a connected peer can be missing on the table. A node's connection
to itself and inbound sockets, which are filed under its own id, never change its table;
they are in `WsTransport`.

### `WsTransport`

A socket has two ends, `Out` at the node that dialled and `In` at the server. Both are
filed under the id of the server, so that at the server all sockets share the entry of
the own id, each new one replacing the one before.

| Action | Code |
|---|---|
| `Dial` | `refreshAndUpdateConnections`, for one peer without a connection |
| `Accept`, `Open` | the server's connection event and the dialler's open event, both `handleNewSocket`: the socket is filed, and the listener of `_connect` sends the handshake on it |
| `Refuse` | the error event of a socket that a closed server does not take, which is only logged |
| `CloseEvent` | the close event and the listener of `_disconnect`: both Maps lose the id |
| `SendBroadcast` | `sendTcpTransportMessage` of a broadcast |
| `ReceiveHandshake`, `ReceiveBroadcast` | the message event, for the two types of packets |
| `Stop` | `stop`, as it leaves the transport: Maps cleared, server closed, sockets open |
| `Restart` | a process that ends and is started again, connected to itself |

A node dials itself when it starts, so every node begins as its own neighbour. An end
whose other end has gone may get its close event at any time, and what was sent to it is
lost; messages on a socket stay in order. `neighbors` maps every id to itself in the code
and is a set here. `log`, `linked`, `cut` and `due` are history: what the properties say
about broadcasts and links is said of them, and no guard reads them. A socket is out of
`linked` only when it has closed itself; when another socket of its id closes at its node it
is `cut`, since its entry may be gone, and `BroadcastReaches` says nothing of it (section 4).

Direct messages are left out. Nothing in the repository sends one, and none can be sent as
declared: `DirectData.to` is a number (`udpTransportTypes.ts:15`), `buildPacket` makes it the
destination (`node/nodeUtils.ts:44`), and `send` looks it up in two Maps whose keys are
strings, finds nothing and throws (`wsTransport.ts:159-163`).

## 3. The runs

| Run | Instance | Shows |
|---|---|---|
| `table` | the table of node 0 with itself among its contacts, 3-bit ids, buckets of 2; every key and count in every reachable table | `TypeOK`, `BucketsInv`, `FullBucketIsForeign`, `FindNodeComplete`, `KeyBucketFirst`, `NoEviction`, `ImplementsKnownPeers` |
| `udp_call` | one call of each type, up to 3 copies per datagram | `ResolvedMeansHandled`, `ImplementsUdpCall`, `EveryCallSettles`, `OnlyEarlyAnswersAreLost` |
| `dht_values` | 3 nodes, 2 values, 3 calls, at once or in turn, on a node that is far from both keys and asks one peer at a time; one replica | `TypeOK`, `ValueIntegrity`, `WriterFindsItsValue` |
| `dht_restart` | the same nodes, a value of 2 replicas, lookups that ask two peers at once, 2 calls, two restarts of any nodes | `AckedReplicaHolds`, `WriterFindsItsValue`, `EveryCallReturns` |
| `dht_readme_find` | 3 nodes, a store and a lookup on any of them | *violated*: a completed store is not found from a node that knows no holder |
| `discovery` | nodes 0, 4, 5 and 6; two rounds of node 4, which may overlap; one restart of node 4 or 6 | `TypeOK`, `RoundsAreShort`, `NoHearsay`, `ConnectedIsListed`, `MeetBothWays`, `RoundsEnd` |
| `keys` | three nodes, two requests, one restart, switching or cleaning | `TwoPartyKeys`, `KeysOfTheirNodeIfEnabled`, `DropsAreStale`, `FindValueExchanges` |
| `keys_switch` | two requests, one switching | *violated*: a key stored for a node that is not its own |
| `gateways` | 2 gateways of a chain, lookups on one of them, another chain whose key is also that of a value and of the gateways' own keys; 3 calls or restarts | `TypeOK`, `FoundIfHeld`, `LookupReturns`, `ImplementsRegistry` |
| `gateway_zero` | node 0 registers and looks itself up | *violated*: a record that a peer holds and is asked for is not found |
| `websockets` | three nodes in a row: 1 dials 0, 0 dials 2; a broadcast; one stop or restart of node 1 or 2 | `TypeOK`, `EntryIsOpen`, `NeighborsHaveSockets`, `HandledOnce`, `BroadcastReaches` |
| `directory` | nodes 3 and 7 with the hashes of the deployed code, two calls, one restart | `PingExchanges`, `BootstrapEnds`, `RequestsAreDropped` |

The bounds. Buckets hold 2 peers instead of 3 and ids have 2 or 3 bits, so that
full buckets, newcomers to them, own-id and equal-id cases all occur with at most
8 ids. In `DhtStore`, `REPLICAS` is 1 or 2 instead of 3: with 1 of 3 nodes a store
leaves some node out, as 3 replicas do among 5 or more, and with 2 it can fail with one
replica stored. `ALPHA` is at least
`REPLICAS`, as in the code, so a store is one chunk. `QUERIED` is not below the
number of peers, as 20 is not for 5-bit ids. Three calls are a store, a lookup that
times out, and one that its late answers meet; two restarts lose the state of the
writer and of a replica at any moment, or of one of them twice. In `dht_values` and
`dht_restart` the calling node is farther from the keys than the others: it keeps no copy
of its own and has to ask for its values, and a node closer than its replica may turn up in
between. Close events are handled on the nodes of `Callers` only, as what the others list
reaches nobody: the peers that a node answers with are ignored.
`MaxCalls`, `MaxRestarts`, `Callers` and `MaxCopies` bound the environment only.
In `KeyExchange` two requests are a first one that exchanges keys, or half of them,
and one that uses what the first has left; `MaxRequests` and
`MaxEvents` (restarts, switchings and cleanings together) bound the environment;
the handling of messages is not counted. Any node may send to itself, as nothing in
`securePing` or its route stops it.

In `Gateway`, `MaxEvents` counts calls and restarts together: two registrations and a
lookup overwrite a record and have late answers, one of each and a restart lose one.
`Serves` and `Finders` say which nodes register and which look up; with every node doing
both the states are the same up to renaming but for node 0, which has a run of its own.
`REPLICAS` is 1, so that holders differ from the peers a lookup asks first.

In `Discovery`, ids 4, 5 and 6 are the ones that make node 4's search go on after node
0's answer, so that rounds have a second slice; `Traffic` is what makes node 0 know
nodes 5 and 6, and node 6 know node 5, at any moment. `Discoverers`, `Restarting`,
`MaxRounds` and `MaxRestarts` bound the environment. Two rounds are enough to overlap, to
end in either order and to meet each other's late answers. Two rounds
dial nobody three times, which the exception of `ConnectedIsListed` takes (a socket that
closes late, one that is dialled meanwhile, and one that is dialled after it): in this
instance whoever is connected is listed, and the theorem `ConnectedStayListed` speaks of any
number of rounds.

In `WsTransport` the row of nodes is the smallest one with both kinds of sockets at one
node, so that a broadcast is passed on; `MaxDials` allows one of the two nodes to dial
again after a close, which is what gives an id two sockets. `MaxSends` is one message, because a
broadcast's copies in the inboxes interleave with everything already, and `MaxEvents`
one stop or restart of a node at either end of the row.

In `KeyDirectory` the keys are hashes of the deployed code: node 3 stores its key at 23
and is read at 13, node 7 stores at 2 and is read at 23, where the gateways of the chain
`sepolia` are. So the lookup of node 7's key meets the records of node 3 and of node 7 as
a gateway, which are all the kinds there are. `MaxCalls` is two bootstraps, or one and a
`discoverKeys`, so that the late answers of the first meet the second.

Fairness is assumed of timers: `Timeout`, `StoreTimeout`,
`FindTimeout`, `QueryTimeout` and those of a bootstrap, the age of a request and the
hourly cleaning are weakly fair because `setTimeout` and `setInterval` fire. No datagram
needs to arrive. Two more things are assumed. A bootstrap's lookup in the DHT returns,
which `EveryCallReturns` shows of `DhtStore`. And a socket whose ends are both open
delivers what was written to it, because TCP does and the event loop reads it.
`UdpTransport`, `DhtStore`, `KeyExchange`, `Gateway`, `WsTransport` and `KeyDirectory` stop when their bounds
are used up and all is settled, so their configurations do not check deadlock where that happens.

## 4. The findings

Three runs show where the code does not do what a document, a comment or a test says of it.

* `README.md:79` promises a previously stored value. `findValue` asks only the
  peers its own table lists, and ignores the peers that others answer with
  (`dht_readme_find`).
* `keyManager.ts:56` stores a key for a specific node. With encryption off, a
  responder echoes a STORE with its secure payload, and the sender files its own key
  under the responder: from then on it encrypts for itself (`keys_switch`).
* `test/gateway-http-dht.test.ts:254` expects a stored gateway to be found.
  `GatewayInfo.deserialize` takes the node id 0 for a missing one, so the records of
  the bootstrap node are stored and never found, except by that node itself after
  `registerAsGateway` or a secure registration (`gateway_zero`).

Others have no run of their own; they stand as the exception that a property names, or as
what a theorem states.

* `README.md:369` lists public key distribution via the DHT, and the comments of
  `requestPeerKey` (`node.ts:822-830`) and `keyDiscovery.ts:132,148` expect the same.
  `findKeyInDHT` hashes the name of the key and `findValue` hashes the digits of that again, so
  that the record `storeOwnKeyInDHT` wrote is never read; what is taken for a key is at most the
  node's record as a gateway, whose `publicKey` is `undefined`. `NothingFromTheDirectory` proves
  it for every network.
* `README.md:434-436` says that a bootstrap exchanges keys. Its pings do; then it looks the
  keys up in the DHT as well, and stores what it finds over them, such a missing key
  included. `PingExchanges` says that this is the only way to lose them, and
  `KeysAreExchangedWithoutGateways` that it needs a gateway of that node.
* `README.md:79` again, of the node that stored the value. A replica restarts and acknowledges
  the value; then the close event of the connection to its former process arrives, and
  `handleTcpDisconnet` takes it off the table although it has been heard from since. The
  writer's lookup asks whoever is left and returns nothing, although nobody failed to answer.
  What does hold is `WriterFindsItsValue`: no replica that is listed when the lookup begins,
  runs and answers is passed over.
* `wsTransport.ts:163` throws "Attempt to send data to connection that does not exist". The
  close event of a socket deletes the entry of its id, whichever socket it is of (line 139):
  a peer that was dialled again and has shaken hands is a neighbour over an open socket, and
  every send to it throws. `BroadcastReaches` speaks of the peers of which no other socket has
  closed.

Other things came up in modelling that no run is about. With 32 keys, a lookup may return
another value of the same key, also of one that nobody stored. `discoverKeys` only notes
requests and sends none, while `README.md:188-189` says that its route
initiates key discovery with all known peers; the keys that a node learns come from pings,
stores, lookups and the requests of a bootstrap. `stop` does not return, since the
server waits for the socket that the node dialled to itself (`Stop` of `WsTransport`). And
direct messages cannot be sent (`WsTransport` above).

## 5. The proofs

All theorems hold for every value of the constants that the named assumptions
allow (`KeyspaceAssumption`, `KBucketAssumption`, `RoutingTableAssumption`,
`UdpAssumption`, `DiscoveryAssumption`, `DhtAssumption`, `KeyExchangeAssumption`,
`KeyDirectoryAssumption`, `GatewayAssumption`, `WsAssumption`). Every safety invariant and
every action property that a passing run checks, and each of the three refinements, is
stated by a theorem. The assumptions are about the sets the constants are drawn from and say
nothing about behaviour; `KeyExchangeAssumption`, for one, asks that the constant for
"nothing" is neither a key nor a payload.

**`TableLemmas`.** What `updateTables` and the removal of a peer do to a well-formed
table (`TableOK`) and to its list of peers; and what `findNode` returns of it
(`FindNodeProperties`). For that, the order of distances is total and transitive
(`CloserOrder`), sorting is a bijection onto positions (`RankProperties`), so that a slice
has the size asked for, and the rounds of the loop end because the table is finite
(`FindNodeStops`). The modules that keep one table or several cite them.

**`RoutingTableProofs`.** The invariant `IInv` is inductive: the table is typed,
every bucket lists distinct peers that belong to it and at most `K_BUCKET_SIZE`
of them, and every pinged peer is a contact. Boundedness alone is not inductive:
moving a listed peer to the front keeps the length only because the peer is
listed once, and that a bucket never mixes the own id with others needs each
peer in its home bucket. The lemmas give the range, length and injectivity of
`RemoveNode`, `MoveToFront` and `UpdateBucketNode`. From `IInv` follow
`TypeCorrect`, `BucketsCorrect`, `ReverseIsDead`, `FindNodeIsComplete` and
`KeyBucketIsFirst`, the action property
`NobodyEvicted`, and `TableImplementsKnownPeers`: each step of the table is a
`Learn`, a `Forget` or a stutter of `KnownPeers`.

**`DiscoveryProofs`.** A round ends with `updateTables` of its contacts, one after the
other, so what that makes of a table is a recursion over a list (`UpdatedBucket`, one
bucket at a time). That its stages are defined by their predecessors is `StagesExist`, and
that all of them are what the first one is follows by induction on a set of numbers
(`NumbersFrom0`): the bucket stays well-formed, forgets nobody and gains contacts only
(`UpdatedAllGrows`). `IInv` has six parts.

* `Tables`: every table is well-formed.
* `Rounds`: the positions that wait are in the slice the round is at, rounds have different
  numbers, and a round is `Gaining`: either its slice has had no answer that named a closer
  peer, or it has had an answer and so more contacts than slices. `RoundsAreShort` alone is
  not inductive: a slice may end without an answer, and what keeps the bound is that the
  round then ends with it.
* `Datagrams`: a message with the number of a round in progress is about the query at its
  position (`About`), which keeps late answers to earlier rounds out of this one.
* `Hearing`: listed peers and contacts have been heard from.
* `Meeting`: contacts, and the senders of replies on the way, list the node that asked, or
  their bucket for it is full. That a full bucket stays full is why tables may only grow,
  until a close event or a restart puts the node into `shrunk`.
* `Links`: a peer that is being dialled or connected is listed or `cutOff`, and
  sockets are between two nodes.

Tables grow with every message (`GrowthKeeps`), and a round that starts, or is answered or
timed out, goes on or ends (`RoundKeeps`); each handler is one or both. It yields `DiscoveryTyped`,
`EverySliceGains`, `ListedAreHeard`, `RoundsIntroduce` and `ConnectedStayListed`.

**`DhtStoreProofs`.** `ValueIntegrity` is a statement about results, and a result comes out
of a message, a message out of a store and a store out of messages, so none of them is
sound alone. `IInv` says that stores and STORE messages hold values under their keys, that
no two calls in progress share a `resId`, and that a message with the id of a call in
progress is of its kind and its key (`About`). The ids are what keeps the late answer to
an earlier call out of this one: `Continues` says that a call goes on as itself, ends, or
is new under an id that no message has yet. For `AckedReplicaHolds` it adds that what the
handled STORE of a call in progress wrote is still there. A lookup makes a step in six
places of the code; `Looks` says once what each of them leaves, and `SettleQueryLooks`
that a settled query does. It yields `TypeCorrect`, `ValuesAreOfTheirKeys` and
`AckedReplicasHold`.

`WritersFindTheirValues` has one hypothesis, that there are no more nodes than a lookup asks;
TLC evaluates that the instances satisfy it. Nothing is assumed of the size of buckets, nor of
the order of close events: a replica that one of them, or a full bucket, keeps off the table when
the lookup begins is the case that section 4 tells of, and the property speaks of the others. `WInv` adds to `IInv` that a lookup in progress has asked, has missed or still has to ask each
of its listed replicas (`Pursues`), that its replicas hold something under its key
(`ReplicasHold`), and that none of them answers "no value" (`NoReplicaDenies`), which needs
that they have held it since before they were asked.

**`KeyExchangeProofs`.** Stored keys come out of messages and messages are made of
stored keys, so neither `TwoPartyKeys` nor `DropsAreStale` is inductive alone. `IInv`
says of every stored row and of every message sent that its keys were made by the
right node in a life it has had, and that encryption is on everywhere while nobody
has switched it. Lemmas show that each part a handler is made of (the key heard with
a payload, the offer learned, the answer, the echo) is sound, and `HandledKeeps`
puts them together. `EchoSound` is where switched-off encryption would break the
argument. It yields `OnlyTwoParties`, `KeysAreTheirs` and `OnlyStaleIsDropped`.

`LookupsExchange` proves `FindValueExchanges` from `EInv`, which adds three facts about
messages. The messages with one number are between the same two nodes (`Paired`), so the
answer that a lookup takes comes from the peer it asked. A FIND_VALUE carries the key
of the node that asks, as an offer or with its payload (`Asked`). And once there is a
FOUND_RESPONSE, its sender has a key of the node that asked (`Answered`), until it restarts;
the answer carries the other key. The two sides of the exchange are thus made at
different times, and the property speaks of the later one.

**`GatewayProofs`.** `IInv` says that whatever stands under a key, in a store or in a
STORE message, was written there, that an answer to a lookup in progress comes from its
key, and of an undisturbed lookup that it has found a gateway already or that all
holders are still to be heard from (`Pursued`). The last is not inductive without the
others: a holder's answer must carry an entry, which needs that the holder has had one
since the lookup began, in the store and in its answer on the way; a restart is what
breaks that, and takes the node off the holders. `Grows` shows that none of this is lost
as records are made; `StoringKeeps` and `ProceedKeeps` are the two kinds of steps. It
yields `TypeCorrect`, `HeldGatewaysAreFound` and `GatewaysImplementRegistry`: a
registration is a `Register`, a returning lookup an `Answer`, a restart a `Forget`, and
everything else a stutter of `GatewayRegistry`.

**`KeyDirectoryProofs`.** There are two invariants. `IInv` says that every record in the
directory is a key at its own node's `StoredAt`, or a gateway's: as `ReadAt` and `StoredAt`
never agree for one node, a lookup meets no key of that node, which is
`NothingFromTheDirectory`. `PInv` says
that keys in messages are those of a life their sender has had, that requests carry ids already given out,
and that while a PONG is awaited its sender still has the key that came with the ping. What
may stand in place of a key is `KeptOrReplaced`: no key, and then there is a gateway record of that
node under the key that is read for it. From it follow `PingsExchangeKeys`, and
`KeysAreExchangedWithoutGateways`: where no node can register as a gateway there, a
bootstrap keeps what README.md says of it.

**`TransportProofs`, over WebSockets.** `EntryIsOpen` depends on which of two close events
comes first, so `IInv` follows each socket from its dialling: the ends of one that is not
accepted are unknown to everybody, an entry is the end of a socket whose close its node
has not seen, and a neighbour has an end whose open event has been handled. For broadcasts
it says that whoever sent or handled one has marked it, and that a copy on the way was
marked by all that logged it before. It yields `EntriesAreOpen`,
`NeighborsAreConnected` and `BroadcastsAreHandledOnce`. The types
(`SocketsAreTyped`) need one thing more, `Counts`: the number of a socket does not exceed
the number of dials between its nodes. A bound on a sum over pairs of nodes is an induction
over data, so the dials are also counted in a variable of their own, `dialled`.

**`TransportProofs`, over UDP.** The inductive invariant relates answers in the network,
handled requests and listeners: an answer exists only for a handled request, a
listener only fires for its own event, and the listeners of a call whose callback has run
are all there until it settles (`ListenersKept`). It yields `ResolvedImpliesHandled`,
`AnswersResolve`, type correctness (`CallsAreTyped`), and the
refinement `TransportImplementsUdpCall`.

Only model-checked are the liveness properties (`EveryCallSettles`, `EveryCallReturns`,
`LookupReturns`, `RoundsEnd`, `BroadcastReaches`, `BootstrapEnds`, `RequestsAreDropped`),
which need fairness and `ENABLED`. The safety half of an argument for some of them is
proved: that a round gains a contact with every slice is what bounds a round
(`EverySliceGains`).

## 6. What is not modelled, and the plan

Not modelled for good:

* HTTP parsing and formatting, logging, the Redis client and the message queue, which the
  protocol does not use; the cryptographic primitives and `sha1`; the EVM package, which
  the node does not call;
* code that nothing calls: `importKeys`, `addPublicKey`, the handlers of
  `KeyDiscoveryManager` for requests and responses, `updatePeerDiscoveryInterval`; the
  FIND_GATEWAY message, which is never sent; the `ttl` of packets, which nothing counts
  down;
* the filters of the controller on the age and health of a gateway, which read records
  and change nothing;
* what `stop` does to the emitter and the UDP socket: a stopped node that is not started
  again is one whose messages are lost.

Planned, in this order:

1. The safety that the liveness properties rest on, as theorems: that a lookup in
   progress always has a question out or a peer left to ask, and a bootstrap a ping or a
   lookup, so that nothing waits without a timer to end it.
2. The operators: that `updateTables` of a list reports every contact, and that `findNode`
   lists its peers closest first.
