---------------------------- MODULE KeyDirectory ----------------------------
(***************************************************************************)
(* Public keys kept as values of the DHT, and the bootstrap of a node.     *)
(*                                                                         *)
(* A node stores its public key under the hash of the name of the key when *)
(* it starts and every 30 minutes.  bootstrap() pings the nodes it is      *)
(* given, notes key discovery requests for them, then looks up the key of  *)
(* every listed peer in the DHT and asks a peer directly if nothing is     *)
(* found.  The lookup passes that hash to findValue, which hashes it       *)
(* again, so that what it reads is not what was stored.                    *)
(*                                                                         *)
(* Of the DHT there is only what DhtStore shows of it: a lookup returns a  *)
(* value that was once stored under the key that is read, or nothing.      *)
(* Values that are not records of a node are left out, because JSON.parse  *)
(* or the comparison of the ids gives them up.  Messages are lost, late    *)
(* and repeated as in KeyExchange, which also has the other messages that  *)
(* carry keys.                                                             *)
(***************************************************************************)
EXTENDS Integers, SequencesExt, FiniteSetsExt

CONSTANTS
    Node,          \* node ids
    StoredAt,      \* [Node -> key of the DHT]: the hash of "pubkey-<id>"
    ReadAt,        \* [Node -> key of the DHT]: the hash of the digits of StoredAt
    GatewayAt,     \* [Node -> keys of the DHT]: under which it may register as a gateway
    Given,         \* [Node -> Seq(Node)]: the nodes that bootstrap is called with
    Listed,        \* [Node -> Seq(Node)]: the peers on the table after it has pinged them
    None,          \* no key, nothing found
    Undefined,     \* the publicKey of a record that has none
    Callers,       \* bound: the nodes whose bootstrap or API is called
    MaxCalls,      \* bound: calls in all
    MaxRestarts    \* bound: restarts in all

\* The hash of the digits of a number below 32 is never that number.
ASSUME KeyDirectoryAssumption ==
    /\ \A n \in Node : StoredAt[n] # ReadAt[n]
    /\ \A n \in Node : {Given[n], Listed[n]} \subseteq Seq(Node) \ {<<>>}
    /\ None # Undefined /\ {None, Undefined} \cap (Node \X Nat) = {}
    /\ Callers \subseteq Node /\ {MaxCalls, MaxRestarts} \subseteq Nat

VARIABLES
    life,        \* [Node -> number of the key pair that the node has now]
    keys,        \* [Node -> [Node -> the key stored for a node, or None]]
    discovered,  \* [Node -> <<p, key>>]: discoveredKeys
    requests,    \* [Node -> [id, old]]: pendingRequests; old: for more than 30 seconds
    boot,        \* [Node -> the bootstrap in progress]
    records,     \* records ever stored in the DHT
    network,     \* every message sent
    calls,       \* calls so far
    sent,        \* number of requests sent so far; numbers resIds and requestIds
    met          \* history: <<n, p>>: a ping of n's bootstrap was answered by p; both
                 \*          run since, and neither has thrown keys away

vars == <<life, keys, discovered, requests, boot, records, network, calls, sent, met>>

Key == Node \X Nat
Own(n) == <<n, life[n]>>

Idle == [step |-> "idle"]

KeyRecord(n)        == [at |-> StoredAt[n], node |-> n, publicKey |-> Own(n)]
GatewayRecord(n, k) == [at |-> k, node |-> n, publicKey |-> Undefined]

\* Every node has started.
Init ==
    /\ life = [n \in Node |-> 0]
    /\ keys = [n \in Node |-> [p \in Node |-> None]]
    /\ discovered = [n \in Node |-> {}]
    /\ requests = [n \in Node |-> {}]
    /\ boot = [n \in Node |-> Idle]
    /\ records = {KeyRecord(n) : n \in Node}
    /\ network = {}
    /\ calls = 0
    /\ sent = 0
    /\ met = {}

-----------------------------------------------------------------------------
(* The directory *)

\* storeOwnKeyInDHT, from start and from the timer of 30 minutes
StoreOwnKeyInDHT(n) ==
    /\ records' = records \cup {KeyRecord(n)}
    /\ UNCHANGED <<life, keys, discovered, requests, boot, network, calls, sent, met>>

\* The records of registerAsGateway, with pubKey for publicKey.
RegisterAsGateway(n) ==
    /\ records' = records \cup {GatewayRecord(n, k) : k \in GatewayAt[n]}
    /\ UNCHANGED <<life, keys, discovered, requests, boot, network, calls, sent, met>>

\* What findKeyInDHT(p) may take from the DHT.
Verified(p) == {r \in records : r.at = ReadAt[p] /\ r.node = p}

-----------------------------------------------------------------------------
(* bootstrap *)

Message(type, n, p, id) ==
    [type |-> type, from |-> n, to |-> p, id |-> id, key |-> Own(n)]

\* The bootstrap of n pings the first of the nodes that are left.
Ping(n, left) ==
    /\ boot' = [boot EXCEPT ![n] = [step |-> "ping", left |-> left, id |-> sent]]
    /\ network' = network \cup {Message("PING", n, Head(left), sent)}
    /\ sent' = sent + 1

\* requestNodeKey notes a request; it sends nothing.
Noted(nodes) == [id : sent .. sent + Len(nodes) - 1, old : {FALSE}]

Bootstrap(n) ==
    /\ boot[n] = Idle
    /\ n \in Callers
    /\ calls < MaxCalls
    /\ calls' = calls + 1
    /\ Ping(n, Given[n])
    /\ UNCHANGED <<life, keys, discovered, requests, records, met>>

\* securePing has settled.  After the last one come the requests of discoverKeys, and
\* the keys of the listed peers are looked up.
PingSettled(n) ==
    LET left == Tail(boot[n].left)
    IN  IF left # <<>>
        THEN Ping(n, left) /\ UNCHANGED requests
        ELSE /\ boot' = [boot EXCEPT ![n] = [step |-> "look up", left |-> Listed[n]]]
             /\ requests' = [requests EXCEPT ![n] = @ \cup Noted(Given[n])]
             /\ sent' = sent + Len(Given[n])
             /\ UNCHANGED network

PingTimeout(n) ==
    /\ boot[n].step = "ping"
    /\ PingSettled(n)
    /\ UNCHANGED <<life, keys, discovered, records, calls, met>>

\* The next listed peer; after the last one, findNodes, which is in Discovery.
NextPeer(n) ==
    boot' = [boot EXCEPT ![n] =
        IF Len(@.left) > 1 THEN [step |-> "look up", left |-> Tail(@.left)] ELSE Idle]

\* requestPeerKey: what the DHT has is stored, whatever was known before.
FindKeyInDHT(n) ==
    /\ boot[n].step = "look up"
    /\ LET p == Head(boot[n].left) IN
       \E r \in Verified(p) :
          /\ keys' = [keys EXCEPT ![n][r.node] = r.publicKey]
          /\ discovered' = [discovered EXCEPT ![n] =
                {d \in @ : d[1] # r.node} \cup {<<r.node, r.publicKey>>}]
    /\ NextPeer(n)
    /\ UNCHANGED <<life, requests, records, network, calls, sent, met>>

\* Without a record the peer is asked.
SendKeyDiscoveryRequest(n) ==
    /\ boot[n].step = "look up"
    /\ boot' = [boot EXCEPT ![n] = [step |-> "request", left |-> @.left]]
    /\ network' = network \cup {Message("KEY_DISCOVERY", n, Head(boot[n].left), None)}
    /\ UNCHANGED <<life, keys, discovered, requests, records, calls, sent, met>>

\* Mutant of KeyDiscoveryTimeout: the peer is asked again.
KeyDiscoveryTimeoutRetries(n) ==
    /\ boot[n].step = "request"
    /\ boot' = [boot EXCEPT ![n] = [@ EXCEPT !.step = "look up"]]
    /\ UNCHANGED <<life, keys, discovered, requests, records, network, calls, sent, met>>

\* udpMessageResolver knows neither message, so that the request always times out,
\* and the next peer has its turn.
KeyDiscoveryTimeout(n) ==
    /\ boot[n].step = "request"
    /\ NextPeer(n)
    /\ UNCHANGED <<life, keys, discovered, requests, records, network, calls, sent, met>>

\* POST crypto/discover: discoverKeys, for all listed peers
DiscoverKeys(n) ==
    /\ n \in Callers
    /\ calls < MaxCalls
    /\ calls' = calls + 1
    /\ requests' = [requests EXCEPT ![n] = @ \cup Noted(Listed[n])]
    /\ sent' = sent + Len(Listed[n])
    /\ UNCHANGED <<life, keys, discovered, boot, records, network, met>>

-----------------------------------------------------------------------------
(* Messages *)

Stored(n, p, key) == keys' = [keys EXCEPT ![n][p] = key]

\* Mutant of HandlePing: the offer is not stored.
HandlePingNoOffer(m) ==
    /\ m.type = "PING"
    /\ network' = network \cup {Message("PONG", m.to, m.from, m.id)}
    /\ UNCHANGED <<life, keys, discovered, requests, boot, records, calls, sent, met>>

HandlePing(m) ==
    /\ m.type = "PING"
    /\ Stored(m.to, m.from, m.key)
    /\ network' = network \cup {Message("PONG", m.to, m.from, m.id)}
    /\ UNCHANGED <<life, discovered, requests, boot, records, calls, sent, met>>

\* The event of an awaited answer settles the ping.
HandlePong(m) ==
    LET n == m.to
        awaited == boot[n].step = "ping" /\ boot[n].id = m.id
    IN  /\ m.type = "PONG"
        /\ Stored(n, m.from, m.key)
        /\ IF awaited
           THEN /\ PingSettled(n)
                /\ met' = met \cup {<<n, p>> : p \in {q \in {m.from} : m.key = Own(q)}}
           ELSE UNCHANGED <<requests, boot, network, sent, met>>
        /\ UNCHANGED <<life, discovered, records, calls>>

\* handleKeyDiscoveryMessage
HandleKeyDiscovery(m) ==
    /\ m.type \in {"KEY_DISCOVERY", "KEY_RESPONSE"}
    /\ Stored(m.to, m.from, m.key)
    /\ network' = IF m.type = "KEY_RESPONSE" THEN network
                  ELSE network \cup {Message("KEY_RESPONSE", m.to, m.from, m.id)}
    /\ UNCHANGED <<life, discovered, requests, boot, records, calls, sent, met>>

-----------------------------------------------------------------------------
(* Time and restarts *)

\* Half a minute passes for the requests that n has noted.
Elapse(n) ==
    /\ requests' = [requests EXCEPT ![n] = {[r EXCEPT !.old = TRUE] : r \in @}]
    /\ UNCHANGED <<life, keys, discovered, boot, records, network, calls, sent, met>>

\* Mutant of Kept: the ages are compared the other way round.
KeptOld(n) == {r \in requests[n] : r.old}

\* What cleanupOldRequests keeps.
Kept(n) == {r \in requests[n] : ~ r.old}

\* The nodes whose ping n has answered and which still wait for the answer, for at
\* most two seconds: their keys are not old.
JustMet(n) ==
    {m.to : m \in {a \in network : /\ a.type = "PONG" /\ a.from = n
                                  /\ boot[a.to].step = "ping" /\ boot[a.to].id = a.id}}

\* The timer of one hour.  Which other keys are older than a day is left open.
Clean(n) ==
    /\ \E old \in SUBSET {p \in Node \ JustMet(n) : keys[n][p] # None} :
          /\ keys' = [keys EXCEPT ![n] = [p \in Node |-> IF p \in old THEN None ELSE @[p]]]
          /\ met' = {e \in met : ~ \E p \in old : {n, p} = {e[1], e[2]}}
    /\ requests' = [requests EXCEPT ![n] = Kept(n)]
    /\ UNCHANGED <<life, discovered, boot, records, network, calls, sent>>

\* The process ends and is started again: a new key pair, nothing else.
Restart(n) ==
    /\ MapThenSumSet(LAMBDA p : life[p], Node) < MaxRestarts
    /\ life' = [life EXCEPT ![n] = @ + 1]
    /\ keys' = [keys EXCEPT ![n] = [p \in Node |-> None]]
    /\ discovered' = [discovered EXCEPT ![n] = {}]
    /\ requests' = [requests EXCEPT ![n] = {}]
    /\ boot' = [boot EXCEPT ![n] = Idle]
    /\ met' = {e \in met : n \notin {e[1], e[2]}}
    /\ UNCHANGED <<records, network, calls, sent>>

-----------------------------------------------------------------------------

\* What a bootstrap does of its own accord: its timers, and its calls of findValue.
Proceed(n) ==
    PingTimeout(n) \/ FindKeyInDHT(n) \/ SendKeyDiscoveryRequest(n) \/ KeyDiscoveryTimeout(n)

HandleMessage(m) == HandlePing(m) \/ HandlePong(m) \/ HandleKeyDiscovery(m)

Next ==
    \/ \E n \in Node :
          \/ StoreOwnKeyInDHT(n) \/ RegisterAsGateway(n)
          \/ Bootstrap(n) \/ Proceed(n)
          \/ DiscoverKeys(n) \/ Elapse(n) \/ Clean(n) \/ Restart(n)
    \/ \E m \in network : HandleMessage(m)

\* Timers fire, and findValue returns (EveryCallReturns of DhtStore).
Fairness ==
    \A n \in Node :
        WF_vars(Proceed(n)) /\ WF_vars(Elapse(n)) /\ WF_vars(Clean(n))

Spec == Init /\ [][Next]_vars /\ Fairness

-----------------------------------------------------------------------------
(* Properties *)

HasKeyOf(n, p) == keys[n][p] \in Key /\ keys[n][p][1] = p

\* Two nodes whose ping in a bootstrap was answered in time hold keys of each other,
\* whatever comes in late, until one of them restarts or throws the other's key away.
\* One thing takes such a key away: a lookup that finds a gateway record of that node
\* under the key that is read for it, whose missing publicKey is stored over the key
\* (requestPeerKey), although src/README.md:434-436 says that a bootstrap exchanges keys.
PingExchanges ==
    \A n, p \in Node : <<n, p>> \in met =>
        \A e \in {<<n, p>>, <<p, n>>} :
            \/ HasKeyOf(e[1], e[2])
            \/ /\ keys[e[1]][e[2]] = Undefined
               /\ GatewayRecord(e[2], ReadAt[e[2]]) \in records

\* A bootstrap ends, whoever is silent, although each request of a key costs a full
\* timeout.
BootstrapEnds == \A n \in Node : boot[n] # Idle ~> boot[n] = Idle

\* The requests that discoverKeys notes and nobody ever answers do not stay.
RequestsAreDropped ==
    (\E n \in Node : requests[n] # {}) ~> (\A n \in Node : requests[n] = {})
=============================================================================
