------------------------------ MODULE DhtStore ------------------------------
(***************************************************************************)
(* Storing and finding values across the nodes of a network.               *)
(*                                                                         *)
(* Every node keeps a routing table and a store, both in memory.  A value  *)
(* is stored under its own hash, which also is an identifier, on the       *)
(* REPLICAS closest peers the storing node knows, and on the node itself   *)
(* if it is closer than one of them.  A lookup asks the peers it knows,    *)
(* ALPHA at a time, closest first.                                         *)
(*                                                                         *)
(* Datagrams are reordered and may be lost: one that stays in the network  *)
(* while its caller times out is late, one that is never delivered is      *)
(* lost.  Calls on one node and on several interleave at every await.      *)
(***************************************************************************)
EXTENDS TableOps

CONSTANTS
    Node,         \* ids of the nodes, the bootstrap node among them
    Callers,      \* bound: the nodes whose API is called; only they see closings
    Traffic,      \* bound: <<n, p>>: p sends messages of other kinds to n
    Value,        \* values, which are also the names they are looked up by
    HashOf,       \* hashKeyAndmapToKeyspace, for these values
    None,         \* no value
    REPLICAS,     \* 3 in store
    QUERIED,      \* 20 in findValue
    ALPHA,        \* constants.ts: peers addressed at a time
    MaxCalls,     \* bound: API calls in a behaviour
    MaxRestarts   \* bound: restarts in a behaviour

ASSUME DhtAssumption ==
    /\ Node \subseteq Id /\ BootstrapId \in Node
    /\ Callers \subseteq Node
    /\ Traffic \subseteq Node \X Node
    /\ HashOf \in [Value -> Id]
    /\ None \notin Value
    /\ {REPLICAS, QUERIED, ALPHA} \subseteq Nat \ {0}
    /\ REPLICAS <= ALPHA   \* the targets of a store are one chunk
    /\ {MaxCalls, MaxRestarts} \subseteq Nat

VARIABLES
    table,      \* [Node -> routing table]
    store,      \* [Node -> [key -> value]], RoutingTable.store
    network,    \* datagrams sent and not yet delivered
    call,       \* [CallId -> the API call: in progress, returned, or lost]
    closing,    \* <<n, p>>: n has yet to see that its connection to p closed
    calls,      \* number of API calls so far; numbers them, like resIds
    restarts,   \* number of restarts so far
    handled,    \* history: <<id, h>>: h handled the STORE of call id, and runs since
    acked,      \* history: <<n, key, h>>: n has the acknowledgement of such an h
    completed   \* history: keys whose store was acknowledged by all targets

vars == <<table, store, network, call, closing, calls, restarts,
          handled, acked, completed>>

CallId == 0 .. MaxCalls - 1

\* A call that was not made yet, and one whose process ended before it returned.
Unmade == [kind |-> "unmade"]
Lost   == [kind |-> "lost"]

Running(c) == c.kind \in {"store", "find"}

Keys == {HashOf[v] : v \in Value}

\* What start() leaves: node 0 reported as a contact, at every node.
StartTable(n) == Updated(n, EmptyTable, BootstrapId)

Init ==
    /\ table = [n \in Node |-> StartTable(n)]
    /\ store = [n \in Node |-> [k \in {} |-> None]]
    /\ network = {}
    /\ call = [i \in CallId |-> Unmade]
    /\ closing = {}
    /\ calls = 0
    /\ restarts = 0
    /\ handled = {}
    /\ acked = {}
    /\ completed = {}

Put(st, key, v) == [k \in DOMAIN st \cup {key} |-> IF k = key THEN v ELSE st[k]]

\* Every message that is handled reports its sender to the routing table.
Heard(n, p) == table' = [table EXCEPT ![n] = Updated(n, @, p)]

(***************************************************************************)
(* store(key, value)                                                       *)
(***************************************************************************)
Targets(n, key) == FindNode(n, table[n], key, REPLICAS)

StoresLocally(n, key) ==
    LET targets == Targets(n, key)
    IN  /\ n \notin targets
        /\ \/ Cardinality(targets) < REPLICAS
           \/ \E t \in targets : Closer(n, t, key)

\* The store call i returned: the value if all targets acknowledged, else None.
Stored(i, v, result) ==
    call' = [call EXCEPT ![i] = [kind |-> "stored", value |-> v, result |-> result]]

StoreCall(n, v) ==
    LET key     == HashOf[v]
        targets == Targets(n, key)
    IN  /\ calls < MaxCalls
        /\ calls' = calls + 1
        /\ store' = IF StoresLocally(n, key)
                    THEN [store EXCEPT ![n] = Put(@, key, v)] ELSE store
        /\ network' = network \cup
               {[type |-> "STORE", id |-> calls, from |-> n, to |-> t,
                 key |-> key, value |-> v] : t \in targets}
        /\ IF targets = {} THEN Stored(calls, v, None)
           ELSE call' = [call EXCEPT ![calls] =
                    [kind |-> "store", at |-> n, value |-> v, waiting |-> targets]]
        /\ UNCHANGED <<table, closing, restarts, handled, acked, completed>>

\* Mutant of HandleStore: a node that knows a closer one acknowledges the value
\* without keeping it.
HandleStoreSkips(m) ==
    /\ m.type = "STORE"
    /\ Heard(m.to, m.from)
    /\ store' = IF \E p \in Peers(table[m.to]) : Closer(p, m.to, m.key) THEN store
                ELSE [store EXCEPT ![m.to] = Put(@, m.key, m.value)]
    /\ network' = (network \ {m}) \cup
           {[type |-> "PONG", id |-> m.id, from |-> m.to, to |-> m.from]}
    /\ handled' = handled \cup {<<m.id, m.to>>}
    /\ UNCHANGED <<call, closing, calls, restarts, acked, completed>>

HandleStore(m) ==
    /\ m.type = "STORE"
    /\ Heard(m.to, m.from)
    /\ store' = [store EXCEPT ![m.to] = Put(@, m.key, m.value)]
    /\ network' = (network \ {m}) \cup
           {[type |-> "PONG", id |-> m.id, from |-> m.to, to |-> m.from]}
    /\ handled' = handled \cup {<<m.id, m.to>>}
    /\ UNCHANGED <<call, closing, calls, restarts, acked, completed>>

\* Does the answer m settle a promise that a call of this process waits for?
Awaited(m) ==
    /\ Running(call[m.id])
    /\ call[m.id].at = m.to
    /\ m.from \in call[m.id].waiting

\* Promise.all resolves when the last target has acknowledged.
HandlePong(m) ==
    LET c == call[m.id]
        key == HashOf[c.value]
        waiting == c.waiting \ {m.from}
    IN  /\ m.type = "PONG"
        /\ Heard(m.to, m.from)
        /\ network' = network \ {m}
        /\ IF ~Awaited(m) THEN UNCHANGED <<call, acked, completed>>
           ELSE /\ acked' = acked \cup
                       {<<m.to, key, h>> : h \in {h \in {m.from} : <<m.id, h>> \in handled}}
                /\ IF waiting # {}
                   THEN /\ call' = [call EXCEPT ![m.id].waiting = waiting]
                        /\ UNCHANGED completed
                   ELSE /\ Stored(m.id, c.value, c.value)
                        /\ completed' = completed \cup {key}
        /\ UNCHANGED <<store, closing, calls, restarts, handled>>

\* One rejection rejects Promise.all: the call returns without a result, and
\* the answers of the other targets are no longer waited for.
StoreTimeout(i, t) ==
    /\ call[i].kind = "store"
    /\ t \in call[i].waiting
    /\ Stored(i, call[i].value, None)
    /\ UNCHANGED <<table, store, network, closing, calls, restarts, handled, acked, completed>>

(***************************************************************************)
(* findValue(value)                                                        *)
(*                                                                         *)
(* history: a lookup notes whether the store of its key was completed, the *)
(* replicas that had acknowledged it to this node and run since, and the   *)
(* peers that the table listed, all when it was called.                    *)
(***************************************************************************)

\* The call returns v: a value, or None.
Found(i, c, v, missed) ==
    call' = [call EXCEPT ![i] =
        [kind |-> "found", value |-> c.value, result |-> v, missed |-> missed,
         completed |-> c.completed, replicas |-> c.replicas, listed |-> c.listed]]

\* Mutant of AskNext: the peers asked stay among those to ask.
AskNextForgets(i, c, rest, missed, sent) ==
    LET key == HashOf[c.value]
        chunk == Closest(rest, key, ALPHA)
    IN  /\ call' = [call EXCEPT ![i] =
               [c EXCEPT !.waiting = chunk, !.rest = rest,
                         !.missed = missed, !.got = {}]]
        /\ network' = sent \cup
               {[type |-> "FIND_VALUE", id |-> i, from |-> c.at, to |-> p, key |-> key] :
                    p \in chunk}

\* Ask the ALPHA closest of the peers in rest; sent is in the network already.
AskNext(i, c, rest, missed, sent) ==
    LET key == HashOf[c.value]
        chunk == Closest(rest, key, ALPHA)
    IN  /\ call' = [call EXCEPT ![i] =
               [c EXCEPT !.waiting = chunk, !.rest = rest \ chunk,
                         !.missed = missed, !.got = {}]]
        /\ network' = sent \cup
               {[type |-> "FIND_VALUE", id |-> i, from |-> c.at, to |-> p, key |-> key] :
                    p \in chunk}

FindCall(n, v) ==
    LET key == HashOf[v]
        candidates == FindNode(n, table[n], key, QUERIED)
        c == [kind |-> "find", at |-> n, value |-> v, waiting |-> {},
              rest |-> {}, got |-> {}, missed |-> {}, completed |-> key \in completed,
              replicas |-> {h \in Node : <<n, key, h>> \in acked},
              listed |-> Peers(table[n])]
    IN  /\ calls < MaxCalls
        /\ calls' = calls + 1
        /\ IF key \in DOMAIN store[n]
           THEN Found(calls, c, store[n][key], {}) /\ UNCHANGED network
           ELSE IF candidates = {} THEN Found(calls, c, None, {}) /\ UNCHANGED network
           ELSE AskNext(calls, c, candidates, {}, network)
        /\ UNCHANGED <<table, store, closing, restarts, handled, acked, completed>>

\* Mutant of HandleFindValue: the peers of the answer are taken for a value.
HandleFindValuePeers(m) ==
    LET st == store[m.to]
    IN  /\ m.type = "FIND_VALUE"
        /\ Heard(m.to, m.from)
        /\ network' = (network \ {m}) \cup
               {[type |-> "FOUND_RESPONSE", id |-> m.id, from |-> m.to, to |-> m.from,
                 value |-> IF m.key \in DOMAIN st THEN st[m.key]
                           ELSE FindNode(m.to, table[m.to], m.key, QUERIED)]}
        /\ UNCHANGED <<store, call, closing, calls, restarts, handled, acked, completed>>

\* A node without the value answers with peers, which the caller ignores.
HandleFindValue(m) ==
    LET st == store[m.to]
    IN  /\ m.type = "FIND_VALUE"
        /\ Heard(m.to, m.from)
        /\ network' = (network \ {m}) \cup
               {[type |-> "FOUND_RESPONSE", id |-> m.id, from |-> m.to, to |-> m.from,
                 value |-> IF m.key \in DOMAIN st THEN st[m.key] ELSE None]}
        /\ UNCHANGED <<store, call, closing, calls, restarts, handled, acked, completed>>

\* Mutant of SettleQuery: the first peer to answer decides for its whole chunk.
SettleQueryFirst(i, got, missed, sent) ==
    LET c == call[i]
        waiting == c.waiting \ ({g[1] : g \in got} \cup missed)
    IN  /\ network' = sent
        /\ IF got # {} THEN \E g \in got : Found(i, c, g[2], missed)
           ELSE IF waiting # {} THEN call' = [call EXCEPT ![i].waiting = waiting,
                                                          ![i].missed = missed]
           ELSE Found(i, c, None, missed)

\* Mutant of SettleQuery: a chunk without the value ends the lookup.
SettleQueryGivesUp(i, got, missed, sent) ==
    LET c == call[i]
        key == HashOf[c.value]
        waiting == c.waiting \ ({g[1] : g \in got} \cup missed)
        closest == Closest({g[1] : g \in {h \in got : h[2] # None}}, key, 1)
    IN  IF waiting # {}
        THEN /\ call' = [call EXCEPT ![i].waiting = waiting, ![i].got = got,
                                     ![i].missed = missed]
             /\ network' = sent
        ELSE IF closest # {}
        THEN /\ \E g \in got : g[1] \in closest /\ Found(i, c, g[2], missed)
             /\ network' = sent
        ELSE Found(i, c, None, missed) /\ network' = sent

\* One query of the chunk has settled.  When all have, the value of the closest
\* peer that returned one is the result; without one, the next chunk is asked.
SettleQuery(i, got, missed, sent) ==
    LET c == call[i]
        key == HashOf[c.value]
        waiting == c.waiting \ ({g[1] : g \in got} \cup missed)
        closest == Closest({g[1] : g \in {h \in got : h[2] # None}}, key, 1)
    IN  IF waiting # {}
        THEN /\ call' = [call EXCEPT ![i].waiting = waiting, ![i].got = got,
                                     ![i].missed = missed]
             /\ network' = sent
        ELSE IF closest # {}
        THEN /\ \E g \in got : g[1] \in closest /\ Found(i, c, g[2], missed)
             /\ network' = sent
        ELSE IF c.rest # {} THEN AskNext(i, c, c.rest, missed, sent)
        ELSE Found(i, c, None, missed) /\ network' = sent

\* Mutant of HandleFoundResponse: answers are matched by node, not by resId.
HandleFoundResponseByNode(m) ==
    /\ m.type = "FOUND_RESPONSE"
    /\ Heard(m.to, m.from)
    /\ \/ \E i \in CallId :
             /\ call[i].kind = "find" /\ call[i].at = m.to /\ m.from \in call[i].waiting
             /\ SettleQuery(i, call[i].got \cup {<<m.from, m.value>>},
                            call[i].missed, network \ {m})
       \/ network' = network \ {m} /\ UNCHANGED call
    /\ UNCHANGED <<store, closing, calls, restarts, handled, acked, completed>>

HandleFoundResponse(m) ==
    /\ m.type = "FOUND_RESPONSE"
    /\ Heard(m.to, m.from)
    /\ IF Awaited(m)
       THEN SettleQuery(m.id, call[m.id].got \cup {<<m.from, m.value>>},
                        call[m.id].missed, network \ {m})
       ELSE network' = network \ {m} /\ UNCHANGED call
    /\ UNCHANGED <<store, closing, calls, restarts, handled, acked, completed>>

\* sendSingleFindValue turns a rejection into "no value".
FindTimeout(i, t) ==
    /\ call[i].kind = "find"
    /\ t \in call[i].waiting
    /\ SettleQuery(i, call[i].got, call[i].missed \cup {t}, network)
    /\ UNCHANGED <<table, store, closing, calls, restarts, handled, acked, completed>>

(***************************************************************************)
(* The environment                                                         *)
(***************************************************************************)

\* A message of another kind (a ping, discovery) from p reaches n.
Contact(n, p) ==
    /\ <<n, p>> \in Traffic
    /\ Heard(n, p)
    /\ UNCHANGED <<store, network, call, closing, calls, restarts, handled, acked, completed>>

\* The process of n is stopped and started again: all its state was in memory.
\* Nodes that know n see their connection to it close some time later.
Restart(n) ==
    /\ restarts < MaxRestarts
    /\ restarts' = restarts + 1
    /\ table' = [table EXCEPT ![n] = StartTable(n)]
    /\ store' = [store EXCEPT ![n] = [k \in {} |-> None]]
    /\ call' = [i \in CallId |->
          IF Running(call[i]) /\ call[i].at = n THEN Lost
          ELSE IF call[i].kind = "find" THEN [call[i] EXCEPT !.replicas = @ \ {n}]
          ELSE call[i]]
    /\ closing' = {e \in closing : e[1] # n} \cup
                  {<<q, n>> : q \in {r \in Node \ {n} : n \in Peers(table[r])}}
    /\ acked' = {a \in acked : a[1] # n /\ a[3] # n}
    /\ handled' = {h \in handled : h[2] # n}
    /\ completed' = {}
    /\ UNCHANGED <<network, calls>>

\* The close event of the connection: handleTcpDisconnet.
Disconnect(n, p) ==
    /\ <<n, p>> \in closing
    /\ closing' = closing \ {<<n, p>>}
    /\ table' = [table EXCEPT ![n] = Removed(n, @, p)]
    /\ UNCHANGED <<store, network, call, calls, restarts, handled, acked, completed>>

Handle(m) ==
    \/ HandleStore(m)
    \/ HandlePong(m)
    \/ HandleFindValue(m)
    \/ HandleFoundResponse(m)

Next ==
    \/ \E n \in Callers, v \in Value : StoreCall(n, v) \/ FindCall(n, v)
    \/ \E m \in network : Handle(m)
    \/ \E i \in CallId, t \in Node : StoreTimeout(i, t) \/ FindTimeout(i, t)
    \/ \E n, p \in Node : Contact(n, p)
    \/ \E n \in Callers, p \in Node : Disconnect(n, p)
    \/ \E n \in Node : Restart(n)

\* While timers run, one of them fires; nothing is assumed of the network.
Fairness == WF_vars(\E i \in CallId, t \in Node : StoreTimeout(i, t) \/ FindTimeout(i, t))

Spec == Init /\ [][Next]_vars /\ Fairness

-----------------------------------------------------------------------------

(***************************************************************************)
(* Properties                                                              *)
(***************************************************************************)

TypeOK ==
    /\ \A n \in Node : Peers(table[n]) \subseteq Node
    /\ \A n \in Node : DOMAIN store[n] \subseteq Keys /\ Range(store[n]) \subseteq Value
    /\ network \subseteq
          [type : {"STORE"}, id : CallId, from : Node, to : Node,
           key : Keys, value : Value]
          \cup [type : {"PONG"}, id : CallId, from : Node, to : Node]
          \cup [type : {"FIND_VALUE"}, id : CallId, from : Node, to : Node, key : Keys]
          \cup [type : {"FOUND_RESPONSE"}, id : CallId, from : Node, to : Node,
                value : Value \cup {None}]
    /\ \A i \in CallId : /\ call[i].kind \in {"unmade", "store", "find", "stored", "found", "lost"}
                         /\ call[i].kind = "unmade" <=> i >= calls
    /\ closing \subseteq Node \X Node
    /\ calls \in 0 .. MaxCalls
    /\ restarts \in 0 .. MaxRestarts

\* A lookup never returns a value of another key, however late or reordered the
\* answers to this and to other lookups are.
ValueIntegrity ==
    /\ \A n \in Node : \A k \in DOMAIN store[n] : HashOf[store[n][k]] = k
    /\ \A i \in CallId :
          call[i].kind = "found" /\ call[i].result # None =>
              HashOf[call[i].result] = HashOf[call[i].value]

\* A peer whose acknowledgement reached the storing node holds a value for the
\* key for as long as its process runs, also when the store call as a whole
\* failed because another peer did not answer.
AckedReplicaHolds == \A a \in acked : a[2] \in DOMAIN store[a[3]]

\* A node finds what it stored itself: a lookup comes back empty only if every
\* replica that had acknowledged the value, runs since, and was listed when the
\* lookup began, failed to answer it.
WriterFindsItsValue ==
    \A i \in CallId :
        call[i].kind = "found" /\ call[i].result = None =>
            call[i].replicas \cap call[i].listed \subseteq call[i].missed

\* Every API call returns, whatever the network loses and whoever restarts: again
\* and again no call is in progress.
EveryCallReturns == []<>(\A i \in CallId : ~Running(call[i]))

\* README.md:79-80: find value "returns a previously stored value in the DHT".
\* Here: a lookup that started after the store of the value was acknowledged,
\* and that no peer failed to answer, returns something.
FindsStoredValue ==
    \A i \in CallId :
        call[i].kind = "found" /\ call[i].completed /\ call[i].missed = {} =>
            call[i].result # None
=============================================================================
