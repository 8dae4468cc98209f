------------------------------- MODULE Gateway ------------------------------
(***************************************************************************)
(* Registering gateways and finding them.                                  *)
(*                                                                         *)
(* A node registers as a gateway of a chain by storing a record under two  *)
(* keys: one that all gateways of the chain share, and one of its own that *)
(* nothing looks up.  A lookup collects the node's own registration, what  *)
(* the node itself stores under the shared key, and then asks the peers    *)
(* it knows, one at a time, until one answers with a record.               *)
(*                                                                         *)
(* The routing table is not tracked here: a call finds any of the tables a  *)
(* node may have at that time, as messages and closed connections leave it *)
(* (RoutingTable).  So a message that only reports its sender, as the ack-  *)
(* nowledgement of a STORE, needs no step, and handlers leave that out.    *)
(*                                                                         *)
(* Keys have few bits: the keys of two chains, or of a gateway and a value *)
(* of another kind, may coincide, and the later write replaces the earlier.*)
(* Datagrams are lost, late and reordered, and processes restart.          *)
(* A node does one lookup at a time here, and any number of registrations. *)
(***************************************************************************)
EXTENDS TableOps

CONSTANTS
    Node,         \* ids of the nodes, the bootstrap node among them
    Serves,       \* bound: [Node -> the chains it registers for]
    Finders,      \* bound: the nodes that look up, and that store other values
    Tables,       \* [Node -> the routing tables a call may find]
    Chain,        \* blockchain ids
    Primary,      \* [Chain -> key]: the hash of gw-<chain>
    Specific,     \* [Chain -> [Node -> key]]: the hash of gw-<chain>-<node>
    TextKeys,     \* keys of the values that are no gateway records
    None,         \* nothing
    Text,         \* a stored value that is no gateway record
    REPLICAS,     \* 3 in store
    QUERIED,      \* 10 in findGateways
    MaxEvents     \* bound: API calls and restarts in a behaviour

\* GatewayInfo.  The stamp is its time of creation; endpoint, public key and
\* health are not looked at by stores and lookups.
Stamp  == 0 .. MaxEvents
Record == [chain : Chain, node : Node, stamp : Stamp]

ASSUME GatewayAssumption ==
    /\ Node \subseteq Id /\ BootstrapId \in Node
    /\ Serves \in [Node -> SUBSET Chain]
    /\ Finders \subseteq Node
    /\ \A n \in Node : \A tbl \in Tables[n] : Peers(tbl) \subseteq Node
    /\ Primary \in [Chain -> Id]
    /\ Specific \in [Chain -> [Node -> Id]]
    /\ TextKeys \subseteq Id
    /\ Text # None /\ {Text, None} \cap Record = {}
    /\ None \notin [chain : Chain, found : SUBSET Record, held : BOOLEAN]
    /\ {REPLICAS, QUERIED} \subseteq Nat \ {0}
    /\ MaxEvents \in Nat

VARIABLES
    store,       \* [Node -> [Id -> entry]], RoutingTable.store
    registered,  \* [Node -> [Chain -> record]], registeredGateways
    network,     \* datagrams sent and not yet delivered
    pending,     \* registrations whose endpoint is being checked: <<record, way>>
    lookup,      \* [Node -> the lookup in progress]
    answer,      \* [Node -> what its latest lookup returned]
    events,      \* number of API calls and restarts so far; numbers calls, like resIds
    made         \* history: the records made so far

vars == <<store, registered, network, pending, lookup, answer, events,
          made>>

Entry == Record \cup {Text, None}

\* deserialize succeeds: the bootstrap node's id is 0, which counts as missing.
Parses(e) == e \in Record /\ e.node # BootstrapId

KeysOf(r) == {Primary[r.chain], Specific[r.chain][r.node]}

Init ==
    /\ store = [n \in Node |-> [k \in Id |-> None]]
    /\ registered = [n \in Node |-> [c \in Chain |-> None]]
    /\ network = {}
    /\ pending = {}
    /\ lookup = [n \in Node |-> None]
    /\ answer = [n \in Node |-> None]
    /\ events = 0
    /\ made = {}

Counted == events < MaxEvents /\ events' = events + 1

(***************************************************************************)
(* Storing, with tbl for the routing table.  The calls never reject, and   *)
(* the response does not depend on who acknowledged.                       *)
(***************************************************************************)
Targets(n, tbl, key) == FindNode(n, tbl, key, REPLICAS)

StoresLocally(n, tbl, key) ==
    LET targets == Targets(n, tbl, key)
    IN  /\ n \notin targets
        /\ \/ Cardinality(targets) < REPLICAS
           \/ \E t \in targets : Closer(n, t, key)

\* STORE messages with entry e to the targets of each of the keys.
SentBy(n, tbl, keys, e) ==
    UNION {{[type |-> "STORE", from |-> n, to |-> t, key |-> k, entry |-> e] :
               t \in Targets(n, tbl, k)} : k \in keys}

\* store, under each of the keys at once.
Store(n, tbl, keys, e) ==
    /\ store' = [store EXCEPT ![n] =
           [k \in Id |-> IF k \in keys /\ StoresLocally(n, tbl, k) THEN e ELSE @[k]]]
    /\ network' = network \cup SentBy(n, tbl, keys, e)

\* secureStore, which keeps no copy on the node itself.
SecureStore(n, tbl, keys, e) ==
    /\ network' = network \cup SentBy(n, tbl, keys, e)
    /\ UNCHANGED store

\* A request to register: the record is made and stamped, then its endpoint is
\* checked, which takes up to five seconds and may be switched off.
NewGateway(n, c, way) ==
    LET r == [chain |-> c, node |-> n, stamp |-> events]
    IN  /\ Counted
        /\ made' = made \cup {r}
        /\ pending' = pending \cup {<<r, way>>}
        /\ UNCHANGED <<store, registered, network, lookup, answer>>

StoreGateway(r, tbl) ==
    /\ <<r, "plain">> \in pending
    /\ pending' = pending \ {<<r, "plain">>}
    /\ Store(r.node, tbl, KeysOf(r), r)
    /\ UNCHANGED <<registered, lookup, answer, events, made>>

StoreGatewaySecure(r, tbl) ==
    /\ <<r, "secure">> \in pending
    /\ pending' = pending \ {<<r, "secure">>}
    /\ registered' = [registered EXCEPT ![r.node][r.chain] = r]
    /\ SecureStore(r.node, tbl, KeysOf(r), r)
    /\ UNCHANGED <<lookup, answer, events, made>>

\* registerAsGateway, which the heartbeat repeats: no check, and both a
\* registration and plain stores.
RegisterAsGateway(n, c, tbl) ==
    LET r == [chain |-> c, node |-> n, stamp |-> events]
    IN  /\ Counted
        /\ made' = made \cup {r}
        /\ registered' = [registered EXCEPT ![n][c] = r]
        /\ Store(n, tbl, KeysOf(r), r)
        /\ UNCHANGED <<pending, lookup, answer>>

\* A value or a public key is stored.
StoreValue(n, key, tbl) ==
    /\ Counted
    /\ Store(n, tbl, {key}, Text)
    /\ UNCHANGED <<registered, pending, lookup, answer, made>>

HandleStore(m) ==
    /\ m.type = "STORE"
    /\ store' = [store EXCEPT ![m.to][m.key] = m.entry]
    /\ network' = network \ {m}
    /\ UNCHANGED <<registered, pending, lookup, answer, events, made>>

(***************************************************************************)
(* findGateways and findGatewaysSecure                                     *)
(***************************************************************************)

\* Mutant of With: a record of any chain is taken.
WithAnyChain(found, c, e) ==
    IF Parses(e) /\ \A g \in found : g.node # e.node THEN found \cup {e} ELSE found

\* The gateways found so far and the entry e, if it is a record of the chain and
\* of a node that is not among them.
With(found, c, e) ==
    IF Parses(e) /\ e.chain = c /\ \A g \in found : g.node # e.node
    THEN found \cup {e} ELSE found

\* The lookup l of n returns.
Return(n, l) ==
    /\ answer' = [answer EXCEPT ![n] =
           [chain |-> l.chain, found |-> l.found, held |-> l.holders # {}]]
    /\ lookup' = [lookup EXCEPT ![n] = None]

\* Mutant of AskNext: the peer asked stays among those to ask.
AskNextAgain(n, l, sent) ==
    \E p \in Closest(l.rest, Primary[l.chain], 1) :
        /\ lookup' = [lookup EXCEPT ![n] = [l EXCEPT !.asked = p]]
        /\ network' = sent \cup
               {[type |-> "FIND_VALUE", id |-> l.id, from |-> n, to |-> p,
                 key |-> Primary[l.chain]]}
        /\ UNCHANGED answer

\* Mutant of AskNext: the peer asked is not noted.
AskNextUnnoted(n, l, sent) ==
    \E p \in Closest(l.rest, Primary[l.chain], 1) :
        /\ lookup' = [lookup EXCEPT ![n] = [l EXCEPT !.rest = l.rest \ {p}]]
        /\ network' = sent \cup
               {[type |-> "FIND_VALUE", id |-> l.id, from |-> n, to |-> p,
                 key |-> Primary[l.chain]]}
        /\ UNCHANGED answer

\* Ask the closest of the peers left; sent is in the network already.
AskNext(n, l, sent) ==
    \E p \in Closest(l.rest, Primary[l.chain], 1) :
        /\ lookup' = [lookup EXCEPT ![n] =
               [l EXCEPT !.asked = p, !.rest = l.rest \ {p}]]
        /\ network' = sent \cup
               {[type |-> "FIND_VALUE", id |-> l.id, from |-> n, to |-> p,
                 key |-> Primary[l.chain]]}
        /\ UNCHANGED answer

\* Mutant of Proceed: the first peer that answers ends the search.
ProceedOnce(n, l, e, sent) ==
    \/ /\ l.asked # None \/ l.rest = {}
       /\ Return(n, [l EXCEPT !.found = With(l.found, l.chain, e)])
       /\ network' = sent
    \/ l.asked = None /\ l.rest # {} /\ AskNext(n, l, sent)

\* The peer asked last has answered with e, or there is none yet.  A record ends
\* the search, also one of another chain; anything else does not.
Proceed(n, l, e, sent) ==
    \/ /\ Parses(e) \/ l.rest = {}
       /\ Return(n, [l EXCEPT !.found = With(l.found, l.chain, e)])
       /\ network' = sent
    \/ ~Parses(e) /\ l.rest # {} /\ AskNext(n, l, sent)

FindGateways(n, c, tbl) ==
    LET key        == Primary[c]
        own        == IF registered[n][c] # None THEN {registered[n][c]} ELSE {}
        candidates == FindNode(n, tbl, key, QUERIED)
        l == [id |-> events, chain |-> c, found |-> With(own, c, store[n][key]),
              rest |-> candidates, asked |-> None,
              holders |-> {p \in candidates \cup {n} :
                              store[p][key] \in Record /\ store[p][key].chain = c}]
    IN  /\ lookup[n] = None
        /\ Counted
        /\ Proceed(n, l, None, network)
        /\ UNCHANGED <<store, registered, pending, made>>

HandleFindValue(m) ==
    /\ m.type = "FIND_VALUE"
    /\ network' = (network \ {m}) \cup
           {[type |-> "FOUND_RESPONSE", id |-> m.id, from |-> m.to, to |-> m.from,
             entry |-> store[m.to][m.key]]}
    /\ UNCHANGED <<store, registered, pending, lookup, answer, events, made>>

\* An answer to a lookup that has moved on is ignored.
HandleFoundResponse(m) ==
    LET l == lookup[m.to]
    IN  /\ m.type = "FOUND_RESPONSE"
        /\ IF l # None /\ l.id = m.id /\ l.asked = m.from
           THEN Proceed(m.to, l, m.entry, network \ {m})
           ELSE network' = network \ {m} /\ UNCHANGED <<lookup, answer>>
        /\ UNCHANGED <<store, registered, pending, events, made>>

\* sendSingleFindValue turns a rejection into "no value".
FindTimeout(n) ==
    LET l == lookup[n]
    IN  /\ l # None
        /\ Proceed(n, [l EXCEPT !.holders = l.holders \ {l.asked}], None, network)
        /\ UNCHANGED <<store, registered, pending, events, made>>

(***************************************************************************)
(* The environment                                                         *)
(***************************************************************************)

\* The process of n is stopped and started again: all its state was in memory.
Restart(n) ==
    /\ Counted
    /\ store' = [store EXCEPT ![n] = [k \in Id |-> None]]
    /\ registered' = [registered EXCEPT ![n] = [c \in Chain |-> None]]
    /\ pending' = {w \in pending : w[1].node # n}
    /\ lookup' = [q \in Node |->
           IF q = n \/ lookup[q] = None THEN None
           ELSE [lookup[q] EXCEPT !.holders = @ \ {n}]]
    /\ answer' = [answer EXCEPT ![n] = None]
    /\ UNCHANGED <<network, made>>

Next ==
    \/ \E n \in Node : \E c \in Serves[n], way \in {"plain", "secure"} : NewGateway(n, c, way)
    \/ \E n \in Node : \E c \in Serves[n], tbl \in Tables[n] : RegisterAsGateway(n, c, tbl)
    \/ \E w \in pending : \E tbl \in Tables[w[1].node] :
          StoreGateway(w[1], tbl) \/ StoreGatewaySecure(w[1], tbl)
    \/ \E n \in Finders, key \in TextKeys : \E tbl \in Tables[n] : StoreValue(n, key, tbl)
    \/ \E n \in Finders, c \in Chain : \E tbl \in Tables[n] : FindGateways(n, c, tbl)
    \/ \E m \in network : HandleStore(m) \/ HandleFindValue(m) \/ HandleFoundResponse(m)
    \/ \E n \in Node : FindTimeout(n) \/ Restart(n)

\* Timers fire; nothing is assumed of the network.
Fairness == \A n \in Finders : WF_vars(FindTimeout(n))

Spec == Init /\ [][Next]_vars /\ Fairness

-----------------------------------------------------------------------------

(***************************************************************************)
(* Properties                                                              *)
(***************************************************************************)

Lookup ==
    [id : Nat, chain : Chain, found : SUBSET Record, rest : SUBSET Node,
     asked : Node, holders : SUBSET Node]

IsMessage(m) ==
    /\ m.from \in Node /\ m.to \in Node
    /\ \/ m.type = "STORE" /\ m.key \in Id /\ m.entry \in Record \cup {Text}
       \/ m.type = "FIND_VALUE" /\ m.key \in Id
       \/ m.type = "FOUND_RESPONSE" /\ m.entry \in Entry

\* The stores, registrations and calls have their types.
TypeOK ==
    /\ store \in [Node -> [Id -> Entry]]
    /\ registered \in [Node -> [Chain -> Record \cup {None}]]
    /\ \A m \in network : IsMessage(m)
    /\ pending \subseteq made \X {"plain", "secure"}
    /\ \A n \in Node : lookup[n] = None \/ lookup[n] \in Lookup
    /\ made \subseteq Record
    /\ events \in Nat

\* Nothing but records of chain c that can be read was ever stored under its key.
Undisturbed(c) ==
    /\ Primary[c] \notin TextKeys
    /\ \A r \in made : Primary[c] \in KeysOf(r) => r.chain = c /\ r.node # BootstrapId

\* A lookup comes back empty only if every peer that held a record of the chain
\* when it began, among those it knows, has failed to answer or restarted, no
\* matter how often the record is overwritten meanwhile (findGateways).
FoundIfHeld ==
    \A n \in Node :
        answer[n] # None /\ Undisturbed(answer[n].chain) /\ answer[n].held =>
            answer[n].found # {}

\* gateway-http-dht.test.ts:254: a stored gateway is found, here: if a peer that
\* is asked held it and answers.
FindsStoredGateway ==
    \A n \in Node : answer[n] # None /\ answer[n].held => answer[n].found # {}

\* Every lookup returns, whatever the network loses and whoever restarts.
LookupReturns == \A n \in Finders : lookup[n] # None ~> lookup[n] = None

\* What lookups return were registered gateways of the chain they ask for, one
\* for each node, whatever else is stored under the key of that chain.
Shown(a) == IF a = None THEN None ELSE [chain |-> a.chain, found |-> a.found]

Registry == INSTANCE GatewayRegistry WITH answer <- [n \in Node |-> Shown(answer[n])]

ImplementsRegistry == Registry!Spec
=============================================================================
