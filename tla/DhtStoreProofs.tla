--------------------------- MODULE DhtStoreProofs ---------------------------
(***************************************************************************)
(* Proofs about storing and finding values, for any nodes, values, hash,   *)
(* numbers of replicas and bounds.                                         *)
(***************************************************************************)
EXTENDS DhtStore, TableLemmas

(***************************************************************************)
(* The invariant                                                           *)
(***************************************************************************)

StoreMsg == [type : {"STORE"}, id : CallId, from : Node, to : Node, key : Keys, value : Value]
PongMsg  == [type : {"PONG"}, id : CallId, from : Node, to : Node]
FindMsg  == [type : {"FIND_VALUE"}, id : CallId, from : Node, to : Node, key : Keys]
FoundMsg == [type : {"FOUND_RESPONSE"}, id : CallId, from : Node, to : Node,
             value : Value \cup {None}]

StoreRec  == [kind : {"store"}, at : Node, value : Value, waiting : SUBSET Node]
FindRec   == [kind : {"find"}, at : Node, value : Value, waiting : SUBSET Node,
              rest : SUBSET Node, got : SUBSET (Node \X (Value \cup {None})),
              missed : SUBSET Node, completed : BOOLEAN,
              replicas : SUBSET Node, listed : SUBSET Node]
StoredRec == [kind : {"stored"}, value : Value, result : Value \cup {None}]
FoundRec  == [kind : {"found"}, value : Value, result : Value \cup {None},
              missed : SUBSET Node, completed : BOOLEAN,
              replicas : SUBSET Node, listed : SUBSET Node]

Calls == {Unmade, Lost} \cup StoreRec \cup FindRec \cup StoredRec \cup FoundRec

\* v may come out of a lookup of w.
Fits(v, w) == v # None => HashOf[v] = HashOf[w]

\* A store waits for no peer whose id is the key, and what a lookup has got, or has
\* returned, is of its key.
SoundCall(c) ==
    /\ c \in Calls
    /\ c.kind = "store" => HashOf[c.value] \notin c.waiting
    /\ c.kind = "find"  => \A g \in c.got : Fits(g[2], c.value)
    /\ c.kind = "found" => Fits(c.result, c.value)

TablesInv == /\ table = [n \in Node |-> table[n]]
             /\ \A n \in Node : TableOK(n, Node, table[n])

StoresInv ==
    /\ store = [n \in Node |-> store[n]]
    /\ \A n \in Node : \A k \in DOMAIN store[n] :
          store[n][k] \in Value /\ HashOf[store[n][k]] = k

CallsInv ==
    /\ call = [i \in CallId |-> call[i]]
    /\ \A i \in CallId : SoundCall(call[i])
    /\ \A i \in CallId : call[i].kind = "unmade" <=> i >= calls

\* A message of a call in progress is of its kind and its key.
About(m) ==
    Running(call[m.id]) =>
        /\ m.type \in {"STORE", "PONG"} => call[m.id].kind = "store"
        /\ m.type \in {"FIND_VALUE", "FOUND_RESPONSE"} => call[m.id].kind = "find"
        /\ m.type \in {"STORE", "FIND_VALUE"} => m.key = HashOf[call[m.id].value]
        /\ m.type = "FOUND_RESPONSE" => Fits(m.value, call[m.id].value)

SoundMessage(m) ==
    /\ m \in StoreMsg \cup PongMsg \cup FindMsg \cup FoundMsg
    /\ m.id < calls
    /\ m.type = "STORE" => m.key = HashOf[m.value]

NetworkInv == \A m \in network : SoundMessage(m) /\ About(m)

\* Where the STORE of a call in progress was handled, something is under its key.
HandledInv ==
    /\ handled \subseteq CallId \X Node
    /\ \A h \in handled :
          /\ h[1] < calls
          /\ Running(call[h[1]]) => HashOf[call[h[1]].value] \in DOMAIN store[h[2]]

\* An acknowledged replica holds something, and is none whose id is the key.
AckedInv ==
    /\ acked \subseteq Node \X Keys \X Node
    /\ \A a \in acked : a[3] # a[2]
    /\ AckedReplicaHolds

CountsInv ==
    /\ calls \in 0 .. MaxCalls
    /\ restarts \in 0 .. MaxRestarts
    /\ closing \subseteq Node \X Node

\* The inductive invariant.
IInv == /\ TablesInv /\ StoresInv /\ CallsInv /\ NetworkInv
        /\ HandledInv /\ AckedInv /\ CountsInv

(***************************************************************************)
(* Records                                                                 *)
(***************************************************************************)

\* A call is of the records that its kind says.
LEMMA CallKinds ==
    ASSUME NEW c \in Calls
    PROVE  /\ c.kind = "store" <=> c \in StoreRec
           /\ c.kind = "find" <=> c \in FindRec
           /\ c.kind = "found" <=> c \in FoundRec
           /\ Running(c) <=> c.kind \in {"store", "find"}
           /\ c.kind \in {"unmade", "lost", "store", "find", "stored", "found"}
<1>1. /\ \A r \in StoreRec : r.kind = "store"
      /\ \A r \in FindRec : r.kind = "find"
      /\ \A r \in StoredRec : r.kind = "stored"
      /\ \A r \in FoundRec : r.kind = "found"
      /\ Unmade.kind = "unmade" /\ Lost.kind = "lost"
    BY DEF StoreRec, FindRec, StoredRec, FoundRec, Unmade, Lost
<1>2. c \in {Unmade, Lost} \cup StoreRec \cup FindRec \cup StoredRec \cup FoundRec
    BY DEF Calls
<1> QED BY <1>1, <1>2 DEF Running

\* A handler knows the kind of its message.
LEMMA MessageOfType ==
    ASSUME NEW m, SoundMessage(m)
    PROVE  /\ m.from \in Node /\ m.to \in Node /\ m.id \in CallId
           /\ m.type = "STORE" <=> m \in StoreMsg
           /\ m.type = "PONG" <=> m \in PongMsg
           /\ m.type = "FIND_VALUE" <=> m \in FindMsg
           /\ m.type = "FOUND_RESPONSE" <=> m \in FoundMsg
<1>1. m \in StoreMsg \cup PongMsg \cup FindMsg \cup FoundMsg
    BY DEF SoundMessage
<1>2. /\ \A r \in StoreMsg : r.type = "STORE"
      /\ \A r \in PongMsg  : r.type = "PONG"
      /\ \A r \in FindMsg  : r.type = "FIND_VALUE"
      /\ \A r \in FoundMsg : r.type = "FOUND_RESPONSE"
    BY DEF StoreMsg, PongMsg, FindMsg, FoundMsg
<1>3. CASE m \in StoreMsg   BY <1>2, <1>3 DEF StoreMsg
<1>4. CASE m \in PongMsg    BY <1>2, <1>4 DEF PongMsg
<1>5. CASE m \in FindMsg    BY <1>2, <1>5 DEF FindMsg
<1>6. CASE m \in FoundMsg   BY <1>2, <1>6 DEF FoundMsg
<1> QED BY <1>1, <1>3, <1>4, <1>5, <1>6

\* The hash of a value is a key; None is no value.
LEMMA HashType == /\ \A v \in Value : HashOf[v] \in Keys /\ HashOf[v] \in Id
                  /\ None \notin Value
BY DhtAssumption DEF Keys

\* The next resId is one of the bounded calls.
LEMMA NextCallId ==
    ASSUME CountsInv
    PROVE  /\ calls \in Nat /\ MaxCalls \in Nat /\ CallId \subseteq Nat
           /\ calls < MaxCalls => calls \in CallId
           /\ \A i \in CallId : i < calls \/ i >= calls
BY DhtAssumption DEF CountsInv, CallId

(***************************************************************************)
(* The steps of a lookup                                                   *)
(***************************************************************************)

\* findNode returns listed peers only.
LEMMA FindNodeListed ==
    ASSUME NEW me, NEW tbl, NEW key, NEW count
    PROVE  FindNode(me, tbl, key, count) \subseteq Peers(tbl) \ {key}
<1>1. \A home, r : Gathered(tbl, home, r, key) \subseteq Peers(tbl) \ {key}
    <2> SUFFICES ASSUME NEW home, NEW r
                 PROVE  Gathered(tbl, home, r, key) \subseteq Peers(tbl) \ {key}
        OBVIOUS
    <2>1. Within(tbl, home, r) \subseteq DOMAIN tbl
        BY DEF Within
    <2>2. ASSUME NEW q \in Gathered(tbl, home, r, key)
          PROVE  q \in Peers(tbl) \ {key}
        <3>1. q # key /\ \E i \in Within(tbl, home, r) : q \in Range(tbl[i])
            BY DEF Gathered
        <3> QED BY <2>1, <3>1 DEF Peers
    <2> QED BY <2>2
<1>2. \A S : Closest(S, key, count) \subseteq S
    BY DEF Closest
<1> QED BY <1>1, <1>2 DEF FindNode

\* The table of a process that has just started.
LEMMA StartTableOK == \A n \in Node : TableOK(n, Node, StartTable(n))
<1> SUFFICES ASSUME NEW n \in Node PROVE TableOK(n, Node, StartTable(n))
    OBVIOUS
<1>1. TableOK(n, Node, EmptyTable)
    BY DEF TableOK, EmptyTable
<1> QED BY <1>1, UpdatedProperties, DhtAssumption DEF StartTable

\* So findNode, at any node, returns nodes.
LEMMA CandidatesAreNodes ==
    ASSUME TablesInv, NEW n \in Node, NEW key, NEW count
    PROVE  FindNode(n, table[n], key, count) \in SUBSET Node
BY FindNodeListed, PeersInContacts DEF TablesInv

Queries(i, c) ==
    {m \in FindMsg : m.id = i /\ m.type = "FIND_VALUE" /\ m.key = HashOf[c.value]}

\* What one step leaves of the lookup c, call i: it waits on, having sent nothing but
\* queries of its own, or it returns what fits.
Looks(i, c, sent) ==
    \E d \in FindRec \cup FoundRec :
        /\ SoundCall(d) /\ d.value = c.value
        /\ d.kind = "find" => d.at = c.at
        /\ call' = [call EXCEPT ![i] = d]
        /\ network' \subseteq sent \cup Queries(i, c)
        /\ d.kind = "found" => network' = sent

\* Asking the next chunk of peers leaves a lookup that waits.
LEMMA AskNextLooks ==
    ASSUME NEW i \in CallId, NEW c \in FindRec, NEW rest \in SUBSET Node,
           NEW missed \in SUBSET Node, NEW sent, AskNext(i, c, rest, missed, sent)
    PROVE  Looks(i, c, sent)
<1> DEFINE key == HashOf[c.value]
           chunk == Closest(rest, key, ALPHA)
           d == [c EXCEPT !.waiting = chunk, !.rest = rest \ chunk,
                          !.missed = missed, !.got = {}]
           queries == {[type |-> "FIND_VALUE", id |-> i, from |-> c.at, to |-> p, key |-> key] :
                           p \in chunk}
<1>1. chunk \in SUBSET Node
    BY DEF Closest
<1>2. call' = [call EXCEPT ![i] = d] /\ network' = sent \cup queries
    BY DEF AskNext
<1>3. c.value \in Value /\ key \in Keys /\ c.at \in Node
    BY HashType DEF FindRec
<1> HIDE DEF chunk, key
<1>4. /\ d \in FindRec /\ d.got = {} /\ d.at = c.at /\ d.value = c.value
      /\ d.kind = "find"
    BY <1>1 DEF FindRec
<1>5. \A p \in chunk :
          LET q == [type |-> "FIND_VALUE", id |-> i, from |-> c.at, to |-> p, key |-> key]
          IN  q \in FindMsg /\ q.id = i /\ q.key = key /\ q.type = "FIND_VALUE"
    BY <1>1, <1>3 DEF FindMsg
<1>6. queries \subseteq Queries(i, c)
    BY <1>5 DEF Queries, key
<1> HIDE DEF d, queries
<1>7. SoundCall(d)
    BY <1>4 DEF SoundCall, Calls
<1> QED BY <1>2, <1>4, <1>6, <1>7 DEF Looks

\* Returning a value that fits ends the lookup with what fits.
LEMMA FoundLooks ==
    ASSUME NEW i \in CallId, NEW c \in FindRec, NEW v \in Value \cup {None}, Fits(v, c.value),
           NEW missed \in SUBSET Node, NEW sent, Found(i, c, v, missed), network' = sent
    PROVE  Looks(i, c, sent)
<1> DEFINE r == [kind |-> "found", value |-> c.value, result |-> v, missed |-> missed,
                 completed |-> c.completed, replicas |-> c.replicas, listed |-> c.listed]
<1>1. r \in FoundRec /\ r.result = v /\ r.value = c.value /\ r.kind = "found"
    BY DEF FindRec, FoundRec
<1>2. call' = [call EXCEPT ![i] = r]
    BY DEF Found
<1> HIDE DEF r
<1>3. SoundCall(r)
    BY <1>1 DEF SoundCall, Calls
<1> QED BY <1>1, <1>2, <1>3 DEF Looks

\* An answer that fits, or a timeout, leaves a lookup that waits or ends it well.
LEMMA SettleQueryLooks ==
    ASSUME NEW i \in CallId, call[i] \in FindRec,
           NEW got \in SUBSET (Node \X (Value \cup {None})),
           \A g \in got : Fits(g[2], call[i].value),
           NEW missed \in SUBSET Node, NEW sent, SettleQuery(i, got, missed, sent)
    PROVE  Looks(i, call[i], sent)
<1> DEFINE c == call[i]
           key == HashOf[c.value]
           waiting == c.waiting \ ({g[1] : g \in got} \cup missed)
           closest == Closest({g[1] : g \in {h \in got : h[2] # None}}, key, 1)
           d == [c EXCEPT !.waiting = waiting, !.got = got, !.missed = missed]
<1>1. c \in FindRec /\ c.waiting \in SUBSET Node /\ c.rest \in SUBSET Node
    BY DEF FindRec
<1>2. waiting \in SUBSET Node
    BY <1>1
<1>3. CASE waiting # {}
    <2>1. /\ call' = [call EXCEPT ![i].waiting = waiting, ![i].got = got,
                                  ![i].missed = missed]
          /\ network' = sent
        BY <1>3 DEF SettleQuery
    <2> HIDE DEF waiting
    <2>2. call' = [call EXCEPT ![i] = d]
        BY <2>1
    <2>3. /\ d \in FindRec /\ d.at = c.at /\ d.value = c.value /\ d.got = got
          /\ d.kind = "find"
        BY <1>1, <1>2 DEF FindRec
    <2> HIDE DEF d, c
    <2>4. SoundCall(d)
        BY <2>3 DEF SoundCall, Calls, c
    <2> QED BY <2>1, <2>2, <2>3, <2>4 DEF Looks, c
<1>4. CASE waiting = {} /\ closest # {}
    <2>1. /\ \E g \in got : g[1] \in closest /\ Found(i, c, g[2], missed)
          /\ network' = sent
        BY <1>4 DEF SettleQuery
    <2> HIDE DEF c
    <2>2. PICK g \in got : Found(i, c, g[2], missed)
        BY <2>1
    <2>3. g[2] \in Value \cup {None} /\ Fits(g[2], c.value)
        BY DEF c
    <2> QED BY <1>1, <2>1, <2>2, <2>3, FoundLooks DEF c
<1>5. CASE waiting = {} /\ closest = {} /\ c.rest # {}
    <2>1. AskNext(i, c, c.rest, missed, sent)
        BY <1>5 DEF SettleQuery
    <2> QED BY <1>1, <2>1, AskNextLooks
<1>6. CASE waiting = {} /\ closest = {} /\ c.rest = {}
    <2>1. Found(i, c, None, missed) /\ network' = sent
        BY <1>6 DEF SettleQuery
    <2>2. Fits(None, c.value)
        BY DEF Fits
    <2> QED BY <1>1, <2>1, <2>2, FoundLooks
<1> QED BY <1>3, <1>4, <1>5, <1>6

(***************************************************************************)
(* Every step keeps each part of the invariant                             *)
(***************************************************************************)

\* updateTables keeps the tables well-formed.
LEMMA HeardKeeps ==
    ASSUME TablesInv, NEW n \in Node, NEW p \in Node, Heard(n, p)
    PROVE  TablesInv'
<1> DEFINE t == Updated(n, table[n], p)
<1>1. Node \in SUBSET Id
    BY DhtAssumption
<1>2. TableOK(n, Node, t)
    BY <1>1, UpdatedProperties DEF TablesInv
<1>3. table' = [table EXCEPT ![n] = t]
    BY DEF Heard
<1> HIDE DEF t
<1> QED BY <1>2, <1>3 DEF TablesInv

\* Every step keeps the tables well-formed: handlers report their sender, which is a node.
LEMMA TablesKeep == IInv /\ [Next]_vars => TablesInv'
<1> SUFFICES ASSUME IInv, [Next]_vars PROVE TablesInv'
    OBVIOUS
<1>1. TablesInv /\ NetworkInv /\ CountsInv
    BY DEF IInv
<1>2. Node \in SUBSET Id
    BY DhtAssumption
<1>3. ASSUME NEW m \in network, Handle(m) PROVE TablesInv'
    <2>1. m.from \in Node /\ m.to \in Node
        BY <1>1, MessageOfType DEF NetworkInv
    <2>2. Heard(m.to, m.from)
        BY <1>3 DEF Handle, HandleStore, HandlePong, HandleFindValue, HandleFoundResponse
    <2> QED BY <1>1, <2>1, <2>2, HeardKeeps
<1>4. ASSUME NEW n \in Node, NEW p \in Node, Contact(n, p) PROVE TablesInv'
    BY <1>1, <1>4, HeardKeeps DEF Contact
<1>5. ASSUME NEW n \in Node, NEW p \in Node, Disconnect(n, p) PROVE TablesInv'
    <2> DEFINE t == Removed(n, table[n], p)
    <2>1. TableOK(n, Node, t)
        BY <1>1, <1>2, RemovedProperties DEF TablesInv
    <2>2. table' = [table EXCEPT ![n] = t]
        BY <1>5 DEF Disconnect
    <2> HIDE DEF t
    <2> QED BY <1>1, <2>1, <2>2 DEF TablesInv
<1>6. ASSUME NEW n \in Node, Restart(n) PROVE TablesInv'
    <2>1. TableOK(n, Node, StartTable(n))
        BY StartTableOK
    <2>2. table' = [table EXCEPT ![n] = StartTable(n)]
        BY <1>6 DEF Restart
    <2> QED BY <1>1, <2>1, <2>2 DEF TablesInv
<1>7. CASE UNCHANGED table
    BY <1>1, <1>7 DEF TablesInv
<1> QED BY <1>3, <1>4, <1>5, <1>6, <1>7, DhtAssumption
        DEF Next, StoreCall, FindCall, StoreTimeout, FindTimeout, vars

\* nodeStore keeps what a store has, and adds the value.
LEMMA PutKeeps ==
    ASSUME StoresInv, NEW n \in Node, NEW v \in Value,
           store' = [store EXCEPT ![n] = Put(@, HashOf[v], v)]
    PROVE  /\ StoresInv'
           /\ HashOf[v] \in DOMAIN store'[n]
           /\ \A p \in Node : DOMAIN store[p] \subseteq DOMAIN store'[p]
<1> DEFINE st == Put(store[n], HashOf[v], v)
<1>1. /\ DOMAIN st = DOMAIN store[n] \cup {HashOf[v]}
      /\ \A k \in DOMAIN st : st[k] = IF k = HashOf[v] THEN v ELSE store[n][k]
    BY DEF Put
<1>2. store' = [store EXCEPT ![n] = st]
    OBVIOUS
<1> HIDE DEF st
<1>3. \A k \in DOMAIN st : st[k] \in Value /\ HashOf[st[k]] = k
    BY <1>1 DEF StoresInv
<1> QED BY <1>1, <1>2, <1>3 DEF StoresInv

\* What a step does to the stores: nothing, or one more value under its key, or a
\* node loses everything.
LEMMA StoresStep ==
    ASSUME IInv, [Next]_vars
    PROVE  /\ StoresInv'
           /\ \A n \in Node : DOMAIN store[n] \subseteq DOMAIN store'[n] \/ Restart(n)
<1>1. StoresInv /\ NetworkInv
    BY DEF IInv
<1>2. ASSUME NEW n \in Node, NEW v \in Value, StoreCall(n, v)
      PROVE  StoresInv' /\ \A p \in Node : DOMAIN store[p] \subseteq DOMAIN store'[p]
    <2>1. CASE store' = store
        BY <1>1, <2>1 DEF StoresInv
    <2>2. CASE store' = [store EXCEPT ![n] = Put(@, HashOf[v], v)]
        BY <1>1, <2>2, PutKeeps
    <2> QED BY <1>2, <2>1, <2>2 DEF StoreCall
<1>3. ASSUME NEW m \in network, HandleStore(m)
      PROVE  StoresInv' /\ \A p \in Node : DOMAIN store[p] \subseteq DOMAIN store'[p]
    <2>1. m \in StoreMsg /\ m.key = HashOf[m.value]
        BY <1>1, <1>3, MessageOfType DEF NetworkInv, HandleStore, SoundMessage
    <2>2. m.to \in Node /\ m.value \in Value
        BY <2>1 DEF StoreMsg
    <2>3. store' = [store EXCEPT ![m.to] = Put(@, HashOf[m.value], m.value)]
        BY <1>3, <2>1 DEF HandleStore
    <2> QED BY <1>1, <2>2, <2>3, PutKeeps
<1>4. ASSUME NEW n \in Node, Restart(n)
      PROVE  /\ StoresInv'
             /\ \A p \in Node : DOMAIN store[p] \subseteq DOMAIN store'[p] \/ Restart(p)
    <2>1. store' = [store EXCEPT ![n] = [k \in {} |-> None]]
        BY <1>4 DEF Restart
    <2>2. StoresInv'
        BY <1>1, <2>1 DEF StoresInv
    <2>3. \A p \in Node : p # n => store'[p] = store[p]
        BY <1>1, <2>1 DEF StoresInv
    <2> QED BY <1>4, <2>2, <2>3
<1>5. CASE UNCHANGED store
    BY <1>1, <1>5 DEF StoresInv
<1> QED BY <1>2, <1>3, <1>4, <1>5, DhtAssumption
        DEF Next, Handle, FindCall, StoreTimeout, FindTimeout, HandlePong, HandleFindValue,
            HandleFoundResponse, Contact, Disconnect, vars

\* The steps that settle something for a lookup, as Looks has them.
LEMMA FindCallLooks ==
    ASSUME IInv, NEW n \in Node, NEW v \in Value, FindCall(n, v)
    PROVE  /\ calls \in CallId /\ calls' = calls + 1
           /\ \E c \in FindRec : c.value = v /\ Looks(calls, c, network)
<1> DEFINE key == HashOf[v]
           candidates == FindNode(n, table[n], key, QUERIED)
           c == [kind |-> "find", at |-> n, value |-> v, waiting |-> {},
                 rest |-> {}, got |-> {}, missed |-> {}, completed |-> key \in completed,
                 replicas |-> {h \in Node : <<n, key, h>> \in acked},
                 listed |-> Peers(table[n])]
<1>1. calls < MaxCalls /\ calls' = calls + 1 /\ calls \in CallId
    BY NextCallId DEF IInv, FindCall
<1>2. c \in FindRec /\ c.value = v
    <2>1. Peers(table[n]) \in SUBSET Node
        BY PeersInContacts DEF IInv, TablesInv
    <2> QED BY <2>1 DEF FindRec
<1>3. candidates \in SUBSET Node
    BY CandidatesAreNodes DEF IInv
<1>4. IF key \in DOMAIN store[n]
      THEN Found(calls, c, store[n][key], {}) /\ network' = network
      ELSE IF candidates = {} THEN Found(calls, c, None, {}) /\ network' = network
      ELSE AskNext(calls, c, candidates, {}, network)
    BY DEF FindCall
<1> HIDE DEF c, candidates
<1>5. CASE key \in DOMAIN store[n]
    <2>1. store[n][key] \in Value /\ Fits(store[n][key], c.value)
        BY <1>2, <1>5 DEF IInv, StoresInv, Fits
    <2> QED BY <1>1, <1>2, <1>4, <1>5, <2>1, FoundLooks
<1>6. CASE key \notin DOMAIN store[n] /\ candidates = {}
    <2>1. Fits(None, c.value)
        BY DEF Fits
    <2> QED BY <1>1, <1>2, <1>4, <1>6, <2>1, FoundLooks
<1>7. CASE key \notin DOMAIN store[n] /\ candidates # {}
    BY <1>1, <1>2, <1>3, <1>4, <1>7, AskNextLooks
<1> QED BY <1>5, <1>6, <1>7

\* A call in progress is of the records of its kind.
LEMMA CallOfKind ==
    ASSUME IInv, NEW i \in CallId
    PROVE  /\ SoundCall(call[i]) /\ call[i] \in Calls
           /\ call[i].kind = "store" => call[i] \in StoreRec
           /\ call[i].kind = "find" => call[i] \in FindRec
           /\ Running(call[i]) => call[i].kind \in {"store", "find"} /\ i < calls
<1>1. SoundCall(call[i]) /\ call[i] \in Calls
    BY DEF IInv, CallsInv, SoundCall
<1>2. call[i].kind # "unmade" => i < calls
    BY NextCallId DEF IInv, CallsInv
<1> QED BY <1>1, <1>2, CallKinds

\* A timeout of a query is a step of its lookup.
LEMMA FindTimeoutLooks ==
    ASSUME IInv, NEW i \in CallId, NEW t \in Node, FindTimeout(i, t)
    PROVE  call[i] \in FindRec /\ Looks(i, call[i], network)
<1>1. SoundCall(call[i]) /\ call[i].kind = "find" /\ call[i] \in FindRec
    BY CallOfKind DEF FindTimeout
<1>2. /\ call[i].got \in SUBSET (Node \X (Value \cup {None}))
      /\ call[i].missed \cup {t} \in SUBSET Node
    BY <1>1 DEF FindRec
<1>3. SettleQuery(i, call[i].got, call[i].missed \cup {t}, network)
    BY DEF FindTimeout
<1>4. \A g \in call[i].got : Fits(g[2], call[i].value)
    BY <1>1 DEF SoundCall
<1> QED BY <1>1, <1>2, <1>3, <1>4, SettleQueryLooks

\* So is an awaited answer: it is of the call by its resId, and so of its key.
LEMMA FoundResponseLooks ==
    ASSUME IInv, NEW m \in network, HandleFoundResponse(m), Awaited(m)
    PROVE  m.id \in CallId /\ call[m.id] \in FindRec /\ Looks(m.id, call[m.id], network \ {m})
<1> DEFINE i == m.id
           got == call[i].got \cup {<<m.from, m.value>>}
<1>1. SoundMessage(m) /\ About(m) /\ m.type = "FOUND_RESPONSE"
    BY DEF IInv, NetworkInv, HandleFoundResponse
<1>2. m \in FoundMsg /\ i \in CallId
    BY <1>1, MessageOfType
<1>3. m.from \in Node /\ m.value \in Value \cup {None}
    BY <1>2 DEF FoundMsg
<1>4. call[i].kind = "find" /\ Fits(m.value, call[i].value)
    BY <1>1 DEF About, Awaited
<1>5. SoundCall(call[i]) /\ call[i] \in FindRec
    BY <1>2, <1>4, CallOfKind
<1>6. got \in SUBSET (Node \X (Value \cup {None})) /\ call[i].missed \in SUBSET Node
    BY <1>3, <1>5 DEF FindRec
<1>7. \A g \in got : Fits(g[2], call[i].value)
    BY <1>4, <1>5 DEF SoundCall
<1>8. SettleQuery(i, got, call[i].missed, network \ {m})
    BY DEF HandleFoundResponse
<1> HIDE DEF i, got
<1>9. Looks(i, call[i], network \ {m})
    BY <1>2, <1>5, <1>6, <1>7, <1>8, SettleQueryLooks
<1> QED BY <1>2, <1>5, <1>9 DEF i

\* Call i has ended, goes on as itself, or is a new one.
Continues(i) ==
    \/ ~ Running(call'[i])
    \/ /\ Running(call[i]) /\ call'[i].kind = call[i].kind
       /\ call'[i].at = call[i].at /\ call'[i].value = call[i].value
    \/ i = calls

\* A step that sets one call to a sound one keeps them all.
LEMMA CallSet ==
    ASSUME CallsInv, CountsInv, NEW i \in CallId, NEW c, SoundCall(c), c.kind # "unmade",
           call' = [call EXCEPT ![i] = c],
           \/ calls' = calls /\ i < calls
           \/ calls' = calls + 1 /\ i = calls
    PROVE  /\ CallsInv'
           /\ call'[i] = c
           /\ \A j \in CallId : j # i => call'[j] = call[j] /\ Continues(j)
<1>1. /\ call'[i] = c /\ \A j \in CallId : j # i => call'[j] = call[j]
      /\ call' = [j \in CallId |-> call'[j]]
    BY DEF CallsInv
<1>2. \A j \in CallId : SoundCall(call'[j])
    BY <1>1 DEF CallsInv
<1>3. \A j \in CallId : call'[j].kind = "unmade" <=> j >= calls'
    <2> SUFFICES ASSUME NEW j \in CallId
                 PROVE  call'[j].kind = "unmade" <=> j >= calls'
        OBVIOUS
    <2>1. calls \in Nat /\ i \in Nat /\ j \in Nat
        BY NextCallId
    <2>2. CASE j = i
        <3>1. ~ (j >= calls')
            BY <2>1, <2>2
        <3> QED BY <1>1, <2>2, <3>1
    <2>3. CASE j # i
        <3>1. call[j].kind = "unmade" <=> j >= calls
            BY DEF CallsInv
        <3>2. j >= calls' <=> j >= calls
            BY <2>1, <2>3
        <3> QED BY <1>1, <2>3, <3>1, <3>2
    <2> QED BY <2>2, <2>3
<1>4. \A j \in CallId : j # i => Continues(j)
    BY <1>1 DEF Continues
<1> QED BY <1>1, <1>2, <1>3, <1>4 DEF CallsInv

\* So does one that changes no call.
LEMMA CallSame ==
    ASSUME CallsInv, call' = call, calls' = calls
    PROVE  CallsInv' /\ \A j \in CallId : Continues(j)
BY DEF CallsInv, Continues

\* A lookup that has made a step is a call, or has returned.
LEMMA LooksKeepsCalls ==
    ASSUME CallsInv, CountsInv, NEW i \in CallId, NEW c \in FindRec, NEW sent,
           Looks(i, c, sent),
           \/ calls' = calls /\ i < calls /\ c = call[i]
           \/ calls' = calls + 1 /\ i = calls
    PROVE  CallsInv' /\ \A j \in CallId : Continues(j)
<1>1. PICK d \in FindRec \cup FoundRec :
          /\ SoundCall(d) /\ d.value = c.value
          /\ d.kind = "find" => d.at = c.at
          /\ call' = [call EXCEPT ![i] = d]
    BY DEF Looks
<1>2. d.kind \in {"find", "found"} /\ c.kind = "find" /\ d \in Calls /\ c \in Calls
    BY CallKinds DEF Calls
<1>3. /\ CallsInv' /\ call'[i] = d
      /\ \A j \in CallId : j # i => Continues(j)
    BY <1>1, <1>2, CallSet
<1>4. Continues(i)
    BY <1>1, <1>2, <1>3, CallKinds DEF Continues
<1> QED BY <1>3, <1>4

\* A store call that returns.
LEMMA StoredKeepsCalls ==
    ASSUME CallsInv, CountsInv, NEW i \in CallId, NEW v \in Value,
           NEW result \in Value \cup {None}, Stored(i, v, result),
           \/ calls' = calls /\ i < calls
           \/ calls' = calls + 1 /\ i = calls
    PROVE  CallsInv' /\ ~ Running(call'[i]) /\ \A j \in CallId : Continues(j)
<1> DEFINE d == [kind |-> "stored", value |-> v, result |-> result]
<1>1. d \in StoredRec /\ d.kind = "stored" /\ call' = [call EXCEPT ![i] = d]
    BY DEF StoredRec, Stored
<1> HIDE DEF d
<1>2. SoundCall(d) /\ ~ Running(d)
    BY <1>1 DEF SoundCall, Calls, Running
<1>3. /\ CallsInv' /\ call'[i] = d
      /\ \A j \in CallId : j # i => Continues(j)
    BY <1>1, <1>2, CallSet
<1> QED BY <1>2, <1>3 DEF Continues

\* What a step does to the calls: each goes on, has ended, or is new under the next resId.
LEMMA CallsStep ==
    ASSUME IInv, [Next]_vars
    PROVE  CallsInv' /\ \A j \in CallId : Continues(j)
<1>1. CallsInv /\ CountsInv /\ TablesInv /\ NetworkInv
    BY DEF IInv
<1>2. ASSUME NEW n \in Node, NEW v \in Value, StoreCall(n, v)
      PROVE  CallsInv' /\ \A j \in CallId : Continues(j)
    <2> DEFINE targets == Targets(n, HashOf[v])
               c == [kind |-> "store", at |-> n, value |-> v, waiting |-> targets]
    <2>1. targets \in SUBSET Node /\ HashOf[v] \notin targets
        BY <1>1, CandidatesAreNodes, FindNodeListed DEF Targets
    <2>2. /\ calls' = calls + 1 /\ calls \in CallId
          /\ Stored(calls, v, None) \/ call' = [call EXCEPT ![calls] = c]
        BY <1>1, <1>2, NextCallId DEF StoreCall
    <2> HIDE DEF targets
    <2>3. c \in StoreRec /\ c.kind = "store" /\ c.value = v /\ c.waiting = targets
        BY <2>1 DEF StoreRec
    <2> HIDE DEF c
    <2>4. SoundCall(c)
        BY <2>1, <2>3 DEF SoundCall, Calls
    <2>5. CASE Stored(calls, v, None)
        BY <1>1, <2>2, <2>5, StoredKeepsCalls
    <2>6. CASE call' = [call EXCEPT ![calls] = c]
        <3>1. CallsInv' /\ \A j \in CallId : j # calls => Continues(j)
            BY <1>1, <2>2, <2>3, <2>4, <2>6, CallSet
        <3> QED BY <3>1 DEF Continues
    <2> QED BY <2>2, <2>5, <2>6
<1>3. ASSUME NEW n \in Node, NEW v \in Value, FindCall(n, v)
      PROVE  CallsInv' /\ \A j \in CallId : Continues(j)
    BY <1>1, <1>3, FindCallLooks, LooksKeepsCalls
<1>4. ASSUME NEW m \in network, HandlePong(m)
      PROVE  CallsInv' /\ \A j \in CallId : Continues(j)
    <2> DEFINE i == m.id
               c == [call[i] EXCEPT !.waiting = call[i].waiting \ {m.from}]
    <2>1. i \in CallId /\ About(m) /\ m.type = "PONG" /\ m.id < calls
        BY <1>1, <1>4, MessageOfType DEF NetworkInv, HandlePong, SoundMessage
    <2>2. calls' = calls
        BY <1>4 DEF HandlePong
    <2>3. CASE ~ Awaited(m)
        BY <1>1, <1>4, <2>2, <2>3, CallSame DEF HandlePong
    <2>4. CASE Awaited(m)
        <3>1. Running(call[i]) /\ call[i].kind = "store"
            BY <2>1, <2>4 DEF About, Awaited
        <3>2. SoundCall(call[i]) /\ call[i] \in StoreRec
            BY <2>1, <3>1, CallOfKind
        <3>3. /\ c \in StoreRec /\ c.kind = "store" /\ c.at = call[i].at
              /\ c.value = call[i].value /\ c.waiting = call[i].waiting \ {m.from}
              /\ c.value \in Value
            BY <3>2 DEF StoreRec
        <3>4. call' = [call EXCEPT ![i] = c] \/ Stored(i, c.value, c.value)
            BY <1>4, <2>4, <3>3 DEF HandlePong
        <3> HIDE DEF c, i
        <3>5. SoundCall(c)
            BY <3>2, <3>3, <3>1 DEF SoundCall, Calls
        <3>6. CASE call' = [call EXCEPT ![i] = c]
            <4>1. CallsInv' /\ call'[i] = c /\ \A j \in CallId : j # i => Continues(j)
                BY <1>1, <2>1, <2>2, <3>3, <3>5, <3>6, CallSet DEF i
            <4> QED BY <3>1, <3>3, <4>1 DEF Continues
        <3>7. CASE Stored(i, c.value, c.value)
            BY <1>1, <2>1, <2>2, <3>3, <3>7, StoredKeepsCalls DEF i
        <3> QED BY <3>4, <3>6, <3>7
    <2> QED BY <2>3, <2>4
<1>5. ASSUME NEW m \in network, HandleFoundResponse(m)
      PROVE  CallsInv' /\ \A j \in CallId : Continues(j)
    <2>1. calls' = calls /\ m.id < calls
        BY <1>1, <1>5 DEF HandleFoundResponse, NetworkInv, SoundMessage
    <2>2. CASE Awaited(m)
        BY <1>1, <1>5, <2>1, <2>2, FoundResponseLooks, LooksKeepsCalls
    <2>3. CASE ~ Awaited(m)
        BY <1>1, <1>5, <2>1, <2>3, CallSame DEF HandleFoundResponse
    <2> QED BY <2>2, <2>3
<1>6. ASSUME NEW i \in CallId, NEW t \in Node, FindTimeout(i, t)
      PROVE  CallsInv' /\ \A j \in CallId : Continues(j)
    <2>1. calls' = calls /\ i < calls
        BY <1>6, CallOfKind DEF FindTimeout, Running
    <2> QED BY <1>1, <1>6, <2>1, FindTimeoutLooks, LooksKeepsCalls
<1>7. ASSUME NEW i \in CallId, NEW t \in Node, StoreTimeout(i, t)
      PROVE  CallsInv' /\ \A j \in CallId : Continues(j)
    <2>1. calls' = calls /\ i < calls /\ call[i] \in StoreRec /\ Stored(i, call[i].value, None)
        BY <1>7, CallOfKind DEF StoreTimeout, Running
    <2>2. call[i].value \in Value
        BY <2>1 DEF StoreRec
    <2> QED BY <1>1, <2>1, <2>2, StoredKeepsCalls
<1>8. ASSUME NEW n \in Node, Restart(n)
      PROVE  CallsInv' /\ \A j \in CallId : Continues(j)
    <2>1. /\ calls' = calls
          /\ call' = [i \in CallId |->
                IF Running(call[i]) /\ call[i].at = n THEN Lost
                ELSE IF call[i].kind = "find" THEN [call[i] EXCEPT !.replicas = @ \ {n}]
                ELSE call[i]]
        BY <1>8 DEF Restart
    <2>2. Lost.kind = "lost" /\ SoundCall(Lost) /\ ~ Running(Lost)
        BY DEF Lost, SoundCall, Calls, Running
    <2>3. ASSUME NEW j \in CallId
          PROVE  SoundCall(call'[j]) /\ Continues(j) /\ (call'[j].kind = "unmade" <=> j >= calls')
        <3>1. SoundCall(call[j]) /\ (call[j].kind = "unmade" <=> j >= calls)
            BY <1>1 DEF CallsInv
        <3>2. CASE Running(call[j]) /\ call[j].at = n
            <4>1. call'[j] = Lost
                BY <2>1, <3>2
            <4>2. call[j].kind # "unmade"
                BY <3>2 DEF Running
            <4> QED BY <2>1, <2>2, <3>1, <4>1, <4>2 DEF Continues
        <3>3. CASE call[j].kind = "find" /\ call[j].at # n
            <4> DEFINE d == [call[j] EXCEPT !.replicas = @ \ {n}]
            <4>1. call'[j] = d
                BY <2>1, <3>3
            <4>2. call[j] \in FindRec
                BY <3>3, CallOfKind
            <4>3. /\ d \in FindRec /\ d.kind = "find" /\ d.at = call[j].at
                  /\ d.value = call[j].value /\ d.got = call[j].got
                BY <4>2 DEF FindRec
            <4> HIDE DEF d
            <4>4. SoundCall(d)
                BY <3>1, <3>3, <4>3 DEF SoundCall, Calls
            <4> QED BY <2>1, <3>1, <3>3, <4>1, <4>3, <4>4 DEF Continues, Running
        <3>4. CASE ~ (Running(call[j]) /\ call[j].at = n) /\ call[j].kind # "find"
            <4>1. call'[j] = call[j]
                BY <2>1, <3>4
            <4> QED BY <2>1, <3>1, <4>1 DEF Continues
        <3> QED BY <3>2, <3>3, <3>4 DEF Running
    <2> QED BY <2>1, <2>3 DEF CallsInv
<1>9. CASE call' = call /\ calls' = calls
    BY <1>1, <1>9, CallSame
<1> QED BY <1>2, <1>3, <1>4, <1>5, <1>6, <1>7, <1>8, <1>9, DhtAssumption
        DEF Next, Handle, HandleStore, HandleFindValue, Contact, Disconnect, vars

\* The counters stay within their bounds.
LEMMA CountsStep ==
    ASSUME IInv, [Next]_vars
    PROVE  CountsInv' /\ calls \in Nat /\ calls' \in {calls, calls + 1}
<1>1. CountsInv /\ calls \in Nat /\ restarts \in Nat
    BY DhtAssumption DEF IInv, CountsInv
<1>2. ASSUME NEW n \in Node, NEW v \in Value, StoreCall(n, v) \/ FindCall(n, v)
      PROVE  CountsInv' /\ calls' \in {calls, calls + 1}
    <2>1. calls < MaxCalls /\ calls' = calls + 1 /\ UNCHANGED <<restarts, closing>>
        BY <1>2 DEF StoreCall, FindCall
    <2> QED BY <1>1, <2>1, DhtAssumption DEF CountsInv
<1>3. ASSUME NEW n \in Node, Restart(n)
      PROVE  CountsInv' /\ calls' \in {calls, calls + 1}
    <2>1. restarts < MaxRestarts /\ restarts' = restarts + 1 /\ calls' = calls
        BY <1>3 DEF Restart
    <2>2. closing' \subseteq Node \X Node
        BY <1>1, <1>3 DEF Restart, CountsInv
    <2> QED BY <1>1, <2>1, <2>2, DhtAssumption DEF CountsInv
<1>4. CASE UNCHANGED <<calls, restarts>> /\ closing' \subseteq closing
    BY <1>1, <1>4 DEF CountsInv
<1>5. ASSUME NEW m \in network, Handle(m)
      PROVE  UNCHANGED <<calls, restarts, closing>>
    BY <1>5 DEF Handle, HandleStore, HandlePong, HandleFindValue, HandleFoundResponse
<1>6. ASSUME NEW i \in CallId, NEW t \in Node, StoreTimeout(i, t) \/ FindTimeout(i, t)
      PROVE  UNCHANGED <<calls, restarts, closing>>
    BY <1>6 DEF StoreTimeout, FindTimeout
<1>7. ASSUME NEW n \in Node, NEW p \in Node, Contact(n, p) \/ Disconnect(n, p)
      PROVE  UNCHANGED <<calls, restarts>> /\ closing' \subseteq closing
    BY <1>7 DEF Contact, Disconnect
<1>8. CASE UNCHANGED vars
    BY <1>4, <1>8 DEF vars
<1> QED BY <1>1, <1>2, <1>3, <1>4, <1>5, <1>6, <1>7, <1>8, DhtAssumption DEF Next

\* A message stays sound, and about the call that it was about.
LEMMA MessageStays ==
    ASSUME IInv, [Next]_vars, NEW m, SoundMessage(m), About(m)
    PROVE  SoundMessage(m)' /\ About(m)'
<1>1. calls \in Nat /\ calls' \in {calls, calls + 1}
    BY CountsStep
<1>2. m.id \in CallId /\ m.id \in Nat /\ m.id < calls
    BY MessageOfType, NextCallId DEF SoundMessage, IInv
<1>3. SoundMessage(m)'
    BY <1>1, <1>2 DEF SoundMessage
<1>4. Continues(m.id) /\ m.id # calls
    BY <1>1, <1>2, CallsStep
<1> QED BY <1>3, <1>4 DEF About, Continues

\* The queries of a lookup that has made a step are sound.
LEMMA QueriesAreSound ==
    ASSUME IInv, NEW i \in CallId, NEW c \in FindRec, NEW sent, Looks(i, c, sent),
           i < calls', NEW m \in network' \ sent
    PROVE  SoundMessage(m)' /\ About(m)'
<1>1. PICK d \in FindRec \cup FoundRec :
          /\ SoundCall(d) /\ d.value = c.value
          /\ call' = [call EXCEPT ![i] = d]
          /\ network' \subseteq sent \cup Queries(i, c)
          /\ d.kind = "found" => network' = sent
    BY DEF Looks
<1>2. m \in FindMsg /\ m.type = "FIND_VALUE" /\ m.id = i /\ m.key = HashOf[c.value]
    BY <1>1 DEF Queries
<1>3. d.kind = "find"
    BY <1>1 DEF FindRec, FoundRec
<1>4. call'[i] = d
    BY <1>1 DEF IInv, CallsInv
<1>5. About(m)'
    BY <1>1, <1>2, <1>3, <1>4 DEF About
<1>6. SoundMessage(m)'
    BY <1>2 DEF SoundMessage
<1> QED BY <1>5, <1>6

\* Every step keeps the messages sound: new ones are of the call that they carry the id of.
LEMMA NetworkKeeps == IInv /\ [Next]_vars => NetworkInv'
<1> SUFFICES ASSUME IInv, [Next]_vars PROVE NetworkInv'
    OBVIOUS
<1>1. NetworkInv /\ CallsInv /\ StoresInv /\ TablesInv /\ CountsInv /\ calls \in Nat
    BY DhtAssumption DEF IInv, CountsInv
<1>2. CallsInv'
    BY CallsStep
<1>3. \A m \in network : SoundMessage(m)' /\ About(m)'
    BY <1>1, MessageStays DEF NetworkInv
<1>4. SUFFICES ASSUME NEW m \in network' \ network
               PROVE  SoundMessage(m)' /\ About(m)'
    BY <1>3 DEF NetworkInv
<1>5. ASSUME NEW n \in Node, NEW v \in Value, StoreCall(n, v)
      PROVE  SoundMessage(m)' /\ About(m)'
    <2> DEFINE targets == Targets(n, HashOf[v])
               c == [kind |-> "store", at |-> n, value |-> v, waiting |-> targets]
    <2>1. targets \in SUBSET Node
        BY <1>1, CandidatesAreNodes DEF Targets
    <2>2. /\ calls' = calls + 1 /\ calls \in CallId
          /\ network' = network \cup
               {[type |-> "STORE", id |-> calls, from |-> n, to |-> t,
                 key |-> HashOf[v], value |-> v] : t \in targets}
          /\ targets # {} => call' = [call EXCEPT ![calls] = c]
        BY <1>1, <1>5, NextCallId DEF StoreCall
    <2> HIDE DEF targets
    <2>3. PICK t \in targets : m = [type |-> "STORE", id |-> calls, from |-> n, to |-> t,
                                    key |-> HashOf[v], value |-> v]
        BY <2>2
    <2>4. m \in StoreMsg /\ m.id = calls /\ m.key = HashOf[v] /\ m.value = v /\ m.type = "STORE"
        BY <2>1, <2>2, <2>3, HashType DEF StoreMsg
    <2>5. c.kind = "store" /\ c.value = v
        OBVIOUS
    <2> HIDE DEF c
    <2>6. call'[calls] = c
        BY <1>1, <2>2, <2>3 DEF CallsInv
    <2>7. About(m)'
        BY <2>4, <2>5, <2>6 DEF About
    <2>8. SoundMessage(m)'
        BY <1>1, <2>2, <2>4 DEF SoundMessage
    <2> QED BY <2>7, <2>8
<1>6. ASSUME NEW n \in Node, NEW v \in Value, FindCall(n, v)
      PROVE  SoundMessage(m)' /\ About(m)'
    <2>1. calls \in CallId /\ calls' = calls + 1 /\ \E c \in FindRec : Looks(calls, c, network)
        BY <1>6, FindCallLooks
    <2>2. calls < calls'
        BY <1>1, <2>1
    <2> QED BY <2>1, <2>2, QueriesAreSound
<1>7. ASSUME NEW i \in CallId, NEW t \in Node, FindTimeout(i, t)
      PROVE  SoundMessage(m)' /\ About(m)'
    <2>1. call[i] \in FindRec /\ Looks(i, call[i], network)
        BY <1>7, FindTimeoutLooks
    <2>2. i < calls'
        BY <1>7, CallOfKind DEF FindTimeout, Running
    <2> QED BY <2>1, <2>2, QueriesAreSound
<1>8. ASSUME NEW q \in network, HandleFoundResponse(q)
      PROVE  SoundMessage(m)' /\ About(m)'
    <2>1. CASE Awaited(q)
        <3>1. q.id \in CallId /\ call[q.id] \in FindRec /\ Looks(q.id, call[q.id], network \ {q})
            BY <1>8, <2>1, FoundResponseLooks
        <3>2. q.id < calls'
            BY <1>1, <1>8 DEF HandleFoundResponse, NetworkInv, SoundMessage
        <3>3. m \in network' \ (network \ {q})
            OBVIOUS
        <3> QED BY <3>1, <3>2, <3>3, QueriesAreSound
    <2>2. CASE ~ Awaited(q)
        BY <1>8, <2>2 DEF HandleFoundResponse
    <2> QED BY <2>1, <2>2
<1>9. ASSUME NEW q \in network, HandleStore(q)
      PROVE  SoundMessage(m)' /\ About(m)'
    <2>1. /\ q.from \in Node /\ q.to \in Node /\ q.id \in CallId /\ q.id < calls
          /\ About(q) /\ q.type = "STORE"
        BY <1>1, <1>9, MessageOfType DEF NetworkInv, HandleStore, SoundMessage
    <2>2. /\ m = [type |-> "PONG", id |-> q.id, from |-> q.to, to |-> q.from]
          /\ call' = call /\ calls' = calls
        BY <1>9 DEF HandleStore
    <2>3. m \in PongMsg /\ m.id = q.id /\ m.type = "PONG"
        BY <2>1, <2>2 DEF PongMsg
    <2>4. About(m)'
        BY <2>1, <2>2, <2>3 DEF About
    <2>5. SoundMessage(m)'
        BY <2>1, <2>2, <2>3 DEF SoundMessage
    <2> QED BY <2>4, <2>5
<1>10. ASSUME NEW q \in network, HandleFindValue(q)
      PROVE  SoundMessage(m)' /\ About(m)'
    <2>1. /\ q.from \in Node /\ q.to \in Node /\ q.id \in CallId /\ q.id < calls
          /\ About(q) /\ q.type = "FIND_VALUE"
        BY <1>1, <1>10, MessageOfType DEF NetworkInv, HandleFindValue, SoundMessage
    <2> DEFINE v == IF q.key \in DOMAIN store[q.to] THEN store[q.to][q.key] ELSE None
    <2>2. /\ m = [type |-> "FOUND_RESPONSE", id |-> q.id, from |-> q.to, to |-> q.from,
                  value |-> v]
          /\ call' = call /\ calls' = calls
        BY <1>10 DEF HandleFindValue
    <2>3. v \in Value \cup {None} /\ (v # None => HashOf[v] = q.key)
        BY <1>1, <2>1 DEF StoresInv
    <2> HIDE DEF v
    <2>4. m \in FoundMsg /\ m.id = q.id /\ m.value = v /\ m.type = "FOUND_RESPONSE"
        BY <2>1, <2>2, <2>3 DEF FoundMsg
    <2>5. About(m)'
        BY <2>1, <2>2, <2>3, <2>4 DEF About, Fits, Running
    <2>6. SoundMessage(m)'
        BY <2>1, <2>2, <2>4 DEF SoundMessage
    <2> QED BY <2>5, <2>6
<1>11. CASE network' \subseteq network
    BY <1>11
<1> QED BY <1>5, <1>6, <1>7, <1>8, <1>9, <1>10, <1>11, DhtAssumption
        DEF Next, Handle, HandlePong, StoreTimeout, Contact, Disconnect, Restart, vars

\* Every step keeps what was handled under its key: stores lose values only at a restart.
LEMMA HandledKeeps == IInv /\ [Next]_vars => HandledInv'
<1> SUFFICES ASSUME IInv, [Next]_vars PROVE HandledInv'
    OBVIOUS
<1>1. HandledInv /\ NetworkInv /\ StoresInv /\ CountsInv
    BY DEF IInv
<1>2. calls \in Nat /\ calls' \in {calls, calls + 1}
    BY CountsStep
\* What a node has handled stays under its key until the node restarts.
<1>3. ASSUME NEW h \in handled, DOMAIN store[h[2]] \subseteq DOMAIN store'[h[2]]
      PROVE  /\ h \in CallId \X Node /\ h[1] < calls'
             /\ Running(call'[h[1]]) => HashOf[call'[h[1]].value] \in DOMAIN store'[h[2]]
    <2>1. h \in CallId \X Node /\ h[1] \in CallId /\ h[1] \in Nat /\ h[1] < calls
        BY <1>1, NextCallId DEF HandledInv
    <2>2. Continues(h[1]) /\ h[1] # calls
        BY <1>2, <2>1, CallsStep
    <2> QED BY <1>1, <1>2, <1>3, <2>1, <2>2 DEF HandledInv, Continues
<1>4. ASSUME NEW m \in network, HandleStore(m) PROVE HandledInv'
    <2>1. m \in StoreMsg /\ m.to \in Node /\ m.id \in CallId /\ m.id < calls /\ About(m)
        BY <1>1, <1>4, MessageOfType DEF NetworkInv, HandleStore, SoundMessage
    <2>2. /\ handled' = handled \cup {<<m.id, m.to>>} /\ m.type = "STORE"
          /\ store' = [store EXCEPT ![m.to] = Put(@, m.key, m.value)]
          /\ call' = call /\ calls' = calls
        BY <1>4 DEF HandleStore
    <2>3. m.key \in DOMAIN store'[m.to]
        BY <1>1, <2>1, <2>2 DEF StoresInv, Put
    <2>4. Running(call'[m.id]) => HashOf[call'[m.id].value] \in DOMAIN store'[m.to]
        BY <2>1, <2>2, <2>3 DEF About
    <2>5. \A p \in Node : DOMAIN store[p] \subseteq DOMAIN store'[p]
        BY <1>1, <2>2 DEF StoresInv, Put
    <2>6. \A h \in handled : h \in CallId \X Node /\ h[2] \in Node
        BY <1>1 DEF HandledInv
    <2> QED BY <1>3, <2>1, <2>2, <2>4, <2>5, <2>6 DEF HandledInv
<1>5. ASSUME NEW n \in Node, Restart(n) PROVE HandledInv'
    <2>1. /\ handled' = {h \in handled : h[2] # n}
          /\ \A p \in Node : p # n => store'[p] = store[p]
        BY <1>1, <1>5 DEF Restart, StoresInv
    <2>2. ASSUME NEW h \in handled'
          PROVE  h \in handled /\ DOMAIN store[h[2]] \subseteq DOMAIN store'[h[2]]
        <3>1. h[2] \in Node
            BY <1>1, <2>1 DEF HandledInv
        <3> QED BY <2>1, <3>1
    <2> QED BY <1>3, <2>2 DEF HandledInv
<1>6. ASSUME handled' = handled, \A n \in Node : ~ Restart(n) PROVE HandledInv'
    <2>1. ASSUME NEW h \in handled
          PROVE  DOMAIN store[h[2]] \subseteq DOMAIN store'[h[2]]
        <3>1. h[2] \in Node
            BY <1>1 DEF HandledInv
        <3> QED BY <1>6, <3>1, StoresStep
    <2> QED BY <1>3, <1>6, <2>1 DEF HandledInv
<1>7. CASE handled' = handled
    BY <1>5, <1>6, <1>7
<1> QED BY <1>4, <1>5, <1>7, DhtAssumption
        DEF Next, Handle, StoreCall, FindCall, HandlePong, HandleFindValue,
            HandleFoundResponse, StoreTimeout, FindTimeout, Contact, Disconnect, vars

\* Every step keeps the acknowledged replicas: an awaited PONG is of a STORE that was handled.
LEMMA AckedKeeps == IInv /\ [Next]_vars => AckedInv'
<1> SUFFICES ASSUME IInv, [Next]_vars PROVE AckedInv'
    OBVIOUS
<1>1. AckedInv /\ HandledInv /\ NetworkInv /\ StoresInv
    BY DEF IInv
<1>2. ASSUME NEW a \in acked, DOMAIN store[a[3]] \subseteq DOMAIN store'[a[3]]
      PROVE  a \in Node \X Keys \X Node /\ a[3] # a[2] /\ a[2] \in DOMAIN store'[a[3]]
    BY <1>1, <1>2 DEF AckedInv, AckedReplicaHolds
<1>3. \A a \in acked : a[3] \in Node
    BY <1>1 DEF AckedInv
<1>4. ASSUME NEW n \in Node, Restart(n) PROVE AckedInv'
    <2>1. /\ acked' = {a \in acked : a[1] # n /\ a[3] # n}
          /\ \A p \in Node : p # n => store'[p] = store[p]
        BY <1>1, <1>4 DEF Restart, StoresInv
    <2>2. \A a \in acked' : a \in acked /\ DOMAIN store[a[3]] \subseteq DOMAIN store'[a[3]]
        BY <1>3, <2>1
    <2> QED BY <1>2, <2>2 DEF AckedInv, AckedReplicaHolds
<1>5. ASSUME NEW m \in network, HandlePong(m), Awaited(m) PROVE AckedInv'
    <2> DEFINE i == m.id
               key == HashOf[call[i].value]
               new == {<<m.to, key, h>> : h \in {h \in {m.from} : <<i, h>> \in handled}}
    <2>1. m.from \in Node /\ m.to \in Node /\ i \in CallId /\ About(m) /\ m.type = "PONG"
        BY <1>1, <1>5, MessageOfType DEF NetworkInv, HandlePong
    <2>2. call[i].kind = "store" /\ Running(call[i]) /\ m.from \in call[i].waiting
        BY <1>5, <2>1 DEF About, Awaited
    <2>3. call[i] \in StoreRec /\ key \notin call[i].waiting
        BY <2>1, <2>2, CallOfKind DEF SoundCall
    <2>4. key \in Keys /\ m.from # key
        BY <2>2, <2>3, HashType DEF StoreRec
    <2>5. acked' = acked \cup new /\ store' = store
        BY <1>5 DEF HandlePong
    <2>6. <<i, m.from>> \in handled => key \in DOMAIN store[m.from]
        BY <1>1, <2>2 DEF HandledInv
    <2>7. \A a \in new : a = <<m.to, key, m.from>> /\ <<i, m.from>> \in handled
        OBVIOUS
    <2> HIDE DEF new, key, i
    <2>8. \A a \in new : a \in Node \X Keys \X Node /\ a[3] # a[2] /\ a[2] \in DOMAIN store[a[3]]
        BY <2>1, <2>4, <2>6, <2>7
    <2> QED BY <1>1, <2>5, <2>8 DEF AckedInv, AckedReplicaHolds
<1>6. ASSUME acked' = acked, \A n \in Node : ~ Restart(n) PROVE AckedInv'
    <2>1. \A a \in acked : DOMAIN store[a[3]] \subseteq DOMAIN store'[a[3]]
        BY <1>3, <1>6, StoresStep
    <2> QED BY <1>2, <1>6, <2>1 DEF AckedInv, AckedReplicaHolds
<1>7. CASE acked' = acked
    BY <1>4, <1>6, <1>7
<1> QED BY <1>4, <1>5, <1>7, DhtAssumption
        DEF Next, Handle, StoreCall, FindCall, HandleStore, HandlePong, HandleFindValue,
            HandleFoundResponse, StoreTimeout, FindTimeout, Contact, Disconnect, vars

(***************************************************************************)
(* The theorems                                                            *)
(***************************************************************************)

\* The nodes start with nothing but the bootstrap node in their tables.
LEMMA InitIInv == Init => IInv
<1> SUFFICES ASSUME Init PROVE IInv
    OBVIOUS
<1>1. TablesInv
    BY StartTableOK DEF Init, TablesInv
<1>2. StoresInv
    BY DEF Init, StoresInv
<1>3. CallsInv
    <2>1. /\ call = [i \in CallId |-> Unmade] /\ calls = 0
          /\ Unmade.kind = "unmade" /\ SoundCall(Unmade)
        BY DEF Init, Unmade, SoundCall, Calls
    <2>2. \A i \in CallId : i >= 0
        BY DEF CallId
    <2> QED BY <2>1, <2>2 DEF CallsInv
<1>4. NetworkInv /\ HandledInv
    BY DEF Init, NetworkInv, HandledInv
<1>5. AckedInv
    BY DEF Init, AckedInv, AckedReplicaHolds
<1>6. CountsInv
    BY DhtAssumption DEF Init, CountsInv
<1> QED BY <1>1, <1>2, <1>3, <1>4, <1>5, <1>6 DEF IInv

\* And every step keeps the invariant.
LEMMA NextIInv == IInv /\ [Next]_vars => IInv'
BY TablesKeep, StoresStep, CallsStep, NetworkKeeps, HandledKeeps, AckedKeeps, CountsStep
   DEF IInv

\* Every state of the storing and finding nodes satisfies the invariant.
THEOREM InductiveInvariant == Spec => []IInv
BY InitIInv, NextIInv, PTL DEF Spec

\* Tables list nodes, stores and messages hold values of the system's, and calls are
\* made one after the other, within their bound: the type invariant.
THEOREM TypeCorrect == Spec => []TypeOK
<1>1. IInv => TypeOK
    <2> SUFFICES ASSUME IInv PROVE TypeOK
        OBVIOUS
    <2>1. \A n \in Node : Peers(table[n]) \subseteq Node
        BY PeersInContacts DEF IInv, TablesInv
    <2>2. ASSUME NEW n \in Node
          PROVE  DOMAIN store[n] \subseteq Keys /\ Range(store[n]) \subseteq Value
        BY HashType DEF IInv, StoresInv, Range
    <2>3. ASSUME NEW m \in network
          PROVE  m \in StoreMsg \cup PongMsg \cup FindMsg \cup FoundMsg
        BY DEF IInv, NetworkInv, SoundMessage
    <2>4. ASSUME NEW i \in CallId
          PROVE  /\ call[i].kind \in {"unmade", "store", "find", "stored", "found", "lost"}
                 /\ call[i].kind = "unmade" <=> i >= calls
        BY CallOfKind, CallKinds DEF IInv, CallsInv
    <2> QED BY <2>1, <2>2, <2>3, <2>4
            DEF TypeOK, IInv, CountsInv, StoreMsg, PongMsg, FindMsg, FoundMsg
<1> QED BY <1>1, InductiveInvariant, PTL

\* No store has a value under the key of another, and no lookup returns one, in
\* whatever order the answers to it and to other lookups arrive.
THEOREM ValuesAreOfTheirKeys == Spec => []ValueIntegrity
<1>1. IInv => ValueIntegrity
    BY DEF IInv, StoresInv, CallsInv, SoundCall, Fits, ValueIntegrity
<1> QED BY <1>1, InductiveInvariant, PTL

\* A peer whose acknowledgement of a STORE has arrived has something under its key
\* until its process ends.
THEOREM AckedReplicasHold == Spec => []AckedReplicaHolds
<1>1. IInv => AckedReplicaHolds
    BY DEF IInv, AckedInv
<1> QED BY <1>1, InductiveInvariant, PTL

(***************************************************************************)
(* A writer finds its value                                                *)
(***************************************************************************)

\* The peers that have returned a value.
Answered(got) == {g[1] : g \in {h \in got : h[2] # None}}

\* Peers answer once, and no replica of the lookup c answers "no value".
SoundAnswers(c, got) ==
    /\ \A g, h \in got : g[1] = h[1] => g = h
    /\ \A g \in got : g[2] = None => g[1] \notin c.replicas

\* The lookup c has asked, has missed, or still has to ask its listed replicas.
Pursues(c) ==
    /\ \A g \in c.got : g[1] \notin c.waiting
    /\ SoundAnswers(c, c.got)
    /\ c.replicas \cap c.listed \subseteq c.waiting \cup c.rest \cup c.missed \cup Answered(c.got)

\* It has a value, or has missed all of them.
Satisfied(c) == c.result = None => c.replicas \cap c.listed \subseteq c.missed

AllPursue ==
    \A i \in CallId : /\ call[i].kind = "find" => Pursues(call[i])
                      /\ call[i].kind = "found" => Satisfied(call[i])

\* The replicas of a lookup hold something under its key.
ReplicasHold ==
    \A i \in CallId : call[i].kind = "find" =>
        \A p \in call[i].replicas : HashOf[call[i].value] \in DOMAIN store[p]

\* An answer "no value" is not of a replica.
NoReplicaDenies ==
    \A m \in network :
        m.type = "FOUND_RESPONSE" /\ m.value = None /\ call[m.id].kind = "find" =>
            m.from \notin call[m.id].replicas

\* What WriterFindsItsValue rests on besides IInv.
WInv == IInv /\ AllPursue /\ ReplicasHold /\ NoReplicaDenies

\* What one step leaves of the lookup c, call i: it still pursues its replicas, or it
\* has found a value, or it has missed all of them.
Pursuing(i, c) ==
    \E d \in FindRec \cup FoundRec :
        /\ d.value = c.value /\ d.replicas = c.replicas
        /\ d.kind = "find" => Pursues(d)
        /\ d.kind = "found" => Satisfied(d)
        /\ call' = [call EXCEPT ![i] = d]

\* Asking the next chunk leaves nobody out.
LEMMA AskNextPursues ==
    ASSUME NEW i \in CallId, NEW c \in FindRec, NEW rest \in SUBSET Node,
           NEW missed \in SUBSET Node, NEW sent, AskNext(i, c, rest, missed, sent),
           c.replicas \cap c.listed \subseteq rest \cup missed
    PROVE  Pursuing(i, c)
<1> DEFINE key == HashOf[c.value]
           chunk == Closest(rest, key, ALPHA)
           d == [c EXCEPT !.waiting = chunk, !.rest = rest \ chunk,
                          !.missed = missed, !.got = {}]
<1>1. chunk \in SUBSET rest
    BY DEF Closest
<1>2. call' = [call EXCEPT ![i] = d]
    BY DEF AskNext
<1> HIDE DEF chunk
<1>3. /\ d \in FindRec /\ d.value = c.value /\ d.got = {} /\ d.kind = "find"
      /\ d.waiting = chunk /\ d.rest = rest \ chunk /\ d.missed = missed
      /\ d.replicas = c.replicas /\ d.listed = c.listed
    BY <1>1 DEF FindRec
<1> HIDE DEF d
<1>4. Pursues(d)
    BY <1>1, <1>3 DEF Pursues, SoundAnswers
<1> QED BY <1>2, <1>3, <1>4 DEF Pursuing

\* Returning a value, or nothing after all replicas were missed.
LEMMA FoundPursues ==
    ASSUME NEW i \in CallId, NEW c \in FindRec, NEW v \in Value \cup {None},
           NEW missed \in SUBSET Node, Found(i, c, v, missed),
           v = None => c.replicas \cap c.listed \subseteq missed
    PROVE  Pursuing(i, c)
<1> DEFINE r == [kind |-> "found", value |-> c.value, result |-> v, missed |-> missed,
                 completed |-> c.completed, replicas |-> c.replicas, listed |-> c.listed]
<1>1. /\ r \in FoundRec /\ r.result = v /\ r.value = c.value /\ r.missed = missed
      /\ r.kind = "found" /\ r.replicas = c.replicas /\ r.listed = c.listed
    BY DEF FindRec, FoundRec
<1>2. call' = [call EXCEPT ![i] = r]
    BY DEF Found
<1> HIDE DEF r
<1> QED BY <1>1, <1>2 DEF Pursuing, Satisfied

\* A settled query leaves nobody out: a chunk is done when all of it has answered or
\* was missed, and it is done with if none of its answers is a value.
LEMMA SettleQueryPursues ==
    ASSUME NEW i \in CallId, call[i] \in FindRec,
           NEW got \in SUBSET (Node \X (Value \cup {None})), NEW missed \in SUBSET Node,
           NEW sent, SettleQuery(i, got, missed, sent),
           SoundAnswers(call[i], got),
           call[i].replicas \cap call[i].listed \subseteq
              call[i].waiting \cup call[i].rest \cup missed \cup Answered(got)
    PROVE  Pursuing(i, call[i])
<1> DEFINE c == call[i]
           key == HashOf[c.value]
           wanted == c.replicas \cap c.listed
           waiting == c.waiting \ ({g[1] : g \in got} \cup missed)
           closest == Closest(Answered(got), key, 1)
           d == [c EXCEPT !.waiting = waiting, !.got = got, !.missed = missed]
<1>1. c \in FindRec /\ c.waiting \in SUBSET Node /\ c.rest \in SUBSET Node /\ c.value \in Value
    BY DEF FindRec
\* Who is waited for no more has returned a value, was missed, or is no replica.
<1>2. ASSUME NEW p \in c.waiting, p \notin waiting, p \in wanted
      PROVE  p \in missed \cup Answered(got)
    <2>1. CASE p \in missed
        BY <2>1
    <2>2. ASSUME NEW g \in got, g[1] = p PROVE p \in Answered(got)
        BY <1>2, <2>2 DEF SoundAnswers, Answered
    <2> QED BY <1>2, <2>1, <2>2
<1>3. wanted \subseteq waiting \cup c.rest \cup missed \cup Answered(got)
    BY <1>2
<1>4. CASE waiting # {}
    <2>1. call' = [call EXCEPT ![i].waiting = waiting, ![i].got = got, ![i].missed = missed]
        BY <1>4 DEF SettleQuery
    <2>2. \A g \in got : g[1] \notin waiting
        OBVIOUS
    <2>3. waiting \in SUBSET Node
        BY <1>1
    <2> HIDE DEF waiting
    <2>4. call' = [call EXCEPT ![i] = d]
        BY <2>1
    <2>5. /\ d \in FindRec /\ d.value = c.value /\ d.got = got /\ d.kind = "find"
          /\ d.waiting = waiting /\ d.rest = c.rest /\ d.missed = missed
          /\ d.replicas = c.replicas /\ d.listed = c.listed
        BY <1>1, <2>3 DEF FindRec
    <2> HIDE DEF d
    <2>6. Pursues(d)
        BY <1>3, <2>2, <2>5 DEF Pursues, SoundAnswers
    <2> QED BY <2>4, <2>5, <2>6 DEF Pursuing
<1>5. CASE waiting = {} /\ closest # {}
    <2>1. PICK g \in got : g[1] \in closest /\ Found(i, c, g[2], missed)
        BY <1>5 DEF SettleQuery, Answered
    <2>2. g[1] \in Answered(got)
        BY <2>1 DEF Closest
    <2>3. g[2] # None
        BY <2>2 DEF Answered, SoundAnswers
    <2>4. g[2] \in Value \cup {None}
        OBVIOUS
    <2> HIDE DEF c
    <2> QED BY <1>1, <2>1, <2>3, <2>4, FoundPursues DEF c
<1>6. CASE waiting = {} /\ closest = {}
    <2>1. Answered(got) = {}
        <3>1. Answered(got) \in SUBSET Id /\ key \in Id
            BY <1>1, DhtAssumption, HashType DEF Answered
        <3> QED BY <1>6, <3>1, ClosestOfSome
    <2>2. wanted \subseteq c.rest \cup missed
        BY <1>3, <1>6, <2>1
    <2>3. CASE c.rest # {}
        <3>1. AskNext(i, c, c.rest, missed, sent)
            BY <1>6, <2>3 DEF SettleQuery, Answered
        <3> QED BY <1>1, <2>2, <3>1, AskNextPursues
    <2>4. CASE c.rest = {}
        <3>1. Found(i, c, None, missed)
            BY <1>6, <2>4 DEF SettleQuery, Answered
        <3> QED BY <1>1, <2>2, <2>4, <3>1, FoundPursues
    <2> QED BY <2>3, <2>4
<1> QED BY <1>4, <1>5, <1>6

\* A lookup that may ask every node starts with all its listed replicas as candidates,
\* and they hold something.
LEMMA FindCallPursues ==
    ASSUME Cardinality(Node) <= QUERIED, IInv, NEW n \in Node, NEW v \in Value, FindCall(n, v)
    PROVE  \E c \in FindRec :
              /\ Pursuing(calls, c)
              /\ \A p \in c.replicas : HashOf[c.value] \in DOMAIN store[p]
<1> DEFINE key == HashOf[v]
           candidates == FindNode(n, table[n], key, QUERIED)
           replicas == {h \in Node : <<n, key, h>> \in acked}
           listed == Peers(table[n])
           c == [kind |-> "find", at |-> n, value |-> v, waiting |-> {},
                 rest |-> {}, got |-> {}, missed |-> {}, completed |-> key \in completed,
                 replicas |-> replicas, listed |-> listed]
<1>1. listed \in SUBSET Node
    BY PeersInContacts DEF IInv, TablesInv
<1>2. candidates \in SUBSET Node
    BY CandidatesAreNodes DEF IInv
<1>3. candidates = listed \ {key}
    <2> DEFINE eligible == listed \ {key}
    <2>1. TableOK(n, Node, table[n])
        BY DEF IInv, TablesInv
    <2>2. Node \in SUBSET Id /\ n \in Id /\ key \in Id /\ QUERIED \in Nat
        BY DhtAssumption, HashType
    <2>3. IsFiniteSet(Node) /\ Cardinality(Node) \in Nat
        BY <2>2, IdsAreFinite
    <2>4. eligible \in SUBSET Node
        BY <1>1
    <2>5. /\ IsFiniteSet(eligible) /\ Cardinality(eligible) \in Nat
          /\ Cardinality(eligible) <= Cardinality(Node)
        BY <2>3, <2>4, FS_Subset, FS_CardinalityType
    <2>6. Cardinality(eligible) <= QUERIED
        BY <2>2, <2>3, <2>5
    <2>7. /\ candidates \subseteq eligible
          /\ Cardinality(candidates) =
                IF QUERIED <= Cardinality(eligible) THEN QUERIED ELSE Cardinality(eligible)
        BY <2>1, <2>2, FindNodeProperties
    <2> HIDE DEF eligible, candidates
    <2>8. Cardinality(candidates) = Cardinality(eligible)
        BY <2>2, <2>5, <2>6, <2>7
    <2>9. candidates = eligible
        BY <2>5, <2>7, <2>8, FS_Subset
    <2> QED BY <2>9 DEF eligible
<1>4. replicas \cap listed \subseteq candidates
    <2>1. \A h : <<n, key, h>>[3] = h /\ <<n, key, h>>[2] = key
        OBVIOUS
    <2>2. key \notin replicas
        BY <2>1 DEF IInv, AckedInv
    <2> QED BY <1>3, <2>2
<1>5. \A p \in replicas : key \in DOMAIN store[p]
    BY DEF IInv, AckedInv, AckedReplicaHolds
<1>6. /\ calls \in CallId
      /\ IF key \in DOMAIN store[n] THEN Found(calls, c, store[n][key], {})
         ELSE IF candidates = {} THEN Found(calls, c, None, {})
         ELSE AskNext(calls, c, candidates, {}, network)
    BY NextCallId DEF IInv, FindCall
<1> HIDE DEF replicas, listed, candidates
<1>7. replicas \in SUBSET Node
    BY DEF replicas
<1>8. c \in FindRec /\ c.value = v /\ c.replicas = replicas /\ c.listed = listed
    BY <1>1, <1>7 DEF FindRec
<1> HIDE DEF c
<1>9. CASE key \in DOMAIN store[n]
    <2>1. store[n][key] \in Value /\ store[n][key] # None
        BY <1>9, HashType DEF IInv, StoresInv
    <2>2. Pursuing(calls, c)
        BY <1>6, <1>8, <1>9, <2>1, FoundPursues
    <2> QED BY <1>5, <1>8, <2>2
<1>10. CASE key \notin DOMAIN store[n] /\ candidates = {}
    <2>1. Pursuing(calls, c)
        BY <1>4, <1>6, <1>8, <1>10, FoundPursues
    <2> QED BY <1>5, <1>8, <2>1
<1>11. CASE key \notin DOMAIN store[n] /\ candidates # {}
    <2>1. Pursuing(calls, c)
        BY <1>2, <1>4, <1>6, <1>8, <1>11, AskNextPursues
    <2> QED BY <1>5, <1>8, <2>1
<1> QED BY <1>9, <1>10, <1>11

\* A timeout of a query is noted as a miss.
LEMMA FindTimeoutPursues ==
    ASSUME WInv, NEW i \in CallId, NEW t \in Node, FindTimeout(i, t)
    PROVE  Pursuing(i, call[i])
<1>1. call[i] \in FindRec /\ Pursues(call[i])
    BY FindTimeoutLooks DEF WInv, AllPursue, FindTimeout
<1>2. /\ call[i].got \in SUBSET (Node \X (Value \cup {None}))
      /\ call[i].missed \cup {t} \in SUBSET Node
    BY <1>1 DEF FindRec
<1>3. SettleQuery(i, call[i].got, call[i].missed \cup {t}, network)
    BY DEF FindTimeout
<1> QED BY <1>1, <1>2, <1>3, SettleQueryPursues DEF Pursues

\* An awaited answer is the first of its peer, and not "no value" if it is a replica.
LEMMA FoundResponsePursues ==
    ASSUME WInv, NEW m \in network, HandleFoundResponse(m), Awaited(m)
    PROVE  m.id \in CallId /\ call[m.id] \in FindRec /\ Pursuing(m.id, call[m.id])
<1> DEFINE i == m.id
           got == call[i].got \cup {<<m.from, m.value>>}
<1>1. i \in CallId /\ call[i] \in FindRec /\ call[i].kind = "find"
    <2>1. i \in CallId /\ call[i] \in FindRec
        BY FoundResponseLooks DEF WInv
    <2> QED BY <2>1 DEF FindRec
<1>2. m \in FoundMsg /\ m.type = "FOUND_RESPONSE"
    BY MessageOfType DEF WInv, IInv, NetworkInv, HandleFoundResponse
<1>3. m.from \in Node /\ m.value \in Value \cup {None}
    BY <1>2 DEF FoundMsg
<1>4. Pursues(call[i])
    BY <1>1 DEF WInv, AllPursue
<1>5. got \in SUBSET (Node \X (Value \cup {None})) /\ call[i].missed \in SUBSET Node
    BY <1>1, <1>3 DEF FindRec
<1>6. m.from \in call[i].waiting
    BY DEF Awaited
<1>7. m.value = None => m.from \notin call[i].replicas
    BY <1>1, <1>2 DEF WInv, NoReplicaDenies
<1>8. SettleQuery(i, got, call[i].missed, network \ {m})
    BY DEF HandleFoundResponse
<1>9. \A g \in got : g \in call[i].got \/ (g = <<m.from, m.value>> /\ g[1] = m.from /\ g[2] = m.value)
    OBVIOUS
<1>10. call[i].got \subseteq got
    OBVIOUS
<1> HIDE DEF i, got
<1>11. SoundAnswers(call[i], got)
    BY <1>4, <1>6, <1>7, <1>9 DEF SoundAnswers, Pursues
<1>12. call[i].replicas \cap call[i].listed \subseteq
          call[i].waiting \cup call[i].rest \cup call[i].missed \cup Answered(got)
    BY <1>4, <1>10 DEF Pursues, Answered
<1>13. Pursuing(i, call[i])
    BY <1>1, <1>5, <1>8, <1>11, <1>12, SettleQueryPursues
<1> QED BY <1>1, <1>13 DEF i

\* What a step does to call i, as far as its replicas go: nothing that matters, a step
\* of its lookup, or a restart that takes the replicas of the node away.
Leaves(i) ==
    \/ call'[i] = call[i]
    \/ call'[i].kind \notin {"find", "found"}

Restarted(i) ==
    /\ call[i] \in FindRec
    /\ \E n \in Node : /\ Restart(n)
                       /\ call'[i] = [call[i] EXCEPT !.replicas = @ \ {n}]

Steps(i) ==
    \E c \in FindRec :
        /\ Pursuing(i, c)
        /\ \/ c = call[i]
           \/ /\ i = calls
              /\ \A p \in c.replicas : HashOf[c.value] \in DOMAIN store[p]

\* A lookup that starts, settles something, or is left.
LEMMA LookupSteps ==
    ASSUME Cardinality(Node) <= QUERIED, WInv, [Next]_vars
    PROVE  \/ \A i \in CallId : Leaves(i) \/ Restarted(i)
           \/ \E i \in CallId : Steps(i) /\ \A n \in Node : ~ Restart(n)
<1>1. IInv /\ CallsInv /\ NetworkInv /\ CountsInv
    BY DEF WInv, IInv
<1>2. ASSUME NEW i \in CallId, NEW d, call' = [call EXCEPT ![i] = d],
             d.kind \in {"store", "stored"}
      PROVE  \A j \in CallId : Leaves(j)
    <2>1. call'[i] = d /\ \A j \in CallId : j # i => call'[j] = call[j]
        BY <1>1, <1>2 DEF CallsInv
    <2> QED BY <1>2, <2>1 DEF Leaves
<1>3. ASSUME NEW i \in CallId, NEW v, NEW r, Stored(i, v, r)
      PROVE  \A j \in CallId : Leaves(j)
    <2> DEFINE d == [kind |-> "stored", value |-> v, result |-> r]
    <2>1. call' = [call EXCEPT ![i] = d] /\ d.kind = "stored"
        BY <1>3 DEF Stored
    <2> HIDE DEF d
    <2> QED BY <1>2, <2>1
<1>4. ASSUME restarts' = restarts
      PROVE  \A n \in Node : ~ Restart(n)
    <2>1. restarts \in Nat
        BY <1>1, DhtAssumption DEF CountsInv
    <2> QED BY <1>4, <2>1 DEF Restart
<1>5. ASSUME NEW n \in Node, NEW v \in Value, StoreCall(n, v)
      PROVE  \A j \in CallId : Leaves(j)
    <2> DEFINE c == [kind |-> "store", at |-> n, value |-> v, waiting |-> Targets(n, HashOf[v])]
    <2>1. /\ calls \in CallId /\ c.kind = "store"
          /\ Stored(calls, v, None) \/ call' = [call EXCEPT ![calls] = c]
        BY <1>1, <1>5, NextCallId DEF StoreCall
    <2> HIDE DEF c
    <2> QED BY <1>2, <1>3, <2>1
<1>6. ASSUME NEW n \in Node, NEW v \in Value, FindCall(n, v)
      PROVE  \E i \in CallId : Steps(i) /\ \A q \in Node : ~ Restart(q)
    <2>1. calls \in CallId /\ restarts' = restarts
        BY <1>1, <1>6, NextCallId DEF FindCall
    <2> QED BY <1>1, <1>4, <1>6, <2>1, FindCallPursues DEF Steps
<1>7. ASSUME NEW i \in CallId, NEW t \in Node, FindTimeout(i, t)
      PROVE  \E j \in CallId : Steps(j) /\ \A q \in Node : ~ Restart(q)
    <2>1. call[i] \in FindRec /\ restarts' = restarts
        BY <1>1, <1>7, FindTimeoutLooks DEF FindTimeout
    <2> QED BY <1>4, <1>7, <2>1, FindTimeoutPursues DEF Steps
<1>8. ASSUME NEW m \in network, HandleFoundResponse(m), Awaited(m)
      PROVE  \E j \in CallId : Steps(j) /\ \A q \in Node : ~ Restart(q)
    <2>1. restarts' = restarts
        BY <1>8 DEF HandleFoundResponse
    <2> QED BY <1>4, <1>8, <2>1, FoundResponsePursues DEF Steps
<1>9. ASSUME NEW m \in network, HandlePong(m), Awaited(m)
      PROVE  \A j \in CallId : Leaves(j)
    <2> DEFINE c == [call[m.id] EXCEPT !.waiting = call[m.id].waiting \ {m.from}]
    <2>1. m.id \in CallId /\ About(m) /\ m.type = "PONG"
        BY <1>1, <1>9, MessageOfType DEF NetworkInv, HandlePong
    <2>2. call[m.id] \in StoreRec
        BY <1>1, <1>9, <2>1, CallOfKind DEF About, Awaited
    <2>3. c.kind = "store"
        BY <2>2 DEF StoreRec
    <2>4. \/ call' = [call EXCEPT ![m.id] = c]
          \/ Stored(m.id, call[m.id].value, call[m.id].value)
        BY <1>9 DEF HandlePong
    <2> HIDE DEF c
    <2> QED BY <1>2, <1>3, <2>1, <2>3, <2>4
<1>10. ASSUME NEW i \in CallId, NEW t \in Node, StoreTimeout(i, t)
      PROVE  \A j \in CallId : Leaves(j)
    BY <1>3, <1>10 DEF StoreTimeout
<1>11. ASSUME NEW n \in Node, Restart(n)
      PROVE  \A j \in CallId : Leaves(j) \/ Restarted(j)
    <2> SUFFICES ASSUME NEW j \in CallId PROVE Leaves(j) \/ Restarted(j)
        OBVIOUS
    <2>1. call'[j] = IF Running(call[j]) /\ call[j].at = n THEN Lost
                     ELSE IF call[j].kind = "find" THEN [call[j] EXCEPT !.replicas = @ \ {n}]
                     ELSE call[j]
        BY <1>11 DEF Restart
    <2>2. Lost.kind = "lost"
        BY DEF Lost
    <2>3. call[j].kind = "find" => call[j] \in FindRec
        BY <1>1, CallOfKind
    <2> QED BY <1>11, <2>1, <2>2, <2>3 DEF Leaves, Restarted
<1>12. CASE call' = call
    BY <1>12 DEF Leaves
<1> QED BY <1>5, <1>6, <1>7, <1>8, <1>9, <1>10, <1>11, <1>12, DhtAssumption
        DEF Next, Handle, HandleStore, HandlePong, HandleFindValue, HandleFoundResponse,
            Contact, Disconnect, vars

\* Every step keeps the lookups after their replicas, and those hold something: a node
\* that loses its store is no replica of a lookup any more.
LEMMA PursuitKeeps ==
    ASSUME Cardinality(Node) <= QUERIED, WInv, [Next]_vars
    PROVE  AllPursue' /\ ReplicasHold'
<1>1. IInv /\ CallsInv /\ AllPursue /\ ReplicasHold /\ CountsInv
    BY DEF WInv, IInv
<1> SUFFICES ASSUME NEW i \in CallId
             PROVE  /\ call'[i].kind = "find" => Pursues(call'[i])
                    /\ call'[i].kind = "found" => Satisfied(call'[i])
                    /\ call'[i].kind = "find" =>
                          \A p \in call'[i].replicas :
                              HashOf[call'[i].value] \in DOMAIN store'[p]
    BY DEF AllPursue, ReplicasHold, Pursues, Satisfied, SoundAnswers
\* The replicas that a step leaves to a lookup go on to hold what they held.
<1>2. ASSUME call'[i].kind = "find", NEW c \in FindRec,
             call'[i].value = c.value, call'[i].replicas \subseteq c.replicas,
             \A p \in c.replicas : HashOf[c.value] \in DOMAIN store[p],
             \A n \in Node : Restart(n) => n \notin call'[i].replicas
      PROVE  \A p \in call'[i].replicas : HashOf[call'[i].value] \in DOMAIN store'[p]
    <2>1. c.replicas \subseteq Node
        BY DEF FindRec
    <2> QED BY <1>1, <1>2, <2>1, StoresStep
<1>3. CASE Leaves(i) /\ \A n \in Node : Restart(n) => (call[i].kind = "find" => n \notin call'[i].replicas)
    <2>1. CASE call'[i] = call[i]
        <3>1. call[i].kind = "find" => call[i] \in FindRec
            BY <1>1, CallOfKind
        <3> QED BY <1>1, <1>2, <1>3, <2>1, <3>1 DEF AllPursue, ReplicasHold
    <2>2. CASE call'[i].kind \notin {"find", "found"}
        BY <2>2
    <2> QED BY <1>3, <2>1, <2>2 DEF Leaves
<1>4. CASE Restarted(i)
    <2>1. PICK n \in Node : Restart(n) /\ call'[i] = [call[i] EXCEPT !.replicas = @ \ {n}]
        BY <1>4 DEF Restarted
    <2>2. call[i] \in FindRec /\ call[i].kind = "find"
        BY <1>4 DEF Restarted, FindRec
    <2> DEFINE d == call'[i]
    <2>3. /\ d.kind = "find" /\ d.value = call[i].value /\ d.waiting = call[i].waiting
          /\ d.rest = call[i].rest /\ d.got = call[i].got /\ d.missed = call[i].missed
          /\ d.replicas = call[i].replicas \ {n} /\ d.listed = call[i].listed
        BY <2>1, <2>2 DEF FindRec
    <2> HIDE DEF d
    <2>4. Pursues(call[i])
        BY <1>1, <2>2 DEF AllPursue
    <2>5. Pursues(d)
        BY <2>3, <2>4 DEF Pursues, SoundAnswers
    <2>6. \A q \in Node : Restart(q) => q \notin d.replicas
        <3>1. ASSUME NEW q \in Node, Restart(q) PROVE q \notin d.replicas
            <4>1. CASE call[i].at = q
                <5>1. call'[i] = Lost
                    BY <2>2, <3>1, <4>1 DEF Restart, Running
                <5> QED BY <2>3, <5>1 DEF Lost, d
            <4>2. CASE call[i].at # q
                <5>1. call'[i] = [call[i] EXCEPT !.replicas = @ \ {q}]
                    BY <2>2, <3>1, <4>2 DEF Restart
                <5> QED BY <2>2, <5>1 DEF d, FindRec
            <4> QED BY <4>1, <4>2
        <3> QED BY <3>1
    <2>7. \A p \in d.replicas : HashOf[d.value] \in DOMAIN store'[p]
        BY <1>1, <1>2, <2>2, <2>3, <2>6 DEF ReplicasHold, d
    <2> QED BY <2>3, <2>5, <2>7 DEF d
<1>5. CASE Leaves(i)
    <2>1. ASSUME NEW n \in Node, Restart(n), call[i].kind = "find", n \in call'[i].replicas,
                 call'[i].kind \in {"find", "found"}
          PROVE  FALSE
        <3>1. call[i] \in FindRec
            BY <1>1, <2>1, CallOfKind
        <3>2. CASE call[i].at = n
            <4>1. call'[i] = Lost
                BY <2>1, <3>2 DEF Restart, Running
            <4> QED BY <2>1, <4>1 DEF Lost
        <3>3. CASE call[i].at # n
            <4>1. call'[i] = [call[i] EXCEPT !.replicas = @ \ {n}]
                BY <2>1, <3>3 DEF Restart
            <4> QED BY <2>1, <3>1, <4>1 DEF FindRec
        <3> QED BY <3>2, <3>3
    <2> QED BY <1>3, <1>5, <2>1
<1>6. CASE \E j \in CallId : Steps(j) /\ \A n \in Node : ~ Restart(n)
    <2>1. PICK j \in CallId : Steps(j)
        BY <1>6
    <2>2. PICK c \in FindRec : /\ Pursuing(j, c)
                               /\ \/ c = call[j]
                                  \/ \A p \in c.replicas : HashOf[c.value] \in DOMAIN store[p]
        BY <2>1 DEF Steps
    <2>3. PICK d \in FindRec \cup FoundRec :
              /\ d.value = c.value /\ d.replicas = c.replicas
              /\ d.kind = "find" => Pursues(d)
              /\ d.kind = "found" => Satisfied(d)
              /\ call' = [call EXCEPT ![j] = d]
        BY <2>2 DEF Pursuing
    <2>4. call'[j] = d /\ \A k \in CallId : k # j => call'[k] = call[k]
        BY <1>1, <2>3 DEF CallsInv
    <2>5. CASE i # j
        <3>1. Leaves(i)
            BY <2>4, <2>5 DEF Leaves
        <3> QED BY <1>5, <3>1
    <2>6. CASE i = j
        <3>1. \A p \in c.replicas : HashOf[c.value] \in DOMAIN store[p]
            <4>1. c.kind = "find"
                BY DEF FindRec
            <4> QED BY <1>1, <2>2, <4>1 DEF ReplicasHold
        <3>2. d.kind = "find" => \A p \in d.replicas : HashOf[d.value] \in DOMAIN store'[p]
            BY <1>2, <1>6, <2>3, <2>4, <2>6, <3>1
        <3> QED BY <2>3, <2>4, <2>6, <3>2
    <2> QED BY <2>5, <2>6
<1> QED BY <1>4, <1>5, <1>6, LookupSteps

\* Only a handler of FIND_VALUE answers one.
LEMMA AnswersAreHandled ==
    ASSUME IInv, [Next]_vars, NEW m \in network' \ network, m.type = "FOUND_RESPONSE"
    PROVE  \E q \in network : HandleFindValue(q)
<1>1. ASSUME NEW n \in Node, NEW v \in Value, StoreCall(n, v)
      PROVE  FALSE
    <2> DEFINE targets == Targets(n, HashOf[v])
    <2>1. network' = network \cup
               {[type |-> "STORE", id |-> calls, from |-> n, to |-> t,
                 key |-> HashOf[v], value |-> v] : t \in targets}
        BY <1>1 DEF StoreCall
    <2> HIDE DEF targets
    <2>2. m.type = "STORE"
        BY <2>1
    <2> QED BY <2>2
<1>2. ASSUME NEW i \in CallId, NEW c \in FindRec, NEW sent, sent \subseteq network,
             Looks(i, c, sent)
      PROVE  FALSE
    BY <1>2 DEF Looks, Queries
<1>3. ASSUME NEW n \in Node, NEW v \in Value, FindCall(n, v)
      PROVE  FALSE
    BY <1>2, <1>3, FindCallLooks
<1>4. ASSUME NEW i \in CallId, NEW t \in Node, FindTimeout(i, t)
      PROVE  FALSE
    BY <1>2, <1>4, FindTimeoutLooks
<1>5. ASSUME NEW q \in network, HandleFoundResponse(q)
      PROVE  FALSE
    <2>1. CASE Awaited(q)
        BY <1>2, <1>5, <2>1, FoundResponseLooks
    <2>2. CASE ~ Awaited(q)
        BY <1>5, <2>2 DEF HandleFoundResponse
    <2> QED BY <2>1, <2>2
<1>6. ASSUME NEW q \in network, HandleStore(q)
      PROVE  FALSE
    <2>1. m = [type |-> "PONG", id |-> q.id, from |-> q.to, to |-> q.from]
        BY <1>6 DEF HandleStore
    <2> QED BY <2>1
<1>7. CASE network' \subseteq network
    BY <1>7
<1> QED BY <1>1, <1>3, <1>4, <1>5, <1>6, <1>7, DhtAssumption
        DEF Next, Handle, HandlePong, StoreTimeout, Contact, Disconnect, Restart, vars

\* Every step keeps the replicas from answering "no value": a replica of a lookup has
\* something under the key when it answers.
LEMMA DeniesKeeps ==
    ASSUME Cardinality(Node) <= QUERIED, WInv, [Next]_vars
    PROVE  NoReplicaDenies'
<1>1. IInv /\ CallsInv /\ NetworkInv /\ StoresInv /\ ReplicasHold /\ NoReplicaDenies /\ CountsInv
    BY DEF WInv, IInv
<1> SUFFICES ASSUME NEW m \in network', m.type = "FOUND_RESPONSE", m.value = None,
                    call'[m.id].kind = "find"
             PROVE  m.from \notin call'[m.id].replicas
    BY DEF NoReplicaDenies
<1>2. CASE m \in network
    <2>1. m.id \in CallId /\ m.id < calls /\ calls \in Nat
        BY <1>1, <1>2, MessageOfType, NextCallId DEF NetworkInv, SoundMessage
    <2>2. CASE call'[m.id] = call[m.id]
        BY <1>1, <1>2, <2>2 DEF NoReplicaDenies
    <2>3. CASE Restarted(m.id)
        <3>1. /\ call[m.id] \in FindRec /\ call[m.id].kind = "find"
              /\ \E n \in Node : call'[m.id] = [call[m.id] EXCEPT !.replicas = @ \ {n}]
            BY <2>3 DEF Restarted, FindRec
        <3>2. call'[m.id].replicas \subseteq call[m.id].replicas
            BY <3>1 DEF FindRec
        <3> QED BY <1>1, <1>2, <3>1, <3>2 DEF NoReplicaDenies
    <2>4. CASE \E j \in CallId : Steps(j)
        <3>1. PICK j \in CallId : Steps(j)
            BY <2>4
        <3>2. PICK c \in FindRec : Pursuing(j, c) /\ (c = call[j] \/ j = calls)
            BY <3>1 DEF Steps
        <3>3. PICK d \in FindRec \cup FoundRec :
                  d.replicas = c.replicas /\ call' = [call EXCEPT ![j] = d]
            BY <3>2 DEF Pursuing
        <3>4. call'[j] = d /\ \A k \in CallId : k # j => call'[k] = call[k]
            BY <1>1, <3>3 DEF CallsInv
        <3>5. CASE m.id # j
            BY <2>1, <2>2, <3>4, <3>5
        <3>6. CASE m.id = j
            <4>1. c = call[j] /\ c.kind = "find"
                BY <2>1, <3>2, <3>6 DEF FindRec
            <4> QED BY <1>1, <1>2, <3>3, <3>4, <3>6, <4>1 DEF NoReplicaDenies
        <3> QED BY <3>5, <3>6
    <2> QED BY <2>1, <2>2, <2>3, <2>4, LookupSteps DEF Leaves
<1>3. CASE m \notin network
    <2>1. PICK q \in network : HandleFindValue(q)
        BY <1>1, <1>3, AnswersAreHandled
    <2>2. /\ q.to \in Node /\ q.id \in CallId /\ About(q) /\ q.type = "FIND_VALUE"
        BY <1>1, <2>1, MessageOfType DEF NetworkInv, HandleFindValue
    <2> DEFINE v == IF q.key \in DOMAIN store[q.to] THEN store[q.to][q.key] ELSE None
    <2>3. /\ m = [type |-> "FOUND_RESPONSE", id |-> q.id, from |-> q.to, to |-> q.from,
                  value |-> v]
          /\ call' = call
        BY <1>3, <2>1 DEF HandleFindValue
    <2>4. v = None => q.key \notin DOMAIN store[q.to]
        BY <1>1, <2>2, HashType DEF StoresInv
    <2> HIDE DEF v
    <2>5. m.id = q.id /\ m.from = q.to /\ m.value = v
        BY <2>3
    <2>6. q.key = HashOf[call[q.id].value]
        BY <2>2, <2>3, <2>5 DEF About, Running
    <2> QED BY <1>1, <2>2, <2>3, <2>4, <2>5, <2>6 DEF ReplicasHold
<1> QED BY <1>2, <1>3

\* If a lookup may ask every node, a node finds what it stored: a lookup comes back
\* empty only if every replica that had acknowledged the value to this node, that runs
\* since and that was listed when the lookup began failed to answer it.  Whatever else
\* happens: full buckets, other calls, late answers, restarts, closing connections.
THEOREM WritersFindTheirValues ==
    ASSUME Cardinality(Node) <= QUERIED
    PROVE  Spec => []WriterFindsItsValue
<1>1. Init => WInv
    <2> SUFFICES ASSUME Init PROVE WInv
        OBVIOUS
    <2>1. IInv
        BY InitIInv
    <2>2. \A i \in CallId : call[i].kind = "unmade"
        BY DEF Init, Unmade
    <2>3. NoReplicaDenies
        BY DEF Init, NoReplicaDenies
    <2> QED BY <2>1, <2>2, <2>3 DEF WInv, AllPursue, ReplicasHold
<1>2. WInv /\ [Next]_vars => WInv'
    <2> SUFFICES ASSUME WInv, [Next]_vars PROVE WInv'
        OBVIOUS
    <2>1. IInv'
        BY NextIInv DEF WInv
    <2> QED BY <2>1, PursuitKeeps, DeniesKeeps DEF WInv
<1>3. WInv => WriterFindsItsValue
    BY DEF WInv, AllPursue, Satisfied, WriterFindsItsValue
<1> QED BY <1>1, <1>2, <1>3, PTL DEF Spec
=============================================================================
