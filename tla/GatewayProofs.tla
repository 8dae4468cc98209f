---------------------------- MODULE GatewayProofs ---------------------------
(***************************************************************************)
(* What a lookup finds, for any nodes, keys, tables and bounds.            *)
(*                                                                         *)
(* What stands under a key, in a store or in a message, was written there  *)
(* (SoundEntry).  A lookup that is not disturbed has found a gateway, or   *)
(* the holders are among the peers it has still to hear from (Pursued);    *)
(* that needs what messages say about the lookup they belong to (Agrees).  *)
(* Proceed, the step that three actions share, keeps all that              *)
(* (ProceedKeeps).                                                         *)
(***************************************************************************)
EXTENDS Gateway, TLAPS

Written(e, k) ==
    \/ e \in made /\ k \in KeysOf(e)
    \/ e = Text /\ k \in TextKeys

SoundEntry(e, k) == e = None \/ Written(e, k)

SoundRegistration(c, r) == r # None => r \in made /\ r.chain = c

SoundFound(c, found) ==
    /\ found \subseteq {g \in made : g.chain = c}
    /\ Registry!OnePerNode(found)

SoundMessage(m) ==
    /\ IsMessage(m)
    /\ m.type = "STORE" => Written(m.entry, m.key)
    /\ m.type \in {"FIND_VALUE", "FOUND_RESPONSE"} => m.id \in Nat /\ m.id < events

\* A lookup that has asked a peer, or is about to ask its first.
SoundLookup(l) ==
    /\ l \in [id : Nat, chain : Chain, found : SUBSET Record, rest : SUBSET Node,
              asked : Node \cup {None}, holders : SUBSET Node]
    /\ SoundFound(l.chain, l.found)
    /\ \A h \in l.holders : store[h][Primary[l.chain]] # None

Pursued(l) ==
    Undisturbed(l.chain) => l.found # {} \/ l.holders \subseteq l.rest \cup {l.asked}

\* Message m, if it belongs to lookup l of node n.
Agrees(m, n, l) ==
    /\ m.type = "FIND_VALUE" /\ m.from = n /\ m.id = l.id => m.key = Primary[l.chain]
    /\ m.type = "FOUND_RESPONSE" /\ m.to = n /\ m.id = l.id =>
          /\ SoundEntry(m.entry, Primary[l.chain])
          /\ m.from \in l.holders => m.entry # None

LookupInv(n) ==
    lookup[n] # None =>
        /\ SoundLookup(lookup[n])
        /\ lookup[n].asked \in Node
        /\ lookup[n].id < events
        /\ Pursued(lookup[n])
        /\ \A m \in network : Agrees(m, n, lookup[n])

AnswerInv(n) ==
    answer[n] # None =>
        /\ answer[n] \in [chain : Chain, found : SUBSET Record, held : BOOLEAN]
        /\ SoundFound(answer[n].chain, answer[n].found)
        /\ Undisturbed(answer[n].chain) /\ answer[n].held => answer[n].found # {}

StoreInv ==
    /\ store \in [Node -> [Id -> Entry]]
    /\ \A n \in Node, k \in Id : SoundEntry(store[n][k], k)

RegisteredInv ==
    /\ registered \in [Node -> [Chain -> Record \cup {None}]]
    /\ \A n \in Node, c \in Chain : SoundRegistration(c, registered[n][c])

IInv ==
    /\ events \in Nat /\ made \subseteq Record
    /\ StoreInv
    /\ RegisteredInv
    /\ pending \subseteq made \X {"plain", "secure"}
    /\ \A m \in network : SoundMessage(m)
    /\ lookup = [n \in Node |-> lookup[n]]
    /\ answer = [n \in Node |-> answer[n]]
    /\ \A n \in Node : LookupInv(n) /\ AnswerInv(n)

-----------------------------------------------------------------------------
(* What the parts of a step do *)

\* findNode finds nodes.
LEMMA FindNodeInNode ==
    ASSUME NEW n \in Node, NEW tbl \in Tables[n], NEW key, NEW count
    PROVE  FindNode(n, tbl, key, count) \subseteq Node
<1>1. Peers(tbl) \subseteq Node
  BY GatewayAssumption
<1>2. \A home, rounds : Within(tbl, home, rounds) \subseteq DOMAIN tbl
  BY DEF Within
<1>3. \A home, rounds : Gathered(tbl, home, rounds, key) \subseteq Peers(tbl)
  BY <1>2 DEF Gathered, Peers
<1>4. \A S : Closest(S, key, count) \subseteq S
  BY DEF Closest
<1>. QED  BY <1>1, <1>3, <1>4 DEF FindNode

\* A record is stored under keys, the one of its chain among them.
LEMMA KeysOfInId == \A r \in Record : KeysOf(r) \subseteq Id /\ Primary[r.chain] \in KeysOf(r)
  BY GatewayAssumption DEF Record, KeysOf

\* Under an undisturbed key there is nothing but records of its chain.
LEMMA UndisturbedEntry ==
    ASSUME made \subseteq Record,
           NEW c \in Chain, Undisturbed(c),
           NEW e, SoundEntry(e, Primary[c]), e # None
    PROVE  Parses(e) /\ e.chain = c
  BY DEF Undisturbed, SoundEntry, Written, Parses

\* What is sound stays so as records are made and calls are counted.
LEMMA Grows ==
    ASSUME made \subseteq made', events \in Nat, events' \in Nat, events <= events'
    PROVE  /\ \A e, k : SoundEntry(e, k) => SoundEntry(e, k)'
           /\ \A c, r : SoundRegistration(c, r) => SoundRegistration(c, r)'
           /\ \A c, found : SoundFound(c, found) => SoundFound(c, found)'
           /\ \A c : Undisturbed(c)' => Undisturbed(c)
           /\ \A m : SoundMessage(m) => SoundMessage(m)'
<1>1. \A e, k : Written(e, k) => Written(e, k)'
  BY DEF Written
<1>2. \A e, k : SoundEntry(e, k) => SoundEntry(e, k)'
  BY <1>1 DEF SoundEntry
<1>3. \A c, r : SoundRegistration(c, r) => SoundRegistration(c, r)'
  BY DEF SoundRegistration
<1>4. \A c, found : SoundFound(c, found) => SoundFound(c, found)'
  BY DEF SoundFound, Registry!OnePerNode
<1>5. \A c : Undisturbed(c)' => Undisturbed(c)
  BY DEF Undisturbed
<1>6. ASSUME NEW m, SoundMessage(m) PROVE SoundMessage(m)'
  <2>1. IsMessage(m)'
    BY <1>6 DEF SoundMessage, IsMessage
  <2>2. m.type = "STORE" => Written(m.entry, m.key)'
    BY <1>1, <1>6 DEF SoundMessage
  <2>3. m.type \in {"FIND_VALUE", "FOUND_RESPONSE"} => m.id \in Nat /\ m.id < events'
    BY <1>6 DEF SoundMessage
  <2>. QED  BY <2>1, <2>2, <2>3 DEF SoundMessage
<1>. QED  BY <1>2, <1>3, <1>4, <1>5, <1>6

\* What a lookup has returned stays sound as records are made.
LEMMA AnswerKeeps ==
    ASSUME made \subseteq made', NEW n \in Node, AnswerInv(n), answer'[n] = answer[n]
    PROVE  AnswerInv(n)'
  BY DEF AnswerInv, SoundFound, Undisturbed, Registry!OnePerNode

\* A lookup is not affected by what is stored, nor by messages of others.
LEMMA LookupKeeps ==
    ASSUME made \subseteq made', events \in Nat, events' \in Nat, events <= events',
           NEW n \in Node, LookupInv(n), lookup'[n] = lookup[n],
           \A h \in Node, k \in Id : store[h][k] # None => store'[h][k] # None,
           \A m \in network' : m \in network \/ Agrees(m, n, lookup[n])
    PROVE  LookupInv(n)'
<1> SUFFICES ASSUME lookup[n] # None PROVE LookupInv(n)'
  BY DEF LookupInv
<1> DEFINE l == lookup[n]
<1>1. SoundLookup(l) /\ l.asked \in Node /\ l.id < events /\ Pursued(l)
  BY DEF LookupInv
<1>2. l.id \in Nat /\ l.chain \in Chain /\ l.holders \subseteq Node
  BY <1>1 DEF SoundLookup
<1>3. ASSUME NEW m \in network' PROVE Agrees(m, n, l)'
  <2>1. Agrees(m, n, l)
    BY DEF LookupInv
  <2>. QED  BY <2>1, Grows DEF Agrees
<1>4. SoundLookup(l)'
  <2>1. SoundFound(l.chain, l.found)'
    BY <1>1, Grows DEF SoundLookup
  <2>2. Primary[l.chain] \in Id
    BY <1>2, GatewayAssumption
  <2>. QED  BY <1>1, <1>2, <2>1, <2>2 DEF SoundLookup
<1>5. Pursued(l)'
  BY <1>1, Grows DEF Pursued
<1>. QED  BY <1>1, <1>2, <1>3, <1>4, <1>5 DEF LookupInv

-----------------------------------------------------------------------------
(* The steps *)

\* A step that stores, or sends STORE messages, and leaves the lookups alone.
LEMMA StoringKeeps ==
    ASSUME IInv, made \subseteq made', made' \subseteq Record,
           events' \in Nat, events <= events',
           StoreInv', RegisteredInv',
           pending' \subseteq made' \X {"plain", "secure"},
           \A h \in Node, k \in Id : store[h][k] # None => store'[h][k] # None,
           \A m \in network' : m \in network \/ (m.type = "STORE" /\ SoundMessage(m)'),
           UNCHANGED <<lookup, answer>>
    PROVE  IInv'
<1>1. \A m \in network' : SoundMessage(m)'
  BY Grows DEF IInv
<1>2. ASSUME NEW n \in Node PROVE LookupInv(n)'
  BY LookupKeeps DEF IInv, Agrees
<1>3. ASSUME NEW n \in Node PROVE AnswerInv(n)'
  BY AnswerKeeps DEF IInv
<1>. QED  BY <1>1, <1>2, <1>3 DEF IInv

\* Every STORE message of a call carries what may stand under its key.
LEMMA SentBySound ==
    ASSUME NEW n \in Node, NEW tbl \in Tables[n],
           NEW keys \in SUBSET Id, NEW e \in Record \cup {Text},
           \A k \in keys : Written(e, k)',
           NEW m \in SentBy(n, tbl, keys, e)
    PROVE  m.type = "STORE" /\ SoundMessage(m)'
<1>1. PICK k \in keys : \E t \in Targets(n, tbl, k) :
         m = [type |-> "STORE", from |-> n, to |-> t, key |-> k, entry |-> e]
  BY DEF SentBy
<1>2. PICK t \in Node :
         m = [type |-> "STORE", from |-> n, to |-> t, key |-> k, entry |-> e]
  BY <1>1, FindNodeInNode DEF Targets
<1>3. m.type = "STORE" /\ m.from = n /\ m.to = t /\ m.key = k /\ m.entry = e
  BY <1>2
<1>. QED  BY <1>3 DEF SoundMessage, IsMessage

\* A plain store: copies are kept where they belong, and none is lost.
LEMMA StoreKeeps ==
    ASSUME IInv, made \subseteq made', made' \subseteq Record,
           NEW n \in Node, NEW tbl \in Tables[n],
           NEW keys \in SUBSET Id, NEW e \in Record \cup {Text},
           \A k \in keys : Written(e, k)',
           Store(n, tbl, keys, e)
    PROVE  /\ StoreInv'
           /\ \A h \in Node, k \in Id : store[h][k] # None => store'[h][k] # None
           /\ \A m \in network' : m \in network \/ (m.type = "STORE" /\ SoundMessage(m)')
<1>1. ASSUME NEW h \in Node, NEW k \in Id
      PROVE  store'[h][k] = store[h][k] \/ (k \in keys /\ store'[h][k] = e)
  BY DEF Store, IInv, StoreInv
<1>2. e \in Entry /\ e # None
  BY GatewayAssumption DEF Entry
<1>3. store' \in [Node -> [Id -> Entry]]
  BY <1>2 DEF Store, IInv, StoreInv
<1>4. ASSUME NEW h \in Node, NEW k \in Id PROVE SoundEntry(store[h][k], k)'
  <2>1. SoundEntry(store[h][k], k)
    BY DEF IInv, StoreInv
  <2>. QED  BY <1>1, <2>1 DEF SoundEntry, Written
<1>5. ASSUME NEW m \in network', m \notin network PROVE m.type = "STORE" /\ SoundMessage(m)'
  BY <1>5, SentBySound DEF Store
<1>. QED  BY <1>1, <1>2, <1>3, <1>4, <1>5 DEF StoreInv

\* Own registrations stay sound as records are made.
LEMMA RegistrationsKeep ==
    ASSUME IInv, made \subseteq made', UNCHANGED registered
    PROVE  RegisteredInv'
  BY DEF IInv, RegisteredInv, SoundRegistration

\* So do the stores.
LEMMA StoreInvKeeps ==
    ASSUME IInv, made \subseteq made', UNCHANGED store
    PROVE  StoreInv'
  BY DEF IInv, StoreInv, SoundEntry, Written

\* A node registers itself with one of its records.
LEMMA RegisteredKeeps ==
    ASSUME IInv, made \subseteq made', NEW r \in Record, r \in made',
           registered' = [registered EXCEPT ![r.node][r.chain] = r]
    PROVE  RegisteredInv'
<1>1. r.node \in Node /\ r.chain \in Chain
  BY DEF Record
<1>2. registered' \in [Node -> [Chain -> Record \cup {None}]]
  BY <1>1 DEF IInv, RegisteredInv
<1>3. ASSUME NEW n \in Node, NEW c \in Chain PROVE SoundRegistration(c, registered[n][c])'
  <2>1. registered'[n][c] = registered[n][c] \/ (c = r.chain /\ registered'[n][c] = r)
    BY <1>1 DEF IInv, RegisteredInv
  <2>2. SoundRegistration(c, registered[n][c])
    BY DEF IInv, RegisteredInv
  <2>. QED  BY <2>1, <2>2 DEF SoundRegistration
<1>. QED  BY <1>2, <1>3 DEF RegisteredInv

\* Taking an entry of the chain's key into what was found keeps that sound.
LEMMA WithSound ==
    ASSUME NEW c \in Chain, NEW found, SoundFound(c, found),
           NEW e, SoundEntry(e, Primary[c])
    PROVE  SoundFound(c, With(found, c, e))
  BY GatewayAssumption
  DEF SoundFound, SoundEntry, Written, With, Parses, Registry!OnePerNode

\* The step that findGateways, an answer and a timeout share.
LEMMA ProceedKeeps ==
    ASSUME IInv, UNCHANGED <<store, registered, pending, made>>,
           events' \in Nat, events <= events',
           NEW n \in Node, NEW l, SoundLookup(l), l.id < events',
           NEW e, SoundEntry(e, Primary[l.chain]),
           Undisturbed(l.chain) =>
              \/ With(l.found, l.chain, e) # {}
              \/ ~Parses(e) /\ l.holders \subseteq l.rest,
           NEW sent \in SUBSET network, \A m \in sent : Agrees(m, n, l),
           Proceed(n, l, e, sent)
    PROVE  IInv'
<1>1. /\ l.id \in Nat /\ l.chain \in Chain
      /\ l.found \subseteq Record /\ l.rest \subseteq Node /\ l.holders \subseteq Node
  BY DEF SoundLookup
<1>2. StoreInv' /\ RegisteredInv'
  BY StoreInvKeeps, RegistrationsKeep
<1>3. SoundFound(l.chain, With(l.found, l.chain, e))
  BY <1>1, WithSound DEF SoundLookup
<1>4. CASE /\ Parses(e) \/ l.rest = {}
           /\ Return(n, [l EXCEPT !.found = With(l.found, l.chain, e)])
           /\ network' = sent
  <2> DEFINE a == [chain |-> l.chain, found |-> With(l.found, l.chain, e),
                   held |-> l.holders # {}]
  <2>1. answer' = [answer EXCEPT ![n] = a] /\ lookup' = [lookup EXCEPT ![n] = None]
    BY <1>1, <1>4 DEF Return, SoundLookup
  <2>2. \A m \in network' : SoundMessage(m)'
    BY <1>4, Grows DEF IInv
  <2>3. ASSUME NEW q \in Node PROVE LookupInv(q)'
    <3>1. CASE q = n
      BY <2>1, <3>1 DEF IInv, LookupInv
    <3>2. CASE q # n
      BY <1>4, <2>1, <3>2, LookupKeeps DEF IInv
    <3>. QED  BY <3>1, <3>2
  <2>4. /\ a \in [chain : Chain, found : SUBSET Record, held : BOOLEAN]
        /\ SoundFound(a.chain, a.found)'
        /\ Undisturbed(a.chain) /\ a.held => a.found # {}
    <3>1. SoundFound(a.chain, a.found)'
      BY <1>3, Grows DEF IInv
    <3>2. a.found \subseteq Record
      BY <1>3 DEF SoundFound, IInv
    <3>3. Undisturbed(a.chain) /\ a.held => a.found # {}
      BY <1>4
    <3>. QED  BY <1>1, <3>1, <3>2, <3>3
  <2>5. ASSUME NEW q \in Node PROVE AnswerInv(q)'
    <3>1. CASE q = n
      <4>1. answer'[n] = a
        BY <2>1 DEF IInv
      <4>2. Undisturbed(a.chain)' => Undisturbed(a.chain)
        BY Grows DEF IInv
      <4> HIDE DEF a
      <4>. QED  BY <2>4, <3>1, <4>1, <4>2 DEF AnswerInv
    <3>2. CASE q # n
      BY <2>1, <3>2, AnswerKeeps DEF IInv
    <3>. QED  BY <3>1, <3>2
  <2>6. (lookup = [q \in Node |-> lookup[q]])' /\ (answer = [q \in Node |-> answer[q]])'
    BY <2>1 DEF IInv
  <2>. QED  BY <1>2, <2>2, <2>3, <2>5, <2>6 DEF IInv
<1>5. CASE ~Parses(e) /\ l.rest # {} /\ AskNext(n, l, sent)
  <2>1. PICK p \in l.rest :
          /\ lookup' = [lookup EXCEPT ![n] =
                 [l EXCEPT !.asked = p, !.rest = l.rest \ {p}]]
          /\ network' = sent \cup
                 {[type |-> "FIND_VALUE", id |-> l.id, from |-> n, to |-> p,
                   key |-> Primary[l.chain]]}
          /\ UNCHANGED answer
    BY <1>5 DEF AskNext, Closest
  <2> DEFINE next == [l EXCEPT !.asked = p, !.rest = l.rest \ {p}]
             ask  == [type |-> "FIND_VALUE", id |-> l.id, from |-> n, to |-> p,
                      key |-> Primary[l.chain]]
  <2>2. /\ next.id = l.id /\ next.chain = l.chain /\ next.found = l.found
        /\ next.holders = l.holders /\ next.asked = p /\ next.rest = l.rest \ {p}
        /\ next \in [id : Nat, chain : Chain, found : SUBSET Record, rest : SUBSET Node,
                     asked : Node \cup {None}, holders : SUBSET Node]
    BY <1>1 DEF SoundLookup
  <2>3. /\ ask.type = "FIND_VALUE" /\ ask.id = l.id /\ ask.from = n /\ ask.to = p
        /\ ask.key = Primary[l.chain]
    OBVIOUS
  <2>4. lookup' = [lookup EXCEPT ![n] = next] /\ network' = sent \cup {ask}
    BY <2>1
  <2> HIDE DEF next, ask
  <2>5. \A m \in network' : SoundMessage(m)'
    <3>1. \A m \in sent : SoundMessage(m)'
      BY Grows DEF IInv
    <3>2. SoundMessage(ask)'
      BY <1>1, <2>3, GatewayAssumption DEF SoundMessage, IsMessage
    <3>. QED  BY <2>4, <3>1, <3>2
  <2>6. ASSUME NEW q \in Node PROVE LookupInv(q)'
    <3>1. CASE q = n
      <4>1. lookup'[n] = next
        BY <2>4 DEF IInv
      <4>2. SoundLookup(next)'
        BY <2>2, Grows DEF SoundLookup, IInv
      <4>3. Pursued(next)'
        <5>1. SUFFICES ASSUME Undisturbed(l.chain) PROVE next.found # {} \/ l.holders \subseteq l.rest
          BY <2>2, Grows DEF Pursued, IInv
        <5>. QED  BY <1>5, <2>2, <5>1 DEF With
      <4>4. ASSUME NEW m \in network' PROVE Agrees(m, n, next)'
        <5>1. Agrees(m, n, l)
          BY <2>3, <2>4 DEF Agrees
        <5>. QED  BY <2>2, <5>1, Grows DEF Agrees, IInv
      <4>. QED  BY <1>1, <2>2, <3>1, <4>1, <4>2, <4>3, <4>4 DEF LookupInv
    <3>2. CASE q # n
      <4>1. lookup'[q] = lookup[q]
        BY <2>4, <3>2 DEF IInv
      <4>2. \A m \in network' : m \in network \/ Agrees(m, q, lookup[q])
        BY <2>3, <2>4, <3>2 DEF Agrees
      <4>. QED  BY <4>1, <4>2, LookupKeeps DEF IInv
    <3>. QED  BY <3>1, <3>2
  <2>7. ASSUME NEW q \in Node PROVE AnswerInv(q)'
    BY <2>1, AnswerKeeps DEF IInv
  <2>8. (lookup = [q \in Node |-> lookup[q]])' /\ (answer = [q \in Node |-> answer[q]])'
    BY <2>1 DEF IInv
  <2>. QED  BY <1>2, <2>5, <2>6, <2>7, <2>8 DEF IInv
<1>. QED  BY <1>4, <1>5 DEF Proceed

\* A lookup up to its first question keeps the invariant.
LEMMA FindGatewaysKeeps ==
    ASSUME IInv, NEW n \in Node, NEW c \in Chain, NEW tbl \in Tables[n],
           FindGateways(n, c, tbl)
    PROVE  IInv'
<1> DEFINE key        == Primary[c]
           own        == IF registered[n][c] # None THEN {registered[n][c]} ELSE {}
           candidates == FindNode(n, tbl, key, QUERIED)
           holders    == {p \in candidates \cup {n} :
                             store[p][key] \in Record /\ store[p][key].chain = c}
           found      == With(own, c, store[n][key])
           l == [id |-> events, chain |-> c, found |-> found,
                 rest |-> candidates, asked |-> None, holders |-> holders]
<1>1. Proceed(n, l, None, network) /\ events' = events + 1
  BY DEF FindGateways, Counted
<1>2. UNCHANGED <<store, registered, pending, made>>
  BY DEF FindGateways
<1>3. key \in Id /\ candidates \subseteq Node /\ events \in Nat /\ events' \in Nat
  BY <1>1, FindNodeInNode, GatewayAssumption DEF IInv
<1>4. SoundEntry(store[n][key], key)
  BY <1>3 DEF IInv, StoreInv
<1>5. SoundFound(c, found)
  <2>1. SoundFound(c, own)
    BY DEF IInv, RegisteredInv, SoundRegistration, SoundFound, Registry!OnePerNode
  <2> HIDE DEF own
  <2>. QED  BY <1>4, <2>1, WithSound
<1>6. holders \subseteq Node /\ \A h \in holders : store[h][key] # None
  BY <1>3, GatewayAssumption
<1>7. SoundLookup(l)
  <2>1. found \subseteq Record
    BY <1>5 DEF SoundFound, IInv
  <2> HIDE DEF found, holders, candidates
  <2>. QED  BY <1>3, <1>5, <1>6, <2>1 DEF SoundLookup
<1>8. ASSUME Undisturbed(c), n \in holders PROVE found # {}
  <2>1. store[n][key] # None
    BY <1>6, <1>8
  <2>2. Parses(store[n][key]) /\ store[n][key].chain = c
    BY <1>4, <1>8, <2>1, UndisturbedEntry DEF IInv
  <2>. QED  BY <2>2 DEF With
<1>9. ~Parses(None) /\ With(found, c, None) = found
  BY GatewayAssumption DEF Parses, With
<1>10. ASSUME NEW m \in network PROVE Agrees(m, n, l)
  <2>1. m.type \in {"FIND_VALUE", "FOUND_RESPONSE"} => m.id \in Nat /\ m.id < events
    BY DEF IInv, SoundMessage
  <2>. QED  BY <1>3, <2>1 DEF Agrees
<1>11. Undisturbed(c) => found # {} \/ holders \subseteq candidates
  BY <1>8
<1>12. /\ l.id = events /\ l.chain = c /\ l.found = found /\ l.rest = candidates
       /\ l.holders = holders
  OBVIOUS
<1>13. SoundEntry(None, key)
  BY DEF SoundEntry
<1>14. l.id < events' /\ events <= events'
  BY <1>1, <1>3
<1> HIDE DEF l, found, holders, candidates, key
<1>. QED
  BY <1>1, <1>2, <1>3, <1>7, <1>9, <1>10, <1>11, <1>12, <1>13, <1>14, ProceedKeeps DEF key

\* An answer to a lookup, late or in time, keeps it.
LEMMA FoundResponseKeeps ==
    ASSUME IInv, NEW m \in network, HandleFoundResponse(m)
    PROVE  IInv'
<1> DEFINE l == lookup[m.to]
<1>1. m.to \in Node /\ m.type = "FOUND_RESPONSE"
  BY DEF IInv, SoundMessage, IsMessage, HandleFoundResponse
<1>2. UNCHANGED <<store, registered, pending, events, made>> /\ events \in Nat
  BY DEF HandleFoundResponse, IInv
<1>3. CASE l # None /\ l.id = m.id /\ l.asked = m.from
  <2>1. Proceed(m.to, l, m.entry, network \ {m})
    BY <1>3 DEF HandleFoundResponse
  <2>2. /\ SoundLookup(l) /\ l.id < events /\ Pursued(l)
        /\ \A r \in network : Agrees(r, m.to, l)
    BY <1>1, <1>3 DEF IInv, LookupInv
  <2>3. /\ SoundEntry(m.entry, Primary[l.chain])
        /\ l.asked \in l.holders => m.entry # None
    BY <1>1, <1>3, <2>2 DEF Agrees
  <2>4. l.chain \in Chain
    BY <2>2 DEF SoundLookup
  <2>5. ASSUME Undisturbed(l.chain)
        PROVE  \/ With(l.found, l.chain, m.entry) # {}
               \/ ~Parses(m.entry) /\ l.holders \subseteq l.rest
    <3>1. CASE m.entry # None
      BY <2>3, <2>4, <2>5, <3>1, UndisturbedEntry DEF With, IInv
    <3>2. CASE m.entry = None
      BY <2>2, <2>3, <2>5, <3>2, GatewayAssumption DEF Pursued, With, Parses
    <3>. QED  BY <3>1, <3>2
  <2> HIDE DEF l
  <2>6. l.id < events' /\ events <= events' /\ events' \in Nat
    BY <1>2, <2>2
  <2>7. \A r \in network \ {m} : Agrees(r, m.to, l)
    BY <2>2
  <2>. QED  BY <1>1, <1>2, <2>1, <2>2, <2>3, <2>5, <2>6, <2>7, ProceedKeeps
<1>4. CASE ~(l # None /\ l.id = m.id /\ l.asked = m.from)
  <2>1. network' = network \ {m} /\ UNCHANGED <<lookup, answer>>
    BY <1>4 DEF HandleFoundResponse
  <2>2. StoreInv' /\ RegisteredInv'
    BY <1>2, StoreInvKeeps, RegistrationsKeep
  <2>. QED  BY <1>2, <2>1, <2>2, StoringKeeps DEF IInv
<1>. QED  BY <1>3, <1>4

\* So does a timeout, which takes the silent peer off the holders.
LEMMA FindTimeoutKeeps ==
    ASSUME IInv, NEW n \in Node, FindTimeout(n)
    PROVE  IInv'
<1> DEFINE l    == lookup[n]
           left == [l EXCEPT !.holders = l.holders \ {l.asked}]
<1>1. l # None /\ Proceed(n, left, None, network)
  BY DEF FindTimeout
<1>2. UNCHANGED <<store, registered, pending, events, made>> /\ events \in Nat
  BY DEF FindTimeout, IInv
<1>3. /\ SoundLookup(l) /\ l.id < events /\ Pursued(l)
      /\ \A m \in network : Agrees(m, n, l)
  BY <1>1 DEF IInv, LookupInv
<1>4. /\ left.id = l.id /\ left.chain = l.chain /\ left.found = l.found
      /\ left.rest = l.rest /\ left.holders = l.holders \ {l.asked}
      /\ left \in [id : Nat, chain : Chain, found : SUBSET Record, rest : SUBSET Node,
                   asked : Node \cup {None}, holders : SUBSET Node]
  BY <1>3 DEF SoundLookup
<1> HIDE DEF l, left
<1>5. SoundLookup(left)
  BY <1>3, <1>4 DEF SoundLookup
<1>6. \A m \in network : Agrees(m, n, left)
  BY <1>3, <1>4 DEF Agrees
<1>7. ~Parses(None) /\ With(left.found, left.chain, None) = left.found
  BY GatewayAssumption DEF Parses, With
<1>8. Undisturbed(left.chain) => left.found # {} \/ left.holders \subseteq left.rest
  BY <1>3, <1>4 DEF Pursued
<1>9. SoundEntry(None, Primary[left.chain])
  BY DEF SoundEntry
<1>10. left.id < events' /\ events <= events' /\ events' \in Nat
  BY <1>2, <1>3, <1>4
<1>. QED  BY <1>1, <1>2, <1>5, <1>6, <1>7, <1>8, <1>9, <1>10, ProceedKeeps

\* The answer to a lookup is what stands under its key, and a holder's is not empty.
LEMMA FindValueKeeps ==
    ASSUME IInv, NEW m \in network, HandleFindValue(m)
    PROVE  IInv'
<1> DEFINE e == store[m.to][m.key]
           reply == [type |-> "FOUND_RESPONSE", id |-> m.id, from |-> m.to,
                     to |-> m.from, entry |-> e]
<1>1. /\ SoundMessage(m) /\ m.type = "FIND_VALUE"
      /\ m.to \in Node /\ m.from \in Node /\ m.key \in Id
  BY DEF IInv, SoundMessage, IsMessage, HandleFindValue
<1>2. /\ UNCHANGED <<store, registered, pending, lookup, answer, events, made>>
      /\ network' = (network \ {m}) \cup {reply}
      /\ events \in Nat
  BY DEF HandleFindValue, IInv
<1>3. SoundEntry(e, m.key) /\ e \in Entry
  BY <1>1 DEF IInv, StoreInv
<1>4. /\ reply.type = "FOUND_RESPONSE" /\ reply.id = m.id /\ reply.from = m.to
      /\ reply.to = m.from /\ reply.entry = e
  OBVIOUS
<1> HIDE DEF reply
<1>5. SoundMessage(reply)
  BY <1>1, <1>3, <1>4 DEF SoundMessage, IsMessage
<1>6. \A a \in network' : SoundMessage(a)'
  BY <1>2, <1>5, Grows DEF IInv
<1>7. StoreInv' /\ RegisteredInv'
  BY <1>2, StoreInvKeeps, RegistrationsKeep
<1>8. ASSUME NEW q \in Node PROVE LookupInv(q)'
  <2>1. CASE lookup[q] = None
    BY <1>2, <2>1 DEF LookupInv
  <2>2. CASE lookup[q] # None
    <3>1. SoundLookup(lookup[q]) /\ Agrees(m, q, lookup[q])
      BY <2>2 DEF IInv, LookupInv
    <3>2. Agrees(reply, q, lookup[q])
      BY <1>1, <1>3, <1>4, <3>1 DEF Agrees, SoundLookup
    <3>3. \A a \in network' : a \in network \/ Agrees(a, q, lookup[q])
      BY <1>2, <3>2
    <3>. QED  BY <1>2, <3>3, LookupKeeps DEF IInv
  <2>. QED  BY <2>1, <2>2
<1>9. ASSUME NEW q \in Node PROVE AnswerInv(q)'
  BY <1>2, AnswerKeeps DEF IInv
<1>. QED  BY <1>2, <1>6, <1>7, <1>8, <1>9 DEF IInv

\* Others' lookups no longer count the node among the holders.
LEMMA RestartKeeps ==
    ASSUME IInv, NEW n \in Node, Restart(n)
    PROVE  IInv'
<1>1. /\ events' = events + 1 /\ events \in Nat /\ events' \in Nat
      /\ UNCHANGED <<network, made>>
      /\ store' = [store EXCEPT ![n] = [k \in Id |-> None]]
      /\ registered' = [registered EXCEPT ![n] = [c \in Chain |-> None]]
      /\ answer' = [answer EXCEPT ![n] = None]
      /\ pending' \subseteq pending
  BY DEF Restart, Counted, IInv
<1>2. StoreInv'
  BY <1>1 DEF IInv, StoreInv, SoundEntry, Written, Entry
<1>3. RegisteredInv'
  BY <1>1 DEF IInv, RegisteredInv, SoundRegistration
<1>4. \A m \in network' : SoundMessage(m)'
  BY <1>1, Grows DEF IInv
<1>5. /\ (lookup = [q \in Node |-> lookup[q]])'
      /\ \A q \in Node :
            IF q = n \/ lookup[q] = None THEN lookup'[q] = None
            ELSE lookup'[q] = [lookup[q] EXCEPT !.holders = lookup[q].holders \ {n}]
  BY DEF Restart
<1>6. ASSUME NEW q \in Node PROVE LookupInv(q)'
  <2>1. CASE q = n \/ lookup[q] = None
    BY <1>5, <2>1 DEF LookupInv
  <2>2. CASE ~(q = n \/ lookup[q] = None)
    <3>0. PICK l : l = lookup[q]
      OBVIOUS
    <3>1. PICK left : left = [l EXCEPT !.holders = l.holders \ {n}] /\ lookup'[q] = left
      BY <1>5, <2>2, <3>0
    <3>2. /\ SoundLookup(l) /\ l.asked \in Node /\ l.id < events /\ Pursued(l)
          /\ \A m \in network : Agrees(m, q, l)
      BY <2>2, <3>0 DEF IInv, LookupInv
    <3>3. /\ left.id = l.id /\ left.chain = l.chain /\ left.found = l.found
          /\ left.rest = l.rest /\ left.asked = l.asked /\ left.holders = l.holders \ {n}
          /\ left \in [id : Nat, chain : Chain, found : SUBSET Record, rest : SUBSET Node,
                       asked : Node \cup {None}, holders : SUBSET Node]
      BY <3>1, <3>2 DEF SoundLookup
    <3>4. l.chain \in Chain /\ l.holders \subseteq Node /\ l.id \in Nat
      BY <3>2 DEF SoundLookup
    <3>5. SoundLookup(left)'
      <4>1. SoundFound(left.chain, left.found)'
        BY <1>1, <3>2, <3>3, Grows DEF SoundLookup
      <4>2. ASSUME NEW h \in left.holders PROVE store'[h][Primary[left.chain]] # None
        <5>1. h # n /\ h \in Node /\ store[h][Primary[l.chain]] # None
          BY <3>2, <3>3, <3>4, <4>2 DEF SoundLookup
        <5>2. store'[h] = store[h]
          BY <1>1, <5>1 DEF IInv, StoreInv
        <5>. QED  BY <3>3, <5>1, <5>2
      <4>. QED  BY <3>3, <4>1, <4>2 DEF SoundLookup
    <3>6. Pursued(left)'
      BY <1>1, <3>2, <3>3, Grows DEF Pursued
    <3>7. ASSUME NEW m \in network' PROVE Agrees(m, q, left)'
      <4>1. Agrees(m, q, left)
        BY <1>1, <3>2, <3>3 DEF Agrees
      <4>2. \A e, k : SoundEntry(e, k) => SoundEntry(e, k)'
        BY <1>1, Grows
      <4>. QED  BY <4>1, <4>2 DEF Agrees
    <3>8. left.id < events'
      BY <1>1, <3>2, <3>3, <3>4
    <3>. QED  BY <3>1, <3>2, <3>3, <3>5, <3>6, <3>7, <3>8 DEF LookupInv
  <2>. QED  BY <2>1, <2>2
<1>7. ASSUME NEW q \in Node PROVE AnswerInv(q)'
  <2>1. CASE q = n
    BY <1>1, <2>1 DEF IInv, AnswerInv
  <2>2. CASE q # n
    BY <1>1, <2>2, AnswerKeeps DEF IInv
  <2>. QED  BY <2>1, <2>2
<1>8. (answer = [q \in Node |-> answer[q]])'
  BY <1>1 DEF IInv
<1>. QED  BY <1>1, <1>2, <1>3, <1>4, <1>5, <1>6, <1>7, <1>8 DEF IInv

\* A STORE that arrives keeps the invariant: a key that had an entry still has one.
LEMMA HandleStoreKeeps ==
    ASSUME IInv, NEW m \in network, HandleStore(m)
    PROVE  IInv'
<1>1. /\ UNCHANGED <<registered, pending, lookup, answer, events, made>>
      /\ store' = [store EXCEPT ![m.to][m.key] = m.entry]
      /\ network' = network \ {m}
      /\ events \in Nat
  BY DEF HandleStore, IInv
<1>2. /\ m.to \in Node /\ m.key \in Id /\ m.entry \in Record \cup {Text}
      /\ Written(m.entry, m.key)
  BY DEF IInv, SoundMessage, IsMessage, HandleStore
<1>3. m.entry \in Entry /\ m.entry # None
  BY <1>2, GatewayAssumption DEF Entry
<1>4. ASSUME NEW h \in Node, NEW k \in Id
      PROVE  store'[h][k] = store[h][k] \/ (k = m.key /\ store'[h][k] = m.entry)
  BY <1>1, <1>2 DEF IInv, StoreInv
<1>5. StoreInv'
  <2>1. store' \in [Node -> [Id -> Entry]]
    BY <1>1, <1>2, <1>3 DEF IInv, StoreInv
  <2>2. ASSUME NEW h \in Node, NEW k \in Id PROVE SoundEntry(store[h][k], k)'
    <3>1. SoundEntry(store[h][k], k)
      BY DEF IInv, StoreInv
    <3>. QED  BY <1>1, <1>2, <1>4, <3>1 DEF SoundEntry, Written
  <2>. QED  BY <2>1, <2>2 DEF StoreInv
<1>6. \A h \in Node, k \in Id : store[h][k] # None => store'[h][k] # None
  BY <1>3, <1>4
<1>7. RegisteredInv'
  BY <1>1, RegistrationsKeep
<1>. QED  BY <1>1, <1>5, <1>6, <1>7, StoringKeeps DEF IInv

\* A record that is made is under no key yet.
LEMMA NewGatewayKeeps ==
    ASSUME IInv, NEW n \in Node, NEW c \in Chain, NEW way \in {"plain", "secure"},
           NewGateway(n, c, way)
    PROVE  IInv'
<1> DEFINE r == [chain |-> c, node |-> n, stamp |-> events]
<1>1. /\ events < MaxEvents /\ events' = events + 1 /\ events \in Nat
      /\ made' = made \cup {r} /\ pending' = pending \cup {<<r, way>>}
      /\ UNCHANGED <<store, registered, network, lookup, answer>>
  BY DEF NewGateway, Counted, IInv
<1>2. r \in Record
  BY <1>1, GatewayAssumption DEF Record, Stamp
<1> HIDE DEF r
<1>3. StoreInv' /\ RegisteredInv'
  BY <1>1, StoreInvKeeps, RegistrationsKeep
<1>4. made' \subseteq Record /\ pending' \subseteq made' \X {"plain", "secure"}
  BY <1>1, <1>2 DEF IInv
<1>5. events' \in Nat /\ events <= events'
  BY <1>1
<1>. QED  BY <1>1, <1>3, <1>4, <1>5, StoringKeeps

\* Storing a checked record keeps the invariant, in both ways to store it.
LEMMA StoreGatewayKeeps ==
    ASSUME IInv, NEW r \in made, NEW tbl \in Tables[r.node],
           StoreGateway(r, tbl) \/ StoreGatewaySecure(r, tbl)
    PROVE  IInv'
<1>1. /\ r \in Record /\ r.node \in Node
      /\ KeysOf(r) \in SUBSET Id /\ \A k \in KeysOf(r) : Written(r, k)'
      /\ UNCHANGED <<lookup, answer, events, made>>
      /\ events \in Nat
      /\ pending' \subseteq made' \X {"plain", "secure"}
  BY KeysOfInId DEF StoreGateway, StoreGatewaySecure, IInv, Record, Written
<1>2. CASE StoreGateway(r, tbl)
  <2>1. Store(r.node, tbl, KeysOf(r), r) /\ UNCHANGED registered
    BY <1>2 DEF StoreGateway
  <2>2. /\ StoreInv'
        /\ \A h \in Node, k \in Id : store[h][k] # None => store'[h][k] # None
        /\ \A m \in network' : m \in network \/ (m.type = "STORE" /\ SoundMessage(m)')
    BY <1>1, <2>1, StoreKeeps DEF IInv
  <2>3. RegisteredInv'
    BY <1>1, <2>1, RegistrationsKeep
  <2>. QED  BY <1>1, <2>2, <2>3, StoringKeeps DEF IInv
<1>3. CASE StoreGatewaySecure(r, tbl)
  <2>1. /\ network' = network \cup SentBy(r.node, tbl, KeysOf(r), r)
        /\ registered' = [registered EXCEPT ![r.node][r.chain] = r]
        /\ UNCHANGED store
    BY <1>3 DEF StoreGatewaySecure, SecureStore
  <2>2. StoreInv' /\ RegisteredInv'
    BY <1>1, <2>1, StoreInvKeeps, RegisteredKeeps
  <2>3. \A m \in network' : m \in network \/ (m.type = "STORE" /\ SoundMessage(m)')
    BY <1>1, <2>1, SentBySound
  <2>. QED  BY <1>1, <2>1, <2>2, <2>3, StoringKeeps DEF IInv
<1>. QED  BY <1>2, <1>3

\* So does a registration, or the heartbeat that repeats it.
LEMMA RegisterAsGatewayKeeps ==
    ASSUME IInv, NEW n \in Node, NEW c \in Chain, NEW tbl \in Tables[n],
           RegisterAsGateway(n, c, tbl)
    PROVE  IInv'
<1>0. PICK r : r = [chain |-> c, node |-> n, stamp |-> events]
  OBVIOUS
<1>1. /\ events < MaxEvents /\ events' = events + 1 /\ events \in Nat
      /\ made' = made \cup {r}
      /\ registered' = [registered EXCEPT ![n][c] = r]
      /\ Store(n, tbl, KeysOf(r), r)
      /\ UNCHANGED <<pending, lookup, answer>>
  BY <1>0 DEF RegisterAsGateway, Counted, IInv
<1>2. r \in Record /\ r.node = n /\ r.chain = c
  BY <1>0, <1>1, GatewayAssumption DEF Record, Stamp
<1>3. KeysOf(r) \in SUBSET Id /\ \A k \in KeysOf(r) : Written(r, k)'
  BY <1>1, <1>2, KeysOfInId DEF Written
<1>4. /\ made \subseteq made' /\ made' \subseteq Record
      /\ pending' \subseteq made' \X {"plain", "secure"}
  BY <1>1, <1>2 DEF IInv
<1>5. /\ StoreInv'
      /\ \A h \in Node, k \in Id : store[h][k] # None => store'[h][k] # None
      /\ \A m \in network' : m \in network \/ (m.type = "STORE" /\ SoundMessage(m)')
  BY <1>1, <1>2, <1>3, <1>4, StoreKeeps
<1>6. RegisteredInv'
  BY <1>1, <1>2, <1>4, RegisteredKeeps
<1>7. events' \in Nat /\ events <= events'
  BY <1>1
<1>. QED  BY <1>1, <1>4, <1>5, <1>6, <1>7, StoringKeeps

\* A value of any other kind is stored under the keys of texts only.
LEMMA StoreValueKeeps ==
    ASSUME IInv, NEW n \in Node, NEW key \in TextKeys, NEW tbl \in Tables[n],
           StoreValue(n, key, tbl)
    PROVE  IInv'
<1>1. /\ events' = events + 1 /\ events \in Nat
      /\ Store(n, tbl, {key}, Text)
      /\ UNCHANGED <<registered, pending, lookup, answer, made>>
  BY DEF StoreValue, Counted, IInv
<1>2. {key} \in SUBSET Id /\ \A k \in {key} : Written(Text, k)'
  BY GatewayAssumption DEF Written
<1>3. /\ StoreInv'
      /\ \A h \in Node, k \in Id : store[h][k] # None => store'[h][k] # None
      /\ \A m \in network' : m \in network \/ (m.type = "STORE" /\ SoundMessage(m)')
  BY <1>1, <1>2, StoreKeeps DEF IInv
<1>4. RegisteredInv'
  BY <1>1, RegistrationsKeep
<1>5. events' \in Nat /\ events <= events'
  BY <1>1
<1>. QED  BY <1>1, <1>3, <1>4, <1>5, StoringKeeps DEF IInv

\* Nothing is stored at first.
LEMMA InitIInv == Init => IInv
<1> SUFFICES ASSUME Init PROVE IInv
  OBVIOUS
<1>1. StoreInv /\ RegisteredInv
  BY DEF Init, StoreInv, SoundEntry, Entry, RegisteredInv, SoundRegistration
<1>2. \A n \in Node : LookupInv(n) /\ AnswerInv(n)
  BY DEF Init, LookupInv, AnswerInv
<1>. QED  BY <1>1, <1>2 DEF Init, IInv

\* Every step keeps the invariant.
LEMMA NextIInv == IInv /\ [Next]_vars => IInv'
<1> SUFFICES ASSUME IInv, [Next]_vars PROVE IInv'
  OBVIOUS
<1>1. ASSUME NEW n \in Node, NEW c \in Serves[n], NEW way \in {"plain", "secure"},
             NewGateway(n, c, way)
      PROVE  IInv'
  BY <1>1, NewGatewayKeeps, GatewayAssumption
<1>2. ASSUME NEW n \in Node, NEW c \in Serves[n], NEW tbl \in Tables[n],
             RegisterAsGateway(n, c, tbl)
      PROVE  IInv'
  BY <1>2, RegisterAsGatewayKeeps, GatewayAssumption
<1>3. ASSUME NEW w \in pending, NEW tbl \in Tables[w[1].node],
             StoreGateway(w[1], tbl) \/ StoreGatewaySecure(w[1], tbl)
      PROVE  IInv'
  <2>1. w[1] \in made
    BY DEF IInv
  <2>. QED  BY <1>3, <2>1, StoreGatewayKeeps
<1>4. ASSUME NEW n \in Finders, NEW key \in TextKeys, NEW tbl \in Tables[n],
             StoreValue(n, key, tbl)
      PROVE  IInv'
  BY <1>4, StoreValueKeeps, GatewayAssumption
<1>5. ASSUME NEW n \in Finders, NEW c \in Chain, NEW tbl \in Tables[n],
             FindGateways(n, c, tbl)
      PROVE  IInv'
  BY <1>5, FindGatewaysKeeps, GatewayAssumption
<1>6. ASSUME NEW m \in network,
             HandleStore(m) \/ HandleFindValue(m) \/ HandleFoundResponse(m)
      PROVE  IInv'
  BY <1>6, HandleStoreKeeps, FindValueKeeps, FoundResponseKeeps
<1>7. ASSUME NEW n \in Node, FindTimeout(n) \/ Restart(n) PROVE IInv'
  BY <1>7, FindTimeoutKeeps, RestartKeeps
<1>8. CASE UNCHANGED vars
  <2>1. UNCHANGED <<store, registered, network, pending, lookup, answer, events, made>>
    BY <1>8 DEF vars
  <2>2. StoreInv' /\ RegisteredInv'
    BY <2>1, StoreInvKeeps, RegistrationsKeep
  <2>. QED  BY <2>1, <2>2, StoringKeeps DEF IInv
<1>. QED  BY <1>1, <1>2, <1>3, <1>4, <1>5, <1>6, <1>7, <1>8 DEF Next

-----------------------------------------------------------------------------
(* What follows *)

\* In every reachable state the stores, messages, lookups and answers are sound.
THEOREM Soundness == Spec => []IInv
  BY InitIInv, NextIInv, PTL DEF Spec

\* The state of the nodes and of the network has its types.
THEOREM TypeCorrect == Spec => []TypeOK
<1>1. IInv => TypeOK
  BY DEF IInv, StoreInv, RegisteredInv, SoundMessage, LookupInv, SoundLookup, TypeOK, Lookup
<1>. QED  BY <1>1, Soundness, PTL

\* A lookup comes back empty only if every peer that held a gateway when it began,
\* among those it asks, failed to answer or restarted (findGateways).
THEOREM HeldGatewaysAreFound == Spec => []FoundIfHeld
<1>1. IInv => FoundIfHeld
  BY DEF IInv, AnswerInv, FoundIfHeld
<1>. QED  BY <1>1, Soundness, PTL

\* The variables of the registry are those of the nodes.
LEMMA InitRegistry == Init => Registry!Init
  BY DEF Init, Registry!Init, Shown

\* A lookup that goes on is a stutter of the registry, and one that returns an Answer.
LEMMA ProceedRegistry ==
    ASSUME IInv, IInv', UNCHANGED made,
           NEW n \in Node, NEW l, NEW e, NEW sent, Proceed(n, l, e, sent)
    PROVE  [Registry!Next]_(Registry!vars)
<1>1. CASE UNCHANGED answer
  BY <1>1 DEF Registry!vars
<1>2. CASE Return(n, [l EXCEPT !.found = With(l.found, l.chain, e)])
  <2> DEFINE r == [l EXCEPT !.found = With(l.found, l.chain, e)]
  <2>1. PICK a : /\ a = [chain |-> r.chain, found |-> r.found, held |-> r.holders # {}]
                 /\ answer' = [answer EXCEPT ![n] = a]
    BY <1>2 DEF Return
  <2> HIDE DEF r
  <2>2. answer = [q \in Node |-> answer[q]] /\ answer'[n] = a
    BY <2>1 DEF IInv
  <2>3. CASE a = None
    <3>1. Registry!Forget(n)
      BY <2>1, <2>2, <2>3 DEF Registry!Forget, Shown
    <3>. QED  BY <3>1 DEF Registry!Next
  <2>4. CASE a # None
    <3>1. a.chain \in Chain /\ SoundFound(a.chain, a.found)'
      BY <2>2, <2>4 DEF IInv, AnswerInv
    <3>2. /\ a.found \subseteq {g \in made : g.chain = a.chain}
          /\ Registry!OnePerNode(a.found)
      BY <3>1 DEF SoundFound
    <3>3. [q \in Node |-> Shown(answer[q])]' =
             [[q \in Node |-> Shown(answer[q])] EXCEPT ![n] =
                 [chain |-> a.chain, found |-> a.found]]
      BY <2>1, <2>2, <2>4 DEF Shown
    <3>4. Registry!Answer(n, a.chain, a.found)
      BY <3>2, <3>3 DEF Registry!Answer
    <3>. QED  BY <3>1, <3>2, <3>4 DEF Registry!Next
  <2>. QED  BY <2>3, <2>4
<1>. QED  BY <1>1, <1>2 DEF Proceed, AskNext

\* Every step is one of the registry, or a stutter.
LEMMA NextRegistry == IInv /\ IInv' /\ [Next]_vars => [Registry!Next]_(Registry!vars)
<1> SUFFICES ASSUME IInv, IInv', [Next]_vars PROVE [Registry!Next]_(Registry!vars)
  OBVIOUS
<1>1. ASSUME NEW r \in Record, made' = made \cup {r}, UNCHANGED answer
      PROVE  [Registry!Next]_(Registry!vars)
  BY <1>1 DEF Registry!Next, Registry!Register, Registry!Record, Record
<1>2. CASE UNCHANGED <<answer, made>>
  BY <1>2 DEF Registry!vars
<1>3. ASSUME NEW n \in Node, NEW c \in Serves[n], NEW way \in {"plain", "secure"},
             NewGateway(n, c, way)
      PROVE  [Registry!Next]_(Registry!vars)
  <2>1. [chain |-> c, node |-> n, stamp |-> events] \in Record
    BY <1>3, GatewayAssumption DEF NewGateway, Counted, IInv, Record, Stamp
  <2>. QED  BY <1>1, <1>3, <2>1 DEF NewGateway
<1>4. ASSUME NEW n \in Node, NEW c \in Serves[n], NEW tbl \in Tables[n],
             RegisterAsGateway(n, c, tbl)
      PROVE  [Registry!Next]_(Registry!vars)
  <2>1. [chain |-> c, node |-> n, stamp |-> events] \in Record
    BY <1>4, GatewayAssumption DEF RegisterAsGateway, Counted, IInv, Record, Stamp
  <2>. QED  BY <1>1, <1>4, <2>1 DEF RegisterAsGateway
<1>5. ASSUME NEW r, NEW tbl, StoreGateway(r, tbl) \/ StoreGatewaySecure(r, tbl)
      PROVE  UNCHANGED <<answer, made>>
  BY <1>5 DEF StoreGateway, StoreGatewaySecure
<1>6. ASSUME NEW n, NEW key, NEW tbl, StoreValue(n, key, tbl)
      PROVE  UNCHANGED <<answer, made>>
  BY <1>6 DEF StoreValue
<1>7. ASSUME NEW n \in Finders, NEW c \in Chain, NEW tbl \in Tables[n],
             FindGateways(n, c, tbl)
      PROVE  [Registry!Next]_(Registry!vars)
  BY <1>7, ProceedRegistry, GatewayAssumption DEF FindGateways
<1>8. ASSUME NEW m \in network,
             HandleStore(m) \/ HandleFindValue(m) \/ HandleFoundResponse(m)
      PROVE  [Registry!Next]_(Registry!vars)
  <2>1. m.to \in Node
    BY DEF IInv, SoundMessage, IsMessage
  <2>. QED
    BY <1>2, <1>8, <2>1, ProceedRegistry
    DEF HandleStore, HandleFindValue, HandleFoundResponse
<1>9. ASSUME NEW n \in Node, FindTimeout(n) PROVE [Registry!Next]_(Registry!vars)
  BY <1>9, ProceedRegistry DEF FindTimeout
<1>10. ASSUME NEW n \in Node, Restart(n) PROVE [Registry!Next]_(Registry!vars)
  <2>1. Registry!Forget(n)
    BY <1>10 DEF Restart, IInv, Registry!Forget, Shown
  <2>. QED  BY <2>1 DEF Registry!Next
<1>11. CASE UNCHANGED vars
  BY <1>2, <1>11 DEF vars
<1>. QED
  BY <1>2, <1>3, <1>4, <1>5, <1>6, <1>7, <1>8, <1>9, <1>10, <1>11 DEF Next

\* Lookups return registered gateways of the chain they ask for, one per node, for
\* any tables, any loss and order of messages, and any restarts (findGateways).
THEOREM GatewaysImplementRegistry == Spec => ImplementsRegistry
  BY InitRegistry, NextRegistry, Soundness, PTL DEF Spec, ImplementsRegistry, Registry!Spec

=============================================================================
