---------------------------- MODULE KeyExchange ----------------------------
(***************************************************************************)
(* Who holds whose public key, and which messages can be read.             *)
(*                                                                         *)
(* A node makes a key pair when it is constructed and keeps the public     *)
(* keys of other nodes in memory.  Keys travel in offers (the keyExchange  *)
(* field), in secure payloads (senderPublicKey) and in KEY_DISCOVERY.  A   *)
(* payload is encrypted for the key that the sender has stored, which the  *)
(* receiver may have lost in a restart.                                    *)
(*                                                                         *)
(* The network only grows: a message may be handled never, late, again, or *)
(* by a later life of its receiver.  An answer that arrives before its     *)
(* listener is registered teaches nothing that a later copy would not, so  *)
(* a listener is registered with its request.                              *)
(***************************************************************************)
EXTENDS Integers, FiniteSets, FiniteSetsExt

CONSTANTS
    Node,         \* node ids
    None,         \* no key, no offer, no payload, not encrypted
    MaxRequests,  \* bound: requests sent in all
    MaxEvents     \* bound: restarts, switchings and key cleanings in all

ASSUME KeyExchangeAssumption ==
    /\ {MaxRequests, MaxEvents} \subseteq Nat
    /\ None \notin Node \X Nat
    /\ None \notin [by : Node \X Nat, for : (Node \X Nat) \cup {None}]

VARIABLES
    life,       \* [Node -> number of the key pair that the node has now]
    keys,       \* [Node -> [Node -> the key stored for a node, or None]]
    enabled,    \* [Node -> encryptionEnabled]
    listening,  \* <<node, id>> of the lookups whose answer is listened for
    network,    \* every message sent
    dropped,    \* messages given up because they could not be decrypted
    sent, toggles, expiries    \* requests, switchings, cleanings so far; sent numbers resIds

vars == <<life, keys, enabled, listening, network, dropped, sent, toggles, expiries>>

Key == Node \X Nat
Owner(k) == k[1]
Own(n) == <<n, life[n]>>

Init ==
    /\ life = [n \in Node |-> 0]
    /\ keys = [n \in Node |-> [p \in Node |-> None]]
    /\ enabled = [n \in Node |-> TRUE]
    /\ listening = {}
    /\ network = {}
    /\ dropped = {}
    /\ sent = 0
    /\ toggles = 0
    /\ expiries = 0

-----------------------------------------------------------------------------
(* Sending *)

\* Mutant of Prepared: encrypted for the sender's own key.
PreparedForOwn(n, known) == [by |-> Own(n), for |-> IF known = None THEN None ELSE Own(n)]

\* prepareMessage: encrypted for the stored key, else in the clear.  Either way
\* with the sender's public key.
Prepared(n, known) == [by |-> Own(n), for |-> known]

\* shouldUseEncryption, and handleMessageResponse
SecuredIfAble(n, known) ==
    IF enabled[n] /\ known # None THEN Prepared(n, known) ELSE None

OfferIfUnknown(n, p) == IF keys[n][p] = None THEN Own(n) ELSE None

Message(type, id, n, p, offer, secure) ==
    [type |-> type, id |-> id, from |-> n, to |-> p, offer |-> offer, secure |-> secure]

\* p may be n: the bootstrap node lists itself when it starts, and a node that is told
\* to ping itself hears from itself.
Request(type, n, p, offer, secure) ==
    /\ sent < MaxRequests
    /\ sent' = sent + 1
    /\ network' = network \cup {Message(type, sent, n, p, offer, secure)}
    /\ UNCHANGED <<life, keys, enabled, dropped, toggles, expiries>>

\* sendManyUdp, as store uses it
SendStore(n, p) ==
    /\ Request("STORE", n, p, OfferIfUnknown(n, p), SecuredIfAble(n, keys[n][p]))
    /\ UNCHANGED listening

\* secureStore: never an offer, and a payload whatever the switch says.
SecureStore(n, p) ==
    /\ Request("STORE", n, p, None, Prepared(n, keys[n][p]))
    /\ UNCHANGED listening

\* sendSingleFindValue
SendSingleFindValue(n, p) ==
    /\ Request("FIND_VALUE", n, p, OfferIfUnknown(n, p), SecuredIfAble(n, keys[n][p]))
    /\ listening' = listening \cup {<<n, sent>>}

SecurePing(n, p) ==
    /\ Request("PING", n, p, Own(n), None)
    /\ UNCHANGED listening

\* The requests of discovery and of a full bucket.
SendPlain(n, p) ==
    /\ \E type \in {"PING", "FIND_NODE"} : Request(type, n, p, None, None)
    /\ UNCHANGED listening

SendKeyDiscoveryRequest(n, p) ==
    /\ Request("KEY_DISCOVERY", n, p, Own(n), None)
    /\ UNCHANGED listening

-----------------------------------------------------------------------------
(* Handling *)

\* Mutant of Heard: the key is stored under the receiver's id.
HeardAsOwn(m) ==
    IF m.secure = None THEN keys[m.to]
    ELSE [keys[m.to] EXCEPT ![m.to] = m.secure.by]

\* processMessage stores the key that comes with a payload, readable or not.
Heard(m) ==
    IF m.secure = None THEN keys[m.to]
    ELSE [keys[m.to] EXCEPT ![m.from] = m.secure.by]

Readable(m) == m.secure # None => m.secure.for \in {None, Own(m.to)}

\* An offer names the node whose key it is, and is stored under that name.
Learned(known, offer) ==
    IF offer = None THEN known ELSE [known EXCEPT ![Owner(offer)] = offer]

\* A handler that leaves `known' as the receiver's keys and answers, if at all,
\* with a message of the request's id.
Handled(m, known, answers) ==
    /\ keys' = [keys EXCEPT ![m.to] = known]
    /\ network' = network \cup answers
    /\ UNCHANGED <<life, enabled, dropped, sent, toggles, expiries>>

AnswerTo(m, type, known, offer) ==
    {Message(type, m.id, m.to, m.from, offer, SecuredIfAble(m.to, known[m.from]))}

Drop(m) ==
    /\ ~ Readable(m)
    /\ keys' = [keys EXCEPT ![m.to] = Heard(m)]
    /\ dropped' = dropped \cup {m}
    /\ UNCHANGED <<life, enabled, listening, network, sent, toggles, expiries>>

\* Mutant of EchoOf: the payload of the request is echoed before the responder's.
EchoOfRequest(m, known) ==
    IF m.secure # None THEN m.secure ELSE SecuredIfAble(m.to, known[m.from])

\* The PONG to a STORE is the data of the STORE again, its payload included
\* unless handleMessageResponse replaces it.
EchoOf(m, known) ==
    IF enabled[m.to] /\ known[m.from] # None THEN Prepared(m.to, known[m.from])
    ELSE m.secure

\* The offer of a STORE is not stored, it is only sent back.
HandleStore(m) ==
    /\ m.type = "STORE"
    /\ Readable(m)
    /\ Handled(m, Heard(m),
               {Message("PONG", m.id, m.to, m.from, m.offer, EchoOf(m, Heard(m)))})
    /\ UNCHANGED listening

HandlePing(m) ==
    /\ m.type = "PING"
    /\ LET known == Learned(keys[m.to], m.offer) IN
       Handled(m, known, AnswerTo(m, "PONG", known, Own(m.to)))
    /\ UNCHANGED listening

\* Mutant of HandleFindValue: the offer is not stored.
HandleFindValueNoOffer(m) ==
    /\ m.type = "FIND_VALUE"
    /\ Readable(m)
    /\ Handled(m, Heard(m), AnswerTo(m, "FOUND_RESPONSE", Heard(m), Own(m.to)))
    /\ UNCHANGED listening

HandleFindValue(m) ==
    /\ m.type = "FIND_VALUE"
    /\ Readable(m)
    /\ LET known == Learned(Heard(m), m.offer) IN
       Handled(m, known, AnswerTo(m, "FOUND_RESPONSE", known, Own(m.to)))
    /\ UNCHANGED listening

HandleFindNode(m) ==
    /\ m.type = "FIND_NODE"
    /\ Handled(m, keys[m.to], AnswerTo(m, "REPLY", keys[m.to], None))
    /\ UNCHANGED listening

HandlePong(m) ==
    /\ m.type = "PONG"
    /\ Readable(m)
    /\ Handled(m, Learned(Heard(m), m.offer), {})
    /\ UNCHANGED listening

HandleReply(m) ==
    /\ m.type = "REPLY"
    /\ Readable(m)
    /\ Handled(m, Heard(m), {})
    /\ UNCHANGED listening

\* The offer of an answer to a lookup is stored by the lookup's listener.
HandleFoundResponse(m) ==
    /\ m.type = "FOUND_RESPONSE"
    /\ Readable(m)
    /\ LET awaited == <<m.to, m.id>> \in listening IN
       Handled(m, IF awaited THEN Learned(Heard(m), m.offer) ELSE Heard(m), {})
    /\ listening' = listening \ {<<m.to, m.id>>}

\* handleKeyDiscoveryMessage, for requests and for responses
HandleKeyDiscovery(m) ==
    /\ m.type \in {"KEY_DISCOVERY", "KEY_RESPONSE"}
    /\ Handled(m, [keys[m.to] EXCEPT ![m.from] = m.offer],
               IF m.type = "KEY_RESPONSE" THEN {}
               ELSE {Message("KEY_RESPONSE", m.id, m.to, m.from, Own(m.to), None)})
    /\ UNCHANGED listening

-----------------------------------------------------------------------------
(* The switch, the hourly cleaning, and restarts *)

Bounded == toggles + expiries + MapThenSumSet(LAMBDA n : life[n], Node) < MaxEvents

SetEncryptionEnabled(n) ==
    /\ Bounded
    /\ toggles' = toggles + 1
    /\ enabled' = [enabled EXCEPT ![n] = ~ @]
    /\ UNCHANGED <<life, keys, listening, network, dropped, sent, expiries>>

\* Which keys are older than a day is left open.
CleanupOldKeys(n) ==
    /\ Bounded
    /\ expiries' = expiries + 1
    /\ \E old \in SUBSET Node :
          keys' = [keys EXCEPT ![n] = [p \in Node |-> IF p \in old THEN None ELSE @[p]]]
    /\ UNCHANGED <<life, enabled, listening, network, dropped, sent, toggles>>

\* The process ends and is started again: a new key pair, nothing stored.
Restart(n) ==
    /\ Bounded
    /\ life' = [life EXCEPT ![n] = @ + 1]
    /\ keys' = [keys EXCEPT ![n] = [p \in Node |-> None]]
    /\ enabled' = [enabled EXCEPT ![n] = TRUE]
    /\ listening' = {l \in listening : l[1] # n}
    /\ UNCHANGED <<network, dropped, sent, toggles, expiries>>

Send(n, p) ==
    \/ SendStore(n, p)
    \/ SecureStore(n, p)
    \/ SendSingleFindValue(n, p)
    \/ SecurePing(n, p)
    \/ SendPlain(n, p)
    \/ SendKeyDiscoveryRequest(n, p)

HandleMessage(m) ==
    \/ Drop(m)
    \/ HandleStore(m)
    \/ HandlePing(m)
    \/ HandleFindValue(m)
    \/ HandleFindNode(m)
    \/ HandlePong(m)
    \/ HandleReply(m)
    \/ HandleFoundResponse(m)
    \/ HandleKeyDiscovery(m)

Next ==
    \/ \E n, p \in Node : Send(n, p)
    \/ \E m \in network : HandleMessage(m)
    \/ \E n \in Node : SetEncryptionEnabled(n) \/ CleanupOldKeys(n) \/ Restart(n)

Spec == Init /\ [][Next]_vars

-----------------------------------------------------------------------------
(* Properties *)

Payload == [by : Key, for : Key \cup {None}]
Types   == {"STORE", "FIND_VALUE", "PING", "FIND_NODE", "KEY_DISCOVERY",
            "PONG", "FOUND_RESPONSE", "REPLY", "KEY_RESPONSE"}

Messages == [type : Types, id : Nat, from : Node, to : Node,
             offer : Key \cup {None}, secure : Payload \cup {None}]

\* A key stored for a node was made by that node, or by the node that stores it:
\* whatever is echoed, lost or late, nobody takes a third node's key for it
\* (storePublicKey and all its callers).
TwoPartyKeys ==
    \A n, p \in Node : keys[n][p] # None => Owner(keys[n][p]) \in {n, p}

\* storePublicKey (keyManager.ts:56): the key stored for a node is that node's.
KeysOfTheirNode ==
    \A n, p \in Node : keys[n][p] # None => Owner(keys[n][p]) = p

\* As long as nobody switches encryption off, the key stored for a node is that
\* node's: a PONG always replaces the payload that it echoes.
KeysOfTheirNodeIfEnabled == toggles = 0 => KeysOfTheirNode

\* As long as nobody switches encryption off, a message is dropped only because
\* its receiver has restarted since the key it is encrypted for was sent:
\* between nodes that stay up every message can be read (handleMessage).
DropsAreStale ==
    toggles = 0 =>
        \A m \in dropped : /\ Owner(m.secure.for) = m.to
                          /\ m.secure.for[2] < life[m.to]

\* Taking the answer to a lookup completes the exchange of keys: the two nodes
\* have keys for each other, whoever made the first offer, however late the answer
\* is, unless the responder has restarted since (sendSingleFindValue,
\* handleMessage, udpMessageResolver).  Not so once a key has expired or
\* encryption has been switched.
FindValueExchanges ==
    [][ \A m \in network :
          /\ m.type = "FOUND_RESPONSE"
          /\ <<m.to, m.id>> \in listening \ listening'
          /\ life' = life
          /\ m.offer = Own(m.from)
          /\ toggles = 0 /\ expiries = 0
          => keys'[m.to][m.from] # None /\ keys'[m.from][m.to] # None ]_vars
=============================================================================
