-------------------------- MODULE KeyExchangeProofs --------------------------
(***************************************************************************)
(* Whose keys a node stores, and why a message can be unreadable, for any  *)
(* nodes and any bounds.                                                   *)
(*                                                                         *)
(* Keys and messages feed each other, so one invariant speaks of both: a   *)
(* row of stored keys is sound, a payload is sound.  Each handler is then  *)
(* a matter of showing that the row it leaves and the answer it sends are  *)
(* sound (HandledKeeps).                                                   *)
(***************************************************************************)
EXTENDS KeyExchange, TLAPS

\* A key that its owner has, or has had.
Made(k) == k \in Key /\ k[2] <= life[k[1]]

\* The keys that node n stores.
SoundRow(n, row) ==
    /\ row \in [Node -> Key \cup {None}]
    /\ \A p \in Node : row[p] # None =>
          /\ Made(row[p])
          /\ Owner(row[p]) \in {n, p}
          /\ toggles = 0 => Owner(row[p]) = p

\* A payload in a message from n to p.
SoundPayload(n, p, s) ==
    /\ s \in Payload
    /\ Made(s.by)
    /\ Owner(s.by) \in {n, p}
    /\ toggles = 0 => Owner(s.by) = n
    /\ s.for # None => Made(s.for)
    /\ toggles = 0 /\ s.for # None => Owner(s.for) = p

SoundMessage(m) ==
    /\ m \in Messages
    /\ m.offer # None => Made(m.offer)
    /\ m.secure # None => SoundPayload(m.from, m.to, m.secure)
    /\ m.type \in {"KEY_DISCOVERY", "KEY_RESPONSE"} =>
          m.offer # None /\ Owner(m.offer) = m.from

Stale(m) ==
    /\ m \in network
    /\ m.secure.for \in Key
    /\ toggles = 0 => Owner(m.secure.for) = m.to /\ m.secure.for[2] < life[m.to]

IInv ==
    /\ life \in [Node -> Nat]
    /\ enabled \in [Node -> BOOLEAN]
    /\ toggles \in Nat
    /\ toggles = 0 => \A n \in Node : enabled[n]
    /\ keys \in [Node -> [Node -> Key \cup {None}]]
    /\ \A n \in Node : SoundRow(n, keys[n])
    /\ \A m \in network : SoundMessage(m)
    /\ \A m \in dropped : Stale(m)
    /\ sent \in Nat /\ expiries \in Nat

-----------------------------------------------------------------------------
(* The parts a handler is made of *)

\* Nothing is no key.
LEMMA NoneIsNoKey == None \notin Key
  BY KeyExchangeAssumption DEF Key

\* A payload prepared with a sound row is sound.
LEMMA PreparedSound ==
    ASSUME IInv, NEW n \in Node, NEW p \in Node, NEW row, SoundRow(n, row)
    PROVE  SoundPayload(n, p, Prepared(n, row[p]))
  BY NoneIsNoKey DEF IInv, SoundRow, SoundPayload, Prepared, Payload, Made, Own, Owner, Key

\* The row with the key that a payload carries is sound.
LEMMA HeardSound ==
    ASSUME IInv, NEW m \in network
    PROVE  SoundRow(m.to, Heard(m))
<1>1. SoundMessage(m) /\ m \in Messages
  BY DEF IInv, SoundMessage
<1>2. m.to \in Node /\ m.from \in Node
  BY <1>1 DEF Messages
<1>3. SoundRow(m.to, keys[m.to])
  BY <1>2 DEF IInv
<1>4. CASE m.secure = None
  BY <1>3, <1>4 DEF Heard
<1>5. CASE m.secure # None
  <2>1. SoundPayload(m.from, m.to, m.secure)
    BY <1>1, <1>5 DEF SoundMessage
  <2>2. Heard(m) = [keys[m.to] EXCEPT ![m.from] = m.secure.by]
    BY <1>5 DEF Heard
  <2>. QED  BY <1>2, <1>3, <2>1, <2>2 DEF SoundPayload, SoundRow, Made
<1>. QED  BY <1>4, <1>5

\* Storing an offer under its owner's id keeps a row sound.
LEMMA LearnedSound ==
    ASSUME NEW n \in Node, NEW row, SoundRow(n, row),
           NEW offer, offer # None => Made(offer)
    PROVE  SoundRow(n, Learned(row, offer))
<1>1. CASE offer = None
  BY <1>1 DEF Learned
<1>2. CASE offer # None
  <2>1. offer \in Key /\ Owner(offer) \in Node
    BY <1>2 DEF Made, Owner, Key
  <2>2. Learned(row, offer) = [row EXCEPT ![Owner(offer)] = offer]
    BY <1>2 DEF Learned
  <2>. QED  BY <1>2, <2>1, <2>2 DEF SoundRow
<1>. QED  BY <1>1, <1>2

\* A node's own key is one it has made.
LEMMA OwnMade ==
    ASSUME IInv, NEW n \in Node
    PROVE  Made(Own(n)) /\ Own(n) # None /\ Owner(Own(n)) = n
  BY NoneIsNoKey DEF IInv, Made, Own, Owner, Key

\* A message with a sound offer, and a payload that is absent or prepared.
LEMMA MessageSound ==
    ASSUME IInv, NEW type \in Types, NEW id \in Nat, NEW n \in Node, NEW p \in Node,
           NEW offer, offer # None => Made(offer),
           type \in {"KEY_DISCOVERY", "KEY_RESPONSE"} => offer # None /\ Owner(offer) = n,
           NEW secure, secure # None => SoundPayload(n, p, secure)
    PROVE  SoundMessage(Message(type, id, n, p, offer, secure))
<1>1. offer \in Key \cup {None} /\ secure \in Payload \cup {None}
  BY DEF Made, SoundPayload
<1>. QED  BY <1>1 DEF Message, SoundMessage, Messages

-----------------------------------------------------------------------------
(* The steps *)

\* A handler that leaves a sound row and sends sound answers keeps the invariant.
LEMMA HandledKeeps ==
    ASSUME IInv, NEW m \in network,
           NEW known, SoundRow(m.to, known),
           NEW answers, \A a \in answers : SoundMessage(a),
           Handled(m, known, answers)
    PROVE  IInv'
<1>1. UNCHANGED <<life, enabled, dropped, sent, toggles, expiries>>
  BY DEF Handled
<1>2. m.to \in Node
  BY DEF IInv, SoundMessage, Messages
<1>3. keys' \in [Node -> [Node -> Key \cup {None}]]
  BY <1>2 DEF IInv, Handled, SoundRow
<1>4. ASSUME NEW n \in Node PROVE SoundRow(n, keys[n])'
  <2>1. SoundRow(n, keys'[n])
    BY <1>2 DEF IInv, Handled
  <2>. QED  BY <1>1, <2>1 DEF SoundRow, Made
<1>5. ASSUME NEW a \in network' PROVE SoundMessage(a)'
  <2>1. SoundMessage(a)
    BY DEF IInv, Handled
  <2>. QED  BY <1>1, <2>1 DEF SoundMessage, SoundPayload, Made
<1>6. ASSUME NEW d \in dropped' PROVE Stale(d)'
  BY <1>1, <1>6 DEF IInv, Handled, Stale
<1>. QED  BY <1>1, <1>3, <1>4, <1>5, <1>6 DEF IInv

\* A request that is sound on its own keeps the invariant.
LEMMA RequestKeeps ==
    ASSUME IInv, NEW n \in Node, NEW p \in Node, NEW type \in Types,
           NEW offer, offer # None => Made(offer),
           type \in {"KEY_DISCOVERY", "KEY_RESPONSE"} => offer # None /\ Owner(offer) = n,
           NEW secure, secure # None => SoundPayload(n, p, secure),
           Request(type, n, p, offer, secure)
    PROVE  IInv'
<1>1. UNCHANGED <<life, keys, enabled, dropped, toggles, expiries>> /\ sent' = sent + 1
  BY DEF Request
<1>2. SoundMessage(Message(type, sent, n, p, offer, secure))
  BY MessageSound DEF IInv
<1>3. ASSUME NEW a \in network' PROVE SoundMessage(a)'
  <2>1. SoundMessage(a)
    BY <1>2 DEF IInv, Request
  <2>. QED  BY <1>1, <2>1 DEF SoundMessage, SoundPayload, Made
<1>4. ASSUME NEW q \in Node PROVE SoundRow(q, keys[q])'
  BY <1>1 DEF IInv, SoundRow, Made
<1>5. ASSUME NEW d \in dropped' PROVE Stale(d)'
  BY <1>1, <1>5 DEF IInv, Request, Stale
<1>. QED  BY <1>1, <1>3, <1>4, <1>5 DEF IInv

\* All six ways to send a request keep it.
LEMMA SendKeeps ==
    ASSUME IInv, NEW n \in Node, NEW p \in Node, Send(n, p)
    PROVE  IInv'
<1> DEFINE offer == OfferIfUnknown(n, p)
           able  == SecuredIfAble(n, keys[n][p])
<1>1. SoundPayload(n, p, Prepared(n, keys[n][p]))
  BY PreparedSound DEF IInv
<1>2. /\ offer # None => Made(offer)
      /\ able # None => SoundPayload(n, p, able)
  BY <1>1, OwnMade DEF OfferIfUnknown, SecuredIfAble
<1>3. Made(Own(n)) /\ Own(n) # None /\ Owner(Own(n)) = n
  BY OwnMade
<1> HIDE DEF offer, able
<1>4. CASE Request("STORE", n, p, offer, able)
  BY <1>2, <1>4, RequestKeeps DEF Types
<1>5. CASE Request("FIND_VALUE", n, p, offer, able)
  BY <1>2, <1>5, RequestKeeps DEF Types
<1>6. CASE Request("STORE", n, p, None, Prepared(n, keys[n][p]))
  BY <1>1, <1>6, RequestKeeps DEF Types
<1>7. CASE Request("PING", n, p, Own(n), None)
  BY <1>3, <1>7, RequestKeeps DEF Types
<1>8. CASE Request("PING", n, p, None, None)
  BY <1>8, RequestKeeps DEF Types
<1>9. CASE Request("FIND_NODE", n, p, None, None)
  BY <1>9, RequestKeeps DEF Types
<1>10. CASE Request("KEY_DISCOVERY", n, p, Own(n), None)
  BY <1>3, <1>10, RequestKeeps DEF Types
<1>. QED
  BY <1>4, <1>5, <1>6, <1>7, <1>8, <1>9, <1>10
  DEF Send, SendStore, SecureStore, SendSingleFindValue, SecurePing, SendPlain,
      SendKeyDiscoveryRequest, offer, able

\* The echo of a payload: replaced by the responder's own as long as encryption is on.
LEMMA EchoSound ==
    ASSUME IInv, NEW m \in network
    PROVE  EchoOf(m, Heard(m)) # None => SoundPayload(m.to, m.from, EchoOf(m, Heard(m)))
<1>1. SoundMessage(m) /\ m.to \in Node /\ m.from \in Node
  BY DEF IInv, SoundMessage, Messages
<1>2. SoundRow(m.to, Heard(m))
  BY HeardSound
<1>3. CASE enabled[m.to] /\ Heard(m)[m.from] # None
  <2>1. EchoOf(m, Heard(m)) = Prepared(m.to, Heard(m)[m.from])
    BY <1>3 DEF EchoOf
  <2>. QED  BY <1>1, <1>2, <2>1, PreparedSound
<1>4. CASE ~ (enabled[m.to] /\ Heard(m)[m.from] # None)
  <2>1. EchoOf(m, Heard(m)) = m.secure
    BY <1>4 DEF EchoOf
  <2>2. SUFFICES ASSUME m.secure # None PROVE SoundPayload(m.to, m.from, m.secure)
    BY <2>1
  <2>3. SoundPayload(m.from, m.to, m.secure)
    BY <1>1, <2>2 DEF SoundMessage
  <2>4. Heard(m)[m.from] = m.secure.by /\ m.secure.by # None
    BY <1>1, <2>2, <2>3, NoneIsNoKey DEF Heard, SoundPayload, Made, IInv
  <2>5. toggles # 0
    BY <1>1, <1>4, <2>4 DEF IInv
  <2>. QED  BY <2>3, <2>5 DEF SoundPayload
<1>. QED  BY <1>3, <1>4

\* The answer that handleMessageResponse sends.
LEMMA AnswerSound ==
    ASSUME IInv, NEW m \in network, NEW known, SoundRow(m.to, known),
           NEW type \in Types \ {"KEY_DISCOVERY", "KEY_RESPONSE"},
           NEW offer, offer # None => Made(offer)
    PROVE  \A a \in AnswerTo(m, type, known, offer) : SoundMessage(a)
<1>1. m.to \in Node /\ m.from \in Node /\ m.id \in Nat
  BY DEF IInv, SoundMessage, Messages
<1> DEFINE able == SecuredIfAble(m.to, known[m.from])
<1>2. able # None => SoundPayload(m.to, m.from, able)
  BY <1>1, PreparedSound DEF SecuredIfAble
<1> HIDE DEF able
<1>3. SoundMessage(Message(type, m.id, m.to, m.from, offer, able))
  BY <1>1, <1>2, MessageSound
<1>. QED  BY <1>3 DEF AnswerTo, able

\* Every handler keeps the invariant, the drop of what cannot be read included.
LEMMA HandleKeeps ==
    ASSUME IInv, NEW m \in network, HandleMessage(m)
    PROVE  IInv'
<1>1. SoundMessage(m) /\ m.to \in Node /\ m.from \in Node /\ m.id \in Nat
  BY DEF IInv, SoundMessage, Messages
<1>2. m.offer # None => Made(m.offer)
  BY <1>1 DEF SoundMessage
<1>3. SoundRow(m.to, keys[m.to]) /\ SoundRow(m.to, Heard(m))
  BY <1>1, HeardSound DEF IInv
<1>4. SoundRow(m.to, Learned(keys[m.to], m.offer)) /\ SoundRow(m.to, Learned(Heard(m), m.offer))
  BY <1>1, <1>2, <1>3, LearnedSound
<1>5. Made(Own(m.to)) /\ Own(m.to) # None /\ Owner(Own(m.to)) = m.to
  BY <1>1, OwnMade
<1>6. CASE Drop(m)
  <2>1. UNCHANGED <<life, enabled, network, sent, toggles, expiries>>
    BY <1>6 DEF Drop
  <2>2. keys' \in [Node -> [Node -> Key \cup {None}]]
    BY <1>1, <1>3, <1>6 DEF IInv, Drop, SoundRow
  <2>3. ASSUME NEW n \in Node PROVE SoundRow(n, keys[n])'
    <3>1. SoundRow(n, keys'[n])
      BY <1>1, <1>3, <1>6 DEF IInv, Drop
    <3>. QED  BY <2>1, <3>1 DEF SoundRow, Made
  <2>4. ASSUME NEW a \in network' PROVE SoundMessage(a)'
    BY <2>1 DEF IInv, SoundMessage, SoundPayload, Made
  <2>5. Stale(m)
    <3>1. m.secure # None /\ m.secure.for \notin {None, Own(m.to)}
      BY <1>6 DEF Drop, Readable
    <3>2. Made(m.secure.for) /\ (toggles = 0 => Owner(m.secure.for) = m.to)
      BY <1>1, <3>1 DEF SoundMessage, SoundPayload
    <3>3. ASSUME toggles = 0 PROVE m.secure.for[2] < life[m.to]
      <4>1. /\ m.secure.for = <<m.to, m.secure.for[2]>>
            /\ m.secure.for[2] \in Nat
            /\ m.secure.for[2] <= life[m.to]
        BY <3>2, <3>3 DEF Made, Key, Owner
      <4>2. m.secure.for[2] # life[m.to]
        BY <3>1, <4>1 DEF Own
      <4>3. life[m.to] \in Nat
        BY <1>1 DEF IInv
      <4>4. ASSUME NEW i \in Nat, NEW j \in Nat, i <= j, i # j PROVE i < j
        BY <4>4
      <4>. QED  BY <4>1, <4>2, <4>3, <4>4
    <3>. QED  BY <3>2, <3>3 DEF Stale, Made
  <2>6. ASSUME NEW d \in dropped' PROVE Stale(d)'
    BY <1>6, <2>1, <2>5, <2>6 DEF IInv, Drop, Stale
  <2>. QED  BY <2>1, <2>2, <2>3, <2>4, <2>6 DEF IInv
<1>7. CASE HandleStore(m)
  <2> DEFINE echo == EchoOf(m, Heard(m))
  <2>1. echo # None => SoundPayload(m.to, m.from, echo)
    BY EchoSound
  <2> HIDE DEF echo
  <2>2. SoundMessage(Message("PONG", m.id, m.to, m.from, m.offer, echo))
    BY <1>1, <1>2, <2>1, MessageSound DEF Types
  <2>3. Handled(m, Heard(m), {Message("PONG", m.id, m.to, m.from, m.offer, echo)})
    BY <1>7 DEF HandleStore, echo
  <2>. QED  BY <1>3, <2>2, <2>3, HandledKeeps
<1>8. CASE HandlePing(m)
  <2> DEFINE known == Learned(keys[m.to], m.offer)
  <2>1. Handled(m, known, AnswerTo(m, "PONG", known, Own(m.to))) /\ SoundRow(m.to, known)
    BY <1>4, <1>8 DEF HandlePing
  <2> HIDE DEF known
  <2>2. \A a \in AnswerTo(m, "PONG", known, Own(m.to)) : SoundMessage(a)
    BY <1>5, <2>1, AnswerSound DEF Types
  <2>. QED  BY <2>1, <2>2, HandledKeeps
<1>9. CASE HandleFindValue(m)
  <2> DEFINE known == Learned(Heard(m), m.offer)
  <2>1. /\ Handled(m, known, AnswerTo(m, "FOUND_RESPONSE", known, Own(m.to)))
        /\ SoundRow(m.to, known)
    BY <1>4, <1>9 DEF HandleFindValue
  <2> HIDE DEF known
  <2>2. \A a \in AnswerTo(m, "FOUND_RESPONSE", known, Own(m.to)) : SoundMessage(a)
    BY <1>5, <2>1, AnswerSound DEF Types
  <2>. QED  BY <2>1, <2>2, HandledKeeps
<1>10. CASE HandleFindNode(m)
  <2>1. \A a \in AnswerTo(m, "REPLY", keys[m.to], None) : SoundMessage(a)
    BY <1>3, AnswerSound DEF Types
  <2>2. Handled(m, keys[m.to], AnswerTo(m, "REPLY", keys[m.to], None))
    BY <1>10 DEF HandleFindNode
  <2>. QED  BY <1>3, <2>1, <2>2, HandledKeeps
<1>11. CASE HandlePong(m)
  BY <1>4, <1>11, HandledKeeps DEF HandlePong
<1>12. CASE HandleReply(m)
  BY <1>3, <1>12, HandledKeeps DEF HandleReply
<1>13. CASE HandleFoundResponse(m)
  <2>1. \/ Handled(m, Learned(Heard(m), m.offer), {})
        \/ Handled(m, Heard(m), {})
    BY <1>13 DEF HandleFoundResponse
  <2>. QED  BY <1>3, <1>4, <2>1, HandledKeeps
<1>14. CASE HandleKeyDiscovery(m)
  <2> DEFINE row == [keys[m.to] EXCEPT ![m.from] = m.offer]
             answer == Message("KEY_RESPONSE", m.id, m.to, m.from, Own(m.to), None)
  <2>1. m.offer # None /\ Owner(m.offer) = m.from
    BY <1>1, <1>14 DEF HandleKeyDiscovery, SoundMessage
  <2>2. SoundRow(m.to, row)
    BY <1>1, <1>2, <1>3, <2>1 DEF SoundRow, Made
  <2>3. SoundMessage(answer)
    BY <1>1, <1>5, MessageSound DEF Types
  <2>4. Handled(m, row, {}) \/ Handled(m, row, {answer})
    BY <1>14 DEF HandleKeyDiscovery
  <2> HIDE DEF row, answer
  <2>. QED  BY <2>2, <2>3, <2>4, HandledKeeps
<1>. QED
  BY <1>6, <1>7, <1>8, <1>9, <1>10, <1>11, <1>12, <1>13, <1>14 DEF HandleMessage

\* So do switching, cleaning and restarts.
LEMMA OthersKeep ==
    ASSUME IInv, NEW n \in Node,
           SetEncryptionEnabled(n) \/ CleanupOldKeys(n) \/ Restart(n)
    PROVE  IInv'
<1>1. CASE SetEncryptionEnabled(n)
  <2>1. /\ UNCHANGED <<life, keys, network, dropped, sent, expiries>>
        /\ toggles' = toggles + 1 /\ enabled' \in [Node -> BOOLEAN]
    BY <1>1 DEF SetEncryptionEnabled, IInv
  <2>2. toggles' \in Nat /\ toggles' # 0
    BY <2>1 DEF IInv
  <2>3. ASSUME NEW p \in Node PROVE SoundRow(p, keys[p])'
    BY <2>1, <2>2 DEF IInv, SoundRow, Made
  <2>4. ASSUME NEW m \in network' PROVE SoundMessage(m)'
    BY <2>1, <2>2 DEF IInv, SoundMessage, SoundPayload, Made
  <2>5. ASSUME NEW d \in dropped' PROVE Stale(d)'
    BY <2>1, <2>2, <2>5 DEF IInv, Stale
  <2>. QED  BY <2>1, <2>2, <2>3, <2>4, <2>5 DEF IInv
<1>2. CASE CleanupOldKeys(n)
  <2>1. UNCHANGED <<life, enabled, network, dropped, sent, toggles>> /\ expiries' = expiries + 1
    BY <1>2 DEF CleanupOldKeys
  <2>2. PICK old \in SUBSET Node :
           keys' = [keys EXCEPT ![n] = [p \in Node |-> IF p \in old THEN None ELSE @[p]]]
    BY <1>2 DEF CleanupOldKeys
  <2>3. keys' \in [Node -> [Node -> Key \cup {None}]]
    BY <2>2 DEF IInv
  <2>4. ASSUME NEW q \in Node PROVE SoundRow(q, keys[q])'
    <3>1. \A p \in Node : keys'[q][p] \in {keys[q][p], None}
      BY <2>2 DEF IInv
    <3>. QED  BY <2>1, <2>3, <3>1 DEF IInv, SoundRow, Made
  <2>5. ASSUME NEW m \in network' PROVE SoundMessage(m)'
    BY <2>1 DEF IInv, SoundMessage, SoundPayload, Made
  <2>6. ASSUME NEW d \in dropped' PROVE Stale(d)'
    BY <2>1, <2>6 DEF IInv, Stale
  <2>. QED  BY <2>1, <2>3, <2>4, <2>5, <2>6 DEF IInv
<1>3. CASE Restart(n)
  <2>1. /\ UNCHANGED <<network, dropped, sent, toggles, expiries>>
        /\ enabled' = [enabled EXCEPT ![n] = TRUE]
        /\ keys' = [keys EXCEPT ![n] = [p \in Node |-> None]]
    BY <1>3 DEF Restart
  <2>2. life' \in [Node -> Nat] /\ \A p \in Node : life[p] <= life'[p]
    BY <1>3 DEF IInv, Restart
  <2>3. ASSUME NEW k, Made(k) PROVE Made(k)'
    <3>1. k \in Key /\ k[1] \in Node /\ k[2] \in Nat /\ k[2] <= life[k[1]]
      BY <2>3 DEF Made, Key
    <3>2. life[k[1]] \in Nat /\ life'[k[1]] \in Nat /\ life[k[1]] <= life'[k[1]]
      BY <2>2, <3>1 DEF IInv
    <3>3. ASSUME NEW i \in Nat, NEW j \in Nat, NEW l \in Nat, i <= j, j <= l PROVE i <= l
      BY <3>3
    <3>4. k[2] <= life'[k[1]]
      BY <3>1, <3>2, <3>3
    <3>. QED  BY <3>1, <3>4 DEF Made
  <2>4. ASSUME NEW q \in Node PROVE SoundRow(q, keys[q])'
    <3>1. CASE q = n
      BY <2>1, <3>1 DEF IInv, SoundRow
    <3>2. CASE q # n
      <4>1. SoundRow(q, keys[q]) /\ keys'[q] = keys[q]
        BY <2>1, <3>2 DEF IInv
      <4>. QED  BY <2>1, <2>3, <4>1 DEF SoundRow
    <3>. QED  BY <3>1, <3>2
  <2>5. ASSUME NEW m \in network' PROVE SoundMessage(m)'
    <3>1. SoundMessage(m)
      BY <2>1 DEF IInv
    <3>. QED  BY <2>1, <2>3, <3>1 DEF SoundMessage, SoundPayload
  <2>6. ASSUME NEW d \in dropped' PROVE Stale(d)'
    <3>1. Stale(d) /\ d \in network
      BY <2>1, <2>6 DEF IInv, Stale
    <3>2. SUFFICES ASSUME toggles = 0 PROVE d.secure.for[2] < life'[d.to]
      BY <2>1, <3>1 DEF Stale
    <3>3. d.to \in Node
      BY <3>1 DEF IInv, SoundMessage, Messages
    <3>4. d.secure.for[2] < life[d.to] /\ d.secure.for[2] \in Nat
      BY <3>1, <3>2 DEF Stale, Key
    <3>5. life[d.to] \in Nat /\ life'[d.to] \in Nat /\ life[d.to] <= life'[d.to]
      BY <2>2, <3>3 DEF IInv
    <3>6. ASSUME NEW i \in Nat, NEW j \in Nat, NEW l \in Nat, i < j, j <= l PROVE i < l
      BY <3>6
    <3>. QED  BY <3>4, <3>5, <3>6
  <2>. QED  BY <2>1, <2>2, <2>4, <2>5, <2>6 DEF IInv
<1>. QED  BY <1>1, <1>2, <1>3

\* No key is stored and nothing sent at first.
LEMMA InitSound == Init => IInv
  BY DEF Init, IInv, SoundRow

\* Every state of the exchange of keys satisfies the invariant.
THEOREM Soundness == Spec => []IInv
<1>1. IInv /\ [Next]_vars => IInv'
  <2>. SUFFICES ASSUME IInv, [Next]_vars PROVE IInv'
    OBVIOUS
  <2>1. CASE \E n, p \in Node : Send(n, p)
    BY <2>1, SendKeeps
  <2>2. CASE \E m \in network : HandleMessage(m)
    BY <2>2, HandleKeeps
  <2>3. CASE \E n \in Node : SetEncryptionEnabled(n) \/ CleanupOldKeys(n) \/ Restart(n)
    BY <2>3, OthersKeep
  <2>4. CASE UNCHANGED vars
    BY <2>4 DEF vars, IInv, SoundRow, SoundMessage, SoundPayload, Made, Stale
  <2>. QED  BY <2>1, <2>2, <2>3, <2>4 DEF Next
<1>. QED  BY InitSound, <1>1, PTL DEF Spec

\* Nobody takes a third node's key for another node's (storePublicKey and all its
\* callers), whatever is lost, late, repeated or switched off.
THEOREM OnlyTwoParties == Spec => []TwoPartyKeys
<1>1. IInv => TwoPartyKeys
  BY DEF IInv, SoundRow, TwoPartyKeys
<1>. QED  BY <1>1, Soundness, PTL

\* Until encryption is first switched, the key stored for a node is that node's.
THEOREM KeysAreTheirs == Spec => []KeysOfTheirNodeIfEnabled
<1>1. IInv => KeysOfTheirNodeIfEnabled
  BY DEF IInv, SoundRow, KeysOfTheirNodeIfEnabled, KeysOfTheirNode
<1>. QED  BY <1>1, Soundness, PTL

\* Until encryption is first switched, handleMessage drops a message only because its
\* receiver has restarted since it gave the key that the message is encrypted for.
THEOREM OnlyStaleIsDropped == Spec => []DropsAreStale
<1>1. IInv => DropsAreStale
  BY DEF IInv, Stale, DropsAreStale
<1>. QED  BY <1>1, Soundness, PTL

-----------------------------------------------------------------------------
(* The exchange of keys by a lookup *)

\* Messages with one number are a request and its answers, between the same two nodes.
Paired ==
    /\ \A m \in network : m.id < sent
    /\ \A m, x \in network : m.id = x.id => {m.from, m.to} = {x.from, x.to}

\* A lookup carries the key of the node that asks, as an offer or with its payload.
Asked ==
    \A m \in network : m.type = "FIND_VALUE" =>
       /\ toggles = 0 => m.offer # None \/ m.secure # None
       /\ m.offer # None => Owner(m.offer) = m.from

\* Its answer carries the key of the node that answers; it stores a key of the node
\* that asked, until it restarts.
Answered ==
    \A m \in network : m.type = "FOUND_RESPONSE" =>
       /\ m.offer # None /\ Owner(m.offer) = m.from
       /\ toggles = 0 /\ expiries = 0 /\ m.offer = Own(m.from) => keys[m.from][m.to] # None

EInv == IInv /\ Paired /\ Asked /\ Answered

\* Nothing that is not secured is a payload.
LEMMA NoneIsNoPayload == None \notin Payload
  BY KeyExchangeAssumption DEF Payload, Key

\* A message that comes with a payload teaches its sender's key, and none is forgotten.
LEMMA HeardKeeps ==
    ASSUME IInv, NEW m \in network
    PROVE  /\ \A p \in Node : keys[m.to][p] # None => Heard(m)[p] # None
           /\ m.secure # None => Heard(m)[m.from] # None
<1>1. /\ SoundMessage(m) /\ m.to \in Node /\ m.from \in Node
      /\ keys[m.to] \in [Node -> Key \cup {None}]
  BY DEF IInv, SoundMessage, Messages
<1>2. m.secure # None => m.secure.by # None
  BY <1>1, NoneIsNoKey DEF SoundMessage, SoundPayload, Made
<1>. QED  BY <1>1, <1>2 DEF Heard

\* Nor does storing an offer forget a key.
LEMMA LearnedKeeps ==
    ASSUME NEW row \in [Node -> Key \cup {None}], NEW offer, offer # None => Made(offer)
    PROVE  /\ \A p \in Node : row[p] # None => Learned(row, offer)[p] # None
           /\ offer # None => Learned(row, offer)[Owner(offer)] # None
<1>1. offer # None => Owner(offer) \in Node
  BY DEF Made, Key, Owner
<1>. QED  BY <1>1 DEF Learned

\* A step that only adds messages and keys keeps what is said of the messages there were.
LEMMA OldMessages ==
    ASSUME EInv, life' = life, UNCHANGED <<toggles, expiries>>,
           \A n, p \in Node : keys[n][p] # None => keys'[n][p] # None,
           NEW m \in network
    PROVE  /\ m.type = "FIND_VALUE" =>
                 /\ toggles' = 0 => m.offer # None \/ m.secure # None
                 /\ m.offer # None => Owner(m.offer) = m.from
           /\ m.type = "FOUND_RESPONSE" =>
                 /\ m.offer # None /\ Owner(m.offer) = m.from
                 /\ toggles' = 0 /\ expiries' = 0 /\ m.offer = Own(m.from)' =>
                       keys'[m.from][m.to] # None
<1>1. m.from \in Node /\ m.to \in Node
  BY DEF EInv, IInv, SoundMessage, Messages
<1>2. Own(m.from)' = Own(m.from)
  BY DEF Own
<1>. QED  BY <1>1, <1>2 DEF EInv, Asked, Answered

\* A handler that forgets no key, and answers a lookup only once it has a key of the
\* node that asks.
LEMMA HandledExchanges ==
    ASSUME EInv, IInv', NEW m \in network,
           NEW known, \A p \in Node : keys[m.to][p] # None => known[p] # None,
           NEW answers,
           \A a \in answers :
              /\ a.id = m.id /\ a.from = m.to /\ a.to = m.from /\ a.type # "FIND_VALUE"
              /\ a.type = "FOUND_RESPONSE" =>
                    a.offer = Own(m.to) /\ (toggles = 0 => known[m.from] # None),
           Handled(m, known, answers)
    PROVE  EInv'
<1>1. /\ UNCHANGED <<life, enabled, dropped, sent, toggles, expiries>>
      /\ keys' = [keys EXCEPT ![m.to] = known] /\ network' = network \cup answers
  BY DEF Handled
<1>2. /\ IInv /\ Paired /\ m.from \in Node /\ m.to \in Node
      /\ keys \in [Node -> [Node -> Key \cup {None}]]
  BY DEF EInv, IInv, SoundMessage, Messages
<1>3. keys'[m.to] = known /\ \A n \in Node : n # m.to => keys'[n] = keys[n]
  BY <1>1, <1>2
<1>4. \A n, p \in Node : keys[n][p] # None => keys'[n][p] # None
  BY <1>3
<1>5. \A a \in answers : a.id = m.id /\ {a.from, a.to} = {m.from, m.to}
  OBVIOUS
<1>6. \A x \in network' : \E y \in network : x.id = y.id /\ {x.from, x.to} = {y.from, y.to}
  BY <1>1, <1>5
<1>7. Paired'
  <2>1. ASSUME NEW x \in network' PROVE x.id < sent'
    BY <1>1, <1>2, <1>6 DEF Paired
  <2>2. ASSUME NEW x \in network', NEW z \in network', x.id = z.id
        PROVE  {x.from, x.to} = {z.from, z.to}
    <3>1. PICK y \in network : x.id = y.id /\ {x.from, x.to} = {y.from, y.to}
      BY <1>6
    <3>2. PICK w \in network : z.id = w.id /\ {z.from, z.to} = {w.from, w.to}
      BY <1>6
    <3>3. {y.from, y.to} = {w.from, w.to}
      BY <1>2, <2>2, <3>1, <3>2 DEF Paired
    <3>. QED  BY <3>1, <3>2, <3>3
  <2>. QED  BY <2>1, <2>2 DEF Paired
<1>8. Asked'
  BY <1>1, <1>4, OldMessages DEF Asked
<1>9. Answered'
  <2>. SUFFICES ASSUME NEW a \in network', a.type = "FOUND_RESPONSE"
                PROVE  /\ a.offer # None /\ Owner(a.offer) = a.from
                       /\ toggles' = 0 /\ expiries' = 0 /\ a.offer = Own(a.from)' =>
                             keys'[a.from][a.to] # None
    BY DEF Answered
  <2>1. CASE a \in network
    BY <1>1, <1>4, <2>1, OldMessages
  <2>2. CASE a \in answers
    <3>1. Own(m.to) # None /\ Owner(Own(m.to)) = m.to
      BY <1>2, OwnMade
    <3>. QED  BY <1>1, <1>3, <2>2, <3>1
  <2>. QED  BY <1>1, <2>1, <2>2
<1>. QED  BY <1>7, <1>8, <1>9 DEF EInv

\* A request, which has a number of its own.
LEMMA RequestExchanges ==
    ASSUME EInv, IInv', NEW n \in Node, NEW p \in Node,
           NEW type, type # "FOUND_RESPONSE", NEW offer, NEW secure,
           type = "FIND_VALUE" =>
              /\ toggles = 0 => offer # None \/ secure # None
              /\ offer # None => Owner(offer) = n,
           Request(type, n, p, offer, secure)
    PROVE  EInv'
<1> DEFINE a == Message(type, sent, n, p, offer, secure)
<1>1. /\ UNCHANGED <<life, keys, enabled, dropped, toggles, expiries>> /\ sent' = sent + 1
      /\ network' = network \cup {a}
  BY DEF Request
<1>2. /\ a.type = type /\ a.id = sent /\ a.from = n /\ a.to = p /\ a.offer = offer
      /\ a.secure = secure
  BY DEF Message
<1> HIDE DEF a
<1>3. /\ sent \in Nat /\ \A m \in network : m.id \in Nat
  BY DEF EInv, IInv, SoundMessage, Messages
<1>4. Paired'
  <2>1. \A m \in network : m.id < sent
    BY DEF EInv, Paired
  <2>2. \A m \in network : m.id # a.id
    BY <1>2, <1>3, <2>1
  <2>3. ASSUME NEW m \in network' PROVE m.id < sent'
    BY <1>1, <1>2, <1>3, <2>1
  <2>4. ASSUME NEW m \in network', NEW x \in network', m.id = x.id
        PROVE  {m.from, m.to} = {x.from, x.to}
    BY <1>1, <2>2, <2>4 DEF EInv, Paired
  <2>. QED  BY <2>3, <2>4 DEF Paired
<1>5. Asked'
  BY <1>1, <1>2, OldMessages DEF Asked
<1>6. Answered'
  BY <1>1, <1>2, OldMessages DEF Answered
<1>. QED  BY <1>4, <1>5, <1>6 DEF EInv

\* Every request keeps what is said of lookups and their answers.
LEMMA SendExchanges ==
    ASSUME EInv, NEW n \in Node, NEW p \in Node, Send(n, p)
    PROVE  EInv'
<1>1. IInv'
  BY SendKeeps DEF EInv
<1>2. CASE SendSingleFindValue(n, p)
  <2> DEFINE offer == OfferIfUnknown(n, p)
             able == SecuredIfAble(n, keys[n][p])
  <2>1. Request("FIND_VALUE", n, p, offer, able)
    BY <1>2 DEF SendSingleFindValue
  <2>2. offer # None => Owner(offer) = n
    BY OwnMade DEF EInv, OfferIfUnknown
  <2>3. toggles = 0 => offer # None \/ able # None
    <3>1. Own(n) # None
      BY OwnMade DEF EInv
    <3>2. SoundPayload(n, p, Prepared(n, keys[n][p]))
      BY PreparedSound DEF EInv, IInv
    <3>3. Prepared(n, keys[n][p]) # None
      BY <3>2, NoneIsNoPayload DEF SoundPayload
    <3>. QED  BY <3>1, <3>3 DEF EInv, IInv, OfferIfUnknown, SecuredIfAble
  <2> HIDE DEF offer, able
  <2>. QED  BY <1>1, <2>1, <2>2, <2>3, RequestExchanges
<1>3. CASE \/ SendStore(n, p)
           \/ SecureStore(n, p)
           \/ SecurePing(n, p)
           \/ SendPlain(n, p)
           \/ SendKeyDiscoveryRequest(n, p)
  <2>1. PICK type \in Types \ {"FIND_VALUE", "FOUND_RESPONSE"} :
           \E offer, secure : Request(type, n, p, offer, secure)
    BY <1>3 DEF SendStore, SecureStore, SecurePing, SendPlain, SendKeyDiscoveryRequest, Types
  <2>. QED  BY <1>1, <2>1, RequestExchanges
<1>. QED  BY <1>2, <1>3 DEF Send

\* So does every handler.
LEMMA HandleExchanges ==
    ASSUME EInv, NEW m \in network, HandleMessage(m)
    PROVE  EInv'
<1>1. IInv'
  BY HandleKeeps DEF EInv
<1>2. /\ IInv /\ SoundMessage(m) /\ m.from \in Node /\ m.to \in Node
      /\ keys \in [Node -> [Node -> Key \cup {None}]]
      /\ m.offer # None => Made(m.offer)
  BY DEF EInv, IInv, SoundMessage, Messages
<1> DEFINE Keeps(row) == \A p \in Node : keys[m.to][p] # None => row[p] # None
<1>3. /\ Keeps(keys[m.to]) /\ Keeps(Heard(m))
      /\ m.secure # None => Heard(m)[m.from] # None
      /\ Heard(m) \in [Node -> Key \cup {None}] /\ keys[m.to] \in [Node -> Key \cup {None}]
  BY <1>2, HeardKeeps, HeardSound DEF SoundRow
<1>4. /\ Keeps(Learned(keys[m.to], m.offer)) /\ Keeps(Learned(Heard(m), m.offer))
      /\ m.offer # None => Learned(Heard(m), m.offer)[Owner(m.offer)] # None
      /\ \A p \in Node : Heard(m)[p] # None => Learned(Heard(m), m.offer)[p] # None
  <2>1. /\ \A p \in Node : keys[m.to][p] # None => Learned(keys[m.to], m.offer)[p] # None
        /\ \A p \in Node : Heard(m)[p] # None => Learned(Heard(m), m.offer)[p] # None
        /\ m.offer # None => Learned(Heard(m), m.offer)[Owner(m.offer)] # None
    BY <1>2, <1>3, LearnedKeeps
  <2>. QED  BY <1>3, <2>1
<1>5. \A type, known, offer : \A a \in AnswerTo(m, type, known, offer) :
         /\ a.type = type /\ a.id = m.id /\ a.from = m.to /\ a.to = m.from
         /\ a.offer = offer
  BY DEF AnswerTo, Message
<1>6. CASE Drop(m)
  <2>1. /\ UNCHANGED <<life, network, sent, toggles, expiries>>
        /\ keys' = [keys EXCEPT ![m.to] = Heard(m)]
    BY <1>6 DEF Drop
  <2>2. \A n, p \in Node : keys[n][p] # None => keys'[n][p] # None
    BY <1>2, <1>3, <2>1
  <2>3. Paired'
    BY <2>1 DEF EInv, Paired
  <2>4. Asked' /\ Answered'
    BY <2>1, <2>2, OldMessages DEF Asked, Answered
  <2>. QED  BY <1>1, <2>3, <2>4 DEF EInv
<1>7. CASE HandleStore(m)
  <2> DEFINE a == Message("PONG", m.id, m.to, m.from, m.offer, EchoOf(m, Heard(m)))
  <2>1. Handled(m, Heard(m), {a})
    BY <1>7 DEF HandleStore
  <2>2. a.type = "PONG" /\ a.id = m.id /\ a.from = m.to /\ a.to = m.from
    BY DEF Message
  <2> HIDE DEF a
  <2>. QED  BY <1>1, <1>3, <2>1, <2>2, HandledExchanges
<1>8. CASE HandlePing(m)
  <2> DEFINE known == Learned(keys[m.to], m.offer)
             answers == AnswerTo(m, "PONG", known, Own(m.to))
  <2>1. Handled(m, known, answers)
    BY <1>8 DEF HandlePing
  <2>2. Keeps(known) /\ \A a \in answers : /\ a.id = m.id /\ a.from = m.to /\ a.to = m.from
                                           /\ a.type = "PONG"
    BY <1>4, <1>5
  <2> HIDE DEF known, answers
  <2>. QED  BY <1>1, <2>1, <2>2, HandledExchanges
<1>9. CASE HandleFindValue(m)
  <2> DEFINE known == Learned(Heard(m), m.offer)
             answers == AnswerTo(m, "FOUND_RESPONSE", known, Own(m.to))
  <2>1. m.type = "FIND_VALUE" /\ Handled(m, known, answers)
    BY <1>9 DEF HandleFindValue
  <2>2. Keeps(known) /\ \A a \in answers : /\ a.id = m.id /\ a.from = m.to /\ a.to = m.from
                                           /\ a.type = "FOUND_RESPONSE" /\ a.offer = Own(m.to)
    BY <1>4, <1>5
  <2>3. /\ toggles = 0 => m.offer # None \/ m.secure # None
        /\ m.offer # None => Owner(m.offer) = m.from
    BY <2>1 DEF EInv, Asked
  <2>4. toggles = 0 => known[m.from] # None
    <3>1. CASE m.offer # None
      BY <1>4, <2>3, <3>1
    <3>2. CASE m.secure # None
      BY <1>2, <1>3, <1>4, <3>2
    <3>. QED  BY <2>3, <3>1, <3>2
  <2> HIDE DEF known, answers
  <2>. QED  BY <1>1, <2>1, <2>2, <2>4, HandledExchanges
<1>10. CASE HandleFindNode(m)
  <2> DEFINE answers == AnswerTo(m, "REPLY", keys[m.to], None)
  <2>1. Handled(m, keys[m.to], answers)
    BY <1>10 DEF HandleFindNode
  <2>2. \A a \in answers : /\ a.id = m.id /\ a.from = m.to /\ a.to = m.from
                           /\ a.type = "REPLY"
    BY <1>5
  <2> HIDE DEF answers
  <2>. QED  BY <1>1, <1>3, <2>1, <2>2, HandledExchanges
<1>11. CASE HandlePong(m) \/ HandleReply(m) \/ HandleFoundResponse(m)
  <2>1. Handled(m, Learned(Heard(m), m.offer), {}) \/ Handled(m, Heard(m), {})
    BY <1>11 DEF HandlePong, HandleReply, HandleFoundResponse
  <2>. QED  BY <1>1, <1>3, <1>4, <2>1, HandledExchanges
<1>12. CASE HandleKeyDiscovery(m)
  <2> DEFINE row == [keys[m.to] EXCEPT ![m.from] = m.offer]
             a == Message("KEY_RESPONSE", m.id, m.to, m.from, Own(m.to), None)
  <2>1. Handled(m, row, {}) \/ Handled(m, row, {a})
    BY <1>12 DEF HandleKeyDiscovery
  <2>2. m.offer # None
    BY <1>2, <1>12 DEF HandleKeyDiscovery, SoundMessage
  <2>3. Keeps(row)
    BY <1>2, <1>3, <2>2
  <2>4. a.type = "KEY_RESPONSE" /\ a.id = m.id /\ a.from = m.to /\ a.to = m.from
    BY DEF Message
  <2> HIDE DEF row, a
  <2>. QED  BY <1>1, <2>1, <2>3, <2>4, HandledExchanges
<1>. QED
  BY <1>6, <1>7, <1>8, <1>9, <1>10, <1>11, <1>12 DEF HandleMessage

\* A restart, switching or cleaning only takes a key that the answer no longer speaks of.
LEMMA OthersExchange ==
    ASSUME EInv, NEW n \in Node,
           SetEncryptionEnabled(n) \/ CleanupOldKeys(n) \/ Restart(n)
    PROVE  EInv'
<1>1. IInv' /\ IInv /\ toggles \in Nat /\ expiries \in Nat
  BY OthersKeep DEF EInv, IInv
<1>2. UNCHANGED <<network, sent>>
  BY DEF SetEncryptionEnabled, CleanupOldKeys, Restart
<1>3. Paired'
  BY <1>2 DEF EInv, Paired
<1>4. toggles' = 0 => toggles = 0
  BY <1>1 DEF SetEncryptionEnabled, CleanupOldKeys, Restart
<1>5. Asked'
  BY <1>2, <1>4 DEF EInv, Asked
<1>6. ASSUME NEW m \in network, m.type = "FOUND_RESPONSE"
      PROVE  /\ m.offer # None /\ Owner(m.offer) = m.from
             /\ toggles' = 0 /\ expiries' = 0 /\ m.offer = Own(m.from)' =>
                   keys'[m.from][m.to] # None
  <2>1. /\ m.offer # None /\ Owner(m.offer) = m.from
        /\ toggles = 0 /\ expiries = 0 /\ m.offer = Own(m.from) => keys[m.from][m.to] # None
    BY <1>6 DEF EInv, Answered
  <2>2. SUFFICES ASSUME toggles' = 0, expiries' = 0, m.offer = Own(m.from)'
                 PROVE  keys'[m.from][m.to] # None
    BY <2>1
  <2>3. m.from \in Node /\ m.to \in Node /\ Made(m.offer)
    BY <2>1, <1>1 DEF IInv, SoundMessage, Messages
  <2>4. CASE SetEncryptionEnabled(n)
    BY <1>1, <2>2, <2>4 DEF SetEncryptionEnabled
  <2>5. CASE CleanupOldKeys(n)
    BY <1>1, <2>2, <2>5 DEF CleanupOldKeys
  <2>6. CASE Restart(n)
    <3>1. /\ life' = [life EXCEPT ![n] = @ + 1] /\ UNCHANGED <<toggles, expiries>>
          /\ keys' = [keys EXCEPT ![n] = [p \in Node |-> None]]
          /\ life \in [Node -> Nat]
      BY <1>1, <2>6 DEF Restart, IInv
    <3>2. CASE m.from = n
      <4>1. m.offer = <<n, life[n] + 1>>
        BY <2>2, <3>1, <3>2 DEF Own
      <4>2. life[n] + 1 <= life[n]
        BY <2>3, <4>1 DEF Made
      <4>3. life[n] \in Nat
        BY <3>1
      <4>. QED  BY <4>2, <4>3
    <3>3. CASE m.from # n
      <4>1. m.offer = Own(m.from) /\ keys'[m.from] = keys[m.from]
        BY <1>1, <2>2, <2>3, <3>1, <3>3 DEF Own, IInv
      <4>. QED  BY <2>1, <2>2, <3>1, <4>1
    <3>. QED  BY <3>2, <3>3
  <2>. QED  BY <2>4, <2>5, <2>6
<1>7. Answered'
  BY <1>2, <1>6 DEF Answered
<1>. QED  BY <1>1, <1>3, <1>5, <1>7 DEF EInv

\* So does every step.
LEMMA NextExchanges == EInv /\ [Next]_vars => EInv'
<1>. SUFFICES ASSUME EInv, [Next]_vars PROVE EInv'
  OBVIOUS
<1>1. CASE \E n, p \in Node : Send(n, p)
  BY <1>1, SendExchanges
<1>2. CASE \E m \in network : HandleMessage(m)
  BY <1>2, HandleExchanges
<1>3. CASE \E n \in Node : SetEncryptionEnabled(n) \/ CleanupOldKeys(n) \/ Restart(n)
  BY <1>3, OthersExchange
<1>4. CASE UNCHANGED vars
  BY <1>4 DEF vars, EInv, IInv, SoundRow, SoundMessage, SoundPayload, Made, Stale, Own,
              Paired, Asked, Answered
<1>. QED  BY <1>1, <1>2, <1>3, <1>4 DEF Next

\* And there are no lookups at first.
LEMMA InitExchanges == Init => EInv
  BY InitSound DEF Init, EInv, Paired, Asked, Answered

\* Only a restart and the handler of an answer take a listener away.
LEMMA TakenAnswers ==
    ASSUME EInv, Next, NEW l \in listening \ listening', life' = life
    PROVE  \E x \in network : HandleFoundResponse(x) /\ l = <<x.to, x.id>>
<1>1. ASSUME NEW n \in Node, NEW p \in Node, Send(n, p) PROVE FALSE
  <2>1. listening \subseteq listening'
    BY <1>1 DEF Send, SendStore, SecureStore, SendSingleFindValue, SecurePing, SendPlain,
                SendKeyDiscoveryRequest
  <2>. QED  BY <2>1
<1>2. ASSUME NEW x \in network, HandleMessage(x)
      PROVE  HandleFoundResponse(x) /\ l = <<x.to, x.id>>
  <2>1. HandleFoundResponse(x) \/ listening' = listening
    BY <1>2 DEF HandleMessage, Drop, HandleStore, HandlePing, HandleFindValue, HandleFindNode,
                HandlePong, HandleReply, HandleKeyDiscovery
  <2>2. HandleFoundResponse(x) => listening' = listening \ {<<x.to, x.id>>}
    BY DEF HandleFoundResponse
  <2>. QED  BY <2>1, <2>2
<1>3. ASSUME NEW n \in Node, SetEncryptionEnabled(n) \/ CleanupOldKeys(n) \/ Restart(n)
      PROVE  FALSE
  <2>1. CASE SetEncryptionEnabled(n) \/ CleanupOldKeys(n)
    BY <2>1 DEF SetEncryptionEnabled, CleanupOldKeys
  <2>2. CASE Restart(n)
    <3>1. life'[n] = life[n] + 1 /\ life[n] \in Nat
      BY <2>2 DEF Restart, EInv, IInv
    <3>. QED  BY <3>1
  <2>. QED  BY <1>3, <2>1, <2>2
<1>. QED  BY <1>1, <1>2, <1>3 DEF Next

\* Taking the answer to a lookup completes the exchange of keys between the two nodes,
\* whoever made the first offer and however late the answer is, unless the responder
\* has restarted since, a key has expired or encryption was switched.
THEOREM LookupsExchange == Spec => FindValueExchanges
<1>1. EInv /\ [Next]_vars =>
        [ \A m \in network :
          /\ m.type = "FOUND_RESPONSE"
          /\ <<m.to, m.id>> \in listening \ listening'
          /\ life' = life
          /\ m.offer = Own(m.from)
          /\ toggles = 0 /\ expiries = 0
          => keys'[m.to][m.from] # None /\ keys'[m.from][m.to] # None ]_vars
  <2>. SUFFICES ASSUME EInv, Next, NEW m \in network,
                       m.type = "FOUND_RESPONSE",
                       <<m.to, m.id>> \in listening \ listening',
                       life' = life,
                       m.offer = Own(m.from),
                       toggles = 0, expiries = 0
                PROVE  keys'[m.to][m.from] # None /\ keys'[m.from][m.to] # None
    OBVIOUS
  <2>1. PICK x \in network : HandleFoundResponse(x) /\ <<m.to, m.id>> = <<x.to, x.id>>
    BY TakenAnswers
  <2>2. m.to = x.to /\ m.id = x.id
    BY <2>1
  <2>3. m.from = x.from
    <3>1. {m.from, m.to} = {x.from, x.to}
      BY <2>2 DEF EInv, Paired
    <3>. QED  BY <2>2, <3>1
  <2>4. /\ x.type = "FOUND_RESPONSE" /\ Handled(x, Learned(Heard(x), x.offer), {})
        /\ x.offer # None /\ Owner(x.offer) = x.from
    <3>1. x.type = "FOUND_RESPONSE" /\ <<x.to, x.id>> \in listening
      BY <2>1 DEF HandleFoundResponse
    <3>2. Handled(x, Learned(Heard(x), x.offer), {})
      BY <2>1, <3>1 DEF HandleFoundResponse
    <3>. QED  BY <3>1, <3>2 DEF EInv, Answered
  <2>5. /\ keys' = [keys EXCEPT ![x.to] = Learned(Heard(x), x.offer)]
        /\ UNCHANGED <<life, toggles, expiries>> /\ network' = network
    BY <2>4 DEF Handled
  <2>6. /\ IInv /\ x.to \in Node /\ x.from \in Node /\ Made(x.offer)
        /\ keys \in [Node -> [Node -> Key \cup {None}]]
    BY <2>4 DEF EInv, IInv, SoundMessage, Messages
  <2>7. keys'[x.to][x.from] # None
    <3>1. Heard(x) \in [Node -> Key \cup {None}]
      BY <2>6, HeardSound DEF SoundRow
    <3>2. Learned(Heard(x), x.offer)[x.from] # None
      BY <2>4, <2>6, <3>1, LearnedKeeps
    <3>. QED  BY <2>5, <2>6, <3>2
  <2>8. keys'[m.from][m.to] # None
    <3>1. EInv'
      BY NextExchanges
    <3>2. Own(m.from)' = Own(m.from)
      BY <2>5 DEF Own
    <3>. QED  BY <2>5, <3>1, <3>2 DEF EInv, Answered
  <2>. QED  BY <2>2, <2>3, <2>7, <2>8
<1>. QED  BY InitExchanges, NextExchanges, <1>1, PTL DEF Spec, FindValueExchanges
=============================================================================
