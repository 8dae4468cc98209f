------------------------- MODULE KeyDirectoryProofs -------------------------
(***************************************************************************)
(* Nothing is learned from the key directory, for any nodes, any hash that *)
(* has no fixed point and any chains: a record that has a key is stored    *)
(* under StoredAt of its node, where nobody reads for that node.           *)
(*                                                                         *)
(* What the pings of a bootstrap leave is proved from a second invariant,  *)
(* about answers that are awaited: who sent one still has the key that     *)
(* came with the ping.                                                     *)
(***************************************************************************)
EXTENDS KeyDirectory, SequenceTheorems, TLAPS

Left == Seq(Node) \ {<<>>}

Boots ==
    {Idle} \cup [step : {"ping"}, left : Left, id : Nat]
           \cup [step : {"look up", "request"}, left : Left]

\* A record is the key of its node, at its place, or a gateway's.
SoundRecord(r) ==
    \/ r.publicKey \in Key /\ r.at = StoredAt[r.node]
    \/ \E p \in Node : \E k \in GatewayAt[p] : r = GatewayRecord(p, k)

\* Nothing is ever learned from the directory: what findKeyInDHT takes is a record of
\* the right node but not its key, because the key that is read is the key of no
\* directory record of that node.  It is the gateway record of a node whose chain
\* shares the key that is read, and it replaces a key that was known by no key at all.
DirectoryGivesNoKeys ==
    \A n, p \in Node :
        /\ \A d \in discovered[n] : d[2] = Undefined
        /\ keys[n][p] = Undefined => \E r \in records : r = GatewayRecord(p, ReadAt[p])

IInv ==
    /\ life \in [Node -> Nat]
    /\ keys \in [Node -> [Node -> Key \cup {None, Undefined}]]
    /\ discovered \in [Node -> SUBSET (Node \X (Key \cup {Undefined}))]
    /\ boot \in [Node -> Boots]
    /\ sent \in Nat
    /\ \A m \in network : {m.from, m.to} \subseteq Node /\ m.key \in Key
    /\ \A r \in records : SoundRecord(r)
    /\ DirectoryGivesNoKeys

-----------------------------------------------------------------------------

\* Neither a record's missing key nor no key at all is a key.
LEMMA NoKeys == Undefined \notin Key /\ None \notin Key /\ None # Undefined
  BY KeyDirectoryAssumption DEF Key

\* A node's own key is one.
LEMMA OwnIsKey == ASSUME IInv, NEW n \in Node PROVE Own(n) \in Key
  BY DEF IInv, Own, Key

\* What a lookup takes is the gateway record of the node that it is for.
LEMMA VerifiedIsGateway ==
    ASSUME IInv, NEW p \in Node, NEW r \in Verified(p)
    PROVE  r \in records /\ r = GatewayRecord(p, ReadAt[p]) /\ r.publicKey = Undefined
<1>1. r \in records /\ r.at = ReadAt[p] /\ r.node = p
  BY DEF Verified
<1>2. SoundRecord(r)
  BY <1>1 DEF IInv
<1>3. r.at # StoredAt[r.node]
  BY <1>1, KeyDirectoryAssumption
<1>4. PICK q \in Node : \E k \in GatewayAt[q] : r = GatewayRecord(q, k)
  BY <1>2, <1>3 DEF SoundRecord
<1>. QED  BY <1>1, <1>4 DEF GatewayRecord

\* Storing a key, of whatever node, disturbs nothing.
LEMMA StoredKeeps ==
    ASSUME IInv, NEW n \in Node, NEW p \in Node, NEW k \in Key,
           Stored(n, p, k), UNCHANGED <<discovered, records>>
    PROVE  /\ keys' \in [Node -> [Node -> Key \cup {None, Undefined}]]
           /\ DirectoryGivesNoKeys'
<1>1. keys' = [keys EXCEPT ![n] = [keys[n] EXCEPT ![p] = k]]
  BY DEF Stored
<1>2. keys' \in [Node -> [Node -> Key \cup {None, Undefined}]]
  BY <1>1 DEF IInv
<1>3. \A a, b \in Node : keys'[a][b] = Undefined => keys[a][b] = Undefined
  BY <1>1, NoKeys DEF IInv
<1>. QED  BY <1>2, <1>3 DEF IInv, DirectoryGivesNoKeys

\* A node that is not idle has nodes left to ping or to look up.
LEMMA LeftIsLeft ==
    ASSUME IInv, NEW n \in Node, boot[n].step # "idle"
    PROVE  boot[n].left \in Left
<1>1. boot[n] \in Boots
  BY DEF IInv
<1>2. CASE boot[n] = Idle
  BY <1>2 DEF Idle
<1>3. CASE boot[n] \in [step : {"ping"}, left : Left, id : Nat]
  BY <1>3
<1>4. CASE boot[n] \in [step : {"look up", "request"}, left : Left]
  BY <1>4
<1>. QED  BY <1>1, <1>2, <1>3, <1>4 DEF Boots

\* The nodes that a bootstrap has left to look up, after the next one.
LEMMA LeftTail ==
    ASSUME NEW left \in Left
    PROVE  /\ Len(left) \in Nat
           /\ Head(left) \in Node
           /\ Tail(left) # <<>> => Tail(left) \in Left
           /\ Len(left) > 1 => Tail(left) \in Left
<1>1. left \in Seq(Node) /\ left # <<>>
  BY DEF Left
<1>2. Head(left) \in Node /\ Tail(left) \in Seq(Node) /\ Len(Tail(left)) = Len(left) - 1
      /\ Len(left) \in Nat
  BY <1>1, HeadTailProperties, LenProperties
<1>3. Len(left) > 1 => Tail(left) # <<>>
  BY <1>2, EmptySeq
<1>. QED  BY <1>2, <1>3 DEF Left

\* A ping is of a node that is left to ping.
LEMMA PingKeeps ==
    ASSUME IInv, NEW n \in Node, NEW left \in Left, Ping(n, left)
    PROVE  /\ boot' \in [Node -> Boots]
           /\ sent' \in Nat
           /\ \A m \in network' : {m.from, m.to} \subseteq Node /\ m.key \in Key
<1>1. Head(left) \in Node
  BY LeftTail
<1>2. [step |-> "ping", left |-> left, id |-> sent] \in Boots
  BY DEF Boots, IInv
<1>3. /\ boot' = [boot EXCEPT ![n] = [step |-> "ping", left |-> left, id |-> sent]]
      /\ network' = network \cup {Message("PING", n, Head(left), sent)}
      /\ sent' = sent + 1
  BY DEF Ping
<1>4. boot' \in [Node -> Boots]
  BY <1>2, <1>3 DEF IInv
<1>5. Message("PING", n, Head(left), sent).from \in Node
      /\ Message("PING", n, Head(left), sent).to \in Node
      /\ Message("PING", n, Head(left), sent).key \in Key
  BY <1>1, OwnIsKey DEF Message
<1>6. sent' \in Nat
  BY <1>3 DEF IInv
<1>. QED  BY <1>3, <1>4, <1>5, <1>6 DEF IInv

\* Where a node waits for the answer to a ping, the ping can settle.
LEMMA PingSettledKeeps ==
    ASSUME IInv, NEW n \in Node, boot[n].step = "ping", PingSettled(n)
    PROVE  /\ boot' \in [Node -> Boots]
           /\ sent' \in Nat
           /\ \A m \in network' : {m.from, m.to} \subseteq Node /\ m.key \in Key
<1>1. boot[n].left \in Left
  BY LeftIsLeft
<1>2. CASE Tail(boot[n].left) # <<>>
  <2>1. Ping(n, Tail(boot[n].left))
    BY <1>2 DEF PingSettled
  <2>2. Tail(boot[n].left) \in Left
    BY <1>1, <1>2, LeftTail
  <2>. QED  BY <2>1, <2>2, PingKeeps
<1>3. CASE Tail(boot[n].left) = <<>>
  <2>1. boot' = [boot EXCEPT ![n] = [step |-> "look up", left |-> Listed[n]]]
        /\ sent' = sent + Len(Given[n]) /\ UNCHANGED network
    BY <1>3 DEF PingSettled
  <2>2. Given[n] \in Left /\ Listed[n] \in Left
    BY KeyDirectoryAssumption DEF Left
  <2>3. Len(Given[n]) \in Nat
    BY <2>2, LeftTail
  <2>4. [step |-> "look up", left |-> Listed[n]] \in Boots
    BY <2>2 DEF Boots
  <2>5. boot' \in [Node -> Boots]
    BY <2>1, <2>4 DEF IInv
  <2>6. sent' \in Nat
    <3>1. sent \in Nat /\ sent' = sent + Len(Given[n])
      BY <2>1 DEF IInv
    <3>. QED  BY <2>3, <3>1
  <2>. QED  BY <2>1, <2>5, <2>6 DEF IInv
<1>. QED  BY <1>2, <1>3

\* A bootstrap that goes on to its next peer is still one.
LEMMA NextPeerKeeps ==
    ASSUME IInv, NEW n \in Node, boot[n].step \in {"look up", "request"}, NextPeer(n)
    PROVE  boot' \in [Node -> Boots]
<1> DEFINE b == IF Len(boot[n].left) > 1
                THEN [step |-> "look up", left |-> Tail(boot[n].left)] ELSE Idle
<1>1. boot[n].left \in Left
  BY LeftIsLeft
<1>2. Len(boot[n].left) > 1 => Tail(boot[n].left) \in Left
  BY <1>1, LeftTail
<1>3. b \in Boots
  BY <1>2 DEF Boots
<1>4. boot' = [boot EXCEPT ![n] = b]
  BY DEF NextPeer
<1>. QED  BY <1>3, <1>4 DEF IInv

-----------------------------------------------------------------------------

\* The directory is empty at first.
LEMMA InitIInv == Init => IInv
<1> SUFFICES ASSUME Init PROVE IInv
  OBVIOUS
<1>1. \A n \in Node : Own(n) \in Key
  BY DEF Init, Own, Key
<1>2. \A r \in records : SoundRecord(r)
  BY <1>1 DEF Init, SoundRecord, KeyRecord
<1>. QED  BY <1>2, NoKeys DEF Init, IInv, DirectoryGivesNoKeys, Boots

\* Every step keeps the invariant of the directory.
LEMMA NextIInv == IInv /\ [Next]_vars => IInv'
<1> SUFFICES ASSUME IInv, [Next]_vars PROVE IInv'
  OBVIOUS
<1>1. ASSUME NEW n \in Node, StoreOwnKeyInDHT(n) PROVE IInv'
  <2>1. SoundRecord(KeyRecord(n))
    BY OwnIsKey DEF SoundRecord, KeyRecord
  <2>2. SoundRecord(KeyRecord(n))'
    BY <2>1, <1>1 DEF StoreOwnKeyInDHT, SoundRecord, KeyRecord, Own, GatewayRecord
  <2>3. \A r \in records' : SoundRecord(r)
    BY <2>1, <1>1 DEF StoreOwnKeyInDHT, IInv
  <2>. QED  BY <2>3, <1>1 DEF StoreOwnKeyInDHT, IInv, DirectoryGivesNoKeys, SoundRecord, GatewayRecord
<1>2. ASSUME NEW n \in Node, RegisterAsGateway(n) PROVE IInv'
  <2>1. \A r \in records' : SoundRecord(r)
    BY <1>2 DEF RegisterAsGateway, IInv, SoundRecord
  <2>. QED  BY <2>1, <1>2 DEF RegisterAsGateway, IInv, DirectoryGivesNoKeys, SoundRecord, GatewayRecord
<1>3. ASSUME NEW n \in Node, Bootstrap(n) PROVE IInv'
  <2>1. Given[n] \in Left
    BY KeyDirectoryAssumption DEF Left
  <2>2. Ping(n, Given[n]) /\ UNCHANGED <<life, keys, discovered, requests, records, met>>
    BY <1>3 DEF Bootstrap
  <2>. QED  BY <2>1, <2>2, PingKeeps DEF IInv, DirectoryGivesNoKeys, SoundRecord
<1>4. ASSUME NEW n \in Node, PingTimeout(n) PROVE IInv'
  <2>. QED  BY <1>4, PingSettledKeeps DEF PingTimeout, IInv, DirectoryGivesNoKeys, SoundRecord
<1>5. ASSUME NEW n \in Node, FindKeyInDHT(n) PROVE IInv'
  <2>1. boot[n].step = "look up" /\ NextPeer(n)
        /\ UNCHANGED <<life, requests, records, network, calls, sent, met>>
    BY <1>5 DEF FindKeyInDHT
  <2> DEFINE p == Head(boot[n].left)
  <2>2. p \in Node
    BY <2>1, LeftIsLeft, LeftTail
  <2>3. PICK r \in Verified(p) :
          /\ keys' = [keys EXCEPT ![n][r.node] = r.publicKey]
          /\ discovered' = [discovered EXCEPT ![n] =
                {d \in @ : d[1] # r.node} \cup {<<r.node, r.publicKey>>}]
    BY <1>5 DEF FindKeyInDHT
  <2> HIDE DEF p
  <2>4. r \in records /\ r = GatewayRecord(p, ReadAt[p]) /\ r.publicKey = Undefined /\ r.node = p
    BY <2>2, VerifiedIsGateway DEF GatewayRecord
  <2>5. keys' = [keys EXCEPT ![n] = [keys[n] EXCEPT ![p] = Undefined]]
    BY <2>3, <2>4
  <2>6. keys' \in [Node -> [Node -> Key \cup {None, Undefined}]]
    BY <2>2, <2>5 DEF IInv
  <2>7. discovered' \in [Node -> SUBSET (Node \X (Key \cup {Undefined}))]
    BY <2>2, <2>3, <2>4 DEF IInv
  <2>8. ASSUME NEW a \in Node, NEW d \in discovered'[a] PROVE d[2] = Undefined
    BY <2>3, <2>4, <2>8 DEF IInv, DirectoryGivesNoKeys
  <2>9. ASSUME NEW a \in Node, NEW q \in Node, keys'[a][q] = Undefined
        PROVE  \E s \in records : s = GatewayRecord(q, ReadAt[q])
    BY <2>2, <2>4, <2>5, <2>9 DEF IInv, DirectoryGivesNoKeys
  <2>10. DirectoryGivesNoKeys'
    BY <2>1, <2>8, <2>9 DEF DirectoryGivesNoKeys, GatewayRecord
  <2>11. boot' \in [Node -> Boots]
    BY <2>1, NextPeerKeeps
  <2>. QED  BY <2>1, <2>6, <2>7, <2>10, <2>11 DEF IInv, SoundRecord
<1>6. ASSUME NEW n \in Node, SendKeyDiscoveryRequest(n) PROVE IInv'
  <2>1. boot[n].left \in Left
    BY <1>6, LeftIsLeft DEF SendKeyDiscoveryRequest
  <2>2. [step |-> "request", left |-> boot[n].left] \in Boots
    BY <2>1 DEF Boots
  <2>3. Head(boot[n].left) \in Node
    BY <2>1, LeftTail
  <2>4. /\ boot' = [boot EXCEPT ![n] = [step |-> "request", left |-> boot[n].left]]
        /\ network' = network \cup {Message("KEY_DISCOVERY", n, Head(boot[n].left), None)}
        /\ UNCHANGED <<life, keys, discovered, requests, records, calls, sent, met>>
    BY <1>6 DEF SendKeyDiscoveryRequest
  <2>5. boot' \in [Node -> Boots]
    BY <2>2, <2>4 DEF IInv
  <2>6. \A m \in network' : {m.from, m.to} \subseteq Node /\ m.key \in Key
    BY <2>3, <2>4, OwnIsKey DEF IInv, Message
  <2>. QED  BY <2>4, <2>5, <2>6 DEF IInv, DirectoryGivesNoKeys, SoundRecord
<1>7. ASSUME NEW n \in Node, KeyDiscoveryTimeout(n) PROVE IInv'
  BY <1>7, NextPeerKeeps DEF KeyDiscoveryTimeout, IInv, DirectoryGivesNoKeys, SoundRecord
<1>8. ASSUME NEW n \in Node, DiscoverKeys(n) PROVE IInv'
  <2>1. Len(Listed[n]) \in Nat
    BY KeyDirectoryAssumption
  <2>. QED  BY <2>1, <1>8 DEF DiscoverKeys, IInv, DirectoryGivesNoKeys, SoundRecord
<1>9. ASSUME NEW n \in Node, Elapse(n) \/ Clean(n) PROVE IInv'
  <2>1. CASE Elapse(n)
    BY <2>1 DEF Elapse, IInv, DirectoryGivesNoKeys, SoundRecord
  <2>2. CASE Clean(n)
    <3>1. PICK old \in SUBSET Node :
             keys' = [keys EXCEPT ![n] = [p \in Node |-> IF p \in old THEN None ELSE keys[n][p]]]
      BY <2>2 DEF Clean
    <3>2. keys' \in [Node -> [Node -> Key \cup {None, Undefined}]]
      BY <3>1 DEF IInv
    <3>3. \A a, b \in Node : keys'[a][b] = Undefined => keys[a][b] = Undefined
      BY <3>1, NoKeys DEF IInv
    <3>. QED  BY <2>2, <3>2, <3>3 DEF Clean, IInv, DirectoryGivesNoKeys, SoundRecord
  <2>. QED  BY <1>9, <2>1, <2>2
<1>10. ASSUME NEW n \in Node, Restart(n) PROVE IInv'
  <2>1. life' \in [Node -> Nat] /\ boot' \in [Node -> Boots]
    <3>1. Idle \in Boots
      BY DEF Boots
    <3>2. life' = [life EXCEPT ![n] = @ + 1] /\ boot' = [boot EXCEPT ![n] = Idle]
      BY <1>10 DEF Restart
    <3>. QED  BY <3>1, <3>2 DEF IInv
  <2>2. keys' \in [Node -> [Node -> Key \cup {None, Undefined}]]
        /\ \A a, b \in Node : keys'[a][b] = Undefined => keys[a][b] = Undefined
    BY <1>10, NoKeys DEF Restart, IInv
  <2>3. discovered' \in [Node -> SUBSET (Node \X (Key \cup {Undefined}))]
        /\ \A a \in Node : discovered'[a] \subseteq discovered[a]
    BY <1>10 DEF Restart, IInv
  <2>. QED  BY <1>10, <2>1, <2>2, <2>3 DEF Restart, IInv, DirectoryGivesNoKeys, SoundRecord
<1>11. ASSUME NEW m \in network, HandlePing(m) PROVE IInv'
  <2>1. m.from \in Node /\ m.to \in Node /\ m.key \in Key
    BY DEF IInv
  <2>. QED  BY <1>11, <2>1, StoredKeeps, OwnIsKey DEF HandlePing, IInv, SoundRecord, Message
<1>12. ASSUME NEW m \in network, HandlePong(m) PROVE IInv'
  <2>1. m.from \in Node /\ m.to \in Node /\ m.key \in Key
    BY DEF IInv
  <2>2. keys' \in [Node -> [Node -> Key \cup {None, Undefined}]] /\ DirectoryGivesNoKeys'
    BY <1>12, <2>1, StoredKeeps DEF HandlePong
  <2>3. boot' \in [Node -> Boots] /\ sent' \in Nat
        /\ \A x \in network' : {x.from, x.to} \subseteq Node /\ x.key \in Key
    BY <1>12, <2>1, PingSettledKeeps DEF HandlePong, IInv
  <2>. QED  BY <1>12, <2>2, <2>3 DEF HandlePong, IInv, SoundRecord
<1>13. ASSUME NEW m \in network, HandleKeyDiscovery(m) PROVE IInv'
  <2>1. m.from \in Node /\ m.to \in Node /\ m.key \in Key
    BY DEF IInv
  <2>. QED  BY <1>13, <2>1, StoredKeeps, OwnIsKey DEF HandleKeyDiscovery, IInv, SoundRecord, Message
<1>14. CASE UNCHANGED vars
  BY <1>14 DEF vars, IInv, DirectoryGivesNoKeys, SoundRecord
<1>. QED  BY <1>1, <1>2, <1>3, <1>4, <1>5, <1>6, <1>7, <1>8, <1>9, <1>10, <1>11, <1>12,
             <1>13, <1>14 DEF Next, Proceed, HandleMessage

\* Nothing is learned from the directory, and a key can be replaced by no key only
\* where a gateway of that node is registered under the key that is read for it
\* (findKeyInDHT), for any nodes, chains, losses, orders of messages and restarts.
THEOREM NothingFromTheDirectory == Spec => []DirectoryGivesNoKeys
<1>1. IInv => DirectoryGivesNoKeys
  BY DEF IInv
<1>. QED  BY <1>1, InitIInv, NextIInv, PTL DEF Spec

-----------------------------------------------------------------------------
(* Pings *)

\* A key in a message is its sender's, of a life that it has had.
SoundMessage(m) ==
    /\ m.key[1] = m.from /\ m.key[2] \in 0 .. life[m.from]
    /\ m.type \in {"PING", "PONG"} => m.id \in 0 .. sent - 1

\* m is the answer that the bootstrap of its receiver waits for, and its sender has
\* not restarted since.
Awaited(m) ==
    /\ m.type = "PONG"
    /\ boot[m.to].step = "ping" /\ boot[m.to].id = m.id
    /\ m.key = Own(m.from)

PInv ==
    /\ \A m \in network : SoundMessage(m)
    /\ \A n, p \in Node : keys[n][p] \in Key => keys[n][p][1] = p
    /\ \A n, p \in Node : <<n, p>> \in met => keys[n][p] # None /\ keys[p][n] # None
    /\ \A m \in network : Awaited(m) => keys[m.from][m.to] # None

\* What every step keeps that does not restart a node or throw keys away.
Grows ==
    /\ \A n \in Node : life'[n] = life[n]
    /\ sent' \in Nat /\ sent <= sent'
    /\ \A n, p \in Node :
          /\ keys[n][p] # None => keys'[n][p] # None
          /\ keys'[n][p] \in Key => keys'[n][p] = keys[n][p] \/ keys'[n][p][1] = p

\* A bootstrap waits for what it waited for, or for an answer nobody has given yet.
Waits ==
    \A n \in Node : boot'[n].step = "ping" =>
        \/ boot[n].step = "ping" /\ boot'[n].id = boot[n].id
        \/ boot'[n].id = sent

\* The key in a message stays one of its sender while its sender keeps its lives.
LEMMA SoundStays ==
    ASSUME IInv, Grows, NEW m \in network, SoundMessage(m)
    PROVE  SoundMessage(m)'
<1>1. m.from \in Node /\ life'[m.from] = life[m.from]
  BY DEF IInv, Grows
<1>2. sent \in Nat /\ sent' \in Nat /\ sent <= sent'
  BY DEF IInv, Grows
<1>3. m.type \in {"PING", "PONG"} => m.id \in 0 .. sent' - 1
  BY <1>2 DEF SoundMessage
<1>. QED  BY <1>1, <1>3 DEF SoundMessage

\* A step that sends no PONG and meets nobody.
LEMMA PInvStays ==
    ASSUME IInv, PInv, Grows, Waits, met' = met,
           \A m \in network' : m \in network \/ (SoundMessage(m)' /\ m.type # "PONG")
    PROVE  PInv'
<1>1. \A m \in network' : SoundMessage(m)'
  BY SoundStays DEF PInv
<1>2. \A n, p \in Node : keys'[n][p] \in Key => keys'[n][p][1] = p
  BY DEF PInv, Grows
<1>3. \A n, p \in Node : <<n, p>> \in met => keys'[n][p] # None /\ keys'[p][n] # None
  BY DEF PInv, Grows
<1>4. ASSUME NEW m \in network', Awaited(m)' PROVE keys'[m.from][m.to] # None
  <2>1. m \in network /\ m.type = "PONG"
    BY <1>4 DEF Awaited
  <2>2. m.from \in Node /\ m.to \in Node
    BY <2>1 DEF IInv
  <2>3. m.id \in 0 .. sent - 1 /\ sent \in Nat
    BY <2>1 DEF PInv, SoundMessage, IInv
  <2>4. boot[m.to].step = "ping" /\ boot[m.to].id = m.id
    BY <1>4, <2>2, <2>3 DEF Awaited, Waits
  <2>5. Own(m.from)' = Own(m.from)
    BY <2>2 DEF Own, Grows
  <2>6. Awaited(m)
    BY <1>4, <2>1, <2>4, <2>5 DEF Awaited
  <2>. QED  BY <2>1, <2>2, <2>6 DEF PInv, Grows
<1>. QED  BY <1>1, <1>2, <1>3, <1>4 DEF PInv, Awaited

\* The next ping, or the end of the pings, sends no PONG, and the answer it waits for
\* has not been given.
LEMMA PingSettledWaits ==
    ASSUME IInv, NEW n \in Node, boot[n].step = "ping", PingSettled(n), UNCHANGED life
    PROVE  /\ sent' \in Nat /\ sent <= sent' /\ Waits
           /\ \A m \in network' : m \in network \/ (SoundMessage(m)' /\ m.type # "PONG")
<1>1. DOMAIN boot = Node /\ sent \in Nat
  BY DEF IInv
<1>2. CASE Tail(boot[n].left) # <<>>
  <2>1. PICK left, m, c : /\ left = Tail(boot[n].left) /\ c = sent
                          /\ m = Message("PING", n, Head(left), c)
    OBVIOUS
  <2>2. /\ boot' = [boot EXCEPT ![n] = [step |-> "ping", left |-> left, id |-> sent]]
        /\ network' = network \cup {m} /\ sent' = sent + 1
    BY <1>2, <2>1 DEF PingSettled, Ping
  <2>3. sent' \in Nat /\ sent <= sent' /\ c \in 0 .. sent' - 1
    BY <1>1, <2>1, <2>2
  <2>4. Waits
    BY <1>1, <2>2 DEF Waits
  <2>5. SoundMessage(m)' /\ m.type = "PING"
    <3>1. /\ m.type = "PING" /\ m.from = n /\ m.id = c /\ m.key = <<n, life[n]>>
          /\ life[n] \in Nat /\ life'[n] = life[n]
      BY <2>1 DEF Message, Own, IInv
    <3>2. m.key[1] = m.from /\ m.key[2] \in 0 .. life'[m.from]
      BY <3>1
    <3>3. m.id \in 0 .. sent' - 1
      BY <2>3, <3>1
    <3>. QED  BY <3>1, <3>2, <3>3 DEF SoundMessage
  <2>. QED  BY <2>2, <2>3, <2>4, <2>5
<1>3. CASE Tail(boot[n].left) = <<>>
  <2>1. boot' = [boot EXCEPT ![n] = [step |-> "look up", left |-> Listed[n]]]
        /\ sent' = sent + Len(Given[n]) /\ UNCHANGED network
    BY <1>3 DEF PingSettled
  <2>2. Len(Given[n]) \in Nat
    BY KeyDirectoryAssumption, LeftTail DEF Left
  <2>3. sent' \in Nat /\ sent <= sent'
    <3>1. sent' = sent + Len(Given[n])
      BY <2>1
    <3>. QED  BY <1>1, <2>2, <3>1
  <2>4. Waits
    BY <1>1, <2>1 DEF Waits
  <2>. QED  BY <2>1, <2>3, <2>4
<1>. QED  BY <1>2, <1>3

\* A message that is sent with the own key is sound.
LEMMA SentIsSound ==
    ASSUME IInv, NEW n \in Node, NEW m, m.from = n, m.key = Own(n), life'[n] = life[n],
           m.type \in {"PING", "PONG"} => m.id \in 0 .. sent' - 1
    PROVE  SoundMessage(m)'
<1>1. m.key = <<n, life[n]>> /\ life[n] \in Nat
  BY DEF Own, IInv
<1>2. m.key[1] = m.from /\ m.key[2] \in 0 .. life'[m.from]
  BY <1>1
<1>. QED  BY <1>2 DEF SoundMessage

\* Nobody waits for a PONG at first.
LEMMA InitPInv == Init => PInv
<1> SUFFICES ASSUME Init PROVE PInv
  OBVIOUS
<1>. QED  BY NoKeys DEF Init, PInv

\* Steps that neither send nor change what is stored, waited for or met.
LEMMA QuietPInv ==
    ASSUME IInv, PInv, UNCHANGED <<life, keys, network, met>>,
           sent' \in Nat, sent <= sent', Waits
    PROVE  PInv'
<1>1. Grows
  BY DEF Grows
<1>. QED  BY <1>1, PInvStays

\* A key that is stored is its sender's.
LEMMA StoredGrows ==
    ASSUME IInv, PInv, NEW m \in network, Stored(m.to, m.from, m.key), UNCHANGED life,
           sent' \in Nat, sent <= sent'
    PROVE  Grows /\ keys'[m.to][m.from] # None
<1>1. /\ m.from \in Node /\ m.to \in Node /\ m.key \in Key /\ m.key # None
      /\ m.key[1] = m.from
  BY NoKeys DEF IInv, PInv, SoundMessage
<1>2. keys' = [keys EXCEPT ![m.to] = [keys[m.to] EXCEPT ![m.from] = m.key]]
  BY DEF Stored
<1>3. \A n, p \in Node : keys'[n][p] = IF n = m.to /\ p = m.from THEN m.key ELSE keys[n][p]
  BY <1>1, <1>2 DEF IInv
<1>. QED  BY <1>1, <1>3 DEF Grows

\* A bootstrap that goes on with its next peer waits for no new PONG.
LEMMA NextPeerWaits ==
    ASSUME IInv, NEW n \in Node, NextPeer(n)
    PROVE  Waits
<1>1. boot' = [boot EXCEPT ![n] =
          IF Len(boot[n].left) > 1 THEN [step |-> "look up", left |-> Tail(boot[n].left)]
          ELSE [step |-> "idle"]]
  BY DEF NextPeer, Idle
<1>2. boot'[n].step # "ping" /\ \A q \in Node \ {n} : boot'[q] = boot[q]
  BY <1>1 DEF IInv
<1>. QED  BY <1>2 DEF Waits

\* Whoever answers a ping has stored the key that came with it.
LEMMA HandlePingPInv ==
    ASSUME IInv, PInv, NEW m \in network, HandlePing(m)
    PROVE  PInv'
<1>1. PICK a : a = Message("PONG", m.to, m.from, m.id)
  OBVIOUS
<1>2. /\ m.type = "PING" /\ Stored(m.to, m.from, m.key)
      /\ network' = network \cup {a}
      /\ UNCHANGED <<life, boot, sent, met>>
  BY <1>1 DEF HandlePing
<1>3. /\ m.to \in Node /\ m.from \in Node /\ sent \in Nat
      /\ m.id \in 0 .. sent - 1
  BY <1>2 DEF IInv, PInv, SoundMessage
<1>4. /\ a.type = "PONG" /\ a.from = m.to /\ a.to = m.from /\ a.id = m.id /\ a.key = Own(m.to)
  BY <1>1 DEF Message
<1>5. Grows /\ keys'[m.to][m.from] # None
  BY <1>2, <1>3, StoredGrows
<1>6. SoundMessage(a)'
  BY <1>2, <1>3, <1>4, SentIsSound
<1>7. \A x \in network' : SoundMessage(x)'
  BY <1>2, <1>5, <1>6, SoundStays DEF PInv
<1>8. \A n, p \in Node : keys'[n][p] \in Key => keys'[n][p][1] = p
  BY <1>5 DEF PInv, Grows
<1>9. \A n, p \in Node : <<n, p>> \in met' => keys'[n][p] # None /\ keys'[p][n] # None
  BY <1>2, <1>5 DEF PInv, Grows
<1>10. ASSUME NEW x \in network', Awaited(x)' PROVE keys'[x.from][x.to] # None
  <2>1. CASE x = a
    BY <1>4, <1>5, <2>1
  <2>2. CASE x \in network
    <3>1. x.from \in Node /\ x.to \in Node
      BY <2>2 DEF IInv
    <3>2. Awaited(x)
      BY <1>2, <1>10, <3>1 DEF Awaited, Own
    <3>. QED  BY <1>5, <2>2, <3>1, <3>2 DEF PInv, Grows
  <2>. QED  BY <1>2, <2>1, <2>2
<1>. QED  BY <1>7, <1>8, <1>9, <1>10 DEF PInv, Awaited

\* The answer is stored by its receiver, and its sender has stored the ping.
LEMMA HandlePongPInv ==
    ASSUME IInv, PInv, NEW m \in network, HandlePong(m)
    PROVE  PInv'
<1>1. m.to \in Node /\ m.from \in Node /\ sent \in Nat
  BY DEF IInv
<1>2. m.type = "PONG" /\ Stored(m.to, m.from, m.key) /\ UNCHANGED life
  BY DEF HandlePong
<1>3. CASE boot[m.to].step = "ping" /\ boot[m.to].id = m.id
  <2>1. /\ PingSettled(m.to)
        /\ met' = met \cup {<<m.to, p>> : p \in {q \in {m.from} : m.key = Own(q)}}
    BY <1>3 DEF HandlePong
  <2>2. /\ sent' \in Nat /\ sent <= sent' /\ Waits
        /\ \A x \in network' : x \in network \/ (SoundMessage(x)' /\ x.type # "PONG")
    BY <1>1, <1>2, <1>3, <2>1, PingSettledWaits
  <2>3. Grows /\ keys'[m.to][m.from] # None
    BY <1>2, <2>2, StoredGrows
  <2>4. m.key = Own(m.from) => keys'[m.from][m.to] # None
    BY <1>1, <1>2, <1>3, <2>3 DEF PInv, Awaited, Grows
  <2>5. ASSUME NEW n \in Node, NEW p \in Node, <<n, p>> \in met'
        PROVE  keys'[n][p] # None /\ keys'[p][n] # None
    <3>1. CASE <<n, p>> \in met
      BY <2>3, <3>1 DEF PInv, Grows
    <3>2. CASE n = m.to /\ p = m.from /\ m.key = Own(m.from)
      BY <2>3, <2>4, <3>2
    <3>. QED  BY <2>1, <2>5, <3>1, <3>2
  <2>6. ASSUME NEW x \in network', Awaited(x)' PROVE keys'[x.from][x.to] # None
    <3>1. x \in network /\ x.type = "PONG"
      BY <2>2, <2>6 DEF Awaited
    <3>2. x.from \in Node /\ x.to \in Node
      BY <3>1 DEF IInv
    <3>3. x.id \in 0 .. sent - 1
      BY <3>1 DEF PInv, SoundMessage
    <3>4. boot[x.to].step = "ping" /\ boot[x.to].id = x.id
      BY <1>1, <2>2, <2>6, <3>2, <3>3 DEF Awaited, Waits
    <3>5. Awaited(x)
      BY <1>2, <2>6, <3>1, <3>2, <3>4 DEF Awaited, Own
    <3>. QED  BY <2>3, <3>1, <3>2, <3>5 DEF PInv, Grows
  <2>7. \A x \in network' : SoundMessage(x)'
    BY <2>2, <2>3, SoundStays DEF PInv
  <2>8. \A n, p \in Node : keys'[n][p] \in Key => keys'[n][p][1] = p
    BY <2>3 DEF PInv, Grows
  <2>. QED  BY <2>5, <2>6, <2>7, <2>8 DEF PInv, Awaited
<1>4. CASE ~ (boot[m.to].step = "ping" /\ boot[m.to].id = m.id)
  <2>1. UNCHANGED <<boot, network, sent, met>>
    BY <1>4 DEF HandlePong
  <2>2. Grows /\ Waits
    BY <1>1, <1>2, <2>1, StoredGrows DEF Waits
  <2>. QED  BY <2>1, <2>2, PInvStays
<1>. QED  BY <1>3, <1>4

\* A key discovery stores a key and forgets none.
LEMMA HandleKeyDiscoveryPInv ==
    ASSUME IInv, PInv, NEW m \in network, HandleKeyDiscovery(m)
    PROVE  PInv'
<1>1. PICK a : a = Message("KEY_RESPONSE", m.to, m.from, m.id)
  OBVIOUS
<1>2. /\ Stored(m.to, m.from, m.key)
      /\ network' = network \/ network' = network \cup {a}
      /\ UNCHANGED <<life, boot, sent, met>>
  BY <1>1 DEF HandleKeyDiscovery
<1>3. m.to \in Node /\ sent \in Nat
  BY DEF IInv
<1>4. a.type = "KEY_RESPONSE" /\ a.from = m.to /\ a.key = Own(m.to)
  BY <1>1 DEF Message
<1>5. Grows /\ Waits
  BY <1>2, <1>3, StoredGrows DEF Waits
<1>6. SoundMessage(a)' /\ a.type # "PONG"
  BY <1>2, <1>3, <1>4, SentIsSound
<1>. QED  BY <1>2, <1>5, <1>6, PInvStays

\* A key is thrown away by nobody that has just answered the node it belongs to.
LEMMA CleanPInv ==
    ASSUME IInv, PInv, NEW n \in Node, Clean(n)
    PROVE  PInv'
<1>1. PICK old \in SUBSET (Node \ JustMet(n)) :
         /\ keys' = [keys EXCEPT ![n] = [p \in Node |-> IF p \in old THEN None ELSE keys[n][p]]]
         /\ met' = {e \in met : ~ \E p \in old : {n, p} = {e[1], e[2]}}
  BY DEF Clean
<1>2. UNCHANGED <<life, boot, network, sent>>
  BY DEF Clean
<1>3. \A q, p \in Node : keys'[q][p] = IF q = n /\ p \in old THEN None ELSE keys[q][p]
  BY <1>1 DEF IInv
<1>4. \A q, p \in Node : keys'[q][p] \in Key => keys'[q][p][1] = p
  BY <1>3, NoKeys DEF PInv
<1>5. ASSUME NEW q \in Node, NEW p \in Node, <<q, p>> \in met'
      PROVE  keys'[q][p] # None /\ keys'[p][q] # None
  <2>1. <<q, p>> \in met /\ ~ (q = n /\ p \in old) /\ ~ (p = n /\ q \in old)
    BY <1>1, <1>5
  <2>. QED  BY <1>3, <2>1 DEF PInv
<1>6. ASSUME NEW m \in network, Awaited(m)' PROVE keys'[m.from][m.to] # None
  <2>1. m.from \in Node /\ m.to \in Node
    BY DEF IInv
  <2>2. Awaited(m)
    BY <1>2, <1>6 DEF Awaited, Own
  <2>3. m.from = n => m.to \in JustMet(n)
    BY <2>2 DEF Awaited, JustMet
  <2>. QED  BY <1>1, <1>3, <2>1, <2>2, <2>3 DEF PInv
<1>7. \A m \in network' : SoundMessage(m)'
  BY <1>2 DEF PInv, SoundMessage
<1>. QED  BY <1>2, <1>4, <1>5, <1>6, <1>7 DEF PInv, Awaited

\* Nobody waits for the answer of an earlier life.
LEMMA RestartPInv ==
    ASSUME IInv, PInv, NEW n \in Node, Restart(n)
    PROVE  PInv'
<1>1. /\ life' = [life EXCEPT ![n] = @ + 1]
      /\ keys' = [keys EXCEPT ![n] = [p \in Node |-> None]]
      /\ boot' = [boot EXCEPT ![n] = Idle]
      /\ met' = {e \in met : n \notin {e[1], e[2]}}
      /\ UNCHANGED <<network, sent>>
  BY DEF Restart
<1>2. /\ life'[n] = life[n] + 1 /\ boot'[n] = Idle /\ life[n] \in Nat
      /\ \A p \in Node : keys'[n][p] = None
      /\ \A q \in Node \ {n} : life'[q] = life[q] /\ boot'[q] = boot[q] /\ keys'[q] = keys[q]
  BY <1>1 DEF IInv
<1>3. ASSUME NEW m \in network PROVE SoundMessage(m)'
  <2>1. m.from \in Node /\ SoundMessage(m)
    BY DEF IInv, PInv
  <2>2. m.key[2] \in 0 .. life'[m.from]
    <3>1. CASE m.from = n
      BY <1>2, <2>1, <3>1 DEF SoundMessage
    <3>2. CASE m.from # n
      BY <1>2, <2>1, <3>2 DEF SoundMessage
    <3>. QED  BY <3>1, <3>2
  <2>. QED  BY <1>1, <2>1, <2>2 DEF SoundMessage
<1>4. \A q, p \in Node : keys'[q][p] \in Key => keys'[q][p][1] = p
  BY <1>2, NoKeys DEF PInv
<1>5. \A q, p \in Node : <<q, p>> \in met' => keys'[q][p] # None /\ keys'[p][q] # None
  <2>1. \A q, p \in Node : <<q, p>> \in met' => <<q, p>> \in met /\ q # n /\ p # n
    BY <1>1
  <2>. QED  BY <1>2, <2>1 DEF PInv
<1>6. ASSUME NEW m \in network, Awaited(m)' PROVE keys'[m.from][m.to] # None
  <2>1. m.from \in Node /\ m.to \in Node /\ SoundMessage(m)
    BY DEF IInv, PInv
  <2>2. m.to # n
    BY <1>2, <1>6 DEF Awaited, Idle
  <2>3. m.from # n
    <3>1. m.from = n => m.key[2] \in 0 .. life[n]
      BY <2>1 DEF SoundMessage
    <3>2. m.from = n => m.key[2] = life[n] + 1
      BY <1>2, <1>6 DEF Awaited, Own
    <3>. QED  BY <1>2, <3>1, <3>2
  <2>4. Awaited(m)
    BY <1>2, <1>6, <2>1, <2>2, <2>3 DEF Awaited, Own
  <2>. QED  BY <1>2, <2>1, <2>3, <2>4 DEF PInv
<1>. QED  BY <1>1, <1>3, <1>4, <1>5, <1>6 DEF PInv, Awaited

\* Every step keeps what is said of awaited PONGs.
LEMMA NextPInv == IInv /\ PInv /\ [Next]_vars => PInv'
<1> SUFFICES ASSUME IInv, PInv, [Next]_vars PROVE PInv'
  OBVIOUS
<1>1. sent \in Nat
  BY DEF IInv
<1>2. ASSUME NEW n \in Node, StoreOwnKeyInDHT(n) \/ RegisterAsGateway(n) \/ Elapse(n) PROVE PInv'
  <2>1. UNCHANGED <<life, keys, boot, network, sent, met>>
    BY <1>2 DEF StoreOwnKeyInDHT, RegisterAsGateway, Elapse
  <2>. QED  BY <1>1, <2>1, QuietPInv DEF Waits
<1>3. ASSUME NEW n \in Node, Bootstrap(n) PROVE PInv'
  <2>1. PICK m, c : m = Message("PING", n, Head(Given[n]), c) /\ c = sent
    OBVIOUS
  <2>2. /\ boot' = [boot EXCEPT ![n] = [step |-> "ping", left |-> Given[n], id |-> sent]]
        /\ network' = network \cup {m} /\ sent' = sent + 1
        /\ UNCHANGED <<life, keys, met>>
    BY <1>3, <2>1 DEF Bootstrap, Ping
  <2>3. sent' \in Nat /\ sent <= sent' /\ c \in 0 .. sent' - 1
    BY <1>1, <2>1, <2>2
  <2>4. m.type = "PING" /\ m.from = n /\ m.key = Own(n) /\ m.id = c
    BY <2>1 DEF Message
  <2>5. SoundMessage(m)'
    BY <2>2, <2>3, <2>4, SentIsSound
  <2>6. Grows /\ Waits
    BY <2>2, <2>3 DEF Grows, Waits, IInv
  <2>. QED  BY <2>2, <2>4, <2>5, <2>6, PInvStays
<1>4. ASSUME NEW n \in Node, PingTimeout(n) PROVE PInv'
  <2>1. boot[n].step = "ping" /\ PingSettled(n) /\ UNCHANGED <<life, keys, met>>
    BY <1>4 DEF PingTimeout
  <2>2. /\ sent' \in Nat /\ sent <= sent' /\ Waits
        /\ \A m \in network' : m \in network \/ (SoundMessage(m)' /\ m.type # "PONG")
    BY <2>1, PingSettledWaits
  <2>3. Grows
    BY <2>1, <2>2 DEF Grows
  <2>. QED  BY <2>1, <2>2, <2>3, PInvStays
<1>5. ASSUME NEW n \in Node, FindKeyInDHT(n) PROVE PInv'
  <2>1. /\ boot[n].step = "look up" /\ NextPeer(n)
        /\ UNCHANGED <<life, network, sent, met>>
    BY <1>5 DEF FindKeyInDHT
  <2>2. PICK p \in Node : \E r \in Verified(p) : keys' = [keys EXCEPT ![n][r.node] = r.publicKey]
    <3>1. Head(boot[n].left) \in Node
      BY <2>1, LeftIsLeft, LeftTail
    <3>. QED  BY <1>5, <3>1 DEF FindKeyInDHT
  <2>3. keys' = [keys EXCEPT ![n][p] = Undefined]
    <3>1. PICK r \in Verified(p) : keys' = [keys EXCEPT ![n][r.node] = r.publicKey]
      BY <2>2
    <3>2. r.publicKey = Undefined /\ r.node = p
      BY VerifiedIsGateway DEF GatewayRecord
    <3>. QED  BY <3>1, <3>2
  <2>4. \A q, x \in Node : keys'[q][x] = IF q = n /\ x = p THEN Undefined ELSE keys[q][x]
    BY <2>3 DEF IInv
  <2>5. Grows
    <3>1. \A q, x \in Node : /\ keys[q][x] # None => keys'[q][x] # None
                             /\ keys'[q][x] \in Key => keys'[q][x] = keys[q][x]
      BY <2>4, NoKeys
    <3>2. life' = life /\ sent' = sent
      BY <2>1
    <3>3. sent' \in Nat /\ sent <= sent'
      BY <1>1, <3>2
    <3>. QED  BY <3>1, <3>2, <3>3 DEF Grows
  <2>. QED  BY <2>1, <2>5, NextPeerWaits, PInvStays
<1>6. ASSUME NEW n \in Node, SendKeyDiscoveryRequest(n) PROVE PInv'
  <2>1. PICK m : m = Message("KEY_DISCOVERY", n, Head(boot[n].left), None)
    OBVIOUS
  <2>2. /\ boot' = [boot EXCEPT ![n] = [step |-> "request", left |-> boot[n].left]]
        /\ network' = network \cup {m}
        /\ UNCHANGED <<life, keys, sent, met>>
    BY <1>6, <2>1 DEF SendKeyDiscoveryRequest
  <2>3. m.type = "KEY_DISCOVERY" /\ m.from = n /\ m.key = Own(n)
    BY <2>1 DEF Message
  <2>4. SoundMessage(m)'
    BY <2>2, <2>3, SentIsSound
  <2>5. Grows /\ Waits
    BY <1>1, <2>2 DEF Grows, Waits, IInv
  <2>. QED  BY <2>2, <2>3, <2>4, <2>5, PInvStays
<1>7. ASSUME NEW n \in Node, KeyDiscoveryTimeout(n) PROVE PInv'
  <2>1. NextPeer(n) /\ UNCHANGED <<life, keys, network, sent, met>>
    BY <1>7 DEF KeyDiscoveryTimeout
  <2>. QED  BY <1>1, <2>1, NextPeerWaits, QuietPInv
<1>8. ASSUME NEW n \in Node, DiscoverKeys(n) PROVE PInv'
  <2>1. Len(Listed[n]) \in Nat
    BY KeyDirectoryAssumption, LeftTail DEF Left
  <2>2. sent' = sent + Len(Listed[n]) /\ UNCHANGED <<life, keys, boot, network, met>>
    BY <1>8 DEF DiscoverKeys
  <2>3. sent' \in Nat /\ sent <= sent'
    BY <1>1, <2>1, <2>2
  <2>. QED  BY <2>2, <2>3, QuietPInv DEF Waits
<1>9. ASSUME NEW n \in Node, Clean(n) \/ Restart(n) PROVE PInv'
  BY <1>9, CleanPInv, RestartPInv
<1>10. ASSUME NEW m \in network, HandleMessage(m) PROVE PInv'
  BY <1>10, HandlePingPInv, HandlePongPInv, HandleKeyDiscoveryPInv DEF HandleMessage
<1>11. CASE UNCHANGED vars
  BY <1>1, <1>11, QuietPInv DEF vars, Waits
<1>. QED  BY <1>2, <1>3, <1>4, <1>5, <1>6, <1>7, <1>8, <1>9, <1>10, <1>11 DEF Next, Proceed

\* A node's key is known to a node whose ping was exchanged with it, or was replaced
\* because of that node's gateway record.
LEMMA KeptOrReplaced ==
    ASSUME IInv, PInv, NEW n \in Node, NEW p \in Node, keys[n][p] # None
    PROVE  HasKeyOf(n, p) \/ (keys[n][p] = Undefined /\ GatewayRecord(p, ReadAt[p]) \in records)
<1>1. keys[n][p] \in Key \cup {None, Undefined}
  BY DEF IInv
<1>2. CASE keys[n][p] \in Key
  BY <1>2 DEF PInv, HasKeyOf
<1>3. CASE keys[n][p] = Undefined
  BY <1>3 DEF IInv, DirectoryGivesNoKeys
<1>. QED  BY <1>1, <1>2, <1>3

\* Both invariants hold always.
LEMMA PingInvariant == Spec => [](IInv /\ PInv)
  BY InitIInv, NextIInv, InitPInv, NextPInv, PTL DEF Spec

\* Two nodes whose ping in a bootstrap was answered in time hold keys of each other,
\* but for one that was replaced because of a gateway record of its node, for any
\* losses and orders of messages (securePing, handleMessage, requestPeerKey).
THEOREM PingsExchangeKeys == Spec => []PingExchanges
<1>1. IInv /\ PInv => PingExchanges
  <2> SUFFICES ASSUME IInv, PInv, NEW n \in Node, NEW p \in Node, <<n, p>> \in met,
                      NEW e \in {<<n, p>>, <<p, n>>}
               PROVE  \/ HasKeyOf(e[1], e[2])
                      \/ /\ keys[e[1]][e[2]] = Undefined
                         /\ GatewayRecord(e[2], ReadAt[e[2]]) \in records
    BY DEF PingExchanges
  <2>1. keys[n][p] # None /\ keys[p][n] # None
    BY DEF PInv
  <2>2. /\ HasKeyOf(n, p) \/ (keys[n][p] = Undefined /\ GatewayRecord(p, ReadAt[p]) \in records)
        /\ HasKeyOf(p, n) \/ (keys[p][n] = Undefined /\ GatewayRecord(n, ReadAt[n]) \in records)
    BY <2>1, KeptOrReplaced
  <2>3. CASE e = <<n, p>>
    BY <2>2, <2>3
  <2>4. CASE e = <<p, n>>
    BY <2>2, <2>4
  <2>. QED  BY <2>3, <2>4
<1>. QED  BY <1>1, PingInvariant, PTL

\* src/README.md:434-436, "The system automatically exchanges public keys during: Node
\* bootstrap process": the exchange of keys by pings, without its exception.
BootstrapExchangesKeys ==
    \A n, p \in Node : <<n, p>> \in met => HasKeyOf(n, p) /\ HasKeyOf(p, n)

\* Where no node can register as a gateway under the key that is read for it, a
\* bootstrap does exchange the keys of the nodes that it is given, without exception
\* (src/README.md:434): no record of findKeyInDHT can come between.
THEOREM KeysAreExchangedWithoutGateways ==
    ASSUME \A n \in Node : ReadAt[n] \notin GatewayAt[n]
    PROVE  Spec => []BootstrapExchangesKeys
<1>1. IInv /\ PInv => BootstrapExchangesKeys
  <2> SUFFICES ASSUME IInv, PInv, NEW n \in Node, NEW p \in Node, <<n, p>> \in met
               PROVE  HasKeyOf(n, p) /\ HasKeyOf(p, n)
    BY DEF BootstrapExchangesKeys
  <2>1. keys[n][p] # None /\ keys[p][n] # None
    BY DEF PInv
  <2>2. ASSUME NEW q \in Node, NEW r \in records, r = GatewayRecord(q, ReadAt[q]) PROVE FALSE
    <3>1. SoundRecord(r) /\ r.publicKey = Undefined /\ r.node = q /\ r.at = ReadAt[q]
      BY <2>2 DEF IInv, GatewayRecord
    <3>2. PICK x \in Node : \E k \in GatewayAt[x] : r = GatewayRecord(x, k)
      BY <3>1, NoKeys DEF SoundRecord
    <3>. QED  BY <3>1, <3>2 DEF GatewayRecord
  <2>. QED  BY <2>1, <2>2, KeptOrReplaced
<1>. QED  BY <1>1, PingInvariant, PTL
=============================================================================
