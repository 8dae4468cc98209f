-------------------------- MODULE TransportProofs ---------------------------
(***************************************************************************)
(* The two transports.  For WebSockets: what the two Maps and the messages *)
(* say is true of the sockets, for any nodes, lists of peers, stops,       *)
(* restarts and numbers of sockets.  For UDP, at the end: a promise says   *)
(* what became of its message and of its answer.                           *)
(*                                                                         *)
(* IInv adds to the properties of the sockets what makes them inductive: a *)
(* dialled socket has ends that nobody has yet, because sockets are        *)
(* numbered; a neighbour has a socket whose open event has been seen; and  *)
(* a message on its way is legal where it is going.                        *)
(***************************************************************************)
EXTENDS WsTransport, UdpTransport, SequenceTheorems, TLAPS

End == Nat \X Node \X Node \X {"out", "in"}

\* The number of a socket has been given out; 0 is that of the own connections.
Numbered(i, n, p) == <<n, p>> \in Lists /\ i \in 1 .. dials[<<n, p>>]

Sockets ==
    /\ dials \in [Lists -> Nat]
    /\ Ends \subseteq End
    /\ \A e \in Ends : e[1] = 0 \/ Numbered(e[1], e[2], e[3])
    /\ opening \subseteq Ends
    /\ \A s \in dialling :
          /\ s \in Nat \X Node \X Node
          /\ Numbered(s[1], s[2], s[3])
          /\ Out(s[1], s[2], s[3]) \notin Ends
          /\ In(s[1], s[2], s[3]) \notin Ends

Entries == DOMAIN connections = Node /\ EntryIsOpen

Neighbors ==
    /\ neighbors \in [Node -> SUBSET Node]
    /\ \A n \in Node : \A k \in neighbors[n] :
          \E x \in Ends \ opening : At(x) = n /\ FiledAs(x) = k

Logs ==
    /\ sends \in Nat
    /\ seen \in [Node -> SUBSET Nat]
    /\ log \in [Node -> Seq(Nat)]
    /\ \A n \in Node : \A i \in DOMAIN log[n] : log[n][i] < sends
    /\ HandledOnce

\* A broadcast on its way has been marked by everyone that has it in its log.
IsLegal(m) ==
    m.type = "broadcast" =>
       /\ m.id \in Nat /\ m.id < sends
       /\ \A n \in Node : \A i \in DOMAIN log[n] : log[n][i] = m.id => m.id \in seen[n]

Messages == {Handshake} \cup [type : {"broadcast"}, id : Nat]

Legal == {m \in Messages : IsLegal(m)}

Boxes == \A e \in Ends : inbox[e] \in Seq(Legal)

IInv == Sockets /\ Entries /\ Neighbors /\ Logs /\ Boxes

-----------------------------------------------------------------------------
(* The messages *)

\* A handshake may be on any socket.
LEMMA HandshakeLegal == Handshake \in Legal
  BY DEF Legal, Messages, IsLegal, Handshake

\* What is sent to some ends leaves in every inbox only what may be there.
LEMMA SentKeeps ==
    ASSUME NEW box, NEW L, NEW ends, NEW m,
           \A e \in DOMAIN box : box[e] \in Seq(L),
           m \in L
    PROVE  /\ DOMAIN Sent(box, ends, m) = DOMAIN box
           /\ \A e \in DOMAIN box : Sent(box, ends, m)[e] \in Seq(L)
<1>1. ASSUME NEW e \in DOMAIN box PROVE Sent(box, ends, m)[e] \in Seq(L)
  <2>1. CASE Other(e) \in ends
    <3>1. Append(box[e], m) \in Seq(L)
      BY <2>1, AppendProperties
    <3>. QED  BY <2>1, <3>1 DEF Sent
  <2>2. CASE Other(e) \notin ends
    BY <2>2 DEF Sent
  <2>. QED  BY <2>1, <2>2
<1>. QED  BY <1>1 DEF Sent

\* What stays legal while the logs grow.
LEMMA LegalStays ==
    ASSUME sends \in Nat, sends' \in Nat, sends <= sends',
           \A n \in Node : \A i \in DOMAIN log'[n] :
              \/ i \in DOMAIN log[n] /\ log'[n][i] = log[n][i] /\ seen[n] \subseteq seen'[n]
              \/ log'[n][i] \in seen'[n] \/ log'[n][i] = sends
    PROVE  Legal \subseteq Legal'
<1> SUFFICES ASSUME NEW m \in Legal PROVE IsLegal(m)' /\ m \in Messages
  BY DEF Legal, Messages
<1>1. IsLegal(m) /\ m \in Messages
  BY DEF Legal
<1>. QED  BY <1>1 DEF IsLegal

\* What may be in an inbox depends on what was sent, seen and logged only.
LEMMA LegalSame ==
    ASSUME UNCHANGED <<sends, seen, log>>
    PROVE  Legal' = Legal
  BY DEF Legal, IsLegal, Messages, Handshake

-----------------------------------------------------------------------------
(* The parts that an action does not touch *)

\* The two ends of a socket.
LEMMA OtherEnd ==
    ASSUME NEW e \in End
    PROVE  /\ Other(e) \in End /\ Other(Other(e)) = e /\ Other(e) # e
           /\ At(e) \in Node /\ Far(e) \in Node /\ FiledAs(e) \in Node
           /\ At(Other(e)) = Far(e) /\ FiledAs(Other(e)) = FiledAs(e)
  BY DEF End, Other, At, Far, FiledAs

\* Every node starts connected to itself.
LEMMA InitIInv == Init => IInv
<1> SUFFICES ASSUME Init PROVE IInv
  OBVIOUS
<1>1. /\ \A n \in Node : Own(n) \in End /\ Other(Own(n)) \in End
      /\ \A n \in Node : At(Own(n)) = n /\ FiledAs(Own(n)) = n
  BY DEF Own, Out, Other, End, At, FiledAs
<1>2. Ends = {Own(n) : n \in Node} \cup {Other(Own(n)) : n \in Node}
  BY DEF Init, Ends
<1>3. \A e \in Ends : e[1] = 0
  BY <1>2 DEF Own, Out, Other
<1>4. Sockets
  BY <1>1, <1>2, <1>3 DEF Init, Sockets
<1>5. Entries
  BY <1>1, <1>2 DEF Init, Entries, EntryIsOpen
<1>6. Neighbors
  BY <1>1, <1>2 DEF Init, Neighbors
<1>7. Logs
  BY DEF Init, Logs, HandledOnce, IsInjective
<1>8. Boxes
  <2>1. \A e \in Ends : inbox[e] = <<>>
    BY <1>2 DEF Init
  <2>. QED  BY <2>1, EmptySeq DEF Boxes
<1>. QED  BY <1>4, <1>5, <1>6, <1>7, <1>8 DEF IInv

-----------------------------------------------------------------------------
(* Connecting *)

\* A number that is given out stays so.
LEMMA DialIInv ==
    ASSUME IInv, NEW n \in Node, NEW p \in Node, Dial(n, p)
    PROVE  IInv'
<1> DEFINE l == <<n, p>>
<1>1. /\ l \in Lists /\ dials \in [Lists -> Nat]
      /\ dials' = [dials EXCEPT ![l] = dials[l] + 1]
      /\ dialling' = dialling \cup {<<dials'[l], n, p>>}
      /\ UNCHANGED <<inbox, opening, connections, neighbors, seen, sends, history>>
  BY DEF Dial, IInv, Sockets
<1>0. PICK i \in Nat : i = dials[l] + 1
  BY <1>1
<1>2. dials' \in [Lists -> Nat] /\ dials'[l] = i /\ i \in 1 .. dials'[l]
  BY <1>0, <1>1
<1>3. \A k \in Lists : dials'[k] >= dials[k]
  BY <1>1
<1>4. \A x, y, z : Numbered(x, y, z) => Numbered(x, y, z)'
  BY <1>1, <1>2, <1>3 DEF Numbered
<1>5. Numbered(i, n, p)' /\ ~ Numbered(i, n, p) /\ i # 0
  BY <1>0, <1>1, <1>2 DEF Numbered
<1>6. Out(i, n, p) \notin Ends /\ In(i, n, p) \notin Ends
  BY <1>5 DEF IInv, Sockets, Out, In
<1>7. Ends' = Ends
  BY <1>1 DEF Ends
<1>8. Sockets'
  <2>1. \A e \in Ends : e[1] = 0 \/ Numbered(e[1], e[2], e[3])'
    BY <1>4 DEF IInv, Sockets
  <2>2. ASSUME NEW t \in dialling'
        PROVE  /\ t \in Nat \X Node \X Node /\ Numbered(t[1], t[2], t[3])'
               /\ Out(t[1], t[2], t[3]) \notin Ends /\ In(t[1], t[2], t[3]) \notin Ends
    <3>1. CASE t \in dialling
      BY <3>1, <1>4 DEF IInv, Sockets
    <3>2. CASE t = <<i, n, p>>
      BY <3>2, <1>2, <1>5, <1>6
    <3>. QED  BY <1>1, <1>2, <3>1, <3>2
  <2>. QED  BY <1>1, <1>2, <1>7, <2>1, <2>2 DEF IInv, Sockets, Out, In
<1>9. (Entries /\ Neighbors)'
  BY <1>1, <1>7 DEF IInv, Entries, EntryIsOpen, Neighbors, At, FiledAs
<1>10. Logs'
  BY <1>1 DEF IInv, Logs, HandledOnce, history
<1>11. Boxes'
  BY <1>1, <1>7, LegalSame DEF IInv, Boxes, history
<1>. QED  BY <1>8, <1>9, <1>10, <1>11 DEF IInv

\* A socket that is not taken leaves everything as it was.
LEMMA RefuseIInv ==
    ASSUME IInv, NEW s \in dialling, Refuse(s)
    PROVE  IInv'
<1>1. /\ dialling' \subseteq dialling
      /\ UNCHANGED <<inbox, opening, connections, neighbors, seen, sends, dials, history>>
  BY DEF Refuse
<1>2. Ends' = Ends
  BY <1>1 DEF Ends
<1>3. Sockets'
  BY <1>1, <1>2 DEF IInv, Sockets, Numbered, Out, In
<1>4. (Entries /\ Neighbors)'
  BY <1>1, <1>2 DEF IInv, Entries, EntryIsOpen, Neighbors, At, FiledAs
<1>5. Logs'
  BY <1>1 DEF IInv, Logs, HandledOnce, history
<1>6. Boxes'
  BY <1>1, <1>2, LegalSame DEF IInv, Boxes, history
<1>. QED  BY <1>3, <1>4, <1>5, <1>6 DEF IInv

\* A handshake can be put into any box.
LEMMA FiledBoxes ==
    ASSUME Boxes, NEW e, NEW open, HandleNewSocket(e, open),
           UNCHANGED <<sends, seen, log>>,
           \A x \in DOMAIN open : open[x] \in Seq(Legal)
    PROVE  Ends' = DOMAIN open /\ Boxes'
<1> DEFINE L == [x \in DOMAIN open |-> Legal]
<1>1. inbox' = [open EXCEPT ![Other(e)] = Append(open[Other(e)], Handshake)]
  BY DEF HandleNewSocket
<1>2. Ends' = DOMAIN open
  BY <1>1 DEF Ends
<1>3. ASSUME NEW x \in DOMAIN open PROVE inbox'[x] \in Seq(Legal')
  <2>1. CASE x = Other(e)
    <3>1. inbox'[x] = Append(open[x], Handshake)
      BY <1>1, <2>1
    <3>2. Append(open[x], Handshake) \in Seq(Legal)
      BY HandshakeLegal, AppendProperties
    <3>. QED  BY <3>1, <3>2, LegalSame
  <2>2. CASE x # Other(e)
    BY <1>1, <2>2, LegalSame
  <2>. QED  BY <2>1, <2>2
<1>. QED  BY <1>2, <1>3 DEF Boxes

\* A socket that is filed is open, and the entries of the others stay.
LEMMA FiledEntries ==
    ASSUME Entries, NEW e \in End, NEW open, HandleNewSocket(e, open),
           Ends \ opening \subseteq (Ends \ opening)', e \in (Ends \ opening)'
    PROVE  Entries'
<1>1. connections' = [connections EXCEPT ![At(e)] = Put(connections[At(e)], FiledAs(e), e)]
  BY DEF HandleNewSocket
<1>2. ASSUME NEW n \in Node, NEW k \in DOMAIN connections'[n]
      PROVE  connections'[n][k] \in (Ends \ opening)' /\ At(connections'[n][k]) = n
             /\ FiledAs(connections'[n][k]) = k
  <2>1. CASE n = At(e) /\ k = FiledAs(e)
    <3>1. connections'[n][k] = e
      BY <1>1, <2>1 DEF Entries, Put
    <3>. QED  BY <2>1, <3>1
  <2>2. CASE n # At(e) \/ k # FiledAs(e)
    <3>1. k \in DOMAIN connections[n] /\ connections'[n][k] = connections[n][k]
      BY <1>1, <2>2 DEF Entries, Put
    <3>. QED  BY <3>1 DEF Entries, EntryIsOpen
  <2>. QED  BY <2>1, <2>2
<1>3. DOMAIN connections' = Node
  BY <1>1 DEF Entries
<1>. QED  BY <1>2, <1>3 DEF Entries, EntryIsOpen, At, FiledAs

\* Neighbours stay connected as long as no socket is closed.
LEMMA NeighborsStay ==
    ASSUME Neighbors, UNCHANGED neighbors, Ends \ opening \subseteq (Ends \ opening)'
    PROVE  Neighbors'
BY DEF Neighbors, At, FiledAs

\* The server's end is filed when it is made.
LEMMA AcceptIInv ==
    ASSUME IInv, NEW i, NEW n, NEW p, Accept(i, n, p)
    PROVE  IInv'
<1> DEFINE new == {Out(i, n, p), In(i, n, p)}
           open == [e \in Ends \cup new |-> IF e \in new THEN <<>> ELSE inbox[e]]
<1>1. /\ <<i, n, p>> \in dialling
      /\ dialling' = dialling \ {<<i, n, p>>}
      /\ opening' = opening \cup {Out(i, n, p)}
      /\ HandleNewSocket(In(i, n, p), open)
      /\ UNCHANGED <<neighbors, seen, dials, sends, log>>
  BY DEF Accept, history
<1>2. <<i, n, p>> \in Nat \X Node \X Node /\ Numbered(i, n, p) /\ new \cap Ends = {}
  BY <1>1 DEF IInv, Sockets
<1>3. In(i, n, p) \in End /\ Out(i, n, p) \in End /\ In(i, n, p) # Out(i, n, p)
  BY <1>2 DEF In, Out, End
<1>4. \A x \in DOMAIN open : open[x] \in Seq(Legal)
  BY EmptySeq DEF IInv, Boxes
<1>5. Ends' = Ends \cup new /\ Boxes'
  <2>1. DOMAIN open = Ends \cup new
    OBVIOUS
  <2> HIDE DEF open
  <2>. QED  BY <1>1, <1>4, <2>1, FiledBoxes DEF IInv
<1>6. Ends \ opening \subseteq (Ends \ opening)' /\ In(i, n, p) \in (Ends \ opening)'
  BY <1>1, <1>2, <1>3, <1>5 DEF IInv, Sockets
<1>7. Entries'
  BY <1>1, <1>3, <1>6, FiledEntries DEF IInv
<1>8. Neighbors'
  BY <1>1, <1>6, NeighborsStay DEF IInv
<1>9. Sockets'
  <2>1. \A x, y, z : Numbered(x, y, z)' = Numbered(x, y, z)
    BY <1>1 DEF Numbered
  <2>2. ASSUME NEW e \in Ends' PROVE e \in End /\ (e[1] = 0 \/ Numbered(e[1], e[2], e[3]))
    BY <1>2, <1>3, <1>5 DEF IInv, Sockets, Out, In
  <2>3. ASSUME NEW t \in dialling'
        PROVE  Out(t[1], t[2], t[3]) \notin new /\ In(t[1], t[2], t[3]) \notin new
    <3>1. t # <<i, n, p>> /\ t \in Nat \X Node \X Node
      BY <1>1 DEF IInv, Sockets
    <3>2. t[1] # i \/ t[2] # n \/ t[3] # p
      BY <3>1
    <3>. QED  BY <3>2 DEF Out, In
  <2>4. opening' \subseteq Ends'
    BY <1>1, <1>5 DEF IInv, Sockets
  <2>. QED  BY <1>1, <1>5, <2>1, <2>2, <2>3, <2>4 DEF IInv, Sockets, Out, In
<1>10. Logs'
  BY <1>1 DEF IInv, Logs, HandledOnce
<1>. QED  BY <1>5, <1>7, <1>8, <1>9, <1>10 DEF IInv

\* The dialler's end is filed at its open event.
LEMMA OpenIInv ==
    ASSUME IInv, NEW e \in Ends, Open(e)
    PROVE  IInv'
<1>1. /\ e \in opening /\ opening' = opening \ {e}
      /\ HandleNewSocket(e, inbox)
      /\ UNCHANGED <<dialling, neighbors, seen, dials, sends, log>>
  BY DEF Open, history
<1>2. Ends' = Ends /\ Boxes'
  BY <1>1, FiledBoxes DEF IInv, Boxes, Ends
<1>3. Entries'
  BY <1>1, <1>2, FiledEntries DEF IInv, Sockets
<1>4. Neighbors'
  BY <1>1, <1>2, NeighborsStay DEF IInv
<1>5. Sockets'
  BY <1>1, <1>2 DEF IInv, Sockets, Numbered, Out, In
<1>6. Logs'
  BY <1>1 DEF IInv, Logs, HandledOnce
<1>. QED  BY <1>2, <1>3, <1>4, <1>5, <1>6 DEF IInv

\* The entry that a close event takes away is that of the end, or of another one of
\* the same id; the entries of other ids are of other ends.
LEMMA CloseEventIInv ==
    ASSUME IInv, NEW e \in Ends, CloseEvent(e)
    PROVE  IInv'
<1> DEFINE a == At(e)
           k == FiledAs(e)
<1>1. /\ inbox' = [x \in Ends \ {e} |-> inbox[x]]
      /\ connections' = [connections EXCEPT
            ![a] = [x \in DOMAIN connections[a] \ {k} |-> connections[a][x]]]
      /\ neighbors' = [neighbors EXCEPT ![a] = neighbors[a] \ {k}]
      /\ e \notin opening
      /\ UNCHANGED <<dialling, opening, seen, dials, sends, log>>
  <2>1. /\ Restrict(inbox, Ends \ {e}) = [x \in Ends \ {e} |-> inbox[x]]
        /\ Restrict(connections[a], DOMAIN connections[a] \ {k}) =
              [x \in DOMAIN connections[a] \ {k} |-> connections[a][x]]
    BY DEF Restrict
  <2>. QED  BY <2>1 DEF CloseEvent
<1>2. Ends' = Ends \ {e}
  BY <1>1 DEF Ends
<1>3. Sockets'
  BY <1>1, <1>2 DEF IInv, Sockets, Numbered, Out, In
<1>4. Entries'
  <2>1. ASSUME NEW n \in Node, NEW x \in DOMAIN connections'[n]
        PROVE  connections'[n][x] \in (Ends \ opening)' /\ At(connections'[n][x]) = n
               /\ FiledAs(connections'[n][x]) = x
    <3>1. /\ x \in DOMAIN connections[n] /\ connections'[n][x] = connections[n][x]
          /\ n = a => x # k
      BY <1>1 DEF IInv, Entries
    <3>. QED  BY <1>1, <1>2, <3>1 DEF IInv, Entries, EntryIsOpen
  <2>. QED  BY <1>1, <2>1 DEF IInv, Entries, EntryIsOpen, At, FiledAs
<1>5. Neighbors'
  <2>1. ASSUME NEW n \in Node, NEW x \in neighbors'[n]
        PROVE  \E y \in (Ends \ opening)' : At(y) = n /\ FiledAs(y) = x
    <3>1. x \in neighbors[n] /\ (n = a => x # k)
      BY <1>1 DEF IInv, Neighbors
    <3>2. PICK y \in Ends \ opening : At(y) = n /\ FiledAs(y) = x
      BY <3>1 DEF IInv, Neighbors
    <3>. QED  BY <1>1, <1>2, <3>1, <3>2
  <2>2. neighbors' \in [Node -> SUBSET Node]
    BY <1>1 DEF IInv, Neighbors
  <2>. QED  BY <2>1, <2>2 DEF Neighbors, At, FiledAs
<1>6. Logs'
  BY <1>1 DEF IInv, Logs, HandledOnce
<1>7. Boxes'
  BY <1>1, <1>2, LegalSame DEF IInv, Boxes
<1>. QED  BY <1>3, <1>4, <1>5, <1>6, <1>7 DEF IInv

-----------------------------------------------------------------------------
(* Messages *)

\* A broadcast that is new to a node is logged.
LEMMA LogGrows ==
    ASSUME Logs, NEW n \in Node, NEW b \in Nat, \A i \in DOMAIN log[n] : log[n][i] # b,
           log' = [q \in Node |-> log'[q]], log'[n] = Append(log[n], b),
           \A q \in Node \ {n} : log'[q] = log[q],
           seen' \in [Node -> SUBSET Nat],
           sends' \in Nat, sends <= sends', b < sends'
    PROVE  /\ Logs'
           /\ \A q \in Node : \A i \in DOMAIN log'[q] :
                 \/ i \in DOMAIN log[q] /\ log'[q][i] = log[q][i]
                 \/ q = n /\ log'[q][i] = b
<1> DEFINE s == log[n]
<1>1. /\ s \in Seq(Nat) /\ Len(s) \in Nat /\ DOMAIN s = 1 .. Len(s)
      /\ \A i \in DOMAIN s : s[i] < sends
      /\ \A i, j \in DOMAIN s : s[i] = s[j] => i = j
  BY LenProperties DEF Logs, HandledOnce, IsInjective
<1>2. /\ Append(s, b) \in Seq(Nat) /\ DOMAIN Append(s, b) = 1 .. Len(s) + 1
      /\ \A i \in 1 .. Len(s) : Append(s, b)[i] = s[i]
      /\ Append(s, b)[Len(s) + 1] = b
  BY <1>1, AppendProperties, LenProperties
<1>3. log'[n] = Append(s, b) /\ log' \in [Node -> Seq(Nat)]
      /\ \A q \in Node \ {n} : log'[q] = log[q]
  <2>1. log'[n] = Append(s, b) /\ \A q \in Node \ {n} : log'[q] = log[q]
    OBVIOUS
  <2>2. \A q \in Node : log'[q] \in Seq(Nat)
    BY <1>2, <2>1 DEF Logs
  <2>. QED  BY <2>1, <2>2
<1>4. \A i \in DOMAIN log'[n] : \/ i \in DOMAIN s /\ log'[n][i] = s[i]
                                \/ i = Len(s) + 1 /\ log'[n][i] = b
  BY <1>1, <1>2, <1>3
<1> HIDE DEF s
<1>5. IsInjective(log'[n])
  BY <1>1, <1>4 DEF IsInjective, s
<1>6. HandledOnce'
  BY <1>3, <1>5 DEF Logs, HandledOnce, IsInjective
<1>7. \A i \in DOMAIN log'[n] : log'[n][i] < sends'
  <2>1. ASSUME NEW i \in DOMAIN log'[n] PROVE log'[n][i] < sends'
    <3>1. CASE i \in DOMAIN s /\ log'[n][i] = s[i]
      <4>1. s[i] \in Nat
        BY <1>1, <3>1, ElementOfSeq
      <4>. QED  BY <1>1, <3>1, <4>1 DEF Logs
    <3>. QED  BY <1>4, <3>1
  <2>. QED  BY <2>1
<1>8. \A q \in Node \ {n} : \A i \in DOMAIN log'[q] : log'[q][i] < sends'
  <2>1. ASSUME NEW q \in Node \ {n}, NEW i \in DOMAIN log[q] PROVE log[q][i] < sends'
    <3>1. log[q][i] \in Nat /\ log[q][i] < sends /\ sends \in Nat
      BY ElementOfSeq, LenProperties DEF Logs
    <3>. QED  BY <3>1
  <2>. QED  BY <1>3, <2>1
<1>. QED  BY <1>3, <1>4, <1>6, <1>7, <1>8 DEF Logs, s

\* What a message leaves alone.
LEMMA MapsStay ==
    ASSUME IInv, Ends' = Ends,
           UNCHANGED <<dialling, opening, connections, neighbors, dials>>
    PROVE  (Sockets /\ Entries /\ Neighbors)'
<1>1. Sockets'
  BY DEF IInv, Sockets, Numbered, Out, In
<1>2. (Entries /\ Neighbors)'
  BY DEF IInv, Entries, EntryIsOpen, Neighbors, At, FiledAs
<1>. QED  BY <1>1, <1>2

\* A broadcast is marked by its sender before it goes out.
LEMMA SendBroadcastIInv ==
    ASSUME IInv, NEW n \in Node, SendBroadcast(n)
    PROVE  IInv'
<1> DEFINE m == Broadcast(sends)
<1>1. /\ sends' = sends + 1
      /\ inbox' = Sent(inbox, Targets(n), m)
      /\ seen' = IF Targets(n) = {} THEN seen ELSE [seen EXCEPT ![n] = @ \cup {sends}]
      /\ log' = [log EXCEPT ![n] = Append(@, sends)]
      /\ UNCHANGED <<dialling, opening, connections, neighbors, dials>>
  BY DEF SendBroadcast
<1>2. /\ sends \in Nat /\ sends' \in Nat /\ sends <= sends' /\ sends < sends'
      /\ \A q \in Node : \A i \in DOMAIN log[q] : log[q][i] < sends /\ log[q][i] # sends
  <2>1. ASSUME NEW q \in Node, NEW i \in DOMAIN log[q]
        PROVE  log[q][i] < sends /\ log[q][i] # sends
    <3>1. log[q][i] \in Nat /\ log[q][i] < sends /\ sends \in Nat
      BY ElementOfSeq, LenProperties DEF IInv, Logs
    <3>. QED  BY <3>1
  <2>2. sends \in Nat
    BY DEF IInv, Logs
  <2>. QED  BY <1>1, <2>1, <2>2
<1>3. /\ seen' \in [Node -> SUBSET Nat]
      /\ \A q \in Node : seen[q] \subseteq seen'[q]
      /\ Targets(n) # {} => sends \in seen'[n]
  BY <1>1, <1>2 DEF IInv, Logs
<1>4. /\ Logs'
      /\ \A q \in Node : \A i \in DOMAIN log'[q] :
            \/ i \in DOMAIN log[q] /\ log'[q][i] = log[q][i]
            \/ q = n /\ log'[q][i] = sends
  <2>1. Logs /\ \A i \in DOMAIN log[n] : log[n][i] # sends
    BY <1>2 DEF IInv
  <2>2. /\ log' = [q \in Node |-> log'[q]] /\ log'[n] = Append(log[n], sends)
        /\ \A q \in Node \ {n} : log'[q] = log[q]
    BY <1>1 DEF IInv, Logs
  <2>. QED  BY <1>2, <1>3, <2>1, <2>2, LogGrows
<1>5. Legal \subseteq Legal'
  BY <1>2, <1>3, <1>4, LegalStays
<1>6. PICK c : c = m
  OBVIOUS
<1>7. ASSUME Targets(n) # {} PROVE c \in Legal'
  <2>1. c \in Messages /\ c.type = "broadcast" /\ c.id = sends
    BY <1>2, <1>6 DEF Messages, Broadcast
  <2>2. \A q \in Node : \A i \in DOMAIN log'[q] : log'[q][i] = sends => sends \in seen'[q]
    BY <1>2, <1>3, <1>4, <1>7
  <2>. QED  BY <1>2, <2>1, <2>2 DEF Legal, IsLegal, Messages, Handshake
<1>8. Ends' = Ends /\ Boxes'
  <2>1. \A e \in DOMAIN inbox : inbox[e] \in Seq(Legal')
    BY <1>5, SeqMonotonic DEF IInv, Boxes, Ends
  <2>2. inbox' = Sent(inbox, Targets(n), c)
    BY <1>1, <1>6
  <2>3. CASE Targets(n) = {}
    <3>1. DOMAIN inbox' = Ends /\ \A e \in Ends : inbox'[e] = inbox[e]
      BY <2>2, <2>3 DEF Sent, Ends
    <3>. QED  BY <2>1, <3>1 DEF Boxes, Ends
  <2>4. CASE Targets(n) # {}
    <3> DEFINE L == Legal'
    <3>1. (\A e \in DOMAIN inbox : inbox[e] \in Seq(L)) /\ c \in L
      BY <1>7, <2>1, <2>4
    <3> HIDE DEF L
    <3>2. DOMAIN inbox' = DOMAIN inbox /\ \A e \in DOMAIN inbox : inbox'[e] \in Seq(L)
      BY <2>2, <3>1, SentKeeps
    <3>. QED  BY <3>2 DEF L, Boxes, Ends
  <2>. QED  BY <2>3, <2>4
<1>9. (Sockets /\ Entries /\ Neighbors)'
  BY <1>1, <1>8, MapsStay
<1>. QED  BY <1>4, <1>8, <1>9 DEF IInv

\* The message that an event reads is one that may be there, and so is the rest.
LEMMA Taken ==
    ASSUME IInv, NEW e \in Ends, inbox[e] # <<>>
    PROVE  /\ Head(inbox[e]) \in Legal
           /\ DOMAIN Rest(e) = Ends
           /\ \A x \in Ends : Rest(e)[x] \in Seq(Legal)
<1>1. inbox[e] \in Seq(Legal)
  BY DEF IInv, Boxes
<1>2. Head(inbox[e]) \in Legal /\ Tail(inbox[e]) \in Seq(Legal)
  BY <1>1, HeadTailProperties
<1>3. DOMAIN Rest(e) = Ends /\ Rest(e)[e] = Tail(inbox[e])
      /\ \A x \in Ends \ {e} : Rest(e)[x] = inbox[x]
  BY DEF Rest, Ends
<1>. QED  BY <1>2, <1>3 DEF IInv, Boxes

\* A handshake makes a neighbour of an id that has an open end.
LEMMA ReceiveHandshakeIInv ==
    ASSUME IInv, NEW e \in Ends, ReceiveHandshake(e)
    PROVE  IInv'
<1>1. /\ e \notin opening /\ inbox[e] # <<>>
      /\ inbox' = Rest(e)
      /\ neighbors' = [neighbors EXCEPT ![At(e)] = @ \cup {FiledAs(e)}]
      /\ UNCHANGED <<dialling, opening, connections, seen, dials, sends, log>>
  BY DEF ReceiveHandshake, Take
<1>2. Ends' = Ends /\ Boxes'
  BY <1>1, Taken, LegalSame DEF Ends, Boxes
<1>3. Sockets' /\ Entries'
  BY <1>1, <1>2 DEF IInv, Sockets, Numbered, Out, In, Entries, EntryIsOpen, At, FiledAs
<1>4. At(e) \in Node /\ FiledAs(e) \in Node
  BY OtherEnd DEF IInv, Sockets
<1>5. Neighbors'
  <2>1. neighbors' \in [Node -> SUBSET Node]
    BY <1>1, <1>4 DEF IInv, Neighbors
  <2>2. ASSUME NEW n \in Node, NEW k \in neighbors'[n]
        PROVE  \E x \in Ends \ opening : At(x) = n /\ FiledAs(x) = k
    <3>1. CASE k \in neighbors[n]
      BY <3>1 DEF IInv, Neighbors
    <3>2. CASE k \notin neighbors[n]
      BY <1>1, <1>4, <3>2 DEF IInv, Neighbors
    <3>. QED  BY <3>1, <3>2
  <2>. QED  BY <1>1, <1>2, <2>1, <2>2 DEF Neighbors, At, FiledAs
<1>6. Logs'
  BY <1>1 DEF IInv, Logs, HandledOnce
<1>. QED  BY <1>2, <1>3, <1>5, <1>6 DEF IInv

\* A broadcast that is not marked is not in the log: it is legal where it arrives.
LEMMA ReceiveBroadcastIInv ==
    ASSUME IInv, NEW e \in Ends, ReceiveBroadcast(e)
    PROVE  IInv'
<1> DEFINE n == At(e)
<1>1. PICK m : m = Head(inbox[e])
  OBVIOUS
<1>2. /\ e \notin opening /\ inbox[e] # <<>> /\ m.type = "broadcast"
      /\ UNCHANGED <<dialling, opening, connections, neighbors, dials, sends>>
  BY <1>1 DEF ReceiveBroadcast, Take
<1>3. n \in Node
  BY OtherEnd DEF IInv, Sockets
<1>4. m \in Messages /\ IsLegal(m)
      /\ DOMAIN Rest(e) = Ends /\ \A x \in Ends : Rest(e)[x] \in Seq(Legal)
  BY <1>1, <1>2, Taken DEF Legal
<1>5. CASE m.id \in seen[n]
  <2>1. inbox' = Rest(e) /\ UNCHANGED <<seen, log>>
    BY <1>1, <1>5 DEF ReceiveBroadcast
  <2>2. Ends' = Ends /\ Boxes'
    BY <1>2, <1>4, <2>1, LegalSame DEF Ends, Boxes
  <2>3. (Sockets /\ Entries /\ Neighbors)'
    BY <1>2, <2>2, MapsStay
  <2>4. Logs'
    BY <1>2, <2>1 DEF IInv, Logs, HandledOnce
  <2>. QED  BY <2>2, <2>3, <2>4 DEF IInv
<1>6. CASE m.id \notin seen[n]
  <2>1. /\ inbox' = Sent(Rest(e), Targets(n), m)
        /\ seen' = [seen EXCEPT ![n] = @ \cup {m.id}]
        /\ log' = [log EXCEPT ![n] = Append(@, m.id)]
    BY <1>1, <1>6 DEF ReceiveBroadcast
  <2>2. /\ m.id \in Nat /\ m.id < sends
        /\ \A q \in Node : \A i \in DOMAIN log[q] : log[q][i] = m.id => m.id \in seen[q]
    BY <1>2, <1>4 DEF IsLegal
  <2>3. sends \in Nat /\ sends' \in Nat /\ sends <= sends' /\ m.id < sends'
    BY <1>2, <2>2 DEF IInv, Logs
  <2>4. /\ seen' \in [Node -> SUBSET Nat] /\ m.id \in seen'[n]
        /\ \A q \in Node : seen[q] \subseteq seen'[q]
    BY <1>3, <2>1, <2>2 DEF IInv, Logs
  <2>5. /\ Logs'
        /\ \A q \in Node : \A i \in DOMAIN log'[q] :
              \/ i \in DOMAIN log[q] /\ log'[q][i] = log[q][i]
              \/ q = n /\ log'[q][i] = m.id
    <3>1. \A i \in DOMAIN log[n] : log[n][i] # m.id
      BY <1>3, <1>6, <2>2
    <3>2. Logs
      BY DEF IInv
    <3>3. /\ log' = [q \in Node |-> log'[q]] /\ log'[n] = Append(log[n], m.id)
          /\ \A q \in Node \ {n} : log'[q] = log[q]
      BY <1>3, <2>1 DEF IInv, Logs
    <3> HIDE DEF n
    <3>. QED  BY <1>3, <2>2, <2>3, <2>4, <3>1, <3>2, <3>3, LogGrows
  <2>6. Legal \subseteq Legal'
    BY <2>3, <2>4, <2>5, LegalStays
  <2>7. m \in Legal'
    <3>1. \A q \in Node : \A i \in DOMAIN log'[q] : log'[q][i] = m.id => m.id \in seen'[q]
      BY <2>2, <2>4, <2>5
    <3>. QED  BY <1>2, <1>4, <2>2, <2>3, <3>1 DEF Legal, IsLegal, Messages, Handshake
  <2>8. Ends' = Ends /\ Boxes'
    <3> DEFINE L == Legal'
    <3>1. (\A x \in DOMAIN Rest(e) : Rest(e)[x] \in Seq(L)) /\ m \in L
      BY <1>4, <2>6, <2>7, SeqMonotonic
    <3> HIDE DEF L
    <3>2. DOMAIN inbox' = DOMAIN Rest(e)
          /\ \A x \in DOMAIN Rest(e) : inbox'[x] \in Seq(L)
      BY <2>1, <3>1, SentKeeps
    <3>. QED  BY <1>4, <3>2 DEF L, Boxes, Ends
  <2>9. (Sockets /\ Entries /\ Neighbors)'
    BY <1>2, <2>8, MapsStay
  <2>. QED  BY <2>5, <2>8, <2>9 DEF IInv
<1>. QED  BY <1>5, <1>6

-----------------------------------------------------------------------------
(* Stops and restarts *)

\* A stop clears the Maps and leaves the sockets.
LEMMA StopIInv ==
    ASSUME IInv, NEW n \in Node, Stop(n)
    PROVE  IInv'
<1>1. /\ connections' = [connections EXCEPT ![n] = [k \in {} |-> Own(n)]]
      /\ neighbors' = [neighbors EXCEPT ![n] = {}]
      /\ UNCHANGED <<dialling, inbox, opening, seen, dials, sends, log>>
  BY DEF Stop, history
<1>2. Ends' = Ends
  BY <1>1 DEF Ends
<1>3. Sockets'
  BY <1>1, <1>2 DEF IInv, Sockets, Numbered, Out, In
<1>4. Entries'
  BY <1>1, <1>2 DEF IInv, Entries, EntryIsOpen, At, FiledAs
<1>5. Neighbors'
  BY <1>1, <1>2 DEF IInv, Neighbors, At, FiledAs
<1>6. Logs'
  BY <1>1 DEF IInv, Logs, HandledOnce
<1>7. Boxes'
  BY <1>1, <1>2, LegalSame DEF IInv, Boxes
<1>. QED  BY <1>3, <1>4, <1>5, <1>6, <1>7 DEF IInv

\* What other nodes have filed, or have a neighbour by, has been opened and is at
\* their own end: the restart does not take it.
LEMMA RestartIInv ==
    ASSUME IInv, NEW n \in Node, Restart(n)
    PROVE  IInv'
<1> DEFINE gone == {e \in Ends : At(e) = n \/ (e \in opening /\ Far(e) = n)}
           own == {Own(n), Other(Own(n))}
<1>1. /\ dialling' \subseteq dialling
      /\ inbox' = [e \in (Ends \ gone) \cup own |-> IF e \in own THEN <<>> ELSE inbox[e]]
      /\ opening' = opening \ gone
      /\ connections' = [connections EXCEPT ![n] = [k \in {n} |-> Own(n)]]
      /\ neighbors' = [neighbors EXCEPT ![n] = {n}]
      /\ seen' = [seen EXCEPT ![n] = {}]
      /\ log' = [log EXCEPT ![n] = <<>>]
      /\ UNCHANGED <<dials, sends>>
  BY DEF Restart
<1>2. /\ own \subseteq End /\ \A e \in own : e[1] = 0 /\ At(e) = n /\ FiledAs(e) = n
      /\ \A e \in own : e[2] = n /\ e[3] = n
  BY DEF Own, Out, Other, End, At, FiledAs
<1>3. Ends' = (Ends \ gone) \cup own
  BY <1>1 DEF Ends
<1>4. /\ opening' \subseteq Ends' /\ Own(n) \in (Ends \ opening)'
      /\ \A e \in Ends \ opening : At(e) # n => e \in (Ends \ opening)'
  BY <1>1, <1>2, <1>3 DEF IInv, Sockets
<1>5. Sockets'
  <2>1. \A x, y, z : Numbered(x, y, z)' = Numbered(x, y, z)
    BY <1>1 DEF Numbered
  <2>2. \A e \in Ends' : e \in End /\ (e[1] = 0 \/ Numbered(e[1], e[2], e[3]))
    BY <1>2, <1>3 DEF IInv, Sockets
  <2>3. ASSUME NEW t \in dialling
        PROVE  Out(t[1], t[2], t[3]) \notin Ends' /\ In(t[1], t[2], t[3]) \notin Ends'
    <3>1. Numbered(t[1], t[2], t[3]) /\ t[1] # 0
      BY DEF IInv, Sockets, Numbered
    <3>2. Out(t[1], t[2], t[3]) \notin own /\ In(t[1], t[2], t[3]) \notin own
      BY <1>2, <3>1 DEF Out, In
    <3>. QED  BY <1>3, <3>2 DEF IInv, Sockets
  <2>. QED  BY <1>1, <1>4, <2>1, <2>2, <2>3 DEF IInv, Sockets, Out, In
<1>6. Entries'
  <2>1. ASSUME NEW q \in Node, NEW k \in DOMAIN connections'[q]
        PROVE  connections'[q][k] \in (Ends \ opening)' /\ At(connections'[q][k]) = q
               /\ FiledAs(connections'[q][k]) = k
    <3>1. CASE q = n
      BY <1>1, <1>2, <1>4, <3>1 DEF IInv, Entries
    <3>2. CASE q # n
      BY <1>1, <1>4, <3>2 DEF IInv, Entries, EntryIsOpen
    <3>. QED  BY <3>1, <3>2
  <2>. QED  BY <1>1, <2>1 DEF IInv, Entries, EntryIsOpen, At, FiledAs
<1>7. Neighbors'
  <2>1. neighbors' \in [Node -> SUBSET Node]
    BY <1>1 DEF IInv, Neighbors
  <2>2. ASSUME NEW q \in Node, NEW k \in neighbors'[q]
        PROVE  \E x \in (Ends \ opening)' : At(x) = q /\ FiledAs(x) = k
    <3>1. CASE q = n
      BY <1>1, <1>2, <1>4, <3>1 DEF IInv, Neighbors
    <3>2. CASE q # n
      BY <1>1, <1>4, <3>2 DEF IInv, Neighbors
    <3>. QED  BY <3>1, <3>2
  <2>. QED  BY <2>1, <2>2 DEF Neighbors, At, FiledAs
<1>8. Logs'
  BY <1>1 DEF IInv, Logs, HandledOnce, IsInjective
<1>9. Boxes'
  <2>1. \A q \in Node : \A i \in DOMAIN log'[q] :
           i \in DOMAIN log[q] /\ log'[q][i] = log[q][i] /\ seen[q] \subseteq seen'[q]
    BY <1>1 DEF IInv, Logs
  <2>2. sends \in Nat /\ sends' \in Nat /\ sends <= sends'
    BY <1>1 DEF IInv, Logs
  <2>3. \A q \in Node : \A i \in DOMAIN log'[q] :
           \/ i \in DOMAIN log[q] /\ log'[q][i] = log[q][i] /\ seen[q] \subseteq seen'[q]
           \/ log'[q][i] \in seen'[q] \/ log'[q][i] = sends
    BY <2>1
  <2>4. ASSUME NEW e PROVE Legal \subseteq Legal'
    BY ONLY <2>2, <2>3, LegalStays
  <2>5. ASSUME NEW e \in Ends' PROVE inbox'[e] \in Seq(Legal')
    <3>1. CASE e \in own
      BY <1>1, <3>1, EmptySeq
    <3>2. CASE e \notin own
      <4>1. e \in Ends /\ inbox'[e] = inbox[e] /\ inbox[e] \in Seq(Legal)
        BY <1>1, <1>3, <3>2 DEF IInv, Boxes
      <4>. QED  BY <4>1, <2>4, SeqMonotonic
    <3>. QED  BY <3>1, <3>2
  <2>. QED  BY <2>5 DEF Boxes
<1>. QED  BY <1>5, <1>6, <1>7, <1>8, <1>9 DEF IInv

-----------------------------------------------------------------------------

\* Every step keeps the invariant.
LEMMA NextIInv == IInv /\ [Next]_vars => IInv'
<1> SUFFICES ASSUME IInv, [Next]_vars PROVE IInv'
  OBVIOUS
<1>1. ASSUME NEW n \in Node, NEW p \in Node, Dial(n, p) PROVE IInv'
  BY <1>1, DialIInv
<1>2. ASSUME NEW s \in dialling, Refuse(s) \/ Accept(s[1], s[2], s[3]) PROVE IInv'
  BY <1>2, RefuseIInv, AcceptIInv
<1>3. ASSUME NEW e \in Ends, Open(e) \/ Receive(e) \/ CloseEvent(e) PROVE IInv'
  BY <1>3, OpenIInv, CloseEventIInv, ReceiveHandshakeIInv, ReceiveBroadcastIInv
     DEF Receive
<1>4. ASSUME NEW n \in Node, SendBroadcast(n) \/ Stop(n) \/ Restart(n) PROVE IInv'
  BY <1>4, SendBroadcastIInv, StopIInv, RestartIInv
<1>5. CASE UNCHANGED vars
  <2>1. UNCHANGED <<dialling, inbox, opening, connections, neighbors, seen, dials, sends,
                    log>>
    BY <1>5 DEF vars, code, history
  <2>2. Ends' = Ends
    BY <2>1 DEF Ends
  <2>3. (Sockets /\ Entries /\ Neighbors)'
    BY <2>1, <2>2, MapsStay
  <2>4. Logs'
    BY <2>1 DEF IInv, Logs, HandledOnce
  <2>5. Boxes'
    BY <2>1, <2>2, LegalSame DEF IInv, Boxes
  <2>. QED  BY <2>3, <2>4, <2>5 DEF IInv
<1>. QED  BY <1>1, <1>2, <1>3, <1>4, <1>5 DEF Next

\* Every state of the transport satisfies it.
LEMMA InvariantHolds == Spec => []IInv
BY InitIInv, NextIInv, PTL DEF Spec

\* What is filed under an id is an open end of a socket of that id, for any number
\* of sockets of one id and any order of their open and close events
\* (handleNewSocket, the close listener).
THEOREM EntriesAreOpen == Spec => []EntryIsOpen
<1>1. IInv => EntryIsOpen
  BY DEF IInv, Entries
<1>. QED  BY <1>1, InvariantHolds, PTL

\* Nobody stays a neighbour without a socket (the handshake and the close listener).
THEOREM NeighborsAreConnected == Spec => []NeighborsHaveSockets
<1>1. IInv => NeighborsHaveSockets
  BY DEF IInv, Neighbors, NeighborsHaveSockets
<1>. QED  BY <1>1, InvariantHolds, PTL

\* A process sends or handles a broadcast at most once, whatever cycles the sockets
\* form (handleBroadcast).
THEOREM BroadcastsAreHandledOnce == Spec => []HandledOnce
<1>1. IInv => HandledOnce
  BY DEF IInv, Logs
<1>. QED  BY <1>1, InvariantHolds, PTL

(***************************************************************************)
(* Types of the Maps, the messages and the counters                        *)
(***************************************************************************)

\* What IInv leaves out: the counters within their bounds, and what is relative
\* to another variable.
Counts ==
    /\ dials \in [Lists -> 0 .. dialled] /\ dialled \in 0 .. MaxDials
    /\ sends \in 0 .. MaxSends /\ events \in 0 .. MaxEvents
    /\ seen \in [Node -> SUBSET (0 .. sends - 1)]
    /\ stopped \subseteq Unsteady

\* The counts hold at first.
LEMMA InitCounts == Init => Counts
BY WsAssumption DEF Init, Counts

\* A dial takes the next number of its pair.
LEMMA DialCounts ==
    ASSUME Counts, NEW n \in Node, NEW p \in Node, Dial(n, p)
    PROVE  Counts'
<1> DEFINE l == <<n, p>>
<1>1. /\ l \in Lists /\ dialled < MaxDials /\ dialled' = dialled + 1
      /\ dials' = [dials EXCEPT ![l] = dials[l] + 1]
      /\ UNCHANGED <<seen, stopped, sends, events>>
  BY DEF Dial
<1>2. dialled \in 0 .. MaxDials /\ dials \in [Lists -> 0 .. dialled] /\ MaxDials \in Nat
  BY WsAssumption DEF Counts
<1> HIDE DEF l
<1>3. dialled' \in 0 .. MaxDials /\ dials' \in [Lists -> 0 .. dialled']
  BY <1>1, <1>2
<1>. QED  BY <1>1, <1>3 DEF Counts

\* A broadcast that is on its way has been numbered.
LEMMA ReceiveCounts ==
    ASSUME IInv, Counts, NEW e \in Ends, Receive(e)
    PROVE  Counts'
<1>1. At(e) \in Node
  BY OtherEnd DEF IInv, Sockets
<1>2. CASE ReceiveHandshake(e)
  BY <1>2 DEF ReceiveHandshake, Counts
<1>3. CASE ReceiveBroadcast(e)
  <2>1. PICK m : m = Head(inbox[e])
    OBVIOUS
  <2>2. /\ e \notin opening /\ inbox[e] # <<>> /\ m.type = "broadcast"
        /\ seen' = seen \/ seen' = [seen EXCEPT ![At(e)] = @ \cup {m.id}]
        /\ UNCHANGED <<stopped, dials, dialled, sends, events>>
    BY <1>3, <2>1 DEF ReceiveBroadcast, Take
  <2>3. IsLegal(m)
    BY <2>1, <2>2, Taken DEF Legal
  <2>4. m.id \in 0 .. sends - 1
    BY <2>2, <2>3, WsAssumption DEF IsLegal, Counts
  <2>. QED  BY <1>1, <2>2, <2>4 DEF Counts
<1>. QED  BY <1>2, <1>3 DEF Receive

\* Every step keeps the counts.
LEMMA NextCounts == IInv /\ Counts /\ [Next]_vars => Counts'
<1> SUFFICES ASSUME IInv, Counts, [Next]_vars PROVE Counts'
  OBVIOUS
<1> USE WsAssumption
<1>1. ASSUME NEW n \in Node, NEW p \in Node, Dial(n, p) PROVE Counts'
  BY <1>1, DialCounts
<1>2. ASSUME NEW s \in dialling, Refuse(s) PROVE Counts'
  BY <1>2 DEF Refuse, Counts
<1>3. ASSUME NEW s \in dialling, Accept(s[1], s[2], s[3]) PROVE Counts'
  BY <1>3 DEF Accept, HandleNewSocket, Counts
<1>4. ASSUME NEW e \in Ends, Open(e) PROVE Counts'
  BY <1>4 DEF Open, HandleNewSocket, Counts
<1>5. ASSUME NEW e \in Ends, Receive(e) PROVE Counts'
  BY <1>5, ReceiveCounts
<1>6. ASSUME NEW e \in Ends, CloseEvent(e) PROVE Counts'
  BY <1>6 DEF CloseEvent, Counts
<1>7. ASSUME NEW n \in Node, SendBroadcast(n) PROVE Counts'
  BY <1>7 DEF SendBroadcast, Counts
<1>8. ASSUME NEW n \in Node, Stop(n) PROVE Counts'
  BY <1>8 DEF Stop, Counts
<1>9. ASSUME NEW n \in Node, Restart(n) PROVE Counts'
  BY <1>9 DEF Restart, Counts
<1>10. CASE UNCHANGED vars
  BY <1>10 DEF vars, code, Counts
<1>. QED  BY <1>1, <1>2, <1>3, <1>4, <1>5, <1>6, <1>7, <1>8, <1>9, <1>10 DEF Next

\* What has shaken hands, or been cut off, is an open end.
Links == linked \cup cut \subseteq Ends \ opening

\* Every step keeps the links: what they lose are the ends that close or restart.
LEMMA NextLinks == IInv /\ Links /\ [Next]_vars => Links'
<1> SUFFICES ASSUME IInv, Links, [Next]_vars PROVE Links'
  OBVIOUS
<1>1. ASSUME NEW n \in Node, NEW p \in Node, Dial(n, p) PROVE Links'
  BY <1>1 DEF Dial, history, Links, Ends
<1>2. ASSUME NEW s \in dialling, Refuse(s) PROVE Links'
  BY <1>2 DEF Refuse, history, Links, Ends
<1>3. ASSUME NEW s \in dialling, Accept(s[1], s[2], s[3]) PROVE Links'
  <2> DEFINE o == Out(s[1], s[2], s[3])
             new == {o, In(s[1], s[2], s[3])}
             open == [e \in Ends \cup new |-> IF e \in new THEN <<>> ELSE inbox[e]]
  <2>1. o \notin Ends
    BY DEF IInv, Sockets
  <2>2. /\ DOMAIN inbox' = DOMAIN open
        /\ opening' = opening \cup {o} /\ UNCHANGED <<linked, cut>>
    BY <1>3 DEF Accept, HandleNewSocket, history
  <2>3. Ends' = Ends \cup new
    BY <2>2 DEF Ends
  <2>. QED  BY <2>1, <2>2, <2>3 DEF Links
<1>4. ASSUME NEW e \in Ends, Open(e) PROVE Links'
  BY <1>4 DEF Open, HandleNewSocket, history, Links, Ends
<1>5. ASSUME NEW e \in Ends, ReceiveHandshake(e) PROVE Links'
  BY <1>5 DEF ReceiveHandshake, Take, Rest, Links, Ends
<1>6. ASSUME NEW e \in Ends, ReceiveBroadcast(e) PROVE Links'
  <2>1. DOMAIN inbox' = DOMAIN inbox
    BY <1>6 DEF ReceiveBroadcast, Sent, Rest
  <2>. QED  BY <1>6, <2>1 DEF ReceiveBroadcast, Links, Ends
<1>7. ASSUME NEW e \in Ends, CloseEvent(e) PROVE Links'
  <2>1. Ends' = Ends \ {e}
    BY <1>7 DEF CloseEvent, Restrict, Ends
  <2>. QED  BY <1>7, <2>1 DEF CloseEvent, Twins, Links
<1>8. ASSUME NEW n \in Node, SendBroadcast(n) PROVE Links'
  BY <1>8 DEF SendBroadcast, Sent, Links, Ends
<1>9. ASSUME NEW n \in Node, Stop(n) PROVE Links'
  BY <1>9 DEF Stop, history, Links, Ends
<1>10. ASSUME NEW n \in Node, Restart(n) PROVE Links'
  <2> DEFINE gone == {e \in Ends : At(e) = n \/ (e \in opening /\ Far(e) = n)}
  <2>1. /\ Ends \ gone \subseteq Ends' /\ opening' = opening \ gone
        /\ linked' = linked \ gone /\ cut' = cut \ gone
    BY <1>10 DEF Restart, Ends
  <2>. QED  BY <2>1 DEF Links
<1>11. CASE UNCHANGED vars
  BY <1>11 DEF vars, code, history, Links, Ends
<1>. QED  BY <1>1, <1>2, <1>3, <1>4, <1>5, <1>6, <1>7, <1>8, <1>9, <1>10, <1>11
          DEF Next, Receive

\* The types of the Maps and sockets come from both.
LEMMA TypesFollow == IInv /\ Counts /\ Links => TypeOK
<1> SUFFICES ASSUME IInv, Counts, Links PROVE TypeOK
  OBVIOUS
<1>1. \A s \in dialling : <<s[2], s[3]>> \in Lists /\ s[1] \in 1 .. dials[<<s[2], s[3]>>]
  BY DEF IInv, Sockets, Numbered
<1>2. ASSUME NEW e \in Ends
      PROVE  At(e) \in Node /\ Far(e) \in Node /\ inbox[e] \in Seq(Message)
  <2>1. e \in End
    BY DEF IInv, Sockets
  <2>2. Legal \subseteq Message
    BY WsAssumption DEF Legal, Messages, IsLegal, Message, Counts, Handshake
  <2>3. inbox[e] \in Seq(Message)
    BY <2>2, SeqMonotonic DEF IInv, Boxes
  <2>. QED  BY <2>1, <2>3, OtherEnd
<1>3. \A n \in Node : DOMAIN connections[n] \subseteq Node
  <2>. SUFFICES ASSUME NEW n \in Node, NEW k \in DOMAIN connections[n] PROVE k \in Node
    OBVIOUS
  <2>1. connections[n][k] \in End /\ FiledAs(connections[n][k]) = k
    BY DEF IInv, Entries, EntryIsOpen, Sockets
  <2>. QED  BY <2>1, OtherEnd
<1>. QED  BY <1>1, <1>2, <1>3, WsAssumption
          DEF TypeOK, Counts, Links, IInv, Sockets, Neighbors

\* The Maps hold ends of sockets, messages are ones that the transport sends, and
\* what has been seen has been sent.
THEOREM SocketsAreTyped == Spec => []TypeOK
<1>1. Init => Counts /\ Links
  BY InitCounts DEF Init, Links
<1>2. IInv /\ (Counts /\ Links) /\ [Next]_vars => (Counts /\ Links)'
  BY NextCounts, NextLinks
<1>. QED  BY <1>1, <1>2, TypesFollow, InvariantHolds, PTL DEF Spec

(***************************************************************************)
(* UDP requests, for every set of calls and every bound on duplication.    *)
(* Datagrams and sockets share nothing, so this part speaks of UdpTransport *)
(* alone.                                                                  *)
(***************************************************************************)

\* An answer in the network, or a call that one resolved, was handled.
AnswersAreEarned ==
    \A c \in Call :
        /\ answers[c] > 0 => c \in handled
        /\ outcome[c] = "resolved" => c \in handled

\* Nothing is in the network, or called back, for a call that was not made.
UnsentIsQuiet ==
    \A c \in Call : requests[c] > 0 \/ c \in called => outcome[c] # "unsent"

\* While a call waits, every listener that its send callback registered is there.
ListenersKept ==
    \A c \in called : outcome[c] = "pending" => listening[c] = Events

UdpInv == UdpTypeOK /\ AnswersAreEarned /\ UnsentIsQuiet /\ ListenersKept

\* A call that has not been made has no listeners.
LEMMA InitUdpInv == UdpInit => UdpInv
BY DEF UdpInit, UdpInv, UdpTypeOK, AnswersAreEarned, UnsentIsQuiet, ListenersKept

\* Every step of a call keeps its invariant.
LEMMA NextUdpInv == UdpInv /\ [UdpNext]_udpVars => UdpInv'
<1> SUFFICES ASSUME UdpInv, [UdpNext]_udpVars PROVE UdpInv'
    OBVIOUS
<1> USE UdpAssumption DEF UdpInv, UdpTypeOK, AnswersAreEarned, UnsentIsQuiet,
            ListenersKept
<1>1. ASSUME NEW c \in Call, SendMessage(c) PROVE UdpInv'
    BY <1>1 DEF SendMessage
<1>2. ASSUME NEW c \in Call, SendCallback(c) PROVE UdpInv'
    <2>1. outcome' = outcome
        BY <1>2 DEF SendCallback, ResolvedAtOnce, Requests, Answered, Unanswered
    <2> QED BY <1>2, <2>1 DEF SendCallback
<1>3. ASSUME NEW c \in Call, HandleRequest(c) PROVE UdpInv'
    BY <1>3 DEF HandleRequest
<1>4. ASSUME NEW c \in Call, HandleAnswer(c) PROVE UdpInv'
    BY <1>4 DEF HandleAnswer, EventOf, Events
<1>5. ASSUME NEW c \in Call, Timeout(c) PROVE UdpInv'
    BY <1>5 DEF Timeout
<1>6. CASE UNCHANGED udpVars
    BY <1>6 DEF udpVars
<1> QED BY <1>1, <1>2, <1>3, <1>4, <1>5, <1>6 DEF UdpNext

\* Every state of the calls over datagrams satisfies the invariant.
LEMMA UdpInvariantHolds == UdpSpec => []UdpInv
BY InitUdpInv, NextUdpInv, PTL DEF UdpSpec

\* A resolved call was handled by the other node.
THEOREM ResolvedImpliesHandled == UdpSpec => []ResolvedMeansHandled
<1>1. UdpInv => ResolvedMeansHandled
    BY DEF UdpInv, AnswersAreEarned, ResolvedMeansHandled
<1> QED BY <1>1, UdpInvariantHolds, PTL

\* An answer that is read while its call waits resolves it, if the send callback has
\* run: only an answer that is read before udpMessageResolver has registered its
\* listeners is lost at the caller, for any number of copies of anything.
THEOREM AnswersResolve == UdpSpec => OnlyEarlyAnswersAreLost
<1> DEFINE A == \A c \in Call :
                   (/\ type[c] \in Answered /\ answers'[c] < answers[c]
                    /\ outcome[c] = "pending" /\ c \in called)
                      => outcome'[c] = "resolved"
<1>1. UdpInv /\ [UdpNext]_udpVars => [A]_udpVars
    <2> SUFFICES ASSUME UdpInv, UdpNext, NEW c \in Call, type[c] \in Answered,
                        answers'[c] < answers[c], outcome[c] = "pending", c \in called
                 PROVE  outcome'[c] = "resolved"
        OBVIOUS
    <2> USE DEF UdpInv, UdpTypeOK
    <2>1. PICK d \in Call : \/ SendMessage(d) \/ SendCallback(d) \/ HandleRequest(d)
                            \/ HandleAnswer(d) \/ Timeout(d)
        BY DEF UdpNext
    <2>2. HandleAnswer(d) /\ d = c
        <3>1. ~ (SendMessage(d) \/ SendCallback(d) \/ Timeout(d))
            BY DEF SendMessage, SendCallback, Timeout
        <3>2. ~ HandleRequest(d)
            BY DEF HandleRequest
        <3> QED BY <2>1, <3>1, <3>2 DEF HandleAnswer
    <2>3. EventOf(type[c]) \in listening[c]
        BY DEF ListenersKept, EventOf, Events, Answered
    <2> QED BY <2>2, <2>3 DEF HandleAnswer
<1> QED BY <1>1, UdpInvariantHolds, PTL DEF UdpSpec, OnlyEarlyAnswersAreLost

\* Every variable has its type: the part of the invariant that says so.
THEOREM CallsAreTyped == UdpSpec => []UdpTypeOK
<1>1. UdpInv => UdpTypeOK
    BY DEF UdpInv
<1> QED BY <1>1, UdpInvariantHolds, PTL

\* sendMessage keeps the promise of UdpCall: it settles at most once, and
\* resolves only after the other node has handled the message.
THEOREM TransportImplementsUdpCall == UdpSpec => ImplementsUdpCall
<1>1. UdpInit => Caller!Init
    BY DEF UdpInit, Caller!Init
<1>2. UdpInv /\ [UdpNext]_udpVars => [Caller!Next]_(Caller!vars)
    <2> SUFFICES ASSUME UdpInv, [UdpNext]_udpVars
                 PROVE  Caller!Next \/ UNCHANGED <<outcome, handled>>
        BY DEF Caller!vars
    <2> USE DEF UdpInv, UdpTypeOK
    <2>1. ASSUME NEW c \in Call, SendMessage(c) PROVE Caller!Next
        BY <2>1 DEF SendMessage, Caller!Next, Caller!Start
    <2>2. ASSUME NEW c \in Call, SendCallback(c) PROVE UNCHANGED <<outcome, handled>>
        BY <2>2 DEF SendCallback, ResolvedAtOnce, Requests, Answered, Unanswered
    <2>3. ASSUME NEW c \in Call, HandleRequest(c) PROVE Caller!Next
        BY <2>3 DEF HandleRequest, UnsentIsQuiet, Caller!Next, Caller!Handle
    <2>4. ASSUME NEW c \in Call, HandleAnswer(c)
          PROVE  Caller!Next \/ UNCHANGED <<outcome, handled>>
        <3>1. CASE outcome[c] = "pending" /\ EventOf(type[c]) \in listening[c]
            BY <2>4, <3>1 DEF HandleAnswer, AnswersAreEarned, Caller!Next, Caller!Resolve
        <3>2. CASE ~(outcome[c] = "pending" /\ EventOf(type[c]) \in listening[c])
            BY <2>4, <3>2 DEF HandleAnswer
        <3> QED BY <3>1, <3>2
    <2>5. ASSUME NEW c \in Call, Timeout(c) PROVE Caller!Next
        BY <2>5 DEF Timeout, Caller!Next, Caller!Reject
    <2>6. CASE UNCHANGED udpVars
        BY <2>6 DEF udpVars
    <2> QED BY <2>1, <2>2, <2>3, <2>4, <2>5, <2>6 DEF UdpNext
<1> QED BY <1>1, <1>2, UdpInvariantHolds, PTL
        DEF UdpSpec, ImplementsUdpCall, Caller!Spec
=============================================================================
