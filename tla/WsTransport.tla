---------------------------- MODULE WsTransport -----------------------------
(***************************************************************************)
(* The WebSockets between nodes, and the messages that travel on them.     *)
(*                                                                         *)
(* A node dials the peers of its routing table that it has no connection   *)
(* to.  Two Maps say what it can send on: connections, the socket of every *)
(* peer, and neighbors, the peers that have shaken hands.  A socket is     *)
(* filed under the id of its server at both ends, so that all sockets that *)
(* are dialled to a node share one entry there, the one under its own id.  *)
(* A broadcast goes to every neighbour, and everybody passes it on once.   *)
(*                                                                         *)
(* A socket has two ends.  It closes only because the process at one of    *)
(* them ends; what was under way is lost, and the other end sees it close  *)
(* some time later.  neighbors maps every id to itself and is a set here.  *)
(*                                                                         *)
(* Direct messages are left out: their destination is a number and the     *)
(* Maps have strings for keys, so that sending one always throws, and      *)
(* nothing in the repository sends one.                                    *)
(***************************************************************************)
EXTENDS Integers, SequencesExt

CONSTANTS
    Node,      \* node ids
    Lists,     \* bound: <<n, p>>: p may be on the routing table of n
    Unsteady,  \* bound: the nodes that are stopped or restarted
    Senders,   \* bound: the nodes whose application broadcasts
    MaxDials,  \* bound: sockets dialled in all
    MaxSends,  \* bound: broadcasts sent by an application; numbers them
    MaxEvents  \* bound: stops and restarts

ASSUME WsAssumption ==
    /\ Lists \subseteq Node \X Node
    /\ Unsteady \subseteq Node /\ Senders \subseteq Node
    /\ {MaxDials, MaxSends, MaxEvents} \subseteq Nat

VARIABLES
    dialling,     \* <<i, n, p>>: socket i, dialled by n and not accepted by p
    inbox,        \* [open end of a socket -> messages on their way to it]
    opening,      \* ends of dialled sockets that have not seen their open event
    connections,  \* [Node -> [ids -> end of a socket]]
    neighbors,    \* [Node -> ids]
    seen,         \* [Node -> broadcasts in messages.BROADCAST]
    stopped,      \* nodes whose stop() is under way: it waits for its own socket
    dials,        \* [Lists -> sockets dialled so far]; numbers them, from 1
    dialled,      \* their sum
    sends, events,  \* broadcasts, stops and restarts so far
    log,          \* history: [Node -> the broadcasts its process sent or handled]
    linked,       \* history: ends that have shaken hands
    cut,          \* history: open ends at whose node another socket of their id closed
    due           \* history: <<n, p, b>>: n passed b on, and p, to which it is linked,
                  \*          has not seen it, where n and p still run

code    == <<dialling, inbox, opening, connections, neighbors, seen, stopped>>
history == <<log, linked, cut, due>>
vars    == <<code, dials, dialled, sends, events, history>>

\* An end of socket i, which n dialled and p serves.
Out(i, n, p) == <<i, n, p, "out">>
In(i, n, p)  == <<i, n, p, "in">>

At(e)    == IF e[4] = "out" THEN e[2] ELSE e[3]
Far(e)   == IF e[4] = "out" THEN e[3] ELSE e[2]
Other(e) == <<e[1], e[2], e[3], IF e[4] = "out" THEN "in" ELSE "out">>

Ends == DOMAIN inbox

\* The id that an end is filed under: port - 3000 of the server it was dialled to,
\* or the own id of the server.
FiledAs(e) == e[3]

\* The connection of a node to itself, which it dials as soon as it listens.
Own(n) == Out(0, n, n)

Handshake == [type |-> "handshake"]

Init ==
    /\ dialling = {}
    /\ inbox = [e \in {Own(n) : n \in Node} \cup {Other(Own(n)) : n \in Node} |-> <<>>]
    /\ opening = {}
    /\ connections = [n \in Node |-> [k \in {n} |-> Own(n)]]
    /\ neighbors = [n \in Node |-> {n}]
    /\ seen = [n \in Node |-> {}]
    /\ stopped = {}
    /\ dials = [l \in Lists |-> 0]
    /\ dialled = 0
    /\ sends = 0
    /\ events = 0
    /\ log = [n \in Node |-> <<>>]
    /\ linked = {}
    /\ cut = {}
    /\ due = {}

Put(f, k, v) == [x \in DOMAIN f \cup {k} |-> IF x = k THEN v ELSE f[x]]

-----------------------------------------------------------------------------
(* Connecting *)

\* refreshAndUpdateConnections, for one peer
Dial(n, p) ==
    /\ <<n, p>> \in Lists
    /\ p \notin DOMAIN connections[n]
    /\ dialled < MaxDials
    /\ dialled' = dialled + 1
    /\ dials' = [dials EXCEPT ![<<n, p>>] = @ + 1]
    /\ dialling' = dialling \cup {<<dials'[<<n, p>>], n, p>>}
    /\ UNCHANGED <<inbox, opening, connections, neighbors, seen, stopped,
                   sends, events, history>>

\* A server that is closed refuses the socket; its error event is only logged.
Refuse(s) ==
    /\ s \in dialling
    /\ s[3] \in stopped
    /\ dialling' = dialling \ {s}
    /\ UNCHANGED <<inbox, opening, connections, neighbors, seen, stopped,
                   dials, dialled, sends, events, history>>

\* handleNewSocket, for the end e: it is filed, which emits _connect, whose
\* listener sends the handshake on it.  open are the ends that are open.
HandleNewSocket(e, open) ==
    /\ connections' = [connections EXCEPT ![At(e)] = Put(@, FiledAs(e), e)]
    /\ inbox' = [open EXCEPT ![Other(e)] = Append(@, Handshake)]

\* The connection event of the server, which takes no more once it is closed.
Accept(i, n, p) ==
    LET new == {Out(i, n, p), In(i, n, p)}
    IN  /\ <<i, n, p>> \in dialling
        /\ p \notin stopped
        /\ dialling' = dialling \ {<<i, n, p>>}
        /\ opening' = opening \cup {Out(i, n, p)}
        /\ HandleNewSocket(In(i, n, p),
                           [e \in Ends \cup new |-> IF e \in new THEN <<>> ELSE inbox[e]])
        /\ UNCHANGED <<neighbors, seen, stopped, dials, dialled, sends, events,
                       history>>

\* The open event of the socket that was dialled.
Open(e) ==
    /\ e \in opening
    /\ opening' = opening \ {e}
    /\ HandleNewSocket(e, inbox)
    /\ UNCHANGED <<dialling, neighbors, seen, stopped, dials, dialled, sends, events,
                   history>>

\* history: the other open ends at the node of e that are filed under its id
Twins(e) == {x \in (Ends \ opening) \ {e} : At(x) = At(e) /\ FiledAs(x) = FiledAs(e)}

\* Mutant of CloseEvent: of the two Maps, only connections is cleared, as by the
\* listener of _disconnect that is given an object.
CloseEventNeighborStays(e) ==
    /\ e \in Ends \ opening
    /\ Other(e) \notin Ends
    /\ inbox' = Restrict(inbox, Ends \ {e})
    /\ connections' = [connections EXCEPT ![At(e)] = Restrict(@, DOMAIN @ \ {FiledAs(e)})]
    /\ linked' = linked \ {e}
    /\ cut' = (cut \ {e}) \cup Twins(e)
    /\ UNCHANGED <<dialling, opening, neighbors, seen, stopped, dials, dialled, sends, events,
                   log, due>>

\* Mutant of CloseEvent: nothing is cleared under the own id.
CloseEventOwnStays(e) ==
    LET gone == {FiledAs(e)} \ {At(e)}
    IN  /\ e \in Ends \ opening
        /\ Other(e) \notin Ends
        /\ inbox' = Restrict(inbox, Ends \ {e})
        /\ connections' = [connections EXCEPT ![At(e)] = Restrict(@, DOMAIN @ \ gone)]
        /\ neighbors' = [neighbors EXCEPT ![At(e)] = @ \ gone]
        /\ linked' = linked \ {e}
        /\ cut' = (cut \ {e}) \cup Twins(e)
        /\ UNCHANGED <<dialling, opening, seen, stopped, dials, dialled, sends, events,
                       log, due>>

\* The close event: whatever is filed under the id of the socket goes, the entry of
\* another socket included.  (What handleTcpDisconnet does to the routing table is
\* in Discovery.)
CloseEvent(e) ==
    /\ e \in Ends \ opening
    /\ Other(e) \notin Ends
    /\ inbox' = Restrict(inbox, Ends \ {e})
    /\ connections' = [connections EXCEPT ![At(e)] = Restrict(@, DOMAIN @ \ {FiledAs(e)})]
    /\ neighbors' = [neighbors EXCEPT ![At(e)] = @ \ {FiledAs(e)}]
    /\ linked' = linked \ {e}
    /\ cut' = (cut \ {e}) \cup Twins(e)
    /\ UNCHANGED <<dialling, opening, seen, stopped, dials, dialled, sends, events,
                   log, due>>

-----------------------------------------------------------------------------
(* Messages *)

\* Mutant of Targets: a neighbour without a connection ends the loop.
TargetsStop(n) ==
    IF neighbors[n] \subseteq DOMAIN connections[n] THEN {connections[n][k] : k \in neighbors[n]}
    ELSE {}

\* The ends that a broadcast of n goes out on.  A neighbour without a connection
\* makes send throw, which is caught for each neighbour.
Targets(n) == {connections[n][k] : k \in neighbors[n] \cap DOMAIN connections[n]}

\* Messages that are sent on an end whose other end is gone are lost.
Sent(box, ends, m) ==
    [e \in DOMAIN box |-> IF Other(e) \in ends THEN Append(box[e], m) ELSE box[e]]

\* history: the nodes that n is linked to, as their own process knows it, by a socket
\* whose entry no other socket's close event has taken away
LinkedTo(n) ==
    {Far(e) : e \in {x \in linked \ cut :
                       At(x) = n /\ x[4] = "out" /\ n \notin stopped /\ Other(x) \in Ends}}

\* history: n has passed b on.
Due(n, b) ==
    {d \in due : ~ (d[2] = n /\ d[3] = b)} \cup
    {<<n, p, b>> : p \in {q \in LinkedTo(n) \ {n} : b \notin seen[q]}}

\* Mutant of Broadcast: the type of the packet is that of a direct message.
BroadcastDirect(b) == [type |-> "direct", id |-> b]

\* buildPacket, of a broadcast
Broadcast(b) == [type |-> "broadcast", id |-> b]

\* Mutant of SendBroadcast: it is not marked.
SendBroadcastUnmarked(n) ==
    /\ n \in Senders
    /\ sends < MaxSends
    /\ sends' = sends + 1
    /\ inbox' = Sent(inbox, Targets(n), Broadcast(sends))
    /\ log' = [log EXCEPT ![n] = Append(@, sends)]
    /\ due' = Due(n, sends)
    /\ UNCHANGED <<dialling, opening, connections, neighbors, seen, stopped, dials, dialled, events,
                   linked, cut>>

\* sendTcpTransportMessage of a broadcast: it is marked if it was sent to somebody.
SendBroadcast(n) ==
    /\ n \in Senders
    /\ sends < MaxSends
    /\ sends' = sends + 1
    /\ inbox' = Sent(inbox, Targets(n), Broadcast(sends))
    /\ seen' = IF Targets(n) = {} THEN seen ELSE [seen EXCEPT ![n] = @ \cup {sends}]
    /\ log' = [log EXCEPT ![n] = Append(@, sends)]
    /\ due' = Due(n, sends)
    /\ UNCHANGED <<dialling, opening, connections, neighbors, stopped, dials, dialled, events,
                   linked, cut>>

\* A message is taken from the inbox of an end that sees message events.
Take(e, type) ==
    /\ e \in Ends \ opening
    /\ inbox[e] # <<>>
    /\ Head(inbox[e]).type = type

Rest(e) == [inbox EXCEPT ![e] = Tail(@)]

\* The id that the handshake carries is not looked at.
ReceiveHandshake(e) ==
    /\ Take(e, "handshake")
    /\ inbox' = Rest(e)
    /\ neighbors' = [neighbors EXCEPT ![At(e)] = @ \cup {FiledAs(e)}]
    /\ linked' = linked \cup {e}
    /\ UNCHANGED <<dialling, opening, connections, seen, stopped, dials, dialled, sends, events,
                   log, cut, due>>

\* A broadcast that was not seen is marked, passed on to every neighbour, the one it
\* came from included, and handled.  Its ttl is never counted down.
ReceiveBroadcast(e) ==
    LET n == At(e)
        m == Head(inbox[e])
    IN  /\ Take(e, "broadcast")
        /\ IF m.id \in seen[n] THEN inbox' = Rest(e) /\ UNCHANGED <<seen, log, due>>
           ELSE /\ inbox' = Sent(Rest(e), Targets(n), m)
                /\ seen' = [seen EXCEPT ![n] = @ \cup {m.id}]
                /\ log' = [log EXCEPT ![n] = Append(@, m.id)]
                /\ due' = Due(n, m.id)
        /\ UNCHANGED <<dialling, opening, connections, neighbors, stopped,
                       dials, dialled, sends, events, linked, cut>>

-----------------------------------------------------------------------------
(* Stops and restarts *)

\* stop(): both Maps are cleared and the server takes no more sockets, but no socket
\* is closed.  It does not return: the server waits for every socket that it has
\* accepted, the one that the node dialled itself among them.
Stop(n) ==
    /\ n \in Unsteady \ stopped
    /\ events < MaxEvents
    /\ events' = events + 1
    /\ stopped' = stopped \cup {n}
    /\ connections' = [connections EXCEPT ![n] = [k \in {} |-> Own(n)]]
    /\ neighbors' = [neighbors EXCEPT ![n] = {}]
    /\ UNCHANGED <<dialling, inbox, opening, seen, dials, dialled, sends, history>>

\* The process of n ends and is started again, and is connected to itself.  Sockets
\* to it that were not open yet are refused.
Restart(n) ==
    LET gone == {e \in Ends : At(e) = n \/ (e \in opening /\ Far(e) = n)}
        own == {Own(n), Other(Own(n))}
    IN  /\ n \in Unsteady
        /\ events < MaxEvents
        /\ events' = events + 1
        /\ dialling' = {s \in dialling : n \notin {s[2], s[3]}}
        /\ inbox' = [e \in (Ends \ gone) \cup own |-> IF e \in own THEN <<>> ELSE inbox[e]]
        /\ opening' = opening \ gone
        /\ connections' = [connections EXCEPT ![n] = [k \in {n} |-> Own(n)]]
        /\ neighbors' = [neighbors EXCEPT ![n] = {n}]
        /\ seen' = [seen EXCEPT ![n] = {}]
        /\ stopped' = stopped \ {n}
        /\ log' = [log EXCEPT ![n] = <<>>]
        /\ linked' = linked \ gone
        /\ cut' = cut \ gone
        /\ due' = {d \in due : n \notin {d[1], d[2]}}
        /\ UNCHANGED <<dials, dialled, sends>>

Receive(e) == ReceiveHandshake(e) \/ ReceiveBroadcast(e)

Next ==
    \/ \E n, p \in Node : Dial(n, p)
    \/ \E s \in dialling : Refuse(s) \/ Accept(s[1], s[2], s[3])
    \/ \E e \in Ends : Open(e) \/ Receive(e) \/ CloseEvent(e)
    \/ \E n \in Node : SendBroadcast(n) \/ Stop(n) \/ Restart(n)

\* A socket between two processes that run delivers what was written to it.
Fairness == WF_vars(\E e \in {x \in Ends \ opening : inbox[x] # <<>>} : Receive(e))

Spec == Init /\ [][Next]_vars /\ Fairness

-----------------------------------------------------------------------------
(* Properties *)

Message == {Handshake} \cup [type : {"broadcast"}, id : 0 .. MaxSends - 1]

TypeOK ==
    /\ \A s \in dialling : <<s[2], s[3]>> \in Lists /\ s[1] \in 1 .. dials[<<s[2], s[3]>>]
    /\ \A e \in Ends : /\ At(e) \in Node /\ Far(e) \in Node
                       /\ inbox[e] \in Seq(Message)
    /\ opening \subseteq Ends
    /\ \A n \in Node :
          /\ DOMAIN connections[n] \subseteq Node /\ neighbors[n] \subseteq Node
          /\ seen[n] \subseteq 0 .. sends - 1
    /\ stopped \subseteq Unsteady
    /\ linked \cup cut \subseteq Ends \ opening
    /\ dials \in [Lists -> 0 .. dialled] /\ dialled \in 0 .. MaxDials
    /\ sends \in 0 .. MaxSends /\ events \in 0 .. MaxEvents

\* What is filed is there: the entry of an id is an open end of the node's own
\* process and of a socket of that id, whatever other sockets of that id were filed,
\* replaced or closed meanwhile.  So send never writes to a socket that its node
\* knows to be closed.
EntryIsOpen ==
    \A n \in Node : \A k \in DOMAIN connections[n] :
        LET e == connections[n][k]
        IN  e \in Ends \ opening /\ At(e) = n /\ FiledAs(e) = k

\* Nobody stays a neighbour once every socket to it has closed, although a handshake
\* may come in after a first close has cleared both Maps.
NeighborsHaveSockets ==
    \A n \in Node : neighbors[n] \subseteq {FiledAs(e) : e \in {x \in Ends : At(x) = n}}

\* A process sends or handles a broadcast at most once, however many ways it
\* comes back on.
HandledOnce == \A n \in Node : IsInjective(log[n])

\* A broadcast that a node sends or passes on reaches everyone that the node has
\* dialled and shaken hands with, if both still run, unless another socket to that
\* peer has closed since this one opened: then the entry that leads there may be gone,
\* and send throws although the peer is connected.  In every other order of dials,
\* handshakes and closes neither Map has lost the peer.
BroadcastReaches == due # {} ~> due = {}
=============================================================================
