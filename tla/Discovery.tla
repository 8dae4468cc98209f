------------------------------ MODULE Discovery ------------------------------
(***************************************************************************)
(* How nodes get to know each other.                                       *)
(*                                                                         *)
(* Every 30 seconds a node runs a round: it asks the peers it knows for    *)
(* the peers closest to itself, slice by slice of a growing shortlist, for *)
(* as long as the answers name somebody closer than the first candidate.   *)
(* A query that is not answered settles after 45 seconds, so that rounds   *)
(* of one node overlap.  At its end a round reports the peers that         *)
(* answered to the routing table and opens a connection to every listed    *)
(* peer that has none; a connection that closes takes its peer off the     *)
(* table.                                                                  *)
(*                                                                         *)
(* Datagrams are reordered and may be lost, as in DhtStore.  Rounds that   *)
(* overlap may dial a peer twice.  The sockets to one process close        *)
(* together, but each has a close event of its own, the last of them       *)
(* perhaps after the peer has come back and is dialled again.  Both        *)
(* schedules of the scheduler are equal, so that                           *)
(* updatePeerDiscoveryInterval never changes one.                          *)
(***************************************************************************)
EXTENDS TableOps

CONSTANTS
    Node,         \* ids of the nodes, the bootstrap node among them
    ALPHA,        \* constants.ts: peers addressed at a time
    Discoverers,  \* bound: the nodes that run rounds
    Traffic,      \* bound: <<n, p>>: p sends messages of other kinds to n
    Restarting,   \* bound: the nodes that may be restarted
    MaxRounds,    \* bound: rounds in a behaviour
    MaxRestarts   \* bound: restarts in a behaviour

ASSUME DiscoveryAssumption ==
    /\ Node \subseteq Id /\ BootstrapId \in Node
    /\ ALPHA \in Nat \ {0}
    /\ Discoverers \subseteq Node /\ Restarting \subseteq Node
    /\ Traffic \subseteq Node \X Node
    /\ {MaxRounds, MaxRestarts} \subseteq Nat

VARIABLES
    table,       \* [Node -> routing table]
    rounds,      \* the rounds in progress, of all nodes
    started,     \* number of rounds so far; numbers them
    network,     \* datagrams sent and not yet delivered
    connecting,  \* <<n, p, id>>: sockets that round id of n dialled to p, not yet open
    open,        \* those of them that are open
    closing,     \* those that p has closed, whose close event n has yet to see
    connections, \* [Node -> peers its Map has a connection to], but for its own
    restarts,    \* number of restarts so far
    heard,       \* history: [Node -> senders of the messages handled since its start]
    shrunk,      \* history: nodes whose table has lost a peer
    cutOff       \* history: <<n, p>>: the last close event of n's sockets to p came
                 \*          while n was dialling p again

links == <<connecting, open, closing, connections, cutOff>>
vars  == <<table, rounds, started, network, links, restarts, heard, shrunk>>

\* What start() leaves: node 0 reported as a contact, at every node.
StartTable(n) == Updated(n, EmptyTable, BootstrapId)

Init ==
    /\ table = [n \in Node |-> StartTable(n)]
    /\ rounds = {}
    /\ started = 0
    /\ network = {}
    /\ connecting = {}
    /\ open = {}
    /\ closing = {}
    /\ connections = [n \in Node |-> {}]
    /\ restarts = 0
    /\ heard = [n \in Node |-> {}]
    /\ shrunk = {}
    /\ cutOff = {}

\* The members of S, closest to key first.  Distances to one key are distinct.
Sorted(S, key) ==
    [i \in 1 .. Cardinality(S) |->
        CHOOSE p \in S : Cardinality({q \in S : Closer(q, p, key)}) = i - 1]

\* Mutant of Nearest: all known peers are sorted, the one that asks included.
NearestOfAll(n, tbl, key) == Sorted(Closest(Peers(tbl), key, ALPHA), key)

\* The result of findNode(key, ALPHA).
Nearest(n, tbl, key) == Sorted(FindNode(n, tbl, key, ALPHA), key)

\* What updateTables makes of bucket i: the contacts of its distance are reported to
\* it, one after the other.
UpdatedBucket(n, tbl, contacts, i) ==
    LET after[k \in 0 .. Len(contacts)] ==
            IF k = 0 THEN BucketAt(tbl, i)
            ELSE IF BucketIndex(n, contacts[k]) # i THEN after[k - 1]
            ELSE UpdateBucketNode(n, after[k - 1], contacts[k])
    IN  after[Len(contacts)]

\* updateTables of a list of contacts.
UpdatedAll(n, tbl, contacts) ==
    [i \in DOMAIN tbl \cup {BucketIndex(n, c) : c \in Range(contacts)} |->
        UpdatedBucket(n, tbl, contacts, i)]

\* refreshAndUpdateConnections, at the end of round r: a socket for each listed peer
\* without a connection.  A node is connected to itself from listen() on, which is
\* left out.
Dialled(r, tbl) ==
    {<<r.node, p, r.id>> : p \in Peers(tbl) \ (connections[r.node] \cup {r.node})}

(***************************************************************************)
(* A round.  r.waiting are the positions of the shortlist whose query has  *)
(* not settled, r.contacts is the Map of the peers that answered, r.closer *)
(* says whether an answer of the slice named a closer peer.  A round that  *)
(* is over is not kept.                                                    *)
(***************************************************************************)

\* In each of these, round r of n has become s, tbl is the table of its node and
\* sent is in the network.

\* Mutant of EndRound: the whole shortlist is reported.
EndRoundShortlist(r, s, tbl, sent) ==
    LET known == UpdatedAll(r.node, tbl, s.shortlist)
    IN  /\ rounds' = rounds \ {r}
        /\ table' = [table EXCEPT ![r.node] = known]
        /\ connecting' = connecting \cup Dialled(r, known)
        /\ network' = sent
        /\ UNCHANGED <<open, closing, connections, cutOff, restarts, shrunk>>

\* updateTables(contacts), then refreshAndUpdateConnections.
EndRound(r, s, tbl, sent) ==
    \E known \in {UpdatedAll(r.node, tbl, s.contacts)} :
        /\ rounds' = rounds \ {r}
        /\ table' = [table EXCEPT ![r.node] = known]
        /\ connecting' = connecting \cup Dialled(r, known)
        /\ network' = sent
        /\ UNCHANGED <<open, closing, connections, cutOff, restarts, shrunk>>

Slice(s) ==
    {i \in DOMAIN s.shortlist : i > s.iteration * ALPHA /\ i <= (s.iteration + 1) * ALPHA}

\* Mutant of Asked: a peer that answered before is asked again.
AskedAgain(s) == Slice(s)

\* A peer that is in one slice twice is asked twice.
Asked(s) == {i \in Slice(s) : s.shortlist[i] \notin Range(s.contacts)}

\* findNodeRecursiveSearch from its slice on: nobody to ask ends the round.
Search(r, s, tbl, sent) ==
    IF Asked(s) = {} THEN EndRound(r, s, tbl, sent)
    ELSE /\ rounds' = (rounds \ {r}) \cup {[s EXCEPT !.waiting = Asked(s), !.closer = FALSE]}
         /\ table' = [table EXCEPT ![r.node] = tbl]
         /\ network' = sent \cup
                {[type |-> "FIND_NODE", id |-> <<s.id, i>>, from |-> s.node,
                  to |-> s.shortlist[i]] : i \in Asked(s)}
         /\ UNCHANGED <<links, restarts, shrunk>>

\* A query of the slice has settled; after the last one the search goes on or ends.
Proceed(r, s, tbl, sent) ==
    \/ /\ s.waiting # {}
       /\ rounds' = (rounds \ {r}) \cup {s}
       /\ table' = [table EXCEPT ![r.node] = tbl]
       /\ network' = sent
       /\ UNCHANGED <<links, restarts, shrunk>>
    \/ /\ s.waiting = {} /\ s.closer /\ Len(s.contacts) < BIT_SIZE
       /\ Search(r, [s EXCEPT !.iteration = @ + 1], tbl, sent)
    \/ /\ s.waiting = {} /\ ~(s.closer /\ Len(s.contacts) < BIT_SIZE)
       /\ EndRound(r, s, tbl, sent)

\* The cron job fires: findNodes(own id).
StartRound(n) ==
    LET r == [id |-> started, node |-> n, shortlist |-> Nearest(n, table[n], n),
              contacts |-> <<>>, iteration |-> 0, waiting |-> {}, closer |-> FALSE]
    IN  /\ started < MaxRounds
        /\ started' = started + 1
        /\ Search(r, r, table[n], network)
        /\ UNCHANGED heard

\* Mutant of HandleFindNode: the requester is not reported to the table.
HandleFindNodeUnreported(m) ==
    /\ m.type = "FIND_NODE"
    /\ heard' = [heard EXCEPT ![m.to] = @ \cup {m.from}]
    /\ network' = (network \ {m}) \cup
           {[type |-> "REPLY", id |-> m.id, from |-> m.to, to |-> m.from,
             nodes |-> Nearest(m.to, table[m.to], m.from)]}
    /\ UNCHANGED <<table, rounds, started, links, restarts, shrunk>>

HandleFindNode(m) ==
    LET tbl == Updated(m.to, table[m.to], m.from)
    IN  /\ m.type = "FIND_NODE"
        /\ table' = [table EXCEPT ![m.to] = tbl]
        /\ heard' = [heard EXCEPT ![m.to] = @ \cup {m.from}]
        /\ network' = (network \ {m}) \cup
               {[type |-> "REPLY", id |-> m.id, from |-> m.to, to |-> m.from,
                 nodes |-> Nearest(m.to, tbl, m.from)]}
        /\ UNCHANGED <<rounds, started, links, restarts, shrunk>>

\* What the answer with these nodes makes of round r; the Map keeps the place of
\* a peer that answers twice.
Answered(r, i, nodes) ==
    LET p == r.shortlist[i]
        first == r.shortlist[1]
    IN  [r EXCEPT !.waiting = @ \ {i},
                  !.contacts = IF p \in Range(@) THEN @ ELSE Append(@, p),
                  !.shortlist = @ \o nodes,
                  !.closer = @ \/ \E q \in Range(nodes) :
                                     BucketIndex(r.node, q) < BucketIndex(r.node, first)]

\* An answer to a query that has timed out, or to a round before a restart, still
\* reports its sender.
HandleReply(m) ==
    LET n == m.to
        tbl == Updated(n, table[n], m.from)
        awaited == {r \in rounds : r.id = m.id[1] /\ m.id[2] \in r.waiting}
    IN  /\ m.type = "REPLY"
        /\ heard' = [heard EXCEPT ![n] = @ \cup {m.from}]
        /\ \/ \E r \in awaited :
                 Proceed(r, Answered(r, m.id[2], m.nodes), tbl, network \ {m})
           \/ /\ awaited = {}
              /\ table' = [table EXCEPT ![n] = tbl]
              /\ network' = network \ {m}
              /\ UNCHANGED <<rounds, links, restarts, shrunk>>
        /\ UNCHANGED started

\* Mutant of QueryTimeout: the query goes on waiting.
QueryTimeoutIgnored(r, i) ==
    /\ i \in r.waiting
    /\ UNCHANGED vars

\* handleFindNodeQuery catches the rejection: no contact, nobody closer.
QueryTimeout(r, i) ==
    /\ i \in r.waiting
    /\ Proceed(r, [r EXCEPT !.waiting = @ \ {i}], table[r.node], network)
    /\ UNCHANGED <<started, heard>>

(***************************************************************************)
(* Connections and the environment                                         *)
(***************************************************************************)

\* The open event of a socket.
Connected(e) ==
    /\ e \in connecting
    /\ connecting' = connecting \ {e}
    /\ open' = open \cup {e}
    /\ connections' = [connections EXCEPT ![e[1]] = @ \cup {e[2]}]
    /\ UNCHANGED <<table, rounds, started, network, closing, restarts, heard, shrunk, cutOff>>

\* Its error event, which is only logged: the peer stays on the table.
Refused(e) ==
    /\ e \in connecting
    /\ connecting' = connecting \ {e}
    /\ UNCHANGED <<table, rounds, started, network, open, closing, connections, restarts,
                   heard, shrunk, cutOff>>

\* The pair of e, if its peer is being dialled.
Redialled(e) == {<<d[1], d[2]>> : d \in connecting} \cap {<<e[1], e[2]>>}

\* Mutant of Disconnect: the entry of the connection stays.
DisconnectKeepsEntry(e) ==
    /\ e \in closing
    /\ closing' = closing \ {e}
    /\ table' = [table EXCEPT ![e[1]] = Removed(e[1], @, e[2])]
    /\ shrunk' = shrunk \cup {e[1]}
    /\ cutOff' = (cutOff \ {<<e[1], e[2]>>}) \cup Redialled(e)
    /\ UNCHANGED <<rounds, started, network, connecting, open, connections, restarts, heard>>

\* The close event, and handleTcpDisconnet: the entry is deleted, whatever socket it
\* is for.
Disconnect(e) ==
    /\ e \in closing
    /\ closing' = closing \ {e}
    /\ connections' = [connections EXCEPT ![e[1]] = @ \ {e[2]}]
    /\ table' = [table EXCEPT ![e[1]] = Removed(e[1], @, e[2])]
    /\ shrunk' = shrunk \cup {e[1]}
    /\ cutOff' = (cutOff \ {<<e[1], e[2]>>}) \cup Redialled(e)
    /\ UNCHANGED <<rounds, started, network, connecting, open, restarts, heard>>

\* A message of another kind from p reaches n.
Contact(n, p) ==
    /\ <<n, p>> \in Traffic
    /\ table' = [table EXCEPT ![n] = Updated(n, @, p)]
    /\ heard' = [heard EXCEPT ![n] = @ \cup {p}]
    /\ UNCHANGED <<rounds, started, network, links, restarts, shrunk>>

\* The process of n is stopped and started again.  What it has dialled is gone,
\* what is being dialled to it fails, what is open to it will be seen to close.
Restart(n) ==
    /\ restarts < MaxRestarts
    /\ restarts' = restarts + 1
    /\ table' = [table EXCEPT ![n] = StartTable(n)]
    /\ rounds' = {r \in rounds : r.node # n}
    /\ connecting' = {e \in connecting : n \notin {e[1], e[2]}}
    /\ open' = {e \in open : n \notin {e[1], e[2]}}
    /\ closing' = {e \in closing : e[1] # n} \cup {e \in open : e[2] = n}
    /\ connections' = [connections EXCEPT ![n] = {}]
    /\ heard' = [heard EXCEPT ![n] = {}]
    /\ shrunk' = shrunk \cup {n}
    /\ cutOff' = {e \in cutOff : e[1] # n}
    /\ UNCHANGED <<started, network>>

Next ==
    \/ \E n \in Discoverers : StartRound(n)
    \/ \E m \in network : HandleFindNode(m) \/ HandleReply(m)
    \/ \E r \in rounds : \E i \in r.waiting : QueryTimeout(r, i)
    \/ \E e \in connecting : Connected(e) \/ Refused(e)
    \/ \E e \in closing : Disconnect(e)
    \/ \E n, p \in Node : Contact(n, p)
    \/ \E n \in Restarting : Restart(n)

\* The timers of the queries fire; nothing is assumed of the network.
Fairness == WF_vars(\E r \in rounds : \E i \in r.waiting : QueryTimeout(r, i))

Spec == Init /\ [][Next]_vars /\ Fairness

-----------------------------------------------------------------------------

(***************************************************************************)
(* Properties                                                              *)
(***************************************************************************)

\* Rounds, tables and messages are about nodes; queries wait at positions of
\* their shortlist.
TypeOK ==
    /\ \A n \in Node : Peers(table[n]) \subseteq Node
    /\ \A r \in rounds :
          /\ r.id \in 0 .. MaxRounds - 1 /\ r.node \in Node
          /\ Range(r.shortlist) \subseteq Node /\ Range(r.contacts) \subseteq Node
          /\ r.waiting # {} /\ r.waiting \subseteq Slice(r)
    /\ \A m \in network :
          /\ m.from \in Node /\ m.to \in Node
          /\ m.type = "REPLY" => Range(m.nodes) \subseteq Node \ {m.to}
    /\ connecting \cup open \cup closing \subseteq Node \X Node \X Nat
    /\ connections \in [Node -> SUBSET Node]
    /\ started \in 0 .. MaxRounds /\ restarts \in 0 .. MaxRestarts

\* A round gains a contact with every slice that makes it go on, so that it ends
\* after as many slices as there are peers that answer, however often the peers
\* name each other.
RoundsAreShort == \A r \in rounds : r.iteration <= Len(r.contacts)

\* Nobody gets on a table because others named it: but for the bootstrap node, a
\* node lists only peers it has had a message from since its start.
NoHearsay == \A n \in Node : Peers(table[n]) \subseteq heard[n] \cup {BootstrapId}

Full(n, p) == Len(BucketAt(table[n], BucketIndex(n, p))) >= K_BUCKET_SIZE

\* A round makes two nodes known to each other: a peer that answered lists the
\* node that asked and is listed by it, unless the bucket is full, or the table
\* has lost peers to a restart or a closed connection.
MeetBothWays ==
    \A r \in rounds : \A c \in Range(r.contacts) :
        /\ c \notin shrunk => r.node \in Peers(table[c]) \/ Full(c, r.node)
        /\ r.node \notin shrunk => c \in Peers(table[r.node]) \/ Full(r.node, c)

\* A peer that a node is connected to is on its table, whatever rounds, refused and
\* closed connections there have been, with one exception: the close event of an
\* earlier socket came while the peer was being dialled again, took it off the table,
\* and the new connection opened all the same (handleTcpDisconnet, connect).
ConnectedIsListed ==
    \A n \in Node : \A p \in connections[n] :
        p \in Peers(table[n]) \/ <<n, p>> \in cutOff

\* Every round ends, whatever the network loses and whoever restarts.
RoundsEnd ==
    \A id \in 0 .. MaxRounds - 1 :
        (\E r \in rounds : r.id = id) ~> ~(\E r \in rounds : r.id = id)
=============================================================================
