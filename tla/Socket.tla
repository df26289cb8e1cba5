------------------------------- MODULE Socket -------------------------------
(***************************************************************************)
(* The sending side of a node: socket/socket.go over transport/            *)
(* transport.go.  Goroutines of the node send messages to ports: each peer *)
(* has one for Send and one for Send2.  A port is dialed when the first    *)
(* message goes there; two goroutines may do so at the same time, and each *)
(* dial makes a transport of its own.  With config.Delay every message is  *)
(* sent by a timer of its own.  Fault injection drops, delays or loses     *)
(* messages for a time, or crashes a node.                                 *)
(***************************************************************************)
EXTENDS Integers, Sequences, SequencesExt

CONSTANTS
    Goroutines,   \* those of the node that send
    Peers,        \* the other nodes
    Nets,         \* the addresses of a node: 1 for Send, 2 for Send2
    NodeSets,     \* sets of nodes given to MulticastQuorum and BroadcastByGroup
    Self,         \* the node
    ChanCap,      \* capacity of the channel send (1024 in NewTransport)
    MaxMessages,  \* bound on the messages sent
    MaxTries,     \* attempts of utils.Retry (100)
    Setups        \* the <<Delay, MaxFaults>> checked

Ports == Peers \X Nets
Nodes == Peers \cup {Self}
None == <<>>
Kinds == {"drop", "slow", "flaky"}

VARIABLES
    Delay,      \* config.Delay is not 0
    MaxFaults,  \* bound on the calls of Drop, Slow, Flaky and Crash
    job,        \* what each goroutine is doing
    nodes,      \* for each port, its current transport, 0 if there is none
    conns,      \* for each port its transports: the channel send and the connection
    listening,  \* the peers that listen
    panicked,   \* Retry gave up
    fault,      \* drop, slow and flaky for each peer
    crash,      \* the nodes that crashed
    timers,     \* timers that will end a fault
    faults,     \* number of faults injected
    delayed,    \* <<port, transport, message>> waiting for a timer
    recv,       \* what each port's listener has decoded
    delivered,  \* what Recv returned at each port, in order
    lost        \* <<port, message>> dropped, or received during a crash

setup == <<Delay, MaxFaults>>
vars == <<setup, job, nodes, conns, listening, panicked, fault, crash, timers, faults,
          delayed, recv, delivered, lost>>

Idle(k) == [pc |-> "idle", sent |-> k, left |-> {}, port |-> None, t |-> 0, tries |-> 0]

Init ==
    /\ \E s \in Setups : Delay = s[1] /\ MaxFaults = s[2]
    /\ job = [g \in Goroutines |-> Idle(0)]
    /\ nodes = [p \in Ports |-> 0]
    /\ conns = [p \in Ports |-> <<>>]
    /\ listening = {}
    /\ panicked = FALSE
    /\ fault = [x \in Kinds \X Peers |-> FALSE]
    /\ crash = {}
    /\ timers = <<>> /\ faults = 0
    /\ delayed = {}
    /\ recv = [p \in Ports |-> <<>>]
    /\ delivered = [p \in Ports |-> <<>>]
    /\ lost = {}

Message(g) == <<g, job[g].sent>>

-----------------------------------------------------------------------------
(* Sending.                                                                *)

\* A loop over Send (Send2), in any order, that leaves the node itself out.
SendToAll(g, dests, net) ==
    /\ job[g].pc = "idle"
    /\ MapThenSumSet(LAMBDA x : job[x].sent, Goroutines) < MaxMessages
    /\ dests \ {Self} # {}
    /\ job' = [job EXCEPT ![g] = [Idle(@.sent + 1) EXCEPT !.pc = "next",
                                                       !.left = (dests \ {Self}) \X {net}]]
    /\ UNCHANGED <<setup, nodes, conns, listening, panicked, fault, crash, timers, faults,
                   delayed, recv, delivered, lost>>

\* Broadcast and Broadcast2, over the addresses.
Broadcast(g, net) == SendToAll(g, Nodes, net)

\* MulticastQuorum and MulticastQuorum2.
MulticastQuorum(g, quorum, net) == SendToAll(g, quorum, net)

BroadcastByGroup(g, memberList) == SendToAll(g, memberList, 1)

\* The job after the port is done with.
Done(j, port) ==
    IF j.left = {port} THEN Idle(j.sent)
    ELSE [j EXCEPT !.pc = "next", !.left = @ \ {port}]

\* The tests at the head of Send and Send2, and the lookup of the transport.
SendOn(g, port) ==
    /\ job[g].pc = "next" /\ port \in job[g].left
    /\ \/ /\ Self \in crash \/ fault[<<"drop", port[1]>>] \/ fault[<<"flaky", port[1]>>]
          /\ job' = [job EXCEPT ![g] = Done(@, port)]
          /\ lost' = lost \cup {<<port, Message(g)>>}
       \/ /\ Self \notin crash /\ ~fault[<<"drop", port[1]>>]
          /\ job' = [job EXCEPT ![g].pc = IF nodes[port] # 0 THEN "transmit" ELSE "dial",
                                ![g].port = port, ![g].t = nodes[port]]
          /\ UNCHANGED lost
    /\ UNCHANGED <<setup, nodes, conns, listening, panicked, fault, crash, timers, faults,
                   delayed, recv, delivered>>

Send(g, to) == SendOn(g, <<to, 1>>)

Send2(g, to) == SendOn(g, <<to, 2>>)

\* Mutant: a failed Dial is not tried again and the message is given up.
DialOnce(g) ==
    LET port == job[g].port
    IN  /\ job[g].pc = "dial"
        /\ \/ /\ port[1] \in listening
              /\ conns' = [conns EXCEPT ![port] = Append(@, [send |-> <<>>, wire |-> <<>>])]
              /\ job' = [job EXCEPT ![g].pc = "store", ![g].t = Len(conns[port]) + 1]
           \/ /\ port[1] \notin listening
              /\ job' = [job EXCEPT ![g] = Done(@, port)]
              /\ UNCHANGED conns
        /\ UNCHANGED <<setup, nodes, listening, panicked, fault, crash, timers, faults, delayed,
                       recv, delivered, lost>>

\* Retry(t.Dial): it fails until the peer listens.
Dial(g) ==
    LET port == job[g].port
    IN  /\ job[g].pc = "dial"
        /\ \/ /\ port[1] \in listening
              /\ conns' = [conns EXCEPT ![port] = Append(@, [send |-> <<>>, wire |-> <<>>])]
              /\ job' = [job EXCEPT ![g].pc = "store", ![g].t = Len(conns[port]) + 1]
              /\ UNCHANGED panicked
           \/ /\ port[1] \notin listening
              /\ job' = [job EXCEPT ![g].tries = @ + 1]
              /\ panicked' = (job[g].tries + 1 = MaxTries)
              /\ UNCHANGED conns
        /\ UNCHANGED <<setup, nodes, listening, fault, crash, timers, faults, delayed,
                       recv, delivered, lost>>

\* s.nodes[to] = t, also if another goroutine has just stored its own.
StoreTransport(g) ==
    /\ job[g].pc = "store"
    /\ nodes' = [nodes EXCEPT ![job[g].port] = job[g].t]
    /\ job' = [job EXCEPT ![g].pc = "transmit"]
    /\ UNCHANGED <<setup, conns, listening, panicked, fault, crash, timers, faults, delayed,
                   recv, delivered, lost>>

\* transport.Send: it waits for room in the channel.
Enqueue(port, t, m) ==
    /\ Len(conns[port][t].send) < ChanCap
    /\ conns' = [conns EXCEPT ![port][t].send = Append(@, m)]

\* Mutant: a goroutine of its own sends each message.
TransmitAsync(g) ==
    LET port == job[g].port
    IN  /\ job[g].pc = "transmit"
        /\ delayed' = delayed \cup {<<port, job[g].t, Message(g)>>}
        /\ job' = [job EXCEPT ![g] = Done(@, port)]
        /\ UNCHANGED <<setup, nodes, conns, listening, panicked, fault, crash, timers, faults, recv,
                       delivered, lost>>

\* The end of Send: at once, or by a timer with Delay and when the peer is slow.
Transmit(g) ==
    LET port == job[g].port
        byTimer == Delay \/ fault[<<"slow", port[1]>>]
    IN  /\ job[g].pc = "transmit"
        /\ \/ /\ byTimer
              /\ delayed' = delayed \cup {<<port, job[g].t, Message(g)>>}
              /\ UNCHANGED conns
           \/ /\ ~byTimer
              /\ Enqueue(port, job[g].t, Message(g))
              /\ UNCHANGED delayed
        /\ job' = [job EXCEPT ![g] = Done(@, port)]
        /\ UNCHANGED <<setup, nodes, listening, panicked, fault, crash, timers, faults, recv,
                       delivered, lost>>

TransmitDelayed(d) ==
    /\ Enqueue(d[1], d[2], d[3])
    /\ delayed' = delayed \ {d}
    /\ UNCHANGED <<setup, job, nodes, listening, panicked, fault, crash, timers, faults, recv,
                   delivered, lost>>

-----------------------------------------------------------------------------
(* Receiving.                                                              *)

Listen(peer) ==
    /\ peer \notin listening
    /\ listening' = listening \cup {peer}
    /\ UNCHANGED <<setup, job, nodes, conns, panicked, fault, crash, timers, faults, delayed,
                   recv, delivered, lost>>

\* The goroutine of Dial writes to the connection, which keeps the order.
Encode(port, t) ==
    LET c == conns[port][t]
    IN  /\ c.send # <<>>
        /\ conns' = [conns EXCEPT ![port][t] = [send |-> Tail(c.send),
                                                wire |-> Append(c.wire, Head(c.send))]]
        /\ UNCHANGED <<setup, job, nodes, listening, panicked, fault, crash, timers, faults, delayed,
                       recv, delivered, lost>>

\* The goroutine that Listen starts for every connection; all of them share recv.
Decode(port, t) ==
    LET c == conns[port][t]
    IN  /\ c.wire # <<>> /\ Len(recv[port]) < ChanCap
        /\ recv' = [recv EXCEPT ![port] = Append(@, Head(c.wire))]
        /\ conns' = [conns EXCEPT ![port][t].wire = Tail(@)]
        /\ UNCHANGED <<setup, job, nodes, listening, panicked, fault, crash, timers, faults, delayed,
                       delivered, lost>>

\* Recv at the peer: what comes during its crash is thrown away.
RecvOn(port) ==
    /\ recv[port] # <<>>
    /\ recv' = [recv EXCEPT ![port] = Tail(@)]
    /\ \/ /\ port[1] \in crash
          /\ lost' = lost \cup {<<port, Head(recv[port])>>}
          /\ UNCHANGED delivered
       \/ /\ port[1] \notin crash
          /\ delivered' = [delivered EXCEPT ![port] = Append(@, Head(recv[port]))]
          /\ UNCHANGED lost
    /\ UNCHANGED <<setup, job, nodes, conns, listening, panicked, fault, crash, timers, faults,
                   delayed>>

Recv(peer) == RecvOn(<<peer, 1>>)

Recv2(peer) == RecvOn(<<peer, 2>>)

-----------------------------------------------------------------------------
(* Fault injection.                                                        *)

\* Drop, Slow and Flaky, each with a timer that ends it.
Inject(kind, peer) ==
    /\ faults < MaxFaults
    /\ faults' = faults + 1
    /\ fault' = [fault EXCEPT ![<<kind, peer>>] = TRUE]
    /\ timers' = Append(timers, <<kind, peer>>)
    /\ UNCHANGED <<setup, job, nodes, conns, listening, panicked, crash, delayed, recv, delivered,
                   lost>>

\* Crash(t), for good if t is not positive.
Crash(node, forGood) ==
    /\ faults < MaxFaults
    /\ faults' = faults + 1
    /\ crash' = crash \cup {node}
    /\ timers' = IF forGood THEN timers ELSE Append(timers, <<"crash", node>>)
    /\ UNCHANGED <<setup, job, nodes, conns, listening, panicked, fault, delayed, recv, delivered,
                   lost>>

\* A timer fires and ends the fault, whatever other timers there are for it.
TimerFires(i) ==
    /\ timers' = RemoveAt(timers, i)
    /\ \/ /\ timers[i][1] = "crash"
          /\ crash' = crash \ {timers[i][2]}
          /\ UNCHANGED fault
       \/ /\ timers[i][1] # "crash"
          /\ fault' = [fault EXCEPT ![timers[i]] = FALSE]
          /\ UNCHANGED crash
    /\ UNCHANGED <<setup, job, nodes, conns, listening, panicked, faults, delayed, recv, delivered,
                   lost>>

-----------------------------------------------------------------------------

Work ==
    \/ \E g \in Goroutines :
          \/ \E to \in Peers : Send(g, to) \/ Send2(g, to)
          \/ Dial(g) \/ StoreTransport(g) \/ Transmit(g)
    \/ \E d \in delayed : TransmitDelayed(d)
    \/ \E peer \in Peers : Listen(peer)
    \/ \E port \in Ports : \E t \in 1..Len(conns[port]) : Encode(port, t) \/ Decode(port, t)
    \/ \E peer \in Peers :
          \/ 1 \in Nets /\ Recv(peer)
          \/ 2 \in Nets /\ Recv2(peer)

Next ==
    /\ ~panicked
    /\ \/ Work
       \/ \E g \in Goroutines :
             \/ \E net \in Nets : Broadcast(g, net)
             \/ \E set \in NodeSets :
                   BroadcastByGroup(g, set) \/ \E net \in Nets : MulticastQuorum(g, set, net)
       \/ \E peer \in Peers, kind \in Kinds : Inject(kind, peer)
       \/ \E node \in Nodes, forGood \in BOOLEAN : Crash(node, forGood)
       \/ \E i \in 1..Len(timers) : TimerFires(i)

Spec == Init /\ [][Next]_vars

-----------------------------------------------------------------------------

\* The messages for a port that are on their way or have arrived.
Copies(port) ==
    delivered[port] \o recv[port]
        \o FlattenSeq([t \in 1..Len(conns[port]) |-> conns[port][t].wire \o conns[port][t].send])
        \o SetToSeq({d[3] : d \in {x \in delayed : x[1] = port}})

\* No fault and no race of two dials makes a second copy of a message, and a
\* message that was dropped does not arrive after all.  A goroutine's messages
\* arrive at a port in the order it sent them, unless two goroutines dialed the
\* port at the same time, or Delay or a fault put them off.
OnceInOrder ==
    \A port \in Ports :
        /\ IsInjective(Copies(port))
        /\ \A m \in ToSet(Copies(port)) : <<port, m>> \notin lost
        /\ Len(conns[port]) <= 1 /\ ~Delay /\ faults = 0 =>
             \A i, j \in 1..Len(delivered[port]) :
                i < j /\ delivered[port][i][1] = delivered[port][j][1]
                    => delivered[port][i][2] < delivered[port][j][2]

\* Without faults every message is received by every peer before the node has
\* nothing left to do, also when channels are full, peers start late or two
\* goroutines dial at once; the exception is a peer that starts so late that Retry
\* gives up and the node panics.  (A set of receivers has all the peers here.)
QuietMeansArrived ==
    faults = 0 /\ ~panicked /\ ~ENABLED Work =>
        \A g \in Goroutines : \A k \in 1..job[g].sent : \A peer \in Peers :
            \E net \in Nets : <<g, k>> \in ToSet(delivered[<<peer, net>>])
=============================================================================
