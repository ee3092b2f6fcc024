---------------------------- MODULE NetworkProofs ---------------------------
(***************************************************************************)
(* The safety of Network for every size of the rings, the pool and the     *)
(* tables and for every set of peers.  A run of internet serves one        *)
(* connection with socket 1, handles one frame at a time, and its          *)
(* transmit ring is in one of four phases, or was never set up; that is    *)
(* the invariant.                                                          *)
(***************************************************************************)
EXTENDS Network, SequenceTheorems, TLAPS

-----------------------------------------------------------------------------
(* Arithmetic on ring indices and the first free buffers. *)

LEMMA RingArithmetic ==
  ASSUME NEW n \in Nat \ {0}, NEW a \in 0 .. n - 1, NEW b \in 0 .. n - 1
  PROVE  /\ (a - b) % n = IF a >= b THEN a - b ELSE a - b + n
         /\ (a + 1) % n = IF a + 1 < n THEN a + 1 ELSE 0
<1>1. CASE a >= b
  BY <1>1
<1>2. CASE ~(a >= b)
  <2> DEFINE x == a - b
  <2>1. x \in Int /\ x < 0 /\ x + n >= 0
    BY <1>2
  <2> HIDE DEF x
  <2>2. x % n = x + n
    BY <2>1
  <2> QED BY <1>2, <2>2 DEF x
<1> QED BY <1>1, <1>2

LEMMA OneOrNone ==
  ASSUME NEW S, NEW a, \A x \in S : x = a
  PROVE  S = {} \/ S = {a}
OBVIOUS

\* wx_net_buf_alloc takes the first free buffer.
LEMMA FirstBuffers ==
  /\ {1, 2, 3} \subseteq Buffers
  /\ Alloc({}) = 1
  /\ Alloc({1}) = 2
  /\ Alloc({1, 2}) = 3
<1>1. {1, 2, 3} \subseteq Buffers
  BY NetworkConstants DEF Buffers
<1>2. Min(Buffers \ {}) = 1
  BY <1>1, NetworkConstants DEF Min, Buffers
<1>3. Min(Buffers \ {1}) = 2
  BY <1>1, NetworkConstants DEF Min, Buffers
<1>4. Min(Buffers \ {1, 2}) = 3
  BY <1>1, NetworkConstants DEF Min, Buffers
<1>5. Buffers # {} /\ Buffers # {1} /\ Buffers # {1, 2}
  BY <1>1
<1> QED BY <1>1, <1>2, <1>3, <1>4, <1>5 DEF Alloc

-----------------------------------------------------------------------------
(***************************************************************************)
(* What handling a frame does, when no buffer is in use before.            *)
(***************************************************************************)
BufferInv ==
  /\ ~Waiting => sending = Idle
  /\ BuffersAccounted

\* While internetmain runs, socket 1 is its server and the only one in use:
\* it listens, or has answered a SYN and its number has moved or moves when the
\* transmission ends, or is connected.
Half == tcp_sockets[1].state = SYN_RCVD
ServerInv ==
  pc \in {"poll", "tx"} =>
    /\ \A s \in Sockets \ {1} :
         ~tcp_sockets[s].used /\ tcp_sockets[s].state = 0 /\ tcp_sockets[s].remote = None
    /\ tcp_sockets[1].used /\ tcp_sockets[1].local_port = 80
    /\ \/ tcp_sockets[1].state = LISTEN /\ tcp_sockets[1].remote = None
       \/ /\ Half /\ tcp_sockets[1].remote \in Hosts
          /\ \/ sending.sock = NULL /\ tcp_sockets[1].snd_nxt = ISS + 1
             \/ pc = "tx" /\ sending.sock = 1 /\ tcp_sockets[1].snd_nxt = ISS
       \/ tcp_sockets[1].state = ESTABLISHED /\ tcp_sockets[1].remote \in Hosts
    /\ sending.sock \in {NULL, 1}
    /\ sending.sock = 1 => Half /\ \E k \in {"syn_ack", "arp_request"} :
         sending.frame = [kind |-> k, to |-> tcp_sockets[1].remote]

\* The descriptor of the frame goes back to the card.
Retired ==
  /\ rx_ring' = [rx_ring EXCEPT ![e1000_rx_ptr] = None]
  /\ RDT' = e1000_rx_ptr
  /\ e1000_rx_ptr' = RxNext(e1000_rx_ptr)
  /\ pc' = "poll"
  /\ buf_pool_used' = {}
  /\ sending' = Idle
  /\ UNCHANGED tx

\* A frame is given to the card and the driver waits.
Transmits(frame, s, loop) ==
  /\ TxRaw(loop)
  /\ buf_pool_used' \subseteq Buffers
  /\ sending' = [frame |-> frame, free |-> buf_pool_used', sock |-> s]
  /\ UNCHANGED rx

\* Frames that concern no connection, and segments that change none.
Elsewhere ==
  /\ UNCHANGED tcp_sockets
  /\ \/ Retired
     \/ \E frame \in Reply : frame.kind # "syn_ack" /\ Transmits(frame, NULL, "tx")

\* A SYN taken by a listening socket.
Taken(h, s) ==
  [tcp_sockets EXCEPT ![s] =
     [@ EXCEPT !.remote = h, !.state = SYN_RCVD, !.snd_nxt = ISS]]
Accepting ==
  \E h \in Hosts, s \in Sockets, k \in {"syn_ack", "arp_request"} :
    /\ s = Tcb(h) /\ Accepts(s)
    /\ tcp_sockets' = Taken(h, s)
    /\ Transmits([kind |-> k, to |-> h], s, "tx")

\* A segment with an acknowledgement.
Acknowledging ==
  /\ HasFrame
  /\ Received.kind = "ack"
  /\ Received \in AllFrames
  /\ tcp_sockets' = Established(tcp_sockets, Tcb(Received.from), Received.ack_num)
  /\ Retired

\* The socket a segment is for.
LEMMA TcbIsServer ==
  ASSUME ServerInv, pc = "poll", NEW h \in Hosts
  PROVE  /\ Tcb(h) \in {NULL, 1}
         /\ 1 \in Sockets
         /\ Tcb(h) = 1 /\ tcp_sockets[1].state # LISTEN => tcp_sockets[1].remote = h
<1> DEFINE ours == {s \in Sockets : tcp_sockets[s].used /\ tcp_sockets[s].local_port = 80}
           connected == {s \in ours : tcp_sockets[s].remote = h}
           listening == {s \in ours : tcp_sockets[s].state = LISTEN}
<1>1. 1 \in Sockets
  BY NetworkConstants DEF Sockets
<1>2. ours = {1}
  BY <1>1 DEF ServerInv
<1>3. Min({1}) = 1
  BY DEF Min
<1>4. Tcb(h) = IF connected # {} THEN Min(connected)
               ELSE IF listening # {} THEN Min(listening) ELSE NULL
  BY DEF Tcb
<1> HIDE DEF ours
<1>5. /\ connected = {} \/ (connected = {1} /\ tcp_sockets[1].remote = h)
      /\ listening = {} \/ (listening = {1} /\ tcp_sockets[1].state = LISTEN)
  <2>1. /\ \A x : x \in connected <=> x = 1 /\ tcp_sockets[1].remote = h
        /\ \A x : x \in listening <=> x = 1 /\ tcp_sockets[1].state = LISTEN
    BY <1>2
  <2> HIDE DEF connected, listening
  <2>2. connected = {} \/ (connected = {1} /\ tcp_sockets[1].remote = h)
    <3>1. connected = {} \/ connected = {1}
      BY <2>1, OneOrNone
    <3> QED BY <2>1, <3>1
  <2>3. listening = {} \/ (listening = {1} /\ tcp_sockets[1].state = LISTEN)
    <3>1. listening = {} \/ listening = {1}
      BY <2>1, OneOrNone
    <3> QED BY <2>1, <3>1
  <2> QED BY <2>2, <2>3
<1> HIDE DEF connected, listening
<1> QED BY <1>1, <1>3, <1>4, <1>5 DEF NULL

LEMMA FrameFields ==
  ASSUME NEW f \in AllFrames
  PROVE  /\ f.kind \in {"arp_request", "arp_other"} => f.from \in Hosts /\ f.mac \in Macs
         /\ f.kind \in {"echo", "syn"} => f.from \in Hosts
         /\ f.kind = "ack" => f.from \in Hosts /\ f.ack_num \in {ISS, ISS + 1}
         /\ f # None
<1>1. CASE f \in [kind : {"arp_request", "arp_other"}, from : Hosts, mac : Macs]
  BY <1>1, NetworkConstants
<1>2. CASE f \in [kind : {"echo", "syn"}, from : Hosts]
  BY <1>2, NetworkConstants
<1>3. CASE f \in [kind : {"ack"}, from : Hosts, ack_num : {ISS, ISS + 1}]
  BY <1>3, NetworkConstants
<1>4. CASE f \in [kind : {"other"}]
  BY <1>4, NetworkConstants
<1> QED BY <1>1, <1>2, <1>3, <1>4 DEF AllFrames

\* An answer goes out, or an ARP request in its place, and every buffer that
\* is taken is freed afterwards (Respond, ArpProcess).
LEMMA RespondOut ==
  ASSUME NEW k \in {"echo_reply", "syn_ack"}, NEW h \in Hosts
  PROVE  LET out == Respond({1}, 1, [kind |-> k, to |-> h])
         IN /\ out.used = out.free /\ out.used \subseteq Buffers
            /\ out.frame \in {[kind |-> k, to |-> h], [kind |-> "arp_request", to |-> h]}
            /\ out.frame # None
<1> DEFINE frame == [kind |-> k, to |-> h]
           out == IpSend({1, 2}, 2, frame)
<1>0. {frame, [kind |-> "arp_request", to |-> h]} \subseteq Reply
  BY DEF Reply
<1>1. frame # None /\ [kind |-> "arp_request", to |-> h] # None
  BY <1>0, NetworkConstants
<1>2. /\ Respond({1}, 1, frame) = [out EXCEPT !.free = @ \cup {1}]
  BY FirstBuffers DEF Respond, NULL
<1>3. CASE ArpLookup(h)
  <2>1. out = [used |-> {1, 2}, frame |-> frame, free |-> {2}]
    BY <1>3 DEF IpSend
  <2> QED BY <1>1, <1>2, <2>1, FirstBuffers
<1>4. CASE ~ArpLookup(h)
  <2>1. out = [used |-> {1, 2, 3}, free |-> {3, 2},
               frame |-> [kind |-> "arp_request", to |-> h]]
    BY <1>4, FirstBuffers DEF IpSend, NULL
  <2> QED BY <1>1, <1>2, <2>1, FirstBuffers
<1> QED BY <1>3, <1>4

\* Conclude transmits the frame of an answer and retires a frame without one.
LEMMA ConcludeTransmits ==
  ASSUME NEW out, NEW socks, NEW s, Conclude(out, socks, s),
         out.used = out.free, out.used \subseteq Buffers, out.frame # None
  PROVE  Transmits(out.frame, s, "tx") /\ tcp_sockets' = socks
BY DEF Conclude, Transmit, Transmits

LEMMA ConcludeRetires ==
  ASSUME NEW out, NEW socks, Conclude(out, socks, NULL),
         out.used = out.free, out.frame = None
  PROVE  Retired /\ tcp_sockets' = socks
BY DEF Conclude, Complete, Retired, RxAdvance

LEMMA PollEffect ==
  ASSUME TypeOK, BufferInv, ServerInv, Poll
  PROVE  /\ HasFrame
         /\ UNCHANGED <<RDH, TDH, stale, e1000_base, start, sent, answered>>
         /\ Elsewhere \/ Accepting \/ Acknowledging
         /\ ~PollArp => UNCHANGED <<arp_cache, announced>>
<1>0. HasFrame
  BY DEF Poll, PollDropped, PollArp, PollEcho, PollSyn, PollAck
<1>1. /\ buf_pool_used = {}
      /\ Received \in AllFrames
      /\ \A buf \in Buffers : HasBuffer(buf) => buf = 1
  <2>1. buf_pool_used = {}
    BY <1>0 DEF HasFrame, BufferInv, BuffersAccounted, Idle, Waiting
  <2>2. Received \in AllFrames
    BY <1>0 DEF HasFrame, Received, TypeOK
  <2> QED BY <2>1, <2>2, FirstBuffers DEF HasBuffer
<1>2. CASE PollDropped
  <2>1. Retired /\ UNCHANGED tcp_sockets
    BY <1>1, <1>2 DEF PollDropped, Complete, Retired, RxAdvance, NULL
  <2> QED BY <1>2, <2>1 DEF PollDropped, Elsewhere, past, device
<1>3. CASE PollArp
  <2> DEFINE out == ArpProcess({1}, 1, Received)
  <2>1. Received.from \in Hosts
    BY <1>1, <1>3, FrameFields DEF PollArp
  <2>2. Conclude(out, tcp_sockets, NULL)
    BY <1>1, <1>3 DEF PollArp
  <2>3. CASE Received.kind = "arp_request"
    <3>1. out = [used |-> {1, 2}, free |-> {2, 1},
                 frame |-> [kind |-> "arp_reply", to |-> Received.from]]
      BY <2>3, FirstBuffers DEF ArpProcess, NULL
    <3>2. [kind |-> "arp_reply", to |-> Received.from] \in Reply
      BY <2>1 DEF Reply
    <3>3. Transmits(out.frame, NULL, "tx") /\ UNCHANGED tcp_sockets
      BY <2>2, <3>1, <3>2, FirstBuffers, NetworkConstants, ConcludeTransmits
    <3>4. Elsewhere
      BY <3>1, <3>2, <3>3 DEF Elsewhere
    <3> QED BY <1>3, <3>4 DEF PollArp, device
  <2>4. CASE Received.kind # "arp_request"
    <3>1. out = [used |-> {1}, frame |-> None, free |-> {1}]
      BY <2>4 DEF ArpProcess, Dropped
    <3>2. Retired /\ UNCHANGED tcp_sockets
      BY <2>2, <3>1, ConcludeRetires
    <3> QED BY <1>3, <3>2 DEF PollArp, Elsewhere, device
  <2> QED BY <2>3, <2>4
<1>4. CASE PollEcho
  <2> DEFINE out == Respond({1}, 1, [kind |-> "echo_reply", to |-> Received.from])
  <2>1. Received.from \in Hosts
    BY <1>1, <1>4, FrameFields DEF PollEcho
  <2>2. Conclude(out, tcp_sockets, NULL)
    BY <1>1, <1>4 DEF PollEcho
  <2>3. /\ out.used = out.free /\ out.used \subseteq Buffers /\ out.frame # None
        /\ out.frame \in {[kind |-> "echo_reply", to |-> Received.from],
                          [kind |-> "arp_request", to |-> Received.from]}
    BY <2>1, RespondOut
  <2> HIDE DEF out
  <2>4. Transmits(out.frame, NULL, "tx") /\ UNCHANGED tcp_sockets
    BY <2>2, <2>3, ConcludeTransmits
  <2>5. out.frame \in Reply /\ out.frame.kind # "syn_ack"
    BY <2>1, <2>3 DEF Reply
  <2> QED BY <1>4, <2>4, <2>5 DEF PollEcho, Elsewhere, past, device
<1>5. CASE PollSyn
  <2> DEFINE h == Received.from
             s == Tcb(h)
             socks == Taken(h, s)
             out == Respond({1}, 1, [kind |-> "syn_ack", to |-> h])
  <2>1. h \in Hosts
    BY <1>1, <1>5, FrameFields DEF PollSyn
  <2>2. CASE Accepts(s)
    <3>0. s \in Sockets
      BY <1>5, <2>1, <2>2, TcbIsServer DEF Accepts, PollSyn, HasFrame
    <3>1. Conclude(out, socks, s)
      BY <1>1, <1>5, <2>2, FirstBuffers DEF PollSyn, Taken, NULL
    <3>2. /\ out.used = out.free /\ out.used \subseteq Buffers /\ out.frame # None
          /\ out.frame \in {[kind |-> "syn_ack", to |-> h], [kind |-> "arp_request", to |-> h]}
      BY <2>1, RespondOut
    <3> HIDE DEF out
    <3>3. Transmits(out.frame, s, "tx") /\ tcp_sockets' = socks
      BY <3>1, <3>2, ConcludeTransmits
    <3>4. Accepting
      BY <2>1, <2>2, <3>0, <3>2, <3>3 DEF Accepting
    <3> QED BY <1>5, <3>4 DEF PollSyn, past, device
  <2>3. CASE ~Accepts(s)
    <3>1. Conclude(Dropped({1}, 1), tcp_sockets, NULL)
      BY <1>1, <1>5, <2>3 DEF PollSyn
    <3>2. Retired /\ UNCHANGED tcp_sockets
      BY <3>1, ConcludeRetires DEF Dropped
    <3> QED BY <1>5, <3>2 DEF PollSyn, Elsewhere, past, device
  <2> QED BY <2>2, <2>3
<1>6. CASE PollAck
  <2>1. Retired /\ tcp_sockets' = Established(tcp_sockets, Tcb(Received.from), Received.ack_num)
    BY <1>1, <1>6 DEF PollAck, Complete, Retired, RxAdvance, NULL
  <2> QED BY <1>1, <1>6, <2>1 DEF PollAck, Acknowledging, past, device
<1> QED BY <1>0, <1>2, <1>3, <1>4, <1>5, <1>6 DEF Poll

\* The end of wx_e1000_tx_raw: the counter of a connection moves.
LEMMA TxDoneEffect ==
  ASSUME TypeOK, BufferInv, ServerInv, TxDone
  PROVE  /\ pc = "tx"
         /\ \E i \in TxSlot : TxNext(i) = e1000_tx_ptr /\ tx_ring[i] # "queued"
         /\ Retired
         /\ UNCHANGED <<arp_cache, RDH, TDH, stale, past, device>>
         /\ \/ sending.sock = NULL /\ UNCHANGED tcp_sockets
            \/ /\ sending.sock = 1 /\ Half /\ tcp_sockets[1].snd_nxt = ISS
               /\ tcp_sockets' = [tcp_sockets EXCEPT ![1].snd_nxt = ISS + 1]
<1>1. /\ pc = "tx"
      /\ Complete(buf_pool_used, sending.free, tcp_sockets, sending.sock)
      /\ UNCHANGED <<arp_cache, tx, RDH, TDH, stale, past, device>>
      /\ \E i \in TxSlot : TxNext(i) = e1000_tx_ptr /\ tx_ring[i] # "queued"
  BY DEF TxDone, LoopEnds, past
<1>2. Retired
  BY <1>1 DEF Complete, Retired, RxAdvance, BufferInv, BuffersAccounted
<1>3. \/ sending.sock = NULL
      \/ sending.sock = 1 /\ Half /\ tcp_sockets[1].snd_nxt = ISS
  BY <1>1 DEF ServerInv, NULL, ISS, LISTEN, ESTABLISHED, SYN_RCVD, Half
<1>4. CASE sending.sock = NULL
  BY <1>1, <1>2, <1>4 DEF Complete
<1>5. CASE sending.sock = 1 /\ Half /\ tcp_sockets[1].snd_nxt = ISS
  <2>1. tcp_sockets' = [tcp_sockets EXCEPT ![1].snd_nxt = ISS + 1]
    BY <1>1, <1>5 DEF Complete, NULL
  <2> QED BY <1>1, <1>2, <1>5, <2>1
<1> QED BY <1>3, <1>4, <1>5

\* The command ping gives the card one frame, which belongs to no connection.
LEMMA PingEffect ==
  ASSUME BufferInv, Ping
  PROVE  /\ pc = "shell" /\ pc' = "ping"
         /\ UNCHANGED <<arp_cache, tcp_sockets, RDH, TDH, stale, past, device>>
         /\ \E frame \in Reply : Transmits(frame, NULL, "ping")
<1> DEFINE frame == [kind |-> "echo_request", to |-> Loopback]
           request == [kind |-> "arp_request", to |-> Loopback]
           out == IpSend({1}, 1, frame)
<1>1. /\ pc = "shell"
      /\ UNCHANGED <<arp_cache, tcp_sockets, RDH, TDH, stale, past, device>>
      /\ \E buf \in Buffers :
           /\ HasBuffer(buf)
           /\ LET o == IpSend(buf_pool_used \cup {buf}, buf, frame)
              IN o.frame # None /\ Transmit(o, NULL, "ping")
  BY DEF Ping, AtShell, past
<1>2. buf_pool_used = {}
  BY <1>1 DEF BufferInv, BuffersAccounted, Idle, Waiting
<1>3. Transmit(out, NULL, "ping")
  BY <1>1, <1>2, FirstBuffers DEF HasBuffer
<1>4. \/ out = [used |-> {1}, frame |-> frame, free |-> {1}]
      \/ out = [used |-> {1, 2}, free |-> {2, 1}, frame |-> request]
  BY FirstBuffers DEF IpSend, NULL
<1>5. /\ out.used = out.free /\ out.used \subseteq Buffers
      /\ out.frame \in {frame, request}
  BY <1>4, FirstBuffers
<1>6. {frame, request} \subseteq Reply
  BY DEF Reply
<1> HIDE DEF out
<1>7. Transmits(out.frame, NULL, "ping")
  BY <1>3, <1>5 DEF Transmit, Transmits
<1>8. pc' = "ping"
  BY <1>7 DEF Transmits, TxRaw
<1> QED BY <1>1, <1>5, <1>6, <1>7, <1>8

LEMMA PingDoneEffect ==
  ASSUME BufferInv, PingDone
  PROVE  /\ pc = "ping" /\ pc' = "shell"
         /\ \E i \in TxSlot : TxNext(i) = e1000_tx_ptr /\ tx_ring[i] # "queued"
         /\ buf_pool_used' = {} /\ sending' = Idle
         /\ UNCHANGED <<arp_cache, tcp_sockets, rx, tx, RDH, TDH, stale, past, device>>
BY DEF PingDone, LoopEnds, BufferInv, BuffersAccounted, past

States == 0 .. 3
Ports == {0, 80}
Peers == Hosts \cup {None}
Numbers == {0, ISS, ISS + 1}
SocketRecord == [used : BOOLEAN, state : States, local_port : Ports, remote : Peers,
                 snd_nxt : Numbers]
SocketTable == [Sockets -> SocketRecord]

\* The table of sockets internetmain starts with.
LEMMA ServerTable ==
  /\ 1 \in Sockets
  /\ ServerSocket \in SocketTable
  /\ ServerSocket[1].used /\ ServerSocket[1].local_port = 80
  /\ ServerSocket[1].state = LISTEN /\ ServerSocket[1].remote = None
  /\ \A s \in Sockets \ {1} :
       ~ServerSocket[s].used /\ ServerSocket[s].state = 0 /\ ServerSocket[s].remote = None
<1>1. 1 \in Sockets
  BY NetworkConstants DEF Sockets
<1>2. FreeSocket(NoSockets) = Sockets
  BY DEF FreeSocket, NoSockets
<1>3. Min(Sockets) = 1
  BY <1>1, NetworkConstants DEF Min, Sockets
<1>4. /\ NoSockets \in SocketTable
      /\ \A s \in Sockets :
           ~NoSockets[s].used /\ NoSockets[s].state = 0 /\ NoSockets[s].remote = None
  BY DEF NoSockets, SocketTable, SocketRecord, States, Ports, Peers, Numbers
<1> DEFINE none == NoSockets[1]
           taken == [none EXCEPT !.used = TRUE, !.state = 0]
           table == [NoSockets EXCEPT ![1] = taken]
           server == [taken EXCEPT !.local_port = 80, !.state = LISTEN]
<1>5. none \in SocketRecord
  BY <1>1, <1>4 DEF SocketTable
<1>6. none.remote = None
  BY <1>1, <1>4
<1>7. Socket(NoSockets) = table
  BY <1>2, <1>3 DEF Socket
<1> HIDE DEF none
<1>8. taken \in SocketRecord
  <2>1. 0 \in States
    BY DEF States
  <2> QED BY <1>5, <2>1 DEF SocketRecord
<1>9. taken.used
  BY <1>5 DEF SocketRecord
<1>10. taken.remote = None
  BY <1>5, <1>6 DEF SocketRecord
<1>11. table \in SocketTable /\ table[1] = taken
  BY <1>1, <1>4, <1>8 DEF SocketTable
<1>12. \A s \in Sockets \ {1} : table[s] = NoSockets[s]
  BY <1>1, <1>4 DEF SocketTable
<1> HIDE DEF taken
<1>13. server \in SocketRecord
  <2>1. 80 \in Ports /\ LISTEN \in States
    BY DEF Ports, States, LISTEN
  <2> QED BY <1>8, <2>1 DEF SocketRecord
<1>14. server.used
  BY <1>8, <1>9 DEF SocketRecord, LISTEN
<1>15. server.local_port = 80 /\ server.state = LISTEN /\ server.remote = None
  BY <1>8, <1>10 DEF SocketRecord
<1> HIDE DEF table
<1>16. ServerSocket = [table EXCEPT ![1] = server]
  BY <1>1, <1>7, <1>11 DEF ServerSocket, SocketTable
<1> HIDE DEF server
<1>17. ServerSocket \in SocketTable /\ ServerSocket[1] = server
  BY <1>1, <1>11, <1>13, <1>16 DEF SocketTable
<1>18. \A s \in Sockets \ {1} : ServerSocket[s] = NoSockets[s]
  BY <1>1, <1>11, <1>12, <1>16 DEF SocketTable
<1> QED BY <1>1, <1>4, <1>14, <1>15, <1>17, <1>18

-----------------------------------------------------------------------------
(***************************************************************************)
(* Type correctness.                                                       *)
(***************************************************************************)
\* The indices stay in their rings and the first descriptors exist.
LEMMA RingTypes ==
  /\ \A i \in RxSlot : RxNext(i) \in RxSlot
  /\ \A i \in TxSlot : TxNext(i) \in TxSlot
  /\ 0 \in RxSlot /\ 0 \in TxSlot /\ InitialTail \in RxSlot
BY NetworkConstants DEF RxSlot, TxSlot, RxNext, TxNext, InitialTail

\* The driver, its rings and the pool.
DriverType ==
  /\ pc \in {"shell", "poll", "tx", "ping"}
  /\ buf_pool_used \subseteq Buffers
  /\ rx_ring \in [RxSlot -> AllFrames \cup {None}]
  /\ tx_ring \in [TxSlot -> {"blank", "queued", "done"}]
  /\ {e1000_rx_ptr, RDH, RDT} \subseteq RxSlot
  /\ {e1000_tx_ptr, TDH, TDT} \subseteq TxSlot
  /\ sending \in [frame : Reply \cup {None}, free : SUBSET Buffers, sock : Sockets \cup {NULL}]

\* What each ring step leaves is well-typed.
LEMMA RetiredType ==
  ASSUME TypeOK, Retired, UNCHANGED <<RDH, TDH>>
  PROVE  DriverType'
BY RingTypes DEF TypeOK, Retired, tx, Idle, DriverType

LEMMA TransmitsType ==
  ASSUME TypeOK, UNCHANGED <<RDH, TDH>>, NEW frame \in Reply, NEW s \in Sockets \cup {NULL},
         NEW loop \in {"tx", "ping"}, Transmits(frame, s, loop)
  PROVE  DriverType'
BY RingTypes DEF TypeOK, Transmits, TxRaw, rx, DriverType

\* wx_arp_update keeps the cache a sequence of entries that fits.
LEMMA CacheType ==
  ASSUME TypeOK, NEW ip \in Hosts, NEW mac \in Macs
  PROVE  /\ ArpUpdate(ip, mac) \in Seq([ip : Hosts, mac : Macs])
         /\ Len(ArpUpdate(ip, mac)) <= WX_ARP_CACHE_SIZE
<1> DEFINE E == [ip : Hosts, mac : Macs]
           added == [ip |-> ip, mac |-> mac]
<1>0. added \in E
  OBVIOUS
<1>1. /\ arp_cache \in Seq(E) /\ Len(arp_cache) <= WX_ARP_CACHE_SIZE
      /\ Len(arp_cache) \in Nat /\ WX_ARP_CACHE_SIZE \in Nat
  BY NetworkConstants DEF TypeOK
<1>2. CASE ArpLookup(ip)
  <2> DEFINE k == Min(Entry(ip))
             e == [arp_cache[k] EXCEPT !.mac = mac]
             c == [arp_cache EXCEPT ![k] = e]
  <2>1. ArpUpdate(ip, mac) = c
    BY <1>2 DEF ArpUpdate
  <2>2. CASE k \in 1 .. Len(arp_cache)
    <3>1. arp_cache[k] \in E
      BY <1>1, <2>2, ElementOfSeq
    <3>2. e \in E
      BY <3>1
    <3> HIDE DEF e, k, E
    <3> QED BY <1>1, <2>1, <2>2, <3>2, ExceptSeq DEF E
  <2>3. CASE k \notin 1 .. Len(arp_cache)
    <3> HIDE DEF e, k
    <3>1. c = arp_cache
      BY <1>1, <2>3, LenProperties
    <3> QED BY <1>1, <2>1, <3>1
  <2> QED BY <2>2, <2>3
<1>3. CASE ~ArpLookup(ip)
  <2>1. ArpUpdate(ip, mac) =
          IF Len(arp_cache) < WX_ARP_CACHE_SIZE THEN Append(arp_cache, added) ELSE arp_cache
    BY <1>3 DEF ArpUpdate
  <2>2. Append(arp_cache, added) \in Seq(E) /\ Len(Append(arp_cache, added)) = Len(arp_cache) + 1
    <3> HIDE DEF added, E
    <3> QED BY <1>0, <1>1, AppendProperties
  <2>3. ArpUpdate(ip, mac) \in Seq(E) /\ Len(ArpUpdate(ip, mac)) <= WX_ARP_CACHE_SIZE
    <3> HIDE DEF added, E
    <3>1. CASE Len(arp_cache) < WX_ARP_CACHE_SIZE
      BY <1>1, <2>1, <2>2, <3>1
    <3>2. CASE ~(Len(arp_cache) < WX_ARP_CACHE_SIZE)
      BY <1>1, <2>1, <3>2
    <3> QED BY <3>1, <3>2
  <2> QED BY <2>3
<1> QED BY <1>2, <1>3

-----------------------------------------------------------------------------
(* The control blocks. *)

\* The values written are of the types of their fields.
LEMMA FieldValues ==
  /\ 0 \in States /\ SYN_RCVD \in States /\ ESTABLISHED \in States
  /\ ISS \in Numbers /\ ISS + 1 \in Numbers /\ Hosts \subseteq Peers
BY DEF States, SYN_RCVD, ESTABLISHED, Numbers, Peers

\* One control block replaced.
LEMMA TableUpdate ==
  ASSUME NEW table \in SocketTable, NEW k, NEW r,
         k \in Sockets => r \in SocketRecord
  PROVE  [table EXCEPT ![k] = r] \in SocketTable
<1>1. CASE k \in Sockets
  BY <1>1 DEF SocketTable
<1>2. CASE k \notin Sockets
  BY <1>2 DEF SocketTable
<1> QED BY <1>1, <1>2

\* Only frames accepted, acknowledgements, the end of a transmission and the
\* two commands change the table.
LEMMA SocketStep ==
  ASSUME TypeOK, BufferInv, ServerInv, Next
  PROVE  tcp_sockets' \in SocketTable
<1>1. tcp_sockets \in SocketTable
  BY DEF TypeOK, SocketTable, SocketRecord, States, Ports, Peers, Numbers
<1>2. CASE RunInternet
  BY <1>2, ServerTable DEF RunInternet
<1>3. CASE PkgListen
  <2> DEFINE k == Min(FreeSocket(tcp_sockets))
             x == tcp_sockets[k]
             r == [x EXCEPT !.used = TRUE, !.state = 0]
             table == [tcp_sockets EXCEPT ![k] = r]
             y == table[k]
             q == [y EXCEPT !.state = SYN_RCVD]
  <2>1. tcp_sockets' = [table EXCEPT ![k] = q]
    BY <1>3 DEF PkgListen, Socket
  <2> HIDE DEF k
  <2>2. k \in Sockets => x \in SocketRecord
    BY <1>1 DEF SocketTable
  <2> HIDE DEF x
  <2>3. k \in Sockets => r \in SocketRecord
    BY <2>2, FieldValues DEF SocketRecord
  <2> HIDE DEF r
  <2>4. table \in SocketTable
    BY <1>1, <2>3, TableUpdate
  <2> HIDE DEF table
  <2>5. k \in Sockets => y \in SocketRecord
    BY <2>4 DEF SocketTable
  <2> HIDE DEF y
  <2>6. k \in Sockets => q \in SocketRecord
    BY <2>5, FieldValues DEF SocketRecord
  <2> HIDE DEF q
  <2> QED BY <2>1, <2>4, <2>6, TableUpdate
<1>4. CASE Poll
  <2>1. CASE Elsewhere
    BY <1>1, <2>1 DEF Elsewhere
  <2>2. CASE Accepting
    <3>1. PICK h \in Hosts, s \in Sockets, k \in {"syn_ack", "arp_request"} :
            /\ s = Tcb(h) /\ Accepts(s)
            /\ tcp_sockets' = Taken(h, s)
            /\ Transmits([kind |-> k, to |-> h], s, "tx")
      BY <2>2 DEF Accepting
    <3> DEFINE x == tcp_sockets[s]
               q == [x EXCEPT !.remote = h, !.state = SYN_RCVD, !.snd_nxt = ISS]
    <3>2. tcp_sockets' = [tcp_sockets EXCEPT ![s] = q]
      BY <3>1 DEF Taken
    <3>3. x \in SocketRecord
      BY <1>1 DEF SocketTable
    <3> HIDE DEF x
    <3>4. q \in SocketRecord
      BY <3>3, FieldValues DEF SocketRecord
    <3> HIDE DEF q
    <3> QED BY <1>1, <3>2, <3>4, TableUpdate
  <2>3. CASE Acknowledging
    <3> DEFINE s == Tcb(Received.from)
               x == tcp_sockets[s]
               q == [x EXCEPT !.state = ESTABLISHED]
               table == [tcp_sockets EXCEPT ![s] = q]
    <3>1. tcp_sockets' = tcp_sockets \/ tcp_sockets' = table
      BY <2>3 DEF Acknowledging, Established
    <3> HIDE DEF s
    <3>2. s \in Sockets => x \in SocketRecord
      BY <1>1 DEF SocketTable
    <3> HIDE DEF x
    <3>3. s \in Sockets => q \in SocketRecord
      BY <3>2, FieldValues DEF SocketRecord
    <3> HIDE DEF q
    <3>4. table \in SocketTable
      BY <1>1, <3>3, TableUpdate
    <3> QED BY <1>1, <3>1, <3>4
  <2> QED BY <1>4, <2>1, <2>2, <2>3, PollEffect
<1>5. CASE TxDone
  <2> DEFINE n == ISS + 1
             x == tcp_sockets[1]
             q == [x EXCEPT !.snd_nxt = n]
             table == [tcp_sockets EXCEPT ![1] = q]
  <2>1. tcp_sockets' = tcp_sockets \/ tcp_sockets' = table
    BY <1>5, TxDoneEffect
  <2>2. n \in Numbers
    BY FieldValues
  <2> HIDE DEF n
  <2>3. 1 \in Sockets => x \in SocketRecord
    BY <1>1 DEF SocketTable
  <2> HIDE DEF x
  <2>4. 1 \in Sockets => q \in SocketRecord
    BY <2>2, <2>3 DEF SocketRecord
  <2> HIDE DEF q
  <2>5. table \in SocketTable
    BY <1>1, <2>4, TableUpdate
  <2> QED BY <1>1, <2>1, <2>5
<1>6. CASE Quit \/ Ping \/ PingDone \/ Card
  BY <1>1, <1>6 DEF Quit, Ping, PingDone, Card, CardReceive, CardSkip, CardTransmit
<1> QED BY <1>2, <1>3, <1>4, <1>5, <1>6 DEF Next

\* The cache and what was announced.
LEMMA CacheStep ==
  ASSUME TypeOK, BufferInv, ServerInv, Next
  PROVE  /\ arp_cache' \in Seq([ip : Hosts, mac : Macs])
         /\ Len(arp_cache') <= WX_ARP_CACHE_SIZE
         /\ announced' \in [Hosts -> Macs \cup {None}]
<1>1. CASE RunInternet
  BY <1>1, NetworkConstants DEF RunInternet
<1>2. CASE PollArp
  <2>1. Received.from \in Hosts /\ Received.mac \in Macs
    <3>1. Received \in AllFrames
      BY <1>2 DEF PollArp, HasFrame, Received, TypeOK
    <3> QED BY <1>2, <3>1, FrameFields DEF PollArp
  <2>2. /\ arp_cache' = ArpUpdate(Received.from, Received.mac)
        /\ announced' = [announced EXCEPT ![Received.from] = Received.mac]
    BY <1>2 DEF PollArp
  <2>3. announced' \in [Hosts -> Macs \cup {None}]
    BY <2>1, <2>2 DEF TypeOK
  <2> QED BY <2>1, <2>2, <2>3, CacheType
<1>3. CASE \/ (Poll /\ ~PollArp) \/ Quit \/ PkgListen \/ TxDone
           \/ Ping \/ PingDone \/ Card
  <2>1. arp_cache' = arp_cache /\ announced' = announced
    <3>1. CASE Poll /\ ~PollArp
      BY <3>1, PollEffect
    <3>2. CASE Quit \/ PkgListen \/ TxDone \/ Ping \/ PingDone \/ Card
      BY <3>2 DEF Quit, PkgListen, TxDone, Ping, PingDone, Card, CardReceive, CardSkip, CardTransmit, past, device
    <3> QED BY <1>3, <3>1, <3>2
  <2> QED BY <2>1 DEF TypeOK
<1> QED BY <1>1, <1>2, <1>3 DEF Next, Poll

\* What handling a frame does to the driver and the pool.
LEMMA PollCases ==
  ASSUME TypeOK, BufferInv, ServerInv, Poll
  PROVE  \/ Retired
         \/ \E frame \in Reply, s \in Sockets \cup {NULL} : Transmits(frame, s, "tx")
<1>1. \A h \in Hosts, k \in {"syn_ack", "arp_request"} : [kind |-> k, to |-> h] \in Reply
  BY DEF Reply
<1>2. CASE Elsewhere
  BY <1>2 DEF Elsewhere
<1>3. CASE Accepting
  BY <1>1, <1>3 DEF Accepting
<1>4. CASE Acknowledging
  BY <1>4 DEF Acknowledging
<1> QED BY <1>2, <1>3, <1>4, PollEffect

\* The rings, the pool and the frame in transit.
LEMMA DriverStep ==
  ASSUME TypeOK, BufferInv, ServerInv, Next
  PROVE  DriverType'
<1> USE DEF DriverType
<1>1. CASE RunInternet
  BY <1>1, RingTypes DEF RunInternet, TypeOK, pool
<1>2. CASE Quit
  BY <1>2 DEF Quit, TypeOK, pool, rx, tx
<1>3. CASE PkgListen
  BY <1>3 DEF PkgListen, TypeOK, pool, rx, tx
<1>4. CASE Poll
  <2>1. UNCHANGED <<RDH, TDH>>
    BY <1>4, PollEffect
  <2> QED BY <1>4, <2>1, PollCases, RetiredType, TransmitsType
<1>5. CASE TxDone
  BY <1>5, TxDoneEffect, RetiredType
<1>6. CASE Ping
  BY <1>6, PingEffect, TransmitsType
<1>7. CASE PingDone
  BY <1>7, PingDoneEffect DEF TypeOK, Idle, rx, tx
<1>8. CASE Card
  <2>1. CASE CardReceive
    BY <2>1, RingTypes, NetworkConstants DEF CardReceive, TypeOK, pool, tx
  <2>2. CASE CardSkip
    BY <2>2, RingTypes DEF CardSkip, TypeOK, pool, rx, tx
  <2>3. CASE CardTransmit
    BY <2>3, RingTypes DEF CardTransmit, TypeOK, pool, rx
  <2> QED BY <1>8, <2>1, <2>2, <2>3 DEF Card
<1> QED BY <1>1, <1>2, <1>3, <1>4, <1>5, <1>6, <1>7, <1>8 DEF Next

\* Only the command internet sets the base of the registers.
LEMMA BaseStep ==
  ASSUME TypeOK, BufferInv, ServerInv, Next
  PROVE  e1000_base' \in {0, NIC_BASE}
<1>1. CASE RunInternet
  BY <1>1 DEF RunInternet
<1>2. CASE ~RunInternet
  <2>1. e1000_base' = e1000_base
    BY <1>2, PollEffect DEF Next, Quit, PkgListen, TxDone, Ping, PingDone, Card,
                            CardReceive, CardSkip, CardTransmit, past, device
  <2> QED BY <2>1 DEF TypeOK
<1> QED BY <1>1, <1>2

\* The history variables and the blank descriptors read.
LEMMA HistoryStep ==
  ASSUME TypeOK, BufferInv, ServerInv, Next
  PROVE  /\ stale' \in Nat
         /\ start' \in [rx : RxSlot, tx : TxSlot]
         /\ sent' \subseteq Reply
         /\ answered' \subseteq Hosts
<1>1. CASE RunInternet
  BY <1>1 DEF RunInternet, TypeOK
<1>2. CASE Quit \/ PkgListen \/ Poll \/ TxDone \/ Ping \/ PingDone \/ CardReceive
  <2>1. UNCHANGED <<stale, start, sent, answered>>
    <3>1. CASE Poll
      BY <3>1, PollEffect
    <3>2. CASE Quit \/ PkgListen \/ TxDone \/ Ping \/ PingDone \/ CardReceive
      BY <3>2 DEF Quit, PkgListen, TxDone, Ping, PingDone, CardReceive, past, device
    <3> QED BY <1>2, <3>1, <3>2
  <2> QED BY <2>1 DEF TypeOK
<1>3. CASE CardSkip
  BY <1>3 DEF CardSkip, TypeOK, past, device
<1>4. CASE CardTransmit
  <2>1. /\ stale' = 0 /\ start' = start
        /\ sent' \subseteq sent \cup [kind : {"syn_ack", "arp_request"}, to : Hosts]
        /\ \/ answered' = answered
           \/ /\ sending.frame # None /\ sending.frame.kind = "syn_ack"
              /\ answered' = answered \cup {sending.frame.to}
    BY <1>4 DEF CardTransmit, device
  <2>2. [kind : {"syn_ack", "arp_request"}, to : Hosts] \subseteq Reply
    BY DEF Reply
  <2>3. sending.frame # None /\ sending.frame.kind = "syn_ack" => sending.frame.to \in Hosts
    <3>1. sending.frame \in Reply \cup {None}
      BY DEF TypeOK
    <3>2. \A f \in Reply : f.kind = "syn_ack" => f.to \in Hosts
      BY DEF Reply
    <3> QED BY <3>1, <3>2
  <2> QED BY <2>1, <2>2, <2>3 DEF TypeOK
<1> QED BY <1>1, <1>2, <1>3, <1>4 DEF Next, Card

LEMMA TypeStep ==
  ASSUME TypeOK, BufferInv, ServerInv, [Next]_vars
  PROVE  TypeOK'
<1>1. CASE Next
  <2>1. tcp_sockets' \in [Sockets -> [used : BOOLEAN, state : 0 .. 3, local_port : {0, 80},
                                      remote : Hosts \cup {None}, snd_nxt : {0, ISS, ISS + 1}]]
    BY <1>1, SocketStep DEF SocketTable, SocketRecord, States, Ports, Peers, Numbers
  <2> QED BY <1>1, <2>1, CacheStep, DriverStep, BaseStep, HistoryStep
         DEF TypeOK, DriverType
<1>2. CASE UNCHANGED vars
  BY <1>2 DEF TypeOK, vars, pool, rx, tx, past, device
<1> QED BY <1>1, <1>2

-----------------------------------------------------------------------------
(***************************************************************************)
(* The pool and the connection.                                            *)
(***************************************************************************)
LEMMA BufferStep ==
  ASSUME TypeOK, BufferInv, ServerInv, [Next]_vars
  PROVE  BufferInv'
<1> USE DEF BufferInv, BuffersAccounted
<1>1. CASE RunInternet
  BY <1>1 DEF RunInternet, AtShell, pool, Waiting
<1>2. CASE Quit \/ PkgListen
  BY <1>2 DEF Quit, PkgListen, AtShell, pool, Waiting
<1>3. CASE Retired
  BY <1>3 DEF Retired, Idle
<1>4. ASSUME NEW frame, NEW s, NEW loop \in {"tx", "ping"}, Transmits(frame, s, loop)
      PROVE  BufferInv'
  BY <1>4 DEF Transmits, TxRaw, Waiting
<1>5. CASE Card \/ UNCHANGED vars
  BY <1>5 DEF Card, CardReceive, CardSkip, CardTransmit, vars, pool, Waiting
<1>6. CASE Poll
  BY <1>3, <1>4, <1>6, PollCases
<1>7. CASE TxDone
  BY <1>3, <1>7, TxDoneEffect
<1>8. CASE Ping
  BY <1>4, <1>8, PingEffect
<1>9. CASE PingDone
  BY <1>9, PingDoneEffect DEF Idle
<1> QED BY <1>1, <1>2, <1>5, <1>6, <1>7, <1>8, <1>9 DEF Next

\* ServerInv for the next state, from what a step leaves of socket 1.
LEMMA ServerKept ==
  ASSUME ServerInv, pc \in {"poll", "tx"}, UNCHANGED tcp_sockets,
         pc' # "tx" \/ sending'.sock = NULL,
         sending'.sock = NULL, sending.sock = NULL
  PROVE  ServerInv'
BY DEF ServerInv, Half, NULL

LEMMA ServerStep ==
  ASSUME TypeOK, BufferInv, ServerInv, [Next]_vars
  PROVE  ServerInv'
<1>0. 1 \in Sockets /\ tcp_sockets \in SocketTable
  BY ServerTable DEF TypeOK, SocketTable, SocketRecord, States, Ports, Peers, Numbers
<1>1. CASE RunInternet
  <2>1. sending' = Idle /\ tcp_sockets' = ServerSocket
    BY <1>1 DEF RunInternet, AtShell, pool, BufferInv, Waiting
  <2> QED BY <2>1, ServerTable DEF ServerInv, Idle, NULL
<1>2. CASE Quit \/ PkgListen \/ Ping \/ PingDone
  <2>1. pc' \notin {"poll", "tx"}
    BY <1>2, PingEffect, PingDoneEffect DEF Quit, PkgListen, AtShell
  <2> QED BY <2>1 DEF ServerInv
<1>3. CASE Poll
  <2>1. pc = "poll" /\ sending.sock = NULL
    BY <1>3, PollEffect DEF HasFrame, BufferInv, Idle, Waiting
  <2>2. CASE Elsewhere
    <3>1. UNCHANGED tcp_sockets /\ sending'.sock = NULL
      BY <2>2 DEF Elsewhere, Retired, Transmits, Idle
    <3> QED BY <2>1, <3>1, ServerKept
  <2>3. CASE Accepting
    <3>1. PICK h \in Hosts, s \in Sockets, k \in {"syn_ack", "arp_request"} :
            /\ s = Tcb(h) /\ Accepts(s)
            /\ tcp_sockets' = Taken(h, s)
            /\ Transmits([kind |-> k, to |-> h], s, "tx")
      BY <2>3 DEF Accepting
    <3>2. s = 1
      BY <2>1, <3>1, TcbIsServer DEF NULL, Sockets
    <3>3. /\ tcp_sockets'[1].used = tcp_sockets[1].used
          /\ tcp_sockets'[1].local_port = tcp_sockets[1].local_port
          /\ tcp_sockets'[1].remote = h
          /\ tcp_sockets'[1].state = SYN_RCVD
          /\ tcp_sockets'[1].snd_nxt = ISS
          /\ \A t \in Sockets \ {1} : tcp_sockets'[t] = tcp_sockets[t]
      BY <1>0, <3>1, <3>2 DEF Taken, SocketTable, SocketRecord
    <3>4. /\ pc' = "tx" /\ sending'.sock = 1
          /\ sending'.frame = [kind |-> k, to |-> tcp_sockets'[1].remote]
      BY <3>1, <3>2, <3>3 DEF Transmits, TxRaw
    <3> QED BY <2>1, <3>3, <3>4 DEF ServerInv, Half
  <2>4. CASE Acknowledging
    <3>1. Received.from \in Hosts
      BY <2>4, FrameFields DEF Acknowledging
    <3> DEFINE s == Tcb(Received.from)
               table == [tcp_sockets EXCEPT ![s].state = ESTABLISHED]
    <3>2. \/ tcp_sockets' = tcp_sockets
          \/ s # NULL /\ tcp_sockets[s].state = SYN_RCVD /\ tcp_sockets' = table
      BY <2>4 DEF Acknowledging, Established
    <3>3. s \in {NULL, 1}
      BY <2>1, <3>1, TcbIsServer
    <3>4. pc' = "poll" /\ sending'.sock = NULL
      BY <2>4 DEF Acknowledging, Retired, Idle
    <3>5. CASE tcp_sockets' = tcp_sockets
      BY <2>1, <3>4, <3>5, ServerKept
    <3>6. CASE s = 1 /\ tcp_sockets[1].state = SYN_RCVD /\ tcp_sockets' = table
      <4> HIDE DEF s
      <4>1. /\ tcp_sockets'[1].used = tcp_sockets[1].used
            /\ tcp_sockets'[1].local_port = tcp_sockets[1].local_port
            /\ tcp_sockets'[1].remote = tcp_sockets[1].remote
            /\ tcp_sockets'[1].state = ESTABLISHED
            /\ \A t \in Sockets \ {1} : tcp_sockets'[t] = tcp_sockets[t]
        BY <1>0, <3>6 DEF SocketTable, SocketRecord
      <4>2. tcp_sockets[1].remote \in Hosts
        BY <2>1, <3>6 DEF ServerInv, Half, LISTEN, SYN_RCVD, ESTABLISHED
      <4> QED BY <2>1, <3>4, <4>1, <4>2 DEF ServerInv, NULL
    <3> QED BY <3>2, <3>3, <3>5, <3>6
  <2> QED BY <1>3, <2>2, <2>3, <2>4, PollEffect
<1>4. CASE TxDone
  <2>1. pc = "tx" /\ pc' = "poll" /\ sending'.sock = NULL
    BY <1>4, TxDoneEffect DEF Retired, Idle
  <2>2. CASE sending.sock = NULL /\ UNCHANGED tcp_sockets
    BY <2>1, <2>2, ServerKept
  <2>3. CASE /\ sending.sock = 1 /\ Half
             /\ tcp_sockets' = [tcp_sockets EXCEPT ![1].snd_nxt = ISS + 1]
    <3>1. /\ tcp_sockets'[1].used = tcp_sockets[1].used
          /\ tcp_sockets'[1].local_port = tcp_sockets[1].local_port
          /\ tcp_sockets'[1].remote = tcp_sockets[1].remote
          /\ tcp_sockets'[1].state = SYN_RCVD
          /\ tcp_sockets'[1].snd_nxt = ISS + 1
          /\ \A t \in Sockets \ {1} : tcp_sockets'[t] = tcp_sockets[t]
      BY <1>0, <2>3 DEF SocketTable, SocketRecord, Half
    <3>2. tcp_sockets[1].remote \in Hosts
      BY <2>1, <2>3 DEF ServerInv, Half, LISTEN, SYN_RCVD, ESTABLISHED
    <3> QED BY <2>1, <3>1, <3>2 DEF ServerInv, Half, NULL
  <2> QED BY <1>4, <2>2, <2>3, TxDoneEffect
<1>5. CASE Card \/ UNCHANGED vars
  BY <1>5 DEF Card, CardReceive, CardSkip, CardTransmit, vars, pool, ServerInv, Half
<1> QED BY <1>1, <1>2, <1>3, <1>4, <1>5 DEF Next

-----------------------------------------------------------------------------
(***************************************************************************)
(* The ARP cache.                                                          *)
(***************************************************************************)
LEMMA CacheCoherentStep ==
  ASSUME TypeOK, BufferInv, ServerInv, CacheCoherent, [Next]_vars
  PROVE  CacheCoherent'
<1>1. CASE RunInternet
  BY <1>1 DEF RunInternet, CacheCoherent
<1>2. CASE PollArp
  <2>1. PICK h \in Hosts, m \in Macs, n \in Nat :
          h = Received.from /\ m = Received.mac /\ n = Len(arp_cache)
    <3>1. Received \in AllFrames
      BY <1>2 DEF PollArp, HasFrame, Received, TypeOK
    <3>2. Received.from \in Hosts /\ Received.mac \in Macs
      BY <1>2, <3>1, FrameFields DEF PollArp
    <3>3. Len(arp_cache) \in Nat
      BY DEF TypeOK
    <3> QED BY <3>2, <3>3
  <2>2. /\ arp_cache' = ArpUpdate(h, m)
        /\ announced' = [announced EXCEPT ![h] = m]
        /\ arp_cache \in Seq([ip : Hosts, mac : Macs]) /\ DOMAIN arp_cache = 1 .. n
        /\ n <= WX_ARP_CACHE_SIZE /\ WX_ARP_CACHE_SIZE \in Nat
        /\ announced \in [Hosts -> Macs \cup {None}]
    BY <1>2, <2>1, NetworkConstants DEF PollArp, TypeOK
  <2>3. /\ announced'[h] = m
        /\ \A g \in Hosts \ {h} : announced'[g] = announced[g]
    BY <2>2
  <2>4. /\ \A i \in 1 .. n : arp_cache[i] \in [ip : Hosts, mac : Macs]
        /\ \A i \in 1 .. n : arp_cache[i].ip \in Hosts
    <3>1. \A i \in 1 .. n : arp_cache[i] \in [ip : Hosts, mac : Macs]
      BY <2>1, <2>2, ElementOfSeq
    <3> QED BY <3>1
  <2>5. \A g : ArpLookup(g) <=> \E i \in 1 .. n : arp_cache[i].ip = g
    BY <2>2 DEF ArpLookup, Entry
  <2>6. /\ \A i, j \in 1 .. n : arp_cache[i].ip = arp_cache[j].ip => i = j
        /\ \A i \in 1 .. n : announced[arp_cache[i].ip] = arp_cache[i].mac
        /\ \A g \in Hosts :
             announced[g] # None => (\E i \in 1 .. n : arp_cache[i].ip = g) \/ n = WX_ARP_CACHE_SIZE
    BY <2>1, <2>2, <2>5 DEF CacheCoherent
  <2>7. CASE ArpLookup(h)
    <3>1. PICK k \in 1 .. n : arp_cache[k].ip = h
      BY <2>5, <2>7
    <3>2. \A i \in 1 .. n : arp_cache[i].ip = h => i = k
      BY <2>6, <3>1
    <3>3. Min(Entry(h)) = k
      <4>1. Entry(h) = {k}
        BY <2>2, <3>1, <3>2 DEF Entry
      <4>2. Min({k}) = k
        BY DEF Min
      <4> QED BY <4>1, <4>2
    <3>4. arp_cache' = [arp_cache EXCEPT ![k].mac = m]
      BY <2>2, <2>7, <3>3 DEF ArpUpdate
    <3>5. /\ DOMAIN arp_cache' = 1 .. n /\ Len(arp_cache') = n
          /\ \A i \in 1 .. n : arp_cache'[i].ip = arp_cache[i].ip
          /\ \A i \in 1 .. n \ {k} : arp_cache'[i].mac = arp_cache[i].mac
          /\ arp_cache'[k].mac = m
      BY <2>1, <2>2, <2>4, <3>1, <3>4
    <3>6. \A i, j \in 1 .. n : arp_cache'[i].ip = arp_cache'[j].ip => i = j
      BY <2>6, <3>5
    <3>7. \A i \in 1 .. n : announced'[arp_cache'[i].ip] = arp_cache'[i].mac
      BY <2>3, <2>4, <2>6, <3>1, <3>2, <3>5
    <3>8. \A g \in Hosts :
            announced'[g] # None => ArpLookup(g)' \/ Len(arp_cache') = WX_ARP_CACHE_SIZE
      <4>1. \A g : ArpLookup(g)' <=> \E i \in 1 .. n : arp_cache'[i].ip = g
        BY <3>5 DEF ArpLookup, Entry
      <4>2. \A g \in Hosts : (\E i \in 1 .. n : arp_cache[i].ip = g) => ArpLookup(g)'
        BY <3>5, <4>1
      <4>3. ArpLookup(h)'
        BY <3>1, <3>5, <4>1
      <4> QED BY <2>3, <2>6, <3>5, <4>2, <4>3
    <3> QED BY <3>5, <3>6, <3>7, <3>8 DEF CacheCoherent
  <2>8. CASE ~ArpLookup(h) /\ n < WX_ARP_CACHE_SIZE
    <3> DEFINE e == [ip |-> h, mac |-> m]
    <3>1. \A i \in 1 .. n : arp_cache[i].ip # h
      BY <2>5, <2>8
    <3>2. arp_cache' = Append(arp_cache, e)
      BY <2>2, <2>8 DEF ArpUpdate
    <3>3. /\ DOMAIN arp_cache' = 1 .. n + 1 /\ Len(arp_cache') = n + 1
          /\ \A i \in 1 .. n : arp_cache'[i] = arp_cache[i]
          /\ arp_cache'[n + 1] = e
      <4>1. e \in [ip : Hosts, mac : Macs]
        BY <2>1
      <4> HIDE DEF e
      <4> QED BY <2>1, <2>2, <3>2, <4>1, AppendProperties
    <3>4. arp_cache'[n + 1].ip = h /\ arp_cache'[n + 1].mac = m
      BY <3>3
    <3>5. \A i \in 1 .. n + 1 : i \in 1 .. n \/ i = n + 1
      BY <2>1
    <3> HIDE DEF e
    <3>6. \A i, j \in 1 .. n + 1 : arp_cache'[i].ip = arp_cache'[j].ip => i = j
      BY <2>1, <2>6, <3>1, <3>3, <3>4, <3>5
    <3>7. \A i \in 1 .. n + 1 : announced'[arp_cache'[i].ip] = arp_cache'[i].mac
      BY <2>3, <2>4, <2>6, <3>1, <3>3, <3>4, <3>5
    <3>8. \A g \in Hosts :
            announced'[g] # None => ArpLookup(g)' \/ Len(arp_cache') = WX_ARP_CACHE_SIZE
      <4> SUFFICES ASSUME NEW g \in Hosts, announced'[g] # None
                   PROVE  \E i \in 1 .. n + 1 : arp_cache'[i].ip = g
        BY <3>3 DEF ArpLookup, Entry
      <4>1. CASE g = h
        BY <2>1, <3>4, <4>1
      <4>2. CASE g # h
        <5>1. \E i \in 1 .. n : arp_cache[i].ip = g
          BY <2>1, <2>3, <2>6, <2>8, <4>2
        <5> QED BY <2>1, <3>3, <5>1
      <4> QED BY <4>1, <4>2
    <3> QED BY <3>3, <3>6, <3>7, <3>8 DEF CacheCoherent
  <2>9. CASE ~ArpLookup(h) /\ ~(n < WX_ARP_CACHE_SIZE)
    <3>1. arp_cache' = arp_cache /\ n = WX_ARP_CACHE_SIZE
      BY <2>1, <2>2, <2>9 DEF ArpUpdate
    <3>2. \A i \in 1 .. n : arp_cache[i].ip # h
      BY <2>5, <2>9
    <3>3. \A i \in 1 .. n : announced'[arp_cache[i].ip] = arp_cache[i].mac
      BY <2>3, <2>4, <2>6, <3>2
    <3>4. \A g : ArpLookup(g)' <=> ArpLookup(g)
      BY <3>1 DEF ArpLookup, Entry
    <3> QED BY <2>1, <2>2, <2>6, <3>1, <3>3, <3>4 DEF CacheCoherent
  <2> QED BY <2>7, <2>8, <2>9
<1>3. CASE \/ (Poll /\ ~PollArp) \/ Quit \/ PkgListen \/ TxDone
           \/ Ping \/ PingDone \/ Card \/ UNCHANGED vars
  <2>1. arp_cache' = arp_cache /\ announced' = announced
    <3>1. CASE Poll /\ ~PollArp
      BY <3>1, PollEffect
    <3>2. CASE Quit \/ PkgListen \/ TxDone \/ Ping \/ PingDone \/ Card \/ UNCHANGED vars
      BY <3>2 DEF Quit, PkgListen, TxDone, Ping, PingDone, Card, CardReceive, CardSkip, CardTransmit, past, device, vars
    <3> QED BY <1>3, <3>1, <3>2
  <2> QED BY <2>1 DEF CacheCoherent, ArpLookup, Entry
<1> QED BY <1>1, <1>2, <1>3 DEF Next, Poll

-----------------------------------------------------------------------------
(***************************************************************************)
(* The receive ring.  The frame being answered is still in it.             *)
(***************************************************************************)
RxInv ==
  /\ RxWindow
  /\ pc = "tx" => Received # None

\* The next index, without the remainder.
LEMMA RxNextIs ==
  ASSUME NEW i \in RxSlot
  PROVE  RxNext(i) = IF i + 1 < WX_E1000_NUM_RX_DESC THEN i + 1 ELSE 0
BY RingArithmetic, NetworkConstants DEF RxSlot, RxNext

\* A window is as long as the distance from the index to the head.
Distance(i, p) == IF i >= p THEN i - p ELSE i - p + WX_E1000_NUM_RX_DESC

LEMMA DistanceOf ==
  ASSUME NEW i \in RxSlot, NEW p \in RxSlot
  PROVE  /\ (i - p) % WX_E1000_NUM_RX_DESC = Distance(i, p)
         /\ Distance(i, p) \in 0 .. WX_E1000_NUM_RX_DESC - 1
         /\ Distance(p, p) = 0
         /\ \A j \in RxSlot : Distance(i, p) = Distance(j, p) => i = j
<1>1. (i - p) % WX_E1000_NUM_RX_DESC = IF i >= p THEN i - p ELSE i - p + WX_E1000_NUM_RX_DESC
  BY RingArithmetic, NetworkConstants DEF RxSlot
<1> QED BY <1>1, NetworkConstants DEF RxSlot, Distance

\* The index moves on by one, or the head does.
LEMMA DistanceNext ==
  ASSUME NEW i \in RxSlot, NEW p \in RxSlot
  PROVE  /\ Distance(i, RxNext(p)) =
              IF i = p THEN WX_E1000_NUM_RX_DESC - 1 ELSE Distance(i, p) - 1
         /\ RxNext(i) # p => Distance(RxNext(i), p) = Distance(i, p) + 1
         /\ \A t \in RxSlot : RxNext(t) = RxNext(i) => t = i
<1>1. \A t \in RxSlot : RxNext(t) = IF t + 1 < WX_E1000_NUM_RX_DESC THEN t + 1 ELSE 0
  BY RxNextIs
<1> QED BY <1>1, NetworkConstants DEF RxSlot, Distance

LEMMA RxWindowOf ==
  ASSUME TypeOK, RxWindow, e1000_base # 0, start.rx = 0
  PROVE  /\ RxNext(RDT) = e1000_rx_ptr
         /\ \A i \in RxSlot :
              rx_ring[i] # None <=> Distance(i, e1000_rx_ptr) < Distance(RDH, e1000_rx_ptr)
<1>1. \A i \in RxSlot :
        (i - e1000_rx_ptr) % WX_E1000_NUM_RX_DESC = Distance(i, e1000_rx_ptr)
  BY DistanceOf DEF TypeOK
<1>2. RDH \in RxSlot
  BY DEF TypeOK
<1> QED BY <1>1, <1>2 DEF RxWindow

LEMMA RxWindowFrom ==
  ASSUME TypeOK', RxNext(RDT') = e1000_rx_ptr',
         \A i \in RxSlot :
           rx_ring'[i] # None <=> Distance(i, e1000_rx_ptr') < Distance(RDH', e1000_rx_ptr')
  PROVE  RxWindow'
<1>1. \A i \in RxSlot :
        (i - e1000_rx_ptr') % WX_E1000_NUM_RX_DESC = Distance(i, e1000_rx_ptr')
  BY DistanceOf DEF TypeOK
<1>2. RDH' \in RxSlot
  BY DEF TypeOK
<1> QED BY <1>1, <1>2 DEF RxWindow, RxNext, RxSlot

LEMMA RxStep ==
  ASSUME TypeOK, TypeOK', BufferInv, ServerInv, RxInv, [Next]_vars
  PROVE  RxInv'
<1>0. /\ {e1000_rx_ptr, RDH, RDT} \subseteq RxSlot
      /\ rx_ring \in [RxSlot -> AllFrames \cup {None}]
      /\ RxSlot \subseteq Int
  BY DEF TypeOK, RxSlot
<1>1. CASE RunInternet
  <2>1. ASSUME start'.rx = 0
        PROVE  RxWindow'
    <3>1. e1000_rx_ptr' = 0 /\ RDH' = 0
      BY <1>1, <2>1 DEF RunInternet
    <3>2. RxNext(RDT') = e1000_rx_ptr'
      BY <1>1, <3>1, RingTypes, RxNextIs, NetworkConstants DEF RunInternet, InitialTail
    <3>3. \A i \in RxSlot :
            rx_ring'[i] # None <=> Distance(i, e1000_rx_ptr') < Distance(RDH', e1000_rx_ptr')
      BY <1>1, <3>1 DEF RunInternet, RxSlot, Distance
    <3> QED BY <3>2, <3>3, RxWindowFrom
  <2>2. pc' = "poll" /\ (start'.rx # 0 => RxWindow')
    BY <1>1 DEF RunInternet, RxWindow
  <2> QED BY <2>1, <2>2 DEF RxInv
<1>2. CASE Quit \/ PkgListen \/ PingDone \/ CardSkip \/ CardTransmit \/ UNCHANGED vars
  <2>1. /\ UNCHANGED <<rx_ring, e1000_rx_ptr, RDT, RDH, e1000_base, start>>
        /\ pc' = "tx" => pc = "tx"
    BY <1>2 DEF Quit, PkgListen, PingDone, CardSkip, CardTransmit, vars, rx, past, device
  <2> QED BY <2>1 DEF RxInv, RxWindow, Received, RxNext
<1>3. ASSUME Retired, UNCHANGED <<RDH, e1000_base, start>>, Received # None
      PROVE  RxInv'
  <2>1. ASSUME e1000_base' # 0, start'.rx = 0
        PROVE  RxWindow'
    <3>1. \A i \in RxSlot :
            rx_ring[i] # None <=> Distance(i, e1000_rx_ptr) < Distance(RDH, e1000_rx_ptr)
      BY <1>3, <2>1, RxWindowOf DEF RxInv
    <3>2. /\ RDT' = e1000_rx_ptr /\ e1000_rx_ptr' = RxNext(e1000_rx_ptr)
          /\ rx_ring' = [rx_ring EXCEPT ![e1000_rx_ptr] = None] /\ RDH' = RDH
      BY <1>3 DEF Retired
    <3>3. RDH # e1000_rx_ptr
      <4>1. Distance(e1000_rx_ptr, e1000_rx_ptr) < Distance(RDH, e1000_rx_ptr)
        BY <1>0, <1>3, <3>1 DEF Received
      <4>2. Distance(e1000_rx_ptr, e1000_rx_ptr) = 0
        BY <1>0, DistanceOf
      <4> QED BY <4>1, <4>2
    <3>4. \A i \in RxSlot :
            Distance(i, e1000_rx_ptr') =
              IF i = e1000_rx_ptr THEN WX_E1000_NUM_RX_DESC - 1 ELSE Distance(i, e1000_rx_ptr) - 1
      BY <1>0, <3>2, DistanceNext
    <3>5. \A i \in RxSlot : Distance(i, e1000_rx_ptr) \in 0 .. WX_E1000_NUM_RX_DESC - 1
      BY <1>0, DistanceOf
    <3>6. \A i \in RxSlot :
            rx_ring'[i] # None <=> Distance(i, e1000_rx_ptr') < Distance(RDH', e1000_rx_ptr')
      <4>1. \A i \in RxSlot : rx_ring'[i] # None <=> i # e1000_rx_ptr /\ rx_ring[i] # None
        BY <1>0, <3>2
      <4>2. Distance(RDH', e1000_rx_ptr') = Distance(RDH, e1000_rx_ptr) - 1
        BY <1>0, <3>2, <3>3, <3>4
      <4>3. Distance(RDH, e1000_rx_ptr) \in 0 .. WX_E1000_NUM_RX_DESC - 1
        BY <1>0, <3>5
      <4> QED BY <3>1, <3>4, <3>5, <4>1, <4>2, <4>3, NetworkConstants
    <3> QED BY <3>2, <3>6, RxWindowFrom
  <2>2. pc' = "poll" /\ (e1000_base' = 0 \/ start'.rx # 0 => RxWindow')
    BY <1>3 DEF Retired, RxWindow
  <2> QED BY <2>1, <2>2 DEF RxInv
<1>4. ASSUME NEW frame, NEW s, NEW loop, Transmits(frame, s, loop),
             UNCHANGED <<RDH, e1000_base, start>>, loop = "tx" => Received # None
      PROVE  RxInv'
  BY <1>4 DEF Transmits, TxRaw, rx, RxInv, RxWindow, Received, RxNext
<1>5. CASE Poll
  <2>1. Received # None /\ UNCHANGED <<RDH, e1000_base, start>>
    BY <1>5, PollEffect DEF HasFrame
  <2> QED BY <1>3, <1>4, <1>5, <2>1, PollCases
<1>6. CASE TxDone
  <2>1. Received # None /\ UNCHANGED <<RDH, e1000_base, start>> /\ Retired
    BY <1>6, TxDoneEffect DEF RxInv, past, device
  <2> QED BY <1>3, <2>1
<1>7. CASE Ping
  <2>1. UNCHANGED <<RDH, e1000_base, start>> /\ \E frame \in Reply : Transmits(frame, NULL, "ping")
    BY <1>7, PingEffect DEF past, device
  <2> QED BY <1>4, <2>1
<1>8. CASE CardReceive
  <2>1. PICK f \in Frames : rx_ring' = [rx_ring EXCEPT ![RDH] = f]
    BY <1>8 DEF CardReceive
  <2>2. f # None
    BY NetworkConstants
  <2>3. /\ RDH # RDT /\ RDH' = RxNext(RDH)
        /\ UNCHANGED <<pc, e1000_rx_ptr, RDT, e1000_base, start>>
    BY <1>8 DEF CardReceive, past, device
  <2>4. \A i \in RxSlot : rx_ring'[i] # None <=> i = RDH \/ rx_ring[i] # None
    BY <1>0, <2>1, <2>2
  <2>5. ASSUME e1000_base # 0, start.rx = 0
        PROVE  RxWindow'
    <3>1. /\ RxNext(RDT) = e1000_rx_ptr
          /\ \A i \in RxSlot :
               rx_ring[i] # None <=> Distance(i, e1000_rx_ptr) < Distance(RDH, e1000_rx_ptr)
      BY <2>5, RxWindowOf DEF RxInv
    <3>2. Distance(RDH', e1000_rx_ptr') = Distance(RDH, e1000_rx_ptr) + 1
      <4>1. RxNext(RDH) # e1000_rx_ptr
        BY <1>0, <2>3, <3>1, DistanceNext
      <4> QED BY <1>0, <2>3, <4>1, DistanceNext
    <3>3. /\ \A i \in RxSlot : Distance(i, e1000_rx_ptr) \in Nat
          /\ \A i \in RxSlot : Distance(i, e1000_rx_ptr) = Distance(RDH, e1000_rx_ptr) => i = RDH
      <4>1. \A i \in RxSlot : Distance(i, e1000_rx_ptr) \in 0 .. WX_E1000_NUM_RX_DESC - 1
        BY <1>0, DistanceOf
      <4>2. \A i \in RxSlot : \A j \in RxSlot :
              Distance(i, e1000_rx_ptr) = Distance(j, e1000_rx_ptr) => i = j
        BY <1>0, DistanceOf
      <4>3. \A i \in RxSlot : Distance(i, e1000_rx_ptr) \in Nat
        BY <4>1, NetworkConstants
      <4>4. RDH \in RxSlot
        BY <1>0
      <4> QED BY <4>2, <4>3, <4>4
    <3>4. \A i \in RxSlot :
            rx_ring'[i] # None <=> Distance(i, e1000_rx_ptr') < Distance(RDH', e1000_rx_ptr')
      <4>1. e1000_rx_ptr' = e1000_rx_ptr /\ Distance(RDH, e1000_rx_ptr) \in Nat
        BY <1>0, <2>3, <3>3
      <4> QED BY <2>4, <3>1, <3>2, <3>3, <4>1
    <3> QED BY <2>3, <3>1, <3>4, RxWindowFrom
  <2>6. RxWindow'
    BY <2>3, <2>5 DEF RxWindow
  <2>7. pc' = "tx" => Received' # None
    BY <1>0, <2>3, <2>4 DEF RxInv, Received
  <2> QED BY <2>6, <2>7 DEF RxInv
<1> QED BY <1>1, <1>2, <1>5, <1>6, <1>7, <1>8 DEF Next, Card

-----------------------------------------------------------------------------
(***************************************************************************)
(* The transmit ring.  wx_e1000_init clears the ring and the registers but *)
(* not the driver's index: the first frame of a run lies at that index,    *)
(* with blank descriptors before it; from then on the ring is in step.     *)
(* Before the first run no card sees what ping queues.                     *)
(***************************************************************************)
\* The descriptor the loop of wx_e1000_tx_raw looks at.
Last(i) == TxNext(i) = e1000_tx_ptr

Unset ==
  /\ e1000_base = 0 /\ TDH = 0 /\ TDT = 0 /\ stale = 0 /\ sent = {}
  /\ \/ pc = "shell"
     \/ pc = "ping" /\ \A i \in TxSlot : Last(i) => tx_ring[i] = "queued"

Fresh ==
  /\ e1000_base # 0
  /\ ~Waiting /\ TDH = 0 /\ TDT = 0 /\ stale = 0 /\ sent = {}
  /\ e1000_tx_ptr = start.tx
  /\ \A i \in TxSlot : tx_ring[i] = "blank"

FirstSend ==
  /\ e1000_base # 0
  /\ Waiting /\ stale = TDH /\ sent = {}
  /\ e1000_tx_ptr = TxNext(start.tx) /\ TDT = e1000_tx_ptr
  /\ TDH <= start.tx
  /\ start.tx = WX_E1000_NUM_TX_DESC - 1 => TDH = 0
  /\ \A i \in TxSlot : tx_ring[i] = IF i = start.tx THEN "queued" ELSE "blank"

LaterSend ==
  /\ e1000_base # 0
  /\ Waiting /\ stale = 0 /\ WX_E1000_NUM_TX_DESC > 1
  /\ e1000_tx_ptr = TxNext(TDH) /\ TDT = e1000_tx_ptr
  /\ \A i \in TxSlot : tx_ring[i] = "queued" <=> i = TDH

AllSent ==
  /\ e1000_base # 0
  /\ stale = 0 /\ WX_E1000_NUM_TX_DESC > 1
  /\ TDH = e1000_tx_ptr /\ TDT = e1000_tx_ptr
  /\ \A i \in TxSlot : tx_ring[i] # "queued"

TxPhase == Unset \/ Fresh \/ FirstSend \/ LaterSend \/ AllSent

\* The next index, without the remainder; no two indices have the same.
LEMMA TxNextIs ==
  ASSUME NEW i \in TxSlot
  PROVE  /\ TxNext(i) = IF i + 1 < WX_E1000_NUM_TX_DESC THEN i + 1 ELSE 0
         /\ \A j \in TxSlot : TxNext(i) = TxNext(j) => i = j
         /\ WX_E1000_NUM_TX_DESC > 1 => TxNext(i) # i
<1>1. \A t \in TxSlot : TxNext(t) = IF t + 1 < WX_E1000_NUM_TX_DESC THEN t + 1 ELSE 0
  BY RingArithmetic, NetworkConstants DEF TxSlot, TxNext
<1> QED BY <1>1, NetworkConstants DEF TxSlot

\* In the phases that wait, the last descriptor is not done.
LEMMA WaitingIsQueued ==
  ASSUME TypeOK, FirstSend \/ LaterSend \/ (Unset /\ pc = "ping")
  PROVE  ~(\E i \in TxSlot : TxNext(i) = e1000_tx_ptr /\ tx_ring[i] # "queued")
<1>1. TDH \in TxSlot /\ start.tx \in TxSlot
  BY DEF TypeOK
<1> QED BY <1>1, TxNextIs DEF FirstSend, LaterSend, Unset, Last

\* What the card does with the frame it is given.
LEMMA TransmitCases ==
  ASSUME TypeOK, TxPhase, CardTransmit
  PROVE  /\ FirstSend \/ LaterSend
         /\ tx_ring[TDH] = "queued"
         /\ TxNext(TDH) = e1000_tx_ptr
         /\ FirstSend => TDH = start.tx /\ start.tx # WX_E1000_NUM_TX_DESC - 1
<1>1. /\ TDH # TDT /\ tx_ring[TDH] # "blank"
      /\ TDH \in TxSlot /\ start.tx \in TxSlot
  BY DEF CardTransmit, TypeOK
<1>2. ~Unset /\ ~Fresh /\ ~AllSent
  BY <1>1 DEF Unset, Fresh, AllSent
<1>3. CASE FirstSend
  <2>1. TDH = start.tx
    BY <1>1, <1>3 DEF FirstSend
  <2>2. start.tx # WX_E1000_NUM_TX_DESC - 1
    <3>1. TxNext(start.tx) = IF start.tx + 1 < WX_E1000_NUM_TX_DESC THEN start.tx + 1 ELSE 0
      BY <1>1, TxNextIs
    <3> QED BY <1>1, <1>3, <3>1, NetworkConstants DEF FirstSend
  <2> QED BY <1>1, <1>3, <2>1, <2>2 DEF FirstSend
<1>4. CASE LaterSend
  BY <1>1, <1>3, <1>4 DEF LaterSend
<1> QED BY <1>2, <1>3, <1>4 DEF TxPhase

LEMMA TxStep ==
  ASSUME TypeOK, BufferInv, ServerInv, TxPhase, [Next]_vars
  PROVE  TxPhase'
<1>0. /\ {e1000_tx_ptr, TDH, TDT, start.tx} \subseteq TxSlot
      /\ tx_ring \in [TxSlot -> {"blank", "queued", "done"}]
      /\ TxSlot \subseteq Int
  BY DEF TypeOK, TxSlot
<1>1. CASE RunInternet
  <2>1. Fresh'
    BY <1>1 DEF RunInternet, Fresh, TxSlot, Waiting, NIC_BASE
  <2> QED BY <2>1 DEF TxPhase
<1>2. CASE Quit \/ PkgListen \/ CardReceive \/ UNCHANGED vars
  <2>1. /\ UNCHANGED <<tx_ring, e1000_tx_ptr, TDT, TDH, stale, e1000_base, start, sent>>
        /\ pc' = pc \/ (pc = "poll" /\ pc' = "shell")
    BY <1>2 DEF Quit, PkgListen, CardReceive, vars, tx, past, device
  <2> QED BY <2>1 DEF TxPhase, Unset, Last, Fresh, FirstSend, LaterSend, AllSent, Waiting,
                      TxNext, TxSlot
<1>3. ASSUME UNCHANGED <<tx, TDH, stale, e1000_base, start, sent>>, Fresh \/ AllSent,
             pc' \in {"poll", "shell"}
      PROVE  TxPhase'
  <2>1. UNCHANGED <<tx_ring, e1000_tx_ptr, TDT>> /\ ~Waiting'
    BY <1>3 DEF tx, Waiting
  <2> QED BY <1>3, <2>1 DEF TxPhase, Fresh, AllSent, TxSlot
<1>4. ASSUME NEW frame, NEW s, NEW loop \in {"tx", "ping"}, Transmits(frame, s, loop), ~Waiting,
             loop = "ping" \/ e1000_base # 0,
             UNCHANGED <<TDH, stale, e1000_base, start, sent>>
      PROVE  TxPhase'
  <2>1. /\ tx_ring' = [tx_ring EXCEPT ![e1000_tx_ptr] = "queued"]
        /\ e1000_tx_ptr' = TxNext(e1000_tx_ptr)
        /\ TDT' = IF e1000_base = 0 THEN TDT ELSE TxNext(e1000_tx_ptr)
        /\ pc' = loop /\ Waiting'
    BY <1>4 DEF Transmits, TxRaw, Waiting
  <2>2. CASE Unset
    <3>1. tx_ring'[e1000_tx_ptr] = "queued"
      BY <1>0, <2>1
    <3>2. \A i \in TxSlot : TxNext(i) = e1000_tx_ptr' => i = e1000_tx_ptr
      BY <1>0, <2>1, TxNextIs
    <3>3. Unset'
      BY <1>4, <2>1, <2>2, <3>1, <3>2 DEF Unset, Last, TxNext, TxSlot
    <3> QED BY <3>3 DEF TxPhase
  <2>3. CASE Fresh
    <3>1. TDH' = 0 /\ stale' = 0 /\ sent' = {} /\ start' = start /\ e1000_tx_ptr = start.tx
      BY <1>4, <2>3 DEF Fresh
    <3>2. e1000_base # 0 /\ e1000_base' = e1000_base
      BY <1>4, <2>3 DEF Fresh
    <3>3. \A i \in TxSlot : tx_ring'[i] = IF i = start.tx THEN "queued" ELSE "blank"
      BY <1>0, <2>1, <2>3, <3>1 DEF Fresh
    <3>4. 0 <= start.tx
      BY <1>0 DEF TxSlot
    <3>5. FirstSend'
      BY <2>1, <3>1, <3>2, <3>3, <3>4 DEF FirstSend, TxNext, TxSlot
    <3> QED BY <3>5 DEF TxPhase
  <2>4. CASE AllSent
    <3>1. /\ TDH' = e1000_tx_ptr /\ stale' = 0 /\ WX_E1000_NUM_TX_DESC > 1
          /\ e1000_base # 0 /\ e1000_base' = e1000_base
      BY <1>4, <2>4 DEF AllSent
    <3>2. \A i \in TxSlot : tx_ring'[i] = "queued" <=> i = TDH'
      BY <1>0, <2>1, <2>4, <3>1 DEF AllSent
    <3>3. LaterSend'
      BY <2>1, <3>1, <3>2 DEF LaterSend, TxNext, TxSlot
    <3> QED BY <3>3 DEF TxPhase
  <2> QED BY <1>4, <2>2, <2>3, <2>4 DEF TxPhase, FirstSend, LaterSend
<1>5. CASE Poll
  <2>1. pc = "poll" /\ UNCHANGED <<TDH, stale, e1000_base, start, sent>>
    BY <1>5, PollEffect DEF HasFrame
  <2>2. (Fresh \/ AllSent) /\ e1000_base # 0 /\ ~Waiting
    BY <2>1 DEF TxPhase, Unset, Fresh, AllSent, FirstSend, LaterSend, Waiting
  <2>3. CASE Retired
    BY <1>3, <2>1, <2>2, <2>3 DEF Retired
  <2> QED BY <1>4, <1>5, <2>1, <2>2, <2>3, PollCases
<1>6. CASE TxDone \/ PingDone
  <2>1. /\ UNCHANGED <<tx, TDH, stale, e1000_base, start, sent>>
        /\ \E i \in TxSlot : TxNext(i) = e1000_tx_ptr /\ tx_ring[i] # "queued"
        /\ Waiting /\ pc' \in {"poll", "shell"} /\ pc # "shell"
    BY <1>6, TxDoneEffect, PingDoneEffect DEF Retired, past, device, Waiting
  <2>2. Fresh \/ AllSent
    BY <2>1, WaitingIsQueued DEF TxPhase, Unset
  <2> QED BY <1>3, <2>1, <2>2
<1>7. CASE Ping
  <2>1. /\ ~Waiting /\ UNCHANGED <<TDH, stale, e1000_base, start, sent>>
        /\ \E frame \in Reply : Transmits(frame, NULL, "ping")
    BY <1>7, PingEffect DEF past, device, Waiting
  <2> QED BY <1>4, <2>1
<1>8. CASE CardSkip
  <2>1. /\ TDH # TDT /\ tx_ring[TDH] = "blank"
        /\ stale' = stale + 1 /\ TDH' = TxNext(TDH)
        /\ UNCHANGED <<pc, tx_ring, e1000_tx_ptr, TDT, e1000_base, start, sent>>
    BY <1>8 DEF CardSkip, tx, past, device
  <2>2. FirstSend
    <3>1. TDH \in TxSlot
      BY <1>0
    <3>2. ~LaterSend
      BY <2>1, <3>1 DEF LaterSend
    <3> QED BY <2>1, <3>2 DEF TxPhase, Unset, Fresh, AllSent
  <2>3. TDH < start.tx /\ start.tx # WX_E1000_NUM_TX_DESC - 1
    BY <1>0, <2>1, <2>2, TxNextIs DEF FirstSend, TxSlot
  <2>4. TDH' = TDH + 1
    <3>1. TxNext(TDH) = IF TDH + 1 < WX_E1000_NUM_TX_DESC THEN TDH + 1 ELSE 0
      BY <1>0, TxNextIs
    <3> QED BY <1>0, <2>1, <2>3, <3>1, NetworkConstants DEF TxSlot
  <2>5. FirstSend'
    BY <1>0, <2>1, <2>2, <2>3, <2>4 DEF FirstSend, TxNext, TxSlot, Waiting
  <2> QED BY <2>5 DEF TxPhase
<1>9. CASE CardTransmit
  <2>1. /\ tx_ring' = [tx_ring EXCEPT ![TDH] = "done"]
        /\ TDH' = TxNext(TDH) /\ stale' = 0
        /\ UNCHANGED <<e1000_tx_ptr, TDT, e1000_base, start>>
    BY <1>9 DEF CardTransmit, device
  <2>2. TDH' = e1000_tx_ptr /\ TDT = e1000_tx_ptr
    BY <1>9, <2>1, TransmitCases DEF FirstSend, LaterSend
  <2>3. \A i \in TxSlot : tx_ring'[i] # "queued"
    BY <1>0, <1>9, <2>1, TransmitCases DEF FirstSend, LaterSend
  <2>4. WX_E1000_NUM_TX_DESC > 1
    BY <1>0, <1>9, TransmitCases, NetworkConstants DEF LaterSend, TxSlot
  <2>5. e1000_base # 0
    BY <1>9, TransmitCases DEF FirstSend, LaterSend
  <2>6. AllSent'
    BY <2>1, <2>2, <2>3, <2>4, <2>5 DEF AllSent, TxSlot
  <2> QED BY <2>6 DEF TxPhase
<1> QED BY <1>1, <1>2, <1>5, <1>6, <1>7, <1>8, <1>9 DEF Next, Card

-----------------------------------------------------------------------------
(***************************************************************************)
(* The handshake.  An acknowledgement of the SYN-ACK, in the ring or taken, *)
(* comes from a peer that was answered; a half-open connection has sent     *)
(* something or is sending it.                                             *)
(***************************************************************************)
AnswerInv ==
  /\ EstablishedAnswered
  /\ \A i \in RxSlot :
       rx_ring[i] # None /\ rx_ring[i].kind = "ack" /\ rx_ring[i].ack_num = ISS + 1
         => rx_ring[i].from \in answered

Explained ==
  \E k \in {"syn_ack", "arp_request"} : [kind |-> k, to |-> tcp_sockets[1].remote] \in sent

Underway ==
  /\ pc = "tx" /\ sending.sock = 1
  /\ \E i \in TxSlot : TxNext(i) = e1000_tx_ptr /\ tx_ring[i] = "queued"

HalfOpenInv ==
  start.tx = 0 /\ pc \in {"poll", "tx"} /\ Half => Explained \/ Underway

\* What a step leaves of the state and the peer of a connected socket.
LEMMA ConnectedKept ==
  ASSUME TypeOK, BufferInv, ServerInv, [Next]_vars, ~Acknowledging,
         NEW s \in Sockets, tcp_sockets'[s].state = ESTABLISHED
  PROVE  tcp_sockets[s].state = ESTABLISHED /\ tcp_sockets'[s].remote = tcp_sockets[s].remote
<1>0. /\ tcp_sockets \in SocketTable
      /\ \A t \in Sockets : tcp_sockets[t] \in SocketRecord
  <2>1. tcp_sockets \in SocketTable
    BY DEF TypeOK, SocketTable, SocketRecord, States, Ports, Peers, Numbers
  <2> QED BY <2>1 DEF SocketTable
<1>1. CASE RunInternet
  <2>1. tcp_sockets' = ServerSocket
    BY <1>1 DEF RunInternet
  <2> QED BY <2>1, ServerTable DEF ESTABLISHED, LISTEN
<1>2. CASE PkgListen
  <2> DEFINE k == Min(FreeSocket(tcp_sockets))
             x == tcp_sockets[k]
             r == [x EXCEPT !.used = TRUE, !.state = 0]
             table == [tcp_sockets EXCEPT ![k] = r]
             y == table[k]
             q == [y EXCEPT !.state = SYN_RCVD]
  <2>1. tcp_sockets' = [table EXCEPT ![k] = q]
    BY <1>2 DEF PkgListen, Socket
  <2> HIDE DEF k
  <2>2. k \in Sockets => y = r
    BY <1>0 DEF SocketTable
  <2>3. k \in Sockets => r \in [used : BOOLEAN, state : States, local_port : Ports,
                                remote : Peers, snd_nxt : Numbers]
    <3>1. k \in Sockets => x \in SocketRecord
      BY <1>0
    <3> HIDE DEF x
    <3> QED BY <3>1, FieldValues DEF SocketRecord
  <2> HIDE DEF y, r
  <2>4. k \in Sockets => q.state = SYN_RCVD
    BY <2>2, <2>3
  <2>5. s # k
    BY <1>0, <2>1, <2>4 DEF SocketTable, SYN_RCVD, ESTABLISHED
  <2> QED BY <1>0, <2>1, <2>5 DEF SocketTable
<1>3. CASE Elsewhere
  BY <1>3 DEF Elsewhere
<1>4. CASE Accepting
  <2>1. PICK h \in Hosts, t \in Sockets : tcp_sockets' = Taken(h, t)
    BY <1>4 DEF Accepting
  <2>2. tcp_sockets'[t].state = SYN_RCVD
    BY <1>0, <2>1 DEF Taken, SocketTable, SocketRecord
  <2>3. s # t
    BY <2>2 DEF SYN_RCVD, ESTABLISHED
  <2> QED BY <1>0, <2>1, <2>3 DEF Taken, SocketTable
<1>5. CASE TxDone
  <2>1. \/ UNCHANGED tcp_sockets
        \/ tcp_sockets' = [tcp_sockets EXCEPT ![1].snd_nxt = ISS + 1]
    BY <1>5, TxDoneEffect
  <2> QED BY <1>0, <2>1 DEF SocketTable, SocketRecord
<1>6. CASE Quit \/ Ping \/ PingDone \/ Card \/ UNCHANGED vars
  BY <1>6 DEF Quit, Ping, PingDone, Card, CardReceive, CardSkip, CardTransmit, vars
<1>7. CASE Poll
  BY <1>3, <1>4, <1>7, PollEffect
<1> QED BY <1>1, <1>2, <1>5, <1>6, <1>7 DEF Next

LEMMA AnsweredGrows ==
  ASSUME TypeOK, BufferInv, ServerInv, [Next]_vars
  PROVE  answered \subseteq answered'
<1>1. CASE Poll
  BY <1>1, PollEffect
<1>2. CASE \/ RunInternet \/ Quit \/ PkgListen \/ TxDone \/ Ping \/ PingDone \/ Card
           \/ UNCHANGED vars
  BY <1>2 DEF RunInternet, Quit, PkgListen, TxDone, Ping, PingDone, Card, CardReceive,
              CardSkip, CardTransmit, past, vars
<1> QED BY <1>1, <1>2 DEF Next

\* The frames in the ring after a step: old ones, or one the card received.
LEMMA RingFrames ==
  ASSUME TypeOK, BufferInv, ServerInv, [Next]_vars, NEW i \in RxSlot, rx_ring'[i] # None
  PROVE  rx_ring'[i] = rx_ring[i] \/ Possible(rx_ring'[i])
<1>0. rx_ring \in [RxSlot -> AllFrames \cup {None}]
  BY DEF TypeOK
<1>1. CASE RunInternet
  BY <1>1 DEF RunInternet
<1>2. CASE Retired
  BY <1>0, <1>2 DEF Retired
<1>3. ASSUME NEW frame, NEW s, NEW loop, Transmits(frame, s, loop)
      PROVE  rx_ring'[i] = rx_ring[i]
  BY <1>3 DEF Transmits, rx
<1>4. CASE Poll
  BY <1>2, <1>3, <1>4, PollCases
<1>5. CASE TxDone
  BY <1>2, <1>5, TxDoneEffect
<1>6. CASE CardReceive
  BY <1>0, <1>6 DEF CardReceive
<1>7. CASE Quit \/ PkgListen \/ PingDone \/ CardSkip \/ CardTransmit \/ UNCHANGED vars
  BY <1>7 DEF Quit, PkgListen, PingDone, CardSkip, CardTransmit, rx, vars
<1>8. CASE Ping
  BY <1>3, <1>8, PingEffect
<1> QED BY <1>1, <1>4, <1>5, <1>6, <1>7, <1>8 DEF Next, Card

LEMMA AnswerStep ==
  ASSUME TypeOK, BufferInv, ServerInv, AnswerInv, [Next]_vars
  PROVE  AnswerInv'
<1>1. ASSUME NEW i \in RxSlot, rx_ring'[i] # None, rx_ring'[i].kind = "ack",
             rx_ring'[i].ack_num = ISS + 1
      PROVE  rx_ring'[i].from \in answered'
  <2>1. rx_ring'[i] = rx_ring[i] \/ Possible(rx_ring'[i])
    BY <1>1, RingFrames
  <2>2. rx_ring'[i].from \in answered
    BY <1>1, <2>1 DEF AnswerInv, Possible
  <2> QED BY <2>2, AnsweredGrows
<1>2. ASSUME NEW s \in Sockets, tcp_sockets'[s].state = ESTABLISHED
      PROVE  tcp_sockets'[s].remote \in answered
  <2>1. CASE ~Acknowledging
    <3>1. tcp_sockets[s].state = ESTABLISHED /\ tcp_sockets'[s].remote = tcp_sockets[s].remote
      BY <1>2, <2>1, ConnectedKept
    <3> QED BY <3>1 DEF AnswerInv, EstablishedAnswered
  <2>2. CASE tcp_sockets' = tcp_sockets
    BY <1>2, <2>2 DEF AnswerInv, EstablishedAnswered
  <2>3. CASE Acknowledging /\ pc = "poll" /\ tcp_sockets' # tcp_sockets
    <3>0. /\ tcp_sockets \in SocketTable
          /\ Received.from \in Hosts
      BY <2>3, FrameFields DEF Acknowledging, TypeOK, SocketTable, SocketRecord, States, Ports, Peers, Numbers
    <3> DEFINE t == Tcb(Received.from)
    <3>1. /\ t # NULL /\ tcp_sockets[t].state = SYN_RCVD
          /\ Received.ack_num = tcp_sockets[t].snd_nxt
          /\ tcp_sockets' = [tcp_sockets EXCEPT ![t].state = ESTABLISHED]
      BY <2>3 DEF Acknowledging, Established
    <3>2. t = 1 /\ tcp_sockets[1].remote = Received.from
      BY <2>3, <3>0, <3>1, TcbIsServer DEF SYN_RCVD, LISTEN
    <3>3. tcp_sockets[1].snd_nxt = ISS + 1
      BY <2>3, <3>1, <3>2 DEF ServerInv, Half, LISTEN, SYN_RCVD, ESTABLISHED
    <3>4. Received.from \in answered
      <4>1. /\ e1000_rx_ptr \in RxSlot /\ Received # None
            /\ Received.kind = "ack" /\ Received.ack_num = ISS + 1
        BY <2>3, <3>1, <3>2, <3>3, FrameFields DEF Acknowledging, TypeOK
      <4> QED BY <4>1 DEF AnswerInv, Received
    <3>5. CASE s = 1
      <4> HIDE DEF t
      <4>1. tcp_sockets'[1].remote = tcp_sockets[1].remote
        BY <1>2, <3>0, <3>1, <3>2, <3>5 DEF SocketTable, SocketRecord
      <4> QED BY <3>2, <3>4, <3>5, <4>1
    <3>6. CASE s # 1
      <4> HIDE DEF t
      <4>1. tcp_sockets'[s] = tcp_sockets[s]
        BY <3>0, <3>1, <3>2, <3>6 DEF SocketTable
      <4> QED BY <1>2, <4>1 DEF AnswerInv, EstablishedAnswered
    <3> QED BY <3>5, <3>6
  <2>4. Acknowledging => pc = "poll"
    BY DEF Acknowledging, HasFrame
  <2> QED BY <2>1, <2>2, <2>3, <2>4
<1>3. EstablishedAnswered'
  BY <1>2, AnsweredGrows DEF EstablishedAnswered
<1> QED BY <1>1, <1>3 DEF AnswerInv

\* A step keeps what was said about the connection if it changes neither the
\* connection nor the frame in transit, and forgets nothing that was sent.
LEMMA HalfOpenStep ==
  ASSUME TypeOK, BufferInv, ServerInv, TxPhase, HalfOpenInv, [Next]_vars, ServerInv'
  PROVE  HalfOpenInv'
<1>0. /\ tcp_sockets \in SocketTable /\ 1 \in Sockets
      /\ start.tx \in TxSlot /\ TDH \in TxSlot /\ e1000_tx_ptr \in TxSlot
      /\ tx_ring \in [TxSlot -> {"blank", "queued", "done"}]
  BY ServerTable DEF TypeOK, SocketTable, SocketRecord, States, Ports, Peers, Numbers
<1>1. CASE RunInternet
  <2>1. tcp_sockets' = ServerSocket
    BY <1>1 DEF RunInternet
  <2> QED BY <2>1, ServerTable DEF HalfOpenInv, Half, LISTEN, SYN_RCVD
<1>2. CASE Quit \/ PkgListen \/ Ping \/ PingDone
  <2>1. pc' \notin {"poll", "tx"}
    BY <1>2, PingEffect, PingDoneEffect DEF Quit, PkgListen, AtShell
  <2> QED BY <2>1 DEF HalfOpenInv
<1>3. CASE Poll
  <2>1. /\ pc = "poll" /\ UNCHANGED <<start, sent>>
        /\ Half /\ start.tx = 0 => Explained
    BY <1>3, PollEffect DEF HasFrame, HalfOpenInv, Underway
  <2>2. CASE Elsewhere
    <3>1. tcp_sockets' = tcp_sockets
      BY <2>2 DEF Elsewhere
    <3> QED BY <2>1, <3>1 DEF HalfOpenInv, Half, Explained
  <2>3. CASE Accepting
    <3>1. PICK h \in Hosts, s \in Sockets, k \in {"syn_ack", "arp_request"} :
            s = Tcb(h) /\ Accepts(s) /\ Transmits([kind |-> k, to |-> h], s, "tx")
      BY <2>3 DEF Accepting
    <3>2. s = 1
      BY <2>1, <3>1, TcbIsServer DEF NULL, Sockets
    <3>3. /\ pc' = "tx" /\ sending'.sock = 1
          /\ tx_ring'[e1000_tx_ptr] = "queued" /\ e1000_tx_ptr' = TxNext(e1000_tx_ptr)
      BY <1>0, <3>1, <3>2 DEF Transmits, TxRaw
    <3>4. Underway'
      BY <1>0, <3>3 DEF Underway, TxNext, TxSlot
    <3> QED BY <3>4 DEF HalfOpenInv
  <2>4. CASE Acknowledging
    <3> DEFINE t == Tcb(Received.from)
    <3>1. \/ tcp_sockets' = tcp_sockets
          \/ tcp_sockets' = [tcp_sockets EXCEPT ![t].state = ESTABLISHED]
      BY <2>4 DEF Acknowledging, Established
    <3> HIDE DEF t
    <3>2. tcp_sockets'[1].state = SYN_RCVD =>
            Half /\ tcp_sockets'[1].remote = tcp_sockets[1].remote
      BY <1>0, <3>1 DEF SocketTable, SocketRecord, Half, SYN_RCVD, ESTABLISHED
    <3> QED BY <2>1, <3>2 DEF HalfOpenInv, Half, Explained
  <2> QED BY <1>3, <2>2, <2>3, <2>4, PollEffect
<1>4. CASE TxDone
  <2>1. /\ pc = "tx" /\ UNCHANGED <<start, sent>>
        /\ \E i \in TxSlot : TxNext(i) = e1000_tx_ptr /\ tx_ring[i] # "queued"
        /\ \/ tcp_sockets' = tcp_sockets
           \/ tcp_sockets' = [tcp_sockets EXCEPT ![1].snd_nxt = ISS + 1]
    BY <1>4, TxDoneEffect DEF past, device
  <2>2. ~Underway
    BY <2>1, TxNextIs DEF Underway
  <2>3. /\ tcp_sockets'[1].state = tcp_sockets[1].state
        /\ tcp_sockets'[1].remote = tcp_sockets[1].remote
    BY <1>0, <2>1 DEF SocketTable, SocketRecord
  <2> QED BY <2>1, <2>2, <2>3 DEF HalfOpenInv, Half, Explained
<1>5. CASE CardTransmit
  <2>1. /\ UNCHANGED <<pc, sending, tcp_sockets, start>>
        /\ sent \subseteq sent'
        /\ stale = 0 /\ sending.frame # None =>
             sent' = sent \cup ({sending.frame} \cap [kind : {"syn_ack", "arp_request"}, to : Hosts])
    BY <1>5 DEF CardTransmit, pool, device
  <2>2. ASSUME start.tx = 0, Underway
        PROVE  Explained'
    <3>1. stale = 0
      BY <1>0, <1>5, <2>2, TransmitCases DEF FirstSend, LaterSend
    <3>2. PICK k \in {"syn_ack", "arp_request"} :
            sending.frame = [kind |-> k, to |-> tcp_sockets[1].remote]
      BY <2>2 DEF ServerInv, Underway
    <3>3. tcp_sockets[1].remote \in Hosts
      BY <2>2 DEF ServerInv, Underway, Half, LISTEN, SYN_RCVD, ESTABLISHED
    <3>4. /\ sending.frame \in [kind : {"syn_ack", "arp_request"}, to : Hosts]
          /\ sending.frame \in Reply
      BY <3>2, <3>3 DEF Reply
    <3>5. sending.frame # None
      BY <3>4, NetworkConstants
    <3>6. sending.frame \in sent'
      BY <2>1, <3>1, <3>4, <3>5
    <3> QED BY <2>1, <3>2, <3>6 DEF Explained
  <2>3. Explained => Explained'
    BY <2>1 DEF Explained
  <2> QED BY <2>1, <2>2, <2>3 DEF HalfOpenInv, Half
<1>6. CASE CardReceive \/ CardSkip \/ UNCHANGED vars
  BY <1>6 DEF CardReceive, CardSkip, vars, pool, tx, past, device, HalfOpenInv, Half, Explained,
              Underway, TxNext, TxSlot
<1> QED BY <1>1, <1>2, <1>3, <1>4, <1>5, <1>6 DEF Next, Card

-----------------------------------------------------------------------------
(***************************************************************************)
(* The inductive invariant and the theorems.                               *)
(***************************************************************************)
IInv ==
  TypeOK /\ BufferInv /\ ServerInv /\ CacheCoherent /\ RxInv /\ TxPhase /\ AnswerInv /\ HalfOpenInv

LEMMA InitIInv == Init => IInv
<1> SUFFICES ASSUME Init PROVE IInv
  OBVIOUS
<1>1. /\ NoSockets \in SocketTable
      /\ \A s \in Sockets : NoSockets[s].state = 0
  BY DEF NoSockets, SocketTable, SocketRecord, States, Ports, Peers, Numbers
<1>2. TypeOK
  <2>1. tcp_sockets \in [Sockets -> [used : BOOLEAN, state : 0 .. 3, local_port : {0, 80},
                                     remote : Hosts \cup {None}, snd_nxt : {0, ISS, ISS + 1}]]
    BY <1>1 DEF Init, SocketTable, SocketRecord, States, Ports, Peers, Numbers
  <2>2. arp_cache \in Seq([ip : Hosts, mac : Macs]) /\ Len(arp_cache) <= WX_ARP_CACHE_SIZE
    BY NetworkConstants DEF Init
  <2> QED BY <2>1, <2>2, RingTypes DEF Init, TypeOK, Idle
<1>3. BufferInv /\ ServerInv /\ CacheCoherent /\ RxInv /\ HalfOpenInv
  BY DEF Init, BufferInv, BuffersAccounted, Idle, ServerInv, CacheCoherent, RxInv,
         RxWindow, HalfOpenInv, Waiting
<1>4. TxPhase
  BY DEF Init, TxPhase, Unset
<1>5. AnswerInv
  BY <1>1 DEF Init, AnswerInv, EstablishedAnswered, ESTABLISHED
<1> QED BY <1>2, <1>3, <1>4, <1>5 DEF IInv

LEMMA StepIInv ==
  ASSUME IInv, [Next]_vars
  PROVE  IInv'
<1> USE DEF IInv
<1>1. TypeOK' /\ BufferInv' /\ ServerInv'
  BY TypeStep, BufferStep, ServerStep
<1>2. CacheCoherent'
  BY CacheCoherentStep
<1>3. RxInv'
  BY <1>1, RxStep
<1>4. TxPhase'
  BY TxStep
<1>5. AnswerInv'
  BY AnswerStep
<1>6. HalfOpenInv'
  BY <1>1, HalfOpenStep
<1> QED BY <1>1, <1>2, <1>3, <1>4, <1>5, <1>6

LEMMA Invariant == Spec => []IInv
BY InitIInv, StepIInv, PTL DEF Spec

\* Every buffer that handling a frame takes comes back.
THEOREM BuffersComeBack == Spec => []BuffersAccounted
<1>1. IInv => BuffersAccounted
  BY DEF IInv, BufferInv
<1> QED BY <1>1, Invariant, PTL

\* In step with the card no frame is skipped, overtaken or overwritten.
THEOREM RingInStep == Spec => []RxWindow
<1>1. IInv => RxWindow
  BY DEF IInv, RxInv
<1> QED BY <1>1, Invariant, PTL

\* The wait for the card can be stuck only when ping was given before the
\* first internet, or after a restart at the last transmit descriptor.
THEOREM WaitEnds == Spec => []StuckOnlyOutOfStep
<1>1. ASSUME IInv
      PROVE  StuckOnlyOutOfStep
  <2>1. TDH \in TxSlot /\ start.tx \in TxSlot
    BY <1>1 DEF IInv, TypeOK
  <2>2. CASE FirstSend
    <3>1. TxNext(start.tx) = IF start.tx + 1 < WX_E1000_NUM_TX_DESC THEN start.tx + 1 ELSE 0
      BY <2>1, TxNextIs
    <3> QED BY <2>1, <2>2, <3>1, NetworkConstants DEF FirstSend, StuckOnlyOutOfStep, TxSlot
  <2>3. CASE LaterSend
    BY <2>1, <2>3, TxNextIs DEF LaterSend, StuckOnlyOutOfStep
  <2>4. CASE Unset \/ Fresh \/ AllSent
    BY <2>4 DEF Unset, Fresh, AllSent, StuckOnlyOutOfStep
  <2> QED BY <1>1, <2>2, <2>3, <2>4 DEF IInv, TxPhase
<1> QED BY <1>1, Invariant, PTL

\* Old data is put before a frame only in the first frame after a restart.
THEOREM StaleIsFirst == Spec => []StaleOnlyAfterRestart
<1>1. ASSUME IInv
      PROVE  StaleOnlyAfterRestart
  <2>1. TDH \in Nat /\ start.tx \in Nat
    BY <1>1 DEF IInv, TypeOK, TxSlot
  <2> QED BY <1>1, <2>1 DEF IInv, TxPhase, Unset, Fresh, FirstSend, LaterSend, AllSent,
                            StaleOnlyAfterRestart
<1> QED BY <1>1, Invariant, PTL

\* The ARP cache tells the last address of every host it has room for.
THEOREM CacheIsCoherent == Spec => []CacheCoherent
<1>1. IInv => CacheCoherent
  BY DEF IInv
<1> QED BY <1>1, Invariant, PTL

\* Only a peer that got the SYN-ACK has a connection.
THEOREM ConnectedWasAnswered == Spec => []EstablishedAnswered
<1>1. IInv => EstablishedAnswered
  BY DEF IInv, AnswerInv
<1> QED BY <1>1, Invariant, PTL

\* A connection is half open because of what was sent.
THEOREM HalfOpenHasReason == Spec => []HalfOpenExplained
<1>1. ASSUME IInv
      PROVE  HalfOpenExplained
  <2> SUFFICES ASSUME pc = "poll", start.tx = 0,
                      NEW s \in Sockets, tcp_sockets[s].state = SYN_RCVD
               PROVE  \E k \in {"syn_ack", "arp_request"} :
                        [kind |-> k, to |-> tcp_sockets[s].remote] \in sent
    BY DEF HalfOpenExplained
  <2>1. s = 1
    BY <1>1 DEF IInv, ServerInv, SYN_RCVD
  <2> QED BY <1>1, <2>1 DEF IInv, HalfOpenInv, Half, Explained, Underway
<1> QED BY <1>1, Invariant, PTL

\* One handshake in a run of internet.
THEOREM HandshakeIsOnce == Spec => OneHandshake
<1>1. ASSUME IInv, [Next]_vars, pc = "poll",
             \E s \in Sockets : tcp_sockets[s].remote # None, pc' = "tx"
      PROVE  sending'.frame.kind # "syn_ack"
  <2>1. TypeOK /\ BufferInv /\ ServerInv
    BY <1>1 DEF IInv
  <2>2. Poll
    BY <1>1 DEF Next, RunInternet, Quit, PkgListen, AtShell, TxDone, Complete, Ping,
                PingDone, Card, CardReceive, CardSkip, CardTransmit, vars
  <2>3. CASE Elsewhere
    BY <1>1, <2>3 DEF Elsewhere, Retired, Transmits
  <2>4. ~Accepting
    <3> SUFFICES ASSUME NEW h \in Hosts, NEW s \in Sockets, s = Tcb(h), Accepts(s)
                 PROVE  FALSE
      BY DEF Accepting
    <3>1. s = 1
      BY <1>1, <2>1, TcbIsServer DEF NULL, Sockets
    <3>2. tcp_sockets[1].state = LISTEN
      BY <3>1 DEF Accepts
    <3>3. tcp_sockets[1].remote = None
      BY <1>1, <2>1, <3>2 DEF ServerInv, Half, LISTEN, SYN_RCVD, ESTABLISHED
    <3> QED BY <1>1, <2>1, <3>3 DEF ServerInv
  <2>5. ~Acknowledging
    BY <1>1 DEF Acknowledging, Retired
  <2> QED BY <2>1, <2>2, <2>3, <2>4, <2>5, PollEffect
<1>2. IInv /\ [Next]_vars =>
        [pc = "poll" /\ (\E s \in Sockets : tcp_sockets[s].remote # None) /\ pc' = "tx"
           => sending'.frame.kind # "syn_ack"]_vars
  BY <1>1
<1> QED BY <1>2, Invariant, PTL DEF Spec, OneHandshake
=============================================================================
