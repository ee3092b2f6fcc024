------------------------------ MODULE Network ------------------------------
(***************************************************************************)
(* The network stack of internet.h with the shell commands pkg and ping:   *)
(* buffer pool, ARP cache, TCP control blocks and the driver's rings,      *)
(* shared with an e1000 card.  internetmain polls, ping transmits from the *)
(* shell; the only place where either waits is the loop at the end of      *)
(* wx_e1000_tx_raw, and there a step of the card may come between.  So     *)
(* handling a frame is one step, or two with a transmission between them.  *)
(*                                                                         *)
(* Frames are well formed and peers follow their protocols.  A frame the   *)
(* kernel drops whatever its state (UDP, other versions, addresses and     *)
(* types) has kind "other"; kind "ack" is any segment with that flag.      *)
(***************************************************************************)
EXTENDS Integers, Sequences, FiniteSets, FiniteSetsExt

CONSTANTS
  WX_NET_BUF_POOL_SIZE,   \* 256
  WX_ARP_CACHE_SIZE,      \* 256
  WX_TCP_MAX_SOCKS,       \* 1024
  WX_E1000_NUM_RX_DESC,   \* 128
  WX_E1000_NUM_TX_DESC,   \* 128
  Hosts,                  \* peers: address and TCP port
  Macs,                   \* their hardware addresses
  Loopback,               \* 127.0.0.1, an address no peer has
  Frames,                 \* what the card may receive
  None                    \* no frame, host or hardware address

ISS == 1   \* 0x89ABCDEF, the first sequence number of every connection

AllFrames ==
  [kind : {"arp_request", "arp_other"}, from : Hosts, mac : Macs]
    \cup [kind : {"echo", "syn"}, from : Hosts]
    \cup [kind : {"ack"}, from : Hosts, ack_num : {ISS, ISS + 1}]
    \cup [kind : {"other"}]

\* What the kernel transmits.
Reply ==
  [kind : {"arp_reply", "arp_request", "echo_reply", "syn_ack"}, to : Hosts]
    \cup [kind : {"arp_request", "echo_request"}, to : {Loopback}]

ASSUME NetworkConstants ==
  /\ WX_NET_BUF_POOL_SIZE \in Nat \ 0 .. 2   \* a frame, an answer, an ARP request
  /\ WX_ARP_CACHE_SIZE \in Nat
  /\ WX_TCP_MAX_SOCKS \in Nat \ {0}
  /\ WX_E1000_NUM_RX_DESC \in Nat \ {0}
  /\ WX_E1000_NUM_TX_DESC \in Nat \ {0}
  /\ Frames \subseteq AllFrames
  /\ None \notin AllFrames \cup Reply \cup Hosts \cup Macs
  /\ Loopback \notin Hosts

VARIABLES
  pc,            \* "shell"; "poll": in internetmain; "tx" and "ping": in the
                 \* loop of wx_e1000_tx_raw, called from there or by ping
  e1000_base,    \* where the driver writes the registers; 0 before the first
                 \* wx_e1000_init, and then no card sees what it writes
  buf_pool_used, \* buffers in use
  arp_cache,     \* the entries in use, which come first and are never freed
  tcp_sockets,
  rx_ring,       \* by descriptor: the frame, None when the done bit is clear
  tx_ring,       \* by descriptor: cmd 0, or queued, or queued and done
  e1000_rx_ptr, e1000_tx_ptr,
  RDH, RDT, TDH, TDT,   \* registers of the card
  sending,       \* in the loop: the frame, the buffers freed afterwards, the socket
                 \* whose snd_nxt moves afterwards
  stale,         \* blank descriptors the card read before the next frame
  start,         \* history: e1000_rx_ptr and e1000_tx_ptr at wx_e1000_init
  announced,     \* history: hardware address last announced, since the init
  sent,          \* history: frames that reached a peer, since the init
  answered       \* history: peers that ever got a SYN-ACK

pool == <<buf_pool_used, sending>>
rx == <<rx_ring, e1000_rx_ptr, RDT>>
tx == <<tx_ring, e1000_tx_ptr, TDT>>
device == <<e1000_base, start>>   \* what only wx_e1000_init changes
past == <<device, announced, sent, answered>>
vars == <<pc, pool, arp_cache, tcp_sockets, rx, tx, RDH, TDH, stale, past>>

Buffers == 1 .. WX_NET_BUF_POOL_SIZE
Sockets == 1 .. WX_TCP_MAX_SOCKS
RxSlot == 0 .. WX_E1000_NUM_RX_DESC - 1
TxSlot == 0 .. WX_E1000_NUM_TX_DESC - 1
RxNext(i) == (i + 1) % WX_E1000_NUM_RX_DESC
TxNext(i) == (i + 1) % WX_E1000_NUM_TX_DESC
NIC_BASE == 1   \* 0xFEB00000
Waiting == pc \in {"tx", "ping"}
NULL == 0
LISTEN == 1
SYN_RCVD == 2
ESTABLISHED == 3

Idle == [frame |-> None, free |-> {}, sock |-> NULL]
NoSockets == [s \in Sockets |-> [used |-> FALSE, state |-> 0, local_port |-> 0,
                                 remote |-> None, snd_nxt |-> 0]]

-----------------------------------------------------------------------------
(* The buffer pool and the ARP cache. *)

\* wx_net_buf_alloc
Alloc(used) == IF used = Buffers THEN NULL ELSE Min(Buffers \ used)

Entry(ip) == {i \in DOMAIN arp_cache : arp_cache[i].ip = ip}
ArpLookup(ip) == Entry(ip) # {}   \* wx_arp_lookup succeeds

\* Mutant: wx_arp_update always adds.
ArpUpdate_adds(ip, mac) ==
  IF Len(arp_cache) < WX_ARP_CACHE_SIZE
    THEN Append(arp_cache, [ip |-> ip, mac |-> mac]) ELSE arp_cache

\* wx_arp_update: refresh the entry, or take a free one, or forget.
ArpUpdate(ip, mac) ==
  IF ArpLookup(ip)
    THEN [arp_cache EXCEPT ![Min(Entry(ip))].mac = mac]
    ELSE IF Len(arp_cache) < WX_ARP_CACHE_SIZE
           THEN Append(arp_cache, [ip |-> ip, mac |-> mac])
           ELSE arp_cache

-----------------------------------------------------------------------------
(***************************************************************************)
(* What handling a frame in buffer buf leads to: the buffers then in use,  *)
(* the frame given to wx_e1000_tx_raw (or None) and the buffers freed when *)
(* it returns.                                                             *)
(***************************************************************************)
Dropped(used, buf) == [used |-> used, frame |-> None, free |-> {buf}]

\* Mutant: no request for an unknown address.
IpSend_silent(used, buf, frame) ==
  IF ArpLookup(frame.to)
    THEN [used |-> used, frame |-> frame, free |-> {buf}]
    ELSE Dropped(used, buf)

\* wx_ip_send: a frame to an unknown address is replaced by an ARP request.
IpSend(used, buf, frame) ==
  IF ArpLookup(frame.to)
    THEN [used |-> used, frame |-> frame, free |-> {buf}]
    ELSE LET req == Alloc(used) IN
         IF req = NULL THEN Dropped(used, buf)
         ELSE [used |-> used \cup {req}, free |-> {req, buf},
               frame |-> [kind |-> "arp_request", to |-> frame.to]]

\* wx_arp_process, after the update of the cache
ArpProcess(used, buf, f) ==
  LET rep == Alloc(used) IN
  IF f.kind = "arp_request" /\ rep # NULL
    THEN [used |-> used \cup {rep}, free |-> {rep, buf},
          frame |-> [kind |-> "arp_reply", to |-> f.from]]
    ELSE Dropped(used, buf)

\* Mutant: the buffer of the frame that is answered is not freed.
Respond_leaks(used, buf, frame) ==
  LET rep == Alloc(used) IN
  IF rep = NULL THEN Dropped(used, buf) ELSE IpSend(used \cup {rep}, rep, frame)

\* The replies of wx_icmp_process and wx_tcp_process.
Respond(used, buf, frame) ==
  LET rep == Alloc(used) IN
  IF rep = NULL THEN Dropped(used, buf)
  ELSE LET out == IpSend(used \cup {rep}, rep, frame)
       IN [out EXCEPT !.free = @ \cup {buf}]

\* The socket wx_tcp_process finds for a segment, or NULL: the connection,
\* else the first one that listens.
Tcb(h) ==
  LET ours == {s \in Sockets : tcp_sockets[s].used /\ tcp_sockets[s].local_port = 80}
      connected == {s \in ours : tcp_sockets[s].remote = h}
      listening == {s \in ours : tcp_sockets[s].state = LISTEN}
  IN IF connected # {} THEN Min(connected)
     ELSE IF listening # {} THEN Min(listening)
     ELSE NULL

\* Mutant: the index does not move.
RxAdvance_not == e1000_rx_ptr

RxAdvance == RxNext(e1000_rx_ptr)

\* The end of a frame: buffers freed, the counter of the connection moved,
\* the descriptor handed back (wx_e1000_poll).
Complete(used, free, socks, s) ==
  /\ buf_pool_used' = used \ free
  /\ tcp_sockets' = IF s = NULL THEN socks ELSE [socks EXCEPT ![s].snd_nxt = @ + 1]
  /\ sending' = Idle
  /\ rx_ring' = [rx_ring EXCEPT ![e1000_rx_ptr] = None]
  /\ RDT' = e1000_rx_ptr
  /\ e1000_rx_ptr' = RxAdvance
  /\ pc' = "poll"

\* Mutant: the index is announced to the card before it moves.
TxRaw_early(loop) ==
  /\ tx_ring' = [tx_ring EXCEPT ![e1000_tx_ptr] = "queued"]
  /\ e1000_tx_ptr' = TxNext(e1000_tx_ptr)
  /\ TDT' = IF e1000_base = 0 THEN TDT ELSE e1000_tx_ptr
  /\ pc' = loop

\* Mutant: one descriptor too many is announced.
TxRaw_far(loop) ==
  /\ tx_ring' = [tx_ring EXCEPT ![e1000_tx_ptr] = "queued"]
  /\ e1000_tx_ptr' = TxNext(e1000_tx_ptr)
  /\ TDT' = IF e1000_base = 0 THEN TDT ELSE TxNext(TxNext(e1000_tx_ptr))
  /\ pc' = loop

\* wx_e1000_tx_raw up to its loop.  Without a base the tail is written to
\* ordinary memory.
TxRaw(loop) ==
  /\ tx_ring' = [tx_ring EXCEPT ![e1000_tx_ptr] = "queued"]
  /\ e1000_tx_ptr' = TxNext(e1000_tx_ptr)
  /\ TDT' = IF e1000_base = 0 THEN TDT ELSE TxNext(e1000_tx_ptr)
  /\ pc' = loop

Transmit(out, s, loop) ==
  /\ TxRaw(loop)
  /\ buf_pool_used' = out.used
  /\ sending' = [frame |-> out.frame, free |-> out.free, sock |-> s]
  /\ UNCHANGED rx

\* What follows from out: transmit and wait, or finish at once.
Conclude(out, socks, s) ==
  \/ /\ out.frame = None
     /\ Complete(out.used, out.free, socks, s)
     /\ UNCHANGED tx
  \/ /\ out.frame # None
     /\ Transmit(out, s, "tx")
     /\ tcp_sockets' = socks

-----------------------------------------------------------------------------
Init ==
  /\ pc = "shell"
  /\ e1000_base = 0
  /\ buf_pool_used = {} /\ sending = Idle
  /\ arp_cache = << >>
  /\ tcp_sockets = NoSockets
  /\ rx_ring = [i \in RxSlot |-> None]
  /\ tx_ring = [i \in TxSlot |-> "blank"]
  /\ e1000_rx_ptr = 0 /\ e1000_tx_ptr = 0
  /\ RDH = 0 /\ RDT = 0 /\ TDH = 0 /\ TDT = 0
  /\ stale = 0
  /\ start = [rx |-> 0, tx |-> 0]
  /\ announced = [h \in Hosts |-> None]
  /\ sent = {}
  /\ answered = {}

\* wx_socket takes the first free control block ...
FreeSocket(socks) == {s \in Sockets : ~socks[s].used}
Socket(socks) ==
  [socks EXCEPT ![Min(FreeSocket(socks))] = [@ EXCEPT !.used = TRUE, !.state = 0]]

\* ... and internetmain binds and listens on an empty table.
ServerSocket == [Socket(NoSockets) EXCEPT ![1].local_port = 80, ![1].state = LISTEN]

\* Mutant: the card is given no descriptor.
InitialTail_none == 0

\* The tail of the receive ring written by wx_e1000_init.
InitialTail == WX_E1000_NUM_RX_DESC - 1

AtShell == pc = "shell"

\* The command internet: internetmain up to its loop, wx_e1000_init included.
\* The driver's two ring indices keep their values from the last run.
RunInternet ==
  /\ AtShell
  /\ pc' = "poll"
  /\ e1000_base' = NIC_BASE
  /\ rx_ring' = [i \in RxSlot |-> None]
  /\ tx_ring' = [i \in TxSlot |-> "blank"]
  /\ RDH' = 0 /\ RDT' = InitialTail
  /\ TDH' = 0 /\ TDT' = 0
  /\ stale' = 0
  /\ arp_cache' = << >>
  /\ tcp_sockets' = ServerSocket
  /\ start' = [rx |-> e1000_rx_ptr, tx |-> e1000_tx_ptr]
  /\ announced' = [h \in Hosts |-> None]
  /\ sent' = {}
  /\ UNCHANGED <<pool, e1000_rx_ptr, e1000_tx_ptr, answered>>

\* The key q, looked at when no frame is left.
Quit ==
  /\ pc = "poll"
  /\ rx_ring[e1000_rx_ptr] = None
  /\ pc' = "shell"
  /\ UNCHANGED <<pool, arp_cache, tcp_sockets, rx, tx, RDH, TDH, stale, past>>

\* pkg start; without a free control block it changes nothing.
PkgListen ==
  /\ AtShell
  /\ FreeSocket(tcp_sockets) # {}
  /\ tcp_sockets' =
       [Socket(tcp_sockets) EXCEPT ![Min(FreeSocket(tcp_sockets))].state = SYN_RCVD]
  /\ UNCHANGED <<pc, pool, arp_cache, rx, tx, RDH, TDH, stale, past>>

-----------------------------------------------------------------------------
(* wx_e1000_poll, one action for each kind of frame. *)

Received == rx_ring[e1000_rx_ptr]
HasFrame == pc = "poll" /\ Received # None
HasBuffer(buf) == buf # NULL /\ buf = Alloc(buf_pool_used)

\* A frame without effect, or no buffer for it.
PollDropped ==
  /\ HasFrame
  /\ Alloc(buf_pool_used) # NULL => Received.kind = "other"
  /\ Complete(buf_pool_used, {}, tcp_sockets, NULL)
  /\ UNCHANGED <<arp_cache, tx, RDH, TDH, stale, past>>

PollArp ==
  /\ HasFrame /\ Received.kind \in {"arp_request", "arp_other"}
  /\ arp_cache' = ArpUpdate(Received.from, Received.mac)
  /\ announced' = [announced EXCEPT ![Received.from] = Received.mac]
  /\ \E buf \in Buffers :
       /\ HasBuffer(buf)
       /\ Conclude(ArpProcess(buf_pool_used \cup {buf}, buf, Received), tcp_sockets, NULL)
  /\ UNCHANGED <<RDH, TDH, stale, device, sent, answered>>

PollEcho ==
  /\ HasFrame /\ Received.kind = "echo"
  /\ \E buf \in Buffers :
       /\ HasBuffer(buf)
       /\ Conclude(Respond(buf_pool_used \cup {buf}, buf,
                           [kind |-> "echo_reply", to |-> Received.from]),
                   tcp_sockets, NULL)
  /\ UNCHANGED <<arp_cache, RDH, TDH, stale, past>>

\* Mutant: a second SYN is accepted too.
Accepts_again(s) == s # NULL /\ tcp_sockets[s].state \in {LISTEN, SYN_RCVD}

Accepts(s) == s # NULL /\ tcp_sockets[s].state = LISTEN

\* A SYN is accepted by a socket that listens; the socket then belongs to that
\* peer, whatever becomes of the answer.
PollSyn ==
  /\ HasFrame /\ Received.kind = "syn"
  /\ LET h == Received.from
         s == Tcb(h)
     IN \E buf \in Buffers :
          LET used == buf_pool_used \cup {buf}
          IN /\ HasBuffer(buf)
             /\ IF Accepts(s)
                  THEN Conclude(Respond(used, buf, [kind |-> "syn_ack", to |-> h]),
                                [tcp_sockets EXCEPT ![s] =
                                   [@ EXCEPT !.remote = h, !.state = SYN_RCVD, !.snd_nxt = ISS]],
                                IF Alloc(used) = NULL THEN NULL ELSE s)
                  ELSE Conclude(Dropped(used, buf), tcp_sockets, NULL)
  /\ UNCHANGED <<arp_cache, RDH, TDH, stale, past>>

\* Mutant: the acknowledged number is not compared.
Established_any(socks, s, ack_num) ==
  IF s # NULL /\ socks[s].state = SYN_RCVD
    THEN [socks EXCEPT ![s].state = ESTABLISHED] ELSE socks

\* The end of the handshake in wx_tcp_process.
Established(socks, s, ack_num) ==
  IF s # NULL /\ socks[s].state = SYN_RCVD /\ ack_num = socks[s].snd_nxt
    THEN [socks EXCEPT ![s].state = ESTABLISHED] ELSE socks

PollAck ==
  /\ HasFrame /\ Received.kind = "ack"
  /\ Alloc(buf_pool_used) # NULL
  /\ Complete(buf_pool_used, {},
              Established(tcp_sockets, Tcb(Received.from), Received.ack_num), NULL)
  /\ UNCHANGED <<arp_cache, tx, RDH, TDH, stale, past>>

\* The loop of wx_e1000_tx_raw ends: the card has set the done bit.
LoopEnds == \E i \in TxSlot : TxNext(i) = e1000_tx_ptr /\ tx_ring[i] # "queued"

TxDone ==
  /\ pc = "tx" /\ LoopEnds
  /\ Complete(buf_pool_used, sending.free, tcp_sockets, sending.sock)
  /\ UNCHANGED <<arp_cache, tx, RDH, TDH, stale, past>>

-----------------------------------------------------------------------------
(* The command ping: one echo request to 127.0.0.1. *)

\* Without a buffer for what is to be sent it changes nothing.
Ping ==
  /\ AtShell
  /\ \E buf \in Buffers :
       /\ HasBuffer(buf)
       /\ LET out == IpSend(buf_pool_used \cup {buf}, buf,
                            [kind |-> "echo_request", to |-> Loopback])
          IN out.frame # None /\ Transmit(out, NULL, "ping")
  /\ UNCHANGED <<arp_cache, tcp_sockets, RDH, TDH, stale, past>>

PingDone ==
  /\ pc = "ping" /\ LoopEnds
  /\ pc' = "shell"
  /\ buf_pool_used' = buf_pool_used \ sending.free
  /\ sending' = Idle
  /\ UNCHANGED <<arp_cache, tcp_sockets, rx, tx, RDH, TDH, stale, past>>

-----------------------------------------------------------------------------
(***************************************************************************)
(* The card, an e1000: it owns the receive descriptors from RDH up to RDT  *)
(* (none if they are equal) and reads transmit descriptors from TDH up to  *)
(* TDT.  Data of descriptors without the end-of-packet bit is put in front *)
(* of the next frame, which then reaches no peer.                          *)
(***************************************************************************)

\* A peer acknowledges a SYN-ACK only once it has it.
Possible(f) == f.kind = "ack" /\ f.ack_num = ISS + 1 => f.from \in answered

CardReceive ==
  /\ RDH # RDT
  /\ \E f \in Frames :
       /\ Possible(f)
       /\ rx_ring' = [rx_ring EXCEPT ![RDH] = f]
  /\ RDH' = RxNext(RDH)
  /\ UNCHANGED <<pc, pool, arp_cache, tcp_sockets, e1000_rx_ptr, RDT, tx, TDH,
                 stale, past>>

CardSkip ==
  /\ TDH # TDT /\ tx_ring[TDH] = "blank"
  /\ stale' = stale + 1
  /\ TDH' = TxNext(TDH)
  /\ UNCHANGED <<pc, pool, arp_cache, tcp_sockets, rx, tx, RDH, past>>

CardTransmit ==
  /\ TDH # TDT /\ tx_ring[TDH] # "blank"
  /\ tx_ring' = [tx_ring EXCEPT ![TDH] = "done"]
  /\ TDH' = TxNext(TDH)
  /\ stale' = 0
  /\ IF stale = 0 /\ sending.frame # None
       THEN /\ sent' = sent \cup ({sending.frame} \cap [kind : {"syn_ack", "arp_request"}, to : Hosts])
            /\ answered' = IF sending.frame.kind = "syn_ack"
                             THEN answered \cup {sending.frame.to} ELSE answered
       ELSE UNCHANGED <<sent, answered>>
  /\ UNCHANGED <<pc, pool, arp_cache, tcp_sockets, rx, e1000_tx_ptr, TDT, RDH,
                 device, announced>>

Poll == PollDropped \/ PollArp \/ PollEcho \/ PollSyn \/ PollAck
Card == CardReceive \/ CardSkip \/ CardTransmit
Next ==
  \/ RunInternet \/ Quit \/ PkgListen \/ Poll \/ TxDone
  \/ Ping \/ PingDone
  \/ Card
Spec == Init /\ [][Next]_vars

\* The loops of internetmain and wx_e1000_tx_raw run in the shell, where no
\* interrupt comes, and have the CPU to themselves; the card goes through the
\* descriptors it is given.
Fairness ==
  WF_vars(Poll) /\ WF_vars(TxDone \/ PingDone) /\ WF_vars(CardSkip \/ CardTransmit)
FairSpec == Spec /\ Fairness

-----------------------------------------------------------------------------
TypeOK ==
  /\ pc \in {"shell", "poll", "tx", "ping"}
  /\ e1000_base \in {0, NIC_BASE}
  /\ buf_pool_used \subseteq Buffers
  /\ arp_cache \in Seq([ip : Hosts, mac : Macs]) /\ Len(arp_cache) <= WX_ARP_CACHE_SIZE
  /\ tcp_sockets \in [Sockets -> [used : BOOLEAN, state : 0 .. 3, local_port : {0, 80},
                                  remote : Hosts \cup {None}, snd_nxt : {0, ISS, ISS + 1}]]
  /\ rx_ring \in [RxSlot -> AllFrames \cup {None}]
  /\ tx_ring \in [TxSlot -> {"blank", "queued", "done"}]
  /\ {e1000_rx_ptr, RDH, RDT} \subseteq RxSlot
  /\ {e1000_tx_ptr, TDH, TDT} \subseteq TxSlot
  /\ sending \in [frame : Reply \cup {None}, free : SUBSET Buffers, sock : Sockets \cup {NULL}]
  /\ stale \in Nat
  /\ start \in [rx : RxSlot, tx : TxSlot]
  /\ announced \in [Hosts -> Macs \cup {None}]
  /\ sent \subseteq Reply
  /\ answered \subseteq Hosts

\* Every buffer comes back: the ones in use are those the frame being sent
\* will free, so none is in use between two frames (wx_net_buf_free on every
\* path from wx_e1000_poll).
BuffersAccounted == buf_pool_used = sending.free

\* In step with the card (the receive index was 0 at the last initialisation),
\* the driver's next descriptor is the first after the tail it gave the card,
\* and the unread frames are exactly those from its index up to the head: none
\* is skipped, overtaken or overwritten (wx_e1000_init, wx_e1000_poll).
RxWindow ==
  e1000_base # 0 /\ start.rx = 0 =>
    /\ RxNext(RDT) = e1000_rx_ptr
    /\ \A i \in RxSlot :
         rx_ring[i] # None <=>
           (i - e1000_rx_ptr) % WX_E1000_NUM_RX_DESC
             < (RDH - e1000_rx_ptr) % WX_E1000_NUM_RX_DESC

\* The loop of wx_e1000_tx_raw can only be stuck, with a descriptor the card
\* will never look at, when driver and card are out of step: ping was given
\* before the first internet, so the tail went to no card, or internet was run
\* again with the transmit index at the last descriptor (e1000_tx_ptr is not
\* reset, TDT becomes 0 = TDH).
StuckOnlyOutOfStep ==
  Waiting /\ TDH = TDT /\ (\E i \in TxSlot : tx_ring[i] = "queued")
    => e1000_base = 0 \/ start.tx = WX_E1000_NUM_TX_DESC - 1

\* Old data precedes a frame only after internet was run again with a transmit
\* index other than 0, and only in the first frame of that run.
StaleOnlyAfterRestart ==
  stale > 0 => start.tx # 0 /\ sent = {} /\ e1000_tx_ptr = TxNext(start.tx)

\* The cache knows every host that announced itself, with the address it
\* announced last, once, unless the cache is full: then later hosts stay
\* unknown (wx_arp_update never evicts).
CacheCoherent ==
  /\ \A i, j \in DOMAIN arp_cache : arp_cache[i].ip = arp_cache[j].ip => i = j
  /\ \A i \in DOMAIN arp_cache : announced[arp_cache[i].ip] = arp_cache[i].mac
  /\ \A h \in Hosts :
       announced[h] # None => ArpLookup(h) \/ Len(arp_cache) = WX_ARP_CACHE_SIZE

\* A connection is established only with a peer that got a SYN-ACK
\* (wx_tcp_process compares the acknowledged number with snd_nxt).
EstablishedAnswered ==
  \A s \in Sockets :
    tcp_sockets[s].state = ESTABLISHED => tcp_sockets[s].remote \in answered

\* A connection is half open because its SYN-ACK went out, or because an ARP
\* request went out in its place; in the second case the kernel never sends
\* the SYN-ACK (wx_ip_send drops it, wx_tcp_process answers a SYN only once).
HalfOpenExplained ==
  pc = "poll" /\ start.tx = 0 =>
    \A s \in Sockets :
      tcp_sockets[s].state = SYN_RCVD =>
        \E k \in {"syn_ack", "arp_request"} :
          [kind |-> k, to |-> tcp_sockets[s].remote] \in sent

\* A run of internet offers one handshake: once a peer holds the server's
\* socket, no SYN-ACK is sent any more, to it or to another peer, not even if
\* the first one was lost or never went out.
OneHandshake ==
  [][pc = "poll" /\ (\E s \in Sockets : tcp_sockets[s].remote # None) /\ pc' = "tx"
       => sending'.frame.kind # "syn_ack"]_vars

\* In step with the card, every frame in the ring is eventually taken or the
\* user leaves (the loops of wx_e1000_poll and wx_e1000_tx_raw).
InStep == start.rx = 0 /\ start.tx # WX_E1000_NUM_TX_DESC - 1
FramesConsumed ==
  \A i \in RxSlot :
    InStep /\ rx_ring[i] # None ~> rx_ring[i] = None \/ pc = "shell"
=============================================================================
