-------------------------- MODULE IpcChannelProofs --------------------------
(***************************************************************************)
(* The ring of messages implements a bounded first-in first-out queue, for *)
(* every ring size.                                                        *)
(***************************************************************************)
EXTENDS IpcChannel, SequenceTheorems, TLAPS

N == SCHED_IPC_MAX_MESSAGES

\* Index arithmetic on a ring, without the modulus.
LEMMA RingArithmetic ==
  ASSUME NEW n \in Nat \ {0}, NEW h \in 0 .. n - 1, NEW k \in 0 .. n
  PROVE  (h + k) % n = IF h + k < n THEN h + k ELSE h + k - n
OBVIOUS

\* The inductive invariant.
ChannelInv == TypeOK /\ WindowFilled

\* The k-th oldest message lies in the ring.
LEMMA SlotInRing ==
  ASSUME TypeOK, NEW k \in 1 .. count
  PROVE  /\ SlotOf(k) \in Slot
         /\ SlotOf(k) = IF head + k - 1 < N THEN head + k - 1 ELSE head + k - 1 - N
<1>1. N \in Nat \ {0} /\ head \in 0 .. N - 1 /\ k - 1 \in 0 .. N /\ k \in Nat /\ count \in Nat
  BY ChannelConstants DEF TypeOK, Slot, N
<1>2. (head + (k - 1)) % N = IF head + (k - 1) < N THEN head + (k - 1) ELSE head + (k - 1) - N
  BY <1>1, RingArithmetic
<1>3. k - 1 < N
  BY <1>1 DEF TypeOK, N
<1> QED BY <1>1, <1>2, <1>3 DEF SlotOf, Slot, N

\* The queue the ring stands for is a sequence of messages.
LEMMA ContentsType ==
  ASSUME ChannelInv
  PROVE  Contents \in Seq(Message) /\ Len(Contents) = count
<1>1. count \in Nat
  BY ChannelConstants DEF ChannelInv, TypeOK
<1>2. Contents \in [1 .. count -> Message]
  BY DEF ChannelInv, WindowFilled, Contents
<1> QED BY <1>1, <1>2

\* The zeroed channel is an empty queue.
LEMMA ChannelInit ==
  ASSUME Init
  PROVE  ChannelInv /\ Contents = << >>
<1>1. TypeOK
  BY ChannelConstants DEF Init, TypeOK, Slot
<1>2. WindowFilled
  BY ChannelConstants DEF Init, WindowFilled
<1>3. Contents = << >>
  BY DEF Init, Contents
<1> QED BY <1>1, <1>2, <1>3 DEF ChannelInv

\* Sending writes the first slot behind the window and moves no message.
LEMMA SendStep ==
  ASSUME ChannelInv, NEW m \in Message, Send(m)
  PROVE  ChannelInv' /\ Contents' = Append(Contents, m)
<1>1. /\ N \in Nat \ {0} /\ head \in 0 .. N - 1 /\ tail \in 0 .. N - 1
      /\ count \in 0 .. N /\ count < N /\ count' = count + 1
      /\ tail' = (tail + 1) % N /\ head' = head
      /\ queue' = [queue EXCEPT ![tail] = m]
      /\ queue \in [Slot -> Message \cup {NoMessage}]
      /\ delivered' = delivered
  BY ChannelConstants DEF ChannelInv, TypeOK, Slot, Send, Advance, N
<1>2. tail = IF head + count < N THEN head + count ELSE head + count - N
  <2>1. tail = (head + count) % N
    BY DEF ChannelInv, WindowFilled, N
  <2> QED BY <1>1, <2>1, RingArithmetic
<1>3. tail' = IF tail + 1 < N THEN tail + 1 ELSE tail + 1 - N
  <2>1. 1 \in 0 .. N
    BY <1>1
  <2> QED BY <1>1, <2>1, RingArithmetic
<1>4. TypeOK'
  <2>1. tail' \in 0 .. N - 1
    BY <1>1, <1>3
  <2> QED BY <1>1, <2>1 DEF ChannelInv, TypeOK, Slot, N
<1>5. ASSUME NEW k \in 1 .. count
      PROVE  SlotOf(k)' = SlotOf(k) /\ SlotOf(k) # tail /\ SlotOf(k) \in Slot
  <2>1. SlotOf(k)' = SlotOf(k)
    BY <1>1 DEF SlotOf
  <2>2. /\ SlotOf(k) \in Slot
        /\ SlotOf(k) = IF head + k - 1 < N THEN head + k - 1 ELSE head + k - 1 - N
    BY SlotInRing DEF ChannelInv
  <2> QED BY <1>1, <1>2, <2>1, <2>2
<1>6. ASSUME NEW k \in Nat, k = count + 1
      PROVE  SlotOf(k)' = tail
  <2>1. SlotOf(k)' = (head + k - 1) % N
    BY <1>1 DEF SlotOf, N
  <2>2. head + k - 1 = head + count
    BY <1>1, <1>6
  <2> QED BY <2>1, <2>2 DEF ChannelInv, WindowFilled, N
<1>7. \A k \in 1 .. count + 1 :
        queue'[SlotOf(k)'] = IF k = count + 1 THEN m ELSE queue[SlotOf(k)]
  <2> SUFFICES ASSUME NEW k \in 1 .. count + 1
               PROVE  queue'[SlotOf(k)'] = IF k = count + 1 THEN m ELSE queue[SlotOf(k)]
    OBVIOUS
  <2>1. CASE k = count + 1
    <3>1. SlotOf(k)' = tail
      BY <1>1, <1>6, <2>1
    <3> QED BY <1>1, <2>1, <3>1 DEF Slot, N
  <2>2. CASE k # count + 1
    <3>1. k \in 1 .. count
      BY <1>1, <2>2
    <3> QED BY <1>1, <1>5, <2>2, <3>1
  <2> QED BY <2>1, <2>2
<1>8. WindowFilled'
  <2>1. tail' = (head' + count') % N
    <3>1. (head + (count + 1)) % N
            = IF head + (count + 1) < N THEN head + (count + 1) ELSE head + (count + 1) - N
      <4>1. count + 1 \in 0 .. N
        BY <1>1
      <4> QED BY <1>1, <4>1, RingArithmetic
    <3> QED BY <1>1, <1>2, <1>3, <3>1
  <2>2. ASSUME NEW k \in 1 .. count + 1
        PROVE  queue'[SlotOf(k)'] \in Message
    <3>1. CASE k = count + 1
      BY <1>7, <3>1
    <3>2. CASE k # count + 1
      <4>1. k \in 1 .. count
        BY <1>1, <3>2
      <4>2. queue[SlotOf(k)] \in Message
        BY <4>1 DEF ChannelInv, WindowFilled
      <4> QED BY <1>7, <3>2, <4>2
    <3> QED BY <3>1, <3>2
  <2> QED BY <1>1, <2>1, <2>2 DEF WindowFilled, N
<1>9. Contents' = Append(Contents, m)
  <2>1. Contents \in Seq(Message) /\ Len(Contents) = count
    BY ContentsType
  <2>2. /\ Append(Contents, m) \in Seq(Message)
        /\ Len(Append(Contents, m)) = count + 1
        /\ \A k \in 1 .. count : Append(Contents, m)[k] = Contents[k]
        /\ Append(Contents, m)[count + 1] = m
    BY <2>1, AppendProperties
  <2>3. Contents' = [k \in 1 .. count + 1 |-> IF k = count + 1 THEN m ELSE queue[SlotOf(k)]]
    BY <1>1, <1>7 DEF Contents
  <2>4. Contents' \in [1 .. count + 1 -> Message]
    BY <1>1, <1>8 DEF Contents, WindowFilled
  <2>5. Contents' \in Seq(Message) /\ Len(Contents') = count + 1
    BY <1>1, <2>4
  <2>6. ASSUME NEW k \in 1 .. count + 1
        PROVE  Contents'[k] = Append(Contents, m)[k]
    <3>1. CASE k = count + 1
      BY <2>2, <2>3, <3>1
    <3>2. CASE k # count + 1
      <4>1. k \in 1 .. count
        BY <1>1, <3>2
      <4>2. Contents[k] = queue[SlotOf(k)]
        BY <4>1 DEF Contents
      <4> QED BY <2>2, <2>3, <3>2, <4>1, <4>2
    <3> QED BY <3>1, <3>2
  <2> HIDE DEF Contents
  <2> QED BY <2>2, <2>5, <2>6, SeqEqual
<1> QED BY <1>4, <1>8, <1>9 DEF ChannelInv

\* Receiving hands out the oldest message and moves the window by one.
LEMMA ReceiveStep ==
  ASSUME ChannelInv, Receive
  PROVE  /\ ChannelInv'
         /\ Contents # << >>
         /\ Contents' = Tail(Contents)
         /\ delivered' = Head(Contents)
<1>1. /\ N \in Nat \ {0} /\ head \in 0 .. N - 1 /\ tail \in 0 .. N - 1
      /\ count \in 1 .. N /\ count' = count - 1
      /\ head' = (head + 1) % N /\ tail' = tail /\ queue' = queue
      /\ delivered' = queue[head]
      /\ queue \in [Slot -> Message \cup {NoMessage}]
  BY ChannelConstants DEF ChannelInv, TypeOK, Slot, Receive, Advance, N
<1>2. head' = IF head + 1 < N THEN head + 1 ELSE 0
  <2>1. (head + 1) % N = IF head + 1 < N THEN head + 1 ELSE head + 1 - N
    <3>1. 1 \in 0 .. N
      BY <1>1
    <3> QED BY <1>1, <3>1, RingArithmetic
  <2> QED BY <1>1, <2>1
<1>3. TypeOK'
  <2>1. head' \in 0 .. N - 1 /\ count' \in 0 .. N
    BY <1>1, <1>2
  <2>2. delivered' \in Message \cup {NoMessage}
    BY <1>1 DEF Slot, N
  <2> QED BY <1>1, <2>1, <2>2 DEF ChannelInv, TypeOK, Slot, N
<1>4. ASSUME NEW k \in 1 .. count - 1
      PROVE  SlotOf(k)' = SlotOf(k + 1)
  <2>1. k + 1 \in 1 .. count
    BY <1>1
  <2>2. SlotOf(k + 1) = IF head + (k + 1) - 1 < N THEN head + (k + 1) - 1
                                                ELSE head + (k + 1) - 1 - N
    BY <2>1, SlotInRing DEF ChannelInv
  <2>3. SlotOf(k)' = (head' + (k - 1)) % N
    BY <1>1, <1>2 DEF SlotOf, N
  <2>4. k - 1 \in 0 .. N /\ head' \in 0 .. N - 1
    BY <1>1, <1>2
  <2>5. (head' + (k - 1)) % N
          = IF head' + (k - 1) < N THEN head' + (k - 1) ELSE head' + (k - 1) - N
    BY <1>1, <2>4, RingArithmetic
  <2> QED BY <1>1, <1>2, <2>2, <2>3, <2>5
<1>5. WindowFilled'
  <2>1. tail' = (head' + count') % N
    <3>1. tail = (head + count) % N
      BY DEF ChannelInv, WindowFilled, N
    <3>2. (head + count) % N = IF head + count < N THEN head + count ELSE head + count - N
      <4>1. count \in 0 .. N
        BY <1>1
      <4> QED BY <1>1, <4>1, RingArithmetic
    <3>3. head' \in 0 .. N - 1 /\ count' \in 0 .. N
      BY <1>1, <1>2
    <3>4. (head' + count') % N
            = IF head' + count' < N THEN head' + count' ELSE head' + count' - N
      BY <1>1, <3>3, RingArithmetic
    <3> QED BY <1>1, <1>2, <3>1, <3>2, <3>4
  <2>2. ASSUME NEW k \in 1 .. count - 1
        PROVE  queue'[SlotOf(k)'] \in Message
    <3>1. k + 1 \in 1 .. count
      BY <1>1
    <3> QED BY <1>1, <1>4, <3>1 DEF ChannelInv, WindowFilled
  <2> QED BY <1>1, <2>1, <2>2 DEF WindowFilled, N
<1>6. Contents # << >> /\ delivered' = Head(Contents)
  <2>1. 1 \in 1 .. count
    BY <1>1
  <2>2. SlotOf(1) = head
    <3>1. SlotOf(1) = IF head + 1 - 1 < N THEN head + 1 - 1 ELSE head + 1 - 1 - N
      BY <2>1, SlotInRing DEF ChannelInv
    <3> QED BY <1>1, <3>1
  <2>3. Contents[1] = queue[head]
    BY <2>1, <2>2 DEF Contents
  <2>4. Contents # << >>
    BY <1>1, ContentsType
  <2> QED BY <1>1, <2>3, <2>4, ContentsType
<1>7. Contents' = Tail(Contents)
  <2>1. Contents \in Seq(Message) /\ Len(Contents) = count
    BY ContentsType
  <2>2. /\ Tail(Contents) \in Seq(Message)
        /\ Len(Tail(Contents)) = count - 1
        /\ \A k \in 1 .. count - 1 : Tail(Contents)[k] = Contents[k + 1]
    BY <1>6, <2>1, HeadTailProperties
  <2>3. Contents' = [k \in 1 .. count - 1 |-> queue[SlotOf(k + 1)]]
    BY <1>1, <1>4 DEF Contents
  <2>4. Contents' \in [1 .. count - 1 -> Message]
    BY <1>1, <1>5 DEF Contents, WindowFilled
  <2>5. Contents' \in Seq(Message) /\ Len(Contents') = count - 1
    BY <1>1, <2>4
  <2>6. ASSUME NEW k \in 1 .. count - 1
        PROVE  Contents'[k] = Tail(Contents)[k]
    <3>1. k + 1 \in 1 .. count
      BY <1>1
    <3>2. Contents[k + 1] = queue[SlotOf(k + 1)]
      BY <3>1 DEF Contents
    <3> QED BY <2>2, <2>3, <3>2
  <2> QED BY <2>2, <2>5, <2>6, SeqEqual
<1> QED BY <1>3, <1>5, <1>6, <1>7 DEF ChannelInv

\* The window stays filled whatever is sent and received.
THEOREM ChannelInvariance == Spec => [](TypeOK /\ WindowFilled)
<1>1. Init => ChannelInv
  BY ChannelInit
<1>2. ChannelInv /\ [Next]_vars => ChannelInv'
  <2>1. CASE UNCHANGED vars
    BY <2>1 DEF vars, ChannelInv, TypeOK, WindowFilled, SlotOf
  <2> QED BY <2>1, SendStep, ReceiveStep DEF Next
<1>3. ChannelInv => TypeOK /\ WindowFilled
  BY DEF ChannelInv
<1> QED BY <1>1, <1>2, <1>3, PTL DEF Spec

\* The ring of ipc_channel_t implements the bounded queue, for every size.
THEOREM RingImplementsFifo == Spec => IsFifo
<1>1. Init => Fifo!Init
  BY ChannelInit DEF Init, Fifo!Init
<1>2. ChannelInv /\ [Next]_vars => [Fifo!Next]_<<Contents, delivered>>
  <2> SUFFICES ASSUME ChannelInv, [Next]_vars
               PROVE  [Fifo!Next]_<<Contents, delivered>>
    OBVIOUS
  <2>1. ASSUME NEW m \in Message, Send(m)
        PROVE  Fifo!Put(m)
    <3>1. Contents' = Append(Contents, m)
      BY <2>1, SendStep
    <3>2. Len(Contents) < SCHED_IPC_MAX_MESSAGES /\ delivered' = delivered
      BY <2>1, ContentsType DEF Send
    <3> QED BY <3>1, <3>2 DEF Fifo!Put
  <2>2. CASE Receive
    BY <2>2, ReceiveStep DEF Fifo!Next, Fifo!Get
  <2>3. CASE UNCHANGED vars
    BY <2>3 DEF vars, Contents, SlotOf
  <2> QED BY <2>1, <2>2, <2>3 DEF Next, Fifo!Next
<1>3. Spec => []ChannelInv
  BY ChannelInvariance, PTL DEF ChannelInv
<1> QED BY <1>1, <1>2, <1>3, PTL DEF Spec, IsFifo, Fifo!Spec

=============================================================================
