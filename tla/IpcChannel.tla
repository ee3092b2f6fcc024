----------------------------- MODULE IpcChannel -----------------------------
(***************************************************************************)
(* ipc_channel_t of multitasking.h: the ring of messages of one process,   *)
(* as scheduler_ipc_send fills it and scheduler_ipc_receive empties it.    *)
(* Scheduler models the channel as a sequence; this module shows that the  *)
(* ring is one.  A message stands for its data, length and type.           *)
(***************************************************************************)
EXTENDS Naturals, Sequences

CONSTANTS SCHED_IPC_MAX_MESSAGES, Message, NoMessage

ASSUME ChannelConstants ==
  /\ SCHED_IPC_MAX_MESSAGES \in Nat \ {0}
  /\ NoMessage \notin Message

VARIABLES queue, head, tail, count,  \* the fields of ipc_channel_t
          delivered                  \* what the last receive copied out

vars == <<queue, head, tail, count, delivered>>

Slot == 0 .. SCHED_IPC_MAX_MESSAGES - 1

Advance(k) == (k + 1) % SCHED_IPC_MAX_MESSAGES

\* The channel is zeroed when its process is registered.
Init ==
  /\ queue = [s \in Slot |-> NoMessage]
  /\ head = 0 /\ tail = 0 /\ count = 0
  /\ delivered = NoMessage

Send(m) ==
  /\ count < SCHED_IPC_MAX_MESSAGES
  /\ queue' = [queue EXCEPT ![tail] = m]
  /\ tail' = Advance(tail)
  /\ count' = count + 1
  /\ UNCHANGED <<head, delivered>>

\* Mutant of Receive: head moves before the copy.
Receive_late ==
  /\ count > 0
  /\ delivered' = queue[Advance(head)]
  /\ head' = Advance(head)
  /\ count' = count - 1
  /\ UNCHANGED <<queue, tail>>

\* The slot is not cleared: the message stays in the ring behind head.
Receive ==
  /\ count > 0
  /\ delivered' = queue[head]
  /\ head' = Advance(head)
  /\ count' = count - 1
  /\ UNCHANGED <<queue, tail>>

Next == Receive \/ \E m \in Message : Send(m)

Spec == Init /\ [][Next]_vars

-----------------------------------------------------------------------------
\* The slot of the k-th oldest message.
SlotOf(k) == (head + k - 1) % SCHED_IPC_MAX_MESSAGES

Contents == [k \in 1 .. count |-> queue[SlotOf(k)]]

Fifo == INSTANCE BoundedFifo
          WITH Capacity <- SCHED_IPC_MAX_MESSAGES, contents <- Contents

\* The indices stay inside the ring.
TypeOK ==
  /\ queue \in [Slot -> Message \cup {NoMessage}]
  /\ head \in Slot
  /\ tail \in Slot
  /\ count \in 0 .. SCHED_IPC_MAX_MESSAGES
  /\ delivered \in Message \cup {NoMessage}

\* head, tail and count describe the same window, and every slot in it holds
\* a message that was sent: no receive copies out a slot nobody filled.
WindowFilled ==
  /\ tail = (head + count) % SCHED_IPC_MAX_MESSAGES
  /\ \A k \in 1 .. count : queue[SlotOf(k)] \in Message

\* The ring is a bounded queue: scheduler_ipc_receive returns the messages in
\* the order scheduler_ipc_send accepted them, each one once.
IsFifo == Fifo!Spec
=============================================================================
