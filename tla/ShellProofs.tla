----------------------------- MODULE ShellProofs ----------------------------
(***************************************************************************)
(* The shell for every size of the log and every tick period: no sequence  *)
(* of lines makes the integrity check panic, the log ring is the list of   *)
(* the latest messages, and the log vouches for a root prompt.  After it,  *)
(* its command calc, for every size of the two arrays, every width of int  *)
(* and every set of characters: its stacks stay in bounds, and what it     *)
(* prints is what the grammar of expressions says.  The second proof reads *)
(* the stacks as a parse of the tokens that are dealt with.                *)
(***************************************************************************)
EXTENDS Shell, Calc, SequenceTheorems, FiniteSetTheorems, WellFoundedInduction,
        TLAPS

N == SYS_LOG_CAPACITY

\* The indices describe one window of messages; it is never empty.
RingInv ==
  /\ entries \in [Slot -> Message \cup {Empty}]
  /\ head \in Slot /\ tail \in Slot
  /\ count \in 1 .. N
  /\ tail = (head + count) % N
  /\ \A k \in 1 .. count : entries[SlotOf(k)] \in Message

\* While the shell is root, also between the two questions of another sudo,
\* every failure in the log has a success behind it.
Vouched(s) ==
  \A k \in 1 .. Len(s) : s[k] = FAILED => \E j \in k + 1 .. Len(s) : s[j] = SUCCESS
RootInv == is_root => Vouched(Contents)

GuardInv ==
  /\ is_root \in BOOLEAN /\ isolation_active \in BOOLEAN /\ memory_guard \in BOOLEAN
  /\ NeverPanics

ShellInv == RingInv /\ RootInv /\ GuardInv

-----------------------------------------------------------------------------
(***************************************************************************)
(* The ring                                                                *)
(***************************************************************************)
\* Index arithmetic on a ring, without the modulus.
LEMMA RingArithmetic ==
  ASSUME NEW n \in Nat \ {0}, NEW h \in 0 .. n - 1, NEW k \in 0 .. n
  PROVE  (h + k) % n = IF h + k < n THEN h + k ELSE h + k - n
OBVIOUS

\* The positions up to n are n and the ones below it.
LEMMA UpToLast ==
  ASSUME NEW n \in Nat \ {0}
  PROVE  /\ \A k \in 1 .. n : k = n \/ k \in 1 .. n - 1
         /\ \A k \in 1 .. n - 1 : k \in 1 .. n
OBVIOUS

\* Where the k-th oldest entry lies, and where the next one goes.
LEMMA Slots ==
  ASSUME RingInv
  PROVE  /\ N \in Nat \ {0} /\ head \in 0 .. N - 1 /\ tail \in 0 .. N - 1 /\ count \in 1 .. N
         /\ \A k \in 1 .. count :
              SlotOf(k) = IF head + k - 1 < N THEN head + k - 1 ELSE head + k - 1 - N
         /\ tail = IF head + count < N THEN head + count ELSE head + count - N
<1>1. N \in Nat \ {0} /\ head \in 0 .. N - 1 /\ tail \in 0 .. N - 1 /\ count \in 1 .. N
  BY ShellConstants DEF RingInv, Slot, N
<1>2. ASSUME NEW k \in 1 .. count
      PROVE  SlotOf(k) = IF head + k - 1 < N THEN head + k - 1 ELSE head + k - 1 - N
  <2>1. k - 1 \in 0 .. N
    BY <1>1
  <2>2. (head + (k - 1)) % N = IF head + (k - 1) < N THEN head + (k - 1) ELSE head + (k - 1) - N
    BY <1>1, <2>1, RingArithmetic
  <2>3. head + k - 1 = head + (k - 1)
    BY <1>1
  <2> QED BY <2>2, <2>3 DEF SlotOf, N
<1>3. tail = IF head + count < N THEN head + count ELSE head + count - N
  <2>1. count \in 0 .. N
    BY <1>1
  <2> QED BY <1>1, <2>1, RingArithmetic DEF RingInv
<1> QED BY <1>1, <1>2, <1>3

\* What cmd_sys_logs reads is a sequence of messages.
LEMMA ContentsType ==
  ASSUME RingInv
  PROVE  Contents \in Seq(Message) /\ Len(Contents) = count
<1>1. count \in Nat
  BY Slots
<1>2. Contents \in [1 .. count -> Message]
  BY DEF RingInv, Contents
<1> QED BY <1>1, <1>2

LEMMA RingInit ==
  ASSUME Init
  PROVE  RingInv /\ Contents = <<BOOT>>
<1>1. /\ N \in Nat \ {0} /\ head = 0 /\ count = 1 /\ tail = (0 + 1) % N
      /\ entries = [s \in Slot |-> IF s = 0 THEN BOOT ELSE Empty]
  BY ShellConstants DEF Init, Advance, N
<1>2. 0 \in Slot /\ tail \in Slot /\ BOOT \in Message
  BY <1>1, ShellConstants DEF Slot, N, Message
<1>3. SlotOf(1) = 0
  BY <1>1 DEF SlotOf, N
<1>4. RingInv
  BY <1>1, <1>2, <1>3 DEF RingInv
<1>5. Contents = [k \in 1 .. 1 |-> BOOT]
  BY <1>1, <1>2, <1>3 DEF Contents
<1>6. Contents[1] = BOOT /\ Contents \in Seq(Message) /\ Len(Contents) = 1
  BY <1>1, <1>4, <1>5, ContentsType
<1>7. <<BOOT>> \in Seq(Message) /\ Len(<<BOOT>>) = 1 /\ <<BOOT>>[1] = BOOT
  BY <1>2
<1> QED BY <1>4, <1>6, <1>7, SeqEqual

\* sys_log_write appends the message and, when the ring was full, drops the
\* oldest one.
LEMMA WriteStep ==
  ASSUME RingInv, NEW m \in Message, LogWrite(m)
  PROVE  /\ RingInv'
         /\ Len(Contents') = count' /\ count' \in Nat
         /\ LET d == IF count < N THEN 0 ELSE 1
            IN /\ count' = count + 1 - d
               /\ Contents'[count'] = m
               /\ \A k \in 1 .. count' - 1 : Contents'[k] = Contents[k + d]
<1> DEFINE d == IF count < N THEN 0 ELSE 1
           After(k) == (head' + k - 1) % N
<1>0. /\ Contents' = [k \in 1 .. count' |-> entries'[After(k)]]
      /\ \A k : SlotOf(k)' = After(k)
  BY DEF Contents, SlotOf, N
<1>1. /\ N \in Nat \ {0} /\ head \in 0 .. N - 1 /\ tail \in 0 .. N - 1 /\ count \in 1 .. N
      /\ tail = IF head + count < N THEN head + count ELSE head + count - N
  BY Slots
<1>2. /\ count' = count + 1 - d
      /\ head' = IF d = 0 THEN head ELSE IF head + 1 < N THEN head + 1 ELSE 0
      /\ tail' = IF tail + 1 < N THEN tail + 1 ELSE 0
      /\ entries' = [entries EXCEPT ![tail] = m]
  <2>1. 1 \in 0 .. N
    BY <1>1
  <2>2. (head + 1) % N = IF head + 1 < N THEN head + 1 ELSE head + 1 - N
    BY <1>1, <2>1, RingArithmetic
  <2>3. (tail + 1) % N = IF tail + 1 < N THEN tail + 1 ELSE tail + 1 - N
    BY <1>1, <2>1, RingArithmetic
  <2>4. Full <=> ~(count < N)
    BY <1>1 DEF Full, N
  <2> QED BY <1>1, <2>2, <2>3, <2>4 DEF LogWrite, Advance, N
<1>3. /\ head' \in 0 .. N - 1 /\ tail' \in 0 .. N - 1 /\ count' \in 1 .. N
      /\ tail' = IF head' + count' < N THEN head' + count' ELSE head' + count' - N
  BY <1>1, <1>2
<1>31. count' \in Nat \ {0} /\ count \in Nat \ {0}
  BY <1>1, <1>3
<1>4. tail' = (head' + count') % N
  <2>1. count' \in 0 .. N
    BY <1>1, <1>3
  <2> QED BY <1>1, <1>3, <2>1, RingArithmetic
<1>5. ASSUME NEW k \in 1 .. count'
      PROVE  After(k) = IF head' + k - 1 < N THEN head' + k - 1 ELSE head' + k - 1 - N
  <2>1. k - 1 \in 0 .. N /\ head' + k - 1 = head' + (k - 1)
    BY <1>1, <1>3
  <2>2. (head' + (k - 1)) % N
          = IF head' + (k - 1) < N THEN head' + (k - 1) ELSE head' + (k - 1) - N
    BY <1>1, <1>3, <2>1, RingArithmetic
  <2> QED BY <2>1, <2>2
<1> HIDE DEF After
<1>6. entries \in [0 .. N - 1 -> Message \cup {Empty}]
  BY DEF RingInv, Slot, N
<1>7. entries'[After(count')] = m
  <2>1. count' \in 1 .. count'
    BY <1>3
  <2>2. After(count') = IF head' + count' - 1 < N THEN head' + count' - 1
                                                   ELSE head' + count' - 1 - N
    BY <1>5, <2>1
  <2>3. After(count') = tail
    BY <1>1, <1>2, <1>3, <2>2
  <2> QED BY <1>1, <1>2, <1>6, <2>3
<1>8. ASSUME NEW k \in 1 .. count' - 1
      PROVE  /\ k + d \in 1 .. count
             /\ entries'[After(k)] = entries[SlotOf(k + d)]
  <2>1. k \in 1 .. count' /\ k + d \in 1 .. count
    BY <1>1, <1>2, <1>3
  <2>2. After(k) = IF head' + k - 1 < N THEN head' + k - 1 ELSE head' + k - 1 - N
    BY <1>5, <2>1
  <2>3. SlotOf(k + d) = IF head + (k + d) - 1 < N THEN head + (k + d) - 1
                                                 ELSE head + (k + d) - 1 - N
    BY <2>1, Slots
  <2>4. After(k) = SlotOf(k + d) /\ SlotOf(k + d) # tail /\ SlotOf(k + d) \in 0 .. N - 1
    BY <1>1, <1>2, <1>3, <2>1, <2>2, <2>3
  <2> QED BY <1>2, <1>6, <2>1, <2>4
<1>9. RingInv'
  <2>1. entries' \in [Slot -> Message \cup {Empty}]
    BY <1>2 DEF RingInv
  <2>2. head' \in Slot /\ tail' \in Slot
    BY <1>3 DEF Slot, N
  <2>3. ASSUME NEW k \in 1 .. count'
        PROVE  entries'[After(k)] \in Message
    <3>1. k = count' \/ k \in 1 .. count' - 1
      BY <1>3, UpToLast, <1>31
    <3> QED BY <1>7, <1>8, <3>1 DEF RingInv
  <2> QED BY <1>0, <1>3, <1>4, <2>1, <2>2, <2>3 DEF RingInv, N
<1>10. Len(Contents') = count' /\ count' \in Nat
  <2>1. Contents' \in [1 .. count' -> Message]
    BY <1>9 DEF RingInv, Contents
  <2> QED BY <1>3, <2>1
<1>11. Contents'[count'] = m
  BY <1>0, <1>3, <1>7
<1>12. ASSUME NEW k \in 1 .. count' - 1
       PROVE  Contents'[k] = Contents[k + d]
  <2>1. k + d \in 1 .. count
    BY <1>8
  <2>3. k \in 1 .. count'
    BY <1>31, UpToLast
  <2>2. Contents[k + d] = entries[SlotOf(k + d)]
    BY <2>1 DEF Contents
  <2> QED BY <1>0, <1>8, <2>2, <2>3
<1> QED BY <1>2, <1>9, <1>10, <1>11, <1>12

\* In terms of sequences: the message is appended to the latest ones.
LEMMA WriteKeepsLatest ==
  ASSUME RingInv, NEW m \in Message, LogWrite(m)
  PROVE  Contents' = Log!Keep(Append(Contents, m))
<1> DEFINE s == Append(Contents, m)
           d == IF count < N THEN 0 ELSE 1
<1>1. /\ Contents \in Seq(Message) /\ Len(Contents) = count
      /\ count \in 1 .. N /\ N \in Nat \ {0}
  BY ContentsType, Slots
<1>2. /\ s \in Seq(Message) /\ Len(s) = count + 1
      /\ s[count + 1] = m
      /\ \A k \in 1 .. count : s[k] = Contents[k]
  BY <1>1
<1>3. /\ RingInv' /\ count' = count + 1 - d
      /\ Contents'[count'] = m
      /\ \A k \in 1 .. count' - 1 : Contents'[k] = Contents[k + d]
  BY WriteStep
<1>4. Contents' \in Seq(Message) /\ Len(Contents') = count'
  <2>1. Contents' \in [1 .. count' -> Message]
    BY <1>3 DEF RingInv, Contents
  <2> QED BY <1>1, <1>3, <2>1
<1> HIDE DEF s
<1>5. CASE count < N
  <2>1. Log!Keep(s) = s
    BY <1>1, <1>2, <1>5 DEF Log!Keep, N
  <2>2. ASSUME NEW k \in 1 .. count + 1
        PROVE  Contents'[k] = s[k]
    BY <1>1, <1>2, <1>3, <1>5
  <2>3. Len(Contents') = Len(s)
    BY <1>1, <1>2, <1>3, <1>4, <1>5
  <2>4. Contents' = s
    BY <1>2, <1>4, <2>2, <2>3, SeqEqual
  <2> QED BY <2>1, <2>4 DEF s
<1>6. CASE ~(count < N)
  <2>1. Log!Keep(s) = Tail(s)
    BY <1>1, <1>2, <1>6 DEF Log!Keep, N
  <2>2. /\ Tail(s) \in Seq(Message) /\ Len(Tail(s)) = count
        /\ \A k \in 1 .. count : Tail(s)[k] = s[k + 1]
    BY <1>1, <1>2, HeadTailProperties
  <2>3. ASSUME NEW k \in 1 .. count
        PROVE  Contents'[k] = s[k + 1]
    <3>1. CASE k = count
      BY <1>1, <1>2, <1>3, <1>6, <3>1
    <3>2. CASE k # count
      <4>1. k \in 1 .. count' - 1 /\ k + 1 \in 1 .. count
        BY <1>1, <1>3, <1>6, <3>2
      <4> QED BY <1>2, <1>3, <1>6, <4>1
    <3> QED BY <3>1, <3>2
  <2>4. Len(Contents') = Len(Tail(s))
    BY <1>1, <1>3, <1>4, <1>6, <2>2
  <2>5. Contents' = Tail(s)
    BY <1>4, <2>2, <2>3, <2>4, SeqEqual
  <2> QED BY <2>1, <2>5 DEF s
<1> QED BY <1>5, <1>6

-----------------------------------------------------------------------------
(***************************************************************************)
(* The shell                                                               *)
(***************************************************************************)
\* A command that is logged is not one of the texts of sudo.
LEMMA CommandsAreMessages ==
  /\ Command \subseteq Message
  /\ {SUCCESS, FAILED, DENIED} \subseteq Message
  /\ FAILED \notin Command \cup {DENIED, SUCCESS}
BY DEF Command, g_dispatch_table, DispatchEntry, Message, SUCCESS, FAILED, DENIED

\* A message other than a failure leaves the log vouching, also when the
\* oldest message goes; a success makes it vouch.
LEMMA VouchedStep ==
  ASSUME RingInv, NEW m \in Message, LogWrite(m),
         m = SUCCESS \/ (m # FAILED /\ Vouched(Contents))
  PROVE  Vouched(Contents')
<1> DEFINE d == IF count < N THEN 0 ELSE 1
<1>1. /\ count \in 1 .. N /\ N \in Nat \ {0} /\ Len(Contents) = count
  BY Slots, ContentsType
<1>2. /\ count' = count + 1 - d /\ Len(Contents') = count'
      /\ Contents'[count'] = m
      /\ \A k \in 1 .. count' - 1 : Contents'[k] = Contents[k + d]
  BY WriteStep
<1>3. d \in {0, 1}
  OBVIOUS
<1> HIDE DEF d
<1> SUFFICES ASSUME NEW k \in 1 .. count', Contents'[k] = FAILED
             PROVE  \E j \in k + 1 .. count' : Contents'[j] = SUCCESS
  BY <1>2 DEF Vouched
<1>4. SUCCESS # FAILED
  BY DEF SUCCESS, FAILED
<1>5. k # count' /\ k \in 1 .. count' - 1
  BY <1>1, <1>2, <1>3, <1>4
<1>6. CASE m = SUCCESS
  <2>1. count' \in k + 1 .. count'
    BY <1>1, <1>2, <1>3, <1>5
  <2> QED BY <1>2, <1>6, <2>1
<1>7. CASE Vouched(Contents)
  <2>1. k + d \in 1 .. count /\ Contents[k + d] = FAILED
    BY <1>1, <1>2, <1>3, <1>5
  <2>2. PICK j \in k + d + 1 .. count : Contents[j] = SUCCESS
    BY <1>1, <1>7, <2>1 DEF Vouched
  <2>3. j - d \in k + 1 .. count' /\ j - d \in 1 .. count' - 1 /\ (j - d) + d = j
    BY <1>1, <1>2, <1>3, <1>5, <2>2
  <2>4. Contents'[j - d] = SUCCESS
    BY <1>2, <2>2, <2>3
  <2> QED BY <2>3, <2>4
<1> QED BY <1>6, <1>7

\* Whether the counter starts again or not, an intact shell comes back to the
\* prompt.
LEMMA PromptStep ==
  ASSUME NEW intact, intact, BackToPrompt(intact)
  PROVE  pc' = "prompt"
BY DEF BackToPrompt

LEMMA ShellInit ==
  ASSUME Init
  PROVE  ShellInv
<1>1. RingInv
  BY RingInit
<1>2. RootInv /\ GuardInv
  BY DEF Init, RootInv, GuardInv, NeverPanics, Intact
<1> QED BY <1>1, <1>2 DEF ShellInv

\* A step that writes no message.
LEMMA RingKept ==
  ASSUME ShellInv, UNCHANGED ring, is_root' => is_root
  PROVE  RingInv' /\ RootInv' /\ Contents' = Contents
<1>1. Contents' = Contents /\ \A k : SlotOf(k)' = SlotOf(k)
  BY DEF ring, Contents, SlotOf
<1> QED BY <1>1 DEF ShellInv, RingInv, RootInv, ring

LEMMA ShellStep ==
  ASSUME ShellInv, [Next]_vars
  PROVE  ShellInv'
<1> USE DEF ShellInv
<1>0. Intact /\ is_root \in BOOLEAN /\ isolation_active \in BOOLEAN /\ memory_guard \in BOOLEAN
  BY DEF GuardInv, NeverPanics
<1>1. ASSUME NEW ok \in BOOLEAN, Login(ok)
      PROVE  ShellInv'
  <2>1. UNCHANGED <<env, ring>> /\ pc' # "panic"
    BY <1>0, <1>1, PromptStep DEF Login
  <2> QED BY <1>0, <2>1, RingKept DEF env, GuardInv, NeverPanics, Intact
<1>2. CASE NoCommand
  <2>1. UNCHANGED <<env, ring>> /\ pc' # "panic"
    BY <1>0, <1>2, PromptStep DEF NoCommand
  <2> QED BY <1>0, <2>1, RingKept DEF env, GuardInv, NeverPanics, Intact
<1>3. ASSUME NEW c \in Command, Execute(c)
      PROVE  ShellInv'
  <2>1. UNCHANGED env /\ pc' # "panic"
    BY <1>0, <1>3, PromptStep DEF Execute
  <2>2. PICK m \in {c, DENIED} : LogWrite(m)
    BY <1>0, <1>3 DEF Execute
  <2>3. m \in Message /\ m # FAILED
    BY CommandsAreMessages
  <2>4. RingInv' /\ RootInv'
    BY <2>1, <2>2, <2>3, WriteStep, VouchedStep DEF RootInv, env
  <2> QED BY <1>0, <2>1, <2>4 DEF env, GuardInv, NeverPanics, Intact
<1>4. ASSUME NEW ok \in BOOLEAN, Confirm(ok)
      PROVE  ShellInv'
  <2>1. /\ UNCHANGED <<isolation_active, memory_guard, ring>>
        /\ is_root' \in {is_root, FALSE}
        /\ pc' # "panic"
    BY <1>0, <1>4, PromptStep DEF Confirm
  <2>2. is_root' => is_root
    BY <1>0, <2>1
  <2>3. RingInv' /\ RootInv'
    BY <2>1, <2>2, RingKept
  <2> QED BY <1>0, <2>1, <2>3 DEF GuardInv, NeverPanics, Intact
<1>5. ASSUME NEW ok \in BOOLEAN, Password(ok)
      PROVE  ShellInv'
  <2>1. /\ is_root' = ok
        /\ isolation_active' = IF ok THEN FALSE ELSE isolation_active
        /\ memory_guard' = IF ok THEN FALSE ELSE memory_guard
        /\ BackToPrompt(memory_guard' \/ ~isolation_active')
    BY <1>5 DEF Password, RootAfterFailure, IsolatedAfterSuccess
  <2>2. memory_guard' \/ ~isolation_active'
    BY <1>0, <2>1 DEF Intact
  <2>3. pc' = "prompt"
    BY <2>1, <2>2, PromptStep
  <2>4. LogWrite(IF ok THEN SUCCESS ELSE FAILED)
    BY <1>5 DEF Password
  <2>5. RingInv'
    BY <2>4, CommandsAreMessages, WriteStep
  <2>6. RootInv'
    BY <2>1, <2>4, CommandsAreMessages, VouchedStep DEF RootInv
  <2> QED BY <1>0, <2>1, <2>2, <2>3, <2>5, <2>6 DEF GuardInv, NeverPanics, Intact
<1>6. CASE UNCHANGED vars
  <2>1. UNCHANGED <<pc, env, ring>>
    BY <1>6 DEF vars
  <2> QED BY <1>0, <2>1, RingKept DEF env, GuardInv, NeverPanics, Intact
<1> QED BY <1>1, <1>2, <1>3, <1>4, <1>5, <1>6 DEF Next

LEMMA ShellInvariance == Spec => []ShellInv
BY ShellInit, ShellStep, PTL DEF Spec

-----------------------------------------------------------------------------
\* No sequence of lines makes sys_verify_integrity panic: cmd_sudo_handler
\* clears the guard word only together with isolation_active.
THEOREM IntegrityNeverPanics == Spec => []NeverPanics
<1>1. ShellInv => NeverPanics
  BY DEF ShellInv, GuardInv
<1> QED BY <1>1, ShellInvariance, PTL

\* At a root prompt, every failed sudo the log still holds is followed by a
\* successful one (cmd_sudo_handler, sys_log_write).
THEOREM RootIsLogged == Spec => []RootLogged
<1>1. ShellInv => RootLogged
  BY ContentsType DEF ShellInv, RootInv, Vouched, RootLogged
<1> QED BY <1>1, ShellInvariance, PTL

\* The ring of g_sys_log is the list of the latest messages, for every size.
THEOREM RingImplementsRecentLog == Spec => IsRecentLog
<1>1. Init => Log!Init
  BY RingInit DEF Log!Init
<1>2. ASSUME ShellInv, [Next]_vars
      PROVE  [Log!Next]_Contents
  <2>1. ASSUME NEW m \in Message, LogWrite(m)
        PROVE  Log!Next
    BY <1>2, <2>1, WriteKeepsLatest DEF ShellInv, Log!Next, Log!Write
  <2>2. CASE UNCHANGED ring
    BY <2>2 DEF ring, Contents, SlotOf
  <2>3. ASSUME NEW c \in Command, Execute(c)
        PROVE  UNCHANGED ring \/ \E m \in Message : LogWrite(m)
    BY <2>3, CommandsAreMessages DEF Execute
  <2>4. ASSUME NEW ok \in BOOLEAN, Password(ok)
        PROVE  \E m \in Message : LogWrite(m)
    BY <2>4, CommandsAreMessages DEF Password
  <2>5. CASE NoCommand \/ UNCHANGED vars \/ \E ok \in BOOLEAN : Login(ok) \/ Confirm(ok)
    <3>1. UNCHANGED ring
      BY <2>5 DEF NoCommand, vars, Login, Confirm
    <3> QED BY <2>2, <3>1
  <2> QED BY <1>2, <2>1, <2>2, <2>3, <2>4, <2>5 DEF Next
<1> QED BY <1>1, <1>2, ShellInvariance, PTL DEF Spec, IsRecentLog, Log!Spec

-----------------------------------------------------------------------------
(***************************************************************************)
(* The calculator                                                          *)
(***************************************************************************)
\* The stacks are sequences; what is in values does not matter here.
StacksOK ==
  /\ \E S : values \in Seq(S)
  /\ ops \in Seq(Operators \cup {"("})
  /\ current \in Operators \cup {")", "end", "none"}

CalcInv == StacksOK /\ StackDiscipline

\* A parenthesis or an operator takes precedence -1 to 3.
LEMMA PrecedenceType ==
  ASSUME NEW op
  PROVE  get_precedence(op) \in -1 .. 3
BY DEF get_precedence

\* Popping a stack.
LEMMA PopType ==
  ASSUME NEW S, NEW s \in Seq(S), s # << >>
  PROVE  /\ Pop(s) \in Seq(S)
         /\ Len(Pop(s)) = Len(s) - 1
         /\ \A k \in 1 .. Len(s) - 1 : Pop(s)[k] = s[k]
<1> DEFINE n == Len(s) - 1
<1>1. n \in Nat
  BY EmptySeq
<1>2. \A k \in 1 .. n : s[k] \in S
  BY <1>1, ElementOfSeq
<1>3. Pop(s) = SubSeq(s, 1, n)
  BY DEF Pop
<1> HIDE DEF n
<1>4. /\ SubSeq(s, 1, n) \in Seq(S)
      /\ Len(SubSeq(s, 1, n)) = IF 1 <= n THEN n - 1 + 1 ELSE 0
      /\ \A k \in 1 .. n - 1 + 1 : SubSeq(s, 1, n)[k] = s[1 + k - 1]
  BY <1>1, <1>2, SubSeqProperties
<1>5. /\ Pop(s) \in Seq(S)
      /\ Len(Pop(s)) = n
      /\ \A k \in 1 .. n : Pop(s)[k] = s[k]
  BY <1>1, <1>3, <1>4
<1> QED BY <1>5 DEF n

LEMMA CalcInvInit ==
  ASSUME CalcInit
  PROVE  CalcInv
<1>1. values \in Seq({}) /\ ops \in Seq(Operators \cup {"("})
  BY DEF CalcInit
<1> QED BY <1>1, CalcConstants DEF CalcInit, CalcInv, StacksOK, StackDiscipline

\* Pushing an element that binds more tightly than the top, or a
\* parenthesis, and popping, keep the order of the operators.
LEMMA OpsPushed ==
  ASSUME CalcInv, NEW op \in Operators \cup {"("}, ~StackFull(ops),
         op # "(" /\ ops # << >> => get_precedence(Top(ops)) < get_precedence(op),
         ops' = Append(ops, op)
  PROVE  /\ ops' \in Seq(Operators \cup {"("})
         /\ Len(ops') <= STACK
         /\ \A k \in 2 .. Len(ops') :
              ops'[k] # "(" => get_precedence(ops'[k - 1]) < get_precedence(ops'[k])
<1>1. ops \in Seq(Operators \cup {"("}) /\ Len(ops) \in Nat /\ STACK \in Nat
  BY CalcConstants DEF CalcInv, StacksOK
<1>2. ops' \in Seq(Operators \cup {"("}) /\ Len(ops') = Len(ops) + 1
  BY <1>1
<1>3. ASSUME NEW k \in 2 .. Len(ops'), ops'[k] # "("
      PROVE  get_precedence(ops'[k - 1]) < get_precedence(ops'[k])
  <2>1. CASE k = Len(ops')
    <3>1. ops # << >> /\ ops'[k] = op /\ ops'[k - 1] = Top(ops)
      BY <1>1, <1>2, <1>3, <2>1 DEF Top
    <3> QED BY <1>3, <3>1
  <2>2. CASE k # Len(ops')
    <3>1. k \in 2 .. Len(ops) /\ ops'[k] = ops[k] /\ ops'[k - 1] = ops[k - 1]
      BY <1>1, <1>2, <2>2
    <3> QED BY <1>3, <3>1 DEF CalcInv, StackDiscipline
  <2> QED BY <2>1, <2>2
<1> QED BY <1>1, <1>2, <1>3 DEF StackFull

LEMMA OpsPopped ==
  ASSUME CalcInv, ops # << >>, ops' = Pop(ops)
  PROVE  /\ ops' \in Seq(Operators \cup {"("})
         /\ Len(ops') <= STACK
         /\ \A k \in 2 .. Len(ops') :
              ops'[k] # "(" => get_precedence(ops'[k - 1]) < get_precedence(ops'[k])
<1>1. ops \in Seq(Operators \cup {"("}) /\ Len(ops) \in Nat /\ STACK \in Nat
  BY CalcConstants DEF CalcInv, StacksOK
<1>2. /\ ops' \in Seq(Operators \cup {"("})
      /\ Len(ops') = Len(ops) - 1
      /\ \A k \in 1 .. Len(ops) - 1 : ops'[k] = ops[k]
  BY <1>1, PopType
<1>3. ASSUME NEW k \in 2 .. Len(ops'), ops'[k] # "("
      PROVE  get_precedence(ops'[k - 1]) < get_precedence(ops'[k])
  <2>1. k \in 2 .. Len(ops) /\ ops'[k] = ops[k] /\ ops'[k - 1] = ops[k - 1]
    BY <1>1, <1>2
  <2> QED BY <1>3, <2>1 DEF CalcInv, StackDiscipline
<1> QED BY <1>1, <1>2, <1>3 DEF CalcInv, StackDiscipline

LEMMA CalcInvStep ==
  ASSUME CalcInv, [CalcNext]_cvars
  PROVE  CalcInv'
<1>0. PICK S : values \in Seq(S)
  BY DEF CalcInv, StacksOK
<1>1. Len(values) \in Nat /\ STACK \in Nat
  BY <1>0, CalcConstants
<1>2. CASE OpenParenthesis
  <2>1. CASE Error("Stack overflow")
    BY <2>1 DEF Error, CalcInv, StacksOK, StackDiscipline
  <2>2. CASE ~StackFull(ops) /\ ops' = Append(ops, "(") /\ UNCHANGED <<values, current>>
    BY <2>2, OpsPushed DEF CalcInv, StacksOK, StackDiscipline
  <2> QED BY <1>2, <2>1, <2>2 DEF OpenParenthesis
<1>3. ASSUME NEW t \in Numerals, Number(t)
      PROVE  CalcInv'
  <2>1. CASE Error("Stack overflow")
    BY <2>1 DEF Error, CalcInv, StacksOK, StackDiscipline
  <2>2. CASE ~StackFull(values) /\ values' = Append(values, Value[t]) /\ UNCHANGED <<ops, current>>
    <3>1. values' \in Seq(S \cup {Value[t]}) /\ Len(values') <= STACK
      <4>1. values \in Seq(S \cup {Value[t]})
        BY <1>0
      <4> QED BY <1>1, <2>2, <4>1 DEF StackFull
    <3>2. \E R : values' \in Seq(R)
      BY <3>1
    <3> QED BY <2>2, <3>1, <3>2 DEF CalcInv, StacksOK, StackDiscipline
  <2> QED BY <1>3, <2>1, <2>2 DEF Number
<1>4. CASE \E t \in Operators \cup {")"} : OperatorOrClose(t)
  BY <1>4 DEF OperatorOrClose, CalcInv, StacksOK, StackDiscipline
<1>5. CASE EndOfInput
  BY <1>5 DEF EndOfInput, CalcInv, StacksOK, StackDiscipline
<1>6. CASE ApplyTop
  <2>1. CASE \E message : Error(message)
    BY <2>1 DEF Error, CalcInv, StacksOK, StackDiscipline
  <2>2. CASE ~\E message : Error(message)
    <3>0. ~(Len(values) < 2) /\ ops # << >>
      BY <1>6, <2>2 DEF ApplyTop, MustApply
    <3>1. PICK v : /\ values' = Append(Pop(Pop(values)), v)
                   /\ Len(values) >= 2
                   /\ ops # << >>
                   /\ ops' = Pop(ops)
                   /\ current' = current
      <4>1. PICK a, b, fault :
              IF fault # "none"
                THEN Error(fault)
                ELSE /\ values' = Append(Pop(Pop(values)), apply_op(a, b, Top(ops)))
                     /\ ops' = Pop(ops)
                     /\ UNCHANGED <<current, outcome, printed>>
        BY <1>6, <3>0 DEF ApplyTop
      <4> QED BY <1>1, <2>2, <3>0, <4>1
    <3>2. values \in Seq(S \cup {v}) /\ values # << >>
      BY <1>0, <3>1
    <3>3. /\ Pop(values) \in Seq(S \cup {v})
          /\ Len(Pop(values)) = Len(values) - 1
          /\ Pop(values) # << >>
      BY <1>1, <3>1, <3>2, PopType
    <3>4. /\ Pop(Pop(values)) \in Seq(S \cup {v})
          /\ Len(Pop(Pop(values))) = Len(values) - 2
      BY <1>1, <3>3, PopType
    <3>5. values' \in Seq(S \cup {v}) /\ Len(values') = Len(values) - 1
      BY <1>1, <3>1, <3>4
    <3>6. (\E R : values' \in Seq(R)) /\ Len(values') <= STACK
      BY <1>1, <3>5 DEF CalcInv, StackDiscipline
    <3> QED BY <3>1, <3>6, OpsPopped DEF CalcInv, StacksOK, StackDiscipline
  <2> QED BY <2>1, <2>2
<1>7. CASE CloseParenthesis
  BY <1>7, OpsPopped DEF CloseParenthesis, CalcInv, StacksOK, StackDiscipline
<1>8. CASE PushOperator
  <2>1. CASE Error("Stack overflow")
    BY <2>1 DEF Error, CalcInv, StacksOK, StackDiscipline
  <2>2. CASE /\ ~StackFull(ops)
             /\ ops' = Append(ops, current)
             /\ current' = "none"
             /\ UNCHANGED values
    <3>1. current \in Operators /\ ~MustApply
      BY <1>8 DEF PushOperator
    <3>2. current \notin {")", "end"} => (ops # << >> => ~Binds(Top(ops)))
      BY <3>1 DEF MustApply
    <3>3. ops # << >> => get_precedence(Top(ops)) < get_precedence(current)
      BY <3>1, <3>2, PrecedenceType, CalcConstants DEF Binds
    <3> QED BY <2>2, <3>1, <3>3, OpsPushed DEF CalcInv, StacksOK, StackDiscipline
  <2> QED BY <1>8, <2>1, <2>2 DEF PushOperator
<1>9. CASE PrintResult
  BY <1>9 DEF PrintResult, Error, CalcInv, StacksOK, StackDiscipline
<1>10. CASE UNCHANGED cvars
  BY <1>10 DEF cvars, CalcInv, StacksOK, StackDiscipline
<1> QED BY <1>2, <1>3, <1>4, <1>5, <1>6, <1>7, <1>8, <1>9, <1>10 DEF CalcNext

\* values[] and ops[] are never written outside their bounds, and the
\* operators above a parenthesis bind ever more tightly, whatever is typed
\* (the tests before each push in cmd_calc_handler and its three loops).
THEOREM StacksInBounds == CalcSpec => []StackDiscipline
<1>1. CalcInv => StackDiscipline
  BY DEF CalcInv
<1> QED BY <1>1, CalcInvInit, CalcInvStep, PTL DEF CalcSpec

-----------------------------------------------------------------------------
(***************************************************************************)
(* What the grammar says of the segments of an expression                  *)
(***************************************************************************)
\* Part of a sequence.
LEMMA Segment ==
  ASSUME NEW S, NEW s \in Seq(S), NEW i \in 1 .. Len(s), NEW j \in i .. Len(s)
  PROVE  /\ SubSeq(s, i, j) \in Seq(S)
         /\ Len(SubSeq(s, i, j)) = j - i + 1
<1>1. \A k \in i .. j : s[k] \in S
  BY ElementOfSeq, LenProperties
<1>2. i \in Int /\ j \in Int /\ i <= j
  BY LenProperties
<1> QED BY <1>1, <1>2, SubSeqProperties

LEMMA Glued ==
  ASSUME NEW S, NEW a \in Seq(S), NEW b \in Seq(S), NEW t \in S
  PROVE  a \o (<<t>> \o b) = a \o <<t>> \o b
<1>1. <<t>> \in Seq(S)
  OBVIOUS
<1> QED BY <1>1, ConcatAssociative

\* An expression of a level is one of every looser level.
LEMMA ReadsLooser ==
  ASSUME NEW p \in 1 .. 5, NEW q \in 1 .. p, NEW s, Len(s) \in 1 .. MAX_TOKENS,
         NEW result, Reads(p, s, result)
  PROVE  Reads(q, s, result)
<1> DEFINE M == Meaning[Len(s)]
<1>1. \A r \in 1 .. 4 : M[r + 1] \subseteq M[r]
  BY GrammarAssumption
<1>2. M[5] \subseteq M[4] /\ M[4] \subseteq M[3] /\ M[3] \subseteq M[2] /\ M[2] \subseteq M[1]
  <2>1. M[4 + 1] \subseteq M[4] /\ M[3 + 1] \subseteq M[3] /\ M[2 + 1] \subseteq M[2] /\ M[1 + 1] \subseteq M[1]
    BY <1>1
  <2> QED BY <2>1
<1>3. p \in {1, 2, 3, 4, 5} /\ q \in {1, 2, 3, 4, 5} /\ q <= p
  OBVIOUS
<1>4. <<s, result>> \in M[p]
  BY DEF Reads
<1> HIDE DEF M
<1>5. <<s, result>> \in M[q]
  BY <1>2, <1>3, <1>4
<1> QED BY <1>5 DEF M, Reads

\* The same of part of an expression.
LEMMA SegmentLooser ==
  ASSUME NEW s \in Seq(Tokens), Len(s) <= MAX_TOKENS,
         NEW i \in 1 .. Len(s), NEW j \in i .. Len(s),
         NEW p \in 1 .. 5, NEW q \in 1 .. p, NEW result, Reads(p, SubSeq(s, i, j), result)
  PROVE  Reads(q, SubSeq(s, i, j), result)
<1>1. Len(s) \in Nat /\ MAX_TOKENS \in Nat
  BY LenProperties, CalcConstants
<1>2. Len(SubSeq(s, i, j)) = j - i + 1
  BY Segment
<1>3. j - i + 1 \in 1 .. MAX_TOKENS
  BY <1>1
<1> QED BY <1>2, <1>3, ReadsLooser

\* The rules of the grammar, for segments that lie next to each other.
LEMMA ReadsNumeral ==
  ASSUME NEW s \in Seq(Tokens), NEW i \in 1 .. Len(s), s[i] \in Numerals
  PROVE  Reads(5, SubSeq(s, i, i), Printed(Value[s[i]]))
<1>1. Len(s) \in Nat
  BY LenProperties
<1>2. SubSeq(s, i, i) = <<s[i]>> \o SubSeq(s, i + 1, i) /\ SubSeq(s, i + 1, i) = << >>
  BY <1>1, SubSeqRecursiveFirst, SubSeqEmpty
<1>3. <<s[i]>> \in Seq(Tokens)
  BY DEF Tokens
<1>4. SubSeq(s, i, i) = <<s[i]>>
  BY <1>2, <1>3, ConcatEmptySeq
<1> QED BY <1>4, GrammarAssumption

LEMMA ReadsParentheses ==
  ASSUME NEW s \in Seq(Tokens), Len(s) <= MAX_TOKENS, NEW i \in 1 .. Len(s), NEW j \in i + 2 .. Len(s),
         s[i] = "(", s[j] = ")", NEW result, Reads(1, SubSeq(s, i + 1, j - 1), result)
  PROVE  Reads(5, SubSeq(s, i, j), result)
<1> DEFINE inner == SubSeq(s, i + 1, j - 1)
<1>1. Len(s) \in Nat /\ MAX_TOKENS \in Nat
  BY LenProperties, CalcConstants
<1>2. inner \in Seq(Tokens) /\ Len(inner) = j - i - 1
  <2>1. i + 1 \in 1 .. Len(s) /\ j - 1 \in i + 1 .. Len(s) /\ (j - 1) - (i + 1) + 1 = j - i - 1
    BY <1>1
  <2> QED BY <2>1, Segment
<1>3. Len(inner) \in 1 .. MAX_TOKENS - 2
  BY <1>1, <1>2
<1>4. <<inner, result>> \in Meaning[Len(inner)][1]
  BY DEF Reads
<1>5. SubSeq(s, i, j) = <<"(">> \o inner \o <<")">>
  <2>1. SubSeq(s, i, j) = <<"(">> \o SubSeq(s, i + 1, j)
    BY <1>1, SubSeqRecursiveFirst
  <2>2. SubSeq(s, i + 1, j) = inner \o <<")">>
    BY <1>1, SubSeqRecursiveSecond
  <2>3. <<"(">> \in Seq(Tokens) /\ <<")">> \in Seq(Tokens)
    BY DEF Tokens
  <2> QED BY <2>1, <2>2, <2>3, <1>2, ConcatAssociative
<1> HIDE DEF inner
<1>6. \A l \in 1 .. MAX_TOKENS - 2 : \A e \in Meaning[l][1] :
        Reads(5, <<"(">> \o e[1] \o <<")">>, e[2])
  BY GrammarAssumption
<1>7. Reads(5, <<"(">> \o <<inner, result>>[1] \o <<")">>, <<inner, result>>[2])
  BY <1>3, <1>4, <1>6
<1> QED BY <1>5, <1>7

LEMMA ReadsOperator ==
  ASSUME NEW s \in Seq(Tokens), Len(s) <= MAX_TOKENS,
         NEW i \in 1 .. Len(s), NEW k \in i + 1 .. Len(s), NEW j \in k + 1 .. Len(s),
         NEW p \in 1 .. 4, s[k] \in Operators, s[k] \in Kinds[p],
         NEW left, Reads(p, SubSeq(s, i, k - 1), left),
         NEW right, Reads(p + 1, SubSeq(s, k + 1, j), right)
  PROVE  Reads(p, SubSeq(s, i, j), Applied(left, right, s[k]))
<1> DEFINE a == SubSeq(s, i, k - 1)
           b == SubSeq(s, k + 1, j)
<1>1. Len(s) \in Nat /\ MAX_TOKENS \in Nat
  BY LenProperties, CalcConstants
<1>2. a \in Seq(Tokens) /\ Len(a) = k - i
  <2>1. i \in 1 .. Len(s) /\ k - 1 \in i .. Len(s) /\ (k - 1) - i + 1 = k - i
    BY <1>1
  <2> QED BY <2>1, Segment
<1>3. b \in Seq(Tokens) /\ Len(b) = j - k
  <2>1. k + 1 \in 1 .. Len(s) /\ j \in k + 1 .. Len(s) /\ j - (k + 1) + 1 = j - k
    BY <1>1
  <2> QED BY <2>1, Segment
<1>4. Len(a) \in 1 .. MAX_TOKENS /\ Len(b) \in 1 .. MAX_TOKENS /\ Len(a) + 1 + Len(b) <= MAX_TOKENS
  BY <1>1, <1>2, <1>3
<1>5. <<a, left>> \in Meaning[Len(a)][p] /\ <<b, right>> \in Meaning[Len(b)][p + 1]
  BY DEF Reads
<1>6. SubSeq(s, i, j) = a \o <<s[k]>> \o b
  <2>1. SubSeq(s, i, j) = a \o SubSeq(s, k, j)
    <3>1. /\ i \in 1 .. Len(s) + 1
          /\ k - 1 \in i - 1 .. Len(s)
          /\ j \in k - 1 .. Len(s)
          /\ (k - 1) + 1 = k
      BY <1>1
    <3> QED BY <3>1, ConcatAdjacentSubSeq
  <2>2. SubSeq(s, k, j) = <<s[k]>> \o b
    <3>1. k \in 1 .. Len(s) /\ j \in k .. Len(s)
      BY <1>1
    <3> QED BY <3>1, SubSeqRecursiveFirst
  <2>3. PICK t \in Tokens : t = s[k]
    BY DEF Tokens
  <2>4. a \in Seq(Tokens) /\ b \in Seq(Tokens)
    BY <1>2, <1>3
  <2> HIDE DEF a, b
  <2>5. a \o (<<t>> \o b) = a \o <<t>> \o b
    BY ONLY <2>4, t \in Tokens, Glued, SMTT(40)
  <2>6. SubSeq(s, i, j) = a \o (<<t>> \o b)
    BY ONLY <2>1, <2>2, <2>3
  <2> QED BY ONLY <2>3, <2>5, <2>6
<1> HIDE DEF a, b
<1>7. \A e \in Meaning[Len(a)][p], f \in Meaning[Len(b)][p + 1], op \in Operators \cap Kinds[p] :
        Reads(p, e[1] \o <<op>> \o f[1], Applied(e[2], f[2], op))
  BY <1>4, GrammarAssumption
<1>8. Reads(p, <<a, left>>[1] \o <<s[k]>> \o <<b, right>>[1],
            Applied(<<a, left>>[2], <<b, right>>[2], s[k]))
  BY <1>5, <1>7
<1> QED BY <1>6, <1>8

-----------------------------------------------------------------------------
(***************************************************************************)
(* One token more                                                          *)
(***************************************************************************)
Places(s, c) == {k \in DOMAIN s : s[k] = c}

\* How often a character occurs.
LEMMA PlacesFinite ==
  ASSUME NEW S, NEW s \in Seq(S), NEW c
  PROVE  IsFiniteSet(Places(s, c)) /\ Cardinality(Places(s, c)) \in Nat
<1>1. Len(s) \in Nat /\ DOMAIN s = 1 .. Len(s)
  BY LenProperties
<1>2. IsFiniteSet(1 .. Len(s)) /\ Places(s, c) \in SUBSET (1 .. Len(s))
  BY <1>1, FS_Interval DEF Places
<1>3. IsFiniteSet(Places(s, c))
  BY <1>2, FS_Subset
<1> QED BY <1>3, FS_CardinalityType

LEMMA PlacesAppended ==
  ASSUME NEW S, NEW s \in Seq(S), NEW t \in S, NEW c
  PROVE  Cardinality(Places(Append(s, t), c)) =
           Cardinality(Places(s, c)) + (IF t = c THEN 1 ELSE 0)
<1> DEFINE u == Append(s, t)
<1>1. /\ u \in Seq(S) /\ Len(u) = Len(s) + 1 /\ Len(s) \in Nat
      /\ \A i \in 1 .. Len(s) : u[i] = s[i]
      /\ u[Len(s) + 1] = t
  BY AppendProperties, LenProperties
<1>2. DOMAIN s = 1 .. Len(s) /\ DOMAIN u = 1 .. Len(s) + 1
  BY <1>1, LenProperties
<1>3. Places(u, c) = IF t = c THEN Places(s, c) \cup {Len(s) + 1} ELSE Places(s, c)
  BY <1>1, <1>2 DEF Places
<1>4. Len(s) + 1 \notin Places(s, c)
  BY <1>1, <1>2 DEF Places
<1>5. IsFiniteSet(Places(s, c)) /\ Cardinality(Places(s, c)) \in Nat
  BY PlacesFinite
<1>6. Cardinality(Places(s, c) \cup {Len(s) + 1}) = Cardinality(Places(s, c)) + 1
  BY <1>4, <1>5, FS_AddElement
<1> QED BY <1>3, <1>5, <1>6

\* The parentheses still open after one more token.
LEMMA DepthAppended ==
  ASSUME NEW s \in Seq(Tokens), NEW t \in Tokens
  PROVE  /\ Depth(s) \in Int
         /\ Depth(Append(s, t)) = Depth(s) + (IF t = "(" THEN 1 ELSE IF t = ")" THEN -1 ELSE 0)
<1>1. \A u : Depth(u) = Cardinality(Places(u, "(")) - Cardinality(Places(u, ")"))
  BY DEF Depth, Places
<1>2. /\ Cardinality(Places(s, "(")) \in Nat
      /\ Cardinality(Places(s, ")")) \in Nat
  BY PlacesFinite
<1>3. /\ Cardinality(Places(Append(s, t), "(")) =
           Cardinality(Places(s, "(")) + (IF t = "(" THEN 1 ELSE 0)
      /\ Cardinality(Places(Append(s, t), ")")) =
           Cardinality(Places(s, ")")) + (IF t = ")" THEN 1 ELSE 0)
  BY PlacesAppended
<1>4. "(" # ")"
  OBVIOUS
<1> QED BY <1>1, <1>2, <1>3, <1>4

\* Segments of a sequence are those of a longer one.
LEMMA SegmentAppended ==
  ASSUME NEW S, NEW s \in Seq(S), NEW t \in S, NEW i \in Int, 1 <= i, NEW j \in Int, j <= Len(s)
  PROVE  SubSeq(Append(s, t), i, j) = SubSeq(s, i, j)
<1>1. /\ Append(s, t) = s \o <<t>> /\ <<t>> \in Seq(S)
      /\ Len(s) \in Nat
  BY AppendIsConcat, LenProperties
<1>2. CASE i <= j
  BY <1>1, <1>2, SubSeqOfConcat1
<1>3. CASE j < i
  BY <1>1, <1>3, SubSeqEmpty
<1> QED BY <1>2, <1>3

\* What the start of an expression says of its last token.
LEMMA PrefixAppended ==
  ASSUME NEW s \in Seq(Tokens), NEW t \in Tokens, Prefix(Append(s, t))
  PROVE  /\ Prefix(s)
         /\ OperandStarts(t) <=> s = << >> \/ ~OperandEnds(s[Len(s)])
         /\ Depth(Append(s, t)) >= 0
<1> DEFINE u == Append(s, t)
           n == Len(s)
<1>1. /\ u \in Seq(Tokens) /\ Len(u) = n + 1 /\ n \in Nat
      /\ \A i \in 1 .. n : u[i] = s[i]
      /\ u[n + 1] = t
  BY AppendProperties, LenProperties
<1>2. DOMAIN s = 1 .. n /\ DOMAIN u = 1 .. n + 1
  BY <1>1, LenProperties
<1>3. \A k \in 1 .. n : SubSeq(u, 1, k) = SubSeq(s, 1, k)
  BY <1>1, SegmentAppended
<1>4. SubSeq(u, 1, n + 1) = u
  BY <1>1, SubSeqFull
<1>5. s = << >> <=> n = 0
  BY <1>1, EmptySeq
<1> HIDE DEF u, n
<1>6. /\ \A k \in 1 .. n + 1 : OperandStarts(u[k]) <=> k = 1 \/ ~OperandEnds(u[k - 1])
      /\ \A k \in 1 .. n + 1 : Depth(SubSeq(u, 1, k)) >= 0
  BY <1>2 DEF Prefix, u
<1>7. \A k \in 1 .. n : OperandStarts(s[k]) <=> k = 1 \/ ~OperandEnds(s[k - 1])
  <2> TAKE k \in 1 .. n
  <2>1. u[k] = s[k] /\ (k # 1 => u[k - 1] = s[k - 1])
    BY <1>1
  <2>2. OperandStarts(u[k]) <=> k = 1 \/ ~OperandEnds(u[k - 1])
    BY <1>1, <1>6
  <2> QED BY <2>1, <2>2
<1>8. \A k \in 1 .. n : Depth(SubSeq(s, 1, k)) >= 0
  <2> TAKE k \in 1 .. n
  <2>1. k \in 1 .. n + 1
    BY <1>1
  <2>2. Depth(SubSeq(u, 1, k)) >= 0
    BY <1>6, <2>1
  <2> QED BY <1>3, <2>2
<1>9. OperandStarts(t) <=> n = 0 \/ ~OperandEnds(s[n])
  <2>1. PICK k \in 1 .. n + 1 : k = n + 1
    BY <1>1
  <2>2. OperandStarts(u[k]) <=> k = 1 \/ ~OperandEnds(u[k - 1])
    BY <1>6
  <2>3. (k = 1 <=> n = 0) /\ k - 1 = n /\ u[k] = t /\ (n # 0 => u[n] = s[n])
    BY <1>1, <2>1
  <2>4. OperandStarts(t) <=> n = 0 \/ ~OperandEnds(u[n])
    BY ONLY <2>2, <2>3, Zenon
  <2> QED BY <2>3, <2>4
<1>10. Depth(u) >= 0
  <2>1. n + 1 \in 1 .. n + 1
    BY <1>1
  <2>2. Depth(SubSeq(u, 1, n + 1)) >= 0
    BY <1>6, <2>1
  <2> QED BY <1>4, <2>2
<1>11. Prefix(s)
  BY <1>2, <1>7, <1>8 DEF Prefix
<1> QED BY <1>5, <1>9, <1>10, <1>11 DEF u, n

\* An operator that is typed has a kind.
LEMMA KnownAppended ==
  ASSUME NEW s \in Seq(Tokens), NEW t \in Tokens, KnownOperators(Append(s, t))
  PROVE  /\ KnownOperators(s)
         /\ t \in Operators => \E p \in 1 .. 4 : t \in Kinds[p]
<1>1. /\ Append(s, t) \in Seq(Tokens) /\ Len(Append(s, t)) = Len(s) + 1 /\ Len(s) \in Nat
      /\ \A i \in 1 .. Len(s) : Append(s, t)[i] = s[i]
      /\ Append(s, t)[Len(s) + 1] = t
  BY AppendProperties, LenProperties
<1>2. DOMAIN s = 1 .. Len(s) /\ DOMAIN Append(s, t) = 1 .. Len(s) + 1
  BY <1>1, LenProperties
<1>3. DOMAIN Kinds = 1 .. 4
  BY DEF Kinds
<1> QED BY <1>1, <1>2, <1>3 DEF KnownOperators

\* The kind of an operator is its precedence.
LevelOf(op) == get_precedence(op) + 1

LEMMA LevelOfOperator ==
  ASSUME NEW op
  PROVE  /\ LevelOf(op) \in 0 .. 4
         /\ LevelOf("(") = 0
         /\ (\E p \in 1 .. 4 : op \in Kinds[p]) => LevelOf(op) \in 1 .. 4 /\ op \in Kinds[LevelOf(op)]
<1>1. /\ Kinds[1] = {"&", "|"} /\ Kinds[2] = {"+", "-"}
      /\ Kinds[3] = {"*", "x", "/", "%"} /\ Kinds[4] = {"^"}
  BY DEF Kinds
<1>2. LevelOf(op) = IF op \in Kinds[1] THEN 1 ELSE IF op \in Kinds[2] THEN 2
                    ELSE IF op \in Kinds[3] THEN 3 ELSE IF op \in Kinds[4] THEN 4 ELSE 0
  BY <1>1 DEF LevelOf, get_precedence
<1>3. LevelOf("(") = 0
  BY DEF LevelOf, get_precedence
<1>4. ASSUME NEW p \in 1 .. 4, op \in Kinds[p]
      PROVE  LevelOf(op) \in 1 .. 4 /\ op \in Kinds[LevelOf(op)]
  <2>1. p \in {1, 2, 3, 4}
    OBVIOUS
  <2> QED BY <1>2, <1>4, <2>1
<1> QED BY <1>2, <1>3, <1>4

-----------------------------------------------------------------------------
(***************************************************************************)
(* The stacks, as a reading of the tokens dealt with                       *)
(***************************************************************************)
\* The element op of the stack is the token at place p.  An operator has its
\* left operand between the element under it, at place q, and itself, and the
\* value of that operand is the v-th; u values belong below.
Pending(tk, vs, op, q, u, p, v) ==
  /\ q < p /\ tk[p] = op
  /\ op = "(" => p = q + 1 /\ v = u
  /\ op # "(" =>
       /\ v = u + 1 /\ q + 1 < p
       /\ op \in Operators /\ LevelOf(op) \in 1 .. 4 /\ op \in Kinds[LevelOf(op)]
       /\ Reads(LevelOf(op), SubSeq(tk, q + 1, p - 1), Printed(vs[v]))

\* The first e tokens are dealt with.
Stacked(tk, vs, os, e, pos, val) ==
  /\ pos \in [Nat -> Nat] /\ val \in [Nat -> Nat]
  /\ pos[0] = 0 /\ val[0] = 0
  /\ pos[Len(os)] <= e /\ val[Len(os)] <= Len(vs)
  /\ \A i, j \in 0 .. Len(os) : i <= j => pos[i] <= pos[j] /\ val[i] <= val[j]
  /\ \A j \in 1 .. Len(os) : Pending(tk, vs, os[j], pos[j - 1], val[j - 1], pos[j], val[j])

\* More tokens, and other values above those that wait, change nothing.
LEMMA StackedKept ==
  ASSUME NEW tk, NEW vs, NEW os, Len(os) \in Nat, NEW e \in Nat, NEW pos, NEW val,
         Stacked(tk, vs, os, e, pos, val),
         NEW tk2, NEW vs2, NEW e2 \in Nat, e <= e2, val[Len(os)] <= Len(vs2),
         \A k \in 1 .. e : tk2[k] = tk[k],
         \A i \in 1 .. e, j \in 0 .. e : SubSeq(tk2, i, j) = SubSeq(tk, i, j),
         \A k \in 1 .. val[Len(os)] : vs2[k] = vs[k]
  PROVE  Stacked(tk2, vs2, os, e2, pos, val)
<1> DEFINE m == Len(os)
<1>1. /\ pos \in [Nat -> Nat] /\ val \in [Nat -> Nat] /\ pos[0] = 0 /\ val[0] = 0
      /\ pos[m] <= e
      /\ \A i, j \in 0 .. m : i <= j => pos[i] <= pos[j] /\ val[i] <= val[j]
  BY DEF Stacked
<1>2. ASSUME NEW j \in 1 .. m
      PROVE  Pending(tk2, vs2, os[j], pos[j - 1], val[j - 1], pos[j], val[j])
  <2>1. Pending(tk, vs, os[j], pos[j - 1], val[j - 1], pos[j], val[j])
    BY DEF Stacked
  <2>2. /\ j \in Nat /\ j - 1 \in Nat /\ j \in 0 .. m /\ m \in 0 .. m /\ j <= m
        /\ pos[j] \in Nat /\ pos[j - 1] \in Nat /\ val[j] \in Nat /\ val[j - 1] \in Nat
        /\ pos[m] \in Nat /\ val[m] \in Nat
    <3>1. j \in Nat /\ j - 1 \in Nat /\ m \in Nat /\ j <= m
      OBVIOUS
    <3>2. j \in 0 .. m /\ m \in 0 .. m
      BY <3>1
    <3>3. \A k \in Nat : pos[k] \in Nat /\ val[k] \in Nat
      BY <1>1
    <3> QED BY <3>1, <3>2, <3>3
  <2>3. pos[j] <= pos[m] /\ val[j] <= val[m]
    BY <1>1, <2>2
  <2>4. pos[j - 1] < pos[j] /\ pos[j] <= e
    BY <1>1, <2>1, <2>2, <2>3 DEF Pending
  <2>5. tk2[pos[j]] = tk[pos[j]]
    BY <2>2, <2>4
  <2>6. SubSeq(tk2, pos[j - 1] + 1, pos[j] - 1) = SubSeq(tk, pos[j - 1] + 1, pos[j] - 1)
    <3>1. pos[j - 1] + 1 \in 1 .. e /\ pos[j] - 1 \in 0 .. e
      BY ONLY <2>2, <2>4, e \in Nat, SMTT(40)
    <3> QED BY <3>1
  <2>7. os[j] # "(" => vs2[val[j]] = vs[val[j]]
    <3>1. os[j] # "(" => val[j] \in 1 .. val[m]
      BY <2>1, <2>2, <2>3 DEF Pending
    <3> QED BY <3>1
  <2> QED BY <2>1, <2>5, <2>6, <2>7 DEF Pending
<1>3. pos[m] <= e2
  <2>1. pos[m] \in Nat
    BY <1>1
  <2> QED BY <1>1, <2>1
<1> QED BY <1>1, <1>2, <1>3 DEF Stacked

\* Pushing an element that was read at e2.
LEMMA StackedPushed ==
  ASSUME NEW S, NEW os \in Seq(S), NEW op \in S, NEW tk, NEW vs, NEW e, NEW pos, NEW val,
         Stacked(tk, vs, os, e, pos, val),
         NEW e2 \in Nat, pos[Len(os)] < e2, NEW v \in Nat, val[Len(os)] <= v, v <= Len(vs),
         Pending(tk, vs, op, pos[Len(os)], val[Len(os)], e2, v)
  PROVE  Stacked(tk, vs, Append(os, op), e2, [pos EXCEPT ![Len(os) + 1] = e2],
                 [val EXCEPT ![Len(os) + 1] = v])
<1> DEFINE m == Len(os)
           os2 == Append(os, op)
           pos2 == [pos EXCEPT ![m + 1] = e2]
           val2 == [val EXCEPT ![m + 1] = v]
<1>1. /\ m \in Nat /\ Len(os2) = m + 1
      /\ \A k \in 1 .. m : os2[k] = os[k]
  BY AppendProperties, LenProperties
<1>2. /\ pos \in [Nat -> Nat] /\ val \in [Nat -> Nat] /\ pos[0] = 0 /\ val[0] = 0
      /\ \A i, j \in 0 .. m : i <= j => pos[i] <= pos[j] /\ val[i] <= val[j]
  BY DEF Stacked
<1>3. /\ pos2 \in [Nat -> Nat] /\ val2 \in [Nat -> Nat]
      /\ pos2[m + 1] = e2 /\ val2[m + 1] = v
      /\ \A k \in 0 .. m : pos2[k] = pos[k] /\ val2[k] = val[k] /\ pos[k] \in Nat /\ val[k] \in Nat
  <2>1. /\ m + 1 \in Nat /\ e2 \in Nat /\ v \in Nat
        /\ \A k \in 0 .. m : k \in Nat /\ k # m + 1
    BY <1>1
  <2>2. pos \in [Nat -> Nat] /\ val \in [Nat -> Nat]
    BY <1>2
  <2> HIDE DEF m
  <2>3. pos2 \in [Nat -> Nat] /\ pos2[m + 1] = e2 /\ \A k \in Nat : k # m + 1 => pos2[k] = pos[k]
    BY <2>1, <2>2
  <2>4. val2 \in [Nat -> Nat] /\ val2[m + 1] = v /\ \A k \in Nat : k # m + 1 => val2[k] = val[k]
    BY <2>1, <2>2
  <2> QED BY <2>1, <2>2, <2>3, <2>4
<1>4. pos2[0] = 0 /\ val2[0] = 0
  BY <1>1, <1>2, <1>3
<1>41. pos[m] < e2 /\ val[m] <= v /\ v <= Len(vs)
  OBVIOUS
<1> HIDE DEF os2, pos2, val2, m
<1>5. ASSUME NEW i \in 0 .. m + 1, NEW j \in 0 .. m + 1, i <= j
      PROVE  pos2[i] <= pos2[j] /\ val2[i] <= val2[j]
  <2>1. CASE j \in 0 .. m
    <3>1. i \in 0 .. m
      BY <1>1, <1>5, <2>1
    <3>2. pos[i] <= pos[j] /\ val[i] <= val[j]
      BY <1>2, <1>5, <2>1, <3>1
    <3> QED BY <1>3, <2>1, <3>1, <3>2
  <2>2. CASE i \in 0 .. m /\ j = m + 1
    <3>1. pos[i] <= pos[m] /\ val[i] <= val[m] /\ pos[i] \in Nat /\ pos[m] \in Nat /\ val[i] \in Nat /\ val[m] \in Nat
      <4>1. m \in 0 .. m /\ i <= m
        BY <1>1, <2>2
      <4> QED BY <1>2, <1>3, <2>2, <4>1
    <3>2. pos2[i] = pos[i] /\ val2[i] = val[i] /\ pos2[j] = e2 /\ val2[j] = v
      BY <1>3, <2>2
    <3> QED BY <1>41, <3>1, <3>2
  <2>3. CASE i = m + 1 /\ j = m + 1
    <3>1. pos2[i] = pos2[j] /\ val2[i] = val2[j] /\ pos2[i] = e2 /\ val2[i] = v
      BY <1>3, <2>3
    <3> QED BY <3>1
  <2> QED BY <1>1, <1>5, <2>1, <2>2, <2>3
<1>6. ASSUME NEW j \in 1 .. m
      PROVE  Pending(tk, vs, os2[j], pos2[j - 1], val2[j - 1], pos2[j], val2[j])
  <2>1. Pending(tk, vs, os[j], pos[j - 1], val[j - 1], pos[j], val[j])
    BY DEF Stacked, m
  <2>2. j \in 0 .. m /\ j - 1 \in 0 .. m /\ os2[j] = os[j]
    BY <1>1
  <2>3. pos2[j] = pos[j] /\ pos2[j - 1] = pos[j - 1] /\ val2[j] = val[j] /\ val2[j - 1] = val[j - 1]
    BY <1>3, <2>2
  <2> QED BY <2>1, <2>2, <2>3
<1>7. Pending(tk, vs, op, pos[m], val[m], e2, v) /\ os2[m + 1] = op
  BY AppendProperties DEF os2, m
<1>8. ASSUME NEW j \in 1 .. m + 1
      PROVE  Pending(tk, vs, os2[j], pos2[j - 1], val2[j - 1], pos2[j], val2[j])
  <2>1. CASE j \in 1 .. m
    BY <1>6, <2>1
  <2>2. CASE j = m + 1
    <3>1. j - 1 = m /\ m \in 0 .. m
      BY <1>1, <2>2
    <3>2. os2[j] = op /\ pos2[j] = e2 /\ val2[j] = v
      BY <1>3, <1>7, <2>2
    <3>3. pos2[j - 1] = pos[m] /\ val2[j - 1] = val[m]
      BY <1>3, <3>1
    <3> QED BY <1>7, <3>2, <3>3
  <2> QED BY <1>1, <2>1, <2>2
<1>9. Stacked(tk, vs, os2, e2, pos2, val2)
  <2>1. pos2[Len(os2)] <= e2 /\ val2[Len(os2)] <= Len(vs)
    BY <1>1, <1>3, <1>41
  <2>2. \A i, j \in 0 .. Len(os2) : i <= j => pos2[i] <= pos2[j] /\ val2[i] <= val2[j]
    BY <1>1, <1>5
  <2> QED BY <1>1, <1>3, <1>4, <1>8, <2>1, <2>2 DEF Stacked
<1> QED BY <1>9 DEF os2, pos2, val2, m

\* The top goes; the rest stands.
LEMMA StackedPopped ==
  ASSUME NEW S, NEW os \in Seq(S), os # << >>, NEW tk, NEW vs, NEW e \in Nat, NEW pos, NEW val,
         Len(vs) \in Nat, Stacked(tk, vs, os, e, pos, val)
  PROVE  /\ Len(Pop(os)) = Len(os) - 1
         /\ Stacked(tk, vs, Pop(os), e, pos, val)
<1> DEFINE m == Len(os)
           os2 == Pop(os)
<1>1. /\ Len(os2) = m - 1
      /\ \A k \in 1 .. m - 1 : os2[k] = os[k]
  BY PopType
<1>2. m \in Nat /\ m - 1 \in Nat
  BY EmptySeq
<1>3. /\ pos \in [Nat -> Nat] /\ val \in [Nat -> Nat] /\ pos[0] = 0 /\ val[0] = 0
      /\ pos[m] <= e /\ val[m] <= Len(vs)
      /\ \A i, j \in 0 .. m : i <= j => pos[i] <= pos[j] /\ val[i] <= val[j]
  BY DEF Stacked
<1> HIDE DEF os2, m
<1>4. pos[m - 1] <= e /\ val[m - 1] <= Len(vs)
  <2>1. m - 1 \in 0 .. m /\ m \in 0 .. m /\ m - 1 <= m
    BY <1>2
  <2>2. pos[m - 1] <= pos[m] /\ val[m - 1] <= val[m]
    BY <1>3, <2>1
  <2>3. pos[m - 1] \in Nat /\ pos[m] \in Nat /\ val[m - 1] \in Nat /\ val[m] \in Nat
    BY <1>2, <1>3
  <2>4. pos[m] <= e /\ val[m] <= Len(vs)
    BY <1>3
  <2> QED BY <2>2, <2>3, <2>4
<1>5. \A i, j \in 0 .. m - 1 : i <= j => pos[i] <= pos[j] /\ val[i] <= val[j]
  <2>1. \A i \in 0 .. m - 1 : i \in 0 .. m
    BY <1>2
  <2> QED BY <1>3, <2>1
<1>6. ASSUME NEW j \in 1 .. m - 1
      PROVE  Pending(tk, vs, os2[j], pos[j - 1], val[j - 1], pos[j], val[j])
  <2>1. j \in 1 .. m
    BY <1>2
  <2>2. Pending(tk, vs, os[j], pos[j - 1], val[j - 1], pos[j], val[j]) /\ os2[j] = os[j]
    BY <1>1, <2>1 DEF Stacked, m
  <2> QED BY <2>2
<1>7. Stacked(tk, vs, os2, e, pos, val)
  BY <1>1, <1>3, <1>4, <1>5, <1>6 DEF Stacked
<1> QED BY <1>1, <1>7 DEF os2, m

\* Between two operands every value belongs to an element of os.  After an
\* operand there is one more, of the tokens above the top.
ExpectsOperand(tk, vs, os, e) ==
  \E pos, val :
    /\ Stacked(tk, vs, os, e, pos, val)
    /\ pos[Len(os)] = e /\ Len(vs) = val[Len(os)]

Holds(tk, vs, os, e, pos, val, level) ==
  /\ Stacked(tk, vs, os, e, pos, val) /\ level \in 1 .. 5
  /\ pos[Len(os)] < e /\ Len(vs) = val[Len(os)] + 1
  /\ os # << >> => LevelOf(Top(os)) < level
  /\ Reads(level, SubSeq(tk, pos[Len(os)] + 1, e), Printed(vs[Len(vs)]))

HasOperand(tk, vs, os, e, least) ==
  \E pos, val, level : level >= least /\ Holds(tk, vs, os, e, pos, val, level)

\* Before the first token.
LEMMA NothingYet == ExpectsOperand(<< >>, << >>, << >>, 0)
<1> DEFINE z == [k \in Nat |-> 0]
<1>1. z \in [Nat -> Nat] /\ z[0] = 0
  OBVIOUS
<1>2. Len(<< >>) = 0 /\ 0 .. 0 = {0} /\ 1 .. 0 = {}
  BY EmptySeq
<1> HIDE DEF z
<1>3. Stacked(<< >>, << >>, << >>, 0, z, z)
  BY <1>1, <1>2 DEF Stacked
<1> QED BY <1>1, <1>2, <1>3 DEF ExpectsOperand

\* A parenthesis opens: what follows is read for itself.
LEMMA Opened ==
  ASSUME NEW tk \in Seq(Tokens), NEW S, NEW vs \in Seq(S), NEW T, NEW os \in Seq(T), "(" \in T,
         ExpectsOperand(tk, vs, os, Len(tk))
  PROVE  ExpectsOperand(Append(tk, "("), vs, Append(os, "("), Len(tk) + 1)
<1> DEFINE m == Len(os)
           e == Len(tk)
           tk2 == Append(tk, "(")
           os2 == Append(os, "(")
<1>1. PICK pos, val :
        Stacked(tk, vs, os, e, pos, val) /\ pos[m] = e /\ Len(vs) = val[m]
  BY DEF ExpectsOperand
<1>2. m \in Nat /\ e \in Nat /\ Len(vs) \in Nat /\ "(" \in Tokens
  BY LenProperties DEF Tokens
<1>3. /\ \A k \in 1 .. e : tk2[k] = tk[k]
      /\ tk2[e + 1] = "("
      /\ Len(os2) = m + 1 /\ os2[m + 1] = "("
  <2>1. (\A k \in 1 .. e : tk2[k] = tk[k]) /\ tk2[e + 1] = "("
    BY <1>2, AppendProperties
  <2>2. Len(os2) = m + 1 /\ os2[m + 1] = "("
    BY AppendProperties
  <2> QED BY <2>1, <2>2
<1>4. \A i \in 1 .. e, j \in 0 .. e : SubSeq(tk2, i, j) = SubSeq(tk, i, j)
  BY <1>2, SegmentAppended
<1> HIDE DEF m, e, tk2, os2
<1>5. Stacked(tk2, vs, os, e + 1, pos, val)
  <2>1. e + 1 \in Nat /\ e <= e + 1 /\ val[m] <= Len(vs)
    BY <1>1, <1>2
  <2> QED BY <1>1, <1>2, <1>3, <1>4, <2>1, StackedKept DEF m
<1> DEFINE pos2 == [pos EXCEPT ![m + 1] = e + 1]
           val2 == [val EXCEPT ![m + 1] = val[m]]
<1>6. /\ pos2 \in [Nat -> Nat] /\ val2 \in [Nat -> Nat]
      /\ pos2[m + 1] = e + 1 /\ val2[m + 1] = val[m]
      /\ pos2[m] = pos[m] /\ val2[m] = val[m] /\ val[m] \in Nat
  <2>1. pos \in [Nat -> Nat] /\ val \in [Nat -> Nat]
    BY <1>1 DEF Stacked
  <2>2. m + 1 \in Nat /\ m # m + 1 /\ e + 1 \in Nat
    BY <1>2
  <2>3. val[m] \in Nat
    BY <1>2, <2>1
  <2> QED BY <1>2, <2>1, <2>2, <2>3
<1>7. Pending(tk2, vs, "(", pos[m], val[m], e + 1, val[m])
  BY <1>1, <1>2, <1>3 DEF Pending
<1>8. Stacked(tk2, vs, os2, e + 1, pos2, val2)
  <2>1. pos[m] < e + 1 /\ val[m] <= val[m] /\ val[m] <= Len(vs) /\ e + 1 \in Nat
    BY <1>1, <1>2, <1>6
  <2> QED BY <1>5, <1>6, <1>7, <2>1, StackedPushed DEF m, os2
<1> HIDE DEF pos2, val2
<1>9. ExpectsOperand(tk2, vs, os2, e + 1)
  BY <1>1, <1>3, <1>6, <1>8 DEF ExpectsOperand
<1> QED BY <1>9 DEF tk2, os2, e

\* A numeral is an operand of the tightest level.
LEMMA NumberRead ==
  ASSUME NEW tk \in Seq(Tokens), NEW S, NEW vs \in Seq(S), NEW T, NEW os \in Seq(T),
         ExpectsOperand(tk, vs, os, Len(tk)), NEW t \in Numerals, Value[t] \in S
  PROVE  HasOperand(Append(tk, t), Append(vs, Value[t]), os, Len(tk) + 1, 5)
<1> DEFINE m == Len(os)
           e == Len(tk)
           tk2 == Append(tk, t)
           vs2 == Append(vs, Value[t])
<1>1. PICK pos, val :
        Stacked(tk, vs, os, e, pos, val) /\ pos[m] = e /\ Len(vs) = val[m]
  BY DEF ExpectsOperand
<1>2. m \in Nat /\ e \in Nat /\ Len(vs) \in Nat /\ t \in Tokens
  BY LenProperties DEF Tokens
<1>3. /\ \A k \in 1 .. e : tk2[k] = tk[k]
      /\ tk2[e + 1] = t /\ tk2 \in Seq(Tokens) /\ Len(tk2) = e + 1
  BY <1>2, AppendProperties
<1>4. /\ \A k \in 1 .. Len(vs) : vs2[k] = vs[k]
      /\ Len(vs2) = Len(vs) + 1 /\ vs2[Len(vs2)] = Value[t]
  BY <1>2, AppendProperties
<1>5. \A i \in 1 .. e, j \in 0 .. e : SubSeq(tk2, i, j) = SubSeq(tk, i, j)
  BY <1>2, SegmentAppended
<1>6. os # << >> => LevelOf(Top(os)) < 5
  <2>1. LevelOf(Top(os)) \in 0 .. 4
    BY LevelOfOperator
  <2> QED BY <2>1
<1> HIDE DEF m, e, tk2, vs2
<1>7. Stacked(tk2, vs2, os, e + 1, pos, val)
  <2>1. e + 1 \in Nat /\ e <= e + 1 /\ val[m] <= Len(vs2)
    BY <1>1, <1>2, <1>4
  <2>2. \A k \in 1 .. val[m] : vs2[k] = vs[k]
    BY <1>1, <1>4
  <2>3. Stacked(tk, vs, os, e, pos, val) /\ \A k \in 1 .. e : tk2[k] = tk[k]
    BY <1>1, <1>3
  <2> QED BY <1>2, <1>5, <2>1, <2>2, <2>3, StackedKept DEF m
<1>8. Reads(5, SubSeq(tk2, e + 1, e + 1), Printed(Value[t]))
  <2>1. e + 1 \in 1 .. Len(tk2)
    BY <1>2, <1>3
  <2> QED BY <1>3, <2>1, ReadsNumeral
<1>9. Holds(tk2, vs2, os, e + 1, pos, val, 5)
  <2>1. pos[m] < e + 1 /\ Len(vs2) = val[m] + 1 /\ pos[m] + 1 = e + 1
    BY <1>1, <1>2, <1>4
  <2> QED BY <1>4, <1>6, <1>7, <1>8, <2>1 DEF Holds, m
<1>10. HasOperand(tk2, vs2, os, e + 1, 5)
  <2>1. 5 \in 1 .. 5 /\ 5 >= 5
    OBVIOUS
  <2> QED BY <1>1, <1>9, <2>1 DEF HasOperand
<1> QED BY <1>10 DEF tk2, vs2, e

\* A looser demand, and a token that is not yet dealt with.
LEMMA OperandKept ==
  ASSUME NEW tk \in Seq(Tokens), NEW vs, Len(vs) \in Nat, NEW T, NEW os \in Seq(T),
         HasOperand(tk, vs, os, Len(tk), 5), NEW least \in 1 .. 5
  PROVE  /\ HasOperand(tk, vs, os, Len(tk), least)
         /\ \A t \in Tokens : HasOperand(Append(tk, t), vs, os, Len(tk), least)
<1> DEFINE m == Len(os)
           e == Len(tk)
<1>1. PICK pos, val, level :
        level >= 5 /\ Holds(tk, vs, os, e, pos, val, level)
  BY DEF HasOperand
<1>2. level >= least
  BY <1>1 DEF Holds
<1>3. m \in Nat /\ e \in Nat
  BY LenProperties
<1>33. pos[m] \in Nat /\ val[m] \in Nat
  BY <1>1, <1>3 DEF Holds, Stacked
<1>4. ASSUME NEW t \in Tokens
      PROVE  HasOperand(Append(tk, t), vs, os, e, least)
  <2>1. \A k \in 1 .. e : Append(tk, t)[k] = tk[k]
    BY AppendProperties
  <2>2. \A i \in 1 .. e, j \in 0 .. e : SubSeq(Append(tk, t), i, j) = SubSeq(tk, i, j)
    BY <1>3, SegmentAppended
  <2>3. Stacked(tk, vs, os, e, pos, val) /\ pos[m] < e /\ Len(vs) = val[m] + 1
    BY <1>1 DEF Holds
  <2>4. Stacked(Append(tk, t), vs, os, e, pos, val)
    <3>1. e <= e /\ val[m] <= Len(vs)
      BY <1>3, <1>33, <2>3
    <3> QED BY <1>3, <2>1, <2>2, <2>3, <3>1, StackedKept
  <2>5. SubSeq(Append(tk, t), pos[m] + 1, e) = SubSeq(tk, pos[m] + 1, e)
    <3>1. pos[m] + 1 \in 1 .. e /\ e \in 0 .. e
      BY <1>3, <1>33, <2>3
    <3> QED BY <2>2, <3>1
  <2>6. Holds(Append(tk, t), vs, os, e, pos, val, level)
    BY <1>1, <2>4, <2>5 DEF Holds
  <2> QED BY <1>1, <1>2, <2>6 DEF HasOperand
<1>5. HasOperand(tk, vs, os, e, least)
  BY <1>1, <1>2 DEF HasOperand
<1> QED BY <1>4, <1>5

\* The operand before an operator becomes its left one.
LEMMA OperatorPushed ==
  ASSUME NEW tk \in Seq(Tokens), Len(tk) <= MAX_TOKENS, NEW vs, Len(vs) \in Nat,
         NEW T, NEW os \in Seq(T),
         NEW op \in T, op \in Operators, \E p \in 1 .. 4 : op \in Kinds[p],
         NEW e \in Nat, Len(tk) = e + 1, tk[e + 1] = op, HasOperand(tk, vs, os, e, LevelOf(op))
  PROVE  ExpectsOperand(tk, vs, Append(os, op), e + 1)
<1> DEFINE m == Len(os)
           p == LevelOf(op)
           os2 == Append(os, op)
<1>1. PICK pos, val, level :
        level >= p /\ Holds(tk, vs, os, e, pos, val, level)
  BY DEF HasOperand
<1>2. p \in 1 .. 4 /\ op \in Kinds[p]
  BY LevelOfOperator
<1>3. m \in Nat /\ Len(os2) = m + 1
  BY LenProperties, AppendProperties
<1>4. op # "("
  BY CalcConstants
<1>5. /\ Stacked(tk, vs, os, e, pos, val)
      /\ pos[m] < e /\ Len(vs) = val[m] + 1
      /\ Reads(level, SubSeq(tk, pos[m] + 1, e), Printed(vs[Len(vs)]))
  BY <1>1 DEF Holds
<1>6. pos \in [Nat -> Nat] /\ val \in [Nat -> Nat]
  BY <1>1 DEF Holds, Stacked
<1>61. level \in 1 .. 5
  BY <1>1 DEF Holds
<1>66. pos[m] \in Nat /\ val[m] \in Nat
  BY <1>3, <1>6
<1>67. pos[m] < e
  BY <1>5
<1> HIDE DEF m, p, os2
<1>7. Reads(p, SubSeq(tk, pos[m] + 1, e), Printed(vs[Len(vs)]))
  <2>1. pos[m] + 1 \in 1 .. Len(tk) /\ e \in pos[m] + 1 .. Len(tk)
    BY <1>66, <1>67
  <2>2. p \in 1 .. level
    BY <1>1, <1>2, <1>61
  <2> QED BY <1>5, <1>61, <2>1, <2>2, SegmentLooser
<1>8. Pending(tk, vs, op, pos[m], val[m], e + 1, val[m] + 1)
  <2>1. e + 1 - 1 = e /\ pos[m] + 1 < e + 1 /\ pos[m] < e + 1
    BY <1>5, <1>66
  <2> QED BY <1>2, <1>4, <1>5, <1>7, <2>1 DEF Pending, p
<1> DEFINE pos2 == [pos EXCEPT ![m + 1] = e + 1]
           val2 == [val EXCEPT ![m + 1] = val[m] + 1]
<1>9. /\ pos2 \in [Nat -> Nat] /\ val2 \in [Nat -> Nat]
      /\ pos2[m + 1] = e + 1 /\ val2[m + 1] = val[m] + 1
  <2>1. m + 1 \in Nat /\ e + 1 \in Nat /\ val[m] + 1 \in Nat
    BY <1>3, <1>66
  <2> QED BY <1>6, <2>1
<1>10. Stacked(tk, vs, os2, e + 1, pos2, val2)
  <2>1. /\ pos[m] < e + 1 /\ val[m] <= val[m] + 1 /\ val[m] + 1 <= Len(vs)
        /\ e + 1 \in Nat /\ val[m] + 1 \in Nat
    BY <1>5, <1>66
  <2> QED BY <1>5, <1>8, <2>1, StackedPushed DEF m, os2
<1> HIDE DEF pos2, val2
<1>11. ExpectsOperand(tk, vs, os2, e + 1)
  BY <1>3, <1>5, <1>9, <1>10 DEF ExpectsOperand
<1> QED BY <1>11 DEF os2

\* What is in parentheses becomes an operand.
LEMMA ParenthesisClosed ==
  ASSUME NEW tk \in Seq(Tokens), Len(tk) <= MAX_TOKENS, NEW vs, Len(vs) \in Nat,
         NEW T, NEW os \in Seq(T), os # << >>, Top(os) = "(",
         NEW e \in Nat, Len(tk) = e + 1, tk[e + 1] = ")", HasOperand(tk, vs, os, e, 1)
  PROVE  HasOperand(tk, vs, Pop(os), e + 1, 5)
<1> DEFINE m == Len(os)
           os2 == Pop(os)
<1>1. PICK pos, val, level :
        Holds(tk, vs, os, e, pos, val, level)
  BY DEF HasOperand
<1>2. m \in Nat /\ m - 1 \in Nat /\ m \in 1 .. m
  BY EmptySeq
<1>3. /\ Stacked(tk, vs, os, e, pos, val)
      /\ pos[m] < e /\ Len(vs) = val[m] + 1
      /\ Reads(level, SubSeq(tk, pos[m] + 1, e), Printed(vs[Len(vs)]))
  BY <1>1 DEF Holds
<1>4. Len(os2) = m - 1 /\ Stacked(tk, vs, os2, e, pos, val)
  BY <1>3, StackedPopped
<1>5. /\ pos[m] = pos[m - 1] + 1 /\ val[m] = val[m - 1] /\ tk[pos[m]] = "("
      /\ pos[m] \in Nat /\ pos[m - 1] \in Nat /\ val[m - 1] \in Nat
  <2>1. Pending(tk, vs, os[m], pos[m - 1], val[m - 1], pos[m], val[m])
    BY <1>2, <1>3 DEF Stacked
  <2>2. os[m] = "("
    BY DEF Top
  <2>3. pos[m] \in Nat /\ pos[m - 1] \in Nat /\ val[m - 1] \in Nat
    BY <1>2, <1>3 DEF Stacked
  <2> QED BY <2>1, <2>2, <2>3 DEF Pending
<1>55. level \in 1 .. 5
  BY <1>1 DEF Holds
<1> HIDE DEF m, os2
<1>6. Stacked(tk, vs, os2, e + 1, pos, val)
  <2>1. Len(os2) \in Nat /\ e + 1 \in Nat /\ e <= e + 1 /\ val[Len(os2)] <= Len(vs)
    BY <1>2, <1>3, <1>4, <1>5
  <2> QED BY <1>4, <2>1, StackedKept
<1>7. Reads(1, SubSeq(tk, pos[m] + 1, e), Printed(vs[Len(vs)]))
  <2>1. pos[m] + 1 \in 1 .. Len(tk) /\ e \in pos[m] + 1 .. Len(tk)
    BY <1>3, <1>5
  <2>2. 1 \in 1 .. level
    BY <1>55
  <2> QED BY <1>3, <1>55, <2>1, <2>2, SegmentLooser
<1>8. Reads(5, SubSeq(tk, pos[m - 1] + 1, e + 1), Printed(vs[Len(vs)]))
  <2>1. PICK i \in 1 .. Len(tk), j \in 1 .. Len(tk) :
          j \in i + 2 .. Len(tk) /\ i = pos[m] /\ j = e + 1 /\ j - 1 = e
    BY <1>3, <1>5
  <2>2. Reads(1, SubSeq(tk, i + 1, j - 1), Printed(vs[Len(vs)])) /\ tk[i] = "(" /\ tk[j] = ")"
    BY <1>5, <1>7, <2>1
  <2>3. Reads(5, SubSeq(tk, i, j), Printed(vs[Len(vs)]))
    BY <2>1, <2>2, ReadsParentheses
  <2> QED BY <1>5, <2>1, <2>3
<1>9. Holds(tk, vs, os2, e + 1, pos, val, 5)
  <2>1. LevelOf(Top(os2)) < 5
    <3>1. LevelOf(Top(os2)) \in 0 .. 4
      BY LevelOfOperator
    <3> QED BY <3>1
  <2>2. pos[m - 1] < e + 1 /\ Len(vs) = val[m - 1] + 1
    BY <1>3, <1>5
  <2> QED BY <1>4, <1>6, <1>8, <2>1, <2>2 DEF Holds
<1>10. HasOperand(tk, vs, os2, e + 1, 5)
  <2>1. 5 \in 1 .. 5 /\ 5 >= 5
    OBVIOUS
  <2> QED BY <1>1, <1>9, <2>1 DEF HasOperand
<1> QED BY <1>10 DEF os2

\* The two operands of the top operator are there, and what the top and
\* they read.
LEMMA TopReads ==
  ASSUME NEW tk \in Seq(Tokens), Len(tk) <= MAX_TOKENS, NEW S, NEW vs \in Seq(S),
         NEW T, NEW os \in Seq(T), os # << >>, Top(os) # "(",
         NEW e \in Nat, e <= Len(tk), NEW pos, NEW val, NEW level,
         Holds(tk, vs, os, e, pos, val, level)
  PROVE  /\ Len(vs) = val[Len(os) - 1] + 2 /\ val[Len(os) - 1] \in Nat
         /\ pos[Len(os) - 1] < e /\ pos[Len(os) - 1] \in Nat
         /\ LevelOf(Top(os)) \in 1 .. 4
         /\ Reads(LevelOf(Top(os)), SubSeq(tk, pos[Len(os) - 1] + 1, e),
                  Applied(Printed(Top(Pop(vs))), Printed(Top(vs)), Top(os)))
<1> DEFINE m == Len(os)
           op == Top(os)
           p == LevelOf(op)
<1>1. m \in Nat /\ m - 1 \in Nat /\ m \in 1 .. m /\ Len(vs) \in Nat
  BY EmptySeq, LenProperties
<1>2. /\ Stacked(tk, vs, os, e, pos, val) /\ level \in 1 .. 5 /\ p < level
      /\ pos[m] < e /\ Len(vs) = val[m] + 1
      /\ Reads(level, SubSeq(tk, pos[m] + 1, e), Printed(vs[Len(vs)]))
  BY DEF Holds
<1>3. pos[m] \in Nat /\ pos[m - 1] \in Nat /\ val[m - 1] \in Nat /\ val[m] \in Nat
  BY <1>1, <1>2 DEF Stacked
<1>4. Pending(tk, vs, op, pos[m - 1], val[m - 1], pos[m], val[m])
  BY <1>1, <1>2 DEF Stacked, Top
<1>5. /\ pos[m - 1] + 1 < pos[m] /\ tk[pos[m]] = op /\ val[m] = val[m - 1] + 1
      /\ op \in Operators /\ p \in 1 .. 4 /\ op \in Kinds[p]
      /\ Reads(p, SubSeq(tk, pos[m - 1] + 1, pos[m] - 1), Printed(vs[val[m]]))
  BY <1>4 DEF Pending
<1>51. /\ pos[m] < e /\ Len(vs) = val[m] + 1 /\ p < level /\ level \in 1 .. 5
       /\ pos[m - 1] + 1 < pos[m] /\ val[m] = val[m - 1] + 1 /\ p \in 1 .. 4
  BY <1>2, <1>5
<1>52. e \in Nat /\ Len(tk) \in Nat /\ e <= Len(tk)
  BY LenProperties
<1>6. Top(vs) = vs[Len(vs)] /\ Top(Pop(vs)) = vs[val[m]]
  <2>1. Len(vs) # 0 /\ Len(vs) - 1 = val[m] /\ val[m] \in 1 .. Len(vs) - 1
    BY ONLY <1>3, <1>51, SMTT(40)
  <2>2. vs # << >>
    BY <2>1, EmptySeq
  <2>3. Len(Pop(vs)) = val[m] /\ Pop(vs)[val[m]] = vs[val[m]]
    BY <2>1, <2>2, PopType
  <2> QED BY <2>3 DEF Top
<1> HIDE DEF m, p, op
<1>7. Reads(p + 1, SubSeq(tk, pos[m] + 1, e), Printed(vs[Len(vs)]))
  <2>1. pos[m] + 1 \in 1 .. Len(tk) /\ e \in pos[m] + 1 .. Len(tk)
    BY ONLY <1>3, <1>51, <1>52, SMTT(40)
  <2>2. p + 1 \in 1 .. 5 /\ p + 1 \in 1 .. level
    BY <1>51
  <2> QED BY <1>2, <2>1, <2>2, SegmentLooser
<1>8. Reads(p, SubSeq(tk, pos[m - 1] + 1, e),
            Applied(Printed(vs[val[m]]), Printed(vs[Len(vs)]), op))
  <2>1. PICK i \in 1 .. Len(tk), k \in 1 .. Len(tk), j \in 1 .. Len(tk) :
          /\ i = pos[m - 1] + 1 /\ k = pos[m] /\ j = e
          /\ k \in i + 1 .. Len(tk) /\ j \in k + 1 .. Len(tk)
    <3>1. /\ pos[m - 1] + 1 \in 1 .. Len(tk) /\ pos[m] \in 1 .. Len(tk) /\ e \in 1 .. Len(tk)
          /\ pos[m] \in pos[m - 1] + 1 + 1 .. Len(tk) /\ e \in pos[m] + 1 .. Len(tk)
      BY ONLY <1>3, <1>51, <1>52, SMTT(40)
    <3> QED BY <3>1
  <2>2. /\ Reads(p, SubSeq(tk, i, k - 1), Printed(vs[val[m]]))
        /\ Reads(p + 1, SubSeq(tk, k + 1, j), Printed(vs[Len(vs)]))
        /\ tk[k] = op
    BY <1>5, <1>7, <2>1
  <2>3. Reads(p, SubSeq(tk, i, j), Applied(Printed(vs[val[m]]), Printed(vs[Len(vs)]), op))
    BY <1>5, <2>1, <2>2, ReadsOperator
  <2> QED BY <2>1, <2>3
<1>9. Len(vs) = val[m - 1] + 2 /\ pos[m - 1] < e
  BY ONLY <1>3, <1>51, <1>52, SMTT(40)
<1> QED BY <1>3, <1>5, <1>6, <1>8, <1>9 DEF m, p, op

\* The two top values give way to one.
LEMMA Replaced ==
  ASSUME NEW S, NEW vs \in Seq(S), Len(vs) >= 2, NEW r
  PROVE  /\ Len(Append(Pop(Pop(vs)), r)) = Len(vs) - 1
         /\ Append(Pop(Pop(vs)), r)[Len(vs) - 1] = r
         /\ \A k \in 1 .. Len(vs) - 2 : Append(Pop(Pop(vs)), r)[k] = vs[k]
<1> DEFINE n == Len(vs) - 2
           u == Pop(vs)
           w == Pop(u)
<1>1. vs # << >> /\ Len(vs) - 1 = n + 1 /\ n \in Nat
  BY EmptySeq, LenProperties
<1> HIDE DEF n
<1>2. u \in Seq(S) /\ Len(u) = n + 1 /\ \A k \in 1 .. n + 1 : u[k] = vs[k]
  BY <1>1, PopType
<1> HIDE DEF u
<1>3. u # << >> /\ Len(u) - 1 = n
  BY <1>1, <1>2, EmptySeq
<1>4. w \in Seq(S) /\ Len(w) = n /\ \A k \in 1 .. n : w[k] = u[k]
  BY <1>2, <1>3, PopType
<1> HIDE DEF w
<1>5. w \in Seq(S \cup {r}) /\ r \in S \cup {r}
  BY <1>4
<1>6. Len(Append(w, r)) = n + 1 /\ Append(w, r)[n + 1] = r /\ \A k \in 1 .. n : Append(w, r)[k] = w[k]
  BY <1>4, <1>5, AppendProperties
<1>7. \A k \in 1 .. n : Append(w, r)[k] = vs[k]
  BY <1>2, <1>4, <1>6
<1> QED BY <1>1, <1>6, <1>7 DEF w, u, n

\* Above a parenthesis the operators bind ever more tightly.
Discipline(os) ==
  \A k \in 2 .. Len(os) : os[k] # "(" => get_precedence(os[k - 1]) < get_precedence(os[k])

\* Applying the top operator.
LEMMA TopApplied ==
  ASSUME NEW tk \in Seq(Tokens), Len(tk) <= MAX_TOKENS, NEW S, NEW vs \in Seq(S),
         NEW T, NEW os \in Seq(T), os # << >>, Top(os) # "(",
         Discipline(os),
         NEW e \in Nat, e <= Len(tk), NEW least, HasOperand(tk, vs, os, e, least)
  PROVE  /\ Len(vs) >= 2
         /\ Fault(Top(Pop(vs)), Top(vs), Top(os)) = "none" =>
              HasOperand(tk, Append(Pop(Pop(vs)), apply_op(Top(Pop(vs)), Top(vs), Top(os))), Pop(os), e,
                         LevelOf(Top(os)))
<1> DEFINE m == Len(os)
           os2 == Pop(os)
           p == LevelOf(Top(os))
           r == apply_op(Top(Pop(vs)), Top(vs), Top(os))
           vs2 == Append(Pop(Pop(vs)), r)
<1>1. PICK pos, val, level : Holds(tk, vs, os, e, pos, val, level)
  BY DEF HasOperand
<1>2. /\ Len(vs) = val[m - 1] + 2 /\ val[m - 1] \in Nat
      /\ pos[m - 1] < e /\ pos[m - 1] \in Nat /\ p \in 1 .. 4
      /\ Reads(p, SubSeq(tk, pos[m - 1] + 1, e),
               Applied(Printed(Top(Pop(vs))), Printed(Top(vs)), Top(os)))
  BY <1>1, TopReads
<1>21. Len(vs) = val[m - 1] + 2 /\ val[m - 1] \in Nat
  BY <1>2
<1>3. m \in Nat /\ m - 1 \in Nat
  BY EmptySeq
<1>4. Len(vs) >= 2
  BY <1>2
<1>5. ASSUME Fault(Top(Pop(vs)), Top(vs), Top(os)) = "none"
      PROVE  HasOperand(tk, vs2, os2, e, p)
  <2>1. Applied(Printed(Top(Pop(vs))), Printed(Top(vs)), Top(os)) = Printed(r)
    BY <1>5 DEF Applied, Printed
  <2>2. /\ Len(vs2) = val[m - 1] + 1 /\ vs2[Len(vs2)] = r
        /\ \A k \in 1 .. val[m - 1] : vs2[k] = vs[k]
    <3> HIDE DEF r
    <3>1. /\ Len(vs2) = Len(vs) - 1 /\ vs2[Len(vs) - 1] = r
          /\ \A k \in 1 .. Len(vs) - 2 : vs2[k] = vs[k]
      BY <1>4, Replaced
    <3>2. Len(vs) - 1 = val[m - 1] + 1 /\ Len(vs) - 2 = val[m - 1]
      BY ONLY <1>21
    <3> HIDE DEF vs2
    <3> QED BY <3>1, <3>2
  <2>3. Len(os2) = m - 1 /\ \A k \in 1 .. m - 1 : os2[k] = os[k]
    BY PopType
  <2>4. os2 # << >> => LevelOf(Top(os2)) < p
    <3>1. os2 # << >> => m \in 2 .. m /\ Top(os2) = os[m - 1]
      BY <1>3, <2>3, EmptySeq DEF Top
    <3>2. os2 # << >> => get_precedence(Top(os2)) < get_precedence(Top(os))
      BY <1>3, <3>1 DEF Top, Discipline
    <3>3. get_precedence(Top(os2)) \in -1 .. 3 /\ get_precedence(Top(os)) \in -1 .. 3
      BY PrecedenceType
    <3>4. p = get_precedence(Top(os)) + 1 /\ LevelOf(Top(os2)) = get_precedence(Top(os2)) + 1
      BY DEF LevelOf
    <3> QED BY <3>2, <3>3, <3>4
  <2>5. Stacked(tk, vs, os2, e, pos, val)
    <3>1. Stacked(tk, vs, os, e, pos, val) /\ Len(vs) \in Nat
      BY <1>1, LenProperties DEF Holds
    <3> QED BY <3>1, StackedPopped
  <2> HIDE DEF m, os2, vs2, r, p
  <2>6. Stacked(tk, vs2, os2, e, pos, val)
    <3>1. Len(os2) \in Nat /\ e <= e /\ val[Len(os2)] <= Len(vs2)
      BY <1>2, <1>3, <2>2, <2>3
    <3>2. \A k \in 1 .. val[Len(os2)] : vs2[k] = vs[k]
      BY <2>2, <2>3
    <3> QED BY <2>5, <3>1, <3>2, StackedKept
  <2>7. Holds(tk, vs2, os2, e, pos, val, p)
    <3>1. p \in 1 .. 5
      BY <1>2
    <3> QED BY <1>2, <2>1, <2>2, <2>3, <2>4, <2>6, <3>1 DEF Holds
  <2>8. p >= p
    BY <1>2
  <2> QED BY <2>7, <2>8 DEF HasOperand
<1> QED BY <1>4, <1>5

\* The whole expression has the value that is left.
LEMMA ResultRead ==
  ASSUME NEW tk \in Seq(Tokens), Len(tk) <= MAX_TOKENS, NEW vs, NEW least,
         HasOperand(tk, vs, << >>, Len(tk), least)
  PROVE  Len(vs) = 1 /\ Reads(1, tk, Printed(vs[1]))
<1>1. PICK pos, val, level : Holds(tk, vs, << >>, Len(tk), pos, val, level)
  BY DEF HasOperand
<1>2. Len(<< >>) = 0
  BY EmptySeq
<1>3. /\ 0 < Len(tk) /\ Len(vs) = 1 /\ level \in 1 .. 5
      /\ Reads(level, SubSeq(tk, 1, Len(tk)), Printed(vs[1]))
  BY <1>1, <1>2 DEF Holds, Stacked
<1>4. SubSeq(tk, 1, Len(tk)) = tk
  BY SubSeqFull
<1>5. Len(tk) \in 1 .. MAX_TOKENS /\ 1 \in 1 .. level
  BY <1>3, LenProperties, CalcConstants
<1> QED BY <1>3, <1>4, <1>5, ReadsLooser

\* A set of numbers has a least one.
LEMMA LeastNatural ==
  ASSUME NEW T \in SUBSET Nat, T # {}
  PROVE  \E x \in T : \A y \in T : x <= y
<1> DEFINE R == OpToRel(<, Nat)
<1>1. IsWellFoundedOn(R, Nat)
  BY NatLessThanWellFounded
<1>2. \A x, y \in Nat : x < y => <<x, y>> \in R
  BY DEF OpToRel
<1> HIDE DEF R
<1>3. PICK x \in T : \A y \in T : ~ (<<y, x>> \in R)
  BY <1>1, WFMin
<1>4. \A y \in T : x <= y
  <2> TAKE y \in T
  <2>1. x \in Nat /\ y \in Nat
    OBVIOUS
  <2>2. ~(y < x)
    BY <1>2, <1>3, <2>1
  <2> QED BY ONLY <2>1, <2>2
<1> QED BY <1>4

\* An error goes down the stack: what is under the operands that failed has
\* already been read without one.
LEMMA FaultSpreads ==
  ASSUME NEW tk \in Seq(Tokens), Len(tk) <= MAX_TOKENS, NEW vs, NEW os,
         NEW e \in Nat, e <= Len(tk), NEW pos, NEW val, Stacked(tk, vs, os, e, pos, val),
         NEW fault, fault # "printed",
         NEW j \in 1 .. Len(os), os[j] # "(", pos[j] < e,
         NEW q \in 1 .. 5, LevelOf(os[j]) < q, Reads(q, SubSeq(tk, pos[j] + 1, e), Failed(fault))
  PROVE  /\ LevelOf(os[j]) \in 1 .. 4 /\ pos[j - 1] < e
         /\ Reads(LevelOf(os[j]), SubSeq(tk, pos[j - 1] + 1, e), Failed(fault))
<1> DEFINE op == os[j]
           p == LevelOf(op)
<1>1. Pending(tk, vs, op, pos[j - 1], val[j - 1], pos[j], val[j])
  BY DEF Stacked
<1>2. pos[j] \in Nat /\ pos[j - 1] \in Nat
  <2>1. j \in Nat /\ j - 1 \in Nat
    OBVIOUS
  <2> QED BY <2>1 DEF Stacked
<1>3. /\ pos[j - 1] + 1 < pos[j] /\ tk[pos[j]] = op
      /\ op \in Operators /\ p \in 1 .. 4 /\ op \in Kinds[p]
      /\ Reads(p, SubSeq(tk, pos[j - 1] + 1, pos[j] - 1), Printed(vs[val[j]]))
  BY <1>1 DEF Pending
<1>4. pos[j - 1] + 1 < pos[j] /\ p \in 1 .. 4 /\ p < q
  BY <1>3
<1> HIDE DEF op, p
<1>5. Reads(p + 1, SubSeq(tk, pos[j] + 1, e), Failed(fault))
  <2>1. pos[j] + 1 \in 1 .. Len(tk) /\ e \in pos[j] + 1 .. Len(tk)
    BY <1>2
  <2>2. p + 1 \in 1 .. q
    BY <1>4
  <2> QED BY <2>1, <2>2, SegmentLooser
<1>6. Applied(Printed(vs[val[j]]), Failed(fault), op) = Failed(fault)
  BY DEF Applied, Printed, Failed
<1>7. Reads(p, SubSeq(tk, pos[j - 1] + 1, e), Failed(fault))
  <2>1. PICK i \in 1 .. Len(tk), k \in 1 .. Len(tk), l \in 1 .. Len(tk) :
          /\ i = pos[j - 1] + 1 /\ k = pos[j] /\ l = e
          /\ k \in i + 1 .. Len(tk) /\ l \in k + 1 .. Len(tk)
    <3>1. /\ pos[j - 1] + 1 \in 1 .. Len(tk) /\ pos[j] \in 1 .. Len(tk) /\ e \in 1 .. Len(tk)
          /\ pos[j] \in pos[j - 1] + 1 + 1 .. Len(tk) /\ e \in pos[j] + 1 .. Len(tk)
      <4>1. pos[j] < e /\ Len(tk) \in Nat
        BY LenProperties
      <4>2. /\ pos[j - 1] + 1 \in Nat /\ 1 <= pos[j - 1] + 1 /\ pos[j - 1] + 1 < pos[j]
            /\ pos[j] \in Nat /\ pos[j] < Len(tk)
        BY ONLY <1>2, <1>4, <4>1, e \in Nat, e <= Len(tk)
      <4> QED BY ONLY <4>1, <4>2, e \in Nat, e <= Len(tk)
    <3> QED BY <3>1
  <2>2. /\ Reads(p, SubSeq(tk, i, k - 1), Printed(vs[val[j]]))
        /\ Reads(p + 1, SubSeq(tk, k + 1, l), Failed(fault))
        /\ tk[k] = op
    BY <1>3, <1>5, <2>1
  <2>3. Reads(p, SubSeq(tk, i, l), Applied(Printed(vs[val[j]]), Failed(fault), op))
    BY <1>3, <2>1, <2>2, ReadsOperator
  <2> QED BY <1>6, <2>1, <2>3
<1>8. pos[j - 1] < e
  BY <1>2, <1>4
<1> QED BY <1>4, <1>7, <1>8 DEF p, op

\* The operands of the top fail: so does the whole expression.
LEMMA FaultReported ==
  ASSUME NEW tk \in Seq(Tokens), Len(tk) <= MAX_TOKENS, NEW S, NEW vs \in Seq(S),
         NEW T, NEW os \in Seq(T), os # << >>,
         \A k \in 1 .. Len(os) : os[k] # "(",
         Discipline(os),
         NEW least, HasOperand(tk, vs, os, Len(tk), least),
         NEW fault, fault = Fault(Top(Pop(vs)), Top(vs), Top(os)), fault # "none"
  PROVE  Reads(1, tk, Failed(fault))
<1> DEFINE m == Len(os)
           e == Len(tk)
<1>1. PICK pos, val, level : Holds(tk, vs, os, e, pos, val, level)
  BY DEF HasOperand
<1>2. m \in Nat /\ m - 1 \in Nat /\ m \in 1 .. m /\ e \in Nat /\ e <= e
  BY EmptySeq, LenProperties
<1>3. Top(os) = os[m] /\ os[m] # "("
  BY <1>2 DEF Top
<1>4. Stacked(tk, vs, os, e, pos, val) /\ pos[0] = 0
  BY <1>1 DEF Holds, Stacked
<1>5. /\ pos[m - 1] < e /\ LevelOf(os[m]) \in 1 .. 4
      /\ Reads(LevelOf(os[m]), SubSeq(tk, pos[m - 1] + 1, e),
               Applied(Printed(Top(Pop(vs))), Printed(Top(vs)), Top(os)))
  BY <1>1, <1>2, <1>3, TopReads
<1>6. Applied(Printed(Top(Pop(vs))), Printed(Top(vs)), Top(os)) = Failed(fault)
  BY DEF Applied, Printed
<1>7. fault # "printed"
  BY DEF Fault
<1>8. \A k \in 2 .. m : LevelOf(os[k - 1]) < LevelOf(os[k])
  <2> TAKE k \in 2 .. m
  <2>1. get_precedence(os[k - 1]) < get_precedence(os[k])
    BY <1>2 DEF Discipline
  <2>2. get_precedence(os[k - 1]) \in -1 .. 3 /\ get_precedence(os[k]) \in -1 .. 3
    BY PrecedenceType
  <2> QED BY <2>1, <2>2 DEF LevelOf
<1> DEFINE fails(j, q) == Reads(q, SubSeq(tk, pos[j] + 1, e), Failed(fault))
           F == {j \in 0 .. m - 1 : /\ pos[j] < e
                                    /\ \E q \in 1 .. 5 : (j # 0 => LevelOf(os[j]) < q) /\ fails(j, q)}
<1> HIDE DEF m, e
<1>9. m - 1 \in F
  <2>1. fails(m - 1, LevelOf(os[m]))
    BY <1>5, <1>6
  <2>2. m - 1 # 0 => LevelOf(os[m - 1]) < LevelOf(os[m])
    BY <1>2, <1>8
  <2>3. LevelOf(os[m]) \in 1 .. 5 /\ m - 1 \in 0 .. m - 1
    BY <1>2, <1>5
  <2> HIDE DEF fails
  <2> QED BY <1>5, <2>1, <2>2, <2>3
<1>10. PICK x \in F : \A y \in F : x <= y
  <2>1. F \in SUBSET Nat /\ F # {}
    <3>1. F \subseteq 0 .. m - 1 /\ 0 .. m - 1 \subseteq Nat
      BY <1>2
    <3> HIDE DEF F
    <3> QED BY <1>9, <3>1
  <2> HIDE DEF F
  <2> QED BY <2>1, LeastNatural
<1>11. x \in 0 .. m - 1 /\ pos[x] < e
  OBVIOUS
<1>12. PICK q \in 1 .. 5 : (x # 0 => LevelOf(os[x]) < q) /\ fails(x, q)
  OBVIOUS
<1>13. x = 0
  <2> SUFFICES ASSUME x # 0 PROVE FALSE
    OBVIOUS
  <2>1. x \in 1 .. m /\ x - 1 \in 0 .. m - 1
    BY <1>2, <1>11
  <2>2. /\ LevelOf(os[x]) \in 1 .. 4 /\ pos[x - 1] < e
        /\ fails(x - 1, LevelOf(os[x]))
    <3>1. PICK j \in 1 .. Len(os), n \in Nat : j = x /\ n = Len(tk)
      BY <1>2, <2>1 DEF m, e
    <3>2. /\ LevelOf(os[j]) < q /\ pos[j] < n /\ os[j] # "(" /\ n <= Len(tk)
          /\ Reads(q, SubSeq(tk, pos[j] + 1, n), Failed(fault))
          /\ Stacked(tk, vs, os, n, pos, val)
      BY <1>4, <1>11, <1>12, <2>1, <3>1 DEF m, e
    <3> HIDE DEF F
    <3>3. /\ LevelOf(os[j]) \in 1 .. 4 /\ pos[j - 1] < n
          /\ Reads(LevelOf(os[j]), SubSeq(tk, pos[j - 1] + 1, n), Failed(fault))
      BY ONLY <1>7, <3>2, FaultSpreads, tk \in Seq(Tokens), Len(tk) <= MAX_TOKENS,
              j \in 1 .. Len(os), n \in Nat, q \in 1 .. 5
    <3> QED BY <3>1, <3>3 DEF e
  <2>3. x - 1 # 0 => LevelOf(os[x - 1]) < LevelOf(os[x])
    <3>1. x - 1 # 0 => x \in 2 .. m
      BY <2>1
    <3> QED BY <1>8, <3>1
  <2>4. LevelOf(os[x]) \in 1 .. 5
    BY <2>2
  <2> HIDE DEF fails
  <2>5. x - 1 \in F
    BY <2>1, <2>2, <2>3, <2>4
  <2> HIDE DEF F
  <2>6. x <= x - 1
    BY <1>10, <2>5
  <2> QED BY <1>11, <2>6
<1>14. Reads(q, SubSeq(tk, 1, e), Failed(fault)) /\ 0 < e
  BY <1>4, <1>11, <1>12, <1>13
<1>15. SubSeq(tk, 1, e) = tk
  BY SubSeqFull DEF e
<1>16. 1 \in 1 .. Len(tk) /\ e \in 1 .. Len(tk) /\ 1 \in 1 .. q
  BY <1>2, <1>14 DEF e
<1>17. Reads(1, SubSeq(tk, 1, e), Failed(fault))
  BY <1>14, <1>16, SegmentLooser
<1> QED BY <1>15, <1>17

-----------------------------------------------------------------------------
(***************************************************************************)
(* The stacks after every step                                             *)
(***************************************************************************)
\* The token that applies operators is not dealt with yet, and demands of the
\* operand to its left that it binds at least as tightly.
Handled(tk, cur) == IF cur \in {"none", "end"} THEN Len(tk) ELSE Len(tk) - 1
Least(cur) == IF cur = "none" THEN 5 ELSE IF cur \in Operators THEN LevelOf(cur) ELSE 1

ReadsTokens(tk, vs, os, cur) ==
  Prefix(tk) /\ KnownOperators(tk) /\ (cur = "end" => WellFormed(tk)) =>
    /\ IF cur = "none" /\ (tk = << >> \/ ~OperandEnds(tk[Len(tk)]))
         THEN ExpectsOperand(tk, vs, os, Len(tk))
         ELSE HasOperand(tk, vs, os, Handled(tk, cur), Least(cur))
    /\ Cardinality(Places(os, "(")) = Depth(tk) + (IF cur = ")" THEN 1 ELSE 0)

Stack == Seq(Operators \cup {"("})

\* The characters that are not operators.
LEMMA Characters ==
  /\ \A op \in Operators : /\ op \notin {"(", ")", "end", "none"}
                           /\ ~OperandStarts(op) /\ ~OperandEnds(op)
  /\ \A t \in Numerals : t \notin {"(", ")", "end", "none"} /\ OperandStarts(t) /\ OperandEnds(t)
  /\ OperandStarts("(") /\ ~OperandEnds("(") /\ ~OperandStarts(")") /\ OperandEnds(")")
  /\ "(" \in Tokens /\ ")" \in Tokens /\ Numerals \subseteq Tokens /\ Operators \subseteq Tokens
BY CalcConstants DEF OperandStarts, OperandEnds, Tokens

\* Appending to a sequence.
LEMMA LastAppended ==
  ASSUME NEW S, NEW s \in Seq(S), NEW t \in S
  PROVE  /\ Append(s, t) \in Seq(S) /\ Append(s, t) # << >>
         /\ Len(Append(s, t)) = Len(s) + 1 /\ Len(s) \in Nat
         /\ Append(s, t)[Len(Append(s, t))] = t
<1>1. Append(s, t) \in Seq(S) /\ Len(Append(s, t)) = Len(s) + 1 /\ Append(s, t)[Len(s) + 1] = t
  BY AppendProperties
<1>2. Len(s) \in Nat
  BY LenProperties
<1>3. Append(s, t) # << >>
  BY <1>1, <1>2, EmptySeq
<1> QED BY <1>1, <1>2, <1>3

\* One lemma for each action: the reading before it gives the one after it.
LEMMA OpenRead ==
  ASSUME NEW tk \in Seq(Tokens), NEW S, NEW vs \in Seq(S), NEW os \in Stack,
         ReadsTokens(tk, vs, os, "none")
  PROVE  ReadsTokens(Append(tk, "("), vs, Append(os, "("), "none")
<1> DEFINE tk2 == Append(tk, "(")
           os2 == Append(os, "(")
<1> SUFFICES ASSUME Prefix(tk2), KnownOperators(tk2)
             PROVE  /\ IF tk2 = << >> \/ ~OperandEnds(tk2[Len(tk2)])
                         THEN ExpectsOperand(tk2, vs, os2, Len(tk2))
                         ELSE HasOperand(tk2, vs, os2, Handled(tk2, "none"), Least("none"))
                    /\ Cardinality(Places(os2, "(")) = Depth(tk2) + 0
  BY DEF ReadsTokens
<1>1. "(" \in Tokens /\ OperandStarts("(") /\ ~OperandEnds("(")
  BY Characters
<1>2. Prefix(tk) /\ KnownOperators(tk) /\ (tk = << >> \/ ~OperandEnds(tk[Len(tk)]))
  BY <1>1, PrefixAppended, KnownAppended
<1>3. ExpectsOperand(tk, vs, os, Len(tk)) /\ Cardinality(Places(os, "(")) = Depth(tk) + 0
  BY <1>2 DEF ReadsTokens
<1>4. Len(tk2) = Len(tk) + 1 /\ tk2[Len(tk2)] = "("
  BY <1>1, LastAppended
<1>5. "(" \in Operators \cup {"("} /\ os \in Seq(Operators \cup {"("})
  BY DEF Stack
<1>6. ExpectsOperand(tk2, vs, os2, Len(tk2))
  BY <1>3, <1>4, <1>5, Opened
<1>7. /\ Cardinality(Places(os2, "(")) = Cardinality(Places(os, "(")) + 1
      /\ Depth(tk2) = Depth(tk) + 1 /\ Depth(tk) \in Int
      /\ Cardinality(Places(os, "(")) \in Nat
  BY <1>1, <1>5, PlacesAppended, PlacesFinite, DepthAppended
<1> QED BY <1>1, <1>3, <1>4, <1>6, <1>7

LEMMA NumeralRead ==
  ASSUME NEW tk \in Seq(Tokens), NEW S, NEW vs \in Seq(S), NEW os \in Stack,
         ReadsTokens(tk, vs, os, "none"), NEW t \in Numerals
  PROVE  ReadsTokens(Append(tk, t), Append(vs, Value[t]), os, "none")
<1> DEFINE tk2 == Append(tk, t)
           vs2 == Append(vs, Value[t])
<1> SUFFICES ASSUME Prefix(tk2), KnownOperators(tk2)
             PROVE  /\ IF tk2 = << >> \/ ~OperandEnds(tk2[Len(tk2)])
                         THEN ExpectsOperand(tk2, vs2, os, Len(tk2))
                         ELSE HasOperand(tk2, vs2, os, Handled(tk2, "none"), Least("none"))
                    /\ Cardinality(Places(os, "(")) = Depth(tk2) + 0
  BY DEF ReadsTokens
<1>1. t \in Tokens /\ OperandStarts(t) /\ OperandEnds(t) /\ t \notin {"(", ")"}
  BY Characters
<1>2. Prefix(tk) /\ KnownOperators(tk) /\ (tk = << >> \/ ~OperandEnds(tk[Len(tk)]))
  BY <1>1, PrefixAppended, KnownAppended
<1>3. ExpectsOperand(tk, vs, os, Len(tk)) /\ Cardinality(Places(os, "(")) = Depth(tk) + 0
  BY <1>2 DEF ReadsTokens
<1>4. Len(tk2) = Len(tk) + 1 /\ tk2[Len(tk2)] = t /\ tk2 # << >>
  BY <1>1, LastAppended
<1>5. vs \in Seq(S \cup {Value[t]}) /\ Value[t] \in S \cup {Value[t]} /\ os \in Seq(Operators \cup {"("})
  BY DEF Stack
<1>6. HasOperand(tk2, vs2, os, Len(tk2), 5)
  BY <1>3, <1>4, <1>5, NumberRead
<1>7. Depth(tk2) = Depth(tk) /\ Depth(tk) \in Int
  BY <1>1, DepthAppended
<1>8. Handled(tk2, "none") = Len(tk2) /\ Least("none") = 5
  BY DEF Handled, Least
<1> QED BY <1>1, <1>3, <1>4, <1>6, <1>7, <1>8

LEMMA OperatorOrCloseRead ==
  ASSUME NEW tk \in Seq(Tokens), NEW S, NEW vs \in Seq(S), NEW os \in Stack,
         ReadsTokens(tk, vs, os, "none"), NEW t \in Operators \cup {")"}
  PROVE  ReadsTokens(Append(tk, t), vs, os, t)
<1> DEFINE tk2 == Append(tk, t)
<1>1. t \in Tokens /\ ~OperandStarts(t) /\ t \notin {"(", "end", "none"}
  BY Characters
<1> SUFFICES ASSUME Prefix(tk2), KnownOperators(tk2)
             PROVE  /\ HasOperand(tk2, vs, os, Handled(tk2, t), Least(t))
                    /\ Cardinality(Places(os, "(")) = Depth(tk2) + (IF t = ")" THEN 1 ELSE 0)
  BY <1>1 DEF ReadsTokens
<1>2. /\ Prefix(tk) /\ KnownOperators(tk) /\ ~(tk = << >> \/ ~OperandEnds(tk[Len(tk)]))
      /\ t \in Operators => \E p \in 1 .. 4 : t \in Kinds[p]
  BY <1>1, PrefixAppended, KnownAppended
<1>3. /\ HasOperand(tk, vs, os, Handled(tk, "none"), Least("none"))
      /\ Cardinality(Places(os, "(")) = Depth(tk) + 0
  BY <1>2 DEF ReadsTokens
<1>4. Handled(tk, "none") = Len(tk) /\ Least("none") = 5
  BY DEF Handled, Least
<1>5. Least(t) \in 1 .. 5
  <2>1. t \in Operators => LevelOf(t) \in 1 .. 4
    BY <1>2, LevelOfOperator
  <2> QED BY <1>1, <2>1 DEF Least
<1>6. Len(tk2) = Len(tk) + 1 /\ Len(tk) \in Nat /\ Len(vs) \in Nat /\ os \in Seq(Operators \cup {"("})
  BY <1>1, LastAppended, LenProperties DEF Stack
<1>7. HasOperand(tk2, vs, os, Len(tk), Least(t))
  BY <1>1, <1>3, <1>4, <1>5, <1>6, OperandKept
<1>8. Handled(tk2, t) = Len(tk)
  BY <1>1, <1>6 DEF Handled
<1>9. Depth(tk2) = Depth(tk) + (IF t = ")" THEN -1 ELSE 0) /\ Depth(tk) \in Int
  BY <1>1, DepthAppended
<1> QED BY <1>3, <1>7, <1>8, <1>9

LEMMA EndRead ==
  ASSUME NEW tk \in Seq(Tokens), NEW S, NEW vs \in Seq(S), NEW os \in Stack,
         ReadsTokens(tk, vs, os, "none")
  PROVE  ReadsTokens(tk, vs, os, "end")
<1> SUFFICES ASSUME WellFormed(tk), KnownOperators(tk)
             PROVE  /\ HasOperand(tk, vs, os, Handled(tk, "end"), Least("end"))
                    /\ Cardinality(Places(os, "(")) = Depth(tk) + 0
  BY DEF ReadsTokens
<1>1. Prefix(tk) /\ tk # << >> /\ OperandEnds(tk[Len(tk)])
  BY DEF WellFormed
<1>2. /\ HasOperand(tk, vs, os, Handled(tk, "none"), Least("none"))
      /\ Cardinality(Places(os, "(")) = Depth(tk) + 0
  BY <1>1 DEF ReadsTokens
<1>3. "end" \notin Operators
  BY Characters
<1>4. /\ Handled(tk, "none") = Len(tk) /\ Least("none") = 5
      /\ Handled(tk, "end") = Len(tk) /\ Least("end") = 1
  BY <1>3 DEF Handled, Least
<1>5. HasOperand(tk, vs, os, Len(tk), 1)
  <2>1. os \in Seq(Operators \cup {"("}) /\ Len(vs) \in Nat /\ 1 \in 1 .. 5
    BY LenProperties DEF Stack
  <2> QED BY <1>2, <1>4, <2>1, OperandKept
<1> QED BY <1>2, <1>4, <1>5

\* A stack is what is under its top, and the top.
LEMMA PlacesPopped ==
  ASSUME NEW S, NEW s \in Seq(S), s # << >>, NEW c
  PROVE  /\ Pop(s) \in Seq(S)
         /\ Cardinality(Places(Pop(s), c)) \in Nat
         /\ Cardinality(Places(s, c)) =
              Cardinality(Places(Pop(s), c)) + (IF Top(s) = c THEN 1 ELSE 0)
<1>1. /\ Pop(s) \in Seq(S) /\ Len(Pop(s)) = Len(s) - 1
      /\ \A k \in 1 .. Len(s) - 1 : Pop(s)[k] = s[k]
  BY PopType
<1>2. Len(s) \in Nat /\ Len(s) \in 1 .. Len(s) /\ Len(s) - 1 \in Nat
  BY EmptySeq
<1>3. Top(s) \in S
  BY <1>2, ElementOfSeq DEF Top
<1> DEFINE u == Append(Pop(s), Top(s))
<1>4. /\ u \in Seq(S) /\ Len(u) = Len(s)
      /\ \A k \in 1 .. Len(s) - 1 : u[k] = s[k]
      /\ u[Len(s)] = Top(s)
  BY <1>1, <1>2, <1>3, AppendProperties
<1>5. u = s
  <2>1. \A k \in 1 .. Len(s) : u[k] = s[k]
    <3>1. u[Len(s)] = s[Len(s)]
      BY <1>4 DEF Top
    <3>2. \A k \in 1 .. Len(s) : k \in 1 .. Len(s) - 1 \/ k = Len(s)
      BY <1>2
    <3> HIDE DEF u
    <3> QED BY <1>4, <3>1, <3>2
  <2> HIDE DEF u
  <2> QED BY <1>4, <2>1, SeqEqual
<1>6. Cardinality(Places(u, c)) = Cardinality(Places(Pop(s), c)) + (IF Top(s) = c THEN 1 ELSE 0)
  BY <1>1, <1>3, PlacesAppended
<1>7. Cardinality(Places(Pop(s), c)) \in Nat
  BY <1>1, PlacesFinite
<1> QED BY <1>1, <1>5, <1>6, <1>7

\* No element is c when none is counted.
LEMMA NoPlaces ==
  ASSUME NEW S, NEW s \in Seq(S), NEW c, Cardinality(Places(s, c)) = 0
  PROVE  \A k \in 1 .. Len(s) : s[k] # c
<1>1. Places(s, c) = {}
  BY PlacesFinite, FS_EmptySet
<1>2. DOMAIN s = 1 .. Len(s)
  BY LenProperties
<1> QED BY <1>1, <1>2 DEF Places

\* The start of an expression closes no parenthesis too many.
LEMMA PrefixDepth ==
  ASSUME NEW tk \in Seq(Tokens), Prefix(tk), tk # << >>
  PROVE  Depth(tk) >= 0
<1>1. Len(tk) \in 1 .. Len(tk) /\ DOMAIN tk = 1 .. Len(tk)
  BY EmptySeq, LenProperties
<1>2. SubSeq(tk, 1, Len(tk)) = tk
  BY SubSeqFull
<1>3. Depth(SubSeq(tk, 1, Len(tk))) >= 0
  BY <1>1 DEF Prefix
<1> QED BY <1>2, <1>3

\* A looser demand on the operand.
LEMMA OperandLooser ==
  ASSUME NEW tk, NEW vs, NEW os, NEW e, NEW more \in 0 .. 5, NEW least \in 0 .. more,
         HasOperand(tk, vs, os, e, more)
  PROVE  HasOperand(tk, vs, os, e, least)
<1>1. PICK pos, val, level : level >= more /\ Holds(tk, vs, os, e, pos, val, level)
  BY DEF HasOperand
<1>2. level \in 1 .. 5
  BY <1>1 DEF Holds
<1>3. level >= least
  BY <1>1, <1>2
<1> QED BY <1>1, <1>3 DEF HasOperand

\* Whatever starts the loop, the top it applies is an operator with two
\* operands.
LEMMA AppliesOperator ==
  ASSUME NEW tk \in Seq(Tokens), Prefix(tk), KnownOperators(tk), Len(tk) <= MAX_TOKENS,
         NEW S, NEW vs \in Seq(S), NEW os \in Stack, os # << >>, Discipline(os),
         NEW cur \in Operators \cup {")", "end"},
         cur # "end" => tk # << >> /\ tk[Len(tk)] = cur,
         cur = "end" => WellFormed(tk),
         cur = ")" => Top(os) # "(",
         cur \in Operators => get_precedence(Top(os)) >= get_precedence(cur),
         ReadsTokens(tk, vs, os, cur)
  PROVE  /\ Top(os) # "(" /\ Handled(tk, cur) \in Nat /\ Handled(tk, cur) <= Len(tk)
         /\ HasOperand(tk, vs, os, Handled(tk, cur), Least(cur))
         /\ Least(cur) \in 0 .. LevelOf(Top(os))
         /\ cur = "end" => \A k \in 1 .. Len(os) : os[k] # "("
<1>1. cur # "none" /\ (cur \in Operators => cur \notin {")", "end"}) /\ ")" \notin Operators /\ "end" \notin Operators
  BY Characters
<1>2. /\ HasOperand(tk, vs, os, Handled(tk, cur), Least(cur))
      /\ Cardinality(Places(os, "(")) = Depth(tk) + (IF cur = ")" THEN 1 ELSE 0)
  BY <1>1 DEF ReadsTokens
<1>3. Len(tk) \in Nat /\ DOMAIN tk = 1 .. Len(tk) /\ (cur # "end" => Len(tk) \in 1 .. Len(tk))
  BY EmptySeq, LenProperties
<1>4. Handled(tk, cur) \in Nat /\ Handled(tk, cur) <= Len(tk)
  BY <1>1, <1>3 DEF Handled
<1>5. os \in Seq(Operators \cup {"("}) /\ Len(os) \in 1 .. Len(os)
  BY EmptySeq DEF Stack
<1>6. cur = "end" => \A k \in 1 .. Len(os) : os[k] # "("
  <2>1. cur = "end" => Cardinality(Places(os, "(")) = 0
    BY <1>2 DEF WellFormed
  <2> QED BY <1>5, <2>1, NoPlaces
<1>7. cur \in Operators => LevelOf(cur) \in 1 .. 4
  <2>1. cur \in Operators => \E p \in DOMAIN Kinds : cur \in Kinds[p]
    BY <1>1, <1>3 DEF KnownOperators
  <2>2. DOMAIN Kinds = 1 .. 4
    BY DEF Kinds
  <2> QED BY <2>1, <2>2, LevelOfOperator
<1>8. cur \in Operators => LevelOf(Top(os)) >= LevelOf(cur)
  <2>1. get_precedence(Top(os)) \in -1 .. 3 /\ get_precedence(cur) \in -1 .. 3
    BY PrecedenceType
  <2> QED BY <2>1 DEF LevelOf
<1>9. Top(os) # "("
  <2>1. CASE cur \in Operators
    <3>1. LevelOf("(") = 0
      BY LevelOfOperator
    <3> QED BY <1>7, <1>8, <2>1, <3>1
  <2>2. CASE cur = "end"
    BY <1>5, <1>6, <2>2 DEF Top
  <2> QED BY <2>1, <2>2
<1>10. LevelOf(Top(os)) \in 1 .. 4
  <2>1. PICK pos, val, level : Holds(tk, vs, os, Handled(tk, cur), pos, val, level)
    BY <1>2 DEF HasOperand
  <2> QED BY <1>4, <1>5, <1>9, <2>1, TopReads
<1>11. Least(cur) \in 0 .. LevelOf(Top(os))
  <2>1. CASE cur \in Operators
    <3>1. Least(cur) = LevelOf(cur)
      BY <1>1, <2>1 DEF Least
    <3> QED BY <1>7, <1>8, <1>10, <2>1, <3>1
  <2>2. CASE cur \notin Operators
    <3>1. Least(cur) = 1
      BY <1>1, <2>2 DEF Least
    <3> QED BY <1>10, <3>1
  <2> QED BY <2>1, <2>2
<1> QED BY <1>2, <1>4, <1>6, <1>9, <1>11

\* One turn of the loop: both operands are there, an error is that of the
\* whole expression, and a result takes the place of what it was made of.
LEMMA ApplyRead ==
  ASSUME NEW tk \in Seq(Tokens), Prefix(tk), KnownOperators(tk), Len(tk) <= MAX_TOKENS,
         NEW S, NEW vs \in Seq(S), NEW os \in Stack, os # << >>, Discipline(os),
         NEW cur \in Operators \cup {")", "end"},
         cur # "end" => tk # << >> /\ tk[Len(tk)] = cur,
         cur = "end" => WellFormed(tk),
         cur = ")" => Top(os) # "(",
         cur \in Operators => get_precedence(Top(os)) >= get_precedence(cur),
         ReadsTokens(tk, vs, os, cur),
         NEW fault, fault = Fault(Top(Pop(vs)), Top(vs), Top(os))
  PROVE  /\ Len(vs) >= 2
         /\ fault # "none" /\ cur = "end" => Reads(1, tk, Failed(fault))
         /\ fault = "none" =>
              ReadsTokens(tk, Append(Pop(Pop(vs)), apply_op(Top(Pop(vs)), Top(vs), Top(os))), Pop(os), cur)
<1> DEFINE e == Handled(tk, cur)
           p == LevelOf(Top(os))
           vs2 == Append(Pop(Pop(vs)), apply_op(Top(Pop(vs)), Top(vs), Top(os)))
<1>1. /\ Top(os) # "(" /\ e \in Nat /\ e <= Len(tk)
      /\ HasOperand(tk, vs, os, e, Least(cur)) /\ Least(cur) \in 0 .. p
      /\ cur = "end" => \A k \in 1 .. Len(os) : os[k] # "("
  BY AppliesOperator
<1>2. os \in Seq(Operators \cup {"("})
  BY DEF Stack
<1>3. /\ Len(vs) >= 2
      /\ fault = "none" => HasOperand(tk, vs2, Pop(os), e, p)
  BY <1>1, <1>2, TopApplied
<1>4. ASSUME fault # "none", cur = "end"
      PROVE  Reads(1, tk, Failed(fault))
  <2>1. e = Len(tk)
    BY <1>4 DEF Handled
  <2> QED BY <1>1, <1>2, <1>4, <2>1, FaultReported
<1>5. ASSUME fault = "none"
      PROVE  ReadsTokens(tk, vs2, Pop(os), cur)
  <2>1. p \in 0 .. 5
    <3>1. p \in 0 .. 4
      BY LevelOfOperator
    <3> QED BY <3>1
  <2>2. HasOperand(tk, vs2, Pop(os), e, Least(cur))
    BY <1>1, <1>3, <1>5, <2>1, OperandLooser
  <2>3. cur # "none"
    BY Characters
  <2>4. Cardinality(Places(os, "(")) = Cardinality(Places(Pop(os), "(")) + 0
        /\ Cardinality(Places(Pop(os), "(")) \in Nat
    BY <1>1, <1>2, PlacesPopped
  <2>5. Cardinality(Places(os, "(")) = Depth(tk) + (IF cur = ")" THEN 1 ELSE 0)
    BY <2>3 DEF ReadsTokens
  <2>6. Cardinality(Places(Pop(os), "(")) = Depth(tk) + (IF cur = ")" THEN 1 ELSE 0)
    BY <2>4, <2>5
  <2> HIDE DEF vs2
  <2> QED BY <2>2, <2>3, <2>6 DEF ReadsTokens
<1> QED BY <1>3, <1>4, <1>5

\* The loop has stopped at the parenthesis that the ")" closes.
LEMMA CloseRead ==
  ASSUME NEW tk \in Seq(Tokens), tk # << >>, tk[Len(tk)] = ")",
         Prefix(tk) => Len(tk) <= MAX_TOKENS,
         NEW S, NEW vs \in Seq(S), NEW os \in Stack, os # << >> => Top(os) = "(",
         ReadsTokens(tk, vs, os, ")")
  PROVE  ReadsTokens(tk, vs, IF os # << >> THEN Pop(os) ELSE os, "none")
<1> DEFINE os2 == IF os # << >> THEN Pop(os) ELSE os
<1>1. OperandEnds(")") /\ ")" \notin Operators
  BY Characters
<1> SUFFICES ASSUME Prefix(tk), KnownOperators(tk)
             PROVE  /\ HasOperand(tk, vs, os2, Handled(tk, "none"), Least("none"))
                    /\ Cardinality(Places(os2, "(")) = Depth(tk) + 0
  BY <1>1 DEF ReadsTokens
<1>2. /\ HasOperand(tk, vs, os, Handled(tk, ")"), Least(")"))
      /\ Cardinality(Places(os, "(")) = Depth(tk) + 1
  BY DEF ReadsTokens
<1>3. /\ Handled(tk, "none") = Len(tk) /\ Least("none") = 5
      /\ Handled(tk, ")") = Len(tk) - 1 /\ Least(")") = 1
  BY <1>1 DEF Handled, Least
<1>4. Len(tk) \in Nat /\ Len(tk) - 1 \in Nat /\ Len(tk) = Len(tk) - 1 + 1 /\ Len(vs) \in Nat
  BY EmptySeq, LenProperties
<1>5. os \in Seq(Operators \cup {"("})
  BY DEF Stack
<1>6. Depth(tk) >= 0 /\ Depth(tk) \in Int
  <2>1. Depth(tk) \in Int
    BY DepthAppended, Characters
  <2> QED BY <2>1, PrefixDepth
<1>7. os # << >>
  <2> SUFFICES ASSUME os = << >> PROVE FALSE
    OBVIOUS
  <2>1. Places(os, "(") = {}
    BY DEF Places
  <2>2. Cardinality(Places(os, "(")) = 0
    BY <2>1, FS_EmptySet
  <2> QED BY <1>2, <1>6, <2>2
<1>8. HasOperand(tk, vs, Pop(os), Len(tk), 5)
  <2>1. PICK e \in Nat : e = Len(tk) - 1 /\ Len(tk) = e + 1
    BY <1>4
  <2>2. HasOperand(tk, vs, os, e, 1) /\ tk[e + 1] = ")" /\ Top(os) = "("
    BY <1>2, <1>3, <1>7, <2>1
  <2>3. HasOperand(tk, vs, Pop(os), e + 1, 5)
    BY <1>4, <1>5, <1>7, <2>1, <2>2, ParenthesisClosed
  <2> QED BY <2>1, <2>3
<1>9. /\ Cardinality(Places(os, "(")) = Cardinality(Places(Pop(os), "(")) + 1
      /\ Cardinality(Places(Pop(os), "(")) \in Nat
  BY <1>5, <1>7, PlacesPopped
<1>10. Cardinality(Places(Pop(os), "(")) = Depth(tk) + 0
  BY <1>2, <1>6, <1>9
<1> QED BY <1>3, <1>7, <1>8, <1>10

LEMMA PushRead ==
  ASSUME NEW tk \in Seq(Tokens), NEW op \in Operators, tk # << >>, tk[Len(tk)] = op,
         Prefix(tk) => Len(tk) <= MAX_TOKENS,
         NEW S, NEW vs \in Seq(S), NEW os \in Stack, ReadsTokens(tk, vs, os, op)
  PROVE  ReadsTokens(tk, vs, Append(os, op), "none")
<1> DEFINE os2 == Append(os, op)
<1>1. ~OperandEnds(op) /\ op \notin {"(", ")", "end", "none"}
  BY Characters
<1> SUFFICES ASSUME Prefix(tk), KnownOperators(tk)
             PROVE  /\ ExpectsOperand(tk, vs, os2, Len(tk))
                    /\ Cardinality(Places(os2, "(")) = Depth(tk) + 0
  BY <1>1 DEF ReadsTokens
<1>2. /\ HasOperand(tk, vs, os, Handled(tk, op), Least(op))
      /\ Cardinality(Places(os, "(")) = Depth(tk) + 0
  BY <1>1 DEF ReadsTokens
<1>3. Handled(tk, op) = Len(tk) - 1 /\ Least(op) = LevelOf(op)
  BY <1>1 DEF Handled, Least
<1>4. Len(tk) \in Nat /\ Len(tk) - 1 \in Nat /\ Len(tk) = Len(tk) - 1 + 1 /\ Len(vs) \in Nat
      /\ Len(tk) \in 1 .. Len(tk) /\ DOMAIN tk = 1 .. Len(tk)
  BY EmptySeq, LenProperties
<1>5. os \in Seq(Operators \cup {"("}) /\ op \in Operators \cup {"("}
  BY DEF Stack
<1>6. \E p \in 1 .. 4 : op \in Kinds[p]
  <2>1. DOMAIN Kinds = 1 .. 4
    BY DEF Kinds
  <2> QED BY <1>4, <2>1 DEF KnownOperators
<1>7. ExpectsOperand(tk, vs, os2, Len(tk))
  <2>1. PICK e \in Nat : e = Len(tk) - 1 /\ Len(tk) = e + 1
    BY <1>4
  <2>2. HasOperand(tk, vs, os, e, LevelOf(op)) /\ tk[e + 1] = op
    BY <1>2, <1>3, <2>1
  <2>3. ExpectsOperand(tk, vs, os2, e + 1)
    BY <1>4, <1>5, <1>6, <2>1, <2>2, OperatorPushed
  <2> QED BY <2>1, <2>3
<1>8. /\ Cardinality(Places(os2, "(")) = Cardinality(Places(os, "(")) + 0
      /\ Cardinality(Places(os, "(")) \in Nat
  BY <1>1, <1>5, PlacesAppended, PlacesFinite
<1>9. Cardinality(Places(os2, "(")) = Depth(tk) + 0
  BY <1>2, <1>8
<1> QED BY <1>7, <1>9

\* All operators are applied: one value is left.
LEMMA PrintRead ==
  ASSUME NEW tk \in Seq(Tokens), WellFormed(tk), KnownOperators(tk), Len(tk) <= MAX_TOKENS,
         NEW vs, ReadsTokens(tk, vs, << >>, "end")
  PROVE  Len(vs) = 1 /\ Reads(1, tk, Printed(vs[1]))
<1>1. Prefix(tk) /\ "end" \notin Operators
  BY Characters DEF WellFormed
<1>2. HasOperand(tk, vs, << >>, Handled(tk, "end"), Least("end"))
  BY <1>1 DEF ReadsTokens
<1>3. Handled(tk, "end") = Len(tk)
  BY DEF Handled
<1> QED BY <1>2, <1>3, ResultRead

\* What the proof carries from step to step: the stacks are a reading of the
\* tokens, and only PrintResult prints.
CalcReads ==
  /\ tokens \in Seq(Tokens)
  /\ Prefix(tokens) => Len(tokens) <= MAX_TOKENS
  /\ outcome # "printed" => printed = 0
  /\ current \notin {"none", "end"} => tokens # << >> /\ tokens[Len(tokens)] = current
  /\ outcome = "reading" => ReadsTokens(tokens, values, ops, current)
  /\ CalcCorrect

\* Nothing is read.
LEMMA CalcReadsInit ==
  ASSUME CalcInit
  PROVE  CalcReads
<1>1. tokens \in Seq(Tokens) /\ Len(tokens) = 0 /\ DOMAIN tokens = {}
  BY EmptySeq DEF CalcInit
<1>2. ExpectsOperand(tokens, values, ops, Len(tokens))
  BY <1>1, NothingYet DEF CalcInit
<1>3. Cardinality(Places(ops, "(")) = Depth(tokens) + 0
  <2>1. Places(ops, "(") = {} /\ \A c : {k \in DOMAIN tokens : tokens[k] = c} = {}
    BY <1>1 DEF Places, CalcInit
  <2>2. Depth(tokens) = Cardinality({}) - Cardinality({})
    BY <2>1 DEF Depth
  <2> QED BY <2>1, <2>2, FS_EmptySet
<1>4. ReadsTokens(tokens, values, ops, current)
  BY <1>2, <1>3 DEF ReadsTokens, CalcInit
<1>5. Prefix(tokens) => Len(tokens) <= MAX_TOKENS
  BY <1>1, CalcConstants
<1> QED BY <1>1, <1>4, <1>5 DEF CalcReads, CalcCorrect, CalcInit

\* One token is typed.
LEMMA TokenTyped ==
  ASSUME CalcReads, NEW t \in Tokens, Typed(t)
  PROVE  /\ tokens' = Append(tokens, t) /\ tokens' \in Seq(Tokens)
         /\ Prefix(Append(tokens, t)) => Len(tokens') <= MAX_TOKENS
         /\ tokens' # << >> /\ tokens'[Len(tokens')] = t
         /\ ReadsTokens(tokens, values, ops, "none") /\ outcome = "reading" /\ current = "none"
<1>1. /\ tokens' = Append(tokens, t) /\ outcome = "reading" /\ current = "none"
      /\ Len(Append(tokens, t)) <= IF Prefix(Append(tokens, t)) THEN MAX_TOKENS ELSE MAX_MALFORMED
  BY DEF Typed
<1>2. tokens \in Seq(Tokens) /\ ReadsTokens(tokens, values, ops, "none")
  BY <1>1 DEF CalcReads
<1> QED BY <1>1, <1>2, LastAppended

LEMMA CalcReadsStep ==
  ASSUME CalcInv, CalcReads, [CalcNext]_cvars
  PROVE  CalcReads'
<1>0. /\ tokens \in Seq(Tokens) /\ ops \in Stack /\ Discipline(ops)
      /\ current \in Operators \cup {")", "end", "none"}
      /\ Prefix(tokens) => Len(tokens) <= MAX_TOKENS
      /\ outcome # "printed" => printed = 0
      /\ current \notin {"none", "end"} => tokens # << >> /\ tokens[Len(tokens)] = current
      /\ outcome = "reading" => ReadsTokens(tokens, values, ops, current)
  BY DEF CalcInv, StacksOK, StackDiscipline, CalcReads, Stack, Discipline
<1>1. PICK S : values \in Seq(S)
  BY DEF CalcInv, StacksOK
<1>2. CASE OpenParenthesis
  <2>1. /\ tokens' = Append(tokens, "(") /\ tokens' \in Seq(Tokens)
        /\ Prefix(Append(tokens, "(")) => Len(tokens') <= MAX_TOKENS
        /\ ReadsTokens(tokens, values, ops, "none") /\ outcome = "reading" /\ current = "none"
    BY <1>2, TokenTyped, Characters DEF OpenParenthesis
  <2>2. CASE Error("Stack overflow")
    BY <1>0, <2>1, <2>2 DEF Error, CalcReads, CalcCorrect
  <2>3. CASE ops' = Append(ops, "(") /\ UNCHANGED <<values, current, outcome, printed>>
    <3>1. ReadsTokens(Append(tokens, "("), values, Append(ops, "("), "none")
      BY <1>0, <1>1, <2>1, OpenRead
    <3>2. ReadsTokens(tokens, values, ops, current)'
      BY <2>1, <2>3, <3>1
    <3> QED BY <1>0, <2>1, <2>3, <3>2 DEF CalcReads, CalcCorrect
  <2> QED BY <1>2, <2>2, <2>3 DEF OpenParenthesis
<1>3. ASSUME NEW t \in Numerals, Number(t)
      PROVE  CalcReads'
  <2>1. /\ tokens' = Append(tokens, t) /\ tokens' \in Seq(Tokens)
        /\ Prefix(Append(tokens, t)) => Len(tokens') <= MAX_TOKENS
        /\ ReadsTokens(tokens, values, ops, "none") /\ outcome = "reading" /\ current = "none"
    BY <1>3, TokenTyped, Characters DEF Number
  <2>2. CASE Error("Stack overflow")
    BY <1>0, <2>1, <2>2 DEF Error, CalcReads, CalcCorrect
  <2>3. CASE values' = Append(values, Value[t]) /\ UNCHANGED <<ops, current, outcome, printed>>
    <3>1. ReadsTokens(Append(tokens, t), Append(values, Value[t]), ops, "none")
      BY <1>0, <1>1, <2>1, NumeralRead
    <3>2. ReadsTokens(tokens, values, ops, current)'
      BY <2>1, <2>3, <3>1
    <3> QED BY <1>0, <2>1, <2>3, <3>2 DEF CalcReads, CalcCorrect
  <2> QED BY <1>3, <2>2, <2>3 DEF Number
<1>4. ASSUME NEW t \in Operators \cup {")"}, OperatorOrClose(t)
      PROVE  CalcReads'
  <2>0. t \in Tokens /\ t \notin {"none", "end"}
    BY Characters
  <2>1. /\ tokens' = Append(tokens, t) /\ tokens' \in Seq(Tokens)
        /\ Prefix(Append(tokens, t)) => Len(tokens') <= MAX_TOKENS
        /\ tokens' # << >> /\ tokens'[Len(tokens')] = t
        /\ ReadsTokens(tokens, values, ops, "none") /\ outcome = "reading"
    BY <1>4, <2>0, TokenTyped DEF OperatorOrClose
  <2>2. current' = t /\ UNCHANGED <<values, ops, outcome, printed>>
    BY <1>4 DEF OperatorOrClose
  <2>3. ReadsTokens(Append(tokens, t), values, ops, t)
    BY <1>0, <1>1, <2>1, OperatorOrCloseRead
  <2>4. ReadsTokens(tokens, values, ops, current)'
    BY <2>1, <2>2, <2>3
  <2> QED BY <1>0, <2>0, <2>1, <2>2, <2>4 DEF CalcReads, CalcCorrect
<1>5. CASE EndOfInput
  <2>1. /\ outcome = "reading" /\ current = "none" /\ current' = "end"
        /\ UNCHANGED <<values, ops, outcome, printed, tokens>>
    BY <1>5 DEF EndOfInput
  <2>2. ReadsTokens(tokens, values, ops, "end")
    BY <1>0, <1>1, <2>1, EndRead
  <2>3. ReadsTokens(tokens, values, ops, current)'
    BY <2>1, <2>2
  <2> QED BY <1>0, <2>1, <2>3 DEF CalcReads, CalcCorrect
<1>6. CASE ApplyTop
  <2> DEFINE fault == Fault(Top(Pop(values)), Top(values), Top(ops))
             left == Append(Pop(Pop(values)), apply_op(Top(Pop(values)), Top(values), Top(ops)))
  <2>1. /\ outcome = "reading" /\ current # "none" /\ MustApply /\ UNCHANGED <<tokens, current>>
        /\ IF Len(values) < 2
             THEN Error("Invalid syntax")
             ELSE IF fault # "none"
                    THEN Error(fault)
                    ELSE /\ values' = left
                         /\ ops' = Pop(ops)
                         /\ UNCHANGED <<outcome, printed>>
    BY <1>6, Zenon DEF ApplyTop, Error
  <2>2. /\ ops # << >>
        /\ current = ")" => Top(ops) # "("
        /\ current \in Operators => get_precedence(Top(ops)) >= get_precedence(current)
    BY <2>1, Characters DEF MustApply, Binds
  <2>3. current \in Operators \cup {")", "end"} /\ ReadsTokens(tokens, values, ops, current)
    BY <1>0, <2>1
  <2>4. ASSUME Prefix(tokens), KnownOperators(tokens), current = "end" => WellFormed(tokens)
        PROVE  /\ Len(values) >= 2
               /\ fault # "none" /\ current = "end" => Reads(1, tokens, Failed(fault))
               /\ fault = "none" => ReadsTokens(tokens, left, Pop(ops), current)
    <3>1. current # "end" => tokens # << >> /\ tokens[Len(tokens)] = current
      BY <1>0, <2>1
    <3> QED BY <1>0, <1>1, <2>2, <2>3, <2>4, <3>1, ApplyRead
  <2>5. CASE Error("Invalid syntax") /\ Len(values) < 2
    <3>1. ~(WellFormed(tokens) /\ KnownOperators(tokens) /\ current = "end")
      <4>1. Len(values) \in Nat /\ Len(values) < 2
        BY <1>1, <2>5, LenProperties
      <4>2. WellFormed(tokens) /\ KnownOperators(tokens) => Len(values) >= 2
        BY <2>4 DEF WellFormed
      <4> QED BY <4>1, <4>2
    <3> QED BY <1>0, <2>1, <2>5, <3>1 DEF Error, CalcReads, CalcCorrect
  <2>6. CASE Error(fault) /\ fault # "none"
    <3>1. fault \notin {"reading", "printed"}
      BY DEF Fault
    <3>2. WellFormed(tokens) /\ KnownOperators(tokens) /\ current = "end"
            => Reads(1, tokens, Failed(fault))
      BY <2>4, <2>6 DEF WellFormed
    <3>3. outcome' = fault /\ UNCHANGED <<values, ops, current, printed>> /\ printed = 0
      BY <1>0, <2>1, <2>6 DEF Error
    <3> HIDE DEF fault
    <3>4. Failed(fault) = [outcome |-> outcome', value |-> printed']
      BY <3>3 DEF Failed
    <3> QED BY <1>0, <2>1, <3>1, <3>2, <3>3, <3>4 DEF CalcReads, CalcCorrect
  <2>7. CASE values' = left /\ ops' = Pop(ops) /\ fault = "none" /\ UNCHANGED <<outcome, printed>>
    <3>1. ReadsTokens(tokens, left, Pop(ops), current)
      BY <2>4, <2>7 DEF ReadsTokens
    <3>2. ReadsTokens(tokens, values, ops, current)'
      BY <2>1, <2>7, <3>1
    <3> QED BY <1>0, <2>1, <2>7, <3>2 DEF CalcReads, CalcCorrect
  <2> HIDE DEF fault, left
  <2> QED BY <2>1, <2>5, <2>6, <2>7
<1>7. CASE CloseParenthesis
  <2>1. /\ outcome = "reading" /\ current = ")" /\ ~MustApply
        /\ ops' = IF ops # << >> THEN Pop(ops) ELSE ops
        /\ current' = "none"
        /\ UNCHANGED <<values, outcome, printed, tokens>>
    BY <1>7 DEF CloseParenthesis
  <2>2. ops # << >> => Top(ops) = "("
    BY <2>1 DEF MustApply
  <2>3. ReadsTokens(tokens, values, IF ops # << >> THEN Pop(ops) ELSE ops, "none")
    BY <1>0, <1>1, <2>1, <2>2, CloseRead
  <2>4. ReadsTokens(tokens, values, ops, current)'
    BY <2>1, <2>3
  <2> QED BY <1>0, <2>1, <2>4 DEF CalcReads, CalcCorrect
<1>8. CASE PushOperator
  <2>1. outcome = "reading" /\ current \in Operators /\ UNCHANGED tokens
    BY <1>8 DEF PushOperator
  <2>2. current \notin {")", "end", "none"}
    BY <2>1, Characters
  <2>3. CASE Error("Stack overflow")
    BY <1>0, <2>1, <2>2, <2>3 DEF Error, CalcReads, CalcCorrect
  <2>4. CASE ops' = Append(ops, current) /\ current' = "none" /\ UNCHANGED <<values, outcome, printed>>
    <3>1. ReadsTokens(tokens, values, Append(ops, current), "none")
      BY <1>0, <1>1, <2>1, <2>2, PushRead
    <3>2. ReadsTokens(tokens, values, ops, current)'
      BY <2>1, <2>4, <3>1
    <3> QED BY <1>0, <2>1, <2>4, <3>2 DEF CalcReads, CalcCorrect
  <2> QED BY <1>8, <2>3, <2>4 DEF PushOperator
<1>9. CASE PrintResult
  <2>1. /\ outcome = "reading" /\ current = "end" /\ ops = << >>
        /\ UNCHANGED <<values, ops, current, tokens>>
    BY <1>9, Characters DEF PrintResult, MustApply, Error
  <2>2. ASSUME WellFormed(tokens), KnownOperators(tokens)
        PROVE  Len(values) = 1 /\ Reads(1, tokens, Printed(values[1]))
    BY <1>0, <2>1, <2>2, PrintRead DEF WellFormed
  <2>3. CASE Len(values) = 1 /\ outcome' = "printed" /\ printed' = values[1]
    <3>1. Printed(values[1]) = [outcome |-> outcome', value |-> printed']
      BY <2>3 DEF Printed
    <3> QED BY <1>0, <2>1, <2>2, <2>3, <3>1 DEF CalcReads, CalcCorrect
  <2>4. CASE Len(values) # 1 /\ Error("Invalid expression")
    BY <1>0, <2>1, <2>2, <2>4 DEF Error, CalcReads, CalcCorrect
  <2> QED BY <1>9, <2>3, <2>4 DEF PrintResult
<1>10. CASE UNCHANGED cvars
  BY <1>0, <1>10 DEF cvars, CalcReads, CalcCorrect
<1> QED BY <1>2, <1>3, <1>4, <1>5, <1>6, <1>7, <1>8, <1>9, <1>10 DEF CalcNext

\* Whatever is typed, a well-formed expression of known operators gets from
\* cmd_calc_handler the value, or the error, that the grammar gives it, and is
\* never refused as invalid, unless a stack overflows; for every size of the
\* stacks, every width of int, and every length of expression.
THEOREM CalculatorIsCorrect == CalcSpec => []CalcCorrect
<1>1. CalcInit => CalcInv /\ CalcReads
  BY CalcInvInit, CalcReadsInit
<1>2. (CalcInv /\ CalcReads) /\ [CalcNext]_cvars => (CalcInv /\ CalcReads)'
  BY CalcInvStep, CalcReadsStep
<1>3. CalcInv /\ CalcReads => CalcCorrect
  BY DEF CalcReads
<1> QED BY <1>1, <1>2, <1>3, PTL DEF CalcSpec
=============================================================================
