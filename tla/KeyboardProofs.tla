--------------------------- MODULE KeyboardProofs ---------------------------
(***************************************************************************)
(* Reading lines from the keyboard, for lines and queues of any length.    *)
(***************************************************************************)
EXTENDS Keyboard, SequenceTheorems, TLAPS

-----------------------------------------------------------------------------
(***************************************************************************)
(* The inductive invariant                                                 *)
(***************************************************************************)
CodeSet == [key : AllKeys \cup {"prefix"}, released : BOOLEAN, prefixed : BOOLEAN]

IsRelease(c) == c.released /\ c.key \in Shifts

\* What is on the wire: a prefix is followed by its code, and only it is.
WireInv ==
  /\ wire \in Seq(CodeSet)
  /\ \A i \in 1 .. Len(wire) :
       wire[i].prefixed => wire[i].key \in Prefixable /\ (i > 1 => wire[i - 1] = PREFIX)
  /\ \A i \in 1 .. Len(wire) :
       wire[i].key = "prefix" => wire[i] = PREFIX /\ i < Len(wire) /\ wire[i + 1].prefixed

\* A shift key whose code is on the wire is still down, or was released later.
ShiftInv ==
  \A i \in 1 .. Len(wire) :
    wire[i].key \in Shifts /\ ~wire[i].released =>
      held # {} \/ \E j \in i + 1 .. Len(wire) : IsRelease(wire[j])

StuckInv ==
  shift_pressed => held # {} \/ missed \/ \E j \in 1 .. Len(wire) : IsRelease(wire[j])

\* PrefixPaired, stated for every reader.
PrefixInv ==
  /\ is_extended => reader = "scan" /\ (outlived \/ (Len(wire) > 0 /\ wire[1].prefixed))
  /\ Len(wire) > 0 /\ wire[1].prefixed => is_extended \/ split

\* The line fills the buffer from the left; what follows is blank.
LineInv ==
  \A i \in Position :
    IF i < buffer_idx THEN input_buffer[i] \in Chars ELSE input_buffer[i] = NUL

KeyboardInv == TypeOK /\ WireInv /\ ShiftInv /\ StuckInv /\ PrefixInv /\ LineInv

-----------------------------------------------------------------------------
(***************************************************************************)
(* The wire                                                                *)
(***************************************************************************)
\* Taking a code moves the others one place forward.
LEMMA TakeFacts ==
  ASSUME WireInv, Take
  PROVE  /\ Len(wire) \in Nat /\ Len(wire) > 0 /\ Len(wire') = Len(wire) - 1
         /\ \A i \in 1 .. Len(wire') : wire'[i] = wire[i + 1]
         /\ scancode = wire[1] /\ scancode \in CodeSet
         /\ wire' \in Seq(CodeSet) /\ held' = held
<1>1. wire \in Seq(CodeSet) /\ wire # << >> /\ wire' = Tail(wire)
  BY DEF WireInv, Take
<1>2. Len(wire) \in Nat /\ Len(wire) > 0 /\ Head(wire) = wire[1]
  BY <1>1
<1> QED BY <1>1, <1>2, HeadTailProperties DEF scancode, Take

LEMMA TakeKeepsWire ==
  ASSUME WireInv, ShiftInv, Take
  PROVE  /\ WireInv' /\ ShiftInv'
         /\ Len(wire') > 0 /\ wire'[1].prefixed => scancode = PREFIX
         /\ scancode = PREFIX => Len(wire') > 0 /\ wire'[1].prefixed
         /\ (\E j \in 1 .. Len(wire) : IsRelease(wire[j]))
              => IsRelease(scancode) \/ \E j \in 1 .. Len(wire') : IsRelease(wire'[j])
         /\ scancode.key \in Shifts /\ ~scancode.released
              => held' # {} \/ \E j \in 1 .. Len(wire') : IsRelease(wire'[j])
<1> USE TakeFacts
<1>1. WireInv'
  <2>1. ASSUME NEW i \in 1 .. Len(wire'), wire'[i].prefixed
        PROVE  wire'[i].key \in Prefixable /\ (i > 1 => wire'[i - 1] = PREFIX)
    <3>1. i \in Nat /\ i + 1 \in 1 .. Len(wire) /\ i + 1 > 1 /\ wire'[i] = wire[i + 1]
      OBVIOUS
    <3>2. wire[i + 1].key \in Prefixable /\ wire[i] = PREFIX
      BY <2>1, <3>1 DEF WireInv
    <3>3. i > 1 => wire'[i - 1] = wire[i]
      BY <3>1
    <3> QED BY <3>1, <3>2, <3>3
  <2>2. ASSUME NEW i \in 1 .. Len(wire'), wire'[i].key = "prefix"
        PROVE  wire'[i] = PREFIX /\ i < Len(wire') /\ wire'[i + 1].prefixed
    <3>1. i \in Nat /\ i + 1 \in 1 .. Len(wire) /\ wire'[i] = wire[i + 1]
      OBVIOUS
    <3>2. wire[i + 1] = PREFIX /\ i + 1 < Len(wire) /\ wire[i + 2].prefixed
      <4>1. wire[i + 1].key = "prefix" /\ (i + 1) + 1 = i + 2
        BY <2>2, <3>1
      <4> QED BY <3>1, <4>1 DEF WireInv
    <3>3. i < Len(wire') /\ wire'[i + 1] = wire[i + 2]
      BY <3>1, <3>2
    <3> QED BY <3>1, <3>2, <3>3
  <2> QED BY <2>1, <2>2 DEF WireInv
<1>2. ASSUME NEW i \in 1 .. Len(wire), NEW j \in i + 1 .. Len(wire), IsRelease(wire[j])
      PROVE  j - 1 \in i .. Len(wire') /\ IsRelease(wire'[j - 1])
  BY <1>2
<1>3. ShiftInv'
  <2>1. SUFFICES ASSUME NEW i \in 1 .. Len(wire'),
                        wire'[i].key \in Shifts, ~wire'[i].released, held' = {}
                 PROVE  \E j \in i + 1 .. Len(wire') : IsRelease(wire'[j])
    BY DEF ShiftInv, IsRelease
  <2>2. PICK j \in i + 2 .. Len(wire) : IsRelease(wire[j])
    <3>1. i + 1 \in 1 .. Len(wire) /\ wire'[i] = wire[i + 1] /\ (i + 1) + 1 = i + 2
      BY <2>1
    <3>2. wire[i + 1].key \in Shifts /\ ~wire[i + 1].released /\ held = {}
      BY <2>1, <3>1
    <3> QED BY <3>1, <3>2 DEF ShiftInv
  <2>3. i + 1 \in 1 .. Len(wire) /\ j \in (i + 1) + 1 .. Len(wire)
    BY <2>1, <2>2
  <2>4. j - 1 \in i + 1 .. Len(wire') /\ IsRelease(wire'[j - 1])
    BY <2>2, <2>3, <1>2
  <2> QED BY <2>4
<1>4. /\ Len(wire') > 0 /\ wire'[1].prefixed => scancode = PREFIX
      /\ scancode = PREFIX => Len(wire') > 0 /\ wire'[1].prefixed
  BY DEF WireInv, PREFIX
<1>5. ASSUME NEW j \in 1 .. Len(wire), IsRelease(wire[j]), ~IsRelease(scancode)
      PROVE  \E l \in 1 .. Len(wire') : IsRelease(wire'[l])
  <2>1. j # 1
    BY <1>5
  <2> QED BY <1>5, <2>1, <1>2
<1>6. ASSUME scancode.key \in Shifts, ~scancode.released, held' = {}
      PROVE  \E j \in 1 .. Len(wire') : IsRelease(wire'[j])
  <2>1. PICK j \in 2 .. Len(wire) : IsRelease(wire[j])
    BY <1>6 DEF ShiftInv
  <2> QED BY <2>1, <1>2
<1> QED BY <1>1, <1>3, <1>4, <1>5, <1>6

\* A key sends its code behind the others, with its prefix if it has one.
LEMMA SendKeepsWire ==
  ASSUME WireInv, NEW k \in Keys, NEW up \in BOOLEAN, NEW ext \in BOOLEAN,
         ext => k \in Prefixable, Sends(Codes(k, up, ext))
  PROVE  /\ WireInv'
         /\ Len(wire) \in Nat /\ Len(wire') \in Nat /\ Len(wire') > Len(wire)
         /\ \A i \in 1 .. Len(wire) : wire'[i] = wire[i]
         /\ wire'[Len(wire')] = Code(k, up, ext)
         /\ \A i \in Len(wire) + 1 .. Len(wire') - 1 : wire'[i] = PREFIX
         /\ Len(wire) = 0 => ~wire'[1].prefixed
<1> DEFINE codes == Codes(k, up, ext)
           n == Len(wire)
<1>1. /\ k \in AllKeys /\ k # "prefix"
      /\ Code(k, up, ext) \in CodeSet /\ PREFIX \in CodeSet
      /\ Code(k, up, ext).key = k /\ Code(k, up, ext).released = up
      /\ Code(k, up, ext).prefixed = ext
      /\ PREFIX.key = "prefix" /\ PREFIX.prefixed = FALSE /\ PREFIX.released = FALSE
  BY KeysAssumption DEF AllKeys, CodeSet, Code, PREFIX
<1>2. CASE ~ext
  <2>1. codes = <<Code(k, up, ext)>>
    BY <1>2 DEF Codes
  <2>2. codes \in Seq(CodeSet) /\ Len(codes) = 1 /\ codes[1] = Code(k, up, ext)
    BY <1>1, <2>1
  <2>3. /\ n \in Nat /\ wire' \in Seq(CodeSet) /\ Len(wire') = n + 1
        /\ \A i \in 1 .. n : wire'[i] = wire[i]
        /\ wire'[n + 1] = Code(k, up, ext)
    <3>1. wire \in Seq(CodeSet) /\ wire' = wire \o codes
      BY DEF Sends, WireInv
    <3>2. /\ wire' \in Seq(CodeSet) /\ Len(wire') = n + Len(codes)
          /\ \A i \in 1 .. n + Len(codes) :
               wire'[i] = IF i <= n THEN wire[i] ELSE codes[i - n]
      BY <3>1, <2>2, ConcatProperties
    <3>3. n \in Nat
      BY <3>1
    <3> QED BY <3>2, <3>3, <2>2
  <2>4. WireInv'
    <3>1. ASSUME NEW i \in 1 .. Len(wire'), wire'[i].prefixed
          PROVE  wire'[i].key \in Prefixable /\ (i > 1 => wire'[i - 1] = PREFIX)
      <4>1. i \in 1 .. n
        BY <3>1, <2>3, <1>1, <1>2
      <4>2. wire[i].key \in Prefixable /\ (i > 1 => wire[i - 1] = PREFIX)
        BY <3>1, <4>1, <2>3 DEF WireInv
      <4> QED BY <4>1, <4>2, <2>3
    <3>2. ASSUME NEW i \in 1 .. Len(wire'), wire'[i].key = "prefix"
          PROVE  wire'[i] = PREFIX /\ i < Len(wire') /\ wire'[i + 1].prefixed
      <4>1. i \in 1 .. n
        BY <3>2, <2>3, <1>1
      <4>2. wire[i] = PREFIX /\ i < n /\ wire[i + 1].prefixed
        BY <3>2, <4>1, <2>3 DEF WireInv
      <4> QED BY <4>1, <4>2, <2>3
    <3> QED BY <3>1, <3>2, <2>3 DEF WireInv
  <2> QED BY <2>3, <2>4, <1>1, <1>2
<1>3. CASE ext
  <2>1. codes = <<PREFIX, Code(k, up, ext)>>
    BY <1>3 DEF Codes
  <2>2. /\ codes \in Seq(CodeSet) /\ Len(codes) = 2
        /\ codes[1] = PREFIX /\ codes[2] = Code(k, up, ext)
    BY <1>1, <2>1
  <2>3. /\ n \in Nat /\ wire' \in Seq(CodeSet) /\ Len(wire') = n + 2
        /\ \A i \in 1 .. n : wire'[i] = wire[i]
        /\ wire'[n + 1] = PREFIX /\ wire'[n + 2] = Code(k, up, ext)
    <3>1. wire \in Seq(CodeSet) /\ wire' = wire \o codes
      BY DEF Sends, WireInv
    <3>2. /\ wire' \in Seq(CodeSet) /\ Len(wire') = n + Len(codes)
          /\ \A i \in 1 .. n + Len(codes) :
               wire'[i] = IF i <= n THEN wire[i] ELSE codes[i - n]
      BY <3>1, <2>2, ConcatProperties
    <3>3. n \in Nat
      BY <3>1
    <3> QED BY <3>2, <3>3, <2>2
  <2>4. WireInv'
    <3>1. ASSUME NEW i \in 1 .. Len(wire'), wire'[i].prefixed
          PROVE  wire'[i].key \in Prefixable /\ (i > 1 => wire'[i - 1] = PREFIX)
      <4>1. CASE i = n + 2
        BY <4>1, <2>3, <1>1, <1>3
      <4>2. CASE i # n + 2
        <5>1. i \in 1 .. n
          BY <3>1, <4>2, <2>3, <1>1
        <5>2. wire[i].key \in Prefixable /\ (i > 1 => wire[i - 1] = PREFIX)
          BY <3>1, <5>1, <2>3 DEF WireInv
        <5> QED BY <5>1, <5>2, <2>3
      <4> QED BY <4>1, <4>2
    <3>2. ASSUME NEW i \in 1 .. Len(wire'), wire'[i].key = "prefix"
          PROVE  wire'[i] = PREFIX /\ i < Len(wire') /\ wire'[i + 1].prefixed
      <4>1. CASE i = n + 1
        <5>1. wire'[i] = PREFIX /\ i < Len(wire') /\ wire'[i + 1] = Code(k, up, ext)
          BY <4>1, <2>3
        <5> QED BY <5>1, <1>1, <1>3
      <4>2. CASE i # n + 1
        <5>1. i \in 1 .. n
          BY <3>2, <4>2, <2>3, <1>1
        <5>2. wire[i] = PREFIX /\ i < n /\ wire[i + 1].prefixed
          BY <3>2, <5>1, <2>3 DEF WireInv
        <5> QED BY <5>1, <5>2, <2>3
      <4> QED BY <4>1, <4>2
    <3> QED BY <3>1, <3>2, <2>3 DEF WireInv
  <2> QED BY <2>3, <2>4, <1>1
<1> QED BY <1>2, <1>3

-----------------------------------------------------------------------------
(***************************************************************************)
(* The line                                                                *)
(***************************************************************************)
Typed == [i \in 1 .. buffer_idx |-> input_buffer[i - 1]]

LineOK ==
  /\ input_buffer \in [Position -> Chars \cup {NUL}]
  /\ buffer_idx \in 0 .. LINE_LIMIT
  /\ reader \in {"scan", "scan_password", "command"}
  /\ LineInv

\* The abstract editor takes a step or sees nothing.
EditorStep == Editor!Next \/ UNCHANGED <<reader # "command", Typed, out>>

LEMMA NulIsNoChar == NUL \notin Chars
BY DEF NUL, Chars

\* The copying loop stops at the end of the line.
LEMMA CopiedIsLine ==
  ASSUME NEW b \in [Position -> Chars \cup {NUL}], NEW n \in 0 .. LINE_LIMIT,
         \A i \in Position : IF i < n THEN b[i] \in Chars ELSE b[i] = NUL
  PROVE  Copied(b) = [i \in 1 .. n |-> b[i - 1]]
<1>1. n \in Position /\ \A i \in Position : i \in Nat
  BY LimitAssumption DEF Position
<1>2. IsEnd(b, n)
  BY <1>1, NulIsNoChar DEF IsEnd
<1>3. ASSUME NEW m \in Position, IsEnd(b, m) PROVE m = n
  BY <1>1, <1>3, NulIsNoChar DEF IsEnd
<1>4. (CHOOSE m \in Position : IsEnd(b, m)) = n
  BY <1>1, <1>2, <1>3
<1> QED BY <1>4 DEF Copied

LEMMA StartedStep ==
  ASSUME LineOK, NEW who \in {"scan", "scan_password"}, Started(who)
  PROVE  LineOK' /\ reader' = who /\ EditorStep
<1>1. LineOK' /\ reader' = who
  BY LimitAssumption DEF LineOK, LineInv, Started, Blank, Position
<1>2. Typed' = << >>
  BY DEF Started, Typed
<1>3. Editor!Open
  BY <1>2 DEF Started, Typed, Editor!Open
<1> QED BY <1>1, <1>3 DEF EditorStep, Editor!Next

LEMMA BackspaceStep ==
  ASSUME LineOK, reader # "command", Backspace
  PROVE  LineOK' /\ reader' = reader /\ EditorStep
<1>1. CASE buffer_idx = 0 /\ UNCHANGED line
  <2>1. UNCHANGED <<input_buffer, buffer_idx, reader, out>>
    BY <1>1 DEF line
  <2> QED BY <2>1 DEF LineOK, LineInv, EditorStep, Typed
<1>2. CASE /\ buffer_idx > 0 /\ buffer_idx' = buffer_idx - 1
           /\ input_buffer' = [input_buffer EXCEPT ![buffer_idx - 1] = NUL]
           /\ UNCHANGED <<reader, out>>
  <2>1. /\ LINE_LIMIT \in Nat /\ buffer_idx \in Nat /\ buffer_idx - 1 \in Position
        /\ \A i \in Position : i \in Nat
    BY <1>2, LimitAssumption DEF LineOK, Position
  <2>2. LineOK'
    BY <1>2, <2>1 DEF LineOK, LineInv
  <2>3. \A i \in 1 .. buffer_idx : i - 1 \in Position
    BY <2>1, LimitAssumption DEF LineOK, Position
  <2>4. Typed \in Seq(Chars) /\ Len(Typed) = buffer_idx
    <3>1. \A i \in 1 .. buffer_idx : input_buffer[i - 1] \in Chars
      BY <2>1, <2>3 DEF LineOK, LineInv
    <3>2. Typed \in [1 .. buffer_idx -> Chars]
      BY <3>1 DEF Typed
    <3> QED BY <3>2, <2>1 DEF Typed
  <2>5. Typed' = SubSeq(Typed, 1, Len(Typed) - 1)
    <3>1. Typed' = [i \in 1 .. buffer_idx - 1 |-> input_buffer[i - 1]]
      BY <1>2, <2>1, <2>3 DEF Typed, LineOK
    <3>2. SubSeq(Typed, 1, Len(Typed) - 1) = [i \in 1 .. buffer_idx - 1 |-> Typed[i]]
      BY <2>1, <2>4, <1>2
    <3>3. \A i \in 1 .. buffer_idx - 1 : Typed[i] = input_buffer[i - 1]
      BY <2>1 DEF Typed
    <3> QED BY <3>1, <3>2, <3>3
  <2>6. Editor!Erase
    BY <1>2, <2>1, <2>4, <2>5 DEF Editor!Erase, Typed
  <2> QED BY <1>2, <2>2, <2>6 DEF EditorStep, Editor!Next
<1> QED BY <1>1, <1>2 DEF Backspace

LEMMA EnterStep ==
  ASSUME LineOK, reader # "command", Enter
  PROVE  LineOK' /\ reader' = "command" /\ EditorStep
<1>1. /\ buffer_idx \in Nat /\ buffer_idx \in Position
      /\ input_buffer[buffer_idx] = NUL
      /\ \A i \in Position : i \in Nat
  BY LimitAssumption DEF LineOK, LineInv, Position
<1>2. input_buffer' = input_buffer
  BY <1>1 DEF Enter, LineOK
<1>3. out' = Typed
  BY <1>2, CopiedIsLine DEF Enter, LineOK, LineInv, Typed
<1>4. LineOK' /\ reader' = "command" /\ Typed' = Typed
  BY <1>2 DEF Enter, LineOK, LineInv, Typed
<1>5. Editor!Enter
  BY <1>3, <1>4 DEF Editor!Enter, Typed
<1> QED BY <1>4, <1>5 DEF EditorStep, Editor!Next

LEMMA InsertStep ==
  ASSUME LineOK, reader # "command", NEW c \in Chars \cup {NUL}, Insert(c)
  PROVE  LineOK' /\ reader' = reader /\ EditorStep
<1>1. CASE UNCHANGED line
  <2>1. UNCHANGED <<input_buffer, buffer_idx, reader, out>>
    BY <1>1 DEF line
  <2> QED BY <2>1 DEF LineOK, LineInv, EditorStep, Typed
<1>2. CASE /\ c # NUL /\ buffer_idx < LINE_LIMIT
           /\ input_buffer' = [input_buffer EXCEPT ![buffer_idx] = c]
           /\ buffer_idx' = buffer_idx + 1
           /\ UNCHANGED <<reader, out>>
  <2>1. /\ LINE_LIMIT \in Nat /\ buffer_idx \in Nat /\ buffer_idx \in Position
        /\ c \in Chars /\ \A i \in Position : i \in Nat
    BY <1>2, LimitAssumption DEF LineOK, Position
  <2>2. LineOK'
    BY <1>2, <2>1 DEF LineOK, LineInv
  <2>3. \A i \in 1 .. buffer_idx + 1 : i - 1 \in Position
    BY <1>2, <2>1 DEF LineOK, Position
  <2>4. Typed \in Seq(Chars) /\ Len(Typed) = buffer_idx
    <3>1. \A i \in 1 .. buffer_idx : input_buffer[i - 1] \in Chars
      BY <2>1, <2>3 DEF LineOK, LineInv
    <3>2. Typed \in [1 .. buffer_idx -> Chars]
      BY <3>1 DEF Typed
    <3> QED BY <3>2, <2>1 DEF Typed
  <2>5. Typed' = Append(Typed, c)
    <3>1. Typed' = [i \in 1 .. buffer_idx + 1 |-> IF i = buffer_idx + 1 THEN c ELSE input_buffer[i - 1]]
      BY <1>2, <2>1, <2>3 DEF Typed, LineOK
    <3>2. \A i \in 1 .. buffer_idx : Typed[i] = input_buffer[i - 1]
      BY DEF Typed
    <3>3. /\ Append(Typed, c) \in Seq(Chars) /\ Len(Append(Typed, c)) = buffer_idx + 1
          /\ \A i \in 1 .. buffer_idx : Append(Typed, c)[i] = Typed[i]
          /\ Append(Typed, c)[buffer_idx + 1] = c
      BY <2>1, <2>4, AppendProperties
    <3>4. Append(Typed, c) = [i \in 1 .. buffer_idx + 1 |-> Append(Typed, c)[i]]
      <4> DEFINE a == Append(Typed, c)
      <4>1. a \in [1 .. Len(a) -> Chars]
        BY <3>3, LenProperties
      <4> HIDE DEF a
      <4>2. a = [i \in 1 .. Len(a) |-> a[i]]
        BY <4>1
      <4> QED BY <4>2, <3>3 DEF a
    <3>5. \A i \in 1 .. buffer_idx + 1 :
            Append(Typed, c)[i] = IF i = buffer_idx + 1 THEN c ELSE input_buffer[i - 1]
      BY <2>1, <3>2, <3>3
    <3> QED BY <3>1, <3>4, <3>5
  <2>6. Editor!Type(c)
    BY <1>2, <2>1, <2>4, <2>5 DEF Editor!Type, Typed
  <2> QED BY <1>2, <2>1, <2>2, <2>6 DEF EditorStep, Editor!Next
<1> QED BY <1>1, <1>2 DEF Insert

\* Editing ends the line or leaves the reader as it is.
LEMMA EditStep ==
  ASSUME LineOK, reader # "command", NEW k, EditWith(k)
  PROVE  LineOK' /\ reader' \in {reader, "command"} /\ EditorStep
<1>1. CASE k = "backspace" /\ Backspace
  BY <1>1, BackspaceStep
<1>2. CASE k = "enter" /\ Enter
  BY <1>2, EnterStep
<1>3. CASE k \in DOMAIN kbd_us /\ Insert(Translated(k))
  <2>1. k \in {"letter", "digit", "pad4", "fn"}
    BY <1>3 DEF kbd_us
  <2>2. Translated(k) \in Chars \cup {NUL}
    BY <2>1 DEF Translated, kbd_us, kbd_us_shift, Chars, NUL
  <2> QED BY <1>3, <2>2, InsertStep
<1> QED BY <1>1, <1>2, <1>3 DEF EditWith

-----------------------------------------------------------------------------
(***************************************************************************)
(* Every step keeps the invariant                                          *)
(***************************************************************************)
LEMMA LineIsOK == KeyboardInv => LineOK
BY DEF KeyboardInv, TypeOK, LineOK

LEMMA InvOfInit == ASSUME Init PROVE KeyboardInv
<1>1. wire = << >> /\ wire \in Seq(CodeSet) /\ Len(wire) = 0
  BY DEF Init
<1>2. WireInv /\ ShiftInv /\ PrefixInv /\ StuckInv
  BY <1>1 DEF Init, WireInv, ShiftInv, PrefixInv, StuckInv
<1>3. /\ input_buffer \in [Position -> Chars \cup {NUL}]
      /\ \A i \in Position : input_buffer[i] = NUL /\ ~(i < 0)
      /\ buffer_idx \in 0 .. LINE_LIMIT
  BY LimitAssumption DEF Init, Blank, Position
<1>4. LineInv
  BY <1>3 DEF Init, LineInv
<1>5. TypeOK
  BY <1>3 DEF Init, TypeOK
<1> QED BY <1>2, <1>4, <1>5 DEF KeyboardInv

\* The keyboard sends: what the readers know is not touched.
LEMMA SendStep ==
  ASSUME KeyboardInv, NEW k \in Keys, NEW ext \in BOOLEAN, Press(k, ext) \/ Release(k, ext)
  PROVE  KeyboardInv' /\ EditorStep
<1> DEFINE n == Len(wire)
<1>1. PICK up \in BOOLEAN :
        /\ ext => k \in Prefixable
        /\ Sends(Codes(k, up, ext))
        /\ up => held' = held \ {k}
        /\ ~up => held' = held \cup ({k} \cap Shifts)
        /\ UNCHANGED <<modifiers, line, past>>
  <2>1. CASE Press(k, ext)
    <3>1. FALSE \in BOOLEAN
      OBVIOUS
    <3> QED BY <2>1, <3>1 DEF Press
  <2>2. CASE Release(k, ext)
    <3>1. TRUE \in BOOLEAN
      OBVIOUS
    <3> QED BY <2>2, <3>1 DEF Release
  <2> QED BY <2>1, <2>2
<1>2. /\ WireInv' /\ n \in Nat /\ Len(wire') \in Nat /\ Len(wire') > n
      /\ \A i \in 1 .. n : wire'[i] = wire[i]
      /\ wire'[Len(wire')] = Code(k, up, ext)
      /\ \A i \in n + 1 .. Len(wire') - 1 : wire'[i] = PREFIX
      /\ n = 0 => ~wire'[1].prefixed
  BY <1>1, SendKeepsWire DEF KeyboardInv
<1>3. UNCHANGED <<shift_pressed, caps_lock, is_extended, input_buffer, buffer_idx, reader, out, missed, split, outlived>>
  BY <1>1 DEF modifiers, line, past
<1>4. Code(k, up, ext).key = k /\ Code(k, up, ext).released = up /\ PREFIX.key \notin Shifts
  BY DEF Code, PREFIX, Shifts
<1>5. held \subseteq Shifts
  BY DEF KeyboardInv, TypeOK
<1>6. ASSUME held # {}, held' = {}
      PROVE  IsRelease(wire'[Len(wire')])
  <2>1. up /\ k \in held
    BY <1>6, <1>1
  <2> QED BY <2>1, <1>2, <1>4, <1>5 DEF IsRelease
<1>7. ShiftInv'
  <2>1. SUFFICES ASSUME NEW i \in 1 .. Len(wire'),
                        wire'[i].key \in Shifts, ~wire'[i].released, held' = {}
                 PROVE  \E j \in i + 1 .. Len(wire') : IsRelease(wire'[j])
    BY DEF ShiftInv, IsRelease
  <2>2. CASE i \in 1 .. n
    <3>1. CASE held # {}
      BY <3>1, <2>1, <2>2, <1>2, <1>6
    <3>2. CASE held = {}
      <4>1. wire[i].key \in Shifts /\ ~wire[i].released
        BY <2>1, <2>2, <1>2
      <4>2. PICK j \in i + 1 .. n : IsRelease(wire[j])
        BY <3>2, <2>2, <4>1 DEF KeyboardInv, ShiftInv
      <4> QED BY <4>2, <2>2, <1>2
    <3> QED BY <3>1, <3>2
  <2>3. CASE i \notin 1 .. n
    <3>1. i = Len(wire')
      BY <2>1, <2>3, <1>2, <1>4
    <3>2. k \in Shifts /\ ~up
      BY <3>1, <2>1, <1>2, <1>4
    <3> QED BY <3>2, <2>1, <1>1
  <2> QED BY <2>2, <2>3
<1>8. StuckInv'
  <2>1. SUFFICES ASSUME shift_pressed, held' = {}, ~missed
                 PROVE  \E j \in 1 .. Len(wire') : IsRelease(wire'[j])
    BY <1>3 DEF StuckInv, IsRelease
  <2>2. CASE held # {}
    BY <2>1, <2>2, <1>2, <1>6
  <2>3. CASE held = {}
    <3>1. PICK j \in 1 .. n : IsRelease(wire[j])
      BY <2>1, <2>3 DEF KeyboardInv, StuckInv
    <3> QED BY <3>1, <1>2
  <2> QED BY <2>2, <2>3
<1>9. PrefixInv'
  <2>1. CASE n = 0
    <3>1. is_extended => reader = "scan" /\ outlived
      BY <2>1 DEF KeyboardInv, PrefixInv
    <3> QED BY <3>1, <2>1, <1>2, <1>3 DEF PrefixInv
  <2>2. CASE n > 0
    <3>1. wire'[1] = wire[1] /\ Len(wire') > 0
      BY <2>2, <1>2
    <3> QED BY <3>1, <2>2, <1>3 DEF KeyboardInv, PrefixInv
  <2> QED BY <2>1, <2>2, <1>2
<1>10. TypeOK' /\ LineInv'
  <2>1. held' \subseteq Shifts
    BY <1>1, <1>5
  <2> QED BY <2>1, <1>3 DEF KeyboardInv, TypeOK, LineInv
<1>11. EditorStep
  BY <1>3 DEF EditorStep, Typed
<1> QED BY <1>2, <1>7, <1>8, <1>9, <1>10, <1>11 DEF KeyboardInv

\* A line is opened.
LEMMA StartStep ==
  ASSUME KeyboardInv, Scan \/ ScanPassword
  PROVE  KeyboardInv' /\ EditorStep
<1>1. PICK who \in {"scan", "scan_password"} :
        Started(who) /\ UNCHANGED <<wire, held, modifiers, past>>
  BY DEF Scan, ScanPassword
<1>2. LineOK' /\ EditorStep
  BY <1>1, LineIsOK, StartedStep
<1>3. UNCHANGED <<wire, held, shift_pressed, caps_lock, is_extended, missed, split, outlived>>
  BY <1>1 DEF modifiers, past
<1>4. reader = "command"
  BY <1>1 DEF Started
<1>5. WireInv' /\ ShiftInv' /\ StuckInv'
  BY <1>3 DEF KeyboardInv, WireInv, ShiftInv, StuckInv
<1>6. PrefixInv'
  BY <1>3, <1>4 DEF KeyboardInv, PrefixInv
<1>7. TypeOK' /\ LineInv'
  BY <1>2, <1>3 DEF KeyboardInv, TypeOK, LineOK
<1> QED BY <1>2, <1>5, <1>6, <1>7 DEF KeyboardInv

\* A reader takes a code.  What is left to show of a reader is how it treats
\* the modifiers, the line and what the properties remember.
LEMMA TakeStep ==
  ASSUME KeyboardInv, Take, LineOK',
         shift_pressed' \in BOOLEAN, caps_lock' \in BOOLEAN, is_extended' \in BOOLEAN,
         missed' \in BOOLEAN, split' \in BOOLEAN, outlived' \in BOOLEAN,
         shift_pressed' => \/ shift_pressed /\ (~IsRelease(scancode) \/ missed')
                           \/ scancode.key \in Shifts /\ ~scancode.released,
         missed /\ ~missed' => ~shift_pressed' \/ IsRelease(scancode),
         is_extended' => reader' = "scan" /\ (scancode = PREFIX \/ outlived'),
         scancode = PREFIX => is_extended' \/ split'
  PROVE  KeyboardInv'
<1>1. /\ WireInv' /\ ShiftInv'
      /\ Len(wire') > 0 /\ wire'[1].prefixed => scancode = PREFIX
      /\ scancode = PREFIX => Len(wire') > 0 /\ wire'[1].prefixed
      /\ (\E j \in 1 .. Len(wire) : IsRelease(wire[j]))
           => IsRelease(scancode) \/ \E j \in 1 .. Len(wire') : IsRelease(wire'[j])
      /\ scancode.key \in Shifts /\ ~scancode.released
           => held' # {} \/ \E j \in 1 .. Len(wire') : IsRelease(wire'[j])
  BY TakeKeepsWire DEF KeyboardInv
<1>2. held' = held
  BY DEF Take
<1>3. StuckInv'
  <2>1. SUFFICES ASSUME shift_pressed', held' = {}, ~missed'
                 PROVE  \E j \in 1 .. Len(wire') : IsRelease(wire'[j])
    BY DEF StuckInv, IsRelease
  <2>2. CASE scancode.key \in Shifts /\ ~scancode.released
    BY <2>1, <2>2, <1>1
  <2>3. CASE shift_pressed /\ ~IsRelease(scancode)
    <3>1. ~missed
      BY <2>1, <2>3
    <3>2. \E j \in 1 .. Len(wire) : IsRelease(wire[j])
      BY <2>1, <2>3, <3>1, <1>2 DEF KeyboardInv, StuckInv
    <3> QED BY <3>2, <2>3, <1>1
  <2> QED BY <2>1, <2>2, <2>3
<1>4. PrefixInv'
  BY <1>1 DEF PrefixInv
<1>5. TypeOK' /\ LineInv'
  BY <1>2 DEF KeyboardInv, TypeOK, LineOK
<1> QED BY <1>1, <1>3, <1>4, <1>5 DEF KeyboardInv

LEMMA LineUntouched ==
  ASSUME LineOK, UNCHANGED line
  PROVE  LineOK' /\ reader' = reader /\ EditorStep
<1>1. UNCHANGED <<input_buffer, buffer_idx, reader, out>>
  BY DEF line
<1> QED BY <1>1 DEF LineOK, LineInv, EditorStep, Typed

\* Somebody else reads: prefixes and releases it takes are remembered.
LEMMA CommandStep ==
  ASSUME KeyboardInv, CommandRead
  PROVE  KeyboardInv' /\ EditorStep
<1>1. LineOK' /\ reader' = reader /\ EditorStep
  BY LineIsOK, LineUntouched DEF CommandRead
<1>2. UNCHANGED <<shift_pressed, caps_lock, is_extended>>
  BY DEF CommandRead, modifiers
<1>3. outlived' \in BOOLEAN
  BY DEF CommandRead, KeyboardInv, TypeOK
<1>4. ~is_extended
  BY DEF KeyboardInv, PrefixInv, CommandRead
<1>5. /\ missed' = (missed \/ IsRelease(scancode)) /\ split' = (scancode = PREFIX)
      /\ missed' \in BOOLEAN /\ split' \in BOOLEAN
  BY DEF CommandRead, IsShiftRelease, IsRelease
<1>6. /\ shift_pressed' \in BOOLEAN /\ caps_lock' \in BOOLEAN /\ is_extended' \in BOOLEAN
  BY <1>2 DEF KeyboardInv, TypeOK
<1>7. shift_pressed' => shift_pressed /\ (~IsRelease(scancode) \/ missed')
  BY <1>2, <1>5
<1>8. Take
  BY DEF CommandRead
<1>9. KeyboardInv'
  BY <1>1, <1>2, <1>4, <1>5, <1>6, <1>7, <1>8, <1>3, TakeStep
<1> QED BY <1>1, <1>9

\* Only the code behind a prefix, or what follows a made-up shift, is read
\* with is_extended set.
LEMMA ExtendedKey ==
  ASSUME KeyboardInv, Take
  PROVE  /\ is_extended => outlived \/ scancode.prefixed
         /\ scancode.released \in BOOLEAN /\ PREFIX.key = "prefix" /\ ~PREFIX.released
<1>1. Len(wire) \in Nat /\ Len(wire) > 0 /\ scancode = wire[1] /\ scancode \in CodeSet
  BY TakeFacts DEF KeyboardInv
<1>2. is_extended => outlived \/ wire[1].prefixed
  BY DEF KeyboardInv, PrefixInv
<1> QED BY <1>1, <1>2 DEF CodeSet, PREFIX

LEMMA EditedKey ==
  ASSUME NEW k, EditWith(k)
  PROVE  k \notin Shifts /\ k # "prefix"
BY DEF EditWith, kbd_us, Shifts

\* scan reads: it sees prefixes, so only its own is pending afterwards.
LEMMA HandlerStep ==
  ASSUME KeyboardInv, keyboard_handler
  PROVE  KeyboardInv' /\ EditorStep
<1>1. /\ Take /\ reader = "scan" /\ LineOK
      /\ missed' = (missed /\ ~IsRelease(scancode)) /\ split' = FALSE
      /\ missed' \in BOOLEAN /\ split' \in BOOLEAN /\ outlived' \in BOOLEAN
      /\ IsModifierPress /\ (outlived \/ scancode.prefixed) => outlived'
  BY LineIsOK DEF keyboard_handler, IsShiftRelease, IsRelease
<1>2. /\ is_extended => outlived \/ scancode.prefixed
      /\ scancode.released \in BOOLEAN /\ PREFIX.key = "prefix" /\ ~PREFIX.released
  BY <1>1, ExtendedKey
<1>3. shift_pressed \in BOOLEAN /\ caps_lock \in BOOLEAN /\ is_extended \in BOOLEAN
  BY DEF KeyboardInv, TypeOK
<1>4. CASE scancode = PREFIX /\ is_extended' = TRUE /\ UNCHANGED <<shift_pressed, caps_lock, line>>
  <2>1. LineOK' /\ reader' = reader /\ EditorStep
    BY <1>1, <1>4, LineUntouched
  <2>2. ~IsRelease(scancode)
    BY <1>2, <1>4 DEF IsRelease
  <2> QED BY <1>1, <1>3, <1>4, <2>1, <2>2, TakeStep
<1>5. CASE scancode.released /\ Released
  <2>1. LineOK' /\ reader' = reader /\ EditorStep
    BY <1>1, <1>5, LineUntouched DEF Released
  <2>2. /\ shift_pressed' = (shift_pressed /\ scancode.key \notin Shifts)
        /\ is_extended' = FALSE /\ caps_lock' = caps_lock
    BY <1>5 DEF Released
  <2>3. /\ shift_pressed' \in BOOLEAN /\ scancode # PREFIX
        /\ shift_pressed' => shift_pressed /\ ~IsRelease(scancode)
    BY <1>2, <1>5, <2>2 DEF IsRelease
  <2> QED BY <1>1, <1>3, <2>1, <2>2, <2>3, TakeStep
<1>6. CASE /\ ~scancode.released /\ scancode.key \in Shifts
           /\ shift_pressed' = TRUE /\ UNCHANGED <<caps_lock, is_extended, line>>
  <2>1. LineOK' /\ reader' = reader /\ EditorStep
    BY <1>1, <1>6, LineUntouched
  <2>2. (is_extended => outlived') /\ scancode # PREFIX /\ ~IsRelease(scancode)
    BY <1>1, <1>2, <1>6 DEF Shifts, IsModifierPress, IsRelease
  <2> QED BY <1>1, <1>3, <1>6, <2>1, <2>2, TakeStep
<1>7. CASE /\ ~scancode.released /\ scancode.key = "caps"
           /\ caps_lock' = ~caps_lock /\ UNCHANGED <<shift_pressed, is_extended, line>>
  <2>1. LineOK' /\ reader' = reader /\ EditorStep
    BY <1>1, <1>7, LineUntouched
  <2>2. (is_extended => outlived') /\ scancode # PREFIX /\ ~IsRelease(scancode)
    BY <1>1, <1>2, <1>7 DEF IsModifierPress, IsRelease
  <2>3. caps_lock' \in BOOLEAN
    BY <1>7
  <2> QED BY <1>1, <1>3, <1>7, <2>1, <2>2, <2>3, TakeStep
<1>8. CASE /\ ~scancode.released /\ scancode.key \in DOMAIN kbd_us \cup {"backspace", "enter"}
           /\ is_extended' = FALSE /\ UNCHANGED <<shift_pressed, caps_lock, line>>
  <2>1. LineOK' /\ reader' = reader /\ EditorStep
    BY <1>1, <1>8, LineUntouched
  <2>2. scancode # PREFIX /\ ~IsRelease(scancode)
    BY <1>2, <1>8 DEF kbd_us, IsRelease
  <2> QED BY <1>1, <1>3, <1>8, <2>1, <2>2, TakeStep
<1>9. CASE ~scancode.released /\ ~is_extended /\ EditWith(scancode.key) /\ UNCHANGED modifiers
  <2>1. LineOK' /\ reader' \in {reader, "command"} /\ EditorStep
    BY <1>1, <1>9, EditStep
  <2>2. UNCHANGED <<shift_pressed, caps_lock, is_extended>>
    BY <1>9 DEF modifiers
  <2>3. scancode # PREFIX /\ ~IsRelease(scancode)
    BY <1>2, <1>9, EditedKey DEF IsRelease
  <2> QED BY <1>1, <1>3, <1>9, <2>1, <2>2, <2>3, TakeStep
<1> QED BY <1>4, <1>5, <1>6, <1>7, <1>8, <1>9 DEF keyboard_handler

\* scan_password reads: it never sets is_extended, so a prefix is split off.
LEMMA PasswordStep ==
  ASSUME KeyboardInv, PasswordKey
  PROVE  KeyboardInv' /\ EditorStep
<1>1. /\ Take /\ reader = "scan_password" /\ LineOK
      /\ missed' = (missed /\ ~IsRelease(scancode)) /\ split' = (scancode = PREFIX)
      /\ missed' \in BOOLEAN /\ split' \in BOOLEAN /\ is_extended' = is_extended
      /\ outlived' \in BOOLEAN
  BY LineIsOK DEF PasswordKey, IsShiftRelease, IsRelease, KeyboardInv, TypeOK
<1>2. is_extended' = FALSE
  BY <1>1 DEF KeyboardInv, PrefixInv, TypeOK
<1>3. scancode.released \in BOOLEAN
  BY <1>1, ExtendedKey
<1>4. LineOK' /\ EditorStep
  <2>1. CASE UNCHANGED line
    BY <1>1, <2>1, LineUntouched
  <2>2. CASE EditWith(scancode.key)
    BY <1>1, <2>2, EditStep
  <2> QED BY <2>1, <2>2 DEF PasswordKey
<1>5. /\ shift_pressed' \in BOOLEAN
      /\ shift_pressed' => \/ shift_pressed /\ ~IsRelease(scancode)
                           \/ scancode.key \in Shifts /\ ~scancode.released
  BY <1>3 DEF PasswordKey, PasswordShift, IsRelease, KeyboardInv, TypeOK
<1>6. caps_lock' \in BOOLEAN
  BY DEF PasswordKey
<1> QED BY <1>1, <1>2, <1>4, <1>5, <1>6, TakeStep

LEMMA NextStep ==
  ASSUME KeyboardInv, [Next]_vars
  PROVE  KeyboardInv' /\ EditorStep
<1>1. CASE UNCHANGED vars
  <2>1. /\ UNCHANGED <<wire, held, shift_pressed, caps_lock, is_extended>>
        /\ UNCHANGED <<input_buffer, buffer_idx, reader, out, missed, split, outlived>>
    BY <1>1 DEF vars, modifiers, line, past
  <2>2. TypeOK' /\ WireInv' /\ ShiftInv' /\ StuckInv' /\ PrefixInv' /\ LineInv'
    BY <2>1 DEF KeyboardInv, TypeOK, WireInv, ShiftInv, StuckInv, PrefixInv, LineInv
  <2>3. EditorStep
    BY <2>1 DEF EditorStep, Typed
  <2> QED BY <2>2, <2>3 DEF KeyboardInv
<1>2. CASE \E k \in Keys, ext \in BOOLEAN : Press(k, ext) \/ Release(k, ext)
  BY <1>2, SendStep
<1>3. CASE Scan \/ ScanPassword
  BY <1>3, StartStep
<1> QED
  BY <1>1, <1>2, <1>3, HandlerStep, PasswordStep, CommandStep DEF Next

-----------------------------------------------------------------------------
(***************************************************************************)
(* Theorems                                                                *)
(***************************************************************************)
LEMMA InvAlways == Spec => []KeyboardInv
BY InvOfInit, NextStep, PTL DEF Spec

\* The variables of keyboard.h keep their ranges, and the line leaves room for
\* its terminating NUL, for every limit.
THEOREM TypeCorrect == Spec => []TypeOK
<1>1. KeyboardInv => TypeOK
  BY DEF KeyboardInv
<1> QED BY <1>1, InvAlways, PTL

\* shift_pressed is never left on by scan and scan_password: only a command that
\* takes the release for itself can do that, however many codes are waiting.
THEOREM ShiftIsReleased == Spec => []NoStuckShift
<1>1. ASSUME KeyboardInv PROVE NoStuckShift
  <2>1. DOMAIN wire = 1 .. Len(wire)
    BY <1>1 DEF KeyboardInv, WireInv
  <2> QED BY <1>1, <2>1 DEF KeyboardInv, StuckInv, NoStuckShift, IsRelease
<1> QED BY <1>1, InvAlways, PTL

\* is_extended is set between a prefix and its code, unless another reader
\* took the prefix, and outlives it only after a made-up shift, in the same line.
THEOREM PrefixStaysPaired == Spec => []PrefixPaired
<1>1. ASSUME KeyboardInv PROVE PrefixPaired
  <2>1. /\ wire \in Seq(CodeSet)
        /\ wire # << >> <=> Len(wire) > 0
        /\ wire # << >> => Head(wire) = wire[1]
    BY <1>1 DEF KeyboardInv, WireInv
  <2> QED BY <1>1, <2>1 DEF KeyboardInv, PrefixInv, PrefixPaired
<1> QED BY <1>1, InvAlways, PTL

\* scan and scan_password implement the line editor: the caller gets what was
\* typed and not erased, for every line limit.
THEOREM ImplementsLineEditor == Spec => IsLineEditor
<1>1. Init => Editor!Init
  BY DEF Init, Editor!Init
<1>2. ASSUME KeyboardInv, [Next]_vars
      PROVE  [Editor!Next]_<<reader # "command", Typed, out>>
  BY <1>2, NextStep DEF EditorStep
<1> QED BY <1>1, <1>2, InvAlways, PTL DEF Spec, IsLineEditor, Editor!Spec, Typed
=============================================================================
