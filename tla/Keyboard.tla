------------------------------ MODULE Keyboard ------------------------------
(***************************************************************************)
(* Reading lines from the keyboard (keyboard.h, and scan_password of       *)
(* login.h).  scan and scan_password poll the controller and keep the line *)
(* and the modifiers in the same static variables.  Between two lines a    *)
(* command may take scan codes for itself (cmd_top, internetmain and the   *)
(* clock wait for q this way) and tell nobody.                             *)
(*                                                                         *)
(* The keyboard is external: it sends a code when a key goes down, a       *)
(* release code when it comes up, and puts the prefix 0xE0 before the      *)
(* codes of the keys it shares with the numeric pad (the arrows and the    *)
(* second enter).  It also makes up shifts, with that prefix: it takes     *)
(* Shift back before an arrow and gives it again afterwards, or with Num   *)
(* Lock on gives it before and takes it back, as it does around Print      *)
(* Screen.  Here such a shift may come at any time.                        *)
(***************************************************************************)
EXTENDS Naturals, Sequences

CONSTANTS
  Keys,         \* the keys in use
  LINE_LIMIT,   \* 254, characters in a line
  WIRE_LIMIT    \* bound: codes sent and not yet read

AllKeys == {"letter", "digit", "pad4", "fn", "backspace", "enter", "caps", "lshift", "rshift"}
Shifts == {"lshift", "rshift"}

ASSUME KeysAssumption == Keys \subseteq AllKeys
ASSUME LimitAssumption == LINE_LIMIT \in Nat \ {0} /\ WIRE_LIMIT \in Nat

VARIABLES
  wire,            \* codes the controller has for whoever reads next
  held,            \* shift keys that are down, as far as their codes say
  reader,          \* who polls: "scan", "scan_password" or "command"
  shift_pressed, caps_lock, is_extended,
  input_buffer, buffer_idx,
  out,             \* what the last call copied to its caller
  missed,          \* a command took a shift key's release
  split,           \* the last code was a prefix, taken by a command or scan_password
  outlived         \* since the press of a made-up shift scan has read nothing that
                   \* should end a prefix, only presses of modifiers

modifiers == <<shift_pressed, caps_lock, is_extended>>
line == <<input_buffer, buffer_idx, reader, out>>
past == <<missed, split, outlived>>   \* what only the properties look at
vars == <<wire, held, modifiers, line, past>>

(***************************************************************************)
(* A code says which key, whether it is a release, and (for the            *)
(* properties; no reader sees it) whether a prefix goes with it.           *)
(***************************************************************************)
Prefixable == {"pad4", "enter"} \cup Shifts
PREFIX == [key |-> "prefix", released |-> FALSE, prefixed |-> FALSE]
Code(k, up, ext) == [key |-> k, released |-> up, prefixed |-> ext]
Codes(k, up, ext) ==
  IF ext THEN <<PREFIX, Code(k, up, ext)>> ELSE <<Code(k, up, ext)>>

NUL == "nul"
\* The left arrow and the 4 of the numeric pad share the code 0x4B, for which
\* both tables have "8".
kbd_us == [letter |-> "a", digit |-> "1", pad4 |-> "8", fn |-> NUL]
kbd_us_shift == [letter |-> "A", digit |-> "!", pad4 |-> "8", fn |-> NUL]
UpperCase == {"A"}
Chars == {"a", "A", "1", "!", "8"}

Position == 0 .. LINE_LIMIT + 1
Blank == [i \in Position |-> NUL]

Init ==
  /\ wire = << >> /\ held = {}
  /\ reader = "command"
  /\ shift_pressed = FALSE /\ caps_lock = FALSE /\ is_extended = FALSE
  /\ input_buffer = Blank /\ buffer_idx = 0 /\ out = << >>
  /\ missed = FALSE /\ split = FALSE /\ outlived = FALSE

-----------------------------------------------------------------------------
(***************************************************************************)
(* The keyboard.  A key that is held may send its code again.              *)
(***************************************************************************)
Sends(codes) ==
  /\ Len(wire) + Len(codes) <= WIRE_LIMIT
  /\ wire' = wire \o codes

Press(k, ext) ==
  /\ ext => k \in Prefixable
  /\ Sends(Codes(k, FALSE, ext))
  /\ held' = held \cup ({k} \cap Shifts)
  /\ UNCHANGED <<modifiers, line, past>>

Release(k, ext) ==
  /\ ext => k \in Prefixable
  /\ Sends(Codes(k, TRUE, ext))
  /\ held' = held \ {k}
  /\ UNCHANGED <<modifiers, line, past>>

-----------------------------------------------------------------------------
(***************************************************************************)
(* The line, edited in the same way by both readers.                       *)
(***************************************************************************)
\* Mutant of Started: the index is not reset.
Started_kept(who) ==
  /\ reader = "command"
  /\ reader' = who
  /\ input_buffer' = Blank /\ out' = << >>
  /\ UNCHANGED buffer_idx

Started(who) ==
  /\ reader = "command"
  /\ reader' = who
  /\ input_buffer' = Blank /\ buffer_idx' = 0 /\ out' = << >>

Backspace ==
  \/ /\ buffer_idx = 0
     /\ UNCHANGED line
  \/ /\ buffer_idx > 0
     /\ buffer_idx' = buffer_idx - 1
     /\ input_buffer' = [input_buffer EXCEPT ![buffer_idx - 1] = NUL]
     /\ UNCHANGED <<reader, out>>

\* What the loop at the end of scan copies: everything before the first NUL.
IsEnd(buffer, n) == buffer[n] = NUL /\ \A m \in Position : m < n => buffer[m] # NUL
Copied(buffer) ==
  LET n == CHOOSE n \in Position : IsEnd(buffer, n)
  IN [i \in 1 .. n |-> buffer[i - 1]]

Enter ==
  /\ input_buffer' = [input_buffer EXCEPT ![buffer_idx] = NUL]
  /\ reader' = "command"
  /\ out' = Copied(input_buffer')
  /\ UNCHANGED buffer_idx

Insert(c) ==
  \/ /\ c = NUL \/ buffer_idx >= LINE_LIMIT
     /\ UNCHANGED line
  \/ /\ c # NUL /\ buffer_idx < LINE_LIMIT
     /\ input_buffer' = [input_buffer EXCEPT ![buffer_idx] = c]
     /\ buffer_idx' = buffer_idx + 1
     /\ UNCHANGED <<reader, out>>

\* Caps Lock acts on letters only, and does not undo a shift.
Translated(k) ==
  IF shift_pressed \/ (caps_lock /\ kbd_us_shift[k] \in UpperCase)
    THEN kbd_us_shift[k] ELSE kbd_us[k]

EditWith(k) ==
  \/ k = "backspace" /\ Backspace
  \/ k = "enter" /\ Enter
  \/ k \in DOMAIN kbd_us /\ Insert(Translated(k))

-----------------------------------------------------------------------------
(***************************************************************************)
(* Taking a code, with what the properties remember of it.                 *)
(***************************************************************************)
scancode == Head(wire)
IsShiftRelease == scancode.released /\ scancode.key \in Shifts
IsModifierPress == ~scancode.released /\ scancode.key \in Shifts \cup {"caps"}

Take ==
  /\ wire # << >>
  /\ wire' = Tail(wire)
  /\ UNCHANGED held

Scan == Started("scan") /\ UNCHANGED <<wire, held, modifiers, past>>
ScanPassword == Started("scan_password") /\ UNCHANGED <<wire, held, modifiers, past>>

\* Mutant of Released: the prefix is not forgotten.
Released_prefix ==
  /\ shift_pressed' = (shift_pressed /\ scancode.key \notin Shifts)
  /\ UNCHANGED <<caps_lock, is_extended, line>>

Released ==
  /\ shift_pressed' = (shift_pressed /\ scancode.key \notin Shifts)
  /\ is_extended' = FALSE
  /\ UNCHANGED <<caps_lock, line>>

keyboard_handler ==
  /\ reader = "scan" /\ Take
  /\ \/ /\ scancode = PREFIX
        /\ is_extended' = TRUE
        /\ UNCHANGED <<shift_pressed, caps_lock, line>>
     \/ scancode.released /\ Released
     \/ /\ ~scancode.released /\ scancode.key \in Shifts
        /\ shift_pressed' = TRUE
        /\ UNCHANGED <<caps_lock, is_extended, line>>
     \/ /\ ~scancode.released /\ scancode.key = "caps"
        /\ caps_lock' = ~caps_lock
        /\ UNCHANGED <<shift_pressed, is_extended, line>>
     \/ /\ ~scancode.released /\ scancode.key \in DOMAIN kbd_us \cup {"backspace", "enter"}
        /\ is_extended
        /\ is_extended' = FALSE
        /\ UNCHANGED <<shift_pressed, caps_lock, line>>
     \/ /\ ~scancode.released /\ ~is_extended
        /\ EditWith(scancode.key)
        /\ UNCHANGED modifiers
  /\ missed' = (missed /\ ~IsShiftRelease)
  /\ split' = FALSE
  /\ outlived' = (IsModifierPress /\ (outlived \/ scancode.prefixed))

\* Mutant of PasswordShift: only the left key's release counts.
PasswordShift_left ==
  IF scancode.key \in Shifts
    THEN ~scancode.released \/ (shift_pressed /\ scancode.key # "lshift")
    ELSE shift_pressed

PasswordShift ==
  IF scancode.key \in Shifts THEN ~scancode.released ELSE shift_pressed

\* The loop of scan_password ignores prefixes and releases, not the code
\* that follows a prefix.
PasswordKey ==
  /\ reader = "scan_password" /\ Take
  /\ \/ (scancode.released \/ scancode.key \in Shifts \cup {"caps", "prefix"}) /\ UNCHANGED line
     \/ ~scancode.released /\ EditWith(scancode.key)
  /\ shift_pressed' = PasswordShift
  /\ caps_lock' = (caps_lock # (scancode.key = "caps" /\ ~scancode.released))
  /\ UNCHANGED <<is_extended, outlived>>
  /\ missed' = (missed /\ ~IsShiftRelease)
  /\ split' = (scancode = PREFIX)

\* A command that polls for its own key reads a code and drops it.
CommandRead ==
  /\ reader = "command" /\ Take
  /\ missed' = (missed \/ IsShiftRelease)
  /\ split' = (scancode = PREFIX)
  /\ UNCHANGED <<modifiers, line, outlived>>

Next ==
  \/ \E k \in Keys, ext \in BOOLEAN : Press(k, ext) \/ Release(k, ext)
  \/ Scan \/ ScanPassword
  \/ keyboard_handler \/ PasswordKey \/ CommandRead

Spec == Init /\ [][Next]_vars

-----------------------------------------------------------------------------
(***************************************************************************)
(* Properties                                                              *)
(***************************************************************************)

\* Every variable of keyboard.h keeps its range; the line always leaves room
\* for the terminating NUL (input_buffer has two positions more than a line).
TypeOK ==
  /\ held \subseteq Shifts
  /\ reader \in {"scan", "scan_password", "command"}
  /\ shift_pressed \in BOOLEAN /\ caps_lock \in BOOLEAN /\ is_extended \in BOOLEAN
  /\ input_buffer \in [Position -> Chars \cup {NUL}]
  /\ buffer_idx \in 0 .. LINE_LIMIT
  /\ missed \in BOOLEAN /\ split \in BOOLEAN /\ outlived \in BOOLEAN

\* Shift does not stay on by itself: when shift_pressed is set, a shift key is
\* down, or its release is still to be read, or a command took the release.
\* It relies on scan and scan_password keeping the same variable up to date.
NoStuckShift ==
  shift_pressed =>
    \/ held # {} \/ missed
    \/ \E i \in DOMAIN wire : wire[i].released /\ wire[i].key \in Shifts

\* A prefix ends with its code, except a made-up shift's: is_extended is set
\* while scan has read a prefix and not yet the code behind it, and after a
\* made-up shift until a key is released or swallowed (the return at the
\* press of a shift in keyboard_handler leaves the flag).  It never survives
\* the line, and scan takes the code of an arrow for a character only if
\* somebody else took the prefix.
PrefixPaired ==
  /\ is_extended => /\ reader = "scan"
                    /\ outlived \/ (wire # << >> /\ Head(wire).prefixed)
  /\ reader = "scan" /\ wire # << >> /\ Head(wire).prefixed => is_extended \/ split

Editor ==
  INSTANCE LineEditor WITH
    Limit <- LINE_LIMIT, Char <- Chars,
    open <- reader # "command",
    line <- [i \in 1 .. buffer_idx |-> input_buffer[i - 1]]

\* scan and scan_password together are a line editor: what the caller gets is
\* what was typed and not erased, whatever the modifiers and other readers did.
IsLineEditor == Editor!Spec
=============================================================================
