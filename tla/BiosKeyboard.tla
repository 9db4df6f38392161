---------------------------- MODULE BiosKeyboard ----------------------------
(***************************************************************************)
(* The keyboard services of the BIOS in core/keyboard.c: the handler of    *)
(* int 9, which turns scan codes into shift states and keystrokes, the     *)
(* ring of keystrokes in the BIOS data area, and int 16h, through which    *)
(* the guest takes them.                                                   *)
(*                                                                         *)
(* The scan codes come one by one and in order (SeenInOrder of             *)
(* KeyboardPath.tla); the bytes of a key are on the `wire` until the       *)
(* handler has seen them.  A set of names stands for the bits of a flag    *)
(* byte.  Bit 3 of the second one (pause) is left out: only the guest      *)
(* could set it, the handler stops the program first.                      *)
(***************************************************************************)
EXTENDS Integers, Sequences

CONSTANTS
  Keys,       \* the keys that are typed
  ScanAscii,  \* the rows of scan_to_scanascii for their scan codes
  Slots,      \* the places of the ring, (0x3e - 0x1e) / 2
  MaxEvents,  \* bound: how many keys are pressed and released
  MaxCalls    \* bound: how often int 16h finds a keystroke

Byte == 0..255
WordSize == 65536
Word == 0..(WordSize - 1)

\* dp_keyboard_add_key: the keys of one code, those with the prefix e0, and
\* Pause, which has two codes after e1.
SingleKey == [prefix : {<<>>}, codes : {<<code>> : code \in (1..83) \cup (86..88)}]
ExtendedKey == [prefix : {<<224>>},
                codes : {<<code>> : code \in {28, 29, 53, 56, 71, 72, 73, 75, 77}
                                               \cup (79..83)}]
PauseKey == [prefix |-> <<225>>, codes |-> <<29, 69>>]
Key == SingleKey \cup ExtendedKey \cup {PauseKey}

\* The codes of the shift keys and locks: they are not looked up.
ShiftCodes == {29, 42, 54, 56, 58, 69, 70}

Row == [normal : Word, shift : Word, control : Word, alt : Word]

ASSUME BiosKeyboardAssumption ==
  /\ Keys \subseteq Key
  /\ DOMAIN ScanAscii \subseteq 0..88
  /\ \A scan \in DOMAIN ScanAscii : ScanAscii[scan] \in Row
  /\ \A key \in Keys : key.codes[1] \in ShiftCodes \cup DOMAIN ScanAscii
  /\ Slots \in Nat \ {0, 1}
  /\ MaxEvents \in Nat
  /\ MaxCalls \in Nat

VARIABLES
  wire,      \* what the controller has yet to send of the last key
  flags1, flags2, flags3, leds,
  token,     \* the number typed with Alt
  buffer, head, tail,
  ax,        \* what the last call of int 16h returned
  \* history
  held,      \* the keys that are down
  accepted,  \* the keystrokes that the ring took
  given,     \* the keystrokes that int 16h, function 0, returned
  announced, \* <<the keystroke that function 1 showed>>, or <<>>
  typed      \* how many keys were pressed and released

flag_vars == <<flags1, flags2, flags3, leds>>
ring_vars == <<buffer, head, tail>>
guest_vars == <<ax, given, announced>>
host_vars == <<held, typed>>
vars == <<wire, flag_vars, token, ring_vars, guest_vars, host_vars, accepted>>

-----------------------------------------------------------------------------
(***************************************************************************)
(* Keys and scan codes.                                                    *)
(***************************************************************************)

KeyBytes(key, pressed) ==
  key.prefix \o [n \in DOMAIN key.codes |->
                   IF pressed THEN key.codes[n] ELSE key.codes[n] + 128]

\* The keyboard presses a key that is down once more when it repeats.  The
\* next key waits for the bytes of this one: the handler sees the same bytes.
TypeKey(key, pressed) ==
  /\ wire = <<>>
  /\ typed < MaxEvents
  /\ ~pressed => key \in held
  /\ wire' = KeyBytes(key, pressed)
  /\ held' = IF pressed THEN held \cup {key} ELSE held \ {key}
  /\ typed' = typed + 1
  /\ UNCHANGED <<flag_vars, token, ring_vars, guest_vars, accepted>>

\* The codes of make and break, and what is left of a code without its bit 7.
Make(scan) == scan < 128
Code(scan) == scan % 128

-----------------------------------------------------------------------------
(***************************************************************************)
(* The ring.                                                               *)
(***************************************************************************)

\* Fault: the place after the last one is behind the ring.
FollowingRunsOn(place) == IF place + 1 > Slots THEN 0 ELSE place + 1

Following(place) == IF place + 1 >= Slots THEN 0 ELSE place + 1

\* Fault: a full ring is taken for an empty one.
AddKeyUnchecked(code) ==
  IF code = 0
  THEN UNCHANGED <<ring_vars, accepted>>
  ELSE /\ buffer' = [buffer EXCEPT ![tail] = code]
       /\ tail' = Following(tail)
       /\ accepted' = Append(accepted, code)
       /\ UNCHANGED head

\* add_key and BIOS_AddKeyToBuffer: one place of the ring is always free, and
\* a keystroke that finds no other is dropped.
AddKey(code) ==
  IF code = 0 \/ Following(tail) = head
  THEN UNCHANGED <<ring_vars, accepted>>
  ELSE /\ buffer' = [buffer EXCEPT ![tail] = code]
       /\ tail' = Following(tail)
       /\ accepted' = Append(accepted, code)
       /\ UNCHANGED head

NoKey == UNCHANGED <<ring_vars, accepted>>

-----------------------------------------------------------------------------
(***************************************************************************)
(* The translation of a key that is not a shift key.                       *)
(***************************************************************************)

ScanOf(code) == code \div 256
AsciiOf(code) == code % 256

Shifted == flags1 \cap {"lshift", "rshift"} # {}

Column(row) ==
  CASE "alt" \in flags1  -> row.alt
    [] "alt" \notin flags1 /\ "ctrl" \in flags1 -> row.control
    [] flags1 \cap {"alt", "ctrl"} = {} /\ Shifted -> row.shift
    [] OTHER -> row.normal

\* Caps lock turns upper case and lower case letters around.
CapsColumn(row) ==
  CASE "caps" \in flags1 /\ Shifted /\ AsciiOf(Column(row)) \in 65..90
         -> row.normal
    [] "caps" \in flags1 /\ ~Shifted /\ AsciiOf(Column(row)) \in 97..122
         -> row.shift
    [] OTHER -> Column(row)

\* The return key and the slash of the number pad.
ExtendedCode(scan, code) ==
  CASE scan = 28 -> IF "alt" \in flags1 THEN 42496 ELSE AsciiOf(code) + 57344
    [] scan = 53 -> CASE "alt" \in flags1 -> 41984
                      [] flags1 \cap {"alt", "ctrl"} = {"ctrl"} -> 38144
                      [] OTHER -> 57391
    [] OTHER -> code

NormalCode(scan) ==
  LET code == CapsColumn(ScanAscii[scan])
  IN IF "e0" \in flags3 THEN ExtendedCode(scan, code) ELSE code

\* A cursor key with the prefix e0.
CursorCode(row) ==
  CASE "alt" \in flags1 -> (row.normal + 20480) % WordSize
    [] "alt" \notin flags1 /\ "ctrl" \in flags1 -> ScanOf(row.control) * 256 + 224
    [] flags1 \cap {"alt", "ctrl"} = {} /\ (Shifted \/ "num" \in flags1)
         -> ScanOf(row.shift) * 256 + 224
    [] OTHER -> ScanOf(row.normal) * 256 + 224

\* The same place of the number pad, without Alt.
PadCode(row) ==
  CASE "ctrl" \in flags1 -> row.control
    [] "ctrl" \notin flags1 /\ (Shifted \/ "num" \in flags1) -> row.shift
    [] OTHER -> row.normal

-----------------------------------------------------------------------------
(***************************************************************************)
(* int 9.                                                                  *)
(***************************************************************************)

\* irq1_end: the prefix e0 is for one code only.
End(scan, f1, f2, f3) ==
  /\ flags1' = f1
  /\ flags2' = f2
  /\ flags3' = IF scan = 224 THEN f3 ELSE f3 \ {"e0"}

SetIf(set, name, on) == IF on THEN set \cup {name} ELSE set \ {name}

\* fa, and the prefixes e0 and e1.
Special(scan) ==
  /\ scan \in {250, 224, 225}
  /\ End(scan, flags1, flags2,
         flags3 \cup (CASE scan = 224 -> {"e0"} [] scan = 225 -> {"e1"} [] OTHER -> {}))
  /\ NoKey
  /\ UNCHANGED <<leds, token>>

\* Fault: the release of one Ctrl key ends both.
ControlForgets(scan) ==
  /\ Code(scan) = 29
  /\ LET right == "e0" \in flags3
         f2 == IF right THEN flags2 ELSE SetIf(flags2, "lctrl", Make(scan))
         f3 == IF right THEN SetIf(flags3, "rctrl", Make(scan)) ELSE flags3
     IN End(scan, SetIf(flags1, "ctrl", Make(scan)), f2, f3)
  /\ NoKey
  /\ UNCHANGED <<leds, token>>

\* 1d belongs to Pause after e1, else to a Ctrl key; Ctrl lasts until both of
\* them are up.
Control(scan) ==
  /\ Code(scan) = 29
  /\ IF "e1" \in flags3
     THEN End(scan, flags1, flags2, flags3)
     ELSE LET right == "e0" \in flags3
              f2 == IF right THEN flags2 ELSE SetIf(flags2, "lctrl", Make(scan))
              f3 == IF right THEN SetIf(flags3, "rctrl", Make(scan)) ELSE flags3
          IN End(scan, SetIf(flags1, "ctrl", "lctrl" \in f2 \/ "rctrl" \in f3), f2, f3)
  /\ NoKey
  /\ UNCHANGED <<leds, token>>

Shift(scan) ==
  /\ Code(scan) \in {42, 54}
  /\ End(scan, SetIf(flags1, IF Code(scan) = 42 THEN "lshift" ELSE "rshift", Make(scan)),
         flags2, flags3)
  /\ NoKey
  /\ UNCHANGED <<leds, token>>

\* Fault: the number typed is not taken back.
AltKeepsToken(scan) ==
  /\ Code(scan) = 56
  /\ LET right == "e0" \in flags3
         f2 == IF right THEN flags2 ELSE SetIf(flags2, "lalt", Make(scan))
         f3 == IF right THEN SetIf(flags3, "ralt", Make(scan)) ELSE flags3
         alt == "lalt" \in f2 \/ "ralt" \in f3
     IN /\ End(scan, SetIf(flags1, "alt", alt), f2, f3)
        /\ AddKey(IF alt THEN 0 ELSE token)
  /\ UNCHANGED <<leds, token>>

\* When both Alt keys are up, the number typed meanwhile becomes a keystroke.
Alt(scan) ==
  /\ Code(scan) = 56
  /\ LET right == "e0" \in flags3
         f2 == IF right THEN flags2 ELSE SetIf(flags2, "lalt", Make(scan))
         f3 == IF right THEN SetIf(flags3, "ralt", Make(scan)) ELSE flags3
         alt == "lalt" \in f2 \/ "ralt" \in f3
     IN /\ End(scan, SetIf(flags1, "alt", alt), f2, f3)
        /\ AddKey(IF alt THEN 0 ELSE token)
        /\ token' = IF alt THEN token ELSE 0
  /\ UNCHANGED leds

LockOf(code) == CASE code = 58 -> "caps" [] code = 69 -> "num" [] code = 70 -> "scroll"

Toggle(set, name) == SetIf(set, name, name \notin set)

\* A lock changes when its key comes up.
Lock(scan) ==
  /\ Code(scan) \in {58, 69, 70}
  /\ Code(scan) = 69 => "e1" \notin flags3
  /\ LET lock == LockOf(Code(scan))
     IN IF Make(scan)
        THEN /\ End(scan, flags1, flags2 \cup {lock}, flags3)
             /\ UNCHANGED leds
        ELSE /\ End(scan, Toggle(flags1, lock), flags2 \ {lock}, flags3)
             /\ leds' = Toggle(leds, lock)
  /\ NoKey
  /\ UNCHANGED token

\* The last code of Pause; see also Stopped.
PauseCode(scan) ==
  /\ Code(scan) = 69
  /\ "e1" \in flags3
  /\ End(scan, flags1, flags2, flags3 \ {"e1"})
  /\ NoKey
  /\ UNCHANGED <<leds, token>>

\* The release of the number pad's Ins does nothing, that of Insert switches.
InsertRelease(scan) ==
  /\ scan = 210
  /\ IF "e0" \in flags3
     THEN End(scan, Toggle(flags1, "insert"), flags2 \ {"insert"}, flags3)
     ELSE End(scan, flags1, flags2, flags3)
  /\ NoKey
  /\ UNCHANGED <<leds, token>>

PadCodes == {71, 72, 73, 75, 76, 77, 79, 80, 81, 82, 83}

Cursor(scan) ==
  /\ scan \in PadCodes
  /\ "e0" \in flags3
  /\ End(scan, flags1, IF scan = 82 THEN flags2 \cup {"insert"} ELSE flags2, flags3)
  /\ AddKey(CursorCode(ScanAscii[scan]))
  /\ UNCHANGED <<leds, token>>

Pad(scan) ==
  /\ scan \in PadCodes
  /\ "e0" \notin flags3
  /\ End(scan, flags1, flags2, flags3)
  /\ IF "alt" \in flags1
     THEN /\ token' = (token * 10 + AsciiOf(ScanAscii[scan].alt)) % 256
          /\ NoKey
     ELSE /\ AddKey(PadCode(ScanAscii[scan]))
          /\ UNCHANGED token
  /\ UNCHANGED leds

\* The other keys.  Their releases and what lies beyond the table do nothing.
Normal(scan) ==
  /\ Code(scan) \notin ShiftCodes
  /\ scan \notin PadCodes \cup {210, 224, 225, 250}
  /\ End(scan, flags1, flags2, flags3)
  /\ AddKey(IF scan <= 88 THEN NormalCode(scan) ELSE 0)
  /\ UNCHANGED <<leds, token>>

\* Pause without the left Ctrl key is a fatal error of the handler: the
\* program stops.
Stopped ==
  /\ wire # <<>> /\ Head(wire) = 69
  /\ "e1" \in flags3
  /\ "lctrl" \notin flags2

Int9 ==
  /\ wire # <<>>
  /\ LET scan == Head(wire)
     IN \/ Special(scan) \/ Control(scan) \/ Shift(scan) \/ Alt(scan) \/ Lock(scan)
        \/ PauseCode(scan) \/ InsertRelease(scan) \/ Cursor(scan) \/ Pad(scan)
        \/ Normal(scan)
  /\ wire' = Tail(wire)
  /\ UNCHANGED <<guest_vars, host_vars>>

-----------------------------------------------------------------------------
(***************************************************************************)
(* int 16h.                                                                *)
(***************************************************************************)

\* IsEnhancedKey: keystrokes that old programs do not know.
Enhanced(code) ==
  /\ ScanOf(code) # 224
  /\ ScanOf(code) > 132 \/ (AsciiOf(code) = 240 /\ ScanOf(code) # 0)

\* What IsEnhancedKey makes of the others.
Plain(code) ==
  CASE ScanOf(code) = 224 -> AsciiOf(code)
                               + (IF AsciiOf(code) \in {10, 13} THEN 7168 ELSE 13568)
    [] ScanOf(code) \notin {0, 224} /\ AsciiOf(code) = 224 -> ScanOf(code) * 256
    [] OTHER -> code

\* Function 0, which does not wait: it returns 0 when there is no keystroke,
\* and also when it has taken an enhanced one.
GetKeystroke ==
  /\ Len(given) < MaxCalls
  /\ IF head = tail
     THEN /\ ax' = 0
          /\ UNCHANGED <<head, given, announced>>
     ELSE /\ head' = Following(head)
          /\ announced' = <<>>
          /\ IF Enhanced(buffer[head])
             THEN ax' = 0 /\ UNCHANGED given
             ELSE ax' = Plain(buffer[head]) /\ given' = Append(given, ax')
  /\ UNCHANGED <<wire, flag_vars, token, buffer, tail, host_vars, accepted>>

Contents ==
  [n \in 1..((tail - head) % Slots) |-> buffer[(head + n - 1) % Slots]]

\* Fault: the enhanced keystroke behind the first one stays in the ring.
CheckKeystrokeOnce ==
  /\ LET n == IF Contents # <<>> /\ Enhanced(Contents[1]) THEN 1 ELSE 0
         left == Len(Contents) - n
     IN /\ head' = (head + n) % Slots
        /\ ax' = IF left = 0 THEN ax ELSE Plain(Contents[n + 1])
        /\ announced' = IF left = 0 THEN <<>> ELSE <<ax'>>
  /\ UNCHANGED <<wire, flag_vars, token, buffer, tail, given, host_vars, accepted>>

\* Function 1: it throws the enhanced keystrokes at the front away and shows
\* the first of the others, which stays in the ring.
CheckKeystroke ==
  /\ \E n \in 0..Len(Contents) :
       /\ \A i \in 1..n : Enhanced(Contents[i])
       /\ n < Len(Contents) => ~Enhanced(Contents[n + 1])
       /\ head' = (head + n) % Slots
       /\ ax' = IF n = Len(Contents) THEN ax ELSE Plain(Contents[n + 1])
       /\ announced' = IF n = Len(Contents) THEN <<>> ELSE <<ax'>>
  /\ UNCHANGED <<wire, flag_vars, token, buffer, tail, given, host_vars, accepted>>

-----------------------------------------------------------------------------

Init ==
  /\ wire = <<>>
  /\ flags1 = {} /\ flags2 = {} /\ flags3 = {} /\ leds = {}
  /\ token = 0
  /\ buffer = [i \in 0..(Slots - 1) |-> 0]
  /\ head = 0 /\ tail = 0
  /\ ax = 0
  /\ held = {} /\ accepted = <<>> /\ given = <<>> /\ announced = <<>>
  /\ typed = 0

Next ==
  /\ ~Stopped
  /\ \/ \E key \in Keys, pressed \in BOOLEAN : TypeKey(key, pressed)
     \/ Int9
     \/ GetKeystroke
     \/ CheckKeystroke

Spec == Init /\ [][Next]_vars

-----------------------------------------------------------------------------

TypeOK ==
  /\ wire \in Seq(Byte)
  /\ flags1 \subseteq {"lshift", "rshift", "ctrl", "alt", "scroll", "num", "caps",
                       "insert"}
  /\ flags2 \subseteq {"lctrl", "lalt", "scroll", "num", "caps", "insert"}
  /\ flags3 \subseteq {"e0", "e1", "rctrl", "ralt"}
  /\ leds \subseteq {"scroll", "num", "caps"}
  /\ token \in Byte
  /\ buffer \in [0..(Slots - 1) -> Word]
  /\ head \in 0..(Slots - 1)
  /\ tail \in 0..(Slots - 1)
  /\ ax \in Word
  /\ held \subseteq Keys
  /\ typed \in 0..MaxEvents

(***************************************************************************)
(* Properties.                                                             *)
(***************************************************************************)

\* ModifiersFollowKeys.  Between keys the flag bytes say which shift keys are
\* down, whatever their order and prefixes were: Ctrl and Alt as long as either
\* of the two keys is, Pause's 1d counts for none, and the lights agree with
\* the locks.  (dp_keyboard_int9_handler, keyboard.c:365-438)
Down(prefix, code) ==
  \E key \in held : key.prefix = prefix /\ key.codes = <<code>>

ModifiersFollowKeys ==
  wire = <<>> =>
    /\ ("lshift" \in flags1) <=> Down(<<>>, 42)
    /\ ("rshift" \in flags1) <=> Down(<<>>, 54)
    /\ ("lctrl" \in flags2) <=> Down(<<>>, 29)
    /\ ("rctrl" \in flags3) <=> Down(<<224>>, 29)
    /\ ("ctrl" \in flags1) <=> Down(<<>>, 29) \/ Down(<<224>>, 29)
    /\ ("alt" \in flags1) <=> Down(<<>>, 56) \/ Down(<<224>>, 56)
    /\ ("caps" \in flags2) <=> Down(<<>>, 58)
    /\ ("num" \in flags2) <=> Down(<<>>, 69)
    /\ leds = flags1 \cap {"scroll", "num", "caps"}

\* AltCodeEnds.  A number typed on the pad belongs to one hold of Alt: when
\* neither Alt key is down there is none left over for the next.
\* (keyboard.c:394-401, 497-500)
AltCodeEnds == "alt" \notin flags1 => token = 0

\* ReturnedInOrder.  The keystrokes that the ring took are what function 0
\* returned and what is still in the ring, each once, in order and in the form
\* that old programs know, but for the enhanced ones.
\* (BIOS_AddKeyToBuffer, get_key, dp_keyboard_int16_handler)
Known(codes) ==
  LET known[n \in 0..Len(codes)] ==
        IF n = 0 THEN <<>>
        ELSE IF Enhanced(codes[n]) THEN known[n - 1]
        ELSE Append(known[n - 1], Plain(codes[n]))
  IN known[Len(codes)]

ReturnedInOrder == given \o Known(Contents) = Known(accepted)

\* PeekedIsTaken.  The keystroke that function 1 shows is the one that function
\* 0 returns next, whatever is typed in between.
\* (dp_keyboard_int16_handler, keyboard.c:78-106)
PeekedIsTaken ==
  [][announced # <<>> /\ announced' # announced =>
       announced' = <<>> /\ ax' = announced[1]]_vars

=============================================================================
