------------------------------ MODULE Keyboard ------------------------------
(***************************************************************************)
(* The driver of the 8042 controller and its PS/2 keyboard                 *)
(* (os/kernel/driver/kbd8042.h): the bring-up that initKeyboard8042 makes  *)
(* with the two devices, and the machine of kbd8042_process that turns     *)
(* bytes of scan code set 2 into the bytes that programs read.             *)
(*                                                                         *)
(* The controller and the keyboard are external.  They answer the commands *)
(* the driver gives, at once or after asking for one to be sent again, and *)
(* the self test that a reset starts may end late.                         *)
(***************************************************************************)
EXTENDS Integers, Sequences, SequencesExt

CONSTANTS
  Key,          \* the keys of the keyboard that are used
  Make, Break,  \* what a key sends when it goes down and when it comes up
  BufTermSize,  \* KBDBUFTERM_SIZE
  MaxStray      \* bound: bytes of keys pressed while the driver is brought up

(* The bytes of scan code set 2: none of them is an answer to a command.   *)
ScanByte == 0 .. \h83 \cup {\he0, \he1, \hf0}

ASSUME KeyboardAssumption ==
  /\ Make \in [Key -> Seq(ScanByte)]
  /\ Break \in [Key -> Seq(ScanByte)]
  /\ BufTermSize \in Nat
  /\ BufTermSize >= 7
  /\ MaxStray \in Nat

VARIABLES
  kbd,     \* struct Keyboard8042, without the members nothing uses
  port,    \* the bytes the devices have ready, the next at the head
  device,  \* the settings of the two devices
  stage,   \* where initKeyboard8042 is
  strays,  \* keys hit while it was there whose bytes were not dropped
  stopped  \* what stopped the kernel: the number of a bug check, or 0

keyboard == <<kbd, port, device, stage, strays, stopped>>

ESC == 27
CSI(bytes) == <<ESC, 91>> \o bytes       \* "\033[" and more
SS3(byte) == <<ESC, 79, byte>>           \* "\033O" and one more

-----------------------------------------------------------------------------

(* The keys by what they write.  A code is a byte, and above it the state. *)
LetterCodes == <<\h1c, \h32, \h21, \h23, \h24, \h2b, \h34, \h33, \h43,
  \h3b, \h42, \h4b, \h3a, \h31, \h44, \h4d, \h15, \h2d, \h1b, \h2c, \h3c,
  \h2a, \h1d, \h22, \h35, \h1a>>
Letter == [c \in Range(LetterCodes) |->
             96 + CHOOSE i \in DOMAIN LetterCodes : LetterCodes[i] = c]

Pairs(table) == [c \in {e[1] : e \in table} |-> CHOOSE e \in table : e[1] = c]

Digit == Pairs({<<\h45, \h30, \h29>>, <<\h16, \h31, \h21>>, <<\h1e, \h32, \h40>>,
  <<\h26, \h33, \h23>>, <<\h25, \h34, \h24>>, <<\h2e, \h35, \h25>>,
  <<\h36, \h36, \h5e>>, <<\h3d, \h37, \h26>>, <<\h3e, \h38, \h2a>>,
  <<\h46, \h39, \h28>>, <<\h0e, \h60, \h7e>>, <<\h4e, \h2d, \h5f>>,
  <<\h55, \h3d, \h2b>>, <<\h5d, \h5c, \h7c>>})
Punctuation == Pairs({<<\h54, \h5b, \h7b>>, <<\h5b, \h5d, \h7d>>,
  <<\h4c, \h3b, \h3a>>, <<\h52, \h27, \h22>>, <<\h41, \h2c, \h3c>>,
  <<\h49, \h2e, \h3e>>, <<\h4a, \h2f, \h3f>>})
Editing == Pairs({<<\h66, \h7f>>, <<\h29, \h20>>, <<\h0d, 9>>, <<\h5a, 13>>,
  <<\h15a, 13>>, <<\h76, ESC>>, <<\h577, \h1a>>, <<\h14a, \h2f>>})
KeypadSign == Pairs({<<\h7c, \h2a>>, <<\h7b, \h2d>>, <<\h79, \h2b>>})
KeypadDigit == Pairs({<<\h71, \h2e>>, <<\h70, \h30>>, <<\h69, \h31>>,
  <<\h72, \h32>>, <<\h7a, \h33>>, <<\h6b, \h34>>, <<\h73, \h35>>,
  <<\h74, \h36>>, <<\h6c, \h37>>, <<\h75, \h38>>, <<\h7d, \h39>>})
Function == Pairs({<<\h05, SS3(80)>>, <<\h06, SS3(81)>>, <<\h04, SS3(82)>>,
  <<\h0c, SS3(83)>>} \cup
  {<<e[1], CSI(e[2] \o <<126>>)>> : e \in
    {<<\h03, <<49, 53>>>>, <<\h0b, <<49, 55>>>>, <<\h83, <<49, 56>>>>,
     <<\h0a, <<49, 57>>>>, <<\h01, <<50, 48>>>>, <<\h09, <<50, 49>>>>,
     <<\h78, <<50, 51>>>>, <<\h07, <<50, 52>>>>}})
Arrow == Pairs({<<\h175, 65>>, <<\h172, 66>>, <<\h174, 67>>, <<\h16b, 68>>})
HomeEnd == Pairs({<<\h16c, 72>>, <<\h169, 70>>})
Tilde == Pairs({<<\h170, 50>>, <<\h171, 51>>, <<\h17d, 53>>, <<\h17a, 54>>})

(* The modifiers, each on two sides; the code of a release is \h200 more.  *)
Modifier == Pairs({<<\h12, "shift", "L">>, <<\h59, "shift", "R">>,
  <<\h14, "ctrl", "L">>, <<\h114, "ctrl", "R">>,
  <<\h11, "alt", "L">>, <<\h111, "alt", "R">>})

StateAfter == [c \in {\he0, \hf0, \h1f0, \he1, \h414, \h4f0, \h614, \h7f0} |->
  CHOOSE s \in 1 .. 8 : <<s, c>> \in {<<1, \he0>>, <<2, \hf0>>, <<3, \h1f0>>,
    <<4, \he1>>, <<5, \h414>>, <<6, \h4f0>>, <<7, \h614>>, <<8, \h7f0>>}]

(* kbd8042_outChar and kbd8042_outSeq: what goes to the buffer; r is the   *)
(* struct Keyboard8042.                                                    *)
OutSeq(r, bytes) == IF "alt" \in r.on THEN <<ESC>> \o bytes ELSE bytes
OutChar(r, val) == OutSeq(r, <<IF "ctrl" \in r.on THEN val % 32 ELSE val>>)

Shifted(r, e) == OutChar(r, IF "shift" \in r.on THEN e[3] ELSE e[2])

Navigation(r, code) ==
  CASE code \in DOMAIN Arrow ->
         OutSeq(r, IF "ctrl" \in r.on THEN CSI(<<49, 59, 53, Arrow[code][2]>>)
                   ELSE IF r.modeApp THEN SS3(Arrow[code][2])
                   ELSE CSI(<<Arrow[code][2]>>))
    [] code \in DOMAIN HomeEnd ->
         OutSeq(r, IF r.modeApp THEN SS3(HomeEnd[code][2])
                   ELSE CSI(<<HomeEnd[code][2]>>))
    [] code \in DOMAIN Tilde -> OutSeq(r, CSI(<<Tilde[code][2], 126>>))
    [] OTHER -> <<>>

(* What a code writes into the buffer.  With ctrl and alt held, the code   *)
(* \h171 (delete) also has CAD print a message on the screen, as a write   *)
(* of the kernel's own: that is not here, and no key of Console sends that *)
(* code (KeysAssumption).                                                  *)
Output(r, code) ==
  CASE code \in DOMAIN Letter ->
         OutChar(r, IF ("shift" \in r.on) # r.capL THEN Letter[code] - 32
                    ELSE Letter[code])
    [] code \in DOMAIN Digit -> Shifted(r, Digit[code])
    [] code \in DOMAIN Punctuation -> Shifted(r, Punctuation[code])
    [] code \in DOMAIN Editing -> OutChar(r, Editing[code][2])
    [] code \in DOMAIN KeypadSign -> OutChar(r, KeypadSign[code][2])
    [] code \in DOMAIN Function -> OutSeq(r, Function[code][2])
    [] code \in DOMAIN KeypadDigit ->
         IF r.numL THEN OutChar(r, KeypadDigit[code][2])
         ELSE Navigation(r, code + \h100)
    [] OTHER -> Navigation(r, code)

Pressed(r, m) == [down |-> r.down \cup {<<m[2], m[3]>>}, on |-> r.on \cup {m[2]}]

ReleasedOneSide(r, m) ==    \* mutation: the other side is not looked at
  [down |-> r.down \ {<<m[2], m[3]>>}, on |-> r.on \ {m[2]}]

Released(r, m) ==
  LET down == r.down \ {<<m[2], m[3]>>}
  IN [down |-> down,
      on |-> IF \E side \in {"L", "R"} : <<m[2], side>> \in down
             THEN r.on ELSE r.on \ {m[2]}]

(* The flags of the modifiers after a code.                                *)
Flags(r, code) ==
  CASE code \in DOMAIN Modifier -> Pressed(r, Modifier[code])
    [] code - \h200 \in DOMAIN Modifier -> Released(r, Modifier[code - \h200])
    [] OTHER -> [down |-> r.down, on |-> r.on]

(* kbd8042_process: it fails, and changes nothing, when the buffer has no  *)
(* room for what the code writes.                                          *)
Processable(r, dat) == Len(r.bufTerm) + Len(Output(r, dat + 256 * r.state)) <= BufTermSize

Processed(r, dat) ==
  LET code == dat + 256 * r.state
  IN [r EXCEPT !.bufTerm = @ \o Output(r, code),
               !.down = Flags(r, code).down,
               !.on = Flags(r, code).on,
               !.capL = IF code = \h58 THEN ~@ ELSE @,
               !.numL = @ \/ code = \h77,
               !.scrlL = @ \/ code = \h7e,
               !.state = IF code \in DOMAIN StateAfter THEN StateAfter[code] ELSE 0]

-----------------------------------------------------------------------------

Commands == {"disableScan", "reset", "getSet", "enableScan"}
Alone(s) == <<s, "">>       \* a stage that is one step
Ready == Alone("ready")
Stages == {Alone(s) : s \in {"disablePorts", "configure", "selfTest", "portTest", "enablePort"}}
          \cup {Ready} \cup (Commands \X {"send", "receive", "value"})

KeyboardInit ==
  /\ kbd = [set |-> 0, capL |-> FALSE, numL |-> FALSE, scrlL |-> FALSE,
            modeApp |-> FALSE, down |-> {}, on |-> {}, state |-> 0, bufTerm |-> <<>>]
  /\ port = <<>>
  /\ device = [ports |-> {1, 2}, translation |-> TRUE, scanning |-> TRUE, testing |-> FALSE]
  /\ stage = Alone("disablePorts")
  /\ strays = 0
  /\ stopped = 0

At(s) == stage = s /\ stopped = 0
Configures(s, d) == stage' = s /\ device' = d /\ UNCHANGED <<kbd, stopped>>
Flush == port' = <<>> /\ strays' = 0

(* Commands to the controller; data that waits is read and dropped.        *)
DisablePorts ==
  /\ At(Alone("disablePorts"))
  /\ Configures(Alone("configure"), [device EXCEPT !.ports = {}])
  /\ Flush

Configure ==
  /\ At(Alone("configure"))
  /\ Configures(Alone("selfTest"), [device EXCEPT !.translation = FALSE])
  /\ UNCHANGED <<port, strays>>

(* The controller's answer to a test; any other than `good' is a failure.  *)
Tests(s, good, number, next) ==
  /\ At(Alone(s))
  /\ \E res \in {good, \hfc} :
       IF res = good THEN stage' = Alone(next) /\ UNCHANGED stopped
       ELSE stopped' = number + res /\ UNCHANGED stage
  /\ UNCHANGED <<kbd, port, device, strays>>
SelfTest == Tests("selfTest", \h55, \h200, "portTest")
PortTest == Tests("portTest", 0, \h300, "enablePort")

EnablePort ==
  /\ At(Alone("enablePort"))
  /\ Configures(<<"disableScan", "send">>, [device EXCEPT !.ports = {1}])
  /\ Flush

(* The keyboard's answers: it acknowledges, or wants the command again.    *)
Answers(c) ==
  {<<\hfe>>} \cup IF c = "getSet" THEN {<<\hfa, 2>>, <<\hfa, \h41>>} ELSE {<<\hfa>>}

Tested == [device EXCEPT !.testing = FALSE]
Obeyed(c) ==
  CASE c = "disableScan" -> [Tested EXCEPT !.scanning = FALSE]
    [] c = "reset" -> [device EXCEPT !.scanning = TRUE, !.testing = TRUE]
    [] c = "enableScan" -> [Tested EXCEPT !.scanning = TRUE]
    [] OTHER -> Tested

(* While the keyboard tests itself it answers nothing; what is sent then   *)
(* is answered after the result of the test.                               *)

Send(c) ==
  /\ At(<<c, "send">>)
  /\ stage' = <<c, "receive">>
  /\ \E answer \in Answers(c) :
       /\ port' = port \o (IF device.testing THEN <<\haa>> ELSE <<>>) \o answer
       /\ device' = IF answer = <<\hfe>> THEN Tested ELSE Obeyed(c)
  /\ UNCHANGED <<kbd, strays, stopped>>

(* What the driver takes for the answer that it waits for.                 *)
Accepted(c) == IF c = "reset" THEN {\haa, \hfa} ELSE {\hfa}

Number(c) == CASE c = "disableScan" -> \h400 [] c = "reset" -> \h500
               [] c = "getSet" -> \h600 [] c = "enableScan" -> \h800

NextStage(c) ==
  CASE c = "disableScan" -> <<"reset", "send">>
    [] c = "reset" -> IF Tail(port) = <<>> THEN <<"getSet", "send">> ELSE <<c, "receive">>
    [] c = "getSet" -> <<c, "value">>
    [] c = "enableScan" -> Ready

ReceiveAckOnly(c) ==    \* mutation: a reset is only over when it is acknowledged
  /\ At(<<c, "receive">>)
  /\ port # <<>>
  /\ port' = Tail(port)
  /\ CASE Head(port) = \hfe -> stage' = <<c, "send">> /\ UNCHANGED stopped
       [] Head(port) = \hfa -> stage' = NextStage(c) /\ UNCHANGED stopped
       [] OTHER -> stopped' = Number(c) + Head(port) /\ UNCHANGED stage
  /\ UNCHANGED <<kbd, device, strays>>

Receive(c) ==
  /\ At(<<c, "receive">>)
  /\ port # <<>>
  /\ port' = Tail(port)
  /\ CASE Head(port) = \hfe -> stage' = <<c, "send">> /\ UNCHANGED stopped
       [] Head(port) \in Accepted(c) -> stage' = NextStage(c) /\ UNCHANGED stopped
       [] OTHER -> stopped' = Number(c) + Head(port) /\ UNCHANGED stage
  /\ UNCHANGED <<kbd, device, strays>>

SetOf == [v \in {1, \h43, 2, \h41, 3, \h3f} |->
  CASE v \in {1, \h43} -> 1 [] v \in {2, \h41} -> 2 [] OTHER -> 3]

ReceiveSet ==
  /\ At(<<"getSet", "value">>)
  /\ port # <<>>
  /\ port' = Tail(port)
  /\ IF Head(port) \in DOMAIN SetOf
     THEN /\ kbd' = [kbd EXCEPT !.set = SetOf[Head(port)]]
          /\ stage' = <<"enableScan", "send">>
          /\ UNCHANGED stopped
     ELSE stopped' = \h700 + Head(port) /\ UNCHANGED <<kbd, stage>>
  /\ UNCHANGED <<device, strays>>

-----------------------------------------------------------------------------

(* The keyboard's self test ends, whatever the driver is doing.            *)
TestEnds ==
  /\ device.testing
  /\ device' = Tested
  /\ port' = Append(port, \haa)
  /\ stopped = 0
  /\ UNCHANGED <<kbd, stage, strays, stopped>>

CanSend ==
  device.scanning /\ ~device.testing /\ 1 \in device.ports /\ stopped = 0

(* The keyboard has let the driver know that keys will follow.             *)
Listening ==
  stage = Ready \/ (stage = <<"enableScan", "receive">> /\ \hfa \in Range(port))

(* A key is hit before that.                                               *)
Stray ==
  /\ ~Listening
  /\ CanSend
  /\ strays < MaxStray
  /\ strays' = strays + 1
  /\ \E k \in Key : port' = port \o Make[k] \o Break[k]
  /\ UNCHANGED <<kbd, device, stage, stopped>>

BringUp ==
  \/ DisablePorts \/ Configure \/ SelfTest \/ PortTest \/ EnablePort
  \/ \E c \in Commands : Send(c) \/ Receive(c)
  \/ ReceiveSet \/ TestEnds \/ Stray

=============================================================================
