--------------------------- MODULE Console_proofs ---------------------------
(***************************************************************************)
(* The console, proved for any number of processes and of keys, any bytes  *)
(* that keys send, any calls, pages and screen: types, what may stop the   *)
(* kernel, the pins of the pages, the counts of the descriptions, the maps *)
(* of the descriptors, and what the screen shows.                          *)
(*                                                                         *)
(* The inductive invariant IInv has a part for each component.  Of the     *)
(* keyboard it says what the port may hold at each stage of the bring up   *)
(* (SetInv, QuietInv); of a call what it holds where it is (CallFits);     *)
(* that a lock is held by the call that stands where its holder stands     *)
(* (LockInv), so that a buffer that was found empty is empty still         *)
(* (PollInv) and has room for what one byte of a key writes; and of the    *)
(* descriptors that every process has those of init, of the descriptions   *)
(* that each is counted once for every call that uses it (DescInv,         *)
(* RefInv).  What the screen shows (ScreenInv) is inductive relative to    *)
(* IInv: it needs that one call at most is writing.                        *)
(***************************************************************************)
EXTENDS Console, Collections_proofs, FiniteSetTheorems

-----------------------------------------------------------------------------

(* What a key writes are at most seven bytes.                              *)
Short(bytes, n) == bytes \in Seq(0 .. 255) /\ Len(bytes) <= n

LEMMA JoinShort ==
  ASSUME NEW m \in Nat, NEW n \in Nat, NEW s, NEW t, Short(s, m), Short(t, n)
  PROVE  Short(s \o t, m + n)
<1>1. s \in Seq(0 .. 255) /\ t \in Seq(0 .. 255) /\ Len(s) <= m /\ Len(t) <= n
  BY DEF Short
<1>2. s \o t \in Seq(0 .. 255) /\ Len(s \o t) = Len(s) + Len(t)
  BY <1>1, ConcatProperties
<1>3. Len(s) \in Nat /\ Len(t) \in Nat
  BY <1>1
<1> QED BY <1>1, <1>2, <1>3 DEF Short

LEMMA CSIShort ==
  ASSUME NEW n \in Nat, NEW bytes, Short(bytes, n)
  PROVE  Short(CSI(bytes), n + 2)
<1>1. Short(<<ESC, 91>>, 2)
  BY DEF Short, ESC
<1>2. Short(<<ESC, 91>> \o bytes, 2 + n)
  BY <1>1, JoinShort
<1> QED BY <1>2 DEF CSI

LEMMA FromTable ==
  ASSUME NEW table, NEW c \in DOMAIN Pairs(table)
  PROVE  Pairs(table)[c] \in table
BY DEF Pairs

LEMMA Tables ==
  /\ \A c \in DOMAIN Digit : Digit[c][2] \in 0 .. 255 /\ Digit[c][3] \in 0 .. 255
  /\ \A c \in DOMAIN Punctuation : Punctuation[c][2] \in 0 .. 255 /\ Punctuation[c][3] \in 0 .. 255
  /\ \A c \in DOMAIN Editing : Editing[c][2] \in 0 .. 255
  /\ \A c \in DOMAIN KeypadSign : KeypadSign[c][2] \in 0 .. 255
  /\ \A c \in DOMAIN KeypadDigit : KeypadDigit[c][2] \in 0 .. 255
  /\ \A c \in DOMAIN Arrow : Arrow[c][2] \in 0 .. 255
  /\ \A c \in DOMAIN HomeEnd : HomeEnd[c][2] \in 0 .. 255
  /\ \A c \in DOMAIN Tilde : Tilde[c][2] \in 0 .. 255
<1>1. \A c \in DOMAIN Digit : Digit[c][2] \in 0 .. 255 /\ Digit[c][3] \in 0 .. 255
  BY FromTable DEF Digit
<1>2. \A c \in DOMAIN Punctuation : Punctuation[c][2] \in 0 .. 255 /\ Punctuation[c][3] \in 0 .. 255
  BY FromTable DEF Punctuation
<1>3. \A c \in DOMAIN Editing : Editing[c][2] \in 0 .. 255
  BY FromTable DEF Editing, ESC
<1>4. \A c \in DOMAIN KeypadSign : KeypadSign[c][2] \in 0 .. 255
  BY FromTable DEF KeypadSign
<1>5. \A c \in DOMAIN KeypadDigit : KeypadDigit[c][2] \in 0 .. 255
  BY FromTable DEF KeypadDigit
<1>6. \A c \in DOMAIN Arrow : Arrow[c][2] \in 0 .. 255
  BY FromTable DEF Arrow
<1>7. \A c \in DOMAIN HomeEnd : HomeEnd[c][2] \in 0 .. 255
  BY FromTable DEF HomeEnd
<1>8. \A c \in DOMAIN Tilde : Tilde[c][2] \in 0 .. 255
  BY FromTable DEF Tilde
<1> QED BY <1>1, <1>2, <1>3, <1>4, <1>5, <1>6, <1>7, <1>8

LEMMA Letters == \A c \in DOMAIN Letter : Letter[c] \in 97 .. 122
<1>1. ASSUME NEW c \in Range(LetterCodes)
      PROVE  (CHOOSE i \in DOMAIN LetterCodes : LetterCodes[i] = c) \in 1 .. 26
  <2>1. DOMAIN LetterCodes = 1 .. 26
    BY DEF LetterCodes
  <2>2. \E i \in DOMAIN LetterCodes : LetterCodes[i] = c
    BY DEF Range
  <2> QED BY <2>1, <2>2
<1>2. ASSUME NEW c \in DOMAIN Letter PROVE Letter[c] \in 97 .. 122
  <2>1. c \in Range(LetterCodes)
    BY DEF Letter
  <2> DEFINE i == CHOOSE i \in DOMAIN LetterCodes : LetterCodes[i] = c
  <2>2. Letter[c] = 96 + i
    BY <2>1 DEF Letter
  <2>3. i \in 1 .. 26
    BY <1>1, <2>1
  <2> HIDE DEF i
  <2> QED BY <2>2, <2>3
<1> QED BY <1>2

LEMMA Functions == \A c \in DOMAIN Function : Short(Function[c][2], 5)
<1> DEFINE Four == {<<\h05, SS3(80)>>, <<\h06, SS3(81)>>, <<\h04, SS3(82)>>, <<\h0c, SS3(83)>>}
           Codes == {<<\h03, <<49, 53>>>>, <<\h0b, <<49, 55>>>>, <<\h83, <<49, 56>>>>,
             <<\h0a, <<49, 57>>>>, <<\h01, <<50, 48>>>>, <<\h09, <<50, 49>>>>,
             <<\h78, <<50, 51>>>>, <<\h07, <<50, 52>>>>}
           Eight == {<<e[1], CSI(e[2] \o <<126>>)>> : e \in Codes}
<1>1. \A a \in 0 .. 255 : Short(SS3(a), 5)
  BY DEF SS3, Short, ESC
<1>2. \A e \in Codes : Short(e[2], 2)
  <2>1. /\ Short(<<49, 53>>, 2) /\ Short(<<49, 55>>, 2) /\ Short(<<49, 56>>, 2)
        /\ Short(<<49, 57>>, 2) /\ Short(<<50, 48>>, 2) /\ Short(<<50, 49>>, 2)
        /\ Short(<<50, 51>>, 2) /\ Short(<<50, 52>>, 2)
    BY DEF Short
  <2> QED BY <2>1
<1>3. \A e \in Four : Short(e[2], 5)
  <2>1. Short(SS3(80), 5) /\ Short(SS3(81), 5) /\ Short(SS3(82), 5) /\ Short(SS3(83), 5)
    BY <1>1
  <2> QED BY <2>1
<1>4. \A e \in Codes : Short(CSI(e[2] \o <<126>>), 5)
  <2> HIDE DEF Codes
  <2> TAKE e \in Codes
  <2>1. Short(<<126>>, 1)
    BY DEF Short
  <2>2. Short(e[2] \o <<126>>, 2 + 1)
    BY <1>2, <2>1, JoinShort
  <2>3. Short(CSI(e[2] \o <<126>>), (2 + 1) + 2)
    BY <2>2, CSIShort
  <2> QED BY <2>3
<1>5. Function = Pairs(Four \cup Eight)
  BY DEF Function
<1> HIDE DEF Four, Codes
<1>6. ASSUME NEW c \in DOMAIN Function PROVE Short(Function[c][2], 5)
  <2>1. Function[c] \in Four \cup Eight
    BY <1>5, FromTable
  <2>2. CASE Function[c] \in Four
    BY <1>3, <2>2
  <2>3. CASE Function[c] \in Eight
    <3>1. PICK e \in Codes : Function[c] = <<e[1], CSI(e[2] \o <<126>>)>>
      BY <2>3
    <3>2. Function[c][2] = CSI(e[2] \o <<126>>)
      BY <3>1
    <3> QED BY <1>4, <3>2
  <2> QED BY <2>1, <2>2, <2>3
<1> QED BY <1>6

(* The keyboard as its type in TypeOK says.                                *)
KbdType ==
  [set : {0, 2}, capL : BOOLEAN, numL : BOOLEAN, scrlL : BOOLEAN,
   modeApp : {FALSE}, down : SUBSET ({"shift", "ctrl", "alt"} \X {"L", "R"}),
   on : SUBSET {"shift", "ctrl", "alt"}, state : 0 .. 8, bufTerm : Seq(0 .. 255)]

LEMMA OutSeqShort ==
  ASSUME NEW r, NEW n \in Nat, NEW bytes, Short(bytes, n)
  PROVE  Short(OutSeq(r, bytes), n + 1)
<1>1. Short(<<ESC>>, 1)
  BY DEF Short, ESC
<1>2. Short(<<ESC>> \o bytes, 1 + n)
  BY <1>1, JoinShort
<1>3. Short(bytes, n + 1)
  BY DEF Short
<1> QED BY <1>2, <1>3 DEF OutSeq

LEMMA OutCharShort ==
  ASSUME NEW r, NEW val \in 0 .. 255
  PROVE  Short(OutChar(r, val), 7)
<1> DEFINE byte == IF "ctrl" \in r.on THEN val % 32 ELSE val
<1>1. byte \in 0 .. 255
  OBVIOUS
<1> HIDE DEF byte
<1>2. Short(<<byte>>, 1)
  BY <1>1 DEF Short
<1>3. Short(OutSeq(r, <<byte>>), 1 + 1)
  BY <1>2, OutSeqShort
<1> QED BY <1>3 DEF OutChar, Short, byte

LEMMA NavigationShort ==
  ASSUME NEW r, NEW code
  PROVE  Short(Navigation(r, code), 7)
<1>1. \A a \in 0 .. 255 : /\ Short(CSI(<<49, 59, 53, a>>), 6) /\ Short(SS3(a), 6)
                          /\ Short(CSI(<<a>>), 6) /\ Short(CSI(<<a, 126>>), 6)
  <2> TAKE a \in 0 .. 255
  <2>1. Short(<<49, 59, 53, a>>, 4) /\ Short(<<a>>, 1) /\ Short(<<a, 126>>, 2)
    BY DEF Short
  <2>2. /\ Short(CSI(<<49, 59, 53, a>>), 4 + 2) /\ Short(CSI(<<a>>), 1 + 2)
        /\ Short(CSI(<<a, 126>>), 2 + 2)
    BY <2>1, CSIShort
  <2>3. Short(SS3(a), 3)
    BY DEF Short, SS3, ESC
  <2> QED BY <2>2, <2>3 DEF Short
<1>2. \A bytes : Short(bytes, 6) => Short(OutSeq(r, bytes), 7)
  <2>1. \A bytes : Short(bytes, 6) => Short(OutSeq(r, bytes), 6 + 1)
    BY OutSeqShort
  <2> QED BY <2>1
<1>3. Short(<<>>, 7)
  BY DEF Short
<1>4. CASE code \in DOMAIN Arrow
  BY <1>1, <1>2, <1>4, Tables, ZenonT(40) DEF Navigation
<1>5. CASE code \notin DOMAIN Arrow /\ code \in DOMAIN HomeEnd
  BY <1>1, <1>2, <1>5, Tables DEF Navigation
<1>6. CASE code \notin DOMAIN Arrow /\ code \notin DOMAIN HomeEnd /\ code \in DOMAIN Tilde
  BY <1>1, <1>2, <1>6, Tables DEF Navigation
<1>7. CASE code \notin DOMAIN Arrow /\ code \notin DOMAIN HomeEnd /\ code \notin DOMAIN Tilde
  BY <1>3, <1>7 DEF Navigation
<1> QED BY <1>4, <1>5, <1>6, <1>7

LEMMA OutputShort ==
  ASSUME NEW r, NEW code
  PROVE  Short(Output(r, code), 7)
<1>1. code \in DOMAIN Letter =>
        Short(OutChar(r, IF ("shift" \in r.on) # r.capL THEN Letter[code] - 32
                      ELSE Letter[code]), 7)
  <2> DEFINE val == IF ("shift" \in r.on) # r.capL THEN Letter[code] - 32 ELSE Letter[code]
  <2> SUFFICES ASSUME code \in DOMAIN Letter PROVE Short(OutChar(r, val), 7)
    OBVIOUS
  <2>1. val \in 0 .. 255
    BY Letters
  <2> HIDE DEF val
  <2> QED BY <2>1, OutCharShort
<1>2. ASSUME NEW e, e[2] \in 0 .. 255, e[3] \in 0 .. 255 PROVE Short(Shifted(r, e), 7)
  <2> DEFINE val == IF "shift" \in r.on THEN e[3] ELSE e[2]
  <2>1. val \in 0 .. 255
    BY <1>2
  <2> HIDE DEF val
  <2>2. Short(OutChar(r, val), 7)
    BY <2>1, OutCharShort
  <2> QED BY <2>2 DEF Shifted, val
<1>3. code \in DOMAIN Digit => Short(Shifted(r, Digit[code]), 7)
  BY <1>2, Tables
<1>4. code \in DOMAIN Punctuation => Short(Shifted(r, Punctuation[code]), 7)
  BY <1>2, Tables
<1>5. code \in DOMAIN Editing => Short(OutChar(r, Editing[code][2]), 7)
  BY OutCharShort, Tables
<1>6. code \in DOMAIN KeypadSign => Short(OutChar(r, KeypadSign[code][2]), 7)
  BY OutCharShort, Tables
<1>7. code \in DOMAIN Function => Short(OutSeq(r, Function[code][2]), 7)
  <2>1. code \in DOMAIN Function => Short(OutSeq(r, Function[code][2]), 5 + 1)
    BY Functions, OutSeqShort
  <2> QED BY <2>1 DEF Short
<1>8. code \in DOMAIN KeypadDigit =>
        Short(IF r.numL THEN OutChar(r, KeypadDigit[code][2]) ELSE Navigation(r, code + \h100), 7)
  BY OutCharShort, NavigationShort, Tables
<1>9. Short(Navigation(r, code), 7)
  BY NavigationShort
<1> QED BY <1>1, <1>3, <1>4, <1>5, <1>6, <1>7, <1>8, <1>9 DEF Output

-----------------------------------------------------------------------------

(* The keyboard while it is brought up.  Until the answer to getSet is     *)
(* read nothing in the port looks like one, and then there is one at most, *)
(* followed by a set that the driver takes for the second.                 *)
Clean(bytes) == \A i \in DOMAIN bytes : bytes[i] \notin {\hfa, \hfe}
OneAnswer(bytes) ==
  /\ \A i, j \in DOMAIN bytes : bytes[i] \in {\hfa, \hfe} /\ bytes[j] \in {\hfa, \hfe} => i = j
  /\ \A i \in DOMAIN bytes : bytes[i] = \hfa => i + 1 \in DOMAIN bytes /\ bytes[i + 1] \in {2, \h41}

SetInv ==
  /\ stage = <<"getSet", "send">> => Clean(port)
  /\ stage = <<"getSet", "receive">> => OneAnswer(port)
  /\ stage = <<"getSet", "value">> => port # <<>> /\ Head(port) \in {2, \h41}
  /\ stage \in {<<"enableScan", "send">>, <<"enableScan", "receive">>, Ready} => kbd.set = 2

Early == {Alone(s) : s \in {"disablePorts", "configure", "selfTest", "portTest", "enablePort"}}

(* Without stray keys the port holds the answer to the last command and    *)
(* the result of the self test, in an order that the driver can take: but  *)
(* the result may come first at getSet, where it stops the kernel.         *)
QuietInv ==
  /\ stage \in Early => ~device.testing
  /\ strays = 0 /\ stopped = 0 =>
     /\ stage \in {<<"disableScan", "send">>, <<"reset", "send">>, <<"enableScan", "send">>} =>
          port = <<>> /\ ~device.testing
     /\ stage = <<"disableScan", "receive">> => port \in {<<\hfe>>, <<\hfa>>} /\ ~device.testing
     /\ stage = <<"reset", "receive">> =>
          \/ port \in {<<\hfe>>, <<\hfa, \haa>>, <<\haa>>} /\ ~device.testing
          \/ port = <<\hfa>> /\ device.testing
     /\ stage = <<"getSet", "send">> => port = <<>> \/ (port = <<\haa>> /\ ~device.testing)
     /\ stage = <<"getSet", "receive">> =>
          /\ ~device.testing
          /\ \/ port \in {<<\hfe>>, <<\hfa, 2>>, <<\hfa, \h41>>}
             \/ port # <<>> /\ Head(port) = \haa
     /\ stage = <<"getSet", "value">> => port \in {<<2>>, <<\h41>>} /\ ~device.testing
     /\ stage = <<"enableScan", "receive">> =>
          /\ ~device.testing
          /\ port = <<\hfe>> \/ (port # <<>> /\ Head(port) = \hfa)

DeviceType == [ports : SUBSET {1, 2}, translation : BOOLEAN, scanning : BOOLEAN, testing : BOOLEAN]
InputType ==
  /\ kbd \in KbdType
  /\ Len(kbd.bufTerm) <= BufTermSize
  /\ port \in Seq(0 .. 255)
  /\ device \in DeviceType
  /\ stage \in Stages /\ strays \in 0 .. MaxStray /\ stopped \in Nat

InputInv == InputType /\ SetInv /\ QuietInv

(* What may have stopped the kernel while the keyboard was brought up.     *)
BringUpStops ==
  \/ stopped \in {\h2fc, \h3fc}
  \/ stage # Ready /\ strays > 0
  \/ stage # Ready /\ stopped = \h6aa

LEMMA InputKept ==
  ASSUME InputInv, UNCHANGED keyboard
  PROVE  InputInv'
<1>1. InputType'
  BY DEF InputInv, InputType, keyboard
<1>2. SetInv'
  BY DEF InputInv, SetInv, keyboard, Clean, OneAnswer
<1>3. QuietInv'
  BY DEF InputInv, QuietInv, keyboard
<1> QED BY <1>1, <1>2, <1>3 DEF InputInv

LEMMA StageSet ==
  /\ \A s \in {"disablePorts", "configure", "selfTest", "portTest", "enablePort"} :
       Alone(s) \in Stages /\ Alone(s) \in Early /\ Alone(s) # Ready
  /\ Ready \in Stages /\ Ready \notin Early
  /\ \A c \in Commands : \A s \in {"send", "receive", "value"} :
       <<c, s>> \in Stages /\ <<c, s>> \notin Early /\ <<c, s>> # Ready
  /\ \A s \in Early : s[2] = ""
  /\ Ready = <<"ready", "">>
<1>1. Commands \X {"send", "receive", "value"} \subseteq Stages
  BY DEF Stages
<1>2. \A c \in Commands : \A s \in {"send", "receive", "value"} : 
        <<c, s>> \in Commands \X {"send", "receive", "value"}
  OBVIOUS
<1>3. \A s : Alone(s) = <<s, "">>
  BY DEF Alone
<1>4. Early \subseteq Stages /\ Ready \in Stages
  BY DEF Stages, Early
<1>5. ASSUME NEW e \in Early PROVE e[2] = "" /\ e[1] # "ready"
  <2>1. PICK s \in {"disablePorts", "configure", "selfTest", "portTest", "enablePort"} :
          e = <<s, "">>
    BY <1>3 DEF Early
  <2> QED BY <2>1
<1>6. Ready[1] = "ready" /\ Ready = <<"ready", "">>
  BY <1>3 DEF Ready
<1>7. \A s \in {"disablePorts", "configure", "selfTest", "portTest", "enablePort"} : Alone(s) \in Early
  BY DEF Early
<1> QED BY <1>1, <1>2, <1>3, <1>4, <1>5, <1>6, <1>7

LEMMA Tails ==
  ASSUME NEW Elem, NEW s \in Seq(Elem), s # <<>>
  PROVE  /\ Head(s) = s[1] /\ Head(s) \in Elem /\ 1 \in DOMAIN s
         /\ Tail(s) \in Seq(Elem) /\ DOMAIN s = 1 .. Len(s) /\ Len(s) \in Nat \ {0}
         /\ Len(Tail(s)) = Len(s) - 1
         /\ DOMAIN Tail(s) = 1 .. Len(s) - 1
         /\ \A i \in 1 .. Len(s) - 1 : Tail(s)[i] = s[i + 1]
OBVIOUS

LEMMA Clears ==
  ASSUME NEW s \in Seq(0 .. 255), s # <<>>
  PROVE  /\ Clean(s) => Clean(Tail(s))
         /\ OneAnswer(s) => OneAnswer(Tail(s))
         /\ OneAnswer(s) /\ Head(s) \in {\hfa, \hfe} => Clean(Tail(s))
         /\ OneAnswer(s) /\ Head(s) = \hfa => Tail(s) # <<>> /\ Head(Tail(s)) \in {2, \h41}
<1>1. Len(s) \in Nat \ {0} /\ DOMAIN s = 1 .. Len(s) /\ DOMAIN Tail(s) = 1 .. Len(s) - 1
  BY Tails
<1>2. \A i \in DOMAIN Tail(s) : i + 1 \in DOMAIN s /\ i + 1 # 1 /\ Tail(s)[i] = s[i + 1]
  BY <1>1, Tails
<1>3. Head(s) = s[1] /\ 1 \in DOMAIN s
  BY Tails
<1>4. Clean(s) => Clean(Tail(s))
  BY <1>2 DEF Clean
<1>5. ASSUME OneAnswer(s) PROVE OneAnswer(Tail(s))
  <2>1. ASSUME NEW i \in DOMAIN Tail(s), NEW j \in DOMAIN Tail(s),
               Tail(s)[i] \in {\hfa, \hfe}, Tail(s)[j] \in {\hfa, \hfe}
        PROVE  i = j
    <3>1. i + 1 = j + 1
      BY <1>2, <1>5, <2>1 DEF OneAnswer
    <3>2. i \in Int /\ j \in Int
      BY <1>1
    <3> QED BY <3>1, <3>2
  <2>2. ASSUME NEW i \in DOMAIN Tail(s), Tail(s)[i] = \hfa
        PROVE  i + 1 \in DOMAIN Tail(s) /\ Tail(s)[i + 1] \in {2, \h41}
    <3>1. (i + 1) + 1 \in DOMAIN s /\ s[(i + 1) + 1] \in {2, \h41}
      BY <1>2, <1>5, <2>2 DEF OneAnswer
    <3>2. i + 1 \in DOMAIN Tail(s)
      BY <1>1, <3>1
    <3> QED BY <1>2, <3>1, <3>2
  <2> QED BY <2>1, <2>2 DEF OneAnswer
<1>6. ASSUME OneAnswer(s), Head(s) \in {\hfa, \hfe} PROVE Clean(Tail(s))
  BY <1>2, <1>3, <1>6 DEF OneAnswer, Clean
<1>7. ASSUME OneAnswer(s), Head(s) = \hfa PROVE Tail(s) # <<>> /\ Head(Tail(s)) \in {2, \h41}
  <2>1. 1 + 1 \in DOMAIN s /\ s[1 + 1] \in {2, \h41}
    BY <1>3, <1>7 DEF OneAnswer
  <2>2. 1 \in DOMAIN Tail(s)
    BY <1>1, <2>1
  <2>3. Tail(s)[1] = s[1 + 1]
    BY <1>2, <2>2
  <2>4. Tail(s) # <<>>
    <3>1. Len(Tail(s)) # 0
      BY <1>1, <2>1, Tails
    <3>2. Len(<<>>) = 0
      OBVIOUS
    <3> QED BY <3>1, <3>2, Zenon
  <2>5. Tail(s) \in Seq(0 .. 255)
    BY Tails
  <2> QED BY <2>1, <2>3, <2>4, <2>5, Tails
<1> QED BY <1>4, <1>5, <1>6, <1>7

LEMMA Joins ==
  ASSUME NEW Elem, NEW s \in Seq(Elem), NEW t \in Seq(Elem)
  PROVE  /\ s \o t \in Seq(Elem) /\ Len(s \o t) = Len(s) + Len(t)
         /\ DOMAIN s = 1 .. Len(s) /\ DOMAIN t = 1 .. Len(t) /\ Len(s) \in Nat /\ Len(t) \in Nat
         /\ DOMAIN (s \o t) = 1 .. Len(s) + Len(t)
         /\ \A i \in 1 .. Len(s) : (s \o t)[i] = s[i]
         /\ \A i \in Len(s) + 1 .. Len(s) + Len(t) : (s \o t)[i] = t[i - Len(s)]
         /\ s # <<>> => s \o t # <<>> /\ Head(s \o t) = Head(s)
<1>1. /\ s \o t \in Seq(Elem) /\ Len(s \o t) = Len(s) + Len(t)
      /\ \A i \in 1 .. Len(s) : (s \o t)[i] = s[i]
      /\ \A i \in Len(s) + 1 .. Len(s) + Len(t) : (s \o t)[i] = t[i - Len(s)]
  BY ConcatProperties
<1>2. DOMAIN s = 1 .. Len(s) /\ DOMAIN t = 1 .. Len(t) /\ Len(s) \in Nat /\ Len(t) \in Nat
  OBVIOUS
<1>3. DOMAIN (s \o t) = 1 .. Len(s) + Len(t)
  BY <1>1
<1>4. ASSUME s # <<>> PROVE s \o t # <<>> /\ Head(s \o t) = Head(s)
  <2>1. Len(s) # 0 /\ Head(s) = s[1]
    BY <1>4
  <2>2. Len(s \o t) # 0 /\ 1 \in 1 .. Len(s)
    BY <1>1, <1>2, <2>1
  <2> QED BY <1>1, <2>1, <2>2
<1> QED BY <1>1, <1>2, <1>3, <1>4

LEMMA Follows ==
  ASSUME NEW s \in Seq(0 .. 255), NEW t \in Seq(0 .. 255), Clean(t)
  PROVE  /\ Clean(s) => Clean(s \o t)
         /\ OneAnswer(s) => OneAnswer(s \o t)
<1>1. /\ DOMAIN s = 1 .. Len(s) /\ DOMAIN t = 1 .. Len(t) /\ Len(s) \in Nat /\ Len(t) \in Nat
      /\ DOMAIN (s \o t) = 1 .. Len(s) + Len(t)
      /\ \A i \in 1 .. Len(s) : (s \o t)[i] = s[i]
      /\ \A i \in Len(s) + 1 .. Len(s) + Len(t) : (s \o t)[i] = t[i - Len(s)]
  BY Joins
<1> DEFINE u == s \o t
<1>2. DOMAIN s \subseteq DOMAIN u /\ \A i \in DOMAIN s : u[i] = s[i]
  BY <1>1
<1>3. ASSUME NEW i \in DOMAIN u, u[i] \in {\hfa, \hfe}
      PROVE  i \in DOMAIN s
  <2>1. SUFFICES ASSUME i \notin DOMAIN s PROVE FALSE
    OBVIOUS
  <2>2. i \in Len(s) + 1 .. Len(s) + Len(t) /\ i - Len(s) \in DOMAIN t
    BY <1>1, <2>1
  <2>3. u[i] = t[i - Len(s)]
    BY <1>1, <2>2
  <2> QED BY <1>3, <2>2, <2>3 DEF Clean
<1> HIDE DEF u
<1>4. Clean(s) => Clean(u)
  BY <1>2, <1>3 DEF Clean
<1>5. OneAnswer(s) => OneAnswer(u)
  <2> HAVE OneAnswer(s)
  <2>1. ASSUME NEW i \in DOMAIN u, NEW j \in DOMAIN u,
               u[i] \in {\hfa, \hfe}, u[j] \in {\hfa, \hfe}
        PROVE  i = j
    BY <1>2, <1>3, <2>1 DEF OneAnswer
  <2>2. ASSUME NEW i \in DOMAIN u, u[i] = \hfa
        PROVE  i + 1 \in DOMAIN u /\ u[i + 1] \in {2, \h41}
    <3>1. i \in DOMAIN s /\ u[i] = s[i]
      BY <1>2, <1>3, <2>2
    <3>2. i + 1 \in DOMAIN s /\ s[i + 1] \in {2, \h41}
      BY <2>2, <3>1 DEF OneAnswer
    <3> QED BY <1>2, <3>2
  <2> QED BY <2>1, <2>2 DEF OneAnswer
<1> QED BY <1>4, <1>5 DEF u

LEMMA Scanned ==
  ASSUME NEW s \in Seq(ScanByte)
  PROVE  s \in Seq(0 .. 255) /\ Clean(s)
<1>1. ScanByte \subseteq 0 .. 255 /\ \hfa \notin ScanByte /\ \hfe \notin ScanByte
  BY DEF ScanByte
<1>2. DOMAIN s = 1 .. Len(s) /\ \A i \in 1 .. Len(s) : s[i] \in ScanByte
  OBVIOUS
<1>3. s \in Seq(0 .. 255)
  <2>1. \A i \in 1 .. Len(s) : s[i] \in 0 .. 255
    BY <1>1, <1>2
  <2> QED BY <2>1, <1>2
<1>4. Clean(s)
  BY <1>1, <1>2 DEF Clean
<1> QED BY <1>3, <1>4

Starts == InputInv' /\ stopped' = 0
Brings == InputInv' /\ (stopped' # 0 => BringUpStops')

LEMMA SettledStage ==
  ASSUME NEW s, s \in Early
  PROVE  /\ s \notin {<<"getSet", "send">>, <<"getSet", "receive">>, <<"getSet", "value">>,
                      <<"enableScan", "send">>, <<"enableScan", "receive">>, Ready}
         /\ s \notin {<<"disableScan", "send">>, <<"reset", "send">>,
                      <<"disableScan", "receive">>, <<"reset", "receive">>}
         /\ s \in Stages
<1>1. s[2] = "" /\ s # Ready
  BY StageSet
<1>2. s \in Stages
  BY DEF Early, Stages
<1>3. ASSUME NEW c, NEW t, t # "" PROVE s # <<c, t>>
  <2>1. <<c, t>>[2] = t
    OBVIOUS
  <2> QED BY <1>1, <1>3, <2>1, Zenon
<1> QED BY <1>1, <1>2, <1>3

(* Up to the ports the stage alone decides.                                *)
LEMMA SettlesEarly ==
  ASSUME InputInv, stage \in Early, stage' \in Early, kbd' = kbd, port' \in Seq(0 .. 255),
         device' \in DeviceType, ~device'.testing, strays' \in 0 .. MaxStray, stopped' \in Nat
  PROVE  InputInv'
<1>1. InputType'
  BY SettledStage DEF InputInv, InputType
<1> DEFINE s == stage'
<1>2. s \in Early
  OBVIOUS
<1>3. /\ s \notin {<<"getSet", "send">>, <<"getSet", "receive">>, <<"getSet", "value">>,
                   <<"enableScan", "send">>, <<"enableScan", "receive">>, Ready}
      /\ s \notin {<<"disableScan", "send">>, <<"reset", "send">>,
                   <<"disableScan", "receive">>, <<"reset", "receive">>}
  BY <1>2, SettledStage
<1>4. SetInv'
  BY <1>3 DEF SetInv, Ready, Alone
<1>5. QuietInv'
  BY <1>3 DEF QuietInv
<1> QED BY <1>1, <1>4, <1>5 DEF InputInv

LEMMA EarlySteps ==
  ASSUME InputInv, DisablePorts \/ Configure
  PROVE  Starts
<1>1. /\ Alone("disablePorts") \in Early /\ Alone("configure") \in Early
      /\ Alone("selfTest") \in Early
  BY StageSet
<1>2. /\ device \in DeviceType /\ (stage \in Early => ~device.testing)
      /\ port \in Seq(0 .. 255) /\ strays \in 0 .. MaxStray /\ MaxStray \in Nat
  BY KeyboardAssumption DEF InputInv, InputType, QuietInv
<1>3. CASE DisablePorts
  <2>1. /\ stage \in Early /\ stage' \in Early /\ kbd' = kbd /\ stopped' = stopped /\ stopped = 0
        /\ device' = [device EXCEPT !.ports = {}] /\ port' = <<>> /\ strays' = 0
    BY <1>1, <1>3 DEF DisablePorts, At, Configures, Flush
  <2>2. device' \in DeviceType /\ device'.testing = device.testing
    BY <1>2, <2>1 DEF DeviceType
  <2>3. port' \in Seq(0 .. 255)
    BY <2>1
  <2> QED BY <1>2, <2>1, <2>2, <2>3, SettlesEarly DEF Starts
<1>4. CASE Configure
  <2>1. /\ stage \in Early /\ stage' \in Early /\ kbd' = kbd /\ stopped' = stopped /\ stopped = 0
        /\ device' = [device EXCEPT !.translation = FALSE] /\ port' = port /\ strays' = strays
    BY <1>1, <1>4 DEF Configure, At, Configures
  <2>2. device' \in DeviceType /\ device'.testing = device.testing
    BY <1>2, <2>1 DEF DeviceType
  <2> QED BY <1>2, <2>1, <2>2, SettlesEarly DEF Starts
<1> QED BY <1>3, <1>4

LEMMA TestSteps ==
  ASSUME InputInv, SelfTest \/ PortTest
  PROVE  Brings
<1>1. /\ Alone("selfTest") \in Early /\ Alone("portTest") \in Early
      /\ Alone("enablePort") \in Early
  BY StageSet
<1>2. /\ device \in DeviceType /\ (stage \in Early => ~device.testing)
      /\ port \in Seq(0 .. 255) /\ strays \in 0 .. MaxStray
  BY DEF InputInv, InputType, QuietInv
<1>3. /\ stage \in Early /\ stage' \in Early
      /\ kbd' = kbd /\ port' = port /\ device' = device /\ strays' = strays
      /\ stopped' \in {0, \h2fc, \h3fc}
  BY <1>1 DEF SelfTest, PortTest, Tests, At
<1>4. InputInv'
  BY <1>2, <1>3, SettlesEarly
<1> QED BY <1>3, <1>4 DEF Brings, BringUpStops

LEMMA EnableStep ==
  ASSUME InputInv, EnablePort
  PROVE  Starts
<1>1. Alone("enablePort") \in Early /\ <<"disableScan", "send">> \in Stages
      /\ <<"disableScan", "send">> \notin Early
  BY StageSet DEF Commands
<1>2. /\ stage = Alone("enablePort") /\ stopped = 0 /\ stopped' = 0 /\ kbd' = kbd
      /\ stage' = <<"disableScan", "send">> /\ device' = [device EXCEPT !.ports = {1}]
      /\ port' = <<>> /\ strays' = 0
  BY DEF EnablePort, At, Configures, Flush
<1>3. device \in DeviceType /\ ~device.testing /\ MaxStray \in Nat
  BY <1>1, <1>2, KeyboardAssumption DEF InputInv, InputType, QuietInv
<1>4. device' \in DeviceType /\ ~device'.testing
  BY <1>2, <1>3 DEF DeviceType
<1>5. InputType'
  BY <1>1, <1>2, <1>3, <1>4 DEF InputInv, InputType
<1>6. SetInv'
  BY <1>2 DEF SetInv, Ready, Alone
<1>7. QuietInv'
  BY <1>1, <1>2, <1>4 DEF QuietInv
<1> QED BY <1>2, <1>5, <1>6, <1>7 DEF Starts, InputInv

LEMMA Answered ==
  ASSUME NEW s \in Seq(0 .. 255), NEW t \in Seq(0 .. 255), Clean(s), OneAnswer(t)
  PROVE  OneAnswer(s \o t)
<1>1. /\ DOMAIN s = 1 .. Len(s) /\ DOMAIN t = 1 .. Len(t) /\ Len(s) \in Nat /\ Len(t) \in Nat
      /\ DOMAIN (s \o t) = 1 .. Len(s) + Len(t)
      /\ \A i \in 1 .. Len(s) : (s \o t)[i] = s[i]
      /\ \A i \in Len(s) + 1 .. Len(s) + Len(t) : (s \o t)[i] = t[i - Len(s)]
  BY Joins
<1> DEFINE u == s \o t
           n == Len(s)
<1>2. n \in Nat
  BY <1>1
<1>3. ASSUME NEW i \in DOMAIN u, u[i] \in {\hfa, \hfe}
      PROVE  i \in Int /\ i - n \in DOMAIN t /\ u[i] = t[i - n]
  <2>1. i \notin 1 .. n
    BY <1>1, <1>3 DEF Clean
  <2>2. i \in n + 1 .. n + Len(t)
    BY <1>1, <2>1
  <2> QED BY <1>1, <2>2
<1>4. \A j \in DOMAIN t : j \in Int /\ j + n \in DOMAIN u /\ u[j + n] = t[j]
  BY <1>1
<1> HIDE DEF u, n
<1>5. ASSUME NEW i \in DOMAIN u, NEW j \in DOMAIN u, u[i] \in {\hfa, \hfe}, u[j] \in {\hfa, \hfe}
      PROVE  i = j
  <2>1. i - n = j - n
    BY <1>3, <1>5 DEF OneAnswer
  <2>2. i \in Int /\ j \in Int
    BY <1>3, <1>5
  <2> QED BY <1>2, <2>1, <2>2
<1>6. ASSUME NEW i \in DOMAIN u, u[i] = \hfa
      PROVE  i + 1 \in DOMAIN u /\ u[i + 1] \in {2, \h41}
  <2>1. i \in Int /\ i - n \in DOMAIN t /\ t[i - n] = \hfa
    BY <1>3, <1>6
  <2>2. (i - n) + 1 \in DOMAIN t /\ t[(i - n) + 1] \in {2, \h41}
    BY <2>1 DEF OneAnswer
  <2>3. ((i - n) + 1) + n = i + 1
    BY <1>2, <2>1
  <2> QED BY <1>4, <2>2, <2>3
<1>7. OneAnswer(u)
  BY <1>5, <1>6 DEF OneAnswer
<1> QED BY <1>7 DEF u

LEMMA AnswersAre ==
  ASSUME NEW c, NEW answer \in Answers(c)
  PROVE  /\ answer \in Seq(0 .. 255) /\ answer # <<>>
         /\ c = "getSet" => OneAnswer(answer) /\ answer \in {<<\hfe>>, <<\hfa, 2>>, <<\hfa, \h41>>}
         /\ c # "getSet" => answer \in {<<\hfe>>, <<\hfa>>}
<1>1. /\ c = "getSet" => answer \in {<<\hfe>>, <<\hfa, 2>>, <<\hfa, \h41>>}
      /\ c # "getSet" => answer \in {<<\hfe>>, <<\hfa>>}
  BY DEF Answers
<1>2. OneAnswer(<<\hfe>>) /\ OneAnswer(<<\hfa, 2>>) /\ OneAnswer(<<\hfa, \h41>>)
  BY DEF OneAnswer
<1> DEFINE Sent(bytes) == bytes \in Seq(0 .. 255) /\ bytes # <<>>
<1>3. Sent(<<\hfe>>) /\ Sent(<<\hfa>>) /\ Sent(<<\hfa, 2>>) /\ Sent(<<\hfa, \h41>>)
  OBVIOUS
<1> HIDE DEF Sent
<1>4. c = "getSet" => OneAnswer(answer) /\ Sent(answer)
  BY <1>1, <1>2, <1>3
<1>5. c # "getSet" => Sent(answer)
  BY <1>1, <1>3
<1>6. Sent(answer)
  BY <1>4, <1>5
<1> QED BY <1>1, <1>4, <1>6 DEF Sent

LEMMA SendStep ==
  ASSUME InputInv, NEW c \in Commands, Send(c)
  PROVE  Starts
<1> DEFINE first == IF device.testing THEN <<\haa>> ELSE <<>>
<1>1. PICK answer \in Answers(c) :
        /\ port' = port \o first \o answer
        /\ device' = IF answer = <<\hfe>> THEN Tested ELSE Obeyed(c)
  BY DEF Send
<1>2. /\ stage = <<c, "send">> /\ stage' = <<c, "receive">> /\ stopped = 0 /\ stopped' = 0
      /\ kbd' = kbd /\ strays' = strays
  BY DEF Send, At
<1>3. /\ first \in Seq(0 .. 255) /\ Clean(first)
      /\ ~device.testing => first = <<>>
      /\ device.testing => first = <<\haa>>
  <2>1. <<\haa>> \in Seq(0 .. 255) /\ <<>> \in Seq(0 .. 255) /\ Clean(<<\haa>>) /\ Clean(<<>>)
    BY DEF Clean
  <2> QED BY <2>1
<1> HIDE DEF first
<1>4. port \in Seq(0 .. 255) /\ answer \in Seq(0 .. 255) /\ port \o first \in Seq(0 .. 255)
  BY <1>3, AnswersAre, Joins DEF InputInv, InputType
<1>5. device \in DeviceType
  BY DEF InputInv, InputType
<1>6. /\ device' \in DeviceType
      /\ c # "reset" => ~device'.testing
      /\ c = "reset" /\ answer = <<\hfe>> => ~device'.testing
      /\ c = "reset" /\ answer # <<\hfe>> => device'.testing
  <2>1. /\ Tested \in DeviceType /\ ~Tested.testing
        /\ Obeyed(c) \in DeviceType
        /\ c # "reset" => ~Obeyed(c).testing
        /\ c = "reset" => Obeyed(c).testing
    BY <1>5 DEF Commands, Tested, Obeyed, DeviceType
  <2>2. CASE answer = <<\hfe>>
    BY <1>1, <2>1, <2>2
  <2>3. CASE answer # <<\hfe>>
    BY <1>1, <2>1, <2>3
  <2> QED BY <2>2, <2>3
<1>7. /\ <<c, "receive">> \in Stages /\ <<c, "receive">> \notin Early
      /\ <<c, "receive">> # Ready
  BY StageSet
<1>8. InputType'
  <2>1. port' \in Seq(0 .. 255)
    BY <1>1, <1>4, Joins
  <2> QED BY <1>2, <1>6, <1>7, <2>1 DEF InputInv, InputType
<1>9. SetInv'
  <2>1. ASSUME c = "getSet" PROVE OneAnswer(port')
    <3>1. Clean(port)
      BY <1>2, <2>1 DEF InputInv, SetInv
    <3>2. Clean(port \o first) /\ OneAnswer(answer)
      BY <1>3, <1>4, <2>1, <3>1, Follows, AnswersAre
    <3>3. OneAnswer((port \o first) \o answer)
      BY <1>4, <3>2, Answered
    <3> QED BY <1>1, <3>3
  <2>2. ASSUME c = "enableScan" PROVE kbd.set = 2
    BY <1>2, <2>2 DEF InputInv, SetInv
  <2>3. /\ stage' # <<"getSet", "send">> /\ stage' # <<"getSet", "value">>
        /\ stage' # <<"enableScan", "send">> /\ stage' # Ready
        /\ stage' = <<"getSet", "receive">> => c = "getSet"
        /\ stage' = <<"enableScan", "receive">> => c = "enableScan"
    BY <1>2, <1>7
  <2> QED BY <1>2, <2>1, <2>2, <2>3 DEF SetInv
<1>10. QuietInv'
  <2>1. /\ stage' \notin {<<"disableScan", "send">>, <<"reset", "send">>, <<"enableScan", "send">>}
        /\ stage' # <<"getSet", "send">> /\ stage' # <<"getSet", "value">>
        /\ \A d \in Commands : stage' = <<d, "receive">> => c = d
        /\ stage' \notin Early
    BY <1>2, <1>7
  <2>2. ASSUME strays = 0, c # "getSet"
        PROVE  port' = answer /\ answer \in {<<\hfe>>, <<\hfa>>}
    <3>1. port = <<>> /\ ~device.testing
      BY <1>2, <2>2 DEF InputInv, QuietInv, Commands
    <3>2. port' = <<>> \o <<>> \o answer
      BY <1>1, <1>3, <3>1
    <3>3. <<>> \o <<>> = <<>> /\ <<>> \o answer = answer
      BY <1>4, ConcatEmptySeq
    <3> QED BY <2>2, <3>2, <3>3, AnswersAre
  <2>3. ASSUME strays = 0, c = "getSet"
        PROVE  \/ port' \in {<<\hfe>>, <<\hfa, 2>>, <<\hfa, \h41>>}
               \/ port' # <<>> /\ Head(port') = \haa
    <3>1. \/ port = <<>>
          \/ port = <<\haa>> /\ ~device.testing
      BY <1>2, <2>3 DEF InputInv, QuietInv
    <3>2. CASE port = <<>> /\ ~device.testing
      <4>1. port' = <<>> \o <<>> \o answer
        BY <1>1, <1>3, <3>2
      <4>2. <<>> \o <<>> = <<>> /\ <<>> \o answer = answer
        BY <1>4, ConcatEmptySeq
      <4> QED BY <2>3, <4>1, <4>2, AnswersAre
    <3>3. CASE port \o first = <<\haa>>
      <4>1. Head(<<\haa>>) = \haa /\ <<\haa>> # <<>>
        OBVIOUS
      <4> QED BY <1>1, <1>4, <3>3, <4>1, Joins
    <3>4. CASE port = <<>> /\ device.testing
      BY <1>3, <3>3, <3>4, ConcatEmptySeq
    <3>5. CASE port = <<\haa>> /\ ~device.testing
      <4>1. port \o <<>> = port
        BY <1>4, ConcatEmptySeq
      <4>2. port \o first = port
        BY <1>3, <3>5, <4>1
      <4>3. port \o first = <<\haa>>
        BY <3>5, <4>2, Zenon
      <4> QED BY <3>3, <4>3
    <3> QED BY <3>1, <3>2, <3>4, <3>5
  <2>4. <<\hfa>> # <<>> /\ Head(<<\hfa>>) = \hfa /\ <<\hfa>> # <<\hfe>>
    <3>1. <<\hfa>>[1] = \hfa /\ <<\hfe>>[1] = \hfe
      OBVIOUS
    <3> QED BY <3>1
  <2>5. ASSUME strays = 0, c = "disableScan"
        PROVE  port' \in {<<\hfe>>, <<\hfa>>} /\ ~device'.testing
    BY <1>6, <2>2, <2>5
  <2>6. ASSUME strays = 0, c = "reset"
        PROVE  \/ port' \in {<<\hfe>>, <<\hfa, \haa>>, <<\haa>>} /\ ~device'.testing
               \/ port' = <<\hfa>> /\ device'.testing
    <3>1. port' \in {<<\hfe>>, <<\hfa>>} /\ port' = answer
      BY <2>2, <2>6
    <3>2. CASE port' = <<\hfe>>
      BY <1>6, <2>6, <3>1, <3>2
    <3>3. CASE port' = <<\hfa>>
      BY <1>6, <2>4, <2>6, <3>1, <3>3
    <3> QED BY <3>1, <3>2, <3>3
  <2>7. ASSUME strays = 0, c = "enableScan"
        PROVE  /\ ~device'.testing
               /\ port' = <<\hfe>> \/ (port' # <<>> /\ Head(port') = \hfa)
    BY <1>6, <2>2, <2>4, <2>7
  <2>8. c = "getSet" => ~device'.testing
    BY <1>6
  <2> QED BY <1>2, <2>1, <2>3, <2>5, <2>6, <2>7, <2>8 DEF QuietInv, Commands
<1> QED BY <1>2, <1>8, <1>9, <1>10 DEF Starts, InputInv

LEMMA HeadsAndTails ==
  ASSUME NEW s
  PROVE  /\ s \in {<<\hfe>>, <<\hfa>>} => Head(s) \in {\hfe, \hfa} /\ Tail(s) = <<>>
         /\ s \in {<<\hfe>>, <<\hfa, \haa>>, <<\haa>>} =>
              /\ Head(s) \in {\hfe, \hfa, \haa} /\ Tail(s) \in {<<>>, <<\haa>>}
              /\ Head(s) = \hfe => Tail(s) = <<>>
         /\ s \in {<<\hfe>>, <<\hfa, 2>>, <<\hfa, \h41>>} =>
              /\ Head(s) \in {\hfe, \hfa}
              /\ Head(s) = \hfe => Tail(s) = <<>>
              /\ Head(s) = \hfa => Tail(s) \in {<<2>>, <<\h41>>}
         /\ s \in {<<2>>, <<\h41>>} => Tail(s) = <<>>
<1>1. /\ Head(<<\hfe>>) = \hfe /\ Head(<<\hfa>>) = \hfa /\ Head(<<\haa>>) = \haa
      /\ Head(<<\hfa, \haa>>) = \hfa /\ Head(<<\hfa, 2>>) = \hfa /\ Head(<<\hfa, \h41>>) = \hfa
  OBVIOUS
<1>2. /\ Tail(<<\hfe>>) = <<>> /\ Tail(<<\hfa>>) = <<>> /\ Tail(<<\haa>>) = <<>>
      /\ Tail(<<2>>) = <<>> /\ Tail(<<\h41>>) = <<>>
  OBVIOUS
<1>3. /\ Tail(<<\hfa, \haa>>) = <<\haa>> /\ Tail(<<\hfa, 2>>) = <<2>>
      /\ Tail(<<\hfa, \h41>>) = <<\h41>>
  OBVIOUS
<1> DEFINE A(t) == Head(t) \in {\hfe, \hfa} /\ Tail(t) = <<>>
           B(t) == /\ Head(t) \in {\hfe, \hfa, \haa} /\ Tail(t) \in {<<>>, <<\haa>>}
                   /\ Head(t) = \hfe => Tail(t) = <<>>
           C(t) == /\ Head(t) \in {\hfe, \hfa}
                   /\ Head(t) = \hfe => Tail(t) = <<>>
                   /\ Head(t) = \hfa => Tail(t) \in {<<2>>, <<\h41>>}
           E(t) == Tail(t) = <<>>
<1>4. A(<<\hfe>>) /\ A(<<\hfa>>)
  BY <1>1, <1>2
<1>5. B(<<\hfe>>) /\ B(<<\hfa, \haa>>) /\ B(<<\haa>>)
  BY <1>1, <1>2, <1>3
<1>6. C(<<\hfe>>) /\ C(<<\hfa, 2>>) /\ C(<<\hfa, \h41>>)
  BY <1>1, <1>2, <1>3
<1>7. E(<<2>>) /\ E(<<\h41>>)
  BY <1>2
<1> HIDE DEF A, B, C, E
<1>8. /\ s \in {<<\hfe>>, <<\hfa>>} => A(s)
      /\ s \in {<<\hfe>>, <<\hfa, \haa>>, <<\haa>>} => B(s)
      /\ s \in {<<\hfe>>, <<\hfa, 2>>, <<\hfa, \h41>>} => C(s)
      /\ s \in {<<2>>, <<\h41>>} => E(s)
  BY <1>4, <1>5, <1>6, <1>7
<1> QED BY <1>8 DEF A, B, C, E

LEMMA ReceiveStep ==
  ASSUME InputInv, NEW c \in Commands, Receive(c)
  PROVE  Brings
<1>1. /\ stage = <<c, "receive">> /\ stopped = 0 /\ port # <<>> /\ port' = Tail(port)
      /\ kbd' = kbd /\ device' = device /\ strays' = strays
  BY DEF Receive, At
<1>2. /\ port \in Seq(0 .. 255) /\ Head(port) \in 0 .. 255 /\ port' \in Seq(0 .. 255)
  <2>1. port \in Seq(0 .. 255)
    BY DEF InputInv, InputType
  <2> QED BY <1>1, <2>1, Tails
<1>3. /\ \A s \in {"send", "receive", "value"} :
           <<c, s>> \in Stages /\ <<c, s>> \notin Early /\ <<c, s>> # Ready
      /\ Ready \in Stages /\ Ready \notin Early
  BY StageSet
<1>4. InputType /\ SetInv /\ QuietInv
  BY DEF InputInv
<1>5. stage' \in Stages /\ stopped' \in Nat => InputType'
  BY <1>1, <1>2, <1>4 DEF InputType
<1>6. c = "getSet" =>
        /\ OneAnswer(Tail(port))
        /\ Head(port) \in {\hfa, \hfe} => Clean(Tail(port))
        /\ Head(port) = \hfa => Tail(port) # <<>> /\ Head(Tail(port)) \in {2, \h41}
  <2>1. c = "getSet" => OneAnswer(port)
    BY <1>1, <1>4 DEF SetInv
  <2>2. /\ OneAnswer(port) => OneAnswer(Tail(port))
        /\ OneAnswer(port) /\ Head(port) \in {\hfa, \hfe} => Clean(Tail(port))
        /\ OneAnswer(port) /\ Head(port) = \hfa =>
             Tail(port) # <<>> /\ Head(Tail(port)) \in {2, \h41}
    BY <1>1, <1>2, Clears
  <2> QED BY <2>1, <2>2
<1>7. c = "enableScan" => kbd.set = 2
  BY <1>1, <1>4 DEF SetInv
<1>8. strays = 0 =>
        /\ c = "disableScan" => port \in {<<\hfe>>, <<\hfa>>} /\ ~device.testing
        /\ c = "reset" =>
             \/ port \in {<<\hfe>>, <<\hfa, \haa>>, <<\haa>>} /\ ~device.testing
             \/ port = <<\hfa>> /\ device.testing
        /\ c = "getSet" =>
             /\ ~device.testing
             /\ \/ port \in {<<\hfe>>, <<\hfa, 2>>, <<\hfa, \h41>>}
                \/ port # <<>> /\ Head(port) = \haa
        /\ c = "enableScan" =>
             /\ ~device.testing
             /\ port = <<\hfe>> \/ (port # <<>> /\ Head(port) = \hfa)
  BY <1>1, <1>4 DEF QuietInv
<1>9. CASE Head(port) = \hfe
  <2>1. stage' = <<c, "send">> /\ stopped' = 0
    <3>1. \hfe \notin Accepted(c)
      BY DEF Accepted
    <3> QED BY <1>1, <1>9, <3>1 DEF Receive
  <2>2. SetInv'
    <3>1. /\ stage' = <<"getSet", "send">> => c = "getSet"
          /\ stage' = <<"enableScan", "send">> => c = "enableScan"
          /\ stage' # <<"getSet", "receive">> /\ stage' # <<"getSet", "value">>
          /\ stage' # <<"enableScan", "receive">> /\ stage' # Ready
      BY <1>3, <2>1
    <3> QED BY <1>1, <1>6, <1>7, <1>9, <3>1 DEF SetInv
  <2>3. strays = 0 => port' = <<>> /\ (c # "reset" => ~device.testing)
                      /\ (c = "reset" => ~device.testing)
    BY <1>1, <1>8, <1>9, HeadsAndTails DEF Commands
  <2>4. QuietInv'
    <3>1. /\ stage' # <<"disableScan", "receive">> /\ stage' # <<"reset", "receive">>
          /\ stage' # <<"getSet", "receive">> /\ stage' # <<"getSet", "value">>
          /\ stage' # <<"enableScan", "receive">> /\ stage' \notin Early
      BY <1>3, <2>1
    <3> QED BY <1>1, <2>3, <3>1 DEF QuietInv
  <2> QED BY <1>3, <1>5, <2>1, <2>2, <2>4 DEF Brings, InputInv
<1>10. CASE Head(port) # \hfe /\ Head(port) \in Accepted(c)
  <2>1. stage' = NextStage(c) /\ stopped' = 0
    BY <1>1, <1>10 DEF Receive
  <2>2. CASE c = "disableScan"
    <3>1. stage' = <<"reset", "send">> /\ <<"reset", "send">> \in Stages
          /\ <<"reset", "send">> \notin Early /\ <<"reset", "send">> # Ready
      BY <2>1, <2>2, StageSet DEF NextStage, Commands
    <3>2. SetInv'
      BY <3>1 DEF SetInv
    <3>3. strays = 0 => port' = <<>> /\ ~device.testing
      BY <1>1, <1>8, <2>2, HeadsAndTails
    <3>4. QuietInv'
      BY <1>1, <3>1, <3>3 DEF QuietInv
    <3> QED BY <1>5, <2>1, <3>1, <3>2, <3>4 DEF Brings, InputInv
  <2>3. CASE c = "reset" /\ Tail(port) = <<>>
    <3>1. stage' = <<"getSet", "send">> /\ <<"getSet", "send">> \in Stages
          /\ <<"getSet", "send">> \notin Early /\ <<"getSet", "send">> # Ready
      BY <2>1, <2>3, StageSet DEF NextStage, Commands
    <3>2. Clean(<<>>)
      BY DEF Clean
    <3>3. SetInv'
      BY <1>1, <2>3, <3>1, <3>2 DEF SetInv
    <3>4. QuietInv'
      BY <1>1, <2>3, <3>1 DEF QuietInv
    <3> QED BY <1>5, <2>1, <3>1, <3>3, <3>4 DEF Brings, InputInv
  <2>4. CASE c = "reset" /\ Tail(port) # <<>>
    <3>1. stage' = <<"reset", "receive">> /\ <<"reset", "receive">> \in Stages
          /\ <<"reset", "receive">> \notin Early /\ <<"reset", "receive">> # Ready
      BY <2>1, <2>4, StageSet DEF NextStage, Commands
    <3>2. SetInv'
      BY <3>1 DEF SetInv
    <3>3. strays = 0 => port' = <<\haa>> /\ ~device.testing
      BY <1>1, <1>8, <2>4, HeadsAndTails
    <3>4. QuietInv'
      BY <1>1, <3>1, <3>3 DEF QuietInv
    <3> QED BY <1>5, <2>1, <3>1, <3>2, <3>4 DEF Brings, InputInv
  <2>5. CASE c = "getSet"
    <3>1. stage' = <<"getSet", "value">> /\ <<"getSet", "value">> \in Stages
          /\ <<"getSet", "value">> \notin Early /\ <<"getSet", "value">> # Ready
      BY <2>1, <2>5, StageSet DEF NextStage, Commands
    <3>2. Head(port) = \hfa
      BY <1>10, <2>5 DEF Accepted
    <3>3. SetInv'
      BY <1>1, <1>6, <2>5, <3>1, <3>2 DEF SetInv
    <3>4. strays = 0 => port' \in {<<2>>, <<\h41>>} /\ ~device.testing
      BY <1>1, <1>8, <2>5, <3>2, HeadsAndTails
    <3>5. QuietInv'
      BY <1>1, <3>1, <3>4 DEF QuietInv
    <3> QED BY <1>5, <2>1, <3>1, <3>3, <3>5 DEF Brings, InputInv
  <2>6. CASE c = "enableScan"
    <3>1. stage' = Ready
      BY <2>1, <2>6 DEF NextStage
    <3>2. Ready # <<"getSet", "send">> /\ Ready # <<"getSet", "receive">> /\ Ready # <<"getSet", "value">>
      BY StageSet
    <3>3. SetInv'
      BY <1>1, <1>7, <2>6, <3>1, <3>2 DEF SetInv
    <3>4. \A d \in Commands : \A s \in {"send", "receive", "value"} : Ready # <<d, s>>
      BY StageSet
    <3>5. QuietInv'
      BY <1>3, <3>1, <3>4 DEF QuietInv, Commands
    <3> QED BY <1>3, <1>5, <2>1, <3>1, <3>3, <3>5 DEF Brings, InputInv
  <2> QED BY <2>2, <2>3, <2>4, <2>5, <2>6 DEF Commands
<1>11. CASE Head(port) # \hfe /\ Head(port) \notin Accepted(c)
  <2>1. stage' = stage /\ stopped' = Number(c) + Head(port)
    BY <1>11 DEF Receive
  <2>2. stopped' \in Nat /\ stopped' # 0
    <3>1. Number(c) \in Nat \ {0}
      BY DEF Number, Commands
    <3>2. \A a \in Nat \ {0} : \A b \in 0 .. 255 : a + b \in Nat /\ a + b # 0
      OBVIOUS
    <3>3. Number(c) + Head(port) \in Nat /\ Number(c) + Head(port) # 0
      BY <1>2, <3>1, <3>2
    <3> QED BY <2>1, <3>3
  <2>3. SetInv'
    BY <1>1, <1>3, <1>6, <1>7, <2>1 DEF SetInv
  <2>4. QuietInv'
    BY <1>1, <1>3, <2>1, <2>2 DEF QuietInv
  <2>5. strays = 0 => c = "getSet" /\ Head(port) = \haa
    BY <1>1, <1>8, <1>11, HeadsAndTails DEF Accepted, Commands
  <2>6. BringUpStops'
    <3>1. CASE strays = 0
      BY <1>1, <1>3, <2>1, <2>5, <3>1 DEF BringUpStops, Number
    <3>2. CASE strays # 0
      <4>1. strays' > 0
        BY <1>1, <1>4, <3>2, KeyboardAssumption DEF InputType
      <4> QED BY <1>1, <1>3, <2>1, <4>1 DEF BringUpStops
    <3> QED BY <3>1, <3>2
  <2> QED BY <1>1, <1>3, <1>5, <2>1, <2>2, <2>3, <2>4, <2>6 DEF Brings, InputInv
<1> QED BY <1>9, <1>10, <1>11

LEMMA ReceiveSetStep ==
  ASSUME InputInv, ReceiveSet
  PROVE  Starts
<1>1. /\ stage = <<"getSet", "value">> /\ stopped = 0 /\ port' = Tail(port)
      /\ device' = device /\ strays' = strays
  BY DEF ReceiveSet, At
<1>2. InputType /\ SetInv /\ QuietInv
  BY DEF InputInv
<1>3. port # <<>> /\ Head(port) \in {2, \h41}
  BY <1>1, <1>2 DEF SetInv
<1>4. Head(port) \in DOMAIN SetOf /\ SetOf[Head(port)] = 2
  BY <1>3 DEF SetOf
<1>5. kbd' = [kbd EXCEPT !.set = 2] /\ stage' = <<"enableScan", "send">> /\ stopped' = 0
  BY <1>1, <1>4 DEF ReceiveSet
<1>6. /\ <<"enableScan", "send">> \in Stages /\ <<"enableScan", "send">> \notin Early
      /\ <<"enableScan", "send">> # Ready
  BY StageSet DEF Commands
<1>7. InputType'
  <2>1. kbd' \in KbdType /\ kbd'.bufTerm = kbd.bufTerm
    BY <1>2, <1>5, ZenonT(40) DEF InputType, KbdType
  <2>2. port' \in Seq(0 .. 255)
    <3>1. port \in Seq(0 .. 255)
      BY <1>2 DEF InputType
    <3> QED BY <1>1, <1>3, <3>1, Tails
  <2> QED BY <1>1, <1>2, <1>5, <1>6, <2>1, <2>2 DEF InputType
<1>8. SetInv'
  <2>1. kbd'.set = 2
    BY <1>2, <1>5 DEF InputType, KbdType
  <2> QED BY <1>5, <1>6, <2>1 DEF SetInv
<1>9. QuietInv'
  <2>1. strays = 0 => port' = <<>> /\ ~device.testing
    BY <1>1, <1>2, HeadsAndTails DEF QuietInv
  <2> QED BY <1>1, <1>5, <1>6, <2>1 DEF QuietInv
<1> QED BY <1>5, <1>7, <1>8, <1>9 DEF Starts, InputInv

(* More bytes behind those in the port, of the self test or of keys.       *)
LEMMA MoreBytes ==
  ASSUME InputInv, NEW t \in Seq(0 .. 255), Clean(t), port' = port \o t, stage' = stage, kbd' = kbd
  PROVE  SetInv' /\ port' \in Seq(0 .. 255)
<1>1. InputType /\ SetInv
  BY DEF InputInv
<1>2. port \in Seq(0 .. 255)
  BY <1>1 DEF InputType
<1>3. port' \in Seq(0 .. 255)
  BY <1>2, Joins
<1>4. /\ Clean(port) => Clean(port')
      /\ OneAnswer(port) => OneAnswer(port')
      /\ port # <<>> => port' # <<>> /\ Head(port') = Head(port)
  BY <1>2, Follows, Joins
<1>5. SetInv'
  BY <1>1, <1>4 DEF SetInv
<1> QED BY <1>3, <1>5

LEMMA TestEndsStep ==
  ASSUME InputInv, TestEnds
  PROVE  Starts
<1>1. /\ device.testing /\ device' = Tested /\ port' = Append(port, \haa) /\ stopped = 0
      /\ kbd' = kbd /\ stage' = stage /\ strays' = strays /\ stopped' = 0
  BY DEF TestEnds
<1>2. InputType /\ SetInv /\ QuietInv
  BY DEF InputInv
<1>3. port \in Seq(0 .. 255) /\ port' = port \o <<\haa>>
      /\ <<\haa>> \in Seq(0 .. 255) /\ Clean(<<\haa>>)
  <2>1. port \in Seq(0 .. 255)
    BY <1>2 DEF InputType
  <2>2. Append(port, \haa) = port \o <<\haa>>
    BY <2>1, AppendIsConcat
  <2>3. <<\haa>> \in Seq(0 .. 255) /\ Clean(<<\haa>>)
    BY DEF Clean
  <2> QED BY <1>1, <2>1, <2>2, <2>3
<1>4. device' \in DeviceType /\ ~device'.testing
  BY <1>1, <1>2 DEF InputType, DeviceType, Tested
<1>5. SetInv' /\ port' \in Seq(0 .. 255)
  BY <1>1, <1>3, MoreBytes
<1>6. InputType'
  BY <1>1, <1>2, <1>4, <1>5 DEF InputType
<1>7. QuietInv'
  <2>1. strays = 0 =>
          /\ stage \notin {<<"disableScan", "send">>, <<"reset", "send">>, <<"enableScan", "send">>}
          /\ stage \notin {<<"disableScan", "receive">>, <<"getSet", "receive">>,
                          <<"getSet", "value">>, <<"enableScan", "receive">>}
          /\ stage = <<"reset", "receive">> => port = <<\hfa>>
          /\ stage = <<"getSet", "send">> => port = <<>>
    BY <1>1, <1>2 DEF QuietInv
  <2>2. stage \notin Early
    BY <1>1, <1>2 DEF QuietInv
  <2>3. <<>> \o <<\haa>> = <<\haa>>
    BY <1>3, ConcatEmptySeq
  <2>4. Append(<<\hfa>>, \haa) = <<\hfa, \haa>>
    <3> DEFINE s == Append(<<\hfa>>, \haa)
    <3>1. <<\hfa>> \in Seq(0 .. 255) /\ Len(<<\hfa>>) = 1 /\ <<\hfa>>[1] = \hfa
      OBVIOUS
    <3>2. s \in Seq(0 .. 255) /\ Len(s) = 1 + 1 /\ s[1 + 1] = \haa /\ s[1] = \hfa
      BY <3>1, AppendProperties
    <3> HIDE DEF s
    <3>3. s = <<\hfa, \haa>>
      BY <3>2
    <3> QED BY <3>3 DEF s
  <2>5. strays = 0 =>
          /\ stage = <<"reset", "receive">> => port' = <<\hfa, \haa>>
          /\ stage = <<"getSet", "send">> => port' = <<\haa>>
    <3>1. port = <<\hfa>> => port' = Append(<<\hfa>>, \haa)
      BY <1>1, Zenon
    <3>2. port = <<>> => port' = <<>> \o <<\haa>>
      BY <1>3, Zenon
    <3> QED BY <2>1, <2>3, <2>4, <3>1, <3>2
  <2> QED BY <1>1, <1>4, <2>1, <2>2, <2>5 DEF QuietInv
<1> QED BY <1>1, <1>5, <1>6, <1>7 DEF Starts, InputInv

LEMMA KeyBytes ==
  ASSUME NEW k \in Key
  PROVE  /\ Make[k] \in Seq(0 .. 255) /\ Clean(Make[k])
         /\ Break[k] \in Seq(0 .. 255) /\ Clean(Break[k])
         /\ Make[k] \o Break[k] \in Seq(0 .. 255) /\ Clean(Make[k] \o Break[k])
<1>1. Make[k] \in Seq(ScanByte) /\ Break[k] \in Seq(ScanByte)
  BY KeyboardAssumption
<1>2. Make[k] \o Break[k] \in Seq(ScanByte)
  BY <1>1, Joins
<1> QED BY <1>1, <1>2, Scanned

LEMMA StrayStep ==
  ASSUME InputInv, Stray
  PROVE  Starts
<1>1. PICK k \in Key : port' = port \o Make[k] \o Break[k]
  BY DEF Stray
<1>2. /\ strays < MaxStray /\ strays' = strays + 1 /\ stopped = 0 /\ stopped' = 0
      /\ kbd' = kbd /\ device' = device /\ stage' = stage
  BY DEF Stray, CanSend
<1>3. InputType /\ QuietInv
  BY DEF InputInv
<1>4. port' = port \o (Make[k] \o Break[k])
  <2>1. port \in Seq(0 .. 255)
    BY <1>3 DEF InputType
  <2> DEFINE m == Make[k]
             b == Break[k]
  <2>2. m \in Seq(0 .. 255) /\ b \in Seq(0 .. 255)
    BY KeyBytes
  <2>3. port' = (port \o m) \o b
    BY <1>1
  <2> HIDE DEF m, b
  <2>4. (port \o m) \o b = port \o (m \o b)
    BY <2>1, <2>2, ConcatAssociative
  <2>5. port' = port \o (m \o b)
    BY <2>3, <2>4
  <2> QED BY <2>5 DEF m, b
<1>5. SetInv' /\ port' \in Seq(0 .. 255)
  BY <1>2, <1>4, KeyBytes, MoreBytes
<1>6. strays' \in 0 .. MaxStray /\ strays' # 0
  BY <1>2, <1>3, KeyboardAssumption DEF InputType
<1>7. InputType'
  BY <1>2, <1>3, <1>5, <1>6 DEF InputType
<1>8. QuietInv'
  BY <1>2, <1>3, <1>6 DEF QuietInv
<1> QED BY <1>2, <1>5, <1>7, <1>8 DEF Starts, InputInv

LEMMA BringUpStep ==
  ASSUME InputInv, BringUp
  PROVE  Brings /\ stopped = 0
<1>1. Starts => Brings
  BY DEF Starts, Brings
<1>2. stopped = 0
  BY DEF BringUp, DisablePorts, Configure, SelfTest, PortTest, Tests, EnablePort, Send, Receive,
         ReceiveSet, TestEnds, Stray, CanSend, At
<1> QED BY <1>1, <1>2, EarlySteps, TestSteps, EnableStep, SendStep, ReceiveStep,
           ReceiveSetStep, TestEndsStep, StrayStep DEF BringUp

-----------------------------------------------------------------------------

(* Keys that follow when the driver knows, and what a read does with the   *)
(* bytes of the port and of the buffer.                                    *)
LEMMA HitInput ==
  ASSUME InputInv, Listening, stopped = 0, NEW t \in Seq(0 .. 255), Clean(t), port' = port \o t,
         UNCHANGED <<kbd, device, stage, strays, stopped>>
  PROVE  InputInv'
<1>1. InputType /\ SetInv /\ QuietInv
  BY DEF InputInv
<1>2. SetInv' /\ port' \in Seq(0 .. 255)
  BY MoreBytes
<1>3. InputType'
  BY <1>1, <1>2 DEF InputType
<1>4. QuietInv'
  <2>1. \A d \in Commands : \A s \in {"send", "receive", "value"} :
          Ready # <<d, s>> /\ <<d, s>> \notin Early /\ Ready \notin Early
    BY StageSet
  <2>2. CASE stage = Ready
    BY <2>1, <2>2 DEF QuietInv, Commands
  <2>3. CASE stage = <<"enableScan", "receive">> /\ \hfa \in Range(port)
    <3>1. port # <<\hfe>>
      BY <2>3 DEF Range
    <3>2. strays = 0 => ~device.testing /\ port # <<>> /\ Head(port) = \hfa
      BY <1>1, <2>3, <3>1 DEF QuietInv
    <3>3. port \in Seq(0 .. 255)
      BY <1>1 DEF InputType
    <3>4. strays = 0 => port' # <<>> /\ Head(port') = \hfa
      BY <3>2, <3>3, Joins
    <3>5. stage \notin Early
      BY <2>1, <2>3 DEF Commands
    <3> QED BY <2>3, <3>2, <3>4, <3>5 DEF QuietInv
  <2> QED BY <2>2, <2>3 DEF Listening
<1> QED BY <1>2, <1>3, <1>4 DEF InputInv

(* When the keyboard is up only its types, and the set, are left to keep.  *)
LEMMA ReadyInput ==
  ASSUME InputInv, stage = Ready, kbd' \in KbdType, kbd'.set = kbd.set,
         Len(kbd'.bufTerm) <= BufTermSize, port' \in Seq(0 .. 255), stopped' \in Nat,
         UNCHANGED <<device, stage, strays>>
  PROVE  InputInv'
<1>1. InputType /\ SetInv /\ QuietInv
  BY DEF InputInv
<1>2. \A d \in Commands : \A s \in {"send", "receive", "value"} :
        Ready # <<d, s>> /\ Ready \notin Early
  BY StageSet
<1>3. InputType'
  BY <1>1 DEF InputType
<1>4. SetInv'
  BY <1>1, <1>2 DEF SetInv, Commands
<1>5. QuietInv'
  BY <1>1, <1>2 DEF QuietInv, Commands
<1> QED BY <1>3, <1>4, <1>5 DEF InputInv

LEMMA ReadyIsTwo ==
  ASSUME InputInv, stage = Ready
  PROVE  kbd.set = 2
BY DEF InputInv, SetInv

LEMMA Dropped ==
  ASSUME NEW Elem, NEW s \in Seq(Elem), NEW n \in 0 .. Len(s)
  PROVE  SubSeq(s, n + 1, Len(s)) \in Seq(Elem) /\ Len(SubSeq(s, n + 1, Len(s))) = Len(s) - n
<1>1. Len(s) \in Nat /\ \A i \in 1 .. Len(s) : s[i] \in Elem
  OBVIOUS
<1>2. n + 1 \in Int /\ Len(s) \in Int /\ \A i \in n + 1 .. Len(s) : s[i] \in Elem
  BY <1>1
<1>3. /\ SubSeq(s, n + 1, Len(s)) \in Seq(Elem)
      /\ Len(SubSeq(s, n + 1, Len(s))) = IF n + 1 <= Len(s) THEN Len(s) - (n + 1) + 1 ELSE 0
  BY <1>2, SubSeqProperties
<1> QED BY <1>1, <1>3

LEMMA TakeInput ==
  ASSUME InputInv, stage = Ready, NEW n \in 0 .. Len(kbd.bufTerm),
         kbd' = [kbd EXCEPT !.bufTerm = SubSeq(@, n + 1, Len(@))],
         UNCHANGED <<port, device, stage, strays, stopped>>
  PROVE  InputInv'
<1>1. kbd \in KbdType /\ Len(kbd.bufTerm) <= BufTermSize /\ BufTermSize \in Nat
  BY KeyboardAssumption DEF InputInv, InputType
<1> DEFINE b == kbd.bufTerm
           rest == SubSeq(b, n + 1, Len(b))
<1>2. b \in Seq(0 .. 255) /\ Len(b) \in Nat
  BY <1>1 DEF KbdType
<1>3. rest \in Seq(0 .. 255) /\ Len(rest) = Len(b) - n
  BY <1>2, Dropped
<1>4. kbd' = [kbd EXCEPT !.bufTerm = rest]
  OBVIOUS
<1> HIDE DEF rest
<1>5. kbd' \in KbdType /\ kbd'.set = kbd.set /\ kbd'.bufTerm = rest
  <2>1. kbd \in KbdType /\ rest \in Seq(0 .. 255)
    BY <1>1, <1>3
  <2> QED BY <1>4, <2>1, ZenonT(40) DEF KbdType
<1>6. Len(rest) <= BufTermSize
  BY <1>1, <1>2, <1>3
<1>7. port' \in Seq(0 .. 255) /\ stopped' \in Nat
  BY DEF InputInv, InputType
<1> QED BY <1>5, <1>6, <1>7, ReadyInput

LEMMA Modifiers ==
  \A c \in DOMAIN Modifier :
    Modifier[c][2] \in {"shift", "ctrl", "alt"} /\ Modifier[c][3] \in {"L", "R"}
BY FromTable DEF Modifier

LEMMA States == \A c \in DOMAIN StateAfter : StateAfter[c] \in 0 .. 8
<1> DEFINE Of2 == {<<1, \he0>>, <<2, \hf0>>, <<3, \h1f0>>,
    <<4, \he1>>, <<5, \h414>>, <<6, \h4f0>>, <<7, \h614>>, <<8, \h7f0>>}
<1>1. ASSUME NEW c \in {\he0, \hf0, \h1f0, \he1, \h414, \h4f0, \h614, \h7f0}
      PROVE  \E s \in 1 .. 8 : <<s, c>> \in Of2
  OBVIOUS
<1>2. ASSUME NEW c \in {\he0, \hf0, \h1f0, \he1, \h414, \h4f0, \h614, \h7f0}
      PROVE  (CHOOSE s \in 1 .. 8 : <<s, c>> \in Of2) \in 1 .. 8
  <2>1. \E s \in 1 .. 8 : <<s, c>> \in Of2
    BY <1>1
  <2> HIDE DEF Of2
  <2> QED BY <2>1
<1> QED BY <1>2 DEF StateAfter

LEMMA FlagsType ==
  ASSUME NEW r \in KbdType, NEW code
  PROVE  /\ Flags(r, code).down \in SUBSET ({"shift", "ctrl", "alt"} \X {"L", "R"})
         /\ Flags(r, code).on \in SUBSET {"shift", "ctrl", "alt"}
<1>1. /\ r.down \in SUBSET ({"shift", "ctrl", "alt"} \X {"L", "R"})
      /\ r.on \in SUBSET {"shift", "ctrl", "alt"}
  BY DEF KbdType
<1> DEFINE Typed(f) == /\ f.down \in SUBSET ({"shift", "ctrl", "alt"} \X {"L", "R"})
                       /\ f.on \in SUBSET {"shift", "ctrl", "alt"}
<1>2. ASSUME NEW m, m[2] \in {"shift", "ctrl", "alt"}, m[3] \in {"L", "R"}
      PROVE  Typed(Pressed(r, m)) /\ Typed(Released(r, m))
  BY <1>1, <1>2 DEF Pressed, Released
<1>3. Typed([down |-> r.down, on |-> r.on])
  BY <1>1
<1> HIDE DEF Typed
<1>4. /\ code \in DOMAIN Modifier => Typed(Pressed(r, Modifier[code]))
      /\ code - \h200 \in DOMAIN Modifier => Typed(Released(r, Modifier[code - \h200]))
  BY <1>2, Modifiers
<1>5. Typed(Flags(r, code))
  BY <1>3, <1>4 DEF Flags
<1> QED BY <1>5 DEF Typed

(* A byte that is processed leaves the keyboard in its type, and its code  *)
(* decides every member.                                                   *)
AfterCode(r, t, code) ==
  /\ t.set = r.set /\ t.modeApp = r.modeApp
  /\ t.capL = (IF code = \h58 THEN ~r.capL ELSE r.capL)
  /\ t.numL = (r.numL \/ code = \h77) /\ t.scrlL = (r.scrlL \/ code = \h7e)
  /\ t.down = Flags(r, code).down /\ t.on = Flags(r, code).on
  /\ t.state = (IF code \in DOMAIN StateAfter THEN StateAfter[code] ELSE 0)
  /\ t.bufTerm = r.bufTerm \o Output(r, code)

LEMMA ProcessedType ==
  ASSUME NEW r \in KbdType, NEW dat
  PROVE  /\ Processed(r, dat) \in KbdType
         /\ AfterCode(r, Processed(r, dat), dat + 256 * r.state)
<1> DEFINE code == dat + 256 * r.state
           out == r.bufTerm \o Output(r, code)
           down == Flags(r, code).down
           on == Flags(r, code).on
           state == IF code \in DOMAIN StateAfter THEN StateAfter[code] ELSE 0
           capL == IF code = \h58 THEN ~r.capL ELSE r.capL
           numL == r.numL \/ code = \h77
           scrlL == r.scrlL \/ code = \h7e
           s == [set |-> r.set, capL |-> capL, numL |-> numL, scrlL |-> scrlL,
                 modeApp |-> r.modeApp, down |-> down, on |-> on, state |-> state,
                 bufTerm |-> out]
<1>1. out \in Seq(0 .. 255)
  <2>1. Output(r, code) \in Seq(0 .. 255)
    BY OutputShort DEF Short
  <2>2. r.bufTerm \in Seq(0 .. 255)
    BY DEF KbdType
  <2> QED BY <2>1, <2>2
<1>2. state \in 0 .. 8
  BY States
<1>3. capL \in BOOLEAN /\ numL \in BOOLEAN /\ scrlL \in BOOLEAN
  BY DEF KbdType
<1>4. /\ down \in SUBSET ({"shift", "ctrl", "alt"} \X {"L", "R"})
      /\ on \in SUBSET {"shift", "ctrl", "alt"}
  BY FlagsType
<1>5. Processed(r, dat) =
        [r EXCEPT !.bufTerm = out, !.down = down, !.on = on,
                  !.capL = capL, !.numL = numL, !.scrlL = scrlL, !.state = state]
  BY DEF Processed
<1>6. r.set \in {0, 2} /\ r.modeApp \in {FALSE}
  BY DEF KbdType
<1> HIDE DEF code, out, down, on, state, capL, numL, scrlL
<1>7. Processed(r, dat) = s
  BY <1>5 DEF KbdType
<1>8. s \in KbdType
  <2> DEFINE set == r.set
             modeApp == r.modeApp
  <2>1. set \in {0, 2} /\ modeApp \in {FALSE}
    BY <1>6
  <2> HIDE DEF set, modeApp
  <2>2. [set |-> set, capL |-> capL, numL |-> numL, scrlL |-> scrlL,
         modeApp |-> modeApp, down |-> down, on |-> on, state |-> state,
         bufTerm |-> out] \in KbdType
    BY <1>1, <1>2, <1>3, <1>4, <2>1 DEF KbdType
  <2> QED BY <2>2, Zenon DEF set, modeApp, s
<1>9. /\ s.set = r.set /\ s.modeApp = r.modeApp /\ s.capL = capL /\ s.numL = numL
      /\ s.scrlL = scrlL /\ s.down = down /\ s.on = on /\ s.state = state /\ s.bufTerm = out
  OBVIOUS
<1> HIDE DEF s
<1>10. AfterCode(r, s, code)
  BY <1>9, Zenon DEF AfterCode, code, out, down, on, state, capL, numL, scrlL
<1> QED BY <1>7, <1>8, <1>10, Zenon DEF code

(* With an empty buffer there always is room for what a byte writes.       *)
LEMMA PollInput ==
  ASSUME InputInv, stage = Ready, kbd.bufTerm = <<>>, NEW dat,
         kbd' = Processed(kbd, dat), port' \in Seq(0 .. 255),
         UNCHANGED <<device, stage, strays, stopped>>
  PROVE  InputInv'
<1>1. kbd \in KbdType /\ BufTermSize \in Nat /\ BufTermSize >= 7
  BY KeyboardAssumption DEF InputInv, InputType
<1> DEFINE code == dat + 256 * kbd.state
           out == Output(kbd, code)
<1>2. out \in Seq(0 .. 255) /\ Len(out) <= 7 /\ Len(out) \in Nat
  <2>1. Short(out, 7)
    BY OutputShort
  <2> HIDE DEF out
  <2> QED BY <2>1 DEF Short
<1>3. kbd' \in KbdType /\ kbd'.set = kbd.set /\ kbd'.bufTerm = kbd.bufTerm \o out
  <2>1. kbd' \in KbdType /\ AfterCode(kbd, kbd', code)
    BY <1>1, ProcessedType
  <2> QED BY <2>1 DEF AfterCode
<1> HIDE DEF out
<1>4. kbd'.bufTerm = out
  BY <1>2, <1>3, ConcatEmptySeq
<1>5. Len(kbd'.bufTerm) <= BufTermSize
  BY <1>1, <1>2, <1>4
<1>6. stopped' \in Nat
  BY DEF InputInv, InputType
<1> QED BY <1>3, <1>5, <1>6, ReadyInput

LEMMA RoomForOne ==
  ASSUME kbd.bufTerm = <<>>, NEW dat
  PROVE  Processable(kbd, dat)
<1>1. \A code : Len(Output(kbd, code)) <= 7 /\ Len(Output(kbd, code)) \in Nat
  <2> TAKE code
  <2>1. Short(Output(kbd, code), 7)
    BY OutputShort
  <2> QED BY <2>1 DEF Short
<1>2. Len(kbd.bufTerm) = 0
  OBVIOUS
<1> QED BY <1>1, <1>2, KeyboardAssumption DEF Processable

-----------------------------------------------------------------------------

(* The terminal: whatever is written, the position stays on the screen.    *)
LEMMA Split ==
  ASSUME NEW d \in Nat, 0 < d, NEW x \in Int
  PROVE  /\ x \div d \in Int /\ x % d \in 0 .. d - 1
         /\ x = d * (x \div d) + (x % d)
         /\ 0 <= x => x \div d \in Nat
         /\ 0 <= x \div d => 0 <= x
OBVIOUS

LEMMA LastRow ==
  ASSUME NEW x \in Cells
  PROVE  /\ total \in Nat /\ width \in Nat /\ 0 < width /\ width <= total
         /\ x - (x % width) \in Cells
         /\ x - (x % width) + width <= total
<1>1. width \in Nat /\ 0 < width /\ height \in Nat /\ 0 < height
  BY TerminalAssumption
<1>2. total = width * height /\ total \in Nat
  BY <1>1 DEF total
<1>3. x \in Nat /\ x < total
  BY <1>2 DEF Cells
<1> DEFINE q == x \div width
           r == x % width
<1>4. q \in Nat /\ r \in 0 .. width - 1 /\ x = width * q + r
  BY <1>1, <1>3, Split
<1> HIDE DEF q, r
<1>5. width <= total
  <2>1. PICK m \in Nat : height = 1 + m
    BY <1>1, height - 1 \in Nat
  <2>2. width * height = width + width * m /\ width * m \in Nat
    BY <1>1, <2>1
  <2> QED BY <1>1, <1>2, <2>2
<1>6. width * q \in Nat /\ x - r = width * q
  BY <1>1, <1>3, <1>4
<1>7. x - r + width <= total
  <2>1. CASE height <= q
    <3>1. PICK m \in Nat : q = height + m
      BY <1>1, <1>4, <2>1, q - height \in Nat
    <3>2. width * q = width * height + width * m /\ width * m \in Nat
      BY <1>1, <3>1
    <3> QED BY <1>2, <1>3, <1>4, <3>2
  <2>2. CASE q < height
    <3>1. PICK m \in Nat : height = q + 1 + m
      BY <1>1, <1>4, <2>2, height - q - 1 \in Nat
    <3>2. width * height = width * q + width + width * m /\ width * m \in Nat
      BY <1>1, <1>4, <3>1
    <3> QED BY <1>1, <1>2, <1>6, <3>2
  <2> QED BY <1>1, <1>4, <2>1, <2>2
<1>8. x - r \in 0 .. total - 1
  BY <1>1, <1>2, <1>3, <1>4, <1>6
<1> QED BY <1>1, <1>2, <1>5, <1>7, <1>8 DEF r, Cells

LEMMA Adjusts ==
  ASSUME NEW t \in [pos : 0 .. total, screen : [Cells -> [text : 0 .. 255, format : {\h07, \h70}]]]
  PROVE  AdjustVis(t) \in TerminalType
<1>1. total \in Nat /\ width \in Nat /\ 0 < width /\ width <= total
  <2>1. width \in Nat /\ 0 < width /\ height \in Nat /\ 0 < height
    BY TerminalAssumption
  <2>2. PICK m \in Nat : height = 1 + m
    BY <2>1, height - 1 \in Nat
  <2>3. width * height = width + width * m /\ width * m \in Nat
    BY <2>1, <2>2
  <2> QED BY <2>1, <2>3 DEF total
<1>2. CASE t.pos < total
  <2>1. t.pos \in Cells
    BY <1>1, <1>2 DEF Cells
  <2> QED BY <1>2, <2>1 DEF AdjustVis, TerminalType
<1>3. CASE ~(t.pos < total)
  <2> DEFINE rows == 1 + ((t.pos - total) \div width)
             from == rows * width
             screen == [i \in Cells |-> IF i + from < total THEN t.screen[i + from] ELSE Blank]
  <2>1. t.pos = total
    BY <1>1, <1>3
  <2>2. rows = 1
    <3>1. 0 \div width = 0
      BY <1>1
    <3>2. t.pos - total = 0
      BY <1>1, <2>1
    <3> QED BY <3>1, <3>2
  <2>3. from = width
    BY <1>1, <2>2
  <2>4. AdjustVis(t) = [pos |-> t.pos - from, screen |-> screen]
    BY <1>3 DEF AdjustVis
  <2> HIDE DEF from, rows
  <2>5. t.pos - from \in Cells
    BY <1>1, <2>1, <2>3 DEF Cells
  <2>6. ASSUME NEW i \in Cells PROVE i + from < total => i + from \in Cells
    BY <1>1, <2>3 DEF Cells
  <2>7. Blank \in [text : 0 .. 255, format : {\h07, \h70}]
    BY DEF Blank, Space
  <2>8. screen \in [Cells -> [text : 0 .. 255, format : {\h07, \h70}]]
    BY <2>6, <2>7
  <2> QED BY <2>4, <2>5, <2>8 DEF TerminalType
<1> QED BY <1>2, <1>3

LEMMA Toggles ==
  ASSUME NEW t \in TerminalType
  PROVE  Toggled(t) \in TerminalType
<1> DEFINE s == t.screen
           cell == [s[t.pos] EXCEPT !.format = IF @ = \h07 THEN \h70 ELSE \h07]
<1>1. t.pos \in Cells /\ s \in [Cells -> [text : 0 .. 255, format : {\h07, \h70}]]
  BY DEF TerminalType
<1>2. Toggled(t) = [pos |-> t.pos, screen |-> [s EXCEPT ![t.pos] = cell]]
  <2>1. t = [pos |-> t.pos, screen |-> s]
    BY DEF TerminalType
  <2>2. Toggled(t) = [t EXCEPT !.screen = [s EXCEPT ![t.pos] = cell]]
    BY <1>1 DEF Toggled
  <2> HIDE DEF s, cell
  <2> QED BY <2>1, <2>2
<1>3. cell \in [text : 0 .. 255, format : {\h07, \h70}]
  BY <1>1
<1> HIDE DEF s, cell
<1>4. [s EXCEPT ![t.pos] = cell] \in [Cells -> [text : 0 .. 255, format : {\h07, \h70}]]
  BY <1>1, <1>3
<1> QED BY <1>1, <1>2, <1>4 DEF TerminalType

LEMMA Writes ==
  ASSUME NEW t \in TerminalType, NEW cp
  PROVE  WriteCodePoint(t, cp) \in TerminalType
<1>1. /\ t.pos \in Cells /\ t.screen \in [Cells -> [text : 0 .. 255, format : {\h07, \h70}]]
      /\ t = [pos |-> t.pos, screen |-> t.screen]
  BY DEF TerminalType
<1>2. /\ total \in Nat /\ width \in Nat /\ 0 < width
      /\ LineStart(t) \in Cells /\ LineStart(t) + width <= total
  BY <1>1, LastRow DEF LineStart
<1>3. CASE cp = LF
  <2> DEFINE u == [t EXCEPT !.pos = LineStart(t) + width]
  <2>1. LineStart(t) + width \in 0 .. total
    BY <1>2 DEF Cells
  <2>2. u \in [pos : 0 .. total, screen : [Cells -> [text : 0 .. 255, format : {\h07, \h70}]]]
    BY <2>1 DEF TerminalType
  <2>3. AdjustVis(u) \in TerminalType
    BY <2>2, Adjusts
  <2> QED BY <1>3, <2>3 DEF WriteCodePoint, LF, CR
<1>4. CASE cp = CR
  <2>1. [t EXCEPT !.pos = LineStart(t)] \in TerminalType
    BY <1>1, <1>2 DEF TerminalType
  <2> QED BY <1>4, <2>1 DEF WriteCodePoint, LF, CR
<1>5. CASE cp \in 32 .. 126
  <2> DEFINE cell == [text |-> cp, format |-> \h07]
             u == [t EXCEPT !.pos = @ + 1, !.screen[t.pos] = cell]
  <2>1. t.pos + 1 \in 0 .. total
    BY <1>1, <1>2 DEF Cells
  <2>2. cell \in [text : 0 .. 255, format : {\h07, \h70}]
    BY <1>5
  <2> HIDE DEF cell
  <2>3. u \in [pos : 0 .. total, screen : [Cells -> [text : 0 .. 255, format : {\h07, \h70}]]]
    BY <2>1, <2>2 DEF TerminalType
  <2>4. AdjustVis(u) \in TerminalType
    BY <2>3, Adjusts
  <2>5. cp # LF /\ cp # CR
    BY <1>5 DEF LF, CR
  <2> QED BY <1>5, <2>4, <2>5 DEF WriteCodePoint, cell
<1>6. CASE cp # LF /\ cp # CR /\ cp \notin 32 .. 126
  BY <1>6 DEF WriteCodePoint
<1> QED BY <1>3, <1>4, <1>5, <1>6

-----------------------------------------------------------------------------

(* The buffer of a call: its pages hold it, from its offset on.            *)
LEMMA Sizes ==
  /\ PageSize \in Nat /\ 0 < PageSize
  /\ Request \subseteq [nr : {"read", "write", "lseek", "_llseek"},
                        fd : Int, addr : Int, count : Nat]
BY ConsoleAssumption

LEMMA Ordered ==
  ASSUME NEW d \in Nat, 0 < d, NEW x \in Int, NEW y \in Int, x <= y
  PROVE  x \div d <= y \div d
<1> DEFINE q == x \div d
           r == x % d
           u == y \div d
           v == y % d
<1>1. /\ q \in Int /\ r \in 0 .. d - 1 /\ x = d * q + r
      /\ u \in Int /\ v \in 0 .. d - 1 /\ y = d * u + v
  BY Split
<1> HIDE DEF q, r, u, v
<1>2. q <= u
  <2>1. SUFFICES ASSUME u < q PROVE FALSE
    BY <1>1
  <2>2. PICK m \in Nat : q = u + 1 + m
    BY <1>1, <2>1, q - u - 1 \in Nat
  <2>3. d * q = d * u + d + d * m /\ d * m \in Nat
    BY <1>1, <2>2
  <2> QED BY <1>1, <2>3
<1> QED BY <1>2 DEF q, u

LEMMA Span ==
  ASSUME NEW r \in Request, ~Fault(r), r.nr # "lseek"
  PROVE  /\ Cardinality(PagesOf(r)) \in Nat /\ 0 < Cardinality(PagesOf(r))
         /\ PagesOf(r) \subseteq Readable
         /\ Offset(r) \in 0 .. PageSize - 1
         /\ PageSize * Cardinality(PagesOf(r)) \in Nat
         /\ Offset(r) + r.count <= PageSize * Cardinality(PagesOf(r))
         /\ Cardinality(PagesOf(r)) = 1 =>
              \A i \in 1 .. PageSize : r.addr - Offset(r) + i - 1 \in Address
<1> DEFINE P == PageSize
           a == r.addr
           n == r.count
           z == a + (IF n = 0 THEN 0 ELSE n - 1)
           g == a \div P
           h == z \div P
           o == a % P
           w == z % P
           card == Cardinality(PagesOf(r))
<1>1. P \in Nat /\ 0 < P /\ a \in Int /\ n \in Nat /\ z \in Int /\ a <= z
  BY Sizes
<1>2. /\ g \in Int /\ o \in 0 .. P - 1 /\ a = P * g + o
      /\ h \in Int /\ w \in 0 .. P - 1 /\ z = P * h + w
  BY <1>1, Split
<1>3. g <= h
  BY <1>1, Ordered
<1>4. PagesOf(r) = g .. h /\ card = h - g + 1
  <2>1. PagesOf(r) = g .. h
    BY DEF PagesOf, PageOf
  <2> HIDE DEF g, h
  <2>2. Cardinality(g .. h) = h - g + 1
    BY <1>2, <1>3, FS_Interval
  <2> QED BY <2>1, <2>2
<1>5. PagesOf(r) \subseteq Readable /\ Readable \subseteq Nat
  BY ConsoleAssumption DEF Fault
<1>6. g \in Nat /\ g \in Readable
  <2> HIDE DEF g, h
  <2>1. g \in g .. h
    BY <1>2, <1>3
  <2> QED BY <1>4, <1>5, <2>1
<1>7. Offset(r) = o
  BY DEF Offset
<1>8. n = 0 \/ n = z - a + 1
  BY <1>1
<1> HIDE DEF P, a, n, z, g, h, o, w, card
<1>9. card \in Nat /\ 0 < card /\ P * card \in Nat
  BY <1>1, <1>2, <1>3, <1>4
<1>10. o + n <= P * card
  <2>1. P * card = (P * h - P * g) + P /\ P * g \in Int /\ P * h \in Int
    BY <1>1, <1>2, <1>4
  <2>2. CASE n = z - a + 1
    BY <1>1, <1>2, <2>1, <2>2
  <2>3. CASE n = 0
    <3>1. P * card = P * (h - g) + P /\ P * (h - g) \in Nat
      BY <1>1, <1>2, <1>3, <1>4
    <3> QED BY <1>1, <1>2, <2>3, <3>1
  <2> QED BY <1>8, <2>2, <2>3
<1>11. ASSUME NEW i \in 1 .. P PROVE a - o + i - 1 \in Address
  <2>1. P * (g + 1) = P * g + P /\ P * g \in Nat
    BY <1>1, <1>6
  <2>2. a - o + i - 1 \in P * g .. P * (g + 1) - 1
    BY <1>1, <1>2, <2>1
  <2> QED BY <1>6, <2>2 DEF Address, P
<1> QED BY <1>2, <1>5, <1>7, <1>9, <1>10, <1>11 DEF P, n, a, card

-----------------------------------------------------------------------------

(* A call where it is: what it has of the user's memory, how far it is,    *)
(* and which description it uses.                                          *)
Holds(c) == c.pc \notin {"user", "getMem", "return"} /\ c.call.nr # "lseek"
Uses(c, k) == c.kfd = k /\ c.pc \in {"driver", "put", "take", "poll", "retDesc"}
CallFits(c) ==
  /\ c.pc # "user" => c.call \in Request
  /\ c.pc \in {"getMem", "retMem"} => c.call.nr # "lseek"
  /\ c.pc \in {"getMem", "fetch", "adjust", "driver"} => c.moved = 0
  /\ c.pc = "put" => c.call.nr = "write" /\ c.moved <= c.call.count
  /\ c.pc \in {"take", "poll"} => c.call.nr = "read" /\ c.moved <= c.call.count
  /\ c.pc \in {"adjust", "driver", "put", "take", "poll", "retDesc"} => c.kfd \in 1 .. 5
  /\ Holds(c) => ~Fault(c.call) /\ Len(c.area) = PageSize * Cardinality(PagesOf(c.call))

FitsInv == proc \in [Process -> CallType] /\ \A p \in Process : CallFits(proc[p])
ReadyInv == \A p \in Process : proc[p].pc # "user" => stage = Ready
LockInv ==
  /\ bufLock \in Process \cup {Nobody} /\ accessLock \in Process \cup {Nobody}
  /\ \A p \in Process : /\ bufLock = p <=> proc[p].pc \in {"take", "poll"}
                        /\ accessLock = p <=> proc[p].pc = "put"
PollInv == \A p \in Process : proc[p].pc = "poll" => kbd.bufTerm = <<>>
CallsInv == FitsInv /\ ReadyInv /\ LockInv /\ PollInv

(* The call of p becomes c, and no other call changes.                     *)
Goes(p, c) == proc' = [proc EXCEPT ![p] = c]

LEMMA GoesTo ==
  ASSUME FitsInv, NEW p \in Process, NEW c \in CallType, CallFits(c), Goes(p, c)
  PROVE  /\ FitsInv' /\ proc'[p] = c
         /\ \A q \in Process \ {p} : proc'[q] = proc[q]
BY DEF FitsInv, Goes

LEMMA Type ==
  ASSUME FitsInv, NEW p \in Process
  PROVE  /\ proc[p] \in CallType /\ CallFits(proc[p])
         /\ proc[p] = [pc |-> proc[p].pc, call |-> proc[p].call, kfd |-> proc[p].kfd,
                       area |-> proc[p].area, moved |-> proc[p].moved,
                       status |-> proc[p].status]
BY DEF FitsInv, CallType

LEMMA Fields ==
  ASSUME NEW c \in CallType
  PROVE  /\ c.call \in Request \cup {NoCall} /\ c.kfd \in 1 .. 5 \cup {Absent}
         /\ c.status \in {"none", "asked", "done", "EFAULT", "EBADF", "ESPIPE"}
BY DEF CallType

LEMMA RestFits == AtRest \in CallType /\ CallFits(AtRest) /\ ~Holds(AtRest)
BY DEF AtRest, CallType, CallFits, Holds, Labels

LEMMA AskedFits ==
  ASSUME NEW req \in Request
  PROVE  LET c == [AtRest EXCEPT !.pc = IF req.nr = "lseek" THEN "fetch" ELSE "getMem",
                                 !.call = req, !.status = "asked"]
         IN /\ c \in CallType /\ CallFits(c) /\ ~Holds(c)
            /\ c.pc \in {"fetch", "getMem"}
<1> DEFINE label == IF req.nr = "lseek" THEN "fetch" ELSE "getMem"
           c == [AtRest EXCEPT !.pc = label, !.call = req, !.status = "asked"]
<1>1. /\ label \in Labels /\ label \in {"fetch", "getMem"}
      /\ label = "fetch" <=> req.nr = "lseek"
  BY DEF Labels
<1> HIDE DEF label
<1>2. c = [pc |-> label, call |-> req, kfd |-> Absent, area |-> <<>>, moved |-> 0,
           status |-> "asked"]
  <2>1. ASSUME NEW x, x = [AtRest EXCEPT !.pc = label, !.call = req, !.status = "asked"]
        PROVE  x = [pc |-> label, call |-> req, kfd |-> Absent, area |-> <<>>, moved |-> 0,
                    status |-> "asked"]
    BY <2>1 DEF AtRest
  <2> QED BY <2>1
<1> HIDE DEF c
<1>3. c \in CallType
  BY <1>1, <1>2 DEF CallType
<1>4. CallFits(c) /\ ~Holds(c) /\ c.pc \in {"fetch", "getMem"}
  BY <1>1, <1>2 DEF CallFits, Holds
<1> QED BY <1>3, <1>4 DEF c, label

(* A call that only goes on: from one label to another, with a status.     *)
Further(c, label, status) == [c EXCEPT !.pc = label, !.status = status]

LEMMA FurtherFits ==
  ASSUME NEW c \in CallType, CallFits(c), c.pc \notin {"user", "getMem", "return"},
         NEW label \in Labels \ {"user", "getMem"},
         NEW status \in {"none", "asked", "done", "EFAULT", "EBADF", "ESPIPE"},
         label = "retMem" => c.call.nr # "lseek",
         label = "return" => c.call.nr = "lseek",
         label \in {"fetch", "adjust", "driver"} => c.moved = 0,
         label = "put" => c.call.nr = "write" /\ c.moved <= c.call.count,
         label \in {"take", "poll"} => c.call.nr = "read" /\ c.moved <= c.call.count,
         label \notin {"return", "retMem", "fetch"} => c.kfd \in 1 .. 5
  PROVE  LET d == Further(c, label, status)
         IN /\ d \in CallType /\ CallFits(d) /\ d.pc = label
            /\ d.call = c.call /\ d.kfd = c.kfd /\ d.moved = c.moved /\ d.area = c.area
            /\ Holds(d) <=> Holds(c)
<1> DEFINE d == Further(c, label, status)
<1>1. /\ d \in CallType /\ d.pc = label /\ d.call = c.call /\ d.kfd = c.kfd
      /\ d.moved = c.moved /\ d.area = c.area
  <2>1. d = [pc |-> label, call |-> c.call, kfd |-> c.kfd, area |-> c.area, moved |-> c.moved,
             status |-> status]
    <3>1. ASSUME NEW x, x = Further(c, label, status)
          PROVE  x = [pc |-> label, call |-> c.call, kfd |-> c.kfd, area |-> c.area,
                      moved |-> c.moved, status |-> status]
      BY <3>1 DEF Further, CallType
    <3> QED BY <3>1
  <2>2. /\ c.call \in Request \cup {NoCall} /\ c.kfd \in 1 .. 5 \cup {Absent}
        /\ c.area \in Seq(0 .. 255) /\ c.moved \in Nat
    BY DEF CallType
  <2> HIDE DEF d
  <2>3. d \in CallType
    BY <2>1, <2>2 DEF CallType
  <2> QED BY <2>1, <2>3
<1> HIDE DEF d
<1>2. Holds(d) <=> Holds(c)
  BY <1>1 DEF Holds
<1>3. CallFits(d)
  BY <1>1, <1>2 DEF CallFits, Labels
<1> QED BY <1>1, <1>2, <1>3 DEF d

-----------------------------------------------------------------------------

FirstDescs == {Pair(0, 1), Pair(1, 1), Pair(2, 1), Pair(3, 2), Pair(4, 3), Pair(5, 4), Pair(6, 5)}
DescriptorType == [key : Int, value : Int]

(* Every process has the descriptors of init, however its map was copied,  *)
(* and the maps of the descriptions are those of the start.                *)
DescInv ==
  /\ alive \subseteq Process /\ First \in alive /\ DOMAIN desctors = Process
  /\ \A p \in Process : /\ desctors[p] \in MapOf(DescriptorType)
                        /\ Members(desctors[p]) = IF p \in alive THEN FirstDescs ELSE {}
  /\ KFDStatus = Map_of([k \in 1 .. 5 |-> <<k, "KFDInfo">>])
  /\ kfdDriverMap = Map_of(<<<<1, "VGATerminal">>, <<2, "ATA">>, <<3, "ATA">>,
                             <<4, "ATA">>, <<5, "ATA">>>>)

(* A description is counted once for each call that uses it.               *)
RefInv ==
  /\ refs \in [1 .. 5 -> Nat]
  /\ \A k \in 1 .. 5 : refs[k] = (IF k = 1 THEN 2 ELSE 0) + Cardinality(Using(k))

MemInv ==
  /\ memory \in [Process -> [Address -> 0 .. 255]]
  /\ pins \in [Process -> [Readable -> 0 .. MaxPins]]
  /\ BuffersReturned

IInv == /\ InputInv /\ term \in TerminalType /\ CallsInv
        /\ MemInv /\ DescInv /\ RefInv /\ StopsOnlyFor

LEMMA HasIs ==
  ASSUME NEW p
  PROVE  HasMem(p) <=> Holds(proc[p])
BY DEF HasMem, Holds, Of

LEMMA UsingIs == \A k : Using(k) = {p \in Process : Uses(proc[p], k)}
BY DEF Using, Uses

LEMMA DescKept ==
  ASSUME DescInv, UNCHANGED <<desctors, KFDStatus, kfdDriverMap, alive>>
  PROVE  DescInv'
BY DEF DescInv

LEMMA RefsKept ==
  ASSUME RefInv, refs' = refs, \A q \in Process : \A k \in 1 .. 5 : Uses(proc'[q], k) <=> Uses(proc[q], k)
  PROVE  RefInv'
<1>1. ASSUME NEW k \in 1 .. 5 PROVE Using(k)' = Using(k)
  BY <1>1 DEF Using, Uses
<1>2. ASSUME NEW k \in 1 .. 5
      PROVE  refs'[k] = (IF k = 1 THEN 2 ELSE 0) + Cardinality(Using(k)')
  BY <1>1 DEF RefInv
<1> QED BY <1>2 DEF RefInv

LEMMA PinsKept ==
  ASSUME MemInv, stopped = 0, UNCHANGED <<memory, pins>>,
         \A q \in Process : /\ Holds(proc'[q]) <=> Holds(proc[q])
                            /\ Holds(proc[q]) => proc'[q].call = proc[q].call
  PROVE  MemInv'
<1>1. ASSUME NEW q \in Process, NEW g \in Readable
      PROVE  pins'[q][g] = IF HasMem(q)' /\ g \in PagesOf(proc'[q].call) THEN 1 ELSE 0
  <2>1. HasMem(q)' <=> Holds(proc'[q])
    BY DEF HasMem, Holds, Of
  <2>2. pins[q][g] = IF HasMem(q) /\ g \in PagesOf(proc[q].call) THEN 1 ELSE 0
    BY DEF MemInv, BuffersReturned, Of
  <2> QED BY <2>1, <2>2, HasIs
<1>2. BuffersReturned'
  BY <1>1 DEF BuffersReturned, Of
<1> QED BY <1>2 DEF MemInv

LEMMA StopsKept ==
  ASSUME stopped' = 0
  PROVE  StopsOnlyFor'
BY DEF StopsOnlyFor

LEMMA ReadyKept ==
  ASSUME CallsInv, NEW p \in Process, proc[p].pc # "user" \/ stage = Ready,
         \A q \in Process \ {p} : proc'[q] = proc[q], stage' = stage
  PROVE  ReadyInv'
BY DEF CallsInv, ReadyInv

LEMMA LocksKept ==
  ASSUME CallsInv, NEW p \in Process, \A q \in Process \ {p} : proc'[q] = proc[q],
         UNCHANGED <<bufLock, accessLock>>,
         proc'[p].pc \in {"take", "poll"} <=> proc[p].pc \in {"take", "poll"},
         proc'[p].pc = "put" <=> proc[p].pc = "put"
  PROVE  LockInv'
<1>1. ASSUME NEW q \in Process
      PROVE  /\ bufLock = q <=> proc'[q].pc \in {"take", "poll"}
             /\ accessLock = q <=> proc'[q].pc = "put"
  BY DEF CallsInv, LockInv
<1>2. bufLock \in Process \cup {Nobody} /\ accessLock \in Process \cup {Nobody}
  BY DEF CallsInv, LockInv
<1> QED BY <1>1, <1>2 DEF LockInv

LEMMA PollsKept ==
  ASSUME CallsInv, NEW p \in Process, \A q \in Process \ {p} : proc'[q] = proc[q],
         kbd' = kbd, proc'[p].pc # "poll"
  PROVE  PollInv'
BY DEF CallsInv, PollInv

(* The holder of the keyboard's lock may change the buffer.                *)
LEMMA PollsHeld ==
  ASSUME CallsInv, NEW p \in Process, \A q \in Process \ {p} : proc'[q] = proc[q],
         proc[p].pc \in {"take", "poll"}, proc'[p].pc = "poll" => kbd'.bufTerm = <<>>
  PROVE  PollInv'
<1>1. bufLock = p
  BY DEF CallsInv, LockInv
<1>2. \A q \in Process \ {p} : proc[q].pc # "poll"
  BY <1>1 DEF CallsInv, LockInv
<1> QED BY <1>2 DEF PollInv

(* A step of a call that moves no memory and no descriptor.                *)
LEMMA Onward ==
  ASSUME IInv, NEW p \in Process, stopped = 0, stopped' = 0,
         proc[p].pc # "user" \/ stage = Ready,
         NEW c \in CallType, CallFits(c), Goes(p, c),
         Holds(c) <=> Holds(proc[p]),
         Holds(c) => c.call = proc[p].call,
         \A k \in 1 .. 5 : Uses(c, k) <=> Uses(proc[p], k),
         UNCHANGED <<descriptions, memory, pins, alive, stage>>,
         InputInv', term' \in TerminalType, LockInv', PollInv'
  PROVE  IInv'
<1>1. InputInv /\ CallsInv /\ MemInv /\ DescInv /\ RefInv /\ FitsInv
  BY DEF IInv, CallsInv
<1>2. FitsInv' /\ proc'[p] = c /\ \A q \in Process \ {p} : proc'[q] = proc[q]
  BY <1>1, GoesTo
<1>3. ReadyInv'
  BY <1>1, <1>2, ReadyKept
<1>4. CallsInv'
  BY <1>2, <1>3 DEF CallsInv
<1>5. MemInv'
  <2>1. ASSUME NEW q \in Process
        PROVE  /\ Holds(proc'[q]) <=> Holds(proc[q])
               /\ Holds(proc[q]) => proc'[q].call = proc[q].call
    <3>1. CASE q = p
      BY <1>2, <3>1
    <3>2. CASE q # p
      BY <1>2, <3>2
    <3> QED BY <3>1, <3>2
  <2> QED BY <1>1, <2>1, PinsKept
<1>6. RefInv'
  <2>1. ASSUME NEW q \in Process, NEW k \in 1 .. 5
        PROVE  Uses(proc'[q], k) <=> Uses(proc[q], k)
    <3>1. CASE q = p
      BY <1>2, <3>1
    <3>2. CASE q # p
      BY <1>2, <3>2
    <3> QED BY <3>1, <3>2
  <2>2. refs' = refs
    BY DEF descriptions
  <2> QED BY <1>1, <2>1, <2>2, RefsKept
<1>7. DescInv'
  BY <1>1, DescKept DEF descriptions
<1> QED BY <1>4, <1>5, <1>6, <1>7, StopsKept DEF IInv

-----------------------------------------------------------------------------

(* The maps of the descriptions as they are from the start on.             *)
LEMMA StatusMap ==
  LET map == Map_of([k \in 1 .. 5 |-> <<k, "KFDInfo">>])
  IN /\ map \in MapOf([key : 1 .. 5, value : {"KFDInfo"}])
     /\ Members(map) = {Pair(k, "KFDInfo") : k \in 1 .. 5}
     /\ Keys(map) = 1 .. 5
     /\ \A k \in 1 .. 5 : Map_fetch(k, map) = "KFDInfo"
<1> DEFINE pairs == [k \in 1 .. 5 |-> <<k, "KFDInfo">>]
           D == (1 .. 5) \X {"KFDInfo"}
           E == [key : 1 .. 5, value : {"KFDInfo"}]
           map == Map_of(pairs)
<1>1. /\ pairs \in Seq(D) /\ Len(pairs) = 5
      /\ \A i \in 1 .. 5 : pairs[i][1] = i /\ pairs[i][2] = "KFDInfo"
  OBVIOUS
<1> HIDE DEF pairs
<1>2. \A i \in 1 .. Len(pairs) : Pair(pairs[i][1], pairs[i][2]) \in E
  BY <1>1 DEF Pair
<1>3. \A i, j \in 1 .. Len(pairs) : pairs[i][1] = pairs[j][1] => i = j
  BY <1>1
<1> HIDE DEF D, E
<1>4. /\ map \in MapOf(E)
      /\ Members(map) = {Pair(pairs[i][1], pairs[i][2]) : i \in 1 .. Len(pairs)}
  BY <1>1, <1>2, <1>3, MapOfPairs
<1> HIDE DEF map
<1>5. Members(map) = {Pair(k, "KFDInfo") : k \in 1 .. 5}
  BY <1>1, <1>4
<1>6. \A k : Pair(k, "KFDInfo").key = k /\ Pair(k, "KFDInfo").value = "KFDInfo"
  BY DEF Pair
<1>7. Keys(map) = 1 .. 5
  BY <1>5, <1>6 DEF Keys
<1>8. ASSUME NEW k \in 1 .. 5 PROVE Map_fetch(k, map) = "KFDInfo"
  <2>1. Pair(k, "KFDInfo") \in Members(map)
    BY <1>5
  <2>2. Map_fetch(Pair(k, "KFDInfo").key, map) = Pair(k, "KFDInfo").value
    BY <1>4, <2>1, Fetches
  <2> QED BY <1>6, <2>2
<1> QED BY <1>4, <1>5, <1>7, <1>8 DEF map, pairs, E

LEMMA DriverMap ==
  Keys(Map_of(<<<<1, "VGATerminal">>, <<2, "ATA">>, <<3, "ATA">>, <<4, "ATA">>, <<5, "ATA">>>>)) = 1 .. 5
<1> DEFINE pairs == <<<<1, "VGATerminal">>, <<2, "ATA">>, <<3, "ATA">>, <<4, "ATA">>, <<5, "ATA">>>>
           D == (1 .. 5) \X {"VGATerminal", "ATA"}
           E == [key : 1 .. 5, value : {"VGATerminal", "ATA"}]
           map == Map_of(pairs)
<1>1. /\ pairs \in Seq(D) /\ Len(pairs) = 5
      /\ \A i \in 1 .. 5 : pairs[i][1] = i /\ pairs[i][2] \in {"VGATerminal", "ATA"}
  OBVIOUS
<1> HIDE DEF pairs
<1>2. \A i \in 1 .. Len(pairs) : Pair(pairs[i][1], pairs[i][2]) \in E
  BY <1>1 DEF Pair
<1>3. \A i, j \in 1 .. Len(pairs) : pairs[i][1] = pairs[j][1] => i = j
  BY <1>1
<1> HIDE DEF D, E
<1>4. Members(map) = {Pair(pairs[i][1], pairs[i][2]) : i \in 1 .. Len(pairs)}
  BY <1>1, <1>2, <1>3, MapOfPairs
<1> HIDE DEF map
<1>5. \A k, v : Pair(k, v).key = k
  BY DEF Pair
<1>6. Keys(map) = {pairs[i][1] : i \in 1 .. Len(pairs)}
  BY <1>4, <1>5 DEF Keys
<1>7. Keys(map) = 1 .. 5
  BY <1>1, <1>6
<1> QED BY <1>7 DEF map, pairs

LEMMA FirstMap ==
  LET map == Map_of(<<<<0, 1>>, <<1, 1>>, <<2, 1>>, <<3, 2>>, <<4, 3>>, <<5, 4>>, <<6, 5>>>>)
  IN map \in MapOf(DescriptorType) /\ Members(map) = FirstDescs
<1> DEFINE pairs == <<<<0, 1>>, <<1, 1>>, <<2, 1>>, <<3, 2>>, <<4, 3>>, <<5, 4>>, <<6, 5>>>>
           D == (0 .. 6) \X (1 .. 5)
           map == Map_of(pairs)
<1>1. /\ pairs \in Seq(D) /\ Len(pairs) = 7
      /\ \A i \in 1 .. 7 : pairs[i][1] = i - 1 /\ pairs[i][2] \in 1 .. 5
  OBVIOUS
<1>2. /\ pairs[1] = <<0, 1>> /\ pairs[2] = <<1, 1>> /\ pairs[3] = <<2, 1>> /\ pairs[4] = <<3, 2>>
      /\ pairs[5] = <<4, 3>> /\ pairs[6] = <<5, 4>> /\ pairs[7] = <<6, 5>>
  OBVIOUS
<1>3. /\ \A i \in {1, 2, 3} : pairs[i][2] = 1
      /\ pairs[4][2] = 2 /\ pairs[5][2] = 3 /\ pairs[6][2] = 4 /\ pairs[7][2] = 5
  BY <1>2
<1> HIDE DEF pairs
<1>4. \A i \in 1 .. Len(pairs) : Pair(pairs[i][1], pairs[i][2]) \in DescriptorType
  BY <1>1 DEF Pair, DescriptorType
<1>5. \A i, j \in 1 .. Len(pairs) : pairs[i][1] = pairs[j][1] => i = j
  BY <1>1, SMTT(40)
<1> HIDE DEF D
<1>6. /\ map \in MapOf(DescriptorType)
      /\ Members(map) = {Pair(pairs[i][1], pairs[i][2]) : i \in 1 .. Len(pairs)}
  BY <1>1, <1>4, <1>5, MapOfPairs, ZenonT(40)
<1> HIDE DEF map
<1>7. {Pair(pairs[i][1], pairs[i][2]) : i \in 1 .. 7} = FirstDescs
  <2>1. /\ Pair(pairs[1][1], pairs[1][2]) = Pair(0, 1) /\ Pair(pairs[2][1], pairs[2][2]) = Pair(1, 1)
        /\ Pair(pairs[3][1], pairs[3][2]) = Pair(2, 1) /\ Pair(pairs[4][1], pairs[4][2]) = Pair(3, 2)
        /\ Pair(pairs[5][1], pairs[5][2]) = Pair(4, 3) /\ Pair(pairs[6][1], pairs[6][2]) = Pair(5, 4)
        /\ Pair(pairs[7][1], pairs[7][2]) = Pair(6, 5)
    BY <1>1, <1>3
  <2>2. ASSUME NEW i \in 1 .. 7 PROVE Pair(pairs[i][1], pairs[i][2]) \in FirstDescs
    <3>1. i = 1 \/ i = 2 \/ i = 3 \/ i = 4 \/ i = 5 \/ i = 6 \/ i = 7
      OBVIOUS
    <3> QED BY <2>1, <3>1 DEF FirstDescs
  <2>3. ASSUME NEW d \in FirstDescs PROVE \E i \in 1 .. 7 : d = Pair(pairs[i][1], pairs[i][2])
    BY <2>1 DEF FirstDescs
  <2> QED BY <2>2, <2>3
<1> QED BY <1>1, <1>6, <1>7 DEF map, pairs

LEMMA Described ==
  ASSUME DescInv, NEW p \in Process, NEW fd
  PROVE  Map_fetch(fd, desctors[p]) \in 1 .. 5 \cup {Absent}
<1>1. /\ desctors[p] \in MapOf(DescriptorType)
      /\ \A d \in Members(desctors[p]) : d \in FirstDescs
  BY DEF DescInv
<1>2. \A d \in FirstDescs : d.value \in 1 .. 5
  BY DEF FirstDescs, Pair
<1>3. CASE fd \in Keys(desctors[p])
  <2>1. PICK d \in Members(desctors[p]) : d.key = fd
    BY <1>3, KeyHas
  <2>2. Map_fetch(fd, desctors[p]) = d.value
    BY <1>1, <2>1, Fetches
  <2> QED BY <1>1, <1>2, <2>1, <2>2
<1>4. CASE fd \notin Keys(desctors[p])
  BY <1>1, <1>4, NotFound
<1> QED BY <1>3, <1>4

-----------------------------------------------------------------------------

LEMMA EndsGoes ==
  ASSUME FitsInv, NEW p \in Process, NEW status, NEW label, Ends(p, status, label)
  PROVE  Goes(p, Further(proc[p], label, status))
<1> DEFINE c == Further(proc[p], label, status)
<1>1. DOMAIN proc = Process /\ proc = [q \in Process |-> proc[q]]
  BY DEF FitsInv
<1>2. DOMAIN proc' = Process /\ proc' = [q \in Process |-> proc'[q]]
  BY <1>1 DEF Ends
<1>3. \A q \in Process \ {p} : proc'[q] = proc[q]
  BY <1>1 DEF Ends
<1>4. proc'[p] = c
  BY <1>1 DEF Ends, Further
<1> HIDE DEF c
<1>5. proc' = [proc EXCEPT ![p] = c]
  BY <1>1, <1>2, <1>3, <1>4
<1> QED BY <1>5 DEF Goes, c

LEMMA GotoGoes ==
  ASSUME FitsInv, NEW p \in Process, NEW label, Goto(p, label)
  PROVE  Goes(p, Further(proc[p], label, proc[p].status))
<1> DEFINE c == Further(proc[p], label, proc[p].status)
<1>1. DOMAIN proc = Process /\ proc = [q \in Process |-> proc[q]]
  BY DEF FitsInv
<1>2. DOMAIN proc' = Process /\ proc' = [q \in Process |-> proc'[q]]
  BY <1>1 DEF Goto
<1>3. \A q \in Process \ {p} : proc'[q] = proc[q]
  BY <1>1 DEF Goto
<1>4. proc'[p] = c
  <2>1. proc'[p] = [proc[p] EXCEPT !.pc = label]
    BY <1>1 DEF Goto
  <2>2. ASSUME NEW x, x = [proc[p] EXCEPT !.pc = label] PROVE x = c
    BY <2>2, Type DEF Further, CallType
  <2> QED BY <2>1, <2>2
<1> HIDE DEF c
<1>5. proc' = [proc EXCEPT ![p] = c]
  BY <1>1, <1>2, <1>3, <1>4
<1> QED BY <1>5 DEF Goes, c

(* What every step of a call in the kernel finds.                          *)
LEMMA Finds ==
  ASSUME IInv, NEW p \in Process, NEW label \in Labels \ {"user"}, In(p, label)
  PROVE  /\ stopped = 0 /\ proc[p].pc = label /\ stage = Ready
         /\ proc[p] \in CallType /\ CallFits(proc[p]) /\ proc[p].call \in Request
         /\ proc[p].call.count \in Nat /\ proc[p].moved \in Nat
         /\ proc[p].status \in {"none", "asked", "done", "EFAULT", "EBADF", "ESPIPE"}
         /\ FitsInv /\ CallsInv /\ InputInv
<1>1. CallsInv /\ FitsInv /\ InputInv
  BY DEF IInv, CallsInv
<1>2. stopped = 0 /\ proc[p].pc = label /\ label # "user"
  BY DEF In
<1>3. stage = Ready
  BY <1>1, <1>2 DEF CallsInv, ReadyInv
<1>4. proc[p] \in CallType /\ CallFits(proc[p])
  BY <1>1, Type
<1>5. proc[p].call \in Request
  BY <1>2, <1>4 DEF CallFits
<1>6. proc[p].call.count \in Nat
  BY <1>5, Sizes
<1>7. /\ proc[p].moved \in Nat
      /\ proc[p].status \in {"none", "asked", "done", "EFAULT", "EBADF", "ESPIPE"}
  BY <1>4 DEF CallType
<1> QED BY <1>1, <1>2, <1>3, <1>4, <1>5, <1>6, <1>7

LEMMA WriteStep ==
  ASSUME IInv, NEW p \in Process, Write(p)
  PROVE  IInv'
<1>1. In(p, "driver") /\ proc[p].call.nr = "write" /\ accessLock = Nobody /\ accessLock' = p
      /\ term' = Toggled(term) /\ Goto(p, "put")
      /\ UNCHANGED <<setup, descriptions, memory, pins, alive, input, stopped>>
  BY DEF Write, Calls, Others, Of
<1>2. /\ stopped = 0 /\ proc[p].pc = "driver" /\ proc[p] \in CallType /\ CallFits(proc[p])
      /\ proc[p].status \in {"none", "asked", "done", "EFAULT", "EBADF", "ESPIPE"}
      /\ proc[p].call.count \in Nat /\ FitsInv /\ CallsInv /\ InputInv
  BY <1>1, Finds DEF Labels
<1> DEFINE c == Further(proc[p], "put", proc[p].status)
<1>3. Goes(p, c)
  BY <1>1, <1>2, GotoGoes
<1>4. proc[p].moved = 0 /\ proc[p].kfd \in 1 .. 5
  BY <1>2 DEF CallFits
<1>5. /\ c \in CallType /\ CallFits(c) /\ c.pc = "put"
      /\ c.call = proc[p].call /\ c.kfd = proc[p].kfd /\ (Holds(c) <=> Holds(proc[p]))
  BY <1>1, <1>2, <1>4, FurtherFits DEF Labels
<1> HIDE DEF c
<1>6. /\ proc'[p] = c /\ \A q \in Process \ {p} : proc'[q] = proc[q]
  BY <1>2, <1>3, <1>5, GoesTo
<1>7. InputInv'
  BY <1>1, <1>2, InputKept DEF keyboard, setup, input
<1>8. LockInv'
  <2>1. bufLock' = bufLock
    BY <1>1 DEF input
  <2>2. \A q \in Process \ {p} : proc[q].pc # "put"
    BY <1>1, <1>2, ConsoleAssumption DEF CallsInv, LockInv
  <2> QED BY <1>1, <1>2, <1>5, <1>6, <2>1, <2>2 DEF CallsInv, LockInv
<1>9. PollInv'
  BY <1>1, <1>2, <1>5, <1>6, PollsKept DEF input
<1>10. term' \in TerminalType
  BY <1>1, Toggles DEF IInv
<1>11. \A k \in 1 .. 5 : Uses(c, k) <=> Uses(proc[p], k)
  BY <1>2, <1>5 DEF Uses
<1> QED BY <1>1, <1>2, <1>3, <1>5, <1>7, <1>8, <1>9, <1>10, <1>11, Onward DEF setup

LEMMA PutStep ==
  ASSUME IInv, NEW p \in Process, Put(p)
  PROVE  IInv'
<1> DEFINE cp == proc[p].area[Offset(Of(p)) + proc[p].moved + 1]
           c == [proc[p] EXCEPT !.moved = @ + 1]
<1>1. /\ In(p, "put") /\ proc[p].moved < proc[p].call.count /\ term' = WriteCodePoint(term, cp)
      /\ proc' = [proc EXCEPT ![p].moved = @ + 1]
      /\ UNCHANGED <<setup, descriptions, memory, pins, alive, input, accessLock, stopped>>
  BY DEF Put, Others, Of
<1>2. /\ stopped = 0 /\ proc[p].pc = "put" /\ proc[p] \in CallType /\ CallFits(proc[p])
      /\ proc[p].call.count \in Nat /\ proc[p].moved \in Nat /\ FitsInv /\ CallsInv /\ InputInv
  BY <1>1, Finds DEF Labels
<1>3. Goes(p, c)
  BY <1>1 DEF Goes
<1>4. /\ c \in CallType /\ c.pc = "put" /\ c.moved = proc[p].moved + 1
      /\ c.call = proc[p].call /\ c.kfd = proc[p].kfd /\ c.area = proc[p].area
  BY <1>2 DEF CallType
<1> HIDE DEF c, cp
<1>5. CallFits(c) /\ (Holds(c) <=> Holds(proc[p]))
  BY <1>1, <1>2, <1>4 DEF CallFits, Holds
<1>6. proc'[p] = c /\ \A q \in Process \ {p} : proc'[q] = proc[q]
  BY <1>2, <1>3, <1>4, <1>5, GoesTo
<1>7. InputInv'
  BY <1>1, <1>2, InputKept DEF keyboard, setup, input
<1>8. LockInv'
  BY <1>1, <1>2, <1>4, <1>6, LocksKept DEF input
<1>9. PollInv'
  BY <1>1, <1>2, <1>4, <1>6, PollsKept DEF input
<1>10. term' \in TerminalType
  BY <1>1, Writes DEF IInv
<1>11. \A k \in 1 .. 5 : Uses(c, k) <=> Uses(proc[p], k)
  BY <1>2, <1>4 DEF Uses
<1> QED BY <1>1, <1>2, <1>3, <1>4, <1>5, <1>7, <1>8, <1>9, <1>10, <1>11, Onward DEF setup

LEMMA WrittenStep ==
  ASSUME IInv, NEW p \in Process, Written(p)
  PROVE  IInv'
<1>1. /\ In(p, "put") /\ term' = Toggled(term) /\ accessLock' = Nobody
      /\ Ends(p, "done", "retDesc")
      /\ UNCHANGED <<setup, descriptions, memory, pins, alive, input, stopped>>
  BY DEF Written, Others
<1>2. /\ stopped = 0 /\ proc[p].pc = "put" /\ proc[p] \in CallType /\ CallFits(proc[p])
      /\ FitsInv /\ CallsInv /\ InputInv
  BY <1>1, Finds DEF Labels
<1> DEFINE c == Further(proc[p], "retDesc", "done")
<1>3. Goes(p, c)
  BY <1>1, <1>2, EndsGoes
<1>4. proc[p].kfd \in 1 .. 5
  BY <1>2 DEF CallFits
<1>5. /\ c \in CallType /\ CallFits(c) /\ c.pc = "retDesc"
      /\ c.call = proc[p].call /\ c.kfd = proc[p].kfd /\ (Holds(c) <=> Holds(proc[p]))
  BY <1>2, <1>4, FurtherFits DEF Labels
<1> HIDE DEF c
<1>6. proc'[p] = c /\ \A q \in Process \ {p} : proc'[q] = proc[q]
  BY <1>2, <1>3, <1>5, GoesTo
<1>7. InputInv'
  BY <1>1, <1>2, InputKept DEF keyboard, setup, input
<1>8. LockInv'
  <2>1. bufLock' = bufLock
    BY <1>1 DEF input
  <2>2. \A q \in Process \ {p} : proc[q].pc # "put"
    BY <1>2 DEF CallsInv, LockInv
  <2> QED BY <1>1, <1>2, <1>5, <1>6, <2>1, <2>2, ConsoleAssumption DEF CallsInv, LockInv
<1>9. PollInv'
  BY <1>1, <1>2, <1>5, <1>6, PollsKept DEF input
<1>10. term' \in TerminalType
  BY <1>1, Toggles DEF IInv
<1>11. \A k \in 1 .. 5 : Uses(c, k) <=> Uses(proc[p], k)
  BY <1>2, <1>5 DEF Uses
<1> QED BY <1>1, <1>2, <1>3, <1>5, <1>7, <1>8, <1>9, <1>10, <1>11, Onward DEF setup

LEMMA ReadStep ==
  ASSUME IInv, NEW p \in Process, Read(p)
  PROVE  IInv'
<1>1. /\ In(p, "driver") /\ proc[p].call.nr = "read"
      /\ UNCHANGED <<setup, descriptions, memory, pins, alive, kbd, port, term, accessLock, stopped>>
  BY DEF Read, Calls, Others, Of, output
<1>2. /\ stopped = 0 /\ proc[p].pc = "driver" /\ proc[p] \in CallType /\ CallFits(proc[p])
      /\ proc[p].status \in {"none", "asked", "done", "EFAULT", "EBADF", "ESPIPE"}
      /\ proc[p].call.count \in Nat /\ FitsInv /\ CallsInv /\ InputInv
  BY <1>1, Finds DEF Labels
<1>3. proc[p].moved = 0 /\ proc[p].kfd \in 1 .. 5
  BY <1>2 DEF CallFits
<1>4. InputInv'
  BY <1>1, <1>2, InputKept DEF keyboard, setup
<1>5. term' \in TerminalType
  BY <1>1 DEF IInv
<1>6. CASE proc[p].call.count = 0
  <2> DEFINE c == Further(proc[p], "retDesc", "done")
  <2>1. Ends(p, "done", "retDesc") /\ bufLock' = bufLock
    BY <1>6 DEF Read, Of
  <2>2. Goes(p, c)
    BY <1>2, <2>1, EndsGoes
  <2>3. /\ c \in CallType /\ CallFits(c) /\ c.pc = "retDesc"
        /\ c.call = proc[p].call /\ c.kfd = proc[p].kfd /\ (Holds(c) <=> Holds(proc[p]))
    BY <1>2, <1>3, FurtherFits DEF Labels
  <2> HIDE DEF c
  <2>4. proc'[p] = c /\ \A q \in Process \ {p} : proc'[q] = proc[q]
    BY <1>2, <2>2, <2>3, GoesTo
  <2>5. LockInv'
    BY <1>1, <1>2, <2>1, <2>3, <2>4, LocksKept
  <2>6. PollInv'
    BY <1>1, <1>2, <2>3, <2>4, PollsKept
  <2>7. \A k \in 1 .. 5 : Uses(c, k) <=> Uses(proc[p], k)
    BY <1>2, <2>3 DEF Uses
  <2> QED BY <1>1, <1>2, <1>4, <1>5, <2>2, <2>3, <2>5, <2>6, <2>7, Onward DEF setup
<1>7. CASE proc[p].call.count # 0
  <2> DEFINE c == Further(proc[p], "take", proc[p].status)
  <2>1. bufLock = Nobody /\ bufLock' = p /\ Goto(p, "take")
    BY <1>7 DEF Read, Of
  <2>2. Goes(p, c)
    BY <1>2, <2>1, GotoGoes
  <2>3. /\ c \in CallType /\ CallFits(c) /\ c.pc = "take"
        /\ c.call = proc[p].call /\ c.kfd = proc[p].kfd /\ (Holds(c) <=> Holds(proc[p]))
    BY <1>1, <1>2, <1>3, FurtherFits DEF Labels
  <2> HIDE DEF c
  <2>4. proc'[p] = c /\ \A q \in Process \ {p} : proc'[q] = proc[q]
    BY <1>2, <2>2, <2>3, GoesTo
  <2>5. LockInv'
    <3>1. \A q \in Process \ {p} : proc[q].pc \notin {"take", "poll"}
      BY <1>2, <2>1, ConsoleAssumption DEF CallsInv, LockInv
    <3> QED BY <1>1, <1>2, <2>1, <2>3, <2>4, <3>1 DEF CallsInv, LockInv
  <2>6. PollInv'
    BY <1>1, <1>2, <2>3, <2>4, PollsKept
  <2>7. \A k \in 1 .. 5 : Uses(c, k) <=> Uses(proc[p], k)
    BY <1>2, <2>3 DEF Uses
  <2> QED BY <1>1, <1>2, <1>4, <1>5, <2>2, <2>3, <2>5, <2>6, <2>7, Onward DEF setup
<1> QED BY <1>6, <1>7

LEMMA SeekStep ==
  ASSUME IInv, NEW p \in Process, Seek(p)
  PROVE  IInv'
<1>1. /\ In(p, "driver") /\ \E status \in {"ESPIPE", "done"} : Ends(p, status, "retDesc")
      /\ UNCHANGED <<setup, descriptions, memory, pins, alive, input, output, stopped>>
  BY DEF Seek, Calls, Others
<1>2. /\ stopped = 0 /\ proc[p].pc = "driver" /\ proc[p] \in CallType /\ CallFits(proc[p])
      /\ FitsInv /\ CallsInv /\ InputInv
  BY <1>1, Finds DEF Labels
<1>3. PICK status \in {"ESPIPE", "done"} : Ends(p, status, "retDesc")
  BY <1>1
<1> DEFINE c == Further(proc[p], "retDesc", status)
<1>4. Goes(p, c)
  BY <1>2, <1>3, EndsGoes
<1>5. proc[p].kfd \in 1 .. 5
  BY <1>2 DEF CallFits
<1>6. /\ c \in CallType /\ CallFits(c) /\ c.pc = "retDesc"
      /\ c.call = proc[p].call /\ c.kfd = proc[p].kfd /\ (Holds(c) <=> Holds(proc[p]))
  BY <1>2, <1>5, FurtherFits DEF Labels
<1> HIDE DEF c
<1>7. proc'[p] = c /\ \A q \in Process \ {p} : proc'[q] = proc[q]
  BY <1>2, <1>4, <1>6, GoesTo
<1>8. InputInv'
  BY <1>1, <1>2, InputKept DEF keyboard, setup, input
<1>9. LockInv'
  BY <1>1, <1>2, <1>6, <1>7, LocksKept DEF input, output
<1>10. PollInv'
  BY <1>1, <1>2, <1>6, <1>7, PollsKept DEF input
<1>11. term' \in TerminalType
  BY <1>1 DEF IInv, output
<1>12. \A k \in 1 .. 5 : Uses(c, k) <=> Uses(proc[p], k)
  BY <1>2, <1>6 DEF Uses
<1> QED BY <1>1, <1>2, <1>4, <1>6, <1>8, <1>9, <1>10, <1>11, <1>12, Onward DEF setup

(* A read is given bytes that the keys spelled, in its area.               *)
Filled(s, t, n, at) == [i \in DOMAIN s |-> IF i - at \in 1 .. n THEN t[i - at] ELSE s[i]]

LEMMA Given ==
  ASSUME NEW s \in Seq(0 .. 255), NEW t \in Seq(0 .. 255), NEW n \in 0 .. Len(t), NEW at \in Nat
  PROVE  Filled(s, t, n, at) \in Seq(0 .. 255) /\ Len(Filled(s, t, n, at)) = Len(s)
<1> DEFINE u == [i \in DOMAIN s |-> IF i - at \in 1 .. n THEN t[i - at] ELSE s[i]]
<1>1. Len(s) \in Nat /\ DOMAIN s = 1 .. Len(s) /\ s \in [1 .. Len(s) -> 0 .. 255]
  BY LenProperties, ZenonT(40)
<1>2. Len(t) \in Nat /\ t \in [1 .. Len(t) -> 0 .. 255]
  BY LenProperties, ZenonT(40)
<1>3. u \in [1 .. Len(s) -> 0 .. 255]
  <2>1. ASSUME NEW i \in 1 .. Len(s) PROVE u[i] \in 0 .. 255
    <3>1. CASE i - at \in 1 .. n
      <4>1. i - at \in 1 .. Len(t)
        BY <1>2, <3>1
      <4>2. t[i - at] \in 0 .. 255
        BY <1>2, <4>1
      <4> QED BY <1>1, <3>1, <4>2
    <3>2. CASE i - at \notin 1 .. n
      BY <1>1, <3>2
    <3> QED BY <3>1, <3>2
  <2> QED BY <1>1, <2>1
<1> HIDE DEF u
<1>4. u \in Seq(0 .. 255) /\ Len(u) = Len(s)
  <2>1. ASSUME NEW m \in Nat, u \in [1 .. m -> 0 .. 255] PROVE u \in Seq(0 .. 255) /\ Len(u) = m
    BY <2>1
  <2> QED BY <1>1, <1>3, <2>1
<1> QED BY <1>4 DEF u, Filled

LEMMA OffsetIs ==
  ASSUME NEW req \in Request
  PROVE  Offset(req) \in Nat
<1>1. req.addr \in Int /\ PageSize \in Nat /\ 0 < PageSize
  BY Sizes
<1>2. req.addr % PageSize \in 0 .. PageSize - 1
  BY <1>1, Split
<1> QED BY <1>1, <1>2 DEF Offset

LEMMA TakeStep ==
  ASSUME IInv, NEW p \in Process, Take(p)
  PROVE  IInv'
<1> DEFINE want == proc[p].call.count - proc[p].moved
           n == IF Len(kbd.bufTerm) >= want THEN want ELSE Len(kbd.bufTerm)
           at == Offset(proc[p].call) + proc[p].moved
           area == [i \in DOMAIN proc[p].area |->
                     IF i - at \in 1 .. n THEN kbd.bufTerm[i - at] ELSE proc[p].area[i]]
           done == [proc[p] EXCEPT !.area = area, !.status = "done", !.moved = @ + n, !.pc = "retDesc"]
           on == [proc[p] EXCEPT !.area = area, !.moved = @ + n, !.pc = "poll"]
<1>1. /\ In(p, "take")
      /\ kbd' = [kbd EXCEPT !.bufTerm = SubSeq(@, n + 1, Len(@))]
      /\ n = want => bufLock' = Nobody /\ Goes(p, done)
      /\ n # want => bufLock' = bufLock /\ Goes(p, on)
      /\ UNCHANGED <<setup, descriptions, memory, pins, alive, port, output, stopped>>
  BY DEF Take, Others, Of, Goes
<1>2. /\ stopped = 0 /\ stage = Ready /\ proc[p].pc = "take" /\ proc[p] \in CallType
      /\ CallFits(proc[p]) /\ proc[p].call \in Request
      /\ proc[p].call.count \in Nat /\ proc[p].moved \in Nat /\ FitsInv /\ CallsInv /\ InputInv
  BY <1>1, Finds DEF Labels
<1>3. /\ proc[p].call.nr = "read" /\ proc[p].moved <= proc[p].call.count /\ proc[p].kfd \in 1 .. 5
      /\ proc[p].area \in Seq(0 .. 255)
  BY <1>2 DEF CallFits, CallType
<1>4. kbd.bufTerm \in Seq(0 .. 255) /\ Len(kbd.bufTerm) \in Nat
  <2>1. kbd.bufTerm \in Seq(0 .. 255)
    BY <1>2 DEF InputInv, InputType, KbdType
  <2> QED BY <2>1
<1>5. n \in 0 .. Len(kbd.bufTerm) /\ n <= want /\ (n = want \/ n = Len(kbd.bufTerm)) /\ n \in Nat
  BY <1>2, <1>3, <1>4
<1>6. area \in Seq(0 .. 255) /\ Len(area) = Len(proc[p].area)
  <2>1. at \in Nat
    BY <1>2, OffsetIs
  <2>2. area = Filled(proc[p].area, kbd.bufTerm, n, at)
    BY DEF Filled
  <2> HIDE DEF at, n, area
  <2> QED BY <1>3, <1>4, <1>5, <2>1, <2>2, Given
<1>7. InputInv'
  <2> HIDE DEF n
  <2> QED BY <1>1, <1>2, <1>5, TakeInput DEF setup
<1>8. kbd'.bufTerm = SubSeq(kbd.bufTerm, n + 1, Len(kbd.bufTerm))
  <2>1. kbd \in KbdType
    BY <1>2 DEF InputInv, InputType
  <2> HIDE DEF n
  <2> QED BY <1>1, <2>1 DEF KbdType
<1>9. term' \in TerminalType
  BY <1>1 DEF IInv, output
<1> HIDE DEF area
<1>10. CASE n = want
  <2>1. /\ done \in CallType /\ done.pc = "retDesc" /\ done.call = proc[p].call
        /\ done.kfd = proc[p].kfd /\ done.area = area
    <3> HIDE DEF n
    <3>1. done = [pc |-> "retDesc", call |-> proc[p].call, kfd |-> proc[p].kfd, area |-> area,
               moved |-> proc[p].moved + n, status |-> "done"]
      <4>1. ASSUME NEW x, x = done
            PROVE  x = [pc |-> "retDesc", call |-> proc[p].call, kfd |-> proc[p].kfd, area |-> area,
                        moved |-> proc[p].moved + n, status |-> "done"]
        BY <1>2, <4>1 DEF CallType
      <4> HIDE DEF done
      <4> QED BY <4>1
    <3>2. /\ proc[p].call \in Request \cup {NoCall} /\ proc[p].kfd \in 1 .. 5 \cup {Absent}
          /\ proc[p].status \in {"none", "asked", "done", "EFAULT", "EBADF", "ESPIPE"}
          /\ proc[p].moved + n \in Nat
      <4>1. proc[p] \in CallType /\ proc[p].moved \in Nat /\ n \in Nat
        BY <1>2, <1>5
      <4>2. proc[p].moved + n \in Nat
        <5> HIDE DEF want, at, done, on
        <5> QED BY ONLY <4>1
      <4> QED BY <4>1, <4>2, Fields
    <3> HIDE DEF done
    <3> QED BY <1>6, <3>1, <3>2 DEF CallType, Labels
  <2> HIDE DEF n, want, at, done
  <2>2. CallFits(done) /\ (Holds(done) <=> Holds(proc[p]))
    BY <1>2, <1>3, <1>6, <2>1 DEF CallFits, Holds
  <2>3. proc'[p] = done /\ \A q \in Process \ {p} : proc'[q] = proc[q]
    BY <1>1, <1>2, <1>10, <2>1, <2>2, GoesTo
  <2>4. LockInv'
    <3>1. \A q \in Process \ {p} : proc[q].pc \notin {"take", "poll"}
      BY <1>2 DEF CallsInv, LockInv
    <3>2. accessLock' = accessLock
      BY <1>1 DEF output
    <3> QED BY <1>1, <1>2, <1>10, <2>1, <2>3, <3>1, <3>2, ConsoleAssumption DEF CallsInv, LockInv
  <2>5. PollInv'
    BY <1>2, <2>1, <2>3, PollsHeld
  <2>6. \A k \in 1 .. 5 : Uses(done, k) <=> Uses(proc[p], k)
    BY <1>2, <2>1 DEF Uses
  <2> QED BY <1>1, <1>2, <1>7, <1>9, <1>10, <2>1, <2>2, <2>4, <2>5, <2>6, Onward DEF setup
<1>11. CASE n # want
  <2>1. /\ on \in CallType /\ on.pc = "poll" /\ on.call = proc[p].call
        /\ on.kfd = proc[p].kfd /\ on.area = area /\ on.moved = proc[p].moved + n
    <3> HIDE DEF n
    <3>1. on = [pc |-> "poll", call |-> proc[p].call, kfd |-> proc[p].kfd, area |-> area,
               moved |-> proc[p].moved + n, status |-> proc[p].status]
      <4>1. ASSUME NEW x, x = on
            PROVE  x = [pc |-> "poll", call |-> proc[p].call, kfd |-> proc[p].kfd, area |-> area,
                        moved |-> proc[p].moved + n, status |-> proc[p].status]
        BY <1>2, <4>1 DEF CallType
      <4> HIDE DEF on
      <4> QED BY <4>1
    <3>2. /\ proc[p].call \in Request \cup {NoCall} /\ proc[p].kfd \in 1 .. 5 \cup {Absent}
          /\ proc[p].status \in {"none", "asked", "done", "EFAULT", "EBADF", "ESPIPE"}
          /\ proc[p].moved + n \in Nat
      <4>1. proc[p] \in CallType /\ proc[p].moved \in Nat /\ n \in Nat
        BY <1>2, <1>5
      <4>2. proc[p].moved + n \in Nat
        <5> HIDE DEF want, at, done, on
        <5> QED BY ONLY <4>1
      <4> QED BY <4>1, <4>2, Fields
    <3> HIDE DEF on
    <3> QED BY <1>6, <3>1, <3>2 DEF CallType, Labels
  <2>2. on.moved <= proc[p].call.count
    <3> HIDE DEF n, on
    <3> QED BY <1>2, <1>3, <1>5, <2>1
  <2>3. kbd'.bufTerm = <<>>
    <3> HIDE DEF n, on
    <3>1. n = Len(kbd.bufTerm)
      BY <1>5, <1>11
    <3>2. SubSeq(kbd.bufTerm, n + 1, Len(kbd.bufTerm)) \in Seq(0 .. 255)
          /\ Len(SubSeq(kbd.bufTerm, n + 1, Len(kbd.bufTerm))) = Len(kbd.bufTerm) - n
      BY <1>4, <1>5, Dropped, ZenonT(40)
    <3> QED BY <1>4, <1>8, <3>1, <3>2
  <2> HIDE DEF n, want, at, on
  <2>4. CallFits(on) /\ (Holds(on) <=> Holds(proc[p]))
    BY <1>2, <1>3, <1>6, <2>1, <2>2 DEF CallFits, Holds
  <2>5. proc'[p] = on /\ \A q \in Process \ {p} : proc'[q] = proc[q]
    BY <1>1, <1>2, <1>11, <2>1, <2>4, GoesTo
  <2>6. LockInv'
    BY <1>1, <1>2, <1>11, <2>1, <2>5, LocksKept DEF output
  <2>7. PollInv'
    BY <1>2, <2>1, <2>3, <2>5, PollsHeld
  <2>8. \A k \in 1 .. 5 : Uses(on, k) <=> Uses(proc[p], k)
    BY <1>2, <2>1 DEF Uses
  <2> QED BY <1>1, <1>2, <1>7, <1>9, <1>11, <2>1, <2>4, <2>6, <2>7, <2>8, Onward DEF setup
<1> QED BY <1>10, <1>11

LEMMA PollStep ==
  ASSUME IInv, NEW p \in Process, Poll(p)
  PROVE  IInv'
<1>1. /\ In(p, "poll") /\ port # <<>> /\ port' = Tail(port)
      /\ UNCHANGED <<setup, descriptions, memory, pins, alive, bufLock, output>>
  BY DEF Poll, Others
<1>2. /\ stopped = 0 /\ stage = Ready /\ proc[p].pc = "poll" /\ proc[p] \in CallType
      /\ CallFits(proc[p])
      /\ proc[p].status \in {"none", "asked", "done", "EFAULT", "EBADF", "ESPIPE"}
      /\ FitsInv /\ CallsInv /\ InputInv
  BY <1>1, Finds DEF Labels
<1>3. kbd.bufTerm = <<>> /\ kbd.set = 2
  BY <1>2, ReadyIsTwo DEF CallsInv, PollInv
<1>4. Processable(kbd, Head(port))
  BY <1>3, RoomForOne
<1>5. kbd' = Processed(kbd, Head(port)) /\ Goto(p, "take") /\ UNCHANGED stopped
  BY <1>3, <1>4 DEF Poll
<1>6. proc[p].call.nr = "read" /\ proc[p].moved <= proc[p].call.count /\ proc[p].kfd \in 1 .. 5
  BY <1>2 DEF CallFits
<1> DEFINE c == Further(proc[p], "take", proc[p].status)
<1>7. Goes(p, c)
  BY <1>2, <1>5, GotoGoes
<1>8. /\ c \in CallType /\ CallFits(c) /\ c.pc = "take"
      /\ c.call = proc[p].call /\ c.kfd = proc[p].kfd /\ (Holds(c) <=> Holds(proc[p]))
  BY <1>2, <1>6, FurtherFits DEF Labels
<1> HIDE DEF c
<1>9. proc'[p] = c /\ \A q \in Process \ {p} : proc'[q] = proc[q]
  BY <1>2, <1>7, <1>8, GoesTo
<1>10. port' \in Seq(0 .. 255)
  <2>1. port \in Seq(0 .. 255)
    BY <1>2 DEF InputInv, InputType
  <2> QED BY <1>1, <2>1
<1>11. InputInv'
  BY <1>1, <1>2, <1>3, <1>5, <1>10, PollInput DEF setup
<1>12. LockInv'
  BY <1>1, <1>2, <1>8, <1>9, LocksKept DEF output
<1>13. PollInv'
  BY <1>2, <1>8, <1>9, PollsHeld
<1>14. term' \in TerminalType
  BY <1>1 DEF IInv, output
<1>15. \A k \in 1 .. 5 : Uses(c, k) <=> Uses(proc[p], k)
  BY <1>2, <1>8 DEF Uses
<1> QED BY <1>1, <1>2, <1>5, <1>7, <1>8, <1>11, <1>12, <1>13, <1>14, <1>15, Onward DEF setup

LEMMA FetchStep ==
  ASSUME IInv, NEW p \in Process, Fetch(p)
  PROVE  IInv'
<1> DEFINE k == Map_fetch(proc[p].call.fd, desctors[p])
           fails == proc[p].call.fd < 0 \/ k = Absent
<1>1. /\ In(p, "fetch")
      /\ fails => Ends(p, "EBADF", Back(p)) /\ UNCHANGED stopped
      /\ ~fails /\ Map_fetch(k, KFDStatus) # Absent =>
           proc' = [proc EXCEPT ![p].pc = "adjust", ![p].kfd = k] /\ UNCHANGED stopped
      /\ UNCHANGED <<setup, descriptions, memory, pins, alive, input, output>>
  BY DEF Fetch, Of
<1>2. /\ stopped = 0 /\ proc[p].pc = "fetch" /\ proc[p] \in CallType /\ CallFits(proc[p])
      /\ proc[p].call \in Request /\ FitsInv /\ CallsInv /\ InputInv
  BY <1>1, Finds DEF Labels
<1>3. k \in 1 .. 5 \cup {Absent}
  <2>1. DescInv
    BY DEF IInv
  <2> HIDE DEF k
  <2> QED BY <2>1, Described DEF k
<1> HIDE DEF k
<1>4. ~fails => k \in 1 .. 5 /\ Map_fetch(k, KFDStatus) = "KFDInfo"
  <2>1. k \in 1 .. 5 => Map_fetch(k, KFDStatus) = "KFDInfo"
    BY StatusMap DEF IInv, DescInv
  <2> QED BY <1>3, <2>1
<1>5. stopped' = stopped
  BY <1>1, <1>4, ConsoleAssumption
<1>6. InputInv'
  BY <1>1, <1>2, <1>5, InputKept DEF keyboard, setup, input
<1>7. term' \in TerminalType
  BY <1>1 DEF IInv, output
<1>8. CASE fails
  <2> DEFINE c == Further(proc[p], Back(p), "EBADF")
  <2>1. /\ Back(p) \in {"return", "retMem"}
        /\ Back(p) = "return" <=> proc[p].call.nr = "lseek"
    BY DEF Back, Of
  <2>2. Goes(p, c)
    BY <1>1, <1>2, <1>8, EndsGoes
  <2>3. /\ c \in CallType /\ CallFits(c) /\ c.pc = Back(p)
        /\ c.call = proc[p].call /\ c.kfd = proc[p].kfd /\ (Holds(c) <=> Holds(proc[p]))
    BY <1>2, <2>1, FurtherFits DEF Labels
  <2> HIDE DEF c
  <2>4. proc'[p] = c /\ \A q \in Process \ {p} : proc'[q] = proc[q]
    BY <1>2, <2>2, <2>3, GoesTo
  <2>5. LockInv'
    BY <1>1, <1>2, <2>1, <2>3, <2>4, LocksKept DEF input, output
  <2>6. PollInv'
    BY <1>1, <1>2, <2>1, <2>3, <2>4, PollsKept DEF input
  <2>7. \A j \in 1 .. 5 : Uses(c, j) <=> Uses(proc[p], j)
    BY <1>2, <2>1, <2>3 DEF Uses
  <2> QED BY <1>1, <1>2, <1>5, <1>6, <1>7, <2>2, <2>3, <2>5, <2>6, <2>7, Onward DEF setup
<1>9. CASE ~fails
  <2> DEFINE c == [proc[p] EXCEPT !.pc = "adjust", !.kfd = k]
  <2>1. k \in 1 .. 5
    BY <1>4, <1>9
  <2>2. proc' = [proc EXCEPT ![p].pc = "adjust", ![p].kfd = k]
    BY <1>1, <1>4, <1>9, ConsoleAssumption
  <2>3. Goes(p, c)
    BY <2>2 DEF Goes
  <2>4. c = [pc |-> "adjust", call |-> proc[p].call, kfd |-> k, area |-> proc[p].area,
             moved |-> proc[p].moved, status |-> proc[p].status]
    <3>1. ASSUME NEW x, x = [proc[p] EXCEPT !.pc = "adjust", !.kfd = k]
          PROVE  x = [pc |-> "adjust", call |-> proc[p].call, kfd |-> k, area |-> proc[p].area,
                      moved |-> proc[p].moved, status |-> proc[p].status]
      BY <1>2, <3>1 DEF CallType
    <3> QED BY <3>1
  <2> HIDE DEF c
  <2>5. c \in CallType
    BY <1>2, <2>1, <2>4 DEF CallType, Labels
  <2>6. CallFits(c) /\ (Holds(c) <=> Holds(proc[p]))
    BY <1>2, <2>1, <2>4 DEF CallFits, Holds
  <2>7. proc'[p] = c /\ \A q \in Process \ {p} : proc'[q] = proc[q]
    BY <1>2, <2>3, <2>5, <2>6, GoesTo
  <2>8. LockInv'
    BY <1>1, <1>2, <2>4, <2>7, LocksKept DEF input, output
  <2>9. PollInv'
    BY <1>1, <1>2, <2>4, <2>7, PollsKept DEF input
  <2>10. \A j \in 1 .. 5 : Uses(c, j) <=> Uses(proc[p], j)
    BY <1>2, <2>4 DEF Uses
  <2> QED BY <1>1, <1>2, <1>5, <1>6, <1>7, <2>3, <2>4, <2>5, <2>6, <2>8, <2>9, <2>10, Onward DEF setup
<1> QED BY <1>8, <1>9

LEMMA ReturnStep ==
  ASSUME IInv, NEW p \in Process, Return(p)
  PROVE  IInv'
<1>1. /\ In(p, "return") /\ Goes(p, AtRest)
      /\ UNCHANGED <<setup, descriptions, memory, pins, alive, input, output, stopped>>
  BY DEF Return, Leave, Goes
<1>2. /\ stopped = 0 /\ proc[p].pc = "return" /\ proc[p] \in CallType
      /\ FitsInv /\ CallsInv /\ InputInv
  BY <1>1, Finds DEF Labels
<1>3. AtRest \in CallType /\ CallFits(AtRest) /\ ~Holds(AtRest) /\ AtRest.pc = "user"
  BY RestFits DEF AtRest
<1>4. proc'[p] = AtRest /\ \A q \in Process \ {p} : proc'[q] = proc[q]
  BY <1>1, <1>2, <1>3, GoesTo
<1>5. InputInv'
  BY <1>1, <1>2, InputKept DEF keyboard, setup, input
<1>6. LockInv'
  BY <1>1, <1>2, <1>3, <1>4, LocksKept DEF input, output
<1>7. PollInv'
  BY <1>1, <1>2, <1>3, <1>4, PollsKept DEF input
<1>8. term' \in TerminalType
  BY <1>1 DEF IInv, output
<1>9. ~Holds(proc[p]) /\ \A k \in 1 .. 5 : Uses(AtRest, k) <=> Uses(proc[p], k)
  BY <1>2, <1>3 DEF Uses, Holds
<1> QED BY <1>1, <1>2, <1>3, <1>5, <1>6, <1>7, <1>8, <1>9, Onward DEF setup

LEMMA CallStep ==
  ASSUME IInv, NEW p \in Process, NEW req \in Request, Call(p, req)
  PROVE  IInv'
<1> DEFINE c == [AtRest EXCEPT !.pc = IF req.nr = "lseek" THEN "fetch" ELSE "getMem",
                               !.call = req, !.status = "asked"]
<1>1. /\ In(p, "user") /\ stage = Ready /\ Goes(p, c)
      /\ UNCHANGED <<setup, descriptions, memory, pins, alive, input, output, stopped>>
  BY DEF Call, Goes
<1>2. stopped = 0 /\ proc[p].pc = "user" /\ FitsInv /\ CallsInv /\ InputInv
  BY <1>1 DEF IInv, In, CallsInv
<1>3. c \in CallType /\ CallFits(c) /\ ~Holds(c) /\ c.pc \in {"fetch", "getMem"}
  BY AskedFits
<1> HIDE DEF c
<1>4. proc'[p] = c /\ \A q \in Process \ {p} : proc'[q] = proc[q]
  BY <1>1, <1>2, <1>3, GoesTo
<1>5. InputInv'
  BY <1>1, <1>2, InputKept DEF keyboard, setup, input
<1>6. LockInv'
  BY <1>1, <1>2, <1>3, <1>4, LocksKept DEF input, output
<1>7. PollInv'
  BY <1>1, <1>2, <1>3, <1>4, PollsKept DEF input
<1>8. term' \in TerminalType
  BY <1>1 DEF IInv, output
<1>9. ~Holds(proc[p]) /\ \A k \in 1 .. 5 : Uses(c, k) <=> Uses(proc[p], k)
  BY <1>2, <1>3 DEF Uses, Holds
<1> QED BY <1>1, <1>2, <1>3, <1>5, <1>6, <1>7, <1>8, <1>9, Onward DEF setup

(* The keys and the bring up of the keyboard leave the calls alone.        *)
LEMMA Aside ==
  ASSUME IInv, InputInv', StopsOnlyFor', stopped = 0,
         UNCHANGED <<proc, bufLock, term, accessLock, descriptions, memory, pins, alive>>,
         ReadyInv', PollInv'
  PROVE  IInv'
<1>1. CallsInv /\ FitsInv /\ DescInv /\ RefInv /\ MemInv /\ LockInv
  BY DEF IInv, CallsInv
<1>2. FitsInv' /\ LockInv'
  BY <1>1 DEF FitsInv, LockInv
<1>3. DescInv'
  BY <1>1, DescKept DEF descriptions
<1>4. RefInv'
  BY <1>1, RefsKept DEF descriptions
<1>5. MemInv'
  BY <1>1, PinsKept
<1>6. term' \in TerminalType
  BY DEF IInv
<1> QED BY <1>2, <1>3, <1>4, <1>5, <1>6 DEF IInv, CallsInv

LEMMA HitKeyStep ==
  ASSUME IInv, HitKey
  PROVE  IInv'
<1>1. /\ Listening
      /\ \E k \in Key : port' = port \o Make[k] \/ port' = port \o Break[k]
      /\ UNCHANGED <<setup, kbd, bufLock, output, stopped, descriptions, memory, pins, alive, proc>>
  BY DEF HitKey
<1>2. InputInv /\ CallsInv
  BY DEF IInv
<1>3. stopped = 0
  BY DEF HitKey, CanSend
<1>4. InputInv'
  <2>1. PICK k \in Key : port' = port \o Make[k] \/ port' = port \o Break[k]
    BY <1>1
  <2>2. UNCHANGED <<kbd, device, stage, strays, stopped>>
    BY <1>1 DEF setup
  <2>3. CASE port' = port \o Make[k]
    BY <1>1, <1>2, <1>3, <2>2, <2>3, KeyBytes, HitInput
  <2>4. CASE port' = port \o Break[k]
    BY <1>1, <1>2, <1>3, <2>2, <2>4, KeyBytes, HitInput
  <2> QED BY <2>1, <2>3, <2>4
<1>5. ReadyInv' /\ PollInv'
  BY <1>1, <1>2 DEF CallsInv, ReadyInv, PollInv, setup
<1> QED BY <1>1, <1>3, <1>4, <1>5, Aside, StopsKept DEF output

LEMMA StaysReady ==
  ASSUME stage = Ready, BringUp
  PROVE  UNCHANGED <<stage, kbd>> /\ (TestEnds \/ Stray)
<1>1. /\ \A s \in {"disablePorts", "configure", "selfTest", "portTest", "enablePort"} :
             Alone(s) # Ready
      /\ \A c : <<c, "send">> # Ready /\ <<c, "receive">> # Ready /\ <<c, "value">> # Ready
  <2>1. ASSUME NEW s \in {"disablePorts", "configure", "selfTest", "portTest", "enablePort"}
        PROVE  Alone(s) # Ready
    <3>1. Alone(s)[1] = s /\ Ready[1] = "ready"
      BY DEF Alone, Ready
    <3> QED BY <3>1
  <2>2. ASSUME NEW c, NEW t, t # "" PROVE <<c, t>> # Ready
    <3>1. <<c, t>>[2] = t /\ Ready[2] = ""
      BY DEF Alone, Ready
    <3> QED BY <2>2, <3>1, Zenon
  <2> QED BY <2>1, <2>2
<1>2. TestEnds \/ Stray
  <2>1. ~DisablePorts /\ ~Configure /\ ~SelfTest /\ ~PortTest /\ ~EnablePort
    BY <1>1 DEF DisablePorts, Configure, SelfTest, PortTest, EnablePort, Tests, At
  <2>2. \A c \in Commands : ~Send(c) /\ ~Receive(c)
    BY <1>1 DEF Send, Receive, At
  <2>3. ~ReceiveSet
    BY <1>1 DEF ReceiveSet, At
  <2> QED BY <2>1, <2>2, <2>3 DEF BringUp
<1> QED BY <1>2 DEF TestEnds, Stray

LEMMA BringsUpStep ==
  ASSUME IInv, BringsUp
  PROVE  IInv'
<1>1. /\ BringUp
      /\ UNCHANGED <<bufLock, output, descriptions, memory, pins, alive, proc>>
  BY DEF BringsUp
<1>2. InputInv /\ CallsInv
  BY DEF IInv
<1>3. Brings /\ stopped = 0
  BY <1>1, <1>2, BringUpStep
<1>4. InputInv' /\ StopsOnlyFor'
  BY <1>3 DEF Brings, BringUpStops, StopsOnlyFor
<1>5. ReadyInv' /\ PollInv'
  <2>1. CASE stage = Ready
    BY <1>1, <1>2, <2>1, StaysReady DEF CallsInv, ReadyInv, PollInv
  <2>2. CASE stage # Ready
    BY <1>1, <1>2, <2>2 DEF CallsInv, ReadyInv, PollInv
  <2> QED BY <2>1, <2>2
<1> QED BY <1>1, <1>3, <1>4, <1>5, Aside DEF output

(* A call begins, or ends, to use a description.                           *)
LEMMA UsingFinite ==
  ASSUME NEW k
  PROVE  IsFiniteSet(Using(k)) /\ Cardinality(Using(k)) \in Nat
<1>1. IsFiniteSet(Process) /\ Using(k) \subseteq Process
  BY ConsoleAssumption DEF Using
<1> QED BY <1>1, FS_Subset, FS_CardinalityType

LEMMA UsingGrows ==
  ASSUME NEW p \in Process, NEW k, \A q \in Process \ {p} : proc'[q] = proc[q],
         ~Uses(proc[p], k), Uses(proc'[p], k)
  PROVE  Cardinality(Using(k)') = Cardinality(Using(k)) + 1
<1>1. Using(k)' = Using(k) \cup {p} /\ p \notin Using(k)
  BY DEF Using, Uses
<1> QED BY <1>1, UsingFinite, FS_AddElement

LEMMA UsingShrinks ==
  ASSUME NEW p \in Process, NEW k, \A q \in Process \ {p} : proc'[q] = proc[q],
         Uses(proc[p], k), ~Uses(proc'[p], k)
  PROVE  /\ Cardinality(Using(k)') = Cardinality(Using(k)) - 1
         /\ Cardinality(Using(k)) # 0
<1>1. Using(k)' = Using(k) \ {p} /\ p \in Using(k)
  BY DEF Using, Uses
<1> QED BY <1>1, UsingFinite, FS_RemoveElement, FS_EmptySet

LEMMA UsingSame ==
  ASSUME NEW p \in Process, NEW k, \A q \in Process \ {p} : proc'[q] = proc[q],
         Uses(proc'[p], k) <=> Uses(proc[p], k)
  PROVE  Using(k)' = Using(k)
BY DEF Using, Uses

(* A step of a call that counts a description.                             *)
LEMMA Counts ==
  ASSUME IInv, NEW p \in Process, stopped = 0, stopped' = 0, proc[p].pc # "user",
         NEW c \in CallType, CallFits(c), Goes(p, c), c.call = proc[p].call,
         Holds(c) <=> Holds(proc[p]),
         c.pc \notin {"put", "take", "poll"}, proc[p].pc \notin {"put", "take", "poll"},
         UNCHANGED <<setup, input, output, desctors, KFDStatus, kfdDriverMap, memory, pins, alive>>,
         RefInv'
  PROVE  IInv'
<1>1. InputInv /\ CallsInv /\ MemInv /\ DescInv /\ FitsInv
  BY DEF IInv, CallsInv
<1>2. FitsInv' /\ proc'[p] = c /\ \A q \in Process \ {p} : proc'[q] = proc[q]
  BY <1>1, GoesTo
<1>3. ReadyInv'
  BY <1>1, <1>2, ReadyKept DEF setup
<1>4. LockInv'
  BY <1>1, <1>2, LocksKept DEF input, output
<1>5. PollInv'
  BY <1>1, <1>2, PollsKept DEF input
<1>6. InputInv'
  BY <1>1, InputKept DEF keyboard, setup, input
<1>7. MemInv'
  <2>1. ASSUME NEW q \in Process
        PROVE  /\ Holds(proc'[q]) <=> Holds(proc[q])
               /\ Holds(proc[q]) => proc'[q].call = proc[q].call
    BY <1>2
  <2> QED BY <1>1, <2>1, PinsKept
<1>8. DescInv'
  BY <1>1, DescKept
<1>9. term' \in TerminalType
  BY DEF IInv, output
<1> QED BY <1>2, <1>3, <1>4, <1>5, <1>6, <1>7, <1>8, <1>9, StopsKept DEF IInv, CallsInv

LEMMA AdjustStep ==
  ASSUME IInv, NEW p \in Process, Adjust(p)
  PROVE  IInv'
<1> DEFINE k == proc[p].kfd
           c == Further(proc[p], "driver", proc[p].status)
<1>1. /\ In(p, "adjust") /\ refs' = [refs EXCEPT ![k] = @ + 1] /\ Goto(p, "driver")
      /\ UNCHANGED <<setup, input, output, desctors, KFDStatus, kfdDriverMap, memory, pins, alive, stopped>>
  BY DEF Adjust
<1>2. /\ stopped = 0 /\ proc[p].pc = "adjust" /\ proc[p] \in CallType /\ CallFits(proc[p])
      /\ proc[p].status \in {"none", "asked", "done", "EFAULT", "EBADF", "ESPIPE"} /\ FitsInv
  BY <1>1, Finds DEF Labels
<1>3. proc[p].moved = 0 /\ k \in 1 .. 5
  BY <1>2 DEF CallFits
<1>4. Goes(p, c)
  BY <1>1, <1>2, GotoGoes
<1>5. /\ c \in CallType /\ CallFits(c) /\ c.pc = "driver"
      /\ c.call = proc[p].call /\ c.kfd = k /\ (Holds(c) <=> Holds(proc[p]))
  BY <1>2, <1>3, FurtherFits DEF Labels
<1> HIDE DEF c, k
<1>6. proc'[p] = c /\ \A q \in Process \ {p} : proc'[q] = proc[q]
  BY <1>2, <1>4, <1>5, GoesTo
<1>7. ASSUME NEW j \in 1 .. 5
      PROVE  ~Uses(proc[p], j) /\ (Uses(proc'[p], j) <=> j = k)
  BY <1>2, <1>5, <1>6 DEF Uses
<1>8. RefInv'
  <2>1. RefInv
    BY DEF IInv
  <2>2. refs' \in [1 .. 5 -> Nat]
    BY <1>1, <1>3, <2>1 DEF RefInv
  <2>3. ASSUME NEW j \in 1 .. 5
        PROVE  refs'[j] = (IF j = 1 THEN 2 ELSE 0) + Cardinality(Using(j)')
    <3>1. CASE j = k
      BY <1>1, <1>6, <1>7, <2>1, <3>1, UsingGrows, UsingFinite DEF RefInv
    <3>2. CASE j # k
      <4>1. Using(j)' = Using(j)
        BY <1>6, <1>7, <3>2, UsingSame
      <4> QED BY <1>1, <2>1, <3>2, <4>1 DEF RefInv
    <3> QED BY <3>1, <3>2
  <2> QED BY <2>2, <2>3 DEF RefInv
<1> QED BY <1>1, <1>2, <1>4, <1>5, <1>8, Counts

LEMMA RetDescStep ==
  ASSUME IInv, NEW p \in Process, RetDesc(p)
  PROVE  IInv'
<1> DEFINE k == proc[p].kfd
           c == Further(proc[p], Back(p), proc[p].status)
<1>1. /\ In(p, "retDesc") /\ refs' = [refs EXCEPT ![k] = @ - 1]
      /\ refs[k] # 0 => Goto(p, Back(p)) /\ UNCHANGED <<kfdDriverMap, KFDStatus, stopped>>
      /\ UNCHANGED <<setup, input, output, desctors, memory, pins, alive>>
  BY DEF RetDesc
<1>2. /\ stopped = 0 /\ proc[p].pc = "retDesc" /\ proc[p] \in CallType /\ CallFits(proc[p])
      /\ proc[p].status \in {"none", "asked", "done", "EFAULT", "EBADF", "ESPIPE"} /\ FitsInv
  BY <1>1, Finds DEF Labels
<1>3. k \in 1 .. 5
  BY <1>2 DEF CallFits
<1>4. /\ Back(p) \in {"return", "retMem"}
      /\ Back(p) = "return" <=> proc[p].call.nr = "lseek"
  BY DEF Back, Of
<1>5. /\ c \in CallType /\ CallFits(c) /\ c.pc = Back(p)
      /\ c.call = proc[p].call /\ (Holds(c) <=> Holds(proc[p]))
  BY <1>2, <1>4, FurtherFits DEF Labels
<1>6. RefInv
  BY DEF IInv
<1> HIDE DEF c
<1>7. refs[k] # 0
  <2>1. p \in Using(k)
    BY <1>2 DEF Using
  <2> HIDE DEF k
  <2>2. Cardinality(Using(k)) # 0 /\ Cardinality(Using(k)) \in Nat
    BY <2>1, UsingFinite, FS_EmptySet
  <2> QED BY <1>3, <1>6, <2>2 DEF RefInv
<1>8. Goes(p, c) /\ UNCHANGED <<kfdDriverMap, KFDStatus, stopped>>
  BY <1>1, <1>2, <1>7, GotoGoes DEF c
<1>9. proc'[p] = c /\ \A q \in Process \ {p} : proc'[q] = proc[q]
  BY <1>2, <1>5, <1>8, GoesTo
<1>10. ASSUME NEW j \in 1 .. 5
       PROVE  ~Uses(proc'[p], j) /\ (Uses(proc[p], j) <=> j = k)
  BY <1>2, <1>4, <1>5, <1>9 DEF Uses
<1> HIDE DEF k
<1>11. RefInv'
  <2>1. refs[k] \in Nat /\ refs[k] - 1 \in Nat
    BY <1>3, <1>6, <1>7 DEF RefInv
  <2>2. refs' \in [1 .. 5 -> Nat]
    BY <1>1, <1>3, <1>6, <2>1 DEF RefInv
  <2>3. ASSUME NEW j \in 1 .. 5
        PROVE  refs'[j] = (IF j = 1 THEN 2 ELSE 0) + Cardinality(Using(j)')
    <3>1. CASE j = k
      BY <1>1, <1>6, <1>9, <1>10, <3>1, UsingShrinks, UsingFinite DEF RefInv
    <3>2. CASE j # k
      <4>1. Using(j)' = Using(j)
        BY <1>9, <1>10, <3>2, UsingSame
      <4> QED BY <1>1, <1>6, <3>2, <4>1 DEF RefInv
    <3> QED BY <3>1, <3>2
  <2> QED BY <2>2, <2>3 DEF RefInv
<1> QED BY <1>1, <1>2, <1>4, <1>5, <1>8, <1>11, Counts

(* Before a call has its buffer, and after it, no page is pinned.          *)
LEMMA NotPinned ==
  ASSUME MemInv, stopped = 0, NEW p \in Process, ~Holds(proc[p])
  PROVE  \A g \in Readable : pins[p][g] = 0
BY HasIs DEF MemInv, BuffersReturned

LEMMA Pinned ==
  ASSUME MemInv, stopped = 0, NEW p \in Process, Holds(proc[p])
  PROVE  \A g \in Readable : pins[p][g] = IF g \in PagesOf(proc[p].call) THEN 1 ELSE 0
BY HasIs DEF MemInv, BuffersReturned, Of

(* What a write passes are bytes.                                          *)
LEMMA PassedBytes ==
  ASSUME IInv, NEW p \in Process, proc[p].call \in Request, proc[p].call.nr # "lseek",
         ~Fault(proc[p].call),
         proc[p].call.nr = "write" => Cardinality(PagesOf(proc[p].call)) = 1
  PROVE  /\ Passed(p) \in Seq(0 .. 255)
         /\ Len(Passed(p)) = PageSize * Cardinality(PagesOf(proc[p].call))
<1> DEFINE r == proc[p].call
           n == PageSize * Cardinality(PagesOf(r))
           F(i) == IF r.nr = "write" THEN memory[p][r.addr - Offset(r) + i - 1] ELSE 0
<1>1. n \in Nat
  BY Span
<1>2. Passed(p) = [i \in 1 .. n |-> F(i)]
  BY DEF Passed, Of
<1>3. ASSUME NEW i \in 1 .. n PROVE F(i) \in 0 .. 255
  <2>1. CASE r.nr = "write"
    <3>1. PageSize * 1 = PageSize
      BY Sizes
    <3>2. Cardinality(PagesOf(r)) = 1
      BY <2>1
    <3>3. i \in 1 .. PageSize
      BY <3>1, <3>2
    <3>4. r.addr - Offset(r) + i - 1 \in Address
      BY <3>2, <3>3, Span
    <3>5. memory[p] \in [Address -> 0 .. 255]
      BY DEF IInv, MemInv
    <3> HIDE DEF n, r
    <3>6. memory[p][r.addr - Offset(r) + i - 1] \in 0 .. 255
      BY <3>4, <3>5
    <3> QED BY <2>1, <3>6
  <2>2. CASE r.nr # "write"
    BY <2>2
  <2> QED BY <2>1, <2>2
<1> HIDE DEF F, n
<1>4. Passed(p) \in [1 .. n -> 0 .. 255]
  BY <1>2, <1>3
<1>5. ASSUME NEW s, NEW m \in Nat, s \in [1 .. m -> 0 .. 255] PROVE s \in Seq(0 .. 255) /\ Len(s) = m
  BY <1>5
<1>6. Passed(p) \in Seq(0 .. 255) /\ Len(Passed(p)) = n
  BY <1>1, <1>4, <1>5
<1> QED BY <1>6 DEF n

LEMMA FaultStep ==
  ASSUME IInv, NEW p \in Process, GetUserMem(p), Fault(proc[p].call)
  PROVE  IInv'
<1>1. /\ In(p, "getMem") /\ Ends(p, "EFAULT", "return") /\ UNCHANGED <<pins, stopped>>
      /\ UNCHANGED <<setup, input, output, descriptions, memory, alive>>
  BY DEF GetUserMem, Of
<1>2. /\ stopped = 0 /\ proc[p].pc = "getMem" /\ proc[p] \in CallType /\ CallFits(proc[p])
      /\ proc[p].call \in Request /\ FitsInv /\ CallsInv /\ InputInv
  BY <1>1, Finds DEF Labels
<1> DEFINE c == Further(proc[p], "return", "EFAULT")
<1>3. Goes(p, c)
  BY <1>1, <1>2, EndsGoes
<1>4. c = [pc |-> "return", call |-> proc[p].call, kfd |-> proc[p].kfd, area |-> proc[p].area,
           moved |-> proc[p].moved, status |-> "EFAULT"]
  <2>1. ASSUME NEW x, x = Further(proc[p], "return", "EFAULT")
        PROVE  x = [pc |-> "return", call |-> proc[p].call, kfd |-> proc[p].kfd,
                    area |-> proc[p].area, moved |-> proc[p].moved, status |-> "EFAULT"]
    BY <1>2, <2>1 DEF Further, CallType
  <2> QED BY <2>1
<1> HIDE DEF c
<1>5. c \in CallType /\ c.pc = "return"
  BY <1>2, <1>4 DEF CallType, Labels
<1>6. CallFits(c) /\ ~Holds(c) /\ ~Holds(proc[p])
  BY <1>2, <1>4 DEF CallFits, Holds
<1>7. proc'[p] = c /\ \A q \in Process \ {p} : proc'[q] = proc[q]
  BY <1>2, <1>3, <1>5, <1>6, GoesTo
<1>8. InputInv'
  BY <1>1, <1>2, InputKept DEF keyboard, setup, input
<1>9. LockInv'
  BY <1>1, <1>2, <1>5, <1>7, LocksKept DEF input, output
<1>10. PollInv'
  BY <1>1, <1>2, <1>5, <1>7, PollsKept DEF input
<1>11. term' \in TerminalType
  BY <1>1 DEF IInv, output
<1>12. \A k \in 1 .. 5 : Uses(c, k) <=> Uses(proc[p], k)
  BY <1>2, <1>5 DEF Uses
<1> QED BY <1>1, <1>2, <1>3, <1>5, <1>6, <1>8, <1>9, <1>10, <1>11, <1>12, Onward DEF setup

(* The pages of the call are pinned once more, or once less.               *)
LEMMA PinsMoved ==
  ASSUME pins \in [Process -> [Readable -> 0 .. MaxPins]], NEW p \in Process, NEW by \in Int, Adjusted(p, by)
  PROVE  /\ \A q \in Process \ {p} : pins'[q] = pins[q]
         /\ \A g \in Readable :
              pins'[p][g] = IF g \in PagesOf(proc[p].call) THEN pins[p][g] + by ELSE pins[p][g]
BY DEF Adjusted, Of

LEMMA PinsTyped ==
  ASSUME pins \in [Process -> [Readable -> 0 .. MaxPins]], NEW p \in Process, NEW by \in Int, Adjusted(p, by),
         \A g \in Readable : pins'[p][g] \in 0 .. MaxPins
  PROVE  pins' \in [Process -> [Readable -> 0 .. MaxPins]]
<1>1. pins' = [q \in Process |-> pins'[q]]
  BY DEF Adjusted
<1>2. ASSUME NEW q \in Process PROVE pins'[q] \in [Readable -> 0 .. MaxPins]
  <2>1. CASE q = p
    <3>1. pins'[p] = [g \in Readable |-> pins'[p][g]]
      BY DEF Adjusted
    <3> QED BY <2>1, <3>1
  <2>2. CASE q # p
    BY <2>2, PinsMoved
  <2> QED BY <2>1, <2>2
<1> QED BY <1>1, <1>2

(* A write whose buffer spans pages stops the kernel; any other call has   *)
(* its pages and an area from here on.                                     *)
LEMMA TooLongStep ==
  ASSUME IInv, NEW p \in Process, GetUserMem(p), ~Fault(proc[p].call),
         proc[p].call.nr = "write", Cardinality(PagesOf(proc[p].call)) > 1
  PROVE  IInv'
<1>1. /\ In(p, "getMem") /\ Adjusted(p, 1)
      /\ UNCHANGED <<setup, input, output, descriptions, memory, alive>>
  BY DEF GetUserMem, Of
<1>2. /\ stopped = 0 /\ stage = Ready /\ proc[p].pc = "getMem" /\ proc[p].call \in Request
      /\ FitsInv /\ CallsInv /\ InputInv
  BY <1>1, Finds DEF Labels
<1>3. MemInv /\ pins \in [Process -> [Readable -> 0 .. MaxPins]]
  BY DEF IInv, MemInv
<1>4. \A g \in Readable : pins[p][g] = 0
  BY <1>2, <1>3, NotPinned DEF Holds
<1>5. Stops(PageFault)
  <2>1. PagesOf(proc[p].call) \subseteq Readable
    BY <1>2, Span
  <2>2. ~\E g \in PagesOf(proc[p].call) : pins[p][g] = MaxPins
    BY <1>4, <2>1 DEF MaxPins
  <2> QED BY <2>2 DEF GetUserMem, Of
<1>6. stopped' = 14 /\ proc' = proc
  BY <1>5 DEF Stops, PageFault
<1>7. MemInv'
  <2>1. \A g \in Readable : pins'[p][g] \in 0 .. MaxPins
    BY <1>1, <1>3, <1>4, PinsMoved DEF MaxPins
  <2>2. pins' \in [Process -> [Readable -> 0 .. MaxPins]]
    BY <1>1, <1>3, <2>1, PinsTyped
  <2>3. BuffersReturned'
    BY <1>6 DEF BuffersReturned
  <2> QED BY <1>1, <1>3, <2>2, <2>3 DEF MemInv
<1>8. InputInv'
  <2>1. kbd \in KbdType /\ Len(kbd.bufTerm) <= BufTermSize /\ port \in Seq(0 .. 255)
    BY <1>2 DEF InputInv, InputType
  <2> QED BY <1>1, <1>2, <1>6, <2>1, ReadyInput DEF setup, input
<1>9. CallsInv'
  BY <1>1, <1>2, <1>6 DEF CallsInv, FitsInv, ReadyInv, LockInv, PollInv, setup, input, output
<1>10. DescInv' /\ RefInv'
  BY <1>1, <1>6, DescKept, RefsKept DEF IInv, descriptions
<1>11. StopsOnlyFor'
  <2>1. proc'[p].pc = "getMem" /\ Of(p)' = proc[p].call
    BY <1>2, <1>6 DEF Of
  <2>2. PagesOf(proc[p].call)' = PagesOf(proc[p].call)
    BY <1>6
  <2>3. Cardinality(PagesOf(Of(p)))' > 1 /\ Of(p)'.nr = "write"
    BY <2>1, <2>2
  <2> QED BY <1>6, <2>1, <2>3 DEF StopsOnlyFor, PageFault
<1>12. term' \in TerminalType
  BY <1>1 DEF IInv, output
<1> QED BY <1>7, <1>8, <1>9, <1>10, <1>11, <1>12 DEF IInv

LEMMA HasMemStep ==
  ASSUME IInv, NEW p \in Process, GetUserMem(p), ~Fault(proc[p].call),
         proc[p].call.nr = "write" => ~(Cardinality(PagesOf(proc[p].call)) > 1)
  PROVE  IInv'
<1> DEFINE c == [proc[p] EXCEPT !.pc = "fetch", !.area = Passed(p)]
<1>1. /\ In(p, "getMem") /\ Adjusted(p, 1)
      /\ UNCHANGED <<setup, input, output, descriptions, memory, alive>>
  BY DEF GetUserMem, Of
<1>2. /\ stopped = 0 /\ stage = Ready /\ proc[p].pc = "getMem" /\ proc[p].call \in Request
      /\ proc[p] \in CallType /\ CallFits(proc[p]) /\ FitsInv /\ CallsInv /\ InputInv
  BY <1>1, Finds DEF Labels
<1>3. proc[p].call.nr # "lseek" /\ proc[p].moved = 0
  BY <1>2 DEF CallFits
<1>4. MemInv /\ pins \in [Process -> [Readable -> 0 .. MaxPins]]
  BY DEF IInv, MemInv
<1>5. \A g \in Readable : pins[p][g] = 0
  BY <1>2, <1>4, NotPinned DEF Holds
<1>6. PagesOf(proc[p].call) \subseteq Readable /\ Cardinality(PagesOf(proc[p].call)) \in Nat
      /\ 0 < Cardinality(PagesOf(proc[p].call))
  BY <1>2, <1>3, Span
<1>7. Goes(p, c) /\ stopped' = stopped
  <2>1. ~\E g \in PagesOf(proc[p].call) : pins[p][g] = MaxPins
    BY <1>5, <1>6 DEF MaxPins
  <2>2. proc' = [proc EXCEPT ![p].pc = "fetch", ![p].area = Passed(p)] /\ stopped' = stopped
    BY <2>1 DEF GetUserMem, Of
  <2> QED BY <2>2 DEF Goes
<1>8. /\ Passed(p) \in Seq(0 .. 255)
      /\ Len(Passed(p)) = PageSize * Cardinality(PagesOf(proc[p].call))
  <2>1. proc[p].call.nr = "write" => Cardinality(PagesOf(proc[p].call)) = 1
    BY <1>6
  <2> QED BY <1>2, <1>3, <2>1, PassedBytes
<1>9. c = [pc |-> "fetch", call |-> proc[p].call, kfd |-> proc[p].kfd, area |-> Passed(p),
           moved |-> proc[p].moved, status |-> proc[p].status]
  <2>1. ASSUME NEW x, x = [proc[p] EXCEPT !.pc = "fetch", !.area = Passed(p)]
        PROVE  x = [pc |-> "fetch", call |-> proc[p].call, kfd |-> proc[p].kfd, area |-> Passed(p),
                    moved |-> proc[p].moved, status |-> proc[p].status]
    BY <1>2, <2>1 DEF CallType
  <2> QED BY <2>1
<1> HIDE DEF c
<1>10. c \in CallType
  <2>1. /\ proc[p].call \in Request \cup {NoCall} /\ proc[p].kfd \in 1 .. 5 \cup {Absent}
        /\ proc[p].status \in {"none", "asked", "done", "EFAULT", "EBADF", "ESPIPE"}
        /\ proc[p].moved \in Nat
    BY <1>2 DEF CallType
  <2> QED BY <1>8, <1>9, <2>1 DEF CallType, Labels
<1>11. CallFits(c) /\ Holds(c) /\ c.pc = "fetch" /\ c.call = proc[p].call
  BY <1>2, <1>3, <1>8, <1>9 DEF CallFits, Holds
<1>12. FitsInv' /\ proc'[p] = c /\ \A q \in Process \ {p} : proc'[q] = proc[q]
  BY <1>2, <1>7, <1>10, <1>11, GoesTo
<1>13. MemInv'
  <2>1. \A g \in Readable : pins'[p][g] = IF g \in PagesOf(proc[p].call) THEN 1 ELSE 0
    BY <1>1, <1>4, <1>5, PinsMoved
  <2>2. pins' \in [Process -> [Readable -> 0 .. MaxPins]]
    BY <1>1, <1>4, <2>1, PinsTyped DEF MaxPins
  <2>3. ASSUME NEW q \in Process, NEW g \in Readable
        PROVE  pins'[q][g] = IF HasMem(q)' /\ g \in PagesOf(proc'[q].call) THEN 1 ELSE 0
    <3>1. CASE q = p
      <4>1. HasMem(p)' /\ proc'[p].call = proc[p].call
        BY <1>11, <1>12 DEF HasMem, Holds, Of
      <4> QED BY <2>1, <3>1, <4>1
    <3>2. CASE q # p
      <4>1. HasMem(q)' <=> HasMem(q)
        BY <1>12, <3>2 DEF HasMem, Of
      <4>2. pins'[q] = pins[q] /\ proc'[q].call = proc[q].call
        BY <1>1, <1>4, <1>12, <3>2, PinsMoved
      <4>3. pins[q][g] = IF HasMem(q) /\ g \in PagesOf(proc[q].call) THEN 1 ELSE 0
        BY <1>2, <1>4 DEF MemInv, BuffersReturned, Of
      <4> QED BY <4>1, <4>2, <4>3
    <3> QED BY <3>1, <3>2
  <2>4. BuffersReturned'
    BY <2>3 DEF BuffersReturned, Of
  <2> QED BY <1>1, <1>4, <2>2, <2>4 DEF MemInv
<1>14. ReadyInv'
  BY <1>1, <1>2, <1>12, ReadyKept DEF setup
<1>15. LockInv'
  BY <1>1, <1>2, <1>11, <1>12, LocksKept DEF input, output
<1>16. PollInv'
  BY <1>1, <1>2, <1>11, <1>12, PollsKept DEF input
<1>17. InputInv'
  BY <1>1, <1>2, <1>7, InputKept DEF keyboard, setup, input
<1>18. RefInv'
  <2>1. ASSUME NEW q \in Process, NEW k \in 1 .. 5
        PROVE  Uses(proc'[q], k) <=> Uses(proc[q], k)
    BY <1>2, <1>11, <1>12 DEF Uses
  <2> QED BY <1>1, <2>1, RefsKept DEF IInv, descriptions
<1>19. DescInv'
  BY <1>1, DescKept DEF IInv, descriptions
<1>20. term' \in TerminalType
  BY <1>1 DEF IInv, output
<1>21. StopsOnlyFor'
  BY <1>2, <1>7, StopsKept
<1> QED BY <1>12, <1>13, <1>14, <1>15, <1>16, <1>17, <1>18, <1>19, <1>20, <1>21 DEF IInv, CallsInv

LEMMA GetUserMemStep ==
  ASSUME IInv, NEW p \in Process, GetUserMem(p)
  PROVE  IInv'
BY FaultStep, TooLongStep, HasMemStep

(* What a call brings back are bytes of its area.                          *)
LEMMA GotBytes ==
  ASSUME NEW p \in Process, proc[p] \in CallType, CallFits(proc[p]), Holds(proc[p]),
         proc[p].call \in Request
  PROVE  Got(p) \in Seq(0 .. 255)
<1> DEFINE r == proc[p].call
           area == proc[p].area
           from == Offset(r) + 1
           to == Offset(r) + r.count
<1>1. /\ ~Fault(r) /\ r.nr # "lseek" /\ area \in Seq(0 .. 255)
      /\ Len(area) = PageSize * Cardinality(PagesOf(r))
  BY DEF CallFits, Holds, CallType
<1>2. Offset(r) \in Nat /\ r.count \in Nat /\ to <= Len(area)
  BY <1>1, Span, OffsetIs, Sizes
<1>3. area \in [1 .. Len(area) -> 0 .. 255] /\ Len(area) \in Nat
  BY <1>1, LenProperties, ZenonT(40)
<1> HIDE DEF r, area
<1>4. from \in Int /\ to \in Int /\ \A i \in from .. to : i \in 1 .. Len(area)
  BY <1>2, <1>3
<1>5. \A i \in from .. to : area[i] \in 0 .. 255
  BY <1>3, <1>4
<1> HIDE DEF from, to
<1>6. SubSeq(area, from, to) \in Seq(0 .. 255)
  BY <1>4, <1>5, SubSeqProperties
<1>7. MovedBytes(p) \in Seq(0 .. 255)
  BY <1>6 DEF MovedBytes, Of, r, area, from, to
<1> QED BY <1>7 DEF Got

LEMMA RetMemStep ==
  ASSUME IInv, NEW p \in Process, RetMem(p)
  PROVE  IInv'
<1> DEFINE got == Got(p)
           to == proc[p].call.addr
<1>1. /\ In(p, "retMem") /\ Adjusted(p, -1) /\ Goes(p, AtRest)
      /\ memory' = [memory EXCEPT ![p] = [a \in Address |->
           IF a - to + 1 \in DOMAIN got THEN got[a - to + 1] ELSE @[a]]]
      /\ UNCHANGED <<setup, input, output, stopped, descriptions, alive>>
  BY DEF RetMem, Leave, Goes, Of
<1>2. /\ stopped = 0 /\ stage = Ready /\ proc[p].pc = "retMem" /\ proc[p].call \in Request
      /\ proc[p] \in CallType /\ CallFits(proc[p]) /\ FitsInv /\ CallsInv /\ InputInv
  BY <1>1, Finds DEF Labels
<1>3. Holds(proc[p])
  BY <1>2 DEF CallFits, Holds
<1>4. MemInv /\ pins \in [Process -> [Readable -> 0 .. MaxPins]] /\ memory \in [Process -> [Address -> 0 .. 255]]
  BY DEF IInv, MemInv
<1>5. \A g \in Readable : pins[p][g] = IF g \in PagesOf(proc[p].call) THEN 1 ELSE 0
  BY <1>2, <1>3, <1>4, Pinned
<1>6. got \in Seq(0 .. 255)
  BY <1>2, <1>3, GotBytes
<1>7. /\ AtRest \in CallType /\ CallFits(AtRest) /\ ~Holds(AtRest) /\ AtRest.pc = "user"
  BY RestFits DEF AtRest
<1>8. FitsInv' /\ proc'[p] = AtRest /\ \A q \in Process \ {p} : proc'[q] = proc[q]
  BY <1>1, <1>2, <1>7, GoesTo
<1> HIDE DEF got, to
<1>9. MemInv'
  <2>1. memory' \in [Process -> [Address -> 0 .. 255]]
    <3>1. \A i \in DOMAIN got : got[i] \in 0 .. 255
      <4>1. got \in [1 .. Len(got) -> 0 .. 255]
        BY <1>6, LenProperties
      <4> QED BY <4>1
    <3>2. memory[p] \in [Address -> 0 .. 255]
      BY <1>4
    <3> DEFINE m == [a \in Address |->
                       IF a - to + 1 \in DOMAIN got THEN got[a - to + 1] ELSE memory[p][a]]
    <3>3. m \in [Address -> 0 .. 255]
      BY <3>1, <3>2
    <3>4. memory' = [memory EXCEPT ![p] = m]
      BY <1>1
    <3> HIDE DEF m
    <3> QED BY <1>4, <3>3, <3>4
  <2>2. \A g \in Readable : pins'[p][g] = 0
    <3>1. \A g \in Readable :
            pins'[p][g] = IF g \in PagesOf(proc[p].call) THEN pins[p][g] + -1 ELSE pins[p][g]
      BY <1>1, <1>4, PinsMoved
    <3> QED BY <1>5, <3>1
  <2>3. pins' \in [Process -> [Readable -> 0 .. MaxPins]]
    BY <1>1, <1>4, <2>2, PinsTyped DEF MaxPins
  <2>4. ASSUME NEW q \in Process, NEW g \in Readable
        PROVE  pins'[q][g] = IF HasMem(q)' /\ g \in PagesOf(proc'[q].call) THEN 1 ELSE 0
    <3>1. CASE q = p
      <4>1. ~HasMem(p)'
        BY <1>7, <1>8 DEF HasMem, Holds, Of
      <4> QED BY <2>2, <3>1, <4>1
    <3>2. CASE q # p
      <4>1. HasMem(q)' <=> HasMem(q)
        BY <1>8, <3>2 DEF HasMem, Of
      <4>2. pins'[q] = pins[q] /\ proc'[q].call = proc[q].call
        BY <1>1, <1>4, <1>8, <3>2, PinsMoved
      <4>3. pins[q][g] = IF HasMem(q) /\ g \in PagesOf(proc[q].call) THEN 1 ELSE 0
        BY <1>2, <1>4 DEF MemInv, BuffersReturned, Of
      <4> QED BY <4>1, <4>2, <4>3
    <3> QED BY <3>1, <3>2
  <2>5. BuffersReturned'
    BY <2>4 DEF BuffersReturned, Of
  <2> QED BY <2>1, <2>3, <2>5 DEF MemInv
<1>10. ReadyInv'
  BY <1>1, <1>2, <1>8, ReadyKept DEF setup
<1>11. LockInv'
  BY <1>1, <1>2, <1>7, <1>8, LocksKept DEF input, output
<1>12. PollInv'
  BY <1>1, <1>2, <1>7, <1>8, PollsKept DEF input
<1>13. InputInv'
  BY <1>1, <1>2, InputKept DEF keyboard, setup, input
<1>14. RefInv'
  <2>1. ASSUME NEW q \in Process, NEW k \in 1 .. 5
        PROVE  Uses(proc'[q], k) <=> Uses(proc[q], k)
    BY <1>2, <1>7, <1>8 DEF Uses
  <2> QED BY <1>1, <2>1, RefsKept DEF IInv, descriptions
<1>15. DescInv'
  BY <1>1, DescKept DEF IInv, descriptions
<1>16. term' \in TerminalType
  BY <1>1 DEF IInv, output
<1>17. StopsOnlyFor'
  BY <1>1, <1>2, StopsKept
<1> QED BY <1>8, <1>9, <1>10, <1>11, <1>12, <1>13, <1>14, <1>15, <1>16, <1>17 DEF IInv, CallsInv

(* The copy of a map has the descriptors of the original.                  *)
LEMMA DescriptorPairing == Pairing(DescriptorType)
BY DEF Pairing, DescriptorType, Pair

LEMMA ForkStep ==
  ASSUME IInv, NEW p \in Process, NEW q \in Process, Fork(p, q)
  PROVE  IInv'
<1>1. /\ p \in alive /\ q \notin alive /\ alive' = alive \cup {q} /\ stopped = 0
      /\ desctors' = [desctors EXCEPT ![q] = Map_copy(desctors[p])]
      /\ memory' = [memory EXCEPT ![q] = memory[p]]
      /\ UNCHANGED <<setup, input, output, stopped, KFDStatus, kfdDriverMap, refs, pins, proc>>
  BY DEF Fork, In
<1>2. InputInv /\ CallsInv /\ MemInv /\ DescInv /\ RefInv
  BY DEF IInv
<1>3. InputInv'
  BY <1>1, <1>2, InputKept DEF keyboard, setup, input
<1>4. CallsInv'
  BY <1>1, <1>2 DEF CallsInv, FitsInv, ReadyInv, LockInv, PollInv, setup, input, output
<1>5. MemInv'
  <2>1. memory' \in [Process -> [Address -> 0 .. 255]]
    BY <1>1, <1>2 DEF MemInv
  <2>2. BuffersReturned'
    BY <1>1, <1>2 DEF MemInv, BuffersReturned, HasMem, Of
  <2> QED BY <1>1, <1>2, <2>1, <2>2 DEF MemInv
<1>6. DescInv'
  <2> DEFINE copy == Map_copy(desctors[p])
  <2>1. desctors[p] \in MapOf(DescriptorType) /\ Members(desctors[p]) = FirstDescs
    BY <1>1, <1>2 DEF DescInv
  <2>2. copy \in MapOf(DescriptorType) /\ Members(copy) = FirstDescs
    BY <2>1, DescriptorPairing, Copies
  <2> HIDE DEF copy
  <2>3. DOMAIN desctors' = Process /\ desctors'[q] = copy /\ \A r \in Process \ {q} : desctors'[r] = desctors[r]
    BY <1>1, <1>2 DEF DescInv, copy
  <2>4. ASSUME NEW r \in Process
        PROVE  /\ desctors'[r] \in MapOf(DescriptorType)
               /\ Members(desctors'[r]) = IF r \in alive' THEN FirstDescs ELSE {}
    <3>1. CASE r = q
      BY <1>1, <2>2, <2>3, <3>1
    <3>2. CASE r # q
      BY <1>1, <1>2, <2>3, <3>2 DEF DescInv
    <3> QED BY <3>1, <3>2
  <2> QED BY <1>1, <1>2, <2>3, <2>4 DEF DescInv
<1>7. RefInv'
  BY <1>1, <1>2, RefsKept
<1>8. term' \in TerminalType /\ StopsOnlyFor'
  BY <1>1, StopsKept DEF IInv, output
<1> QED BY <1>3, <1>4, <1>5, <1>6, <1>7, <1>8 DEF IInv

-----------------------------------------------------------------------------

LEMMA InputStarts ==
  ASSUME KeyboardInit
  PROVE  InputInv
<1>1. kbd \in KbdType /\ kbd.bufTerm = <<>>
  BY DEF KeyboardInit, KbdType
<1>2. /\ port = <<>> /\ device = [ports |-> {1, 2}, translation |-> TRUE, scanning |-> TRUE,
                                  testing |-> FALSE]
      /\ stage = Alone("disablePorts") /\ strays = 0 /\ stopped = 0
  BY DEF KeyboardInit
<1>3. /\ stage \in Early /\ device \in DeviceType /\ ~device.testing /\ MaxStray \in Nat
      /\ BufTermSize \in Nat
  BY <1>2, KeyboardAssumption, StageSet DEF DeviceType, Early
<1> DEFINE s == stage
<1>4. s \in Early
  BY <1>3
<1>5. /\ s \notin {<<"getSet", "send">>, <<"getSet", "receive">>, <<"getSet", "value">>,
                   <<"enableScan", "send">>, <<"enableScan", "receive">>, Ready}
      /\ s \notin {<<"disableScan", "send">>, <<"reset", "send">>,
                   <<"disableScan", "receive">>, <<"reset", "receive">>}
      /\ s \in Stages
  BY <1>4, SettledStage
<1>6. InputType
  <2>1. Len(kbd.bufTerm) <= BufTermSize
    BY <1>1, <1>3
  <2>2. port \in Seq(0 .. 255)
    BY <1>2
  <2> QED BY <1>1, <1>2, <1>3, <1>5, <2>1, <2>2 DEF InputType
<1>7. SetInv
  BY <1>5 DEF SetInv
<1>8. QuietInv
  BY <1>3, <1>5 DEF QuietInv
<1> QED BY <1>6, <1>7, <1>8 DEF InputInv

LEMMA ScreenStarts ==
  ASSUME TerminalInit
  PROVE  term \in TerminalType
<1> DEFINE t == [pos |-> 0, screen |-> [i \in Cells |-> Blank]]
<1>1. 0 \in Cells
  <2>1. width \in Nat /\ 0 < width /\ height \in Nat /\ 0 < height
    BY TerminalAssumption
  <2>2. PICK m \in Nat : height = 1 + m
    BY <2>1, height - 1 \in Nat
  <2>3. width * height = width + width * m /\ width * m \in Nat
    BY <2>1, <2>2
  <2>4. total \in Nat /\ 0 < total
    BY <2>1, <2>3 DEF total
  <2> QED BY <2>4 DEF Cells
<1>2. t \in TerminalType
  BY <1>1 DEF TerminalType, Blank, Space
<1> HIDE DEF t
<1>3. term = Toggled(t)
  BY DEF TerminalInit, t
<1> QED BY <1>2, <1>3, Toggles

LEMMA Starting ==
  ASSUME Init
  PROVE  IInv
<1>1. /\ \A p \in Process : proc[p] = AtRest
      /\ proc \in [Process -> CallType]
  BY RestFits DEF Init
<1>2. InputInv /\ term \in TerminalType
  BY InputStarts, ScreenStarts DEF Init
<1>3. stopped = 0
  BY DEF Init, KeyboardInit
<1>4. CallsInv
  <2>1. AtRest.pc = "user" /\ CallFits(AtRest)
    BY RestFits DEF AtRest
  <2>2. bufLock = Nobody /\ accessLock = Nobody /\ Nobody \notin Process
    BY ConsoleAssumption DEF Init
  <2> QED BY <1>1, <2>1, <2>2 DEF CallsInv, FitsInv, ReadyInv, LockInv, PollInv
<1>5. MemInv
  <2>1. memory \in [Process -> [Address -> 0 .. 255]]
    BY ConsoleAssumption DEF Init
  <2>2. pins \in [Process -> [Readable -> 0 .. MaxPins]] /\ \A p \in Process : \A g \in Readable : pins[p][g] = 0
    BY DEF Init, MaxPins
  <2>3. \A p \in Process : ~HasMem(p)
    BY <1>1 DEF HasMem, AtRest
  <2> QED BY <2>1, <2>2, <2>3 DEF MemInv, BuffersReturned
<1>6. DescInv
  <2> DEFINE map == Map_of(<<<<0, 1>>, <<1, 1>>, <<2, 1>>, <<3, 2>>, <<4, 3>>, <<5, 4>>, <<6, 5>>>>)
  <2>1. map \in MapOf(DescriptorType) /\ Members(map) = FirstDescs
    BY FirstMap
  <2>2. desctors = [p \in Process |-> IF p = First THEN map ELSE Set_create]
    BY DEF Init
  <2>3. /\ alive = {First} /\ First \in Process
        /\ KFDStatus = Map_of([k \in 1 .. 5 |-> <<k, "KFDInfo">>])
        /\ kfdDriverMap = Map_of(<<<<1, "VGATerminal">>, <<2, "ATA">>, <<3, "ATA">>,
                                   <<4, "ATA">>, <<5, "ATA">>>>)
    BY ConsoleAssumption DEF Init
  <2> HIDE DEF map
  <2>4. ASSUME NEW p \in Process
        PROVE  /\ desctors[p] \in MapOf(DescriptorType)
               /\ Members(desctors[p]) = IF p \in alive THEN FirstDescs ELSE {}
    <3>1. CASE p = First
      BY <2>1, <2>2, <2>3, <3>1
    <3>2. CASE p # First
      BY <2>2, <2>3, <3>2, EmptyMap
    <3> QED BY <3>1, <3>2
  <2> QED BY <2>2, <2>3, <2>4 DEF DescInv
<1>7. RefInv
  <2>1. ASSUME NEW k \in 1 .. 5 PROVE Using(k) = {}
    BY <1>1 DEF Using, AtRest
  <2>2. refs = [k \in 1 .. 5 |-> IF k = 1 THEN 2 ELSE 0]
    BY DEF Init
  <2>3. Cardinality({}) = 0
    BY FS_EmptySet
  <2> QED BY <2>1, <2>2, <2>3 DEF RefInv
<1> QED BY <1>2, <1>3, <1>4, <1>5, <1>6, <1>7 DEF IInv, StopsOnlyFor

LEMMA Stuttering ==
  ASSUME IInv, UNCHANGED vars
  PROVE  IInv'
<1>1. UNCHANGED <<setup, input, output, stopped, descriptions, memory, pins, alive, proc>>
  BY DEF vars
<1>2. InputInv /\ CallsInv /\ MemInv /\ DescInv /\ RefInv /\ StopsOnlyFor
  BY DEF IInv
<1>3. InputInv'
  BY <1>1, <1>2, InputKept DEF keyboard, setup, input
<1>4. CallsInv'
  BY <1>1, <1>2 DEF CallsInv, FitsInv, ReadyInv, LockInv, PollInv, setup, input, output
<1>5. MemInv'
  BY <1>1, <1>2 DEF MemInv, BuffersReturned, HasMem, Of
<1>6. DescInv' /\ RefInv'
  BY <1>1, <1>2, DescKept, RefsKept DEF descriptions
<1>7. StopsOnlyFor'
  BY <1>1, <1>2 DEF StopsOnlyFor, Of, setup
<1>8. term' \in TerminalType
  BY <1>1 DEF IInv, output
<1> QED BY <1>3, <1>4, <1>5, <1>6, <1>7, <1>8 DEF IInv

LEMMA Stepping ==
  ASSUME IInv, [Next]_vars
  PROVE  IInv'
<1>1. CASE BringsUp
  BY <1>1, BringsUpStep
<1>2. CASE HitKey
  BY <1>2, HitKeyStep
<1>3. ASSUME NEW p \in Process, NEW req \in Request, Call(p, req) PROVE IInv'
  BY <1>3, CallStep
<1>4. ASSUME NEW p \in Process, Steps(p) PROVE IInv'
  BY <1>4, GetUserMemStep, FetchStep, AdjustStep, WriteStep, PutStep, WrittenStep, ReadStep,
     TakeStep, PollStep, SeekStep, RetDescStep, RetMemStep, ReturnStep DEF Steps
<1>5. ASSUME NEW p \in Process, NEW q \in Process, Fork(p, q) PROVE IInv'
  BY <1>5, ForkStep
<1>6. CASE UNCHANGED vars
  BY <1>6, Stuttering
<1> QED BY <1>1, <1>2, <1>3, <1>4, <1>5, <1>6 DEF Next, Programs

LEMMA Invariance == Spec => []IInv
BY Starting, Stepping, PTL DEF Spec

-----------------------------------------------------------------------------

(* TypeOK: whatever the keys, the controller's answers and the calls, the  *)
(* position stays on the screen, the keyboard's buffer within its room and *)
(* the pins of a page within their three bits.                             *)
THEOREM TypeCorrect == Spec => []TypeOK
<1>1. IInv => TypeOK
  BY DEF IInv, InputInv, InputType, KbdType, DeviceType, CallsInv, FitsInv, LockInv, MemInv,
         DescInv, RefInv, TypeOK
<1> QED BY <1>1, Invariance, PTL

(* StopsOnlyFor: the kernel stops at the console for a controller that     *)
(* fails, for a key or a late self test while the keyboard is brought up,  *)
(* and for a write of a buffer that spans pages, and for nothing else.     *)
THEOREM StopsForThese == Spec => []StopsOnlyFor
<1>1. IInv => StopsOnlyFor
  BY DEF IInv
<1> QED BY <1>1, Invariance, PTL

(* BuffersReturned: getUserMem and retUserMem pin and unpin the same pages *)
(* of every call, however it ends, and of no call for longer.              *)
THEOREM PagesUnpinned == Spec => []BuffersReturned
<1>1. IInv => BuffersReturned
  BY DEF IInv, MemInv
<1> QED BY <1>1, Invariance, PTL

(* What a fork copied means what the original does.                        *)
LEMMA CopyMeans ==
  ASSUME IInv, IInv', NEW q \in alive' \ alive
  PROVE  \E p \in alive : Meaning(desctors'[q]) = Meaning(desctors[p])
<1>1. First \in alive /\ First \in Process /\ q \in Process
  BY DEF IInv, DescInv
<1>2. desctors[First] \in MapOf(DescriptorType) /\ Members(desctors[First]) = FirstDescs
  BY <1>1 DEF IInv, DescInv
<1>3. desctors'[q] \in MapOf(DescriptorType) /\ Members(desctors'[q]) = FirstDescs
  BY <1>1 DEF IInv, DescInv
<1>4. Meaning(desctors'[q]) = Meaning(desctors[First])
  BY <1>2, <1>3, SameMembers
<1> QED BY <1>1, <1>4

LEMMA ChangesMean ==
  ASSUME NEW map \in MapOf(DescriptorType), NEW j \in Keys(map), NEW k \in Keys(map)
  PROVE  \A less \in {Map_remove(j, m) : m \in {Map_remove(k, map)}} :
           /\ WellFormed(less)
           /\ Meaning(less) = Without(Without(Meaning(map), k), j)
           /\ \A more \in {Map_add(k, 9, less)} :
                /\ WellFormed(more)
                /\ Without(Meaning(more), k) = Meaning(less)
                /\ Map_fetch(k, more) = 9
<1> DEFINE mid == Map_remove(k, map)
           less == Map_remove(j, mid)
           more == Map_add(k, 9, less)
<1>1. mid \in MapOf(DescriptorType) /\ Members(mid) = {d \in Members(map) : d.key # k}
  BY Removes
<1>2. Meaning(mid) = Without(Meaning(map), k)
  BY MeansWithout DEF Without, LessIs, Less
<1> HIDE DEF mid
<1>3. less \in MapOf(DescriptorType) /\ Members(less) = {d \in Members(mid) : d.key # j}
  BY <1>1, Removes
<1>4. WellFormed(less) /\ Meaning(less) = Without(Meaning(mid), j)
  BY <1>1, MeansWithout DEF Without, LessIs, Less
<1> HIDE DEF less
<1>5. Pair(k, 9) \in DescriptorType
  <2>1. PICK d \in Members(map) : d.key = k
    BY KeyHas
  <2>2. d \in DescriptorType
    BY <2>1, MemberIn DEF MapOf
  <2> QED BY <2>1, <2>2 DEF Pair, DescriptorType
<1>6. k \notin Keys(less)
  BY <1>1, <1>3, KeyHas
<1>7. /\ WellFormed(more) /\ Without(Meaning(more), k) = Meaning(less) /\ Map_fetch(k, more) = 9
  <2>1. MoreIs(less, k, 9, more)
    BY <1>3, <1>5, <1>6, MeansWith
  <2> QED BY <2>1 DEF MoreIs, Less, Without
<1> QED BY <1>2, <1>4, <1>7 DEF mid, less

(* MapsAreFunctions: the map that a fork copies means what the original    *)
(* does, and keys are removed from it and added to it as in a function,    *)
(* whatever the blocks of the two are.                                     *)
THEOREM MapsBehave == Spec => MapsAreFunctions
<1> DEFINE A == \A map \in {desctors'[q] : q \in alive' \ alive} :
       /\ \E p \in alive : Meaning(map) = Meaning(desctors[p])
       /\ \A j, k \in Keys(map) :
            \A less \in {Map_remove(j, m) : m \in {Map_remove(k, map)}} :
              /\ WellFormed(less)
              /\ Meaning(less) = Without(Without(Meaning(map), k), j)
              /\ \A more \in {Map_add(k, 9, less)} :
                   /\ WellFormed(more)
                   /\ Without(Meaning(more), k) = Meaning(less)
                   /\ Map_fetch(k, more) = 9
<1>1. ASSUME IInv, IInv' PROVE A
  <2>1. ASSUME NEW q \in alive' \ alive PROVE desctors'[q] \in MapOf(DescriptorType)
    BY <1>1, <2>1 DEF IInv, DescInv
  <2>2. ASSUME NEW q \in alive' \ alive
        PROVE  \E p \in alive : Meaning(desctors'[q]) = Meaning(desctors[p])
    BY <1>1, <2>2, CopyMeans
  <2> QED BY <2>1, <2>2, ChangesMean
<1> HIDE DEF A
<1>2. IInv /\ IInv' /\ [Next]_vars => [A]_vars
  BY <1>1
<1>3. Spec => [][A]_vars
  BY <1>2, Invariance, PTL DEF Spec
<1> QED BY <1>3, PTL DEF MapsAreFunctions, A

-----------------------------------------------------------------------------

(* The paper: Printed is a fold over the bytes, which TLA+ defines by the  *)
(* choice of a function on sets of places; PrintingDefined shows that it   *)
(* exists, and PrintedMore what one more byte makes of it.                 *)

(* A byte of output, on the paper.                                         *)
NewLine(page) == [rows |-> Append(page.rows, BlankRow), col |-> 0]
Struck(page, b) ==
  [rows |-> [page.rows EXCEPT ![Len(page.rows)][page.col] = b], col |-> page.col + 1]
Inked(page, b) ==
  IF b = LF THEN NewLine(page)
  ELSE IF b = CR THEN [page EXCEPT !.col = 0]
  ELSE IF b \in 32 .. 126 THEN
    IF page.col + 1 = width THEN NewLine(Struck(page, b)) ELSE Struck(page, b)
  ELSE page
Fresh == [rows |-> <<BlankRow>>, col |-> 0]

(* The pages as the bytes are printed one after the other.                 *)
Printing(g, s, n) ==
  [S \in SUBSET (1 .. n) |->
     IF S = {} THEN Fresh ELSE Inked(g[S \ {Max(S)}], s[Max(S)])]

LEMMA PrintedIs ==
  ASSUME NEW n \in Nat, NEW s \in [1 .. n -> 0 .. 255]
  PROVE  Printed(s) = (CHOOSE g : g = Printing(g, s, n))[1 .. n]
<1>1. DOMAIN s = 1 .. n
  OBVIOUS
<1> DEFINE iterated(g) ==
             [S \in SUBSET DOMAIN s |->
               IF S = {} THEN [rows |-> <<BlankRow>>, col |-> 0]
               ELSE LET page == g[S \ {Max(S)}]
                        b == s[Max(S)]
                        next == [rows |-> [page.rows EXCEPT ![Len(page.rows)][page.col] = b],
                                 col |-> page.col + 1]
                    IN CASE b = LF -> [rows |-> Append(page.rows, BlankRow), col |-> 0]
                         [] b = CR -> [page EXCEPT !.col = 0]
                         [] b \in 32 .. 126 ->
                              IF next.col = width
                              THEN [rows |-> Append(next.rows, BlankRow), col |-> 0] ELSE next
                         [] OTHER -> page]
<1>2. Printed(s) = (CHOOSE g : g = iterated(g))[DOMAIN s]
  BY DEF Printed, FoldLeft, MapThenFoldSet
<1>3. ASSUME NEW page, NEW b
      PROVE  (LET next == [rows |-> [page.rows EXCEPT ![Len(page.rows)][page.col] = b],
                                 col |-> page.col + 1]
                    IN CASE b = LF -> [rows |-> Append(page.rows, BlankRow), col |-> 0]
                         [] b = CR -> [page EXCEPT !.col = 0]
                         [] b \in 32 .. 126 ->
                              IF next.col = width
                              THEN [rows |-> Append(next.rows, BlankRow), col |-> 0] ELSE next
                         [] OTHER -> page) = Inked(page, b)
  <2>1. LF # CR /\ LF \notin 32 .. 126 /\ CR \notin 32 .. 126
    BY DEF LF, CR
  <2>2. CASE b = LF
    BY <2>1, <2>2 DEF Inked, NewLine
  <2>3. CASE b = CR
    BY <2>1, <2>3 DEF Inked
  <2>4. CASE b \in 32 .. 126
    <3>1. b # LF /\ b # CR
      BY <2>1, <2>4
    <3> DEFINE next == [rows |-> [page.rows EXCEPT ![Len(page.rows)][page.col] = b],
                        col |-> page.col + 1]
    <3>2. next = Struck(page, b)
      BY DEF Struck
    <3>3. next.col = page.col + 1
      OBVIOUS
    <3> HIDE DEF next
    <3>4. (CASE b = LF -> [rows |-> Append(page.rows, BlankRow), col |-> 0]
             [] b = CR -> [page EXCEPT !.col = 0]
             [] b \in 32 .. 126 ->
                  IF next.col = width
                  THEN [rows |-> Append(next.rows, BlankRow), col |-> 0] ELSE next
             [] OTHER -> page) =
          IF next.col = width
          THEN [rows |-> Append(next.rows, BlankRow), col |-> 0] ELSE next
      BY <2>4, <3>1
    <3>5. Inked(page, b) = IF next.col = width
          THEN [rows |-> Append(next.rows, BlankRow), col |-> 0] ELSE next
      BY <2>4, <3>1, <3>2, <3>3 DEF Inked, NewLine
    <3> QED BY <3>4, <3>5 DEF next
  <2>5. CASE b # LF /\ b # CR /\ b \notin 32 .. 126
    BY <2>5 DEF Inked
  <2> QED BY <2>2, <2>3, <2>4, <2>5
<1>4. \A g : iterated(g) = Printing(g, s, n)
  <2> SUFFICES ASSUME NEW g PROVE iterated(g) = Printing(g, s, n)
    OBVIOUS
  <2> DEFINE body(S) ==
               LET page == g[S \ {Max(S)}]
                   b == s[Max(S)]
                   next == [rows |-> [page.rows EXCEPT ![Len(page.rows)][page.col] = b],
                            col |-> page.col + 1]
               IN CASE b = LF -> [rows |-> Append(page.rows, BlankRow), col |-> 0]
                    [] b = CR -> [page EXCEPT !.col = 0]
                    [] b \in 32 .. 126 ->
                         IF next.col = width
                         THEN [rows |-> Append(next.rows, BlankRow), col |-> 0] ELSE next
                    [] OTHER -> page
  <2>1. \A S : body(S) = Inked(g[S \ {Max(S)}], s[Max(S)])
    BY <1>3, Zenon
  <2>2. iterated(g) = [S \in SUBSET DOMAIN s |-> IF S = {} THEN Fresh ELSE body(S)]
    BY Zenon DEF Fresh
  <2> HIDE DEF body, iterated
  <2> QED BY <1>1, <2>1, <2>2 DEF Printing
<1> HIDE DEF iterated
<1> QED BY <1>1, <1>2, <1>4

LEMMA PrintingDefined ==
  ASSUME NEW N \in Nat, NEW s
  PROVE  \E g : g = Printing(g, s, N)
<1> DEFINE Sx == {n \in 0 .. N : \E g : g = Printing(g, s, n)}
<1>1. 0 \in Sx
  <2> DEFINE g == [S \in SUBSET (1 .. 0) |-> Fresh]
  <2>1. \A S \in SUBSET (1 .. 0) : S = {}
    OBVIOUS
  <2>2. Printing(g, s, 0) = [S \in SUBSET (1 .. 0) |-> Fresh]
    BY <2>1 DEF Printing
  <2>3. g = Printing(g, s, 0)
    BY <2>2
  <2> QED BY <2>3
<1>2. ASSUME NEW n \in 0 .. N - 1, n \in Sx PROVE n + 1 \in Sx
  <2>1. PICK g : g = Printing(g, s, n)
    BY <1>2
  <2> DEFINE ink(S) == Inked(g[S \ {n + 1}], s[n + 1])
             h == [S \in SUBSET (1 .. n + 1) |-> IF n + 1 \in S THEN ink(S) ELSE g[S]]
  <2>2. n \in Nat /\ n + 1 \in Nat /\ n + 1 \in 0 .. N
    OBVIOUS
  <2>3. ASSUME NEW S \in SUBSET (1 .. n + 1)
        PROVE  h[S] = IF S = {} THEN Fresh ELSE Inked(h[S \ {Max(S)}], s[Max(S)])
    <3>1. CASE n + 1 \in S
      <4>1. Max(S) = n + 1
        BY <2>2, <3>1, MaxIs
      <4>2. S \ {n + 1} \in SUBSET (1 .. n + 1) /\ n + 1 \notin S \ {n + 1}
        OBVIOUS
      <4>3. h[S \ {n + 1}] = g[S \ {n + 1}]
        BY <4>2
      <4>4. h[S] = ink(S)
        BY <3>1
      <4> HIDE DEF h
      <4> QED BY <3>1, <4>1, <4>3, <4>4
    <3>2. CASE n + 1 \notin S
      <4>1. \A t \in SUBSET S : t \in SUBSET (1 .. n) /\ t \in SUBSET (1 .. n + 1) /\ n + 1 \notin t
        <5>1. \A i \in 1 .. n + 1 : i # n + 1 => i \in 1 .. n
          BY <2>2
        <5> QED BY <3>2, <5>1
      <4>2. \A t \in SUBSET S : h[t] = g[t]
        BY <4>1
      <4>3. S \in SUBSET S /\ S \ {Max(S)} \in SUBSET S
        OBVIOUS
      <4>4. g[S] = Printing(g, s, n)[S]
        BY <2>1
      <4>5. Printing(g, s, n)[S] = IF S = {} THEN Fresh ELSE Inked(g[S \ {Max(S)}], s[Max(S)])
        BY <4>1, <4>3 DEF Printing
      <4> HIDE DEF h
      <4> QED BY <4>2, <4>3, <4>4, <4>5
    <3> QED BY <3>1, <3>2
  <2>4. h = [S \in SUBSET (1 .. n + 1) |-> h[S]]
    OBVIOUS
  <2> HIDE DEF h
  <2>5. h = Printing(h, s, n + 1)
    BY <2>3, <2>4 DEF Printing
  <2> QED BY <2>2, <2>5
<1> HIDE DEF Sx
<1>3. \A n \in 0 .. N : n \in Sx
  BY <1>1, <1>2, Induction
<1>4. N \in Sx
  BY <1>3
<1> QED BY <1>4 DEF Sx

(* The pages that a text gives, after each byte of it.                     *)
Pages(g, s, n) ==
  /\ g[1 .. 0] = Fresh
  /\ \A i \in 0 .. n - 1 : g[1 .. i + 1] = Inked(g[1 .. i], s[i + 1])

LEMMA PagesOfPrinting ==
  ASSUME NEW n \in Nat, NEW s \in [1 .. n -> 0 .. 255]
  PROVE  \E g : Pages(g, s, n) /\ Printed(s) = g[1 .. n]
<1> DEFINE g == CHOOSE g : g = Printing(g, s, n)
<1>1. g = Printing(g, s, n)
  BY PrintingDefined
<1>2. Printed(s) = g[1 .. n]
  BY PrintedIs
<1> HIDE DEF g
<1>3. \A S \in SUBSET (1 .. n) : g[S] = IF S = {} THEN Fresh ELSE Inked(g[S \ {Max(S)}], s[Max(S)])
  <2> SUFFICES ASSUME NEW S \in SUBSET (1 .. n)
               PROVE  g[S] = IF S = {} THEN Fresh ELSE Inked(g[S \ {Max(S)}], s[Max(S)])
    OBVIOUS
  <2>1. g[S] = Printing(g, s, n)[S]
    BY <1>1
  <2> QED BY <2>1 DEF Printing
<1>4. g[1 .. 0] = Fresh
  <2>1. 1 .. 0 = {} /\ {} \in SUBSET (1 .. n)
    OBVIOUS
  <2> QED BY <1>3, <2>1
<1>5. ASSUME NEW i \in 0 .. n - 1 PROVE g[1 .. i + 1] = Inked(g[1 .. i], s[i + 1])
  <2> DEFINE m == i + 1
  <2>1. m \in Nat /\ m \in 1 .. m
    OBVIOUS
  <2>2. 1 .. m \in SUBSET (1 .. n) /\ 1 .. m # {} /\ (1 .. m) \ {m} = 1 .. i
    <3>1. i \in Nat /\ i + 1 \in 1 .. n
      OBVIOUS
    <3>2. \A x \in 1 .. m : x # m <=> x \in 1 .. i
      BY <3>1
    <3>3. \A x \in 1 .. i : x \in 1 .. m
      BY <3>1
    <3>4. \A x \in 1 .. m : x \in 1 .. n
      BY <3>1
    <3> HIDE DEF m
    <3> QED BY <2>1, <3>2, <3>3, <3>4
  <2>3. Max(1 .. m) = m
    <3> HIDE DEF m
    <3> QED BY <2>1, MaxIs
  <2> HIDE DEF m
  <2>4. g[1 .. m] = Inked(g[1 .. i], s[m])
    BY <1>3, <2>2, <2>3
  <2> QED BY <2>4 DEF m
<1>6. Pages(g, s, n)
  BY <1>4, <1>5 DEF Pages
<1> QED BY <1>2, <1>6

(* Nothing printed is a fresh page, and a byte more inks what was printed. *)
LEMMA PrintedMore ==
  ASSUME NEW n \in Nat, NEW s \in [1 .. n -> 0 .. 255], NEW t \in [1 .. n + 1 -> 0 .. 255],
         \A i \in 1 .. n : t[i] = s[i]
  PROVE  Printed(t) = Inked(Printed(s), t[n + 1])
<1>1. PICK g : Pages(g, s, n) /\ Printed(s) = g[1 .. n]
  BY PagesOfPrinting
<1>2. n + 1 \in Nat
  OBVIOUS
<1>3. PICK h : Pages(h, t, n + 1) /\ Printed(t) = h[1 .. n + 1]
  BY <1>2, PagesOfPrinting
<1> DEFINE Sx == {i \in 0 .. n : g[1 .. i] = h[1 .. i]}
<1>4. 0 \in Sx
  BY <1>1, <1>3 DEF Pages
<1>5. ASSUME NEW i \in 0 .. n - 1, i \in Sx PROVE i + 1 \in Sx
  <2>1. g[1 .. i + 1] = Inked(g[1 .. i], s[i + 1])
    BY <1>1 DEF Pages
  <2>2. i \in 0 .. (n + 1) - 1 /\ i + 1 \in 1 .. n /\ i + 1 \in 0 .. n
    OBVIOUS
  <2>3. h[1 .. i + 1] = Inked(h[1 .. i], t[i + 1])
    BY <1>3, <2>2 DEF Pages
  <2> QED BY <1>5, <2>1, <2>2, <2>3
<1> HIDE DEF Sx
<1>6. \A i \in 0 .. n : i \in Sx
  BY <1>4, <1>5, Induction
<1>7. g[1 .. n] = h[1 .. n]
  BY <1>6 DEF Sx
<1>8. n \in 0 .. (n + 1) - 1
  OBVIOUS
<1>9. h[1 .. n + 1] = Inked(h[1 .. n], t[n + 1])
  BY <1>3, <1>8 DEF Pages
<1> QED BY <1>1, <1>3, <1>7, <1>9

LEMMA PrintedNone == Printed(<<>>) = Fresh
<1>1. <<>> \in [1 .. 0 -> 0 .. 255]
  OBVIOUS
<1>2. PICK g : Pages(g, <<>>, 0) /\ Printed(<<>>) = g[1 .. 0]
  BY <1>1, PagesOfPrinting
<1> QED BY <1>2 DEF Pages

(* A page has at least one row, and the next character a place in its last *)
(* row.                                                                    *)
Row == [0 .. width - 1 -> 0 .. 255]
PageType(page) ==
  /\ page = [rows |-> page.rows, col |-> page.col]
  /\ page.rows \in Seq(Row) /\ Len(page.rows) \in Nat /\ 0 < Len(page.rows)
  /\ page.col \in 0 .. width - 1

LEMMA Widths ==
  /\ width \in Nat /\ 0 < width /\ height \in Nat /\ 0 < height /\ total \in Nat
  /\ total = width * height /\ width <= total /\ width * (height - 1) = total - width
<1>1. width \in Nat /\ 0 < width /\ height \in Nat /\ 0 < height
  BY TerminalAssumption
<1>2. PICK m \in Nat : height = 1 + m
  BY <1>1, height - 1 \in Nat
<1>3. width * height = width + width * m /\ width * m \in Nat /\ height - 1 = m
  BY <1>1, <1>2
<1> QED BY <1>1, <1>3 DEF total

LEMMA BlankRowIs == BlankRow \in Row
BY DEF BlankRow, Row, Space

LEMMA NewLinePage ==
  ASSUME NEW page, page.rows \in Seq(Row)
  PROVE  /\ PageType(NewLine(page)) /\ NewLine(page).col = 0
         /\ NewLine(page).rows = Append(page.rows, BlankRow)
         /\ Len(NewLine(page).rows) = Len(page.rows) + 1
         /\ \A i \in 1 .. Len(page.rows) : NewLine(page).rows[i] = page.rows[i]
         /\ NewLine(page).rows[Len(page.rows) + 1] = BlankRow
<1> DEFINE rows == Append(page.rows, BlankRow)
<1>1. /\ rows \in Seq(Row) /\ Len(rows) = Len(page.rows) + 1 /\ Len(page.rows) \in Nat
      /\ \A i \in 1 .. Len(page.rows) : rows[i] = page.rows[i]
      /\ rows[Len(page.rows) + 1] = BlankRow
  BY BlankRowIs, AppendProperties, LenProperties
<1> HIDE DEF rows
<1>2. NewLine(page) = [rows |-> rows, col |-> 0]
  BY DEF NewLine, rows
<1>3. 0 \in 0 .. width - 1
  BY Widths
<1>4. PageType([rows |-> rows, col |-> 0])
  BY <1>1, <1>3 DEF PageType
<1> QED BY <1>1, <1>2, <1>4 DEF rows

LEMMA StruckPage ==
  ASSUME NEW page, PageType(page), NEW b \in 0 .. 255
  PROVE  /\ Struck(page, b).rows \in Seq(Row) /\ Struck(page, b).col = page.col + 1
         /\ Len(Struck(page, b).rows) = Len(page.rows)
         /\ \A i \in 1 .. Len(page.rows) : \A j \in 0 .. width - 1 :
              /\ i = Len(page.rows) /\ j = page.col => Struck(page, b).rows[i][j] = b
              /\ ~(i = Len(page.rows) /\ j = page.col) =>
                   Struck(page, b).rows[i][j] = page.rows[i][j]
         /\ page.col + 1 # width => PageType(Struck(page, b))
<1> DEFINE n == Len(page.rows)
           rows == [page.rows EXCEPT ![n][page.col] = b]
<1>1. /\ page.rows \in Seq(Row) /\ n \in Nat /\ 0 < n /\ page.col \in 0 .. width - 1
      /\ page.rows \in [1 .. n -> Row]
  BY LenProperties DEF PageType
<1>2. page.rows[n] \in Row
  BY <1>1
<1>3. [page.rows[n] EXCEPT ![page.col] = b] \in Row
  BY <1>1, <1>2 DEF Row
<1>4. rows \in [1 .. n -> Row]
  BY <1>1, <1>3
<1>5. ASSUME NEW i \in 1 .. n, NEW j \in 0 .. width - 1
      PROVE  /\ i = n /\ j = page.col => rows[i][j] = b
             /\ ~(i = n /\ j = page.col) => rows[i][j] = page.rows[i][j]
  <2>1. CASE i = n
    <3>1. rows[i] = [page.rows[n] EXCEPT ![page.col] = b]
      BY <1>1, <2>1
    <3> QED BY <1>2, <2>1, <3>1 DEF Row
  <2>2. CASE i # n
    BY <1>1, <2>2
  <2> QED BY <2>1, <2>2
<1>6. Struck(page, b).rows = rows /\ Struck(page, b).col = page.col + 1
      /\ Struck(page, b) = [rows |-> Struck(page, b).rows, col |-> Struck(page, b).col]
  BY DEF Struck
<1> HIDE DEF rows, n
<1>7. rows \in Seq(Row) /\ Len(rows) = n
  <2>1. ASSUME NEW s, NEW m \in Nat, s \in [1 .. m -> Row] PROVE s \in Seq(Row) /\ Len(s) = m
    BY <2>1
  <2> QED BY <1>1, <1>4, <2>1
<1>8. page.col + 1 # width => page.col + 1 \in 0 .. width - 1
  BY <1>1, Widths
<1>9. page.col + 1 # width => PageType(Struck(page, b))
  BY <1>1, <1>6, <1>7, <1>8 DEF PageType
<1> QED BY <1>5, <1>6, <1>7, <1>9 DEF n

LEMMA InkedPage ==
  ASSUME NEW page, PageType(page), NEW b \in 0 .. 255
  PROVE  PageType(Inked(page, b))
<1>1. page.rows \in Seq(Row) /\ page.col \in 0 .. width - 1
  BY DEF PageType
<1>2. CASE b = LF
  BY <1>1, <1>2, NewLinePage DEF Inked
<1>3. CASE b # LF /\ b = CR
  <2>1. [page EXCEPT !.col = 0] = [rows |-> page.rows, col |-> 0]
    BY DEF PageType
  <2>2. PageType([rows |-> page.rows, col |-> 0])
    BY Widths DEF PageType
  <2> QED BY <1>3, <2>1, <2>2 DEF Inked
<1>4. CASE b # LF /\ b # CR /\ b \in 32 .. 126
  BY <1>4, StruckPage, NewLinePage DEF Inked
<1>5. CASE b # LF /\ b # CR /\ b \notin 32 .. 126
  BY <1>5 DEF Inked
<1> QED BY <1>2, <1>3, <1>4, <1>5

LEMMA FreshPage == PageType(Fresh) /\ Fresh.rows = <<BlankRow>> /\ Fresh.col = 0
<1>1. <<BlankRow>> \in Seq(Row) /\ Len(<<BlankRow>>) = 1
  BY BlankRowIs
<1> QED BY <1>1, Widths DEF Fresh, PageType

LEMMA PrintedPage ==
  ASSUME NEW n \in Nat, NEW s \in [1 .. n -> 0 .. 255]
  PROVE  PageType(Printed(s))
<1>1. PICK g : Pages(g, s, n) /\ Printed(s) = g[1 .. n]
  BY PagesOfPrinting
<1> DEFINE Sx == {i \in 0 .. n : PageType(g[1 .. i])}
<1>2. 0 \in Sx
  BY <1>1, FreshPage DEF Pages
<1>3. ASSUME NEW i \in 0 .. n - 1, i \in Sx PROVE i + 1 \in Sx
  <2>1. g[1 .. i + 1] = Inked(g[1 .. i], s[i + 1])
    BY <1>1 DEF Pages
  <2>2. i + 1 \in 1 .. n /\ i + 1 \in 0 .. n /\ s[i + 1] \in 0 .. 255
    OBVIOUS
  <2>3. PageType(g[1 .. i])
    BY <1>3
  <2>4. PageType(Inked(g[1 .. i], s[i + 1]))
    BY <2>2, <2>3, InkedPage
  <2> QED BY <2>1, <2>2, <2>4
<1> HIDE DEF Sx
<1>4. \A i \in 0 .. n : i \in Sx
  BY <1>2, <1>3, Induction
<1> QED BY <1>1, <1>4 DEF Sx

(* What the screen shows of a page while no cursor is on it.               *)
Above(page) == IF Len(page.rows) > height THEN Len(page.rows) - height ELSE 0
Here(page) == width * (Len(page.rows) - Above(page) - 1) + page.col
TextAt(page, i) ==
  LET r == Above(page) + (i \div width) + 1
  IN IF r <= Len(page.rows) THEN page.rows[r][i % width] ELSE Space
Shown(page) == [i \in Cells |-> [text |-> TextAt(page, i), format |-> \h07]]
Plain(page) == [pos |-> Here(page), screen |-> Shown(page)]

LEMMA DivIs ==
  ASSUME NEW d \in Nat, 0 < d, NEW q \in Int, NEW r \in 0 .. d - 1
  PROVE  (d * q + r) \div d = q /\ (d * q + r) % d = r
<1> DEFINE x == d * q + r
           u == x \div d
           v == x % d
<1>1. x \in Int
  OBVIOUS
<1>2. u \in Int /\ v \in 0 .. d - 1 /\ x = d * u + v
  <2> HIDE DEF x
  <2> QED BY <1>1, Split
<1>3. d * q + r = d * u + v
  BY <1>2
<1> HIDE DEF x, u, v
<1>4. u = q
  <2>1. SUFFICES ASSUME u # q PROVE FALSE
    OBVIOUS
  <2>2. CASE u < q
    <3>1. PICK m \in Nat : q = u + 1 + m
      BY <1>2, <2>2, q - u - 1 \in Nat
    <3>2. d * q = d * u + d + d * m /\ d * m \in Nat /\ d * u \in Int
      BY <1>2, <3>1
    <3> QED BY <1>2, <1>3, <3>2
  <2>3. CASE q < u
    <3>1. PICK m \in Nat : u = q + 1 + m
      BY <1>2, <2>3, u - q - 1 \in Nat
    <3>2. d * u = d * q + d + d * m /\ d * m \in Nat /\ d * q \in Int
      BY <1>2, <3>1
    <3> QED BY <1>2, <1>3, <3>2
  <2> QED BY <1>2, <2>1, <2>2, <2>3
<1>5. v = r
  <2>1. d * u \in Int
    BY <1>2
  <2> QED BY <1>2, <1>3, <1>4, <2>1
<1> QED BY <1>4, <1>5 DEF x, u, v

(* A cell is in a row of the screen, at a column of it.                    *)
LEMMA CellIs ==
  ASSUME NEW i \in Cells
  PROVE  /\ i \div width \in 0 .. height - 1 /\ i % width \in 0 .. width - 1
         /\ i = width * (i \div width) + (i % width)
<1> DEFINE q == i \div width
           r == i % width
<1>1. i \in Int /\ 0 <= i /\ i < total
  BY Widths DEF Cells
<1>2. q \in Int /\ r \in 0 .. width - 1 /\ i = width * q + r
  BY <1>1, Widths, Split
<1> HIDE DEF q, r
<1>3. 0 <= q
  <2>1. SUFFICES ASSUME q < 0 PROVE FALSE
    BY <1>2
  <2>2. PICK m \in Nat : 0 = q + 1 + m
    BY <1>2, <2>1, 0 - q - 1 \in Nat
  <2>3. 0 = width * q + width + width * m /\ width * m \in Nat /\ width * q \in Int
    <3>1. width * (q + 1 + m) = width * q + width + width * m
      BY <1>2, Widths
    <3> QED BY <1>2, <2>2, <3>1, Widths
  <2> QED BY <1>1, <1>2, <2>3, Widths
<1>4. q < height
  <2>1. SUFFICES ASSUME height <= q PROVE FALSE
    BY <1>2, Widths
  <2>2. PICK m \in Nat : q = height + m
    BY <1>2, <2>1, Widths, q - height \in Nat
  <2>3. width * q = total + width * m /\ width * m \in Nat
    BY <2>2, Widths
  <2> QED BY <1>1, <1>2, <2>3, Widths
<1> QED BY <1>2, <1>3, <1>4, Widths DEF q, r

LEMMA RowStart ==
  ASSUME NEW q \in 0 .. height - 1
  PROVE  width * q \in Nat /\ width * q <= total - width
<1>1. PICK m \in Nat : height - 1 = q + m
  BY Widths, height - 1 - q \in Nat
<1>2. width * (height - 1) = width * q + width * m /\ width * m \in Nat /\ width * q \in Nat
  BY <1>1, Widths
<1> QED BY <1>2, Widths

(* The cell where the next character goes is on the screen, in its last    *)
(* row that has anything.                                                  *)
LEMMA HereIs ==
  ASSUME NEW page, PageType(page)
  PROVE  /\ Above(page) \in Nat /\ Len(page.rows) - Above(page) - 1 \in 0 .. height - 1
         /\ Here(page) \in Cells /\ Here(page) - page.col + width <= total
         /\ Here(page) \div width = Len(page.rows) - Above(page) - 1
         /\ Here(page) % width = page.col
<1> DEFINE q == Len(page.rows) - Above(page) - 1
<1>1. Len(page.rows) \in Nat /\ 0 < Len(page.rows) /\ page.col \in 0 .. width - 1
  BY DEF PageType
<1>2. Above(page) \in Nat /\ q \in 0 .. height - 1
  BY <1>1, Widths DEF Above
<1> HIDE DEF q
<1>3. (width * q + page.col) \div width = q /\ (width * q + page.col) % width = page.col
  <2>1. q \in Int /\ width \in Nat /\ 0 < width
    BY <1>2, Widths
  <2> DEFINE c == page.col
  <2>2. c \in 0 .. width - 1
    BY <1>1
  <2> HIDE DEF c
  <2>3. (width * q + c) \div width = q /\ (width * q + c) % width = c
    BY <2>1, <2>2, DivIs
  <2> QED BY <2>3 DEF c
<1>4. width * q \in Nat /\ width * q <= total - width
  BY <1>2, RowStart
<1>5. Here(page) = width * q + page.col
  BY DEF Here, q
<1>6. Here(page) \in Cells /\ Here(page) - page.col + width <= total
  BY <1>1, <1>4, <1>5, Widths DEF Cells
<1> QED BY <1>2, <1>3, <1>5, <1>6 DEF q

LEMMA SameShown ==
  ASSUME NEW page, NEW next, \A i \in Cells : TextAt(page, i) = TextAt(next, i)
  PROVE  Shown(page) = Shown(next)
BY DEF Shown

(* A new line, with room for it on the screen, or after a scroll.          *)
LEMMA NewLineRoom ==
  ASSUME NEW page, page.rows \in Seq(Row), Len(page.rows) \in Nat, 0 < Len(page.rows),
         Len(page.rows) < height
  PROVE  /\ Above(page) = 0 /\ Shown(NewLine(page)) = Shown(page)
         /\ Here(NewLine(page)) = width * Len(page.rows)
         /\ width * Len(page.rows) < total
<1> DEFINE n == Len(page.rows)
           u == NewLine(page)
<1>1. /\ PageType(u) /\ u.col = 0 /\ Len(u.rows) = n + 1
      /\ \A i \in 1 .. n : u.rows[i] = page.rows[i]
      /\ u.rows[n + 1] = BlankRow
  BY NewLinePage
<1> HIDE DEF u
<1>2. Above(page) = 0 /\ Above(u) = 0
  BY <1>1, Widths DEF Above
<1>3. ASSUME NEW i \in Cells PROVE TextAt(page, i) = TextAt(u, i)
  <2> DEFINE q == i \div width
             r == q + 1
             c == i % width
  <2>1. r \in 1 .. height /\ c \in 0 .. width - 1 /\ Above(page) + q + 1 = r /\ Above(u) + q + 1 = r
    <3>1. q \in 0 .. height - 1 /\ c \in 0 .. width - 1
      BY CellIs
    <3> HIDE DEF q, c
    <3> QED BY <1>2, <3>1, Widths
  <2> HIDE DEF r
  <2>2. TextAt(page, i) = IF r <= n THEN page.rows[r][c] ELSE Space
    BY <2>1 DEF TextAt
  <2>3. TextAt(u, i) = IF r <= n + 1 THEN u.rows[r][c] ELSE Space
    BY <1>1, <2>1 DEF TextAt
  <2> HIDE DEF q, c, n
  <2>4. CASE r <= n
    BY <1>1, <2>1, <2>2, <2>3, <2>4 DEF n
  <2>5. CASE r = n + 1
    <3>1. BlankRow[c] = Space
      BY <2>1 DEF BlankRow
    <3> QED BY <1>1, <2>2, <2>3, <2>5, <3>1 DEF n
  <2>6. CASE ~(r <= n + 1)
    BY <2>1, <2>2, <2>3, <2>6 DEF n
  <2> QED BY <2>1, <2>4, <2>5, <2>6 DEF n
<1>4. Shown(u) = Shown(page)
  BY <1>3 DEF Shown
<1>5. Here(u) = width * n
  BY <1>1, <1>2, Widths DEF Here
<1>6. width * n < total
  <2>1. n \in 0 .. height - 1
    BY Widths
  <2> HIDE DEF n
  <2> QED BY <2>1, RowStart, Widths
<1> QED BY <1>2, <1>4, <1>5, <1>6 DEF u

LEMMA NewLineScrolls ==
  ASSUME NEW page, page.rows \in Seq(Row), Len(page.rows) \in Nat, height <= Len(page.rows)
  PROVE  /\ width * (Len(page.rows) - Above(page)) = total
         /\ Here(NewLine(page)) = total - width
         /\ Shown(NewLine(page)) = [i \in Cells |-> IF i + width < total THEN Shown(page)[i + width]
                                                    ELSE Blank]
<1> DEFINE n == Len(page.rows)
           u == NewLine(page)
           a == Above(page)
<1>1. /\ PageType(u) /\ u.col = 0 /\ Len(u.rows) = n + 1
      /\ \A i \in 1 .. n : u.rows[i] = page.rows[i]
      /\ u.rows[n + 1] = BlankRow
  BY NewLinePage
<1> HIDE DEF u
<1>2. a = n - height /\ a \in Nat /\ Above(u) = a + 1
  BY <1>1, Widths DEF Above
<1> HIDE DEF a
<1>3. width * (n - a) = total
  <2>1. n - a = height
    BY <1>2, Widths
  <2> QED BY <2>1, Widths
<1>4. Here(u) = total - width
  <2>1. Len(u.rows) - Above(u) - 1 = height - 1
    BY <1>1, <1>2, Widths
  <2> QED BY <1>1, <2>1, Widths DEF Here
<1>5. ASSUME NEW i \in Cells
      PROVE  TextAt(u, i) = IF i + width < total THEN TextAt(page, i + width) ELSE Space
  <2> DEFINE q == i \div width
             c == i % width
             r == a + q + 2
  <2>1. q \in 0 .. height - 1 /\ c \in 0 .. width - 1 /\ i = width * q + c
    BY CellIs
  <2>2. r \in 1 .. n + 1
    <3> HIDE DEF q, c, n
    <3> QED BY <1>2, <2>1, Widths DEF n
  <2>3. TextAt(u, i) = u.rows[r][c]
    <3>1. Above(u) + q + 1 = r
      BY <1>2, <2>1
    <3> HIDE DEF r
    <3> QED BY <1>1, <2>2, <3>1 DEF TextAt
  <2> HIDE DEF q, c
  <2>4. CASE q < height - 1
    <3>1. q + 1 \in 0 .. height - 1
      BY <2>1, <2>4, Widths
    <3>2. width * (q + 1) = width * q + width /\ width * q \in Nat
      BY <2>1, Widths
    <3>3. i + width = width * (q + 1) + c
      BY <2>1, <3>2, Widths
    <3>4. width * (q + 1) <= total - width
      BY <3>1, RowStart
    <3>5. i + width < total
      BY <2>1, <3>1, <3>2, <3>3, <3>4, Widths
    <3>6. (i + width) \div width = q + 1 /\ (i + width) % width = c
      <4>1. q + 1 \in Int /\ width \in Nat /\ 0 < width
        BY <3>1, Widths
      <4> QED BY <2>1, <3>3, <4>1, DivIs
    <3>7. TextAt(page, i + width) = IF r <= n THEN page.rows[r][c] ELSE Space
      <4>1. Above(page) + (q + 1) + 1 = r
        <5>1. a \in Int /\ q \in Int
          BY <1>2, <2>1
        <5> QED BY <5>1 DEF a
      <4> HIDE DEF r
      <4> QED BY <3>6, <4>1 DEF TextAt
    <3>8. r <= n /\ r \in 1 .. n
      BY <1>2, <2>1, <2>2, <2>4, Widths
    <3> HIDE DEF r, n
    <3> QED BY <1>1, <2>3, <3>5, <3>7, <3>8 DEF n
  <2>5. CASE q = height - 1
    <3>1. ~(i + width < total)
      <4>1. width * q = total - width
        BY <2>5, Widths
      <4> QED BY <2>1, <4>1, Widths
    <3>2. r = n + 1
      BY <1>2, <2>5, Widths
    <3>3. BlankRow[c] = Space
      BY <2>1 DEF BlankRow
    <3> QED BY <1>1, <2>3, <3>1, <3>2, <3>3
  <2> QED BY <2>1, <2>4, <2>5, Widths
<1>6. ASSUME NEW i \in Cells
      PROVE  Shown(u)[i] = IF i + width < total THEN Shown(page)[i + width] ELSE Blank
  <2>1. i + width < total => i + width \in Cells
    BY Widths DEF Cells
  <2> QED BY <1>5, <2>1 DEF Shown, Blank
<1>7. Shown(u) = [i \in Cells |-> IF i + width < total THEN Shown(page)[i + width] ELSE Blank]
  <2>1. Shown(u) = [i \in Cells |-> Shown(u)[i]]
    BY DEF Shown
  <2> QED BY <1>6, <2>1
<1> QED BY <1>3, <1>4, <1>7 DEF u, a

(* A line that ends, on the screen: the position goes to the next row, and *)
(* the rows scroll up when there is none.                                  *)
LEMMA Scrolled ==
  ASSUME NEW page, page.rows \in Seq(Row), 0 < Len(page.rows),
         NEW t, t = [pos |-> width * (Len(page.rows) - Above(page)), screen |-> Shown(page)]
  PROVE  AdjustVis(t) = Plain(NewLine(page))
<1> DEFINE n == Len(page.rows)
<1>1. n \in Nat
  BY LenProperties
<1>2. t.pos = width * (n - Above(page)) /\ t.screen = Shown(page)
      /\ t = [pos |-> t.pos, screen |-> t.screen]
  OBVIOUS
<1>3. CASE n < height
  <2>1. /\ Above(page) = 0 /\ Shown(NewLine(page)) = Shown(page)
        /\ Here(NewLine(page)) = width * n /\ width * n < total
    BY <1>1, <1>3, NewLineRoom
  <2>2. t.pos = width * n
    <3>1. n - Above(page) = n
      BY <1>1, <2>1
    <3> HIDE DEF n
    <3> QED BY <1>2, <3>1
  <2> HIDE DEF n
  <2>3. AdjustVis(t) = t
    BY <2>1, <2>2 DEF AdjustVis
  <2> QED BY <1>2, <2>1, <2>2, <2>3 DEF Plain
<1>4. CASE ~(n < height)
  <2>1. /\ width * (n - Above(page)) = total
        /\ Here(NewLine(page)) = total - width
        /\ Shown(NewLine(page)) = [i \in Cells |-> IF i + width < total THEN Shown(page)[i + width]
                                                   ELSE Blank]
    BY <1>1, <1>4, Widths, NewLineScrolls
  <2>2. t.pos = total
    BY <1>2, <2>1
  <2> DEFINE rows == 1 + ((t.pos - total) \div width)
             from == rows * width
  <2>3. rows = 1
    <3>1. 0 \div width = 0
      BY Widths
    <3>2. t.pos - total = 0
      BY <2>2, Widths
    <3> QED BY <3>1, <3>2
  <2>4. from = width
    BY <2>3, Widths
  <2>5. AdjustVis(t) = [pos |-> t.pos - from, screen |->
          [i \in Cells |-> IF i + from < total THEN t.screen[i + from] ELSE Blank]]
    BY <2>2, Widths DEF AdjustVis
  <2> HIDE DEF rows, from, n
  <2> QED BY <1>2, <2>1, <2>2, <2>4, <2>5 DEF Plain
<1> QED BY <1>3, <1>4

(* A character that is struck, on the screen.                              *)
LEMMA Strike ==
  ASSUME NEW page, PageType(page), NEW b \in 0 .. 255
  PROVE  /\ Above(Struck(page, b)) = Above(page)
         /\ [Shown(page) EXCEPT ![Here(page)] = [text |-> b, format |-> \h07]]
              = Shown(Struck(page, b))
<1> DEFINE u == Struck(page, b)
           n == Len(page.rows)
           a == Above(page)
           here == Here(page)
<1>1. /\ u.rows \in Seq(Row) /\ Len(u.rows) = n
      /\ \A i \in 1 .. n : \A j \in 0 .. width - 1 :
           /\ i = n /\ j = page.col => u.rows[i][j] = b
           /\ ~(i = n /\ j = page.col) => u.rows[i][j] = page.rows[i][j]
  <2> HIDE DEF u, n
  <2>1. Struck(page, b).rows \in Seq(Row) /\ Len(Struck(page, b).rows) = Len(page.rows)
    BY StruckPage
  <2>2. \A i \in 1 .. Len(page.rows) : \A j \in 0 .. width - 1 :
          /\ i = Len(page.rows) /\ j = page.col => Struck(page, b).rows[i][j] = b
          /\ ~(i = Len(page.rows) /\ j = page.col) =>
               Struck(page, b).rows[i][j] = page.rows[i][j]
    BY StruckPage, ZenonT(40)
  <2> QED BY <2>1, <2>2 DEF u, n
<1> HIDE DEF u
<1>2. Above(u) = a
  BY <1>1 DEF Above
<1>3. /\ a \in Nat /\ n \in Nat /\ 0 < n /\ n - a - 1 \in 0 .. height - 1 /\ here \in Cells
      /\ here \div width = n - a - 1 /\ here % width = page.col
      /\ page.col \in 0 .. width - 1 /\ here = width * (n - a - 1) + page.col
  BY HereIs DEF PageType, Here
<1> HIDE DEF here, a
<1>4. ASSUME NEW i \in Cells
      PROVE  TextAt(u, i) = IF i = here THEN b ELSE TextAt(page, i)
  <2> DEFINE q == i \div width
             c == i % width
             r == a + q + 1
  <2>1. q \in 0 .. height - 1 /\ c \in 0 .. width - 1 /\ i = width * q + c
    BY CellIs
  <2>2. TextAt(page, i) = IF r <= n THEN page.rows[r][c] ELSE Space
    BY DEF TextAt, a
  <2>3. TextAt(u, i) = IF r <= n THEN u.rows[r][c] ELSE Space
    BY <1>1, <1>2 DEF TextAt
  <2>4. i = here <=> (r = n /\ c = page.col)
    <3>1. ASSUME i = here PROVE r = n /\ c = page.col
      <4>1. q = n - a - 1 /\ c = page.col
        BY <1>3, <3>1
      <4> HIDE DEF q, c, n
      <4> QED BY <1>3, <4>1
    <3>2. ASSUME r = n, c = page.col PROVE i = here
      <4>1. q = n - a - 1
        <5> HIDE DEF q, c, n
        <5> QED BY <1>3, <2>1, <3>2
      <4> HIDE DEF q, n
      <4> QED BY <1>3, <2>1, <3>2, <4>1
    <3> QED BY <3>1, <3>2
  <2>5. r \in Nat /\ 1 <= r
    <3> HIDE DEF q, c, n
    <3> QED BY <1>3, <2>1, Widths
  <2> HIDE DEF q, c, r, n
  <2>6. CASE r <= n
    <3>1. r \in 1 .. n
      BY <1>3, <2>5, <2>6
    <3> QED BY <1>1, <2>1, <2>2, <2>3, <2>4, <2>6, <3>1
  <2>7. CASE ~(r <= n)
    <3>1. i # here
      BY <1>3, <2>4, <2>5, <2>7
    <3> QED BY <2>2, <2>3, <2>7, <3>1
  <2> QED BY <2>6, <2>7
<1> DEFINE s == [Shown(page) EXCEPT ![here] = [text |-> b, format |-> \h07]]
<1>5. ASSUME NEW i \in Cells PROVE s[i] = [text |-> TextAt(u, i), format |-> \h07]
  BY <1>3, <1>4 DEF Shown
<1>6. s = [i \in Cells |-> s[i]]
  BY DEF Shown
<1> HIDE DEF s
<1>7. s = Shown(u)
  BY <1>5, <1>6 DEF Shown
<1> QED BY <1>2, <1>7 DEF u, a, here, s

(* A cell that is put at the position.                                     *)
LEMMA CellPut ==
  ASSUME NEW C, NEW s \in [pos : Cells, screen : [Cells -> C]], NEW cell \in C
  PROVE  [s EXCEPT !.pos = @ + 1, !.screen[s.pos] = cell]
           = [pos |-> s.pos + 1, screen |-> [s.screen EXCEPT ![s.pos] = cell]]
<1> DEFINE v == [s EXCEPT !.pos = @ + 1]
<1>1. [s EXCEPT !.pos = @ + 1, !.screen[s.pos] = cell] = [v EXCEPT !.screen[s.pos] = cell]
  OBVIOUS
<1>2. v = [pos |-> s.pos + 1, screen |-> s.screen]
  OBVIOUS
<1>3. s.screen \in [Cells -> C] /\ s.pos \in Cells
  OBVIOUS
<1> HIDE DEF v
<1>4. v.screen = s.screen
  BY <1>2
<1>5. [v EXCEPT !.screen[s.pos] = cell] = [v EXCEPT !.screen = [v.screen EXCEPT ![s.pos] = cell]]
  BY <1>2, <1>3
<1> QED BY <1>1, <1>2, <1>4, <1>5

(* A byte that the driver is given is inked on the paper.                  *)
LEMMA WriteShown ==
  ASSUME NEW page, PageType(page), NEW b \in 0 .. 255
  PROVE  WriteCodePoint(Plain(page), b) = Plain(Inked(page, b))
<1> DEFINE t == Plain(page)
           n == Len(page.rows)
           a == Above(page)
<1>1. t.pos = Here(page) /\ t.screen = Shown(page) /\ t = [pos |-> t.pos, screen |-> t.screen]
  BY DEF Plain
<1>2. /\ a \in Nat /\ n \in Nat /\ 0 < n /\ n - a - 1 \in 0 .. height - 1 /\ Here(page) \in Cells
      /\ Here(page) % width = page.col
      /\ page.col \in 0 .. width - 1 /\ Here(page) = width * (n - a - 1) + page.col
      /\ page.rows \in Seq(Row)
  BY HereIs DEF PageType, Here
<1>3. /\ width * (n - a - 1) \in Nat
      /\ width * (n - a) = width * (n - a - 1) + width
  <2> DEFINE q == n - a - 1
  <2>1. q \in Nat /\ n - a = q + 1
    BY <1>2, Widths
  <2> HIDE DEF q
  <2>2. width * q \in Nat /\ width * (q + 1) = width * q + width
    BY <2>1, Widths
  <2> QED BY <2>1, <2>2 DEF q
<1>4. LineStart(t) = width * (n - a - 1)
  <2>1. t.pos % width = page.col
    BY <1>1, <1>2
  <2> DEFINE x == width * (n - a - 1)
  <2>2. x \in Nat /\ Here(page) = x + page.col /\ page.col \in Nat
    BY <1>2, <1>3, Widths
  <2> HIDE DEF t, x
  <2>3. LineStart(t) = x
    BY <1>1, <2>1, <2>2 DEF LineStart
  <2> QED BY <2>3 DEF x
<1>5. LF # CR /\ LF \notin 32 .. 126 /\ CR \notin 32 .. 126
  BY DEF LF, CR
<1> HIDE DEF t, n, a
<1>6. CASE b = LF
  <2> DEFINE w == [t EXCEPT !.pos = LineStart(t) + width]
  <2>1. w = [pos |-> width * (n - a), screen |-> Shown(page)]
    BY <1>1, <1>3, <1>4
  <2>2. AdjustVis(w) = Plain(NewLine(page))
    <3> HIDE DEF w
    <3> QED BY <1>2, <2>1, Scrolled DEF n, a
  <2>3. WriteCodePoint(t, b) = AdjustVis(w)
    BY <1>5, <1>6 DEF WriteCodePoint
  <2> QED BY <1>6, <2>2, <2>3 DEF Inked, t
<1>7. CASE b = CR
  <2> DEFINE u == [page EXCEPT !.col = 0]
  <2>1. u.rows = page.rows /\ u.col = 0
    BY DEF PageType
  <2> HIDE DEF u
  <2>2. Above(u) = Above(page) /\ Here(u) = width * (n - a - 1)
    BY <1>2, <1>3, <2>1 DEF Above, Here, n, a
  <2>3. Shown(u) = Shown(page)
    <3>1. \A i \in Cells : TextAt(u, i) = TextAt(page, i)
      BY <2>1, <2>2 DEF TextAt
    <3> QED BY <3>1, SameShown
  <2>4. WriteCodePoint(t, b) = [t EXCEPT !.pos = LineStart(t)]
    BY <1>5, <1>7 DEF WriteCodePoint
  <2>5. Inked(page, b) = u
    BY <1>5, <1>7 DEF Inked, u
  <2> QED BY <1>1, <1>4, <2>2, <2>3, <2>4, <2>5 DEF Plain, t
<1>8. CASE b \in 32 .. 126
  <2> DEFINE w == [t EXCEPT !.pos = @ + 1, !.screen[t.pos] = [text |-> b, format |-> \h07]]
             u == Struck(page, b)
  <2>1. b # LF /\ b # CR
    BY <1>5, <1>8
  <2>2. WriteCodePoint(t, b) = AdjustVis(w)
    BY <1>8, <2>1 DEF WriteCodePoint
  <2>3. Above(u) = a /\ [Shown(page) EXCEPT ![Here(page)] = [text |-> b, format |-> \h07]] = Shown(u)
    BY Strike DEF a
  <2>4. w = [pos |-> Here(page) + 1, screen |-> Shown(u)]
    <3> DEFINE C == [text : {TextAt(page, i) : i \in Cells} \cup {b}, format : {\h07}]
    <3>2. t \in [pos : Cells, screen : [Cells -> C]]
      <4>1. Shown(page) \in [Cells -> C]
        BY DEF Shown
      <4> HIDE DEF C
      <4> QED BY <1>1, <1>2, <4>1
    <3>4. [text |-> b, format |-> \h07] \in C
      OBVIOUS
    <3> HIDE DEF C
    <3>3. [t EXCEPT !.pos = @ + 1, !.screen[t.pos] = [text |-> b, format |-> \h07]]
            = [pos |-> t.pos + 1, screen |-> [t.screen EXCEPT ![t.pos] = [text |-> b, format |-> \h07]]]
      BY <3>2, <3>4, CellPut
    <3> QED BY <1>1, <2>3, <3>3
  <2>5. /\ u.rows \in Seq(Row) /\ Len(u.rows) = n /\ u.col = page.col + 1
        /\ page.col + 1 # width => PageType(u)
    BY StruckPage DEF n
  <2> HIDE DEF w, u
  <2>6. CASE page.col + 1 = width
    <3>1. Here(page) + 1 = width * (n - a)
      <4> DEFINE x == width * (n - a - 1)
             y == width * (n - a)
      <4>1. x \in Nat /\ Here(page) = x + page.col /\ y = x + width /\ page.col \in Nat
        BY <1>2, <1>3, Widths
      <4> HIDE DEF x, y
      <4>2. Here(page) + 1 = y
        BY <2>6, <4>1
      <4> QED BY <4>2 DEF y
    <3>2. w = [pos |-> width * (Len(u.rows) - Above(u)), screen |-> Shown(u)]
      BY <2>3, <2>4, <2>5, <3>1
    <3>3. AdjustVis(w) = Plain(NewLine(u))
      BY <1>2, <2>5, <3>2, Scrolled
    <3> QED BY <1>8, <2>1, <2>2, <2>6, <3>3 DEF Inked, t, u
  <2>7. CASE page.col + 1 # width
    <3>1. Here(u) = Here(page) + 1
      <4> DEFINE x == width * (n - a - 1)
      <4>1. Here(u) = x + (page.col + 1) /\ Here(page) = x + page.col
        BY <1>2, <2>3, <2>5 DEF Here
      <4>2. x \in Nat
        BY <1>3
      <4> HIDE DEF x
      <4> QED BY <1>2, <4>1, <4>2
    <3>2. Here(page) + 1 < total
      <4>1. Here(u) \in Cells
        BY <2>5, <2>7, HereIs
      <4> QED BY <3>1, <4>1, Widths DEF Cells
    <3>3. AdjustVis(w) = w
      BY <2>4, <3>2 DEF AdjustVis
    <3> QED BY <1>8, <2>1, <2>2, <2>4, <2>7, <3>1, <3>3 DEF Inked, Plain, t, u
  <2> QED BY <2>6, <2>7
<1>9. CASE b # LF /\ b # CR /\ b \notin 32 .. 126
  BY <1>9 DEF WriteCodePoint, Inked, t
<1> QED BY <1>6, <1>7, <1>8, <1>9 DEF t

(* The cursor, put on the screen and taken off it.                         *)
LEMMA Cursor ==
  ASSUME NEW page, PageType(page)
  PROVE  /\ Toggled(Plain(page)) =
              [pos |-> Here(page),
               screen |-> [Shown(page) EXCEPT ![Here(page)].format = \h70]]
         /\ Toggled(Toggled(Plain(page))) = Plain(page)
<1> DEFINE h == Here(page)
           s == Shown(page)
<1>1. h \in Cells
  BY HereIs
<1>2. s \in [Cells -> [text : {TextAt(page, i) : i \in Cells}, format : {\h07}]]
  BY DEF Shown
<1>3. Plain(page) = [pos |-> h, screen |-> s]
  BY DEF Plain
<1> HIDE DEF h, s
<1> DEFINE w == [s EXCEPT ![h].format = \h70]
<1>4. Toggled([pos |-> h, screen |-> s]) = [pos |-> h, screen |-> w]
  <2>1. s[h].format = \h07 /\ \h07 # \h70
    BY <1>1, <1>2
  <2> QED BY <2>1 DEF Toggled
<1>5. Toggled([pos |-> h, screen |-> w]) = [pos |-> h, screen |-> s]
  <2>1. w[h].format = \h70 /\ DOMAIN w = Cells
    BY <1>1, <1>2
  <2>2. Toggled([pos |-> h, screen |-> w]) = [pos |-> h, screen |-> [w EXCEPT ![h].format = \h07]]
    BY <2>1 DEF Toggled
  <2>3. [w EXCEPT ![h].format = \h07] = s
    BY <1>1, <1>2
  <2> QED BY <2>2, <2>3
<1> HIDE DEF w
<1> QED BY <1>3, <1>4, <1>5 DEF h, s, w

(* Under the terminal's lock the screen is that of the paper and of what   *)
(* has been written of the call, without the cursor; else it is that of    *)
(* the paper, with it.                                                     *)
Putting(c) == paper \o SubSeq(c.area, Offset(c.call) + 1, Offset(c.call) + c.moved)
ScreenInv ==
  /\ paper \in Seq(0 .. 255)
  /\ accessLock = Nobody => term = Toggled(Plain(Printed(paper)))
  /\ \A p \in Process : proc[p].pc = "put" => term = Plain(Printed(Putting(proc[p])))

(* With no call writing, ScreenInv is the property.                        *)
LEMMA ScreenShown ==
  ASSUME ScreenInv
  PROVE  ScreenShowsPaper
<1> DEFINE page == Printed(paper)
           here == Here(page)
<1>1. SUFFICES ASSUME accessLock = Nobody
               PROVE  term = [pos |-> here,
                              screen |-> [i \in Cells |->
                                [text |-> TextAt(page, i),
                                 format |-> IF i = here THEN \h70 ELSE \h07]]]
  BY Zenon DEF ScreenShowsPaper, TextAt, Here, Above
<1>2. PageType(page)
  BY LenProperties, PrintedPage DEF ScreenInv
<1>3. term = Toggled(Plain(page))
  BY <1>1 DEF ScreenInv
<1> HIDE DEF page
<1>4. term = [pos |-> here, screen |-> [Shown(page) EXCEPT ![here].format = \h70]]
  BY <1>2, <1>3, Cursor
<1>5. here \in Cells
  BY <1>2, HereIs
<1> HIDE DEF here
<1> DEFINE s == [Shown(page) EXCEPT ![here].format = \h70]
<1>6. s = [i \in Cells |-> s[i]]
  BY DEF Shown
<1>7. ASSUME NEW i \in Cells
      PROVE  s[i] = [text |-> TextAt(page, i), format |-> IF i = here THEN \h70 ELSE \h07]
  BY <1>5 DEF Shown
<1> HIDE DEF s
<1>8. s = [i \in Cells |-> [text |-> TextAt(page, i), format |-> IF i = here THEN \h70 ELSE \h07]]
  BY <1>6, <1>7
<1> QED BY <1>4, <1>8 DEF s

(* The screen of a terminal that was just initialized.                     *)
LEMMA ScreenStart ==
  ASSUME Init
  PROVE  ScreenInv
<1>1. /\ paper = <<>> /\ \A p \in Process : proc[p].pc = "user"
      /\ term = Toggled([pos |-> 0, screen |-> [i \in Cells |-> Blank]])
  BY DEF Init, TerminalInit, AtRest
<1>2. Plain(Fresh) = [pos |-> 0, screen |-> [i \in Cells |-> Blank]]
  <2>1. PageType(Fresh) /\ Fresh.rows = <<BlankRow>> /\ Fresh.col = 0
    BY FreshPage
  <2>2. Len(Fresh.rows) = 1 /\ Fresh.rows[1] = BlankRow
    BY <2>1
  <2>3. Above(Fresh) = 0
    BY <2>2, Widths DEF Above
  <2>4. Here(Fresh) = 0
    BY <2>1, <2>2, <2>3, Widths DEF Here
  <2>5. ASSUME NEW i \in Cells PROVE TextAt(Fresh, i) = Space
    <3> DEFINE q == i \div width
               c == i % width
    <3>1. q \in 0 .. height - 1 /\ c \in 0 .. width - 1
      BY CellIs
    <3>2. TextAt(Fresh, i) = IF q + 1 <= 1 THEN Fresh.rows[q + 1][c] ELSE Space
      <4>1. Above(Fresh) + q + 1 = q + 1
        BY <2>3, <3>1
      <4> HIDE DEF c
      <4> QED BY <2>2, <4>1 DEF TextAt, c
    <3> HIDE DEF q, c
    <3>3. CASE q = 0
      <4>1. BlankRow[c] = Space
        BY <3>1 DEF BlankRow
      <4> QED BY <2>2, <3>2, <3>3, <4>1
    <3>4. CASE q # 0
      <4>1. ~(q + 1 <= 1)
        BY <3>1, <3>4, Widths
      <4> QED BY <3>2, <4>1
    <3> QED BY <3>3, <3>4
  <2>6. Shown(Fresh) = [i \in Cells |-> Blank]
    BY <2>5 DEF Shown, Blank
  <2> QED BY <2>4, <2>6 DEF Plain
<1>3. Printed(paper) = Fresh
  BY <1>1, PrintedNone
<1>4. paper \in Seq(0 .. 255)
  BY <1>1
<1> QED BY <1>1, <1>2, <1>3, <1>4 DEF ScreenInv

(* The steps of a write.                                                   *)
LEMMA WriteScreen ==
  ASSUME IInv, ScreenInv, NEW p \in Process, Write(p)
  PROVE  ScreenInv'
<1>1. /\ proc[p].pc = "driver" /\ accessLock = Nobody /\ accessLock' = p
      /\ term' = Toggled(term) /\ proc' = [proc EXCEPT ![p].pc = "put"] /\ paper' = paper
  BY DEF Write, Calls, In, Goto
<1>2. CallsInv /\ FitsInv /\ p # Nobody /\ proc[p].moved = 0 /\ proc[p] \in CallType
  BY <1>1, ConsoleAssumption DEF IInv, CallsInv, FitsInv, CallFits
<1>3. \A q \in Process : proc[q].pc # "put"
  BY <1>1, ConsoleAssumption, <1>2 DEF CallsInv, LockInv
<1>4. paper \in Seq(0 .. 255) /\ term = Toggled(Plain(Printed(paper)))
  BY <1>1 DEF ScreenInv
<1>5. PageType(Printed(paper))
  BY <1>4, LenProperties, PrintedPage
<1>6. term' = Plain(Printed(paper))
  BY <1>1, <1>4, <1>5, Cursor
<1>7. ASSUME NEW q \in Process, proc'[q].pc = "put"
      PROVE  Putting(proc[q])' = paper
  <2>1. proc \in [Process -> CallType]
    BY <1>2 DEF FitsInv
  <2>2. q = p
    BY <1>1, <1>3, <1>7, <2>1
  <2>3. proc'[q].moved = 0 /\ proc'[q].area = proc[p].area /\ proc'[q].call = proc[p].call
    BY <1>1, <1>2, <2>1, <2>2 DEF CallType
  <2> DEFINE o == Offset(proc[p].call)
             a == proc[p].area
  <2>4. Putting(proc[q])' = paper \o SubSeq(a, o + 1, o + 0)
    BY <1>1, <2>3 DEF Putting, Offset
  <2>5. o \in Int /\ a \in Seq(0 .. 255)
    <3>1. proc[p].call.addr \in Int
      BY <1>1, <1>2, Sizes DEF CallFits, FitsInv
    <3> QED BY <1>2, <3>1, Sizes DEF Offset, CallType
  <2> HIDE DEF o, a
  <2>6. SubSeq(a, o + 1, o + 0) = <<>>
    BY <2>5
  <2> QED BY <1>4, <2>4, <2>6, ConcatEmptySeq
<1> QED BY <1>1, <1>2, <1>4, <1>6, <1>7 DEF ScreenInv

LEMMA Grouped ==
  ASSUME NEW s \in Seq(0 .. 255), NEW t \in Seq(0 .. 255), NEW u \in Seq(0 .. 255)
  PROVE  (s \o t) \o u = s \o (t \o u)
BY ConcatAssociative

(* The bytes put of a call, and one more.                                  *)
LEMMA OneMore ==
  ASSUME NEW s \in Seq(0 .. 255), NEW a \in Seq(0 .. 255), NEW o \in Nat, NEW m \in Nat,
         o + m + 1 <= Len(a)
  PROVE  /\ s \o SubSeq(a, o + 1, o + m) \in Seq(0 .. 255)
         /\ s \o SubSeq(a, o + 1, o + (m + 1)) = Append(s \o SubSeq(a, o + 1, o + m), a[o + m + 1])
         /\ a[o + m + 1] \in 0 .. 255
<1> DEFINE u == SubSeq(a, o + 1, o + m)
           v == SubSeq(a, o + 1, o + (m + 1))
           b == a[o + m + 1]
<1>1. Len(a) \in Nat /\ a \in [1 .. Len(a) -> 0 .. 255]
  BY LenProperties
<1>2. b \in 0 .. 255
  <2>1. o + m + 1 \in 1 .. Len(a)
    BY <1>1
  <2> HIDE DEF u, v
  <2> QED BY <1>1, <2>1
<1>3. /\ u \in Seq(0 .. 255) /\ Len(u) = m
      /\ \A i \in 1 .. m : u[i] = a[o + i]
  <2> DEFINE f == o + 1
             l == o + m
  <2>1. /\ f \in Int /\ l \in Int /\ l - f + 1 = m /\ (f <= l <=> 0 < m)
        /\ \A i \in 1 .. m : f + i - 1 = o + i
    OBVIOUS
  <2>2. \A i \in f .. l : a[i] \in 0 .. 255
    <3>1. \A i \in f .. l : i \in 1 .. Len(a)
      BY <1>1
    <3> HIDE DEF f, l, u, v
    <3> QED BY <1>1, <3>1
  <2> HIDE DEF f, l
  <2>3. /\ SubSeq(a, f, l) \in Seq(0 .. 255)
        /\ Len(SubSeq(a, f, l)) = IF f <= l THEN l - f + 1 ELSE 0
        /\ \A i \in 1 .. l - f + 1 : SubSeq(a, f, l)[i] = a[f + i - 1]
    BY <2>1, <2>2, SubSeqProperties
  <2>4. u = SubSeq(a, f, l)
    BY DEF f, l
  <2> HIDE DEF u
  <2>5. Len(u) = m
    BY <2>1, <2>3, <2>4
  <2> QED BY <2>1, <2>3, <2>4, <2>5
<1>4. /\ v \in Seq(0 .. 255) /\ Len(v) = m + 1
      /\ \A i \in 1 .. m + 1 : v[i] = a[o + i]
  <2> DEFINE f == o + 1
             l == o + (m + 1)
  <2>1. /\ f \in Int /\ l \in Int /\ l - f + 1 = m + 1 /\ f <= l
        /\ \A i \in 1 .. m + 1 : f + i - 1 = o + i
    OBVIOUS
  <2>2. \A i \in f .. l : a[i] \in 0 .. 255
    <3>1. \A i \in f .. l : i \in 1 .. Len(a)
      BY <1>1
    <3> HIDE DEF f, l, u, v
    <3> QED BY <1>1, <3>1
  <2> HIDE DEF f, l
  <2>3. /\ SubSeq(a, f, l) \in Seq(0 .. 255)
        /\ Len(SubSeq(a, f, l)) = IF f <= l THEN l - f + 1 ELSE 0
        /\ \A i \in 1 .. l - f + 1 : SubSeq(a, f, l)[i] = a[f + i - 1]
    BY <2>1, <2>2, SubSeqProperties
  <2>4. v = SubSeq(a, f, l)
    BY DEF f, l
  <2> HIDE DEF v
  <2> QED BY <2>1, <2>3, <2>4
<1>5. v[m + 1] = b
  <2>1. o + (m + 1) = o + m + 1 /\ m + 1 \in 1 .. m + 1
    OBVIOUS
  <2> HIDE DEF v
  <2> QED BY <1>4, <2>1
<1> HIDE DEF u, v, b
<1>6. v = Append(u, b)
  <2>1. Append(u, b) \in Seq(0 .. 255) /\ Len(Append(u, b)) = m + 1
        /\ Append(u, b)[m + 1] = b /\ \A i \in 1 .. m : Append(u, b)[i] = u[i]
    BY <1>2, <1>3
  <2>2. \A i \in 1 .. m + 1 : v[i] = Append(u, b)[i]
    <3>1. \A i \in 1 .. m + 1 : i = m + 1 \/ i \in 1 .. m
      OBVIOUS
    <3> QED BY <1>3, <1>4, <1>5, <2>1, <3>1
  <2> DEFINE w == Append(u, b)
  <2> HIDE DEF w
  <2>3. v \in [1 .. m + 1 -> 0 .. 255] /\ w \in [1 .. m + 1 -> 0 .. 255]
    <3>1. v \in [1 .. Len(v) -> 0 .. 255] /\ w \in [1 .. Len(w) -> 0 .. 255]
      BY <1>4, <2>1, LenProperties, ZenonT(40) DEF w
    <3> QED BY <1>4, <2>1, <3>1 DEF w
  <2> QED BY <2>2, <2>3 DEF w
<1>7. s \o Append(u, b) = Append(s \o u, b)
  <2>1. <<b>> \in Seq(0 .. 255) /\ s \o u \in Seq(0 .. 255)
    BY <1>2, <1>3
  <2>2. Append(u, b) = u \o <<b>> /\ Append(s \o u, b) = (s \o u) \o <<b>>
    BY <1>2, <1>3, <2>1, AppendIsConcat, ZenonT(40)
  <2>3. s \in Seq(0 .. 255) /\ u \in Seq(0 .. 255)
    BY <1>3
  <2>4. (s \o u) \o <<b>> = s \o (u \o <<b>>)
    BY <2>1, <2>3, Grouped, SMTT(40)
  <2> QED BY <2>2, <2>4
<1>8. s \o u \in Seq(0 .. 255)
  BY <1>3
<1>9. s \o SubSeq(a, o + 1, o + m) = s \o u /\ s \o SubSeq(a, o + 1, o + (m + 1)) = s \o v
  BY Zenon DEF u, v
<1> QED BY <1>2, <1>6, <1>7, <1>8, <1>9 DEF b

LEMMA PrintedAppend ==
  ASSUME NEW s \in Seq(0 .. 255), NEW b \in 0 .. 255
  PROVE  Printed(Append(s, b)) = Inked(Printed(s), b) /\ PageType(Printed(s))
<1> DEFINE n == Len(s)
           t == Append(s, b)
<1>1. n \in Nat /\ s \in [1 .. n -> 0 .. 255] /\ PageType(Printed(s))
  BY LenProperties, PrintedPage, ZenonT(40)
<1>2. t \in Seq(0 .. 255) /\ Len(t) = n + 1 /\ t[n + 1] = b /\ \A i \in 1 .. n : t[i] = s[i]
  BY <1>1
<1> HIDE DEF n, t
<1>3. t \in [1 .. n + 1 -> 0 .. 255]
  <2>1. t \in [1 .. Len(t) -> 0 .. 255]
    BY <1>2, LenProperties, ZenonT(40)
  <2> QED BY <1>2, <2>1
<1>4. Printed(t) = Inked(Printed(s), t[n + 1])
  BY <1>1, <1>2, <1>3, PrintedMore
<1> QED BY <1>1, <1>2, <1>4 DEF t

LEMMA PutScreen ==
  ASSUME IInv, ScreenInv, NEW p \in Process, Put(p)
  PROVE  ScreenInv'
<1> DEFINE a == proc[p].area
           o == Offset(proc[p].call)
           m == proc[p].moved
           b == a[o + m + 1]
<1>1. /\ In(p, "put") /\ m < proc[p].call.count /\ term' = WriteCodePoint(term, b)
      /\ proc' = [proc EXCEPT ![p].moved = @ + 1] /\ paper' = paper /\ accessLock' = accessLock
  BY DEF Put, Of
<1>2. /\ proc[p].pc = "put" /\ proc[p] \in CallType /\ CallFits(proc[p]) /\ proc[p].call \in Request
      /\ proc[p].call.count \in Nat /\ m \in Nat /\ FitsInv /\ CallsInv
  BY <1>1, Finds DEF Labels
<1>3. o \in Nat /\ a \in Seq(0 .. 255) /\ o + m + 1 <= Len(a)
  <2>1. ~Fault(proc[p].call) /\ proc[p].call.nr = "write"
        /\ Len(a) = PageSize * Cardinality(PagesOf(proc[p].call))
    BY <1>2 DEF CallFits, Holds
  <2>2. o + proc[p].call.count <= Len(a) /\ o \in Nat
    BY <1>2, <2>1, Span, OffsetIs
  <2>3. a \in Seq(0 .. 255)
    BY <1>2 DEF CallType
  <2>4. Len(a) \in Nat
    BY <2>3, LenProperties
  <2> HIDE DEF a, o, m
  <2> QED BY <1>1, <1>2, <2>2, <2>3, <2>4
<1>4. accessLock = p /\ p # Nobody /\ \A q \in Process \ {p} : proc[q].pc # "put"
  BY <1>2, ConsoleAssumption DEF CallsInv, LockInv
<1>5. paper \in Seq(0 .. 255) /\ term = Plain(Printed(Putting(proc[p])))
  BY <1>2 DEF ScreenInv
<1> DEFINE s == Putting(proc[p])
<1>6. s = paper \o SubSeq(a, o + 1, o + m)
  BY DEF Putting
<1>7. proc'[p].pc = "put" /\ Putting(proc[p])' = paper \o SubSeq(a, o + 1, o + (m + 1))
  <2>1. proc'[p] = [proc[p] EXCEPT !.moved = m + 1]
    BY <1>1, <1>2 DEF FitsInv
  <2>2. /\ proc'[p].moved = m + 1 /\ proc'[p].area = a /\ proc'[p].call = proc[p].call
        /\ proc'[p].pc = "put"
    BY <1>2, <2>1 DEF CallType
  <2> QED BY <1>1, <2>2 DEF Putting, Offset
<1> HIDE DEF a, o, m, b, s
<1>8. s \in Seq(0 .. 255) /\ b \in 0 .. 255 /\ Putting(proc[p])' = Append(s, b)
  <2>1. /\ paper \o SubSeq(a, o + 1, o + m) \in Seq(0 .. 255)
        /\ paper \o SubSeq(a, o + 1, o + (m + 1))
             = Append(paper \o SubSeq(a, o + 1, o + m), a[o + m + 1])
        /\ a[o + m + 1] \in 0 .. 255
    BY <1>2, <1>3, <1>5, OneMore, ZenonT(40)
  <2> QED BY <1>6, <1>7, <2>1 DEF b
<1>9. Printed(Append(s, b)) = Inked(Printed(s), b) /\ PageType(Printed(s))
  BY <1>8, PrintedAppend
<1>10. term' = Plain(Printed(Append(s, b)))
  <2>1. WriteCodePoint(Plain(Printed(s)), b) = Plain(Inked(Printed(s), b))
    BY <1>8, <1>9, WriteShown
  <2> QED BY <1>1, <1>5, <1>9, <2>1 DEF s
<1>11. ASSUME NEW q \in Process, proc'[q].pc = "put" PROVE q = p
  BY <1>1, <1>2, <1>4, <1>11 DEF FitsInv
<1> QED BY <1>1, <1>4, <1>5, <1>8, <1>10, <1>11 DEF ScreenInv

LEMMA WrittenScreen ==
  ASSUME IInv, ScreenInv, NEW p \in Process, Written(p)
  PROVE  ScreenInv'
<1>1. /\ In(p, "put") /\ proc[p].moved = proc[p].call.count /\ term' = Toggled(term)
      /\ accessLock' = Nobody /\ paper' = paper \o MovedBytes(p)
      /\ proc' = [proc EXCEPT ![p].pc = "retDesc", ![p].status = "done"]
  BY DEF Written, Ends, Of
<1>2. /\ proc[p].pc = "put" /\ proc[p] \in CallType /\ CallFits(proc[p]) /\ proc[p].call \in Request
      /\ proc[p].call.count \in Nat /\ FitsInv /\ CallsInv
  BY <1>1, Finds DEF Labels
<1>3. \A q \in Process \ {p} : proc[q].pc # "put"
  BY <1>2, ConsoleAssumption DEF CallsInv, LockInv
<1>4. paper' = Putting(proc[p])
  BY <1>1 DEF Putting, MovedBytes, Of
<1>5. paper' \in Seq(0 .. 255)
  <2>1. paper \in Seq(0 .. 255) /\ proc[p].area \in Seq(0 .. 255)
    BY <1>2 DEF ScreenInv, CallType
  <2> DEFINE o == Offset(proc[p].call)
             m == proc[p].moved
             a == proc[p].area
  <2>2. ~Fault(proc[p].call) /\ proc[p].call.nr = "write"
        /\ Len(a) = PageSize * Cardinality(PagesOf(proc[p].call))
    BY <1>2 DEF CallFits, Holds
  <2>3. o + m <= Len(a) /\ o \in Nat /\ m \in Nat
    BY <1>1, <1>2, <2>2, Span, OffsetIs
  <2>4. paper' = paper \o SubSeq(a, o + 1, o + m)
    BY <1>4 DEF Putting
  <2> HIDE DEF o, m, a
  <2>5. Len(a) \in Nat
    BY <2>1, LenProperties DEF a
  <2>6. SubSeq(a, o + 1, o + m) \in Seq(0 .. 255)
    <3>1. a \in [1 .. Len(a) -> 0 .. 255]
      BY <2>1, LenProperties DEF a
    <3>2. o + 1 \in Int /\ o + m \in Int /\ \A i \in o + 1 .. o + m : a[i] \in 0 .. 255
      <4>1. \A i \in o + 1 .. o + m : i \in 1 .. Len(a)
        BY <2>3, <2>5
      <4>2. o + 1 \in Int /\ o + m \in Int
        BY <2>3
      <4>3. \A i \in o + 1 .. o + m : a[i] \in 0 .. 255
        BY <3>1, <4>1
      <4> QED BY <4>2, <4>3
    <3> QED BY <3>2, SubSeqProperties
  <2> QED BY <2>1, <2>4, <2>6
<1>6. term' = Toggled(Plain(Printed(paper')))
  BY <1>1, <1>2, <1>4 DEF ScreenInv
<1>7. \A q \in Process : proc'[q].pc # "put"
  BY <1>1, <1>2, <1>3 DEF FitsInv, CallType
<1> QED BY <1>5, <1>6, <1>7 DEF ScreenInv

(* No other step touches the screen, the paper or a call that writes.      *)
LEMMA ScreenKept ==
  ASSUME ScreenInv, UNCHANGED output,
         \A q \in Process : proc'[q].pc = "put" => proc'[q] = proc[q]
  PROVE  ScreenInv'
<1>1. paper' = paper /\ term' = term /\ accessLock' = accessLock
  BY DEF output
<1>2. ASSUME NEW q \in Process, proc'[q].pc = "put"
      PROVE  proc[q].pc = "put" /\ Putting(proc[q])' = Putting(proc[q])
  BY <1>1, <1>2 DEF Putting, Offset
<1> QED BY <1>1, <1>2 DEF ScreenInv

(* A step of p that leaves the calls of the others alone and does not      *)
(* begin to put bytes on the screen.                                       *)
Beside(p) ==
  /\ \A q \in Process \ {p} : proc'[q] = proc[q]
  /\ proc'[p] = proc[p] \/ proc'[p].pc # "put"

LEMMA GoesAside ==
  ASSUME IInv, NEW p \in Process
  PROVE  /\ \A status, label : label # "put" /\ Ends(p, status, label) => Beside(p)
         /\ \A label : label # "put" /\ Goto(p, label) => Beside(p)
         /\ \A c : c.pc # "put" /\ Goes(p, c) => Beside(p)
         /\ UNCHANGED proc => Beside(p)
         /\ Back(p) # "put"
<1>1. proc \in [Process -> CallType]
  BY DEF IInv, CallsInv, FitsInv
<1>2. ASSUME NEW status, NEW label, label # "put", Ends(p, status, label) PROVE Beside(p)
  BY <1>1, <1>2 DEF Ends, Beside, CallType
<1>3. ASSUME NEW label, label # "put", Goto(p, label) PROVE Beside(p)
  BY <1>1, <1>3 DEF Goto, Beside, CallType
<1>4. ASSUME NEW c, c.pc # "put", Goes(p, c) PROVE Beside(p)
  BY <1>1, <1>4 DEF Goes, Beside
<1>5. UNCHANGED proc => Beside(p)
  BY DEF Beside
<1> QED BY <1>2, <1>3, <1>4, <1>5 DEF Back

LEMMA AsideScreen ==
  ASSUME ScreenInv, NEW p \in Process, UNCHANGED output, Beside(p)
  PROVE  ScreenInv'
<1>1. \A q \in Process : proc'[q].pc = "put" => proc'[q] = proc[q]
  BY DEF Beside
<1> QED BY <1>1, ScreenKept

LEMMA OtherSteps ==
  ASSUME IInv, NEW p \in Process,
         Steps(p), ~Write(p), ~Put(p), ~Written(p)
  PROVE  UNCHANGED output /\ Beside(p)
<1>1. proc \in [Process -> CallType]
  BY DEF IInv, CallsInv, FitsInv
<1>2. CASE GetUserMem(p)
  <2>1. UNCHANGED output
    BY <1>2 DEF GetUserMem
  <2>2. ASSUME proc' = [proc EXCEPT ![p].pc = "fetch", ![p].area = Passed(p)] PROVE Beside(p)
    <3> DEFINE x == Passed(p)
    <3>1. proc' = [proc EXCEPT ![p].pc = "fetch", ![p].area = x]
      BY <2>2
    <3> HIDE DEF x
    <3> QED BY <1>1, <3>1 DEF Beside, CallType
  <2> QED BY <1>2, <2>1, <2>2, GoesAside DEF GetUserMem, Stops
<1>3. CASE Fetch(p)
  <2>1. UNCHANGED output
    BY <1>3 DEF Fetch
  <2>2. ASSUME NEW k, proc' = [proc EXCEPT ![p].pc = "adjust", ![p].kfd = k] PROVE Beside(p)
    BY <1>1, <2>2 DEF Beside, CallType
  <2> QED BY <1>3, <2>1, <2>2, GoesAside DEF Fetch, Stops
<1>4. CASE Adjust(p)
  BY <1>4, GoesAside DEF Adjust
<1>5. CASE Read(p)
  BY <1>5, GoesAside DEF Read
<1>6. CASE Take(p)
  <2> DEFINE want == Of(p).count - proc[p].moved
             n == IF Len(kbd.bufTerm) >= want THEN want ELSE Len(kbd.bufTerm)
             at == Offset(Of(p)) + proc[p].moved
             area == [i \in DOMAIN proc[p].area |->
                       IF i - at \in 1 .. n THEN kbd.bufTerm[i - at] ELSE proc[p].area[i]]
             done == [proc[p] EXCEPT !.area = area, !.status = "done", !.moved = @ + n,
                                     !.pc = "retDesc"]
             on == [proc[p] EXCEPT !.area = area, !.moved = @ + n, !.pc = "poll"]
  <2>1. UNCHANGED output /\ (Goes(p, done) \/ Goes(p, on))
    BY <1>6 DEF Take, Of, Goes
  <2> HIDE DEF area, n
  <2>2. done.pc # "put" /\ on.pc # "put"
    BY <1>1 DEF CallType
  <2> HIDE DEF done, on
  <2> QED BY <2>1, <2>2, GoesAside
<1>7. CASE Poll(p)
  BY <1>7, GoesAside DEF Poll, Stops
<1>8. CASE Seek(p)
  BY <1>8, GoesAside DEF Seek
<1>9. CASE RetDesc(p)
  BY <1>9, GoesAside DEF RetDesc, Stops
<1>10. CASE RetMem(p)
  BY <1>10, GoesAside DEF RetMem, Leave, Goes, AtRest
<1>11. CASE Return(p)
  BY <1>11, GoesAside DEF Return, Leave, Goes, AtRest
<1> QED BY <1>2, <1>3, <1>4, <1>5, <1>6, <1>7, <1>8, <1>9, <1>10, <1>11 DEF Steps

LEMMA Screening ==
  ASSUME IInv, ScreenInv, [Next]_vars
  PROVE  ScreenInv'
<1>1. CASE BringsUp
  BY <1>1, ScreenKept DEF BringsUp
<1>2. CASE HitKey
  BY <1>2, ScreenKept DEF HitKey
<1>3. ASSUME NEW p \in Process, NEW req \in Request, Call(p, req) PROVE ScreenInv'
  <2> DEFINE c == [AtRest EXCEPT !.pc = IF req.nr = "lseek" THEN "fetch" ELSE "getMem",
                                 !.call = req, !.status = "asked"]
  <2>1. UNCHANGED output /\ Goes(p, c)
    BY <1>3 DEF Call, Goes
  <2>2. c.pc # "put"
    BY DEF AtRest
  <2> HIDE DEF c
  <2> QED BY <2>1, <2>2, GoesAside, AsideScreen
<1>4. ASSUME NEW p \in Process, Steps(p) PROVE ScreenInv'
  BY <1>4, WriteScreen, PutScreen, WrittenScreen, OtherSteps, AsideScreen
<1>5. ASSUME NEW p \in Process, NEW q \in Process, Fork(p, q) PROVE ScreenInv'
  BY <1>5, ScreenKept DEF Fork
<1>6. CASE UNCHANGED vars
  BY <1>6, ScreenKept DEF vars
<1> QED BY <1>1, <1>2, <1>3, <1>4, <1>5, <1>6 DEF Next, Programs

(* ScreenShowsPaper: whatever is written, whichever processes write it and *)
(* however their steps mix, between two writes the screen shows the last   *)
(* rows of all that was written, and the cursor after it.                  *)
THEOREM ScreenCorrect == Spec => []ScreenShowsPaper
<1>1. Init => ScreenInv
  BY ScreenStart
<1>2. IInv /\ ScreenInv /\ [Next]_vars => ScreenInv'
  BY Screening
<1>3. ScreenInv => ScreenShowsPaper
  BY ScreenShown
<1> QED BY <1>1, <1>2, <1>3, Invariance, PTL DEF Spec

=============================================================================
