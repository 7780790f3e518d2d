--------------------------- MODULE Teletype_proofs ---------------------------
(***************************************************************************)
(* What the keys and the calls of the console mean to programs, proved for *)
(* any number of keys and processes, any calls, pages and screen:          *)
(* ModifiersFollowKeys, and the refinement ImplementsTeletype.             *)
(*                                                                         *)
(* A key that is hit or let go changes Teletype's state at once, and the   *)
(* driver's only when the last of its bytes has been polled. What the two  *)
(* have in common is therefore said of the bytes still in the port         *)
(* (Pending): cut into the sequences of keys, they lead the driver from    *)
(* its record of the keyboard to that of a keyboard on which the keys in   *)
(* held are down, and they add to what was read, or is in the buffer, what *)
(* has been typed and is not there yet. FollowInv says this at each stage  *)
(* of the bring-up. KeysAssumption is what it needs of the keys: that the  *)
(* bytes of each decode to its code, and spell what Teletype says of it.   *)
(*                                                                         *)
(* ToldInv relates each call to the request that Teletype has of its       *)
(* process: whether it is still asked, what it has read or printed, and    *)
(* the memory it may still change. The steps at which a program or the     *)
(* paper can tell the difference are Teletype's steps; the others stutter. *)
(***************************************************************************)
EXTENDS Console_proofs

-----------------------------------------------------------------------------

(* The codes of the tables.                                                *)
LEMMA LetterDomain ==
  DOMAIN Letter = {\h1c, \h32, \h21, \h23, \h24, \h2b, \h34, \h33, \h43,
    \h3b, \h42, \h4b, \h3a, \h31, \h44, \h4d, \h15, \h2d, \h1b, \h2c, \h3c,
    \h2a, \h1d, \h22, \h35, \h1a}
<1>1. DOMAIN Letter = {LetterCodes[i] : i \in 1 .. 26}
  BY DEF Letter, Range, LetterCodes
<1> QED BY <1>1 DEF LetterCodes

LEMMA PairsWithin ==
  ASSUME NEW table, NEW S, \A e \in table : e[1] \in S
  PROVE  DOMAIN Pairs(table) \subseteq S
BY DEF Pairs

LEMMA DigitCodes ==
  DOMAIN Digit \subseteq {\h45, \h16, \h1e, \h26, \h25, \h2e, \h36, \h3d, \h3e, \h46, \h0e,
                          \h4e, \h55, \h5d}
BY DEF Digit, Pairs

LEMMA PunctuationCodes ==
  DOMAIN Punctuation \subseteq {\h54, \h5b, \h4c, \h52, \h41, \h49, \h4a}
BY DEF Punctuation, Pairs

LEMMA EditingCodes ==
  DOMAIN Editing \subseteq {\h66, \h29, \h0d, \h5a, \h15a, \h76, \h577, \h14a}
BY DEF Editing, Pairs

LEMMA KeypadSignCodes == DOMAIN KeypadSign \subseteq {\h7c, \h7b, \h79}
BY DEF KeypadSign, Pairs

LEMMA KeypadDigitCodes ==
  DOMAIN KeypadDigit \subseteq {\h71, \h70, \h69, \h72, \h7a, \h6b, \h73, \h74, \h6c, \h75, \h7d}
BY DEF KeypadDigit, Pairs

LEMMA FunctionCodes ==
  DOMAIN Function \subseteq {\h05, \h06, \h04, \h0c, \h03, \h0b, \h83, \h0a, \h01, \h09, \h78, \h07}
BY DEF Function, Pairs

LEMMA ArrowCodes == DOMAIN Arrow \subseteq {\h175, \h172, \h174, \h16b}
BY DEF Arrow, Pairs

LEMMA HomeEndCodes == DOMAIN HomeEnd \subseteq {\h16c, \h169}
BY DEF HomeEnd, Pairs

LEMMA TildeCodes == DOMAIN Tilde \subseteq {\h170, \h171, \h17d, \h17a}
BY DEF Tilde, Pairs

LEMMA ModifierCodes ==
  /\ DOMAIN Modifier \subseteq {\h12, \h59, \h14, \h114, \h11, \h111}
  /\ \A c, d \in DOMAIN Modifier :
       Modifier[c][2] = Modifier[d][2] /\ Modifier[c][3] = Modifier[d][3] => c = d
  /\ \A c \in DOMAIN Modifier :
       Modifier[c][2] \in {"shift", "ctrl", "alt"} /\ Modifier[c][3] \in {"L", "R"}
<1> DEFINE table == {<<\h12, "shift", "L">>, <<\h59, "shift", "R">>,
  <<\h14, "ctrl", "L">>, <<\h114, "ctrl", "R">>, <<\h11, "alt", "L">>, <<\h111, "alt", "R">>}
<1>1. \A e \in table : e[1] \in {\h12, \h59, \h14, \h114, \h11, \h111}
  OBVIOUS
<1>2. \A e, f \in table : e[2] = f[2] /\ e[3] = f[3] => e[1] = f[1]
  OBVIOUS
<1>5. \A e \in table : e[2] \in {"shift", "ctrl", "alt"} /\ e[3] \in {"L", "R"}
  OBVIOUS
<1>3. Modifier = Pairs(table)
  BY DEF Modifier
<1>4. \A c \in DOMAIN Pairs(table) : Pairs(table)[c] \in table /\ Pairs(table)[c][1] = c
  BY DEF Pairs
<1> HIDE DEF table
<1> QED BY <1>1, <1>2, <1>3, <1>4, <1>5, PairsWithin

LEMMA StateCodes ==
  /\ DOMAIN StateAfter = {\he0, \hf0, \h1f0, \he1, \h414, \h4f0, \h614, \h7f0}
  /\ StateAfter[\he0] = 1 /\ StateAfter[\hf0] = 2 /\ StateAfter[\h1f0] = 3
BY DEF StateAfter

(* What a code writes, by its table; the codes of modifiers, of prefixes   *)
(* and of releases write nothing.                                          *)
Silent(c) == c \in DOMAIN Modifier \cup {\h58, \he0, \hf0, \h1f0} \cup 512 .. 1023

LEMMA LetterOut ==
  ASSUME NEW r, NEW c \in DOMAIN Letter
  PROVE  Output(r, c) = OutChar(r, IF ("shift" \in r.on) # r.capL THEN Letter[c] - 32 ELSE Letter[c])
BY LetterDomain, DigitCodes, PunctuationCodes, EditingCodes, KeypadSignCodes, KeypadDigitCodes,
   FunctionCodes DEF Output

LEMMA SignOut ==
  ASSUME NEW r, NEW c
  PROVE  /\ c \in DOMAIN Digit => Output(r, c) = Shifted(r, Digit[c])
         /\ c \in DOMAIN Punctuation => Output(r, c) = Shifted(r, Punctuation[c])
         /\ c \in DOMAIN Editing => Output(r, c) = OutChar(r, Editing[c][2])
         /\ c \in DOMAIN KeypadSign => Output(r, c) = OutChar(r, KeypadSign[c][2])
BY LetterDomain, DigitCodes, PunctuationCodes, EditingCodes, KeypadSignCodes, KeypadDigitCodes,
   FunctionCodes DEF Output

LEMMA ArrowOut ==
  ASSUME NEW r, NEW c \in DOMAIN Arrow, ~r.modeApp
  PROVE  Output(r, c) = OutSeq(r, IF "ctrl" \in r.on THEN CSI(<<49, 59, 53, Arrow[c][2]>>)
                                  ELSE CSI(<<Arrow[c][2]>>))
<1>1. Output(r, c) = Navigation(r, c)
  BY LetterDomain, DigitCodes, PunctuationCodes, EditingCodes, KeypadSignCodes, KeypadDigitCodes,
     FunctionCodes, ArrowCodes DEF Output
<1>2. Navigation(r, c) = OutSeq(r, IF "ctrl" \in r.on THEN CSI(<<49, 59, 53, Arrow[c][2]>>)
                                   ELSE CSI(<<Arrow[c][2]>>))
  BY ArrowCodes, HomeEndCodes, TildeCodes DEF Navigation
<1> QED BY <1>1, <1>2

LEMMA SilentOut ==
  ASSUME NEW r, NEW c, Silent(c)
  PROVE  Output(r, c) = <<>>
<1>1. c \in {\h12, \h59, \h14, \h114, \h11, \h111, \h58, \he0, \hf0, \h1f0} \cup 512 .. 1023
  BY ModifierCodes DEF Silent
<1>2. c \notin DOMAIN Letter /\ c \notin DOMAIN Digit /\ c \notin DOMAIN Punctuation
  BY <1>1, LetterDomain, DigitCodes, PunctuationCodes, SMTT(40)
<1>3. c \notin DOMAIN Editing
  BY <1>1, EditingCodes
<1>4. c \notin DOMAIN KeypadSign /\ c \notin DOMAIN KeypadDigit /\ c \notin DOMAIN Function
  BY <1>1, KeypadSignCodes, KeypadDigitCodes, FunctionCodes, SMTT(40)
<1>5. c \notin DOMAIN Arrow /\ c \notin DOMAIN HomeEnd /\ c \notin DOMAIN Tilde
  BY <1>1, ArrowCodes, HomeEndCodes, TildeCodes
<1> QED BY <1>2, <1>3, <1>4, <1>5 DEF Output, Navigation

(* What is written and what becomes of the flags does not depend on the    *)
(* state of the machine beyond the code, nor on the buffer.                *)
Alike(r, t) ==
  /\ t.on = r.on /\ t.down = r.down /\ t.capL = r.capL /\ t.numL = r.numL /\ t.modeApp = r.modeApp

LEMMA AlikeOut ==
  ASSUME NEW r, NEW t, Alike(r, t), NEW c
  PROVE  Output(t, c) = Output(r, c) /\ Flags(t, c) = Flags(r, c)
<1>1. /\ t.on = r.on /\ t.down = r.down /\ t.capL = r.capL /\ t.numL = r.numL
      /\ t.modeApp = r.modeApp
  BY DEF Alike
<1>2. \A x : OutSeq(t, x) = OutSeq(r, x)
  BY <1>1 DEF OutSeq
<1>3. \A x : OutChar(t, x) = OutChar(r, x)
  BY <1>1, <1>2 DEF OutChar
<1>4. \A x : Shifted(t, x) = Shifted(r, x)
  BY <1>1, <1>3 DEF Shifted
<1>5. \A x : Navigation(t, x) = Navigation(r, x)
  BY <1>1, <1>2 DEF Navigation
<1>6. Output(t, c) = Output(r, c)
  BY <1>1, <1>2, <1>3, <1>4, <1>5 DEF Output
<1>7. Flags(t, c) = Flags(r, c)
  BY <1>1 DEF Flags, Pressed, Released
<1> QED BY <1>6, <1>7

(* The bytes of a key: prefixes that only move the machine on, and a last  *)
(* byte that settles what the code does.                                   *)
CodeAt(r, dat) == dat + 256 * r.state
IsBare(r) == r.bufTerm = <<>>
Leads(c) == c \in {\he0, \hf0, \h1f0}
Final(c) == c \notin DOMAIN StateAfter

Settles(r, e, code) ==
  /\ e.state = 0 /\ e.down = Flags(r, code).down /\ e.on = Flags(r, code).on
  /\ e.capL = (IF code = \h58 THEN ~r.capL ELSE r.capL)

LEMMA PrefixByte ==
  ASSUME NEW r \in KbdType, NEW dat, Leads(CodeAt(r, dat))
  PROVE  LET t == Processed(r, dat)
         IN /\ t \in KbdType /\ Alike(r, t) /\ t.bufTerm = r.bufTerm
            /\ t.state = StateAfter[CodeAt(r, dat)]
<1> DEFINE code == CodeAt(r, dat)
           t == Processed(r, dat)
<1>1. t \in KbdType /\ AfterCode(r, t, code)
  BY ProcessedType DEF CodeAt
<1>2. code \in {\he0, \hf0, \h1f0}
  BY DEF Leads
<1> HIDE DEF code, t
<1>3. Silent(code)
  BY <1>2 DEF Silent
<1>4. Output(r, code) = <<>>
  BY <1>3, SilentOut
<1>5. Flags(r, code) = [down |-> r.down, on |-> r.on]
  BY <1>2, ModifierCodes DEF Flags
<1>6. code \in DOMAIN StateAfter
  BY <1>2, StateCodes
<1>7. r.bufTerm \in Seq(0 .. 255) /\ r.numL \in BOOLEAN
  BY DEF KbdType
<1>8. r.bufTerm \o <<>> = r.bufTerm
  BY <1>7
<1>9. /\ t.on = r.on /\ t.down = r.down /\ t.modeApp = r.modeApp
      /\ t.bufTerm = r.bufTerm /\ t.state = StateAfter[code]
  BY <1>1, <1>4, <1>5, <1>6, <1>8 DEF AfterCode
<1>10. t.capL = r.capL /\ t.numL = r.numL
  BY <1>1, <1>2, <1>7 DEF AfterCode
<1> QED BY <1>1, <1>9, <1>10 DEF Alike, t, code

LEMMA LastByte ==
  ASSUME NEW r, NEW t \in KbdType, Alike(r, t), NEW dat, Final(CodeAt(t, dat))
  PROVE  LET code == CodeAt(t, dat)
             z == Processed(t, dat)
         IN z \in KbdType /\ z.bufTerm = t.bufTerm \o Output(r, code) /\ Settles(r, z, code)
<1> DEFINE code == CodeAt(t, dat)
           z == Processed(t, dat)
<1>1. z \in KbdType /\ AfterCode(t, z, code)
  BY ProcessedType DEF CodeAt
<1>2. code \notin DOMAIN StateAfter
  BY DEF Final
<1> HIDE DEF code, z
<1>3. Output(t, code) = Output(r, code) /\ Flags(t, code) = Flags(r, code) /\ t.capL = r.capL
  BY AlikeOut DEF Alike
<1>4. /\ z.state = 0 /\ z.bufTerm = t.bufTerm \o Output(r, code)
      /\ z.down = Flags(r, code).down /\ z.on = Flags(r, code).on
  BY <1>1, <1>2, <1>3 DEF AfterCode
<1>5. z.capL = (IF code = \h58 THEN ~r.capL ELSE r.capL)
  BY <1>1, <1>3 DEF AfterCode
<1>6. Settles(r, z, code)
  BY <1>4, <1>5 DEF Settles
<1> QED BY <1>1, <1>4, <1>6 DEF code, z

-----------------------------------------------------------------------------

(* What the driver will make of bytes that are in the port: the keyboard   *)
(* after all of them, and what they write.  f is the keyboard after the    *)
(* first bytes, without its buffer, and o what the others still write.     *)
Bare(r) == [r EXCEPT !.bufTerm = <<>>]

Way(f, o, r, bytes, s, out) ==
  /\ f[0] = Bare(r) /\ f[Len(bytes)] = s
  /\ o[0] = out /\ o[Len(bytes)] = <<>>
  /\ \A i \in 1 .. Len(bytes) :
       /\ f[i] = Bare(Processed(f[i - 1], bytes[i]))
       /\ o[i - 1] = Processed(f[i - 1], bytes[i]).bufTerm \o o[i]

Decodes(r, bytes, s, out) ==
  \E f \in [0 .. Len(bytes) -> KbdType] : \E o \in [0 .. Len(bytes) -> Seq(0 .. 255)] :
    Way(f, o, r, bytes, s, out)

LEMMA BareType ==
  ASSUME NEW r \in KbdType
  PROVE  /\ Bare(r) \in KbdType /\ Bare(r).bufTerm = <<>> /\ Alike(r, Bare(r))
         /\ Bare(r).state = r.state
         /\ r.bufTerm = <<>> => Bare(r) = r
         /\ r.bufTerm \in Seq(0 .. 255)
<1> DEFINE t == [set |-> r.set, capL |-> r.capL, numL |-> r.numL, scrlL |-> r.scrlL,
                 modeApp |-> r.modeApp, down |-> r.down, on |-> r.on, state |-> r.state,
                 bufTerm |-> <<>>]
<1>1. Bare(r) = t
  <2>1. ASSUME NEW x, x = [r EXCEPT !.bufTerm = <<>>] PROVE x = t
    BY <2>1 DEF KbdType
  <2> QED BY <2>1 DEF Bare
<1>2. /\ r.set \in {0, 2} /\ r.capL \in BOOLEAN /\ r.numL \in BOOLEAN /\ r.scrlL \in BOOLEAN
      /\ r.modeApp \in {FALSE} /\ r.down \in SUBSET ({"shift", "ctrl", "alt"} \X {"L", "R"})
      /\ r.on \in SUBSET {"shift", "ctrl", "alt"} /\ r.state \in 0 .. 8
      /\ r.bufTerm \in Seq(0 .. 255)
  BY DEF KbdType
<1>3. t \in KbdType
  <2>1. ASSUME NEW a \in {0, 2}, NEW b \in BOOLEAN, NEW c \in BOOLEAN, NEW d \in BOOLEAN,
               NEW e \in {FALSE}, NEW f \in SUBSET ({"shift", "ctrl", "alt"} \X {"L", "R"}),
               NEW g \in SUBSET {"shift", "ctrl", "alt"}, NEW h \in 0 .. 8
        PROVE  [set |-> a, capL |-> b, numL |-> c, scrlL |-> d, modeApp |-> e, down |-> f,
                on |-> g, state |-> h, bufTerm |-> <<>>] \in KbdType
    BY DEF KbdType
  <2> QED BY <1>2, <2>1, ZenonT(40)
<1>4. r.bufTerm = <<>> => t = r
  BY DEF KbdType
<1>5. t.bufTerm = <<>> /\ Alike(r, t) /\ t.state = r.state
  BY DEF Alike
<1> HIDE DEF t
<1> QED BY <1>1, <1>2, <1>3, <1>4, <1>5

LEMMA DecodesNone ==
  ASSUME NEW r \in KbdType
  PROVE  Decodes(r, <<>>, Bare(r), <<>>)
<1> DEFINE f == [i \in 0 .. 0 |-> Bare(r)]
           o == [i \in 0 .. 0 |-> <<>>]
<1>1. Len(<<>>) = 0 /\ <<>> \in Seq(0 .. 255)
  OBVIOUS
<1>2. f \in [0 .. Len(<<>>) -> KbdType] /\ o \in [0 .. Len(<<>>) -> Seq(0 .. 255)]
  BY <1>1, BareType
<1>3. f[0] = Bare(r) /\ o[0] = <<>>
  OBVIOUS
<1> HIDE DEF f, o
<1>4. Way(f, o, r, <<>>, Bare(r), <<>>)
  BY <1>1, <1>3 DEF Way
<1> QED BY <1>2, <1>4 DEF Decodes

LEMMA DecodesOne ==
  ASSUME NEW r \in KbdType, NEW dat \in 0 .. 255
  PROVE  LET z == Processed(Bare(r), dat)
         IN Decodes(r, <<dat>>, Bare(z), z.bufTerm)
<1> DEFINE z == Processed(Bare(r), dat)
           f == [i \in 0 .. 1 |-> IF i = 0 THEN Bare(r) ELSE Bare(z)]
           o == [i \in 0 .. 1 |-> IF i = 0 THEN z.bufTerm ELSE <<>>]
<1>1. Len(<<dat>>) = 1 /\ <<dat>>[1] = dat /\ <<>> \in Seq(0 .. 255)
  OBVIOUS
<1>2. Bare(r) \in KbdType /\ z \in KbdType
  BY BareType, ProcessedType
<1>3. z = Processed(Bare(r), dat)
  OBVIOUS
<1> HIDE DEF z
<1>4. Bare(z) \in KbdType /\ z.bufTerm \in Seq(0 .. 255)
  BY <1>2, BareType
<1>5. f \in [0 .. 1 -> KbdType] /\ o \in [0 .. 1 -> Seq(0 .. 255)]
  BY <1>1, <1>2, <1>4
<1>6. f[0] = Bare(r) /\ f[1] = Bare(z) /\ o[0] = z.bufTerm /\ o[1] = <<>>
  OBVIOUS
<1> HIDE DEF f, o
<1>7. z.bufTerm \o <<>> = z.bufTerm
  BY <1>4
<1>8. \A i \in 1 .. 1 : /\ f[i] = Bare(Processed(f[i - 1], <<dat>>[i]))
                        /\ o[i - 1] = Processed(f[i - 1], <<dat>>[i]).bufTerm \o o[i]
  <2> TAKE i \in 1 .. 1
  <2>1. i = 1 /\ i - 1 = 0
    OBVIOUS
  <2> QED BY <1>1, <1>3, <1>6, <1>7, <2>1
<1>9. Way(f, o, r, <<dat>>, Bare(z), z.bufTerm)
  BY <1>1, <1>6, <1>8 DEF Way
<1>10. Decodes(r, <<dat>>, Bare(z), z.bufTerm)
  BY <1>1, <1>5, <1>9, Zenon DEF Decodes
<1> QED BY <1>10, Zenon DEF z

LEMMA DecodesTyped ==
  ASSUME NEW r \in KbdType, NEW bytes \in Seq(0 .. 255), NEW s, NEW out, Decodes(r, bytes, s, out)
  PROVE  s \in KbdType /\ out \in Seq(0 .. 255) /\ s.bufTerm = <<>>
<1>1. PICK f \in [0 .. Len(bytes) -> KbdType], o \in [0 .. Len(bytes) -> Seq(0 .. 255)] :
        Way(f, o, r, bytes, s, out)
  BY DEF Decodes
<1>2. /\ f[Len(bytes)] = s /\ o[0] = out /\ f[0] = Bare(r) /\ Len(bytes) \in Nat
      /\ \A i \in 1 .. Len(bytes) : f[i] = Bare(Processed(f[i - 1], bytes[i]))
  <2>1. Len(bytes) \in Nat
    OBVIOUS
  <2> QED BY <1>1, <2>1, Zenon DEF Way
<1>3. s \in KbdType /\ out \in Seq(0 .. 255)
  BY <1>2
<1>4. CASE Len(bytes) = 0
  BY <1>2, <1>4, BareType
<1>5. CASE Len(bytes) # 0
  <2> DEFINE n == Len(bytes)
  <2>1. n \in 1 .. n /\ n - 1 \in 0 .. n
    BY <1>2, <1>5
  <2>2. f[n - 1] \in KbdType
    BY <2>1
  <2>3. Processed(f[n - 1], bytes[n]) \in KbdType
    BY <2>2, ProcessedType
  <2>4. s = Bare(Processed(f[n - 1], bytes[n]))
    BY <1>2, <2>1
  <2> QED BY <1>3, <2>3, <2>4, BareType
<1> QED BY <1>3, <1>4, <1>5

LEMMA DecodesEmpty ==
  ASSUME NEW r \in KbdType, NEW s, NEW out, Decodes(r, <<>>, s, out)
  PROVE  s = Bare(r) /\ out = <<>>
BY DEF Decodes, Way

LEMMA DecodesFirst ==
  ASSUME NEW r \in KbdType, NEW bytes \in Seq(0 .. 255), bytes # <<>>, NEW s, NEW out,
         Decodes(r, bytes, s, out)
  PROVE  \E rest \in Seq(0 .. 255) :
           /\ Decodes(Processed(Bare(r), Head(bytes)), Tail(bytes), s, rest)
           /\ out = Processed(Bare(r), Head(bytes)).bufTerm \o rest
<1> DEFINE n == Len(bytes)
           t == Tail(bytes)
           z == Processed(Bare(r), Head(bytes))
<1>1. PICK f \in [0 .. n -> KbdType], o \in [0 .. n -> Seq(0 .. 255)] :
        Way(f, o, r, bytes, s, out)
  BY DEF Decodes
<1>2. /\ n \in Nat \ {0} /\ Len(t) = n - 1 /\ Head(bytes) = bytes[1]
      /\ \A i \in 1 .. n - 1 : t[i] = bytes[i + 1]
  BY Tails
<1> DEFINE g == [i \in 0 .. n - 1 |-> f[i + 1]]
           u == [i \in 0 .. n - 1 |-> o[i + 1]]
<1>3. /\ f[0] = Bare(r) /\ f[n] = s /\ o[0] = out /\ o[n] = <<>>
      /\ \A i \in 1 .. n : /\ f[i] = Bare(Processed(f[i - 1], bytes[i]))
                           /\ o[i - 1] = Processed(f[i - 1], bytes[i]).bufTerm \o o[i]
  BY <1>1 DEF Way
<1> HIDE DEF n, t
<1>4. g \in [0 .. n - 1 -> KbdType] /\ u \in [0 .. n - 1 -> Seq(0 .. 255)]
  BY <1>2
<1>5. \A i \in 0 .. n - 1 : g[i] = f[i + 1] /\ u[i] = o[i + 1]
  BY <1>2
<1> HIDE DEF g, u
<1>6. f[1] = Bare(z) /\ o[0] = z.bufTerm \o o[1]
  <2>1. 1 \in 1 .. n /\ 1 - 1 = 0
    BY <1>2
  <2> QED BY <1>2, <1>3, <2>1, ZenonT(40)
<1>7. g[0] = Bare(z) /\ g[n - 1] = s /\ u[0] = o[1] /\ u[n - 1] = <<>>
  <2>1. 0 \in 0 .. n - 1 /\ n - 1 \in 0 .. n - 1 /\ 0 + 1 = 1 /\ (n - 1) + 1 = n
    BY <1>2
  <2> QED BY <1>3, <1>5, <1>6, <2>1
<1>8. ASSUME NEW i \in 1 .. n - 1
      PROVE  /\ g[i] = Bare(Processed(g[i - 1], t[i]))
             /\ u[i - 1] = Processed(g[i - 1], t[i]).bufTerm \o u[i]
  <2>1. i + 1 \in 1 .. n /\ (i + 1) - 1 = i /\ i \in 0 .. n - 1 /\ i - 1 \in 0 .. n - 1
        /\ (i - 1) + 1 = i
    BY <1>2
  <2>2. g[i] = f[i + 1] /\ u[i] = o[i + 1] /\ g[i - 1] = f[i] /\ u[i - 1] = o[i]
        /\ t[i] = bytes[i + 1]
    BY <1>2, <1>5, <2>1
  <2> QED BY <1>3, <2>1, <2>2
<1>9. Way(g, u, z, t, s, o[1])
  <2> HIDE DEF z
  <2> QED BY <1>2, <1>7, <1>8 DEF Way
<1>10. o[1] \in Seq(0 .. 255) /\ Decodes(z, t, s, o[1])
  <2> HIDE DEF z
  <2>1. g \in [0 .. Len(t) -> KbdType] /\ u \in [0 .. Len(t) -> Seq(0 .. 255)]
    BY <1>2, <1>4
  <2>2. 1 \in 0 .. n
    BY <1>2
  <2> QED BY <1>9, <2>1, <2>2, Zenon DEF Decodes
<1>11. \E rest \in Seq(0 .. 255) : Decodes(z, t, s, rest) /\ out = z.bufTerm \o rest
  BY <1>3, <1>6, <1>10, Zenon
<1> QED BY <1>11, Zenon DEF t

(* How joined sequences of bytes are grouped makes no difference.          *)
Joint(s, t, u) == (s \o t) \o u = s \o (t \o u)

LEMMA JointBytes ==
  ASSUME NEW s \in Seq(0 .. 255), NEW t \in Seq(0 .. 255), NEW u \in Seq(0 .. 255)
  PROVE  Joint(s, t, u)
BY Grouped DEF Joint

LEMMA DecodesJoin ==
  ASSUME NEW r \in KbdType, NEW a \in Seq(0 .. 255), NEW b \in Seq(0 .. 255),
         NEW s, NEW x, Decodes(r, a, s, x), NEW e, NEW y, Decodes(s, b, e, y)
  PROVE  Decodes(r, a \o b, e, x \o y)
<1> DEFINE n == Len(a)
           m == Len(b)
           c == a \o b
<1>1. PICK f \in [0 .. n -> KbdType], o \in [0 .. n -> Seq(0 .. 255)] : Way(f, o, r, a, s, x)
  BY DEF Decodes
<1>2. PICK g \in [0 .. m -> KbdType], u \in [0 .. m -> Seq(0 .. 255)] : Way(g, u, s, b, e, y)
  BY DEF Decodes
<1>3. /\ n \in Nat /\ m \in Nat /\ c \in Seq(0 .. 255) /\ Len(c) = n + m
      /\ \A i \in 1 .. n : c[i] = a[i]
      /\ \A i \in n + 1 .. n + m : c[i] = b[i - n]
  BY Joins
<1>4. s \in KbdType /\ s.bufTerm = <<>> /\ Bare(s) = s /\ y \in Seq(0 .. 255) /\ x \in Seq(0 .. 255)
  BY DecodesTyped, BareType
<1>5. /\ f[0] = Bare(r) /\ f[n] = s /\ o[0] = x /\ o[n] = <<>>
      /\ \A i \in 1 .. n : /\ f[i] = Bare(Processed(f[i - 1], a[i]))
                           /\ o[i - 1] = Processed(f[i - 1], a[i]).bufTerm \o o[i]
  BY <1>1 DEF Way
<1>6. /\ g[0] = s /\ g[m] = e /\ u[0] = y /\ u[m] = <<>>
      /\ \A i \in 1 .. m : /\ g[i] = Bare(Processed(g[i - 1], b[i]))
                           /\ u[i - 1] = Processed(g[i - 1], b[i]).bufTerm \o u[i]
  BY <1>2, <1>4 DEF Way
<1> HIDE DEF n, m, c
<1> DEFINE h == [i \in 0 .. n + m |-> IF i <= n THEN f[i] ELSE g[i - n]]
           v == [i \in 0 .. n + m |-> IF i <= n THEN o[i] \o y ELSE u[i - n]]
<1>7. h \in [0 .. n + m -> KbdType] /\ v \in [0 .. n + m -> Seq(0 .. 255)]
  <2>1. ASSUME NEW i \in 0 .. n + m PROVE h[i] \in KbdType /\ v[i] \in Seq(0 .. 255)
    <3>1. CASE i <= n
      <4>1. f[i] \in KbdType /\ o[i] \in Seq(0 .. 255)
        BY <1>3, <3>1
      <4>2. o[i] \o y \in Seq(0 .. 255)
        BY <1>4, <4>1
      <4> QED BY <3>1, <4>1, <4>2
    <3>2. CASE ~(i <= n)
      BY <1>3, <3>2, i - n \in 0 .. m
    <3> QED BY <3>1, <3>2
  <2> QED BY <2>1
<1>8. /\ \A i \in 0 .. n : h[i] = f[i] /\ v[i] = o[i] \o y
      /\ \A i \in n .. n + m : h[i] = g[i - n] /\ v[i] = u[i - n]
  <2>1. \A i \in 0 .. n : h[i] = f[i] /\ v[i] = o[i] \o y
    BY <1>3, SMTT(40)
  <2>2. \A i \in n + 1 .. n + m : h[i] = g[i - n] /\ v[i] = u[i - n]
    BY <1>3
  <2>3. <<>> \o y = y
    BY <1>4
  <2>4. h[n] = g[n - n] /\ v[n] = u[n - n]
    <3>1. n \in 0 .. n /\ n - n = 0
      BY <1>3
    <3> HIDE DEF h, v
    <3> QED BY <1>5, <1>6, <2>1, <2>3, <3>1, ZenonT(40)
  <2> HIDE DEF h, v
  <2>5. ASSUME NEW i \in n .. n + m PROVE h[i] = g[i - n] /\ v[i] = u[i - n]
    <3>1. n \in Nat /\ m \in Nat
      BY <1>3
    <3>2. i = n \/ i \in n + 1 .. n + m
      BY <3>1
    <3> QED BY <2>2, <2>4, <3>2
  <2> QED BY <2>1, <2>5
<1> HIDE DEF h, v
<1>9. h[0] = Bare(r) /\ h[n + m] = e /\ v[0] = x \o y /\ v[n + m] = <<>>
  <2>1. 0 \in 0 .. n /\ n + m \in n .. n + m /\ (n + m) - n = m
    BY <1>3
  <2>2. h[0] = f[0] /\ v[0] = o[0] \o y /\ h[n + m] = g[m] /\ v[n + m] = u[m]
    BY <1>8, <2>1
  <2> QED BY <1>5, <1>6, <2>2
<1>10. ASSUME NEW i \in 1 .. n + m
       PROVE  /\ h[i] = Bare(Processed(h[i - 1], c[i]))
              /\ v[i - 1] = Processed(h[i - 1], c[i]).bufTerm \o v[i]
  <2>1. CASE i <= n
    <3>1. i \in 1 .. n /\ i \in 0 .. n /\ i - 1 \in 0 .. n
      BY <1>3, <2>1
    <3>2. /\ h[i] = f[i] /\ h[i - 1] = f[i - 1] /\ v[i] = o[i] \o y /\ v[i - 1] = o[i - 1] \o y
          /\ c[i] = a[i]
      BY <1>3, <1>8, <3>1
    <3> DEFINE z == Processed(f[i - 1], a[i])
    <3>3. f[i] = Bare(z) /\ o[i - 1] = z.bufTerm \o o[i]
      BY <1>5, <3>1
    <3>4. z \in KbdType
      BY <3>1, ProcessedType
    <3>5. h[i] = Bare(z) /\ Processed(h[i - 1], c[i]) = z
      BY <3>2, <3>3
    <3> HIDE DEF z
    <3>6. z.bufTerm \in Seq(0 .. 255) /\ o[i] \in Seq(0 .. 255)
      BY <3>1, <3>4, BareType
    <3>7. (z.bufTerm \o o[i]) \o y = z.bufTerm \o (o[i] \o y)
      <4> DEFINE first == z.bufTerm
                 next == o[i]
      <4>1. first \in Seq(0 .. 255) /\ next \in Seq(0 .. 255) /\ y \in Seq(0 .. 255)
        BY <1>4, <3>6
      <4> HIDE DEF first, next
      <4>2. (first \o next) \o y = first \o (next \o y)
        <5>1. Joint(first, next, y)
          BY <4>1, JointBytes, Zenon
        <5> QED BY <5>1 DEF Joint
      <4> QED BY <4>2 DEF first, next
    <3> QED BY <3>2, <3>3, <3>5, <3>7
  <2>2. CASE ~(i <= n)
    <3>1. /\ i \in n + 1 .. n + m /\ i \in n .. n + m /\ i - 1 \in n .. n + m
          /\ i - n \in 1 .. m /\ (i - 1) - n = (i - n) - 1
      BY <1>3, <2>2
    <3>2. /\ h[i] = g[i - n] /\ h[i - 1] = g[(i - n) - 1] /\ v[i] = u[i - n]
          /\ v[i - 1] = u[(i - n) - 1] /\ c[i] = b[i - n]
      BY <1>3, <1>8, <3>1
    <3> QED BY <1>6, <3>1, <3>2
  <2> QED BY <2>1, <2>2
<1>11. Way(h, v, r, c, e, x \o y)
  BY <1>3, <1>9, <1>10 DEF Way
<1>12. Decodes(r, c, e, x \o y)
  BY <1>3, <1>7, <1>11 DEF Decodes
<1> QED BY <1>12 DEF c

-----------------------------------------------------------------------------

(* One byte.                                                               *)
LEMMA BareIs ==
  ASSUME NEW r \in KbdType
  PROVE  /\ IsBare(r) => Bare(r) = r
         /\ Bare(r) \in KbdType /\ IsBare(Bare(r)) /\ Alike(r, Bare(r)) /\ Bare(r).state = r.state
BY BareType DEF IsBare

LEMMA CodesAt ==
  ASSUME NEW r, NEW b \in 0 .. 255
  PROVE  /\ r.state = 0 => CodeAt(r, b) = b
         /\ r.state = 1 => CodeAt(r, b) = b + \h100
         /\ r.state = 2 => CodeAt(r, b) = b + \h200
         /\ r.state = 3 => CodeAt(r, b) = b + \h300
BY DEF CodeAt

LEMMA TwoBytes ==
  ASSUME NEW a \in 0 .. 255, NEW b \in 0 .. 255
  PROVE  <<a>> \o <<b>> = <<a, b>>
<1> DEFINE s == <<a>>
           t == <<b>>
           u == s \o t
<1>1. /\ s \in Seq(0 .. 255) /\ Len(s) = 1 /\ s[1] = a
      /\ t \in Seq(0 .. 255) /\ Len(t) = 1 /\ t[1] = b
  OBVIOUS
<1>2. s \in Seq(0 .. 255) /\ t \in Seq(0 .. 255)
  BY <1>1
<1> HIDE DEF s, t
<1>4. u \in Seq(0 .. 255) /\ Len(u) = 2 /\ u[1] = a /\ u[2] = b
  <2>1. /\ u \in Seq(0 .. 255) /\ Len(u) = Len(s) + Len(t)
        /\ \A i \in 1 .. Len(s) : u[i] = s[i]
        /\ \A i \in Len(s) + 1 .. Len(s) + Len(t) : u[i] = t[i - Len(s)]
    BY <1>2, Joins
  <2> HIDE DEF u
  <2> QED BY <1>1, <2>1
<1> HIDE DEF u
<1>3. u = <<a, b>>
  BY <1>4
<1> QED BY <1>3 DEF u, s, t

LEMMA ThreeBytes ==
  ASSUME NEW a \in 0 .. 255, NEW b \in 0 .. 255, NEW c \in 0 .. 255
  PROVE  <<a>> \o <<b, c>> = <<a, b, c>>
<1> DEFINE s == <<a>>
           t == <<b, c>>
           u == s \o t
<1>1. /\ s \in Seq(0 .. 255) /\ Len(s) = 1 /\ s[1] = a
      /\ t \in Seq(0 .. 255) /\ Len(t) = 2 /\ t[1] = b /\ t[2] = c
  OBVIOUS
<1>2. s \in Seq(0 .. 255) /\ t \in Seq(0 .. 255)
  BY <1>1
<1> HIDE DEF s, t
<1>4. u \in Seq(0 .. 255) /\ Len(u) = 3 /\ u[1] = a /\ u[2] = b /\ u[3] = c
  <2>1. /\ u \in Seq(0 .. 255) /\ Len(u) = Len(s) + Len(t)
        /\ \A i \in 1 .. Len(s) : u[i] = s[i]
        /\ \A i \in Len(s) + 1 .. Len(s) + Len(t) : u[i] = t[i - Len(s)]
    BY <1>2, Joins
  <2> HIDE DEF u
  <2> QED BY <1>1, <2>1
<1> HIDE DEF u
<1>3. u = <<a, b, c>>
  BY <1>4
<1> QED BY <1>3 DEF u, s, t

LEMMA OneByte ==
  ASSUME NEW s \in KbdType, NEW b \in 0 .. 255, IsBare(s)
  PROVE  Decodes(s, <<b>>, Bare(Processed(s, b)), Processed(s, b).bufTerm)
<1>1. Bare(s) = s
  BY BareIs
<1>2. Decodes(s, <<b>>, Bare(Processed(Bare(s), b)), Processed(Bare(s), b).bufTerm)
  BY DecodesOne
<1> QED BY <1>1, <1>2

LEMMA PrefixDecodes ==
  ASSUME NEW s \in KbdType, IsBare(s), NEW b \in 0 .. 255,
         Leads(CodeAt(s, b))
  PROVE  \E t \in KbdType : /\ IsBare(t) /\ Alike(s, t)
                            /\ t.state = StateAfter[CodeAt(s, b)]
                            /\ Decodes(s, <<b>>, t, <<>>)
<1> DEFINE t == Processed(s, b)
<1>1. t \in KbdType /\ Alike(s, t) /\ IsBare(t) /\ t.state = StateAfter[CodeAt(s, b)]
  BY PrefixByte DEF IsBare
<1>2. Decodes(s, <<b>>, Bare(t), t.bufTerm)
  BY OneByte, Zenon
<1> HIDE DEF t
<1>3. Bare(t) = t /\ t.bufTerm = <<>>
  BY <1>1, BareIs DEF IsBare
<1> QED BY <1>1, <1>2, <1>3

LEMMA LastDecodes ==
  ASSUME NEW r, NEW t \in KbdType, IsBare(t), Alike(r, t), NEW b \in 0 .. 255,
         NEW code, code = CodeAt(t, b), Final(code)
  PROVE  \E e \in KbdType : Decodes(t, <<b>>, e, Output(r, code)) /\ Settles(r, e, code)
<1> DEFINE z == Processed(t, b)
<1>1. z \in KbdType /\ z.bufTerm = t.bufTerm \o Output(r, code) /\ Settles(r, z, code)
  BY LastByte
<1>2. Output(r, code) \in Seq(0 .. 255)
  BY OutputShort DEF Short
<1>3. z.bufTerm = Output(r, code)
  <2>1. t.bufTerm = <<>>
    BY DEF IsBare
  <2>2. <<>> \o Output(r, code) = Output(r, code)
    BY <1>2, ConcatEmptySeq
  <2> QED BY <1>1, <2>1, <2>2
<1>5. Decodes(t, <<b>>, Bare(z), z.bufTerm)
  BY OneByte, Zenon
<1> HIDE DEF z
<1>6. Bare(z) \in KbdType /\ Alike(z, Bare(z)) /\ Bare(z).state = z.state
  BY <1>1, BareIs
<1>7. Settles(r, Bare(z), code)
  BY <1>1, <1>6 DEF Settles, Alike
<1> QED BY <1>3, <1>5, <1>6, <1>7

(* Two bytes, and three.                                                   *)
Second(s, a, b) == b + 256 * StateAfter[CodeAt(s, a)]
Third(s, a, b, c) == c + 256 * StateAfter[Second(s, a, b)]

LEMMA SecondCode ==
  ASSUME NEW s, NEW t, NEW a, NEW b, t.state = StateAfter[CodeAt(s, a)]
  PROVE  CodeAt(t, b) = Second(s, a, b)
BY DEF CodeAt, Second

LEMMA TwoDecode ==
  ASSUME NEW r, NEW s \in KbdType, NEW a \in 0 .. 255, NEW b \in 0 .. 255, IsBare(s), Alike(r, s),
         Leads(CodeAt(s, a)), Final(Second(s, a, b))
  PROVE  \E e \in KbdType : /\ Decodes(s, <<a, b>>, e, Output(r, Second(s, a, b)))
                            /\ Settles(r, e, Second(s, a, b))
<1>1. PICK t \in KbdType : /\ IsBare(t) /\ Alike(s, t) /\ t.state = StateAfter[CodeAt(s, a)]
                           /\ Decodes(s, <<a>>, t, <<>>)
  BY PrefixDecodes
<1> DEFINE code == Second(s, a, b)
<1>2. CodeAt(t, b) = code /\ Final(code)
  BY <1>1, SecondCode
<1>3. Alike(r, t)
  BY <1>1 DEF Alike
<1> HIDE DEF code
<1>4. PICK e \in KbdType : Decodes(t, <<b>>, e, Output(r, code)) /\ Settles(r, e, code)
  BY <1>1, <1>2, <1>3, LastDecodes
<1>5. <<a>> \in Seq(0 .. 255) /\ <<b>> \in Seq(0 .. 255) /\ Output(r, code) \in Seq(0 .. 255)
  BY OutputShort DEF Short
<1>6. Decodes(s, <<a>> \o <<b>>, e, <<>> \o Output(r, code))
  BY <1>1, <1>4, <1>5, DecodesJoin
<1>7. <<a>> \o <<b>> = <<a, b>>
  BY TwoBytes
<1>8. <<>> \o Output(r, code) = Output(r, code)
  BY <1>5, ConcatEmptySeq
<1>9. Decodes(s, <<a, b>>, e, Output(r, code))
  BY <1>6, <1>7, <1>8
<1> QED BY <1>4, <1>9 DEF code

LEMMA ThreeDecode ==
  ASSUME NEW r, NEW s \in KbdType, NEW a \in 0 .. 255, NEW b \in 0 .. 255, NEW c \in 0 .. 255,
         IsBare(s), Alike(r, s), Leads(CodeAt(s, a)), Leads(Second(s, a, b)),
         Final(Third(s, a, b, c))
  PROVE  \E e \in KbdType : /\ Decodes(s, <<a, b, c>>, e, Output(r, Third(s, a, b, c)))
                            /\ Settles(r, e, Third(s, a, b, c))
<1>1. PICK t \in KbdType : /\ IsBare(t) /\ Alike(s, t) /\ t.state = StateAfter[CodeAt(s, a)]
                           /\ Decodes(s, <<a>>, t, <<>>)
  BY PrefixDecodes
<1> DEFINE code == Third(s, a, b, c)
<1>2. CodeAt(t, b) = Second(s, a, b)
  BY <1>1, SecondCode
<1>3. Second(t, b, c) = code /\ Final(code) /\ Leads(CodeAt(t, b))
  BY <1>2 DEF Second, Third
<1>4. Alike(r, t)
  BY <1>1 DEF Alike
<1> HIDE DEF code
<1>5. PICK e \in KbdType : Decodes(t, <<b, c>>, e, Output(r, code)) /\ Settles(r, e, code)
  BY <1>1, <1>3, <1>4, TwoDecode
<1>6. <<a>> \in Seq(0 .. 255) /\ <<b, c>> \in Seq(0 .. 255) /\ Output(r, code) \in Seq(0 .. 255)
  BY OutputShort DEF Short
<1>7. Decodes(s, <<a>> \o <<b, c>>, e, <<>> \o Output(r, code))
  BY <1>1, <1>5, <1>6, DecodesJoin
<1>8. <<a>> \o <<b, c>> = <<a, b, c>>
  BY ThreeBytes
<1>9. <<>> \o Output(r, code) = Output(r, code)
  BY <1>6, ConcatEmptySeq
<1>10. Decodes(s, <<a, b, c>>, e, Output(r, code))
  BY <1>7, <1>8, <1>9
<1> QED BY <1>5, <1>10 DEF code

(* A code without and with \he0 before it, and the code of its release.    *)
Waits(s) == s.state = 0

LEMMA Codes ==
  ASSUME NEW s, Waits(s), NEW c \in 0 .. 255
  PROVE  /\ CodeAt(s, c) = c
         /\ Leads(CodeAt(s, \he0)) /\ Leads(CodeAt(s, \hf0))
         /\ Second(s, \he0, c) = c + \h100
         /\ Second(s, \hf0, c) = c + \h200
         /\ Leads(Second(s, \he0, \hf0))
         /\ Third(s, \he0, \hf0, c) = c + \h300
<1>1. CodeAt(s, c) = c /\ CodeAt(s, \he0) = \he0 /\ CodeAt(s, \hf0) = \hf0
  BY DEF CodeAt, Waits
<1>2. Second(s, \he0, c) = c + \h100 /\ Second(s, \hf0, c) = c + \h200
      /\ Second(s, \he0, \hf0) = \h1f0
  BY <1>1, StateCodes DEF Second
<1>3. Third(s, \he0, \hf0, c) = c + \h300
  BY <1>2, StateCodes DEF Third
<1> QED BY <1>1, <1>2, <1>3 DEF Leads

CodeBytes(c) == IF c < \h100 THEN <<c>> ELSE <<\he0, c - \h100>>
ReleaseBytes(c) == IF c < \h100 THEN <<\hf0, c>> ELSE <<\he0, \hf0, c - \h100>>

LEMMA CodeDecodes ==
  ASSUME NEW s \in KbdType, NEW c \in 0 .. \h1ff, IsBare(s), Waits(s), Final(c)
  PROVE  \E e \in KbdType : Decodes(s, CodeBytes(c), e, Output(s, c)) /\ Settles(s, e, c)
<1>1. Alike(s, s)
  BY DEF Alike
<1>2. CASE c < \h100
  <2>1. c \in 0 .. 255 /\ CodeBytes(c) = <<c>>
    BY <1>2 DEF CodeBytes
  <2>2. c = CodeAt(s, c)
    BY <2>1, Codes
  <2> QED BY <1>1, <2>1, <2>2, LastDecodes
<1>3. CASE ~(c < \h100)
  <2> DEFINE b == c - \h100
             a == \he0
  <2>1. a \in 0 .. 255 /\ b \in 0 .. 255 /\ CodeBytes(c) = <<a, b>> /\ c = b + \h100
    BY <1>3 DEF CodeBytes
  <2>2. Leads(CodeAt(s, a)) /\ Second(s, a, b) = c
    BY <2>1, Codes
  <2> HIDE DEF a, b
  <2>3. \E e \in KbdType : Decodes(s, <<a, b>>, e, Output(s, c)) /\ Settles(s, e, c)
    BY <1>1, <2>1, <2>2, TwoDecode, ZenonT(40)
  <2> QED BY <2>1, <2>3
<1> QED BY <1>2, <1>3

LEMMA ReleaseDecodes ==
  ASSUME NEW s \in KbdType, NEW c \in 0 .. \h1ff, IsBare(s), Waits(s)
  PROVE  \E e \in KbdType : Decodes(s, ReleaseBytes(c), e, <<>>) /\ Settles(s, e, c + \h200)
<1> DEFINE code == c + \h200
           short == c < \h100
           Goal == \E e \in KbdType : Decodes(s, ReleaseBytes(c), e, <<>>) /\ Settles(s, e, code)
<1>1. Silent(code) /\ Final(code)
  BY StateCodes DEF Silent, Final
<1>2. Alike(s, s) /\ Output(s, code) = <<>>
  BY <1>1, SilentOut DEF Alike
<1>3. short => /\ c \in 0 .. 255 /\ ReleaseBytes(c) = <<\hf0, c>> /\ code = c + \h200
  BY DEF ReleaseBytes
<1>4. ~short => /\ c - \h100 \in 0 .. 255 /\ ReleaseBytes(c) = <<\he0, \hf0, c - \h100>>
                /\ code = (c - \h100) + \h300
  BY DEF ReleaseBytes
<1> HIDE DEF code, short
<1>5. ASSUME short PROVE Goal
  <2> DEFINE a == \hf0
  <2>1. a \in 0 .. 255 /\ c \in 0 .. 255 /\ ReleaseBytes(c) = <<a, c>>
    BY <1>3, <1>5
  <2>2. Leads(CodeAt(s, a)) /\ Second(s, a, c) = code
    BY <1>3, <1>5, <2>1, Codes
  <2> HIDE DEF a
  <2>3. PICK e \in KbdType : Decodes(s, <<a, c>>, e, Output(s, code)) /\ Settles(s, e, code)
    BY <1>1, <1>2, <2>1, <2>2, TwoDecode
  <2>4. Decodes(s, ReleaseBytes(c), e, <<>>)
    BY <1>2, <2>1, <2>3
  <2> QED BY <2>3, <2>4
<1>6. ASSUME ~short PROVE Goal
  <2> DEFINE a == \he0
             b == \hf0
             d == c - \h100
  <2>1. a \in 0 .. 255 /\ b \in 0 .. 255 /\ d \in 0 .. 255 /\ ReleaseBytes(c) = <<a, b, d>>
    BY <1>4, <1>6
  <2>2. Leads(CodeAt(s, a)) /\ Leads(Second(s, a, b)) /\ Third(s, a, b, d) = code
    BY <1>4, <1>6, <2>1, Codes
  <2> HIDE DEF a, b, d
  <2>3. Final(Third(s, a, b, d))
    BY <1>1, <2>2
  <2>4. PICK e \in KbdType : /\ Decodes(s, <<a, b, d>>, e, Output(s, Third(s, a, b, d)))
                             /\ Settles(s, e, Third(s, a, b, d))
    BY <1>2, <2>1, <2>2, <2>3, ThreeDecode, ZenonT(40)
  <2>5. Decodes(s, ReleaseBytes(c), e, <<>>)
    BY <1>2, <2>1, <2>2, <2>4
  <2> QED BY <2>2, <2>4, <2>5
<1> HIDE DEF Goal
<1>7. Goal
  BY <1>5, <1>6
<1> QED BY <1>7 DEF Goal, code

-----------------------------------------------------------------------------

(* The flags of the keyboard are those of the keys that are held.          *)
Side(k) == <<Modifier[CodeOf(k)][2], Modifier[CodeOf(k)][3]>>
HeldModifiers(keysHeld) == {k \in keysHeld : Kind[k] = "modifier"}
Sides(keysHeld) == {Side(k) : k \in HeldModifiers(keysHeld)}
Names(keysHeld) == {m \in {"shift", "ctrl", "alt"} : \E k \in HeldModifiers(keysHeld) : Glyph[k] = m}

Matches(s, keysHeld, caps) ==
  Waits(s) /\ s.down = Sides(keysHeld) /\ s.on = Names(keysHeld) /\ s.capL = caps

(* What is assumed of a key in use.                                        *)
LEMMA KeyCode ==
  ASSUME NEW k \in Key
  PROVE  /\ CodeOf(k) \in 0 .. \h1ff /\ Final(CodeOf(k))
         /\ Make[k] = CodeBytes(CodeOf(k)) /\ Break[k] = ReleaseBytes(CodeOf(k))
         /\ Kind[k] = "modifier" <=> CodeOf(k) \in DOMAIN Modifier
         /\ Kind[k] = "modifier" => Glyph[k] = Modifier[CodeOf(k)][2]
         /\ Kind[k] = "caps" <=> CodeOf(k) = \h58
<1> DEFINE c == CodeOf(k)
<1>1. c \in 0 .. \h1ff /\ Spells(k)
  BY KeysAssumption, ZenonT(40)
<1>2. Make[k] = CodeBytes(c) /\ Break[k] = ReleaseBytes(c)
  BY KeysAssumption DEF CodeBytes, ReleaseBytes
<1> DEFINE letters == DOMAIN Letter
           signs == DOMAIN Digit \cup DOMAIN Punctuation \cup DOMAIN Editing \cup DOMAIN KeypadSign
           arrows == DOMAIN Arrow
           modifiers == DOMAIN Modifier
<1>3. \/ Kind[k] = "letter" /\ c \in letters
      \/ Kind[k] = "sign" /\ c \in signs
      \/ Kind[k] = "arrow" /\ c \in arrows
      \/ Kind[k] = "modifier" /\ c \in modifiers /\ Glyph[k] = Modifier[c][2]
      \/ Kind[k] = "caps" /\ c = \h58
  BY <1>1 DEF Spells
<1>4. c \in letters => Final(c) /\ c \notin modifiers /\ c # \h58
  BY LetterDomain, ModifierCodes, StateCodes DEF Final
<1>5. c \in signs => Final(c) /\ c \notin modifiers /\ c # \h58
  <2>1. c \in DOMAIN Digit => Final(c) /\ c \notin modifiers /\ c # \h58
    BY DigitCodes, ModifierCodes, StateCodes DEF Final
  <2>2. c \in DOMAIN Punctuation => Final(c) /\ c \notin modifiers /\ c # \h58
    BY PunctuationCodes, ModifierCodes, StateCodes DEF Final
  <2>3. c \in DOMAIN Editing => Final(c) /\ c \notin modifiers /\ c # \h58
    BY EditingCodes, ModifierCodes, StateCodes DEF Final
  <2>4. c \in DOMAIN KeypadSign => Final(c) /\ c \notin modifiers /\ c # \h58
    BY KeypadSignCodes, ModifierCodes, StateCodes DEF Final
  <2> QED BY <2>1, <2>2, <2>3, <2>4
<1>6. c \in arrows => Final(c) /\ c \notin modifiers /\ c # \h58
  BY ArrowCodes, ModifierCodes, StateCodes DEF Final
<1>7. c \in modifiers => Final(c) /\ c # \h58
  BY ModifierCodes, StateCodes DEF Final
<1>8. c = \h58 => Final(c) /\ c \notin modifiers
  BY ModifierCodes, StateCodes DEF Final
<1> HIDE DEF letters, signs, arrows
<1>9. /\ Final(c)
      /\ Kind[k] = "modifier" <=> c \in modifiers
      /\ Kind[k] = "modifier" => Glyph[k] = Modifier[c][2]
      /\ Kind[k] = "caps" <=> c = \h58
  BY <1>3, <1>4, <1>5, <1>6, <1>7, <1>8
<1> QED BY <1>1, <1>2, <1>9

LEMMA Held ==
  ASSUME NEW s, NEW m \in {"shift", "ctrl", "alt"}, Matches(s, held, capsLock)
  PROVE  m \in s.on <=> T!Holding(m)
BY DEF Matches, Names, HeldModifiers, T!Holding

LEMMA Sequences ==
  ASSUME NEW g \in 0 .. 255
  PROVE  <<27, 91>> \o <<g>> = <<27, 91, g>> /\ <<27, 91>> \o <<49, 59, 53, g>> = <<27, 91, 49, 59, 53, g>>
<1> DEFINE s == <<27, 91>>
           t == <<g>>
           u == <<49, 59, 53, g>>
           x == s \o t
           y == s \o u
<1>1. /\ s \in Seq(0 .. 255) /\ Len(s) = 2 /\ s[1] = 27 /\ s[2] = 91
      /\ t \in Seq(0 .. 255) /\ Len(t) = 1 /\ t[1] = g
      /\ u \in Seq(0 .. 255) /\ Len(u) = 4 /\ u[1] = 49 /\ u[2] = 59 /\ u[3] = 53 /\ u[4] = g
  OBVIOUS
<1>2. s \in Seq(0 .. 255) /\ t \in Seq(0 .. 255) /\ u \in Seq(0 .. 255)
  BY <1>1
<1> HIDE DEF s, t, u
<1>3. /\ x \in Seq(0 .. 255) /\ Len(x) = Len(s) + Len(t)
      /\ \A i \in 1 .. Len(s) : x[i] = s[i]
      /\ \A i \in Len(s) + 1 .. Len(s) + Len(t) : x[i] = t[i - Len(s)]
  BY <1>2, Joins
<1>4. /\ y \in Seq(0 .. 255) /\ Len(y) = Len(s) + Len(u)
      /\ \A i \in 1 .. Len(s) : y[i] = s[i]
      /\ \A i \in Len(s) + 1 .. Len(s) + Len(u) : y[i] = u[i - Len(s)]
  BY <1>2, Joins
<1> HIDE DEF x, y
<1>5. x \in Seq(0 .. 255) /\ Len(x) = 3 /\ x[1] = 27 /\ x[2] = 91 /\ x[3] = g
  BY <1>1, <1>3
<1>6. /\ y \in Seq(0 .. 255) /\ Len(y) = 6 /\ y[1] = 27 /\ y[2] = 91 /\ y[3] = 49 /\ y[4] = 59 /\ y[5] = 53 /\ y[6] = g
  BY <1>1, <1>4
<1>7. x = <<27, 91, g>>
  BY <1>5
<1>8. y = <<27, 91, 49, 59, 53, g>>
  BY <1>6
<1> QED BY <1>7, <1>8 DEF x, y, s, t, u

(* A key spells what the tables and the flags make of its code.            *)
LEMMA HitSpells ==
  ASSUME NEW s \in KbdType, NEW k \in Key, Matches(s, held, capsLock)
  PROVE  Output(s, CodeOf(k)) = T!Spelling(k)
<1> DEFINE c == CodeOf(k)
<1>1. /\ "alt" \in s.on <=> T!Holding("alt")
      /\ "ctrl" \in s.on <=> T!Holding("ctrl")
      /\ "shift" \in s.on <=> T!Holding("shift")
      /\ s.capL = capsLock
  BY Held DEF Matches
<1>2. \A bytes : OutSeq(s, bytes) = T!Escaped(bytes)
  BY <1>1 DEF OutSeq, T!Escaped, ESC
<1>3. \A byte : OutChar(s, byte) = T!Controlled(byte)
  BY <1>1, <1>2 DEF OutChar, T!Controlled
<1>4. Spells(k) /\ c \in 0 .. \h1ff
  BY KeysAssumption, ZenonT(40)
<1>5. CASE Kind[k] = "letter"
  <2>1. c \in DOMAIN Letter /\ Glyph[k] = <<Letter[c], Letter[c] - 32>>
    BY <1>4, <1>5 DEF Spells
  <2>2. Output(s, c) = OutChar(s, IF ("shift" \in s.on) # s.capL THEN Letter[c] - 32 ELSE Letter[c])
    BY <2>1, LetterOut
  <2>3. Glyph[k][1] = Letter[c] /\ Glyph[k][2] = Letter[c] - 32
    BY <2>1
  <2>4. T!Spelling(k) = T!Controlled(Glyph[k][IF T!Holding("shift") # capsLock THEN 2 ELSE 1])
    BY <1>5 DEF T!Spelling
  <2> HIDE DEF c
  <2>7. /\ ("shift" \in s.on) # s.capL
            <=> ("shift" \in s.on /\ ~s.capL) \/ ("shift" \notin s.on /\ s.capL)
        /\ s.capL \in BOOLEAN
    <3>1. s.capL \in BOOLEAN
      BY DEF KbdType
    <3> QED BY <3>1
  <2>8. T!Holding("shift") # capsLock
        <=> (T!Holding("shift") /\ ~capsLock) \/ (~T!Holding("shift") /\ capsLock)
    BY <1>1, <2>7 DEF T!Holding
  <2>5. CASE T!Holding("shift") # capsLock
    <3>1. Output(s, c) = OutChar(s, Letter[c] - 32)
      BY <1>1, <2>2, <2>5, <2>7, <2>8, Zenon
    <3>2. T!Spelling(k) = T!Controlled(Glyph[k][2])
      BY <2>4, <2>5, Zenon
    <3> QED BY <1>3, <2>3, <3>1, <3>2, Zenon DEF c
  <2>6. CASE ~(T!Holding("shift") # capsLock)
    <3>1. Output(s, c) = OutChar(s, Letter[c])
      BY <1>1, <2>2, <2>6, <2>7, <2>8, Zenon
    <3>2. T!Spelling(k) = T!Controlled(Glyph[k][1])
      BY <2>4, <2>6, Zenon
    <3> QED BY <1>3, <2>3, <3>1, <3>2, Zenon DEF c
  <2> QED BY <2>5, <2>6, Zenon
<1>6. CASE Kind[k] = "sign"
  <2>1. T!Spelling(k) = T!Controlled(Glyph[k][IF T!Holding("shift") THEN 2 ELSE 1])
    BY <1>6 DEF T!Spelling
  <2>2. \A e : Shifted(s, e) = T!Controlled(IF T!Holding("shift") THEN e[3] ELSE e[2])
    BY <1>1, <1>3 DEF Shifted
  <2>3. \/ c \in DOMAIN Digit /\ Glyph[k] = <<Digit[c][2], Digit[c][3]>>
        \/ c \in DOMAIN Punctuation /\ Glyph[k] = <<Punctuation[c][2], Punctuation[c][3]>>
        \/ c \in DOMAIN Editing /\ Glyph[k] = <<Editing[c][2], Editing[c][2]>>
        \/ c \in DOMAIN KeypadSign /\ Glyph[k] = <<KeypadSign[c][2], KeypadSign[c][2]>>
    BY <1>4, <1>6 DEF Spells
  <2>4. \/ \E e : Output(s, c) = Shifted(s, e) /\ Glyph[k] = <<e[2], e[3]>>
        \/ \E e : Output(s, c) = OutChar(s, e) /\ Glyph[k] = <<e, e>>
    BY <2>3, SignOut
  <2> HIDE DEF c
  <2>5. CASE \E e : Output(s, c) = Shifted(s, e) /\ Glyph[k] = <<e[2], e[3]>>
    <3>1. PICK e : Output(s, c) = Shifted(s, e) /\ Glyph[k] = <<e[2], e[3]>>
      BY <2>5
    <3>2. Glyph[k][1] = e[2] /\ Glyph[k][2] = e[3]
      BY <3>1
    <3>3. Output(s, c) = T!Controlled(IF T!Holding("shift") THEN e[3] ELSE e[2])
      BY <2>2, <3>1
    <3> QED BY <2>1, <3>2, <3>3 DEF c
  <2>6. CASE \E e : Output(s, c) = OutChar(s, e) /\ Glyph[k] = <<e, e>>
    <3>1. PICK e : Output(s, c) = OutChar(s, e) /\ Glyph[k] = <<e, e>>
      BY <2>6
    <3>2. Glyph[k][1] = e /\ Glyph[k][2] = e
      BY <3>1
    <3> QED BY <1>3, <2>1, <3>1, <3>2 DEF c
  <2> QED BY <2>4, <2>5, <2>6
<1>7. CASE Kind[k] = "arrow"
  <2>1. c \in DOMAIN Arrow /\ Glyph[k] = Arrow[c][2]
    BY <1>4, <1>7 DEF Spells
  <2>2. Arrow[c][2] \in 0 .. 255
    BY <2>1, SMTT(40) DEF Arrow, Pairs
  <2> DEFINE g == Glyph[k]
  <2>3. CSI(<<g>>) = <<27, 91, g>> /\ CSI(<<49, 59, 53, g>>) = <<27, 91, 49, 59, 53, g>>
    BY <2>1, <2>2, Sequences DEF CSI, ESC
  <2>4. ~s.modeApp
    BY DEF KbdType
  <2>5. Output(s, c) = OutSeq(s, IF "ctrl" \in s.on THEN CSI(<<49, 59, 53, g>>) ELSE CSI(<<g>>))
    BY <2>1, <2>4, ArrowOut
  <2>6. T!Spelling(k) = T!Escaped(IF T!Holding("ctrl") THEN <<27, 91, 49, 59, 53, g>>
                                  ELSE <<27, 91, g>>)
    BY <1>7 DEF T!Spelling
  <2> HIDE DEF c, g
  <2> QED BY <1>1, <1>2, <2>3, <2>5, <2>6 DEF c
<1>8. CASE Kind[k] = "modifier" \/ Kind[k] = "caps"
  <2>1. Silent(c)
    BY <1>8, KeyCode DEF Silent
  <2>2. T!Spelling(k) = <<>>
    BY <1>8 DEF T!Spelling
  <2> QED BY <2>1, <2>2, SilentOut
<1>9. Kind[k] \in {"letter", "sign", "arrow", "modifier", "caps"}
  BY <1>4 DEF Spells
<1> QED BY <1>5, <1>6, <1>7, <1>8, <1>9

LEMMA FlagsOfHit ==
  ASSUME NEW r, NEW keysHeld, NEW k \in Key, r.down = Sides(keysHeld), r.on = Names(keysHeld)
  PROVE  LET f == Flags(r, CodeOf(k))
         IN f.down = Sides(keysHeld \cup {k}) /\ f.on = Names(keysHeld \cup {k})
<1> DEFINE c == CodeOf(k)
           more == keysHeld \cup {k}
<1>1. CASE Kind[k] = "modifier"
  <2>1. c \in DOMAIN Modifier /\ Glyph[k] = Modifier[c][2]
    BY <1>1, KeyCode
  <2>2. Glyph[k] \in {"shift", "ctrl", "alt"}
    BY <2>1, ModifierCodes
  <2>3. Flags(r, c) = Pressed(r, Modifier[c])
    <3>1. c - \h200 \notin DOMAIN Modifier
      BY KeyCode, ModifierCodes
    <3> QED BY <2>1, <3>1 DEF Flags
  <2>4. Side(k) = <<Modifier[c][2], Modifier[c][3]>>
    BY DEF Side
  <2>5. Flags(r, c).down = r.down \cup {Side(k)} /\ Flags(r, c).on = r.on \cup {Glyph[k]}
    BY <2>1, <2>3, <2>4 DEF Pressed
  <2>6. HeldModifiers(more) = HeldModifiers(keysHeld) \cup {k}
    BY <1>1 DEF HeldModifiers
  <2>7. Sides(more) = Sides(keysHeld) \cup {Side(k)}
    BY <2>6 DEF Sides
  <2>8. Names(more) = Names(keysHeld) \cup {Glyph[k]}
    BY <2>2, <2>6 DEF Names
  <2> QED BY <2>5, <2>7, <2>8
<1>2. CASE Kind[k] # "modifier"
  <2>1. c \notin DOMAIN Modifier
    BY <1>2, KeyCode
  <2>2. c - \h200 \notin DOMAIN Modifier
    BY KeyCode, ModifierCodes
  <2>3. Flags(r, c) = [down |-> r.down, on |-> r.on]
    BY <2>1, <2>2 DEF Flags
  <2>4. HeldModifiers(more) = HeldModifiers(keysHeld)
    BY <1>2 DEF HeldModifiers
  <2>5. Sides(more) = Sides(keysHeld) /\ Names(more) = Names(keysHeld)
    BY <2>4 DEF Sides, Names
  <2> QED BY <2>3, <2>5
<1> QED BY <1>1, <1>2

LEMMA SidesApart ==
  ASSUME NEW j \in Key, NEW k \in Key, Kind[j] = "modifier", Kind[k] = "modifier",
         Side(j) = Side(k)
  PROVE  j = k
<1>1. CodeOf(j) \in DOMAIN Modifier /\ CodeOf(k) \in DOMAIN Modifier
  BY KeyCode
<1>2. /\ Modifier[CodeOf(j)][2] = Modifier[CodeOf(k)][2]
      /\ Modifier[CodeOf(j)][3] = Modifier[CodeOf(k)][3]
  BY DEF Side
<1>3. CodeOf(j) = CodeOf(k)
  BY <1>1, <1>2, ModifierCodes
<1> QED BY <1>3, KeysAssumption, Zenon

LEMMA FlagsOfGo ==
  ASSUME NEW r, NEW keysHeld \in SUBSET Key, NEW k \in keysHeld,
         r.down = Sides(keysHeld), r.on = Names(keysHeld)
  PROVE  LET f == Flags(r, CodeOf(k) + \h200)
         IN f.down = Sides(keysHeld \ {k}) /\ f.on = Names(keysHeld \ {k})
<1> DEFINE c == CodeOf(k)
           code == c + \h200
           less == keysHeld \ {k}
<1>0. k \in Key
  OBVIOUS
<1>1. code \notin DOMAIN Modifier /\ code - \h200 = c
  BY <1>0, KeyCode, ModifierCodes
<1> HIDE DEF code
<1>2. CASE Kind[k] = "modifier"
  <2>1. c \in DOMAIN Modifier /\ Glyph[k] = Modifier[c][2]
    BY <1>0, <1>2, KeyCode
  <2>2. Flags(r, code) = Released(r, Modifier[c])
    BY <1>1, <2>1 DEF Flags
  <2>3. Side(k) = <<Modifier[c][2], Modifier[c][3]>>
    BY DEF Side
  <2> DEFINE m == Glyph[k]
             down == r.down \ {Side(k)}
  <2>4. /\ Flags(r, code).down = down
        /\ Flags(r, code).on = IF \E side \in {"L", "R"} : <<m, side>> \in down
                               THEN r.on ELSE r.on \ {m}
    BY <2>1, <2>2, <2>3 DEF Released
  <2>5. HeldModifiers(less) = HeldModifiers(keysHeld) \ {k} /\ k \in HeldModifiers(keysHeld)
    BY <1>2 DEF HeldModifiers
  <2>6. \A j \in HeldModifiers(keysHeld) : Side(j) = Side(k) => j = k
    BY <1>0, <1>2, SidesApart DEF HeldModifiers
  <2>7. Sides(less) = down
    BY <2>5, <2>6 DEF Sides
  <2>8. \A j \in HeldModifiers(less) :
          /\ Side(j) = <<Glyph[j], Modifier[CodeOf(j)][3]>>
          /\ Modifier[CodeOf(j)][3] \in {"L", "R"}
    <3> TAKE j \in HeldModifiers(less)
    <3>1. j \in Key /\ Kind[j] = "modifier"
      BY DEF HeldModifiers
    <3>2. CodeOf(j) \in DOMAIN Modifier /\ Glyph[j] = Modifier[CodeOf(j)][2]
      BY <3>1, KeyCode
    <3> QED BY <3>2, ModifierCodes DEF Side
  <2>9. (\E side \in {"L", "R"} : <<m, side>> \in down) <=> \E j \in HeldModifiers(less) : Glyph[j] = m
    <3>1. ASSUME NEW side \in {"L", "R"}, <<m, side>> \in down
          PROVE  \E j \in HeldModifiers(less) : Glyph[j] = m
      <4>1. PICK j \in HeldModifiers(less) : <<m, side>> = Side(j)
        BY <2>7, <3>1 DEF Sides
      <4>2. Side(j) = <<Glyph[j], Modifier[CodeOf(j)][3]>>
        BY <2>8
      <4>3. Glyph[j] = m
        BY <4>1, <4>2
      <4> QED BY <4>3
    <3>2. ASSUME NEW j \in HeldModifiers(less), Glyph[j] = m
          PROVE  \E side \in {"L", "R"} : <<m, side>> \in down
      <4>1. Side(j) \in down
        BY <2>7 DEF Sides
      <4>2. Side(j) = <<m, Modifier[CodeOf(j)][3]>> /\ Modifier[CodeOf(j)][3] \in {"L", "R"}
        BY <2>8, <3>2
      <4> QED BY <4>1, <4>2
    <3> QED BY <3>1, <3>2
  <2>10. Names(less) = IF \E j \in HeldModifiers(less) : Glyph[j] = m THEN Names(keysHeld)
                       ELSE Names(keysHeld) \ {m}
    BY <2>5 DEF Names
  <2> HIDE DEF down, m
  <2>11. Flags(r, code).on = Names(less)
    BY <2>4, <2>9, <2>10
  <2> QED BY <2>4, <2>7, <2>11 DEF code
<1>3. CASE Kind[k] # "modifier"
  <2>1. c \notin DOMAIN Modifier
    BY <1>0, <1>3, KeyCode
  <2>2. Flags(r, code) = [down |-> r.down, on |-> r.on]
    BY <1>1, <2>1 DEF Flags
  <2>3. HeldModifiers(less) = HeldModifiers(keysHeld)
    BY <1>3 DEF HeldModifiers
  <2>4. Sides(less) = Sides(keysHeld) /\ Names(less) = Names(keysHeld)
    BY <2>3 DEF Sides, Names
  <2> QED BY <2>2, <2>4 DEF code
<1> QED BY <1>2, <1>3

(* A key that goes down, and one that goes up, leave a keyboard that       *)
(* follows the keys following them.                                        *)
LEMMA HitDecodes ==
  ASSUME NEW s \in KbdType, NEW k \in Key, IsBare(s), Matches(s, held, capsLock), T!Hit(k),
         capsLock \in BOOLEAN
  PROVE  \E e \in KbdType : /\ Decodes(s, Make[k], e, T!Spelling(k))
                            /\ Matches(e, held', capsLock')
<1> DEFINE c == CodeOf(k)
<1>1. c \in 0 .. \h1ff /\ Final(c) /\ Make[k] = CodeBytes(c) /\ (Kind[k] = "caps" <=> c = \h58)
  BY KeyCode
<1>2. Waits(s) /\ s.down = Sides(held) /\ s.on = Names(held) /\ s.capL = capsLock
  BY DEF Matches
<1>3. \E e \in KbdType : Decodes(s, CodeBytes(c), e, Output(s, c)) /\ Settles(s, e, c)
  BY <1>1, <1>2, CodeDecodes
<1>4. Output(s, c) = T!Spelling(k)
  BY HitSpells
<1>5. Flags(s, c).down = Sides(held \cup {k}) /\ Flags(s, c).on = Names(held \cup {k})
  BY <1>2, FlagsOfHit
<1>6. held' = held \cup {k} /\ capsLock' = (capsLock # (c = \h58))
  BY <1>1 DEF T!Hit
<1>7. (IF c = \h58 THEN ~s.capL ELSE s.capL) = capsLock'
  BY <1>2, <1>6
<1> HIDE DEF c
<1>8. PICK e \in KbdType : Decodes(s, Make[k], e, T!Spelling(k)) /\ Settles(s, e, c)
  BY <1>1, <1>3, <1>4
<1>9. Matches(e, held', capsLock')
  BY <1>5, <1>6, <1>7, <1>8 DEF Matches, Settles, Waits
<1> QED BY <1>8, <1>9

LEMMA GoDecodes ==
  ASSUME NEW s \in KbdType, NEW k \in Key, IsBare(s), Matches(s, held, capsLock), T!LetGo(k),
         held \subseteq Key
  PROVE  \E e \in KbdType : Decodes(s, Break[k], e, <<>>) /\ Matches(e, held', capsLock')
<1> DEFINE c == CodeOf(k)
           code == c + \h200
<1>1. c \in 0 .. \h1ff /\ Break[k] = ReleaseBytes(c) /\ code # \h58
  BY KeyCode
<1>2. Waits(s) /\ s.down = Sides(held) /\ s.on = Names(held) /\ s.capL = capsLock
  BY DEF Matches
<1>3. k \in held /\ held' = held \ {k} /\ capsLock' = capsLock
  BY DEF T!LetGo
<1>4. \E e \in KbdType : Decodes(s, ReleaseBytes(c), e, <<>>) /\ Settles(s, e, code)
  BY <1>1, <1>2, ReleaseDecodes, ZenonT(40)
<1>5. Flags(s, code).down = Sides(held \ {k}) /\ Flags(s, code).on = Names(held \ {k})
  BY <1>2, <1>3, FlagsOfGo
<1> HIDE DEF c, code
<1>6. PICK e \in KbdType : Decodes(s, Break[k], e, <<>>) /\ Settles(s, e, code)
  BY <1>1, <1>4
<1>7. Matches(e, held', capsLock')
  BY <1>1, <1>2, <1>3, <1>5, <1>6 DEF Matches, Settles, Waits
<1> QED BY <1>6, <1>7

-----------------------------------------------------------------------------

(* The port while the last commands are sent: no test runs any more, and   *)
(* nothing in it looks like the answer that is still to come.              *)
EnableSend == <<"enableScan", "send">>
EnableReceive == <<"enableScan", "receive">>
Settled == {<<"getSet", "receive">>, <<"getSet", "value">>, EnableSend, EnableReceive, Ready}
One(bytes) ==
  \A i, j \in DOMAIN bytes : bytes[i] \in {\hfa, \hfe} /\ bytes[j] \in {\hfa, \hfe} => i = j

PortInv ==
  /\ stage \in {<<"getSet", "value">>, EnableSend} => Clean(port)
  /\ stage = EnableReceive => One(port)
  /\ stage \in Settled => ~device.testing

LEMMA OneOf ==
  ASSUME NEW s \in Seq(0 .. 255), s # <<>>, One(s)
  PROVE  One(Tail(s)) /\ (Head(s) \in {\hfa, \hfe} => Clean(Tail(s)))
<1>1. Len(s) \in Nat \ {0} /\ DOMAIN s = 1 .. Len(s) /\ DOMAIN Tail(s) = 1 .. Len(s) - 1
  BY Tails
<1>2. \A i \in DOMAIN Tail(s) : i \in Int /\ i + 1 \in DOMAIN s /\ i + 1 # 1 /\ Tail(s)[i] = s[i + 1]
  BY <1>1, Tails
<1>3. Head(s) = s[1] /\ 1 \in DOMAIN s
  BY Tails
<1>4. One(Tail(s))
  <2>1. ASSUME NEW i \in DOMAIN Tail(s), NEW j \in DOMAIN Tail(s),
               Tail(s)[i] \in {\hfa, \hfe}, Tail(s)[j] \in {\hfa, \hfe}
        PROVE  i = j
    <3>1. i + 1 = j + 1
      BY <1>2, <2>1 DEF One
    <3>2. i \in Int /\ j \in Int
      BY <1>2
    <3> QED BY <3>1, <3>2
  <2> QED BY <2>1 DEF One
<1>5. Head(s) \in {\hfa, \hfe} => Clean(Tail(s))
  BY <1>2, <1>3 DEF One, Clean
<1> QED BY <1>4, <1>5

LEMMA OneJoined ==
  ASSUME NEW s \in Seq(0 .. 255), NEW t \in Seq(0 .. 255)
  PROVE  /\ One(s) /\ Clean(t) => One(s \o t)
         /\ Clean(s) /\ t \in {<<\hfa>>, <<\hfe>>} => One(s \o t)
<1>1. /\ DOMAIN s = 1 .. Len(s) /\ DOMAIN t = 1 .. Len(t) /\ Len(s) \in Nat /\ Len(t) \in Nat
      /\ DOMAIN (s \o t) = 1 .. Len(s) + Len(t)
      /\ \A i \in 1 .. Len(s) : (s \o t)[i] = s[i]
      /\ \A i \in Len(s) + 1 .. Len(s) + Len(t) : (s \o t)[i] = t[i - Len(s)]
  BY Joins
<1> DEFINE u == s \o t
<1>2. ASSUME NEW i \in DOMAIN u, i \notin DOMAIN s
      PROVE  i \in Int /\ i - Len(s) \in DOMAIN t /\ u[i] = t[i - Len(s)]
  BY <1>1, <1>2
<1>3. \A i \in DOMAIN s : u[i] = s[i]
  BY <1>1
<1>4. t \in {<<\hfa>>, <<\hfe>>} => DOMAIN t = {1}
  <2>1. DOMAIN <<\hfa>> = 1 .. 1 /\ DOMAIN <<\hfe>> = 1 .. 1 /\ 1 .. 1 = {1}
    OBVIOUS
  <2> QED BY <2>1
<1>5. Len(s) \in Int
  BY <1>1
<1> HIDE DEF u
<1>6. One(s) /\ Clean(t) => One(u)
  BY <1>2, <1>3 DEF One, Clean
<1>7. Clean(s) /\ DOMAIN t = {1} => One(u)
  <2>1. ASSUME Clean(s), DOMAIN t = {1}, NEW i \in DOMAIN u, u[i] \in {\hfa, \hfe}
        PROVE  i = Len(s) + 1
    <3>1. i \notin DOMAIN s
      BY <1>3, <2>1 DEF Clean
    <3>2. i \in Int /\ i - Len(s) = 1
      BY <1>2, <2>1, <3>1
    <3> QED BY <1>5, <3>2
  <2> QED BY <2>1 DEF One
<1> QED BY <1>4, <1>6, <1>7 DEF u

LEMMA SettledStages ==
  /\ \A s \in Early : s \notin Settled /\ s # Ready
  /\ <<"disableScan", "send">> \notin Settled /\ <<"disableScan", "receive">> \notin Settled
  /\ <<"reset", "send">> \notin Settled /\ <<"reset", "receive">> \notin Settled
  /\ <<"getSet", "send">> \notin Settled /\ Ready \in Settled
  /\ EnableSend \in Settled /\ EnableReceive \in Settled
  /\ <<"getSet", "value">> \in Settled /\ <<"getSet", "receive">> \in Settled
  /\ EnableSend # EnableReceive /\ <<"getSet", "value">> # EnableReceive
  /\ Ready # <<"getSet", "value">> /\ Ready # EnableSend /\ Ready # EnableReceive
  /\ <<"getSet", "receive">> \notin {<<"getSet", "value">>, EnableSend, EnableReceive, Ready}
<1>1. \A d \in Commands : \A s \in {"send", "receive", "value"} : Ready # <<d, s>> /\ <<d, s>> \notin Early
  BY StageSet
<1>2. Ready \notin Early
  BY StageSet
<1>3. \A s \in Early : s \notin Settled
  BY <1>1, <1>2 DEF Commands, Settled, EnableSend, EnableReceive
<1> QED BY <1>1, <1>2, <1>3 DEF Settled, EnableSend, EnableReceive, Commands

LEMMA PortUnsettled ==
  ASSUME stage' \notin Settled
  PROVE  PortInv'
<1>1. stage' \notin {<<"getSet", "value">>, EnableSend} /\ stage' # EnableReceive
  BY SettledStages
<1> QED BY <1>1 DEF PortInv, EnableSend, EnableReceive, Settled, Ready, Alone

LEMMA PortSend ==
  ASSUME InputInv, PortInv, NEW c \in Commands, Send(c)
  PROVE  PortInv'
<1> DEFINE first == IF device.testing THEN <<\haa>> ELSE <<>>
<1>1. PICK answer \in Answers(c) :
        /\ port' = port \o first \o answer
        /\ device' = IF answer = <<\hfe>> THEN Tested ELSE Obeyed(c)
  BY DEF Send
<1>2. stage = <<c, "send">> /\ stage' = <<c, "receive">>
  BY DEF Send, At
<1>3. port \in Seq(0 .. 255) /\ device \in DeviceType /\ answer \in Seq(0 .. 255)
  BY AnswersAre DEF InputInv, InputType
<1>4. c # "reset" => ~device'.testing
  BY <1>1, <1>3 DEF Commands, Tested, Obeyed, DeviceType
<1>5. CASE c \in {"disableScan", "reset"}
  BY <1>2, <1>5, PortUnsettled, SettledStages
<1>6. CASE c = "getSet"
  BY <1>2, <1>4, <1>6, SettledStages DEF PortInv
<1>7. CASE c = "enableScan"
  <2>1. Clean(port) /\ ~device.testing
    BY <1>2, <1>7, SettledStages DEF PortInv, EnableSend
  <2>2. answer \in {<<\hfe>>, <<\hfa>>}
    BY <1>7, AnswersAre
  <2>3. port \o <<>> = port
    BY <1>3, ConcatEmptySeq
  <2>4. port' = port \o answer
    BY <1>1, <2>1, <2>3
  <2>5. One(port')
    BY <1>3, <2>1, <2>2, <2>4, OneJoined
  <2>6. stage' = EnableReceive
    BY <1>2, <1>7 DEF EnableReceive
  <2> QED BY <1>4, <1>7, <2>5, <2>6, SettledStages DEF PortInv
<1> QED BY <1>5, <1>6, <1>7 DEF Commands

LEMMA PortReceive ==
  ASSUME InputInv, PortInv, NEW c \in Commands, Receive(c)
  PROVE  PortInv'
<1>1. stage = <<c, "receive">> /\ port # <<>> /\ port' = Tail(port) /\ device' = device
  BY DEF Receive, At
<1>2. port \in Seq(0 .. 255)
  BY DEF InputInv, InputType
<1>3. stage = EnableReceive =>
        One(port') /\ (Head(port) \in {\hfa, \hfe} => Clean(port'))
  BY <1>1, <1>2, OneOf DEF PortInv
<1>4. c = "enableScan" <=> stage = EnableReceive
  BY <1>1 DEF EnableReceive
<1>5. c \in {"getSet", "enableScan"} => ~device'.testing
  BY <1>1, <1>4, SettledStages DEF PortInv
<1>6. CASE Head(port) = \hfe
  <2>1. stage' = <<c, "send">>
    BY <1>6 DEF Receive, Accepted
  <2>2. CASE c = "enableScan"
    BY <1>3, <1>4, <1>5, <1>6, <2>1, <2>2, SettledStages DEF PortInv, EnableSend
  <2>3. CASE c # "enableScan"
    BY <2>1, <2>3, PortUnsettled, SettledStages DEF Commands
  <2> QED BY <2>2, <2>3
<1>7. CASE Head(port) # \hfe /\ Head(port) \in Accepted(c)
  <2>1. stage' = NextStage(c)
    BY <1>7 DEF Receive
  <2>2. CASE c = "disableScan" \/ c = "reset"
    <3>1. stage' \in {<<"reset", "send">>, <<"getSet", "send">>, <<"reset", "receive">>}
      BY <2>1, <2>2 DEF NextStage
    <3> QED BY <3>1, PortUnsettled, SettledStages
  <2>3. CASE c = "getSet"
    <3>1. stage' = <<"getSet", "value">> /\ Head(port) = \hfa
      BY <1>7, <2>1, <2>3 DEF NextStage, Accepted
    <3>2. OneAnswer(port)
      BY <1>1, <2>3 DEF InputInv, SetInv
    <3>3. Clean(port')
      BY <1>1, <1>2, <3>1, <3>2, Clears
    <3> QED BY <1>5, <2>3, <3>1, <3>3, SettledStages DEF PortInv
  <2>4. CASE c = "enableScan"
    <3>1. stage' = Ready
      BY <2>1, <2>4 DEF NextStage
    <3> QED BY <1>5, <2>4, <3>1, SettledStages DEF PortInv
  <2> QED BY <2>2, <2>3, <2>4 DEF Commands
<1>8. CASE Head(port) # \hfe /\ Head(port) \notin Accepted(c)
  <2>1. stage' = stage
    BY <1>8 DEF Receive
  <2>2. stage \notin {<<"getSet", "value">>, EnableSend, Ready}
    BY <1>1, StageSet DEF EnableSend
  <2>3. stage' = EnableReceive => One(port')
    BY <1>3, <2>1
  <2>4. stage' \in Settled => ~device'.testing
    BY <1>1, <2>1 DEF PortInv
  <2> QED BY <2>1, <2>2, <2>3, <2>4 DEF PortInv
<1> QED BY <1>6, <1>7, <1>8

LEMMA PortStep ==
  ASSUME InputInv, PortInv, BringUp
  PROVE  PortInv'
<1>1. CASE DisablePorts \/ Configure \/ SelfTest \/ PortTest \/ EnablePort
  <2>1. DisablePorts \/ Configure => stage' \in Early
    BY StageSet DEF DisablePorts, Configure, Configures
  <2>2. ASSUME NEW s, NEW good, NEW number, NEW next, Alone(s) \in Early, Alone(next) \in Early,
               Tests(s, good, number, next)
        PROVE  stage' \in Early
    BY <2>2 DEF Tests, At
  <2>3. SelfTest \/ PortTest => stage' \in Early
    BY <2>2, StageSet, ZenonT(60) DEF SelfTest, PortTest
  <2>4. EnablePort => stage' = <<"disableScan", "send">>
    BY DEF EnablePort, Configures
  <2> QED BY <1>1, <2>1, <2>3, <2>4, PortUnsettled, SettledStages
<1>2. CASE ReceiveSet
  <2>1. stage = <<"getSet", "value">> /\ port' = Tail(port) /\ device' = device
    BY <1>2 DEF ReceiveSet, At
  <2>2. port # <<>> /\ Head(port) \in {2, \h41}
    BY <2>1 DEF InputInv, SetInv
  <2>3. stage' = EnableSend
    <3>1. Head(port) \in DOMAIN SetOf
      BY <2>2 DEF SetOf
    <3> QED BY <1>2, <3>1 DEF ReceiveSet, EnableSend
  <2>4. Clean(port) /\ ~device.testing /\ port \in Seq(0 .. 255)
    BY <2>1, SettledStages DEF PortInv, InputInv, InputType
  <2>5. Clean(port')
    BY <2>1, <2>2, <2>4, Clears
  <2> QED BY <2>1, <2>3, <2>4, <2>5, SettledStages DEF PortInv
<1>3. CASE TestEnds
  <2>1. stage' = stage /\ device.testing
    BY <1>3 DEF TestEnds
  <2> QED BY <2>1, PortUnsettled DEF PortInv
<1>4. CASE Stray
  <2>1. PICK k \in Key : port' = port \o Make[k] \o Break[k]
    BY <1>4 DEF Stray
  <2>2. stage' = stage /\ device' = device
    BY <1>4 DEF Stray
  <2>3. port \in Seq(0 .. 255) /\ Make[k] \in Seq(0 .. 255) /\ Break[k] \in Seq(0 .. 255)
        /\ Clean(Make[k]) /\ Clean(Break[k])
    BY KeyBytes DEF InputInv, InputType
  <2> DEFINE m == Make[k]
             b == Break[k]
             s == port \o m
  <2>4. s \in Seq(0 .. 255)
    BY <2>3, Joins
  <2>5. /\ Clean(port) => Clean(s)
        /\ One(port) => One(s)
    BY <2>3, Follows, OneJoined
  <2> HIDE DEF s
  <2>6. /\ Clean(s) => Clean(s \o b)
        /\ One(s) => One(s \o b)
    BY <2>3, <2>4, Follows, OneJoined
  <2>7. port' = s \o b
    BY <2>1 DEF s
  <2> QED BY <2>2, <2>5, <2>6, <2>7 DEF PortInv
<1> QED BY <1>1, <1>2, <1>3, <1>4, PortSend, PortReceive DEF BringUp

-----------------------------------------------------------------------------

(* What the driver still has to give of the bytes that the keys spelled:   *)
(* after the first n, which were read, come those that a read in progress  *)
(* has moved, those in the buffer of the keyboard r, and what the bytes of *)
(* the port will write; and after those the keyboard agrees with the keys. *)
Pending(r, bytes, moving, n, spelt, keysHeld, caps) ==
  \E s \in KbdType : \E out \in Seq(0 .. 255) : \E front \in Seq(0 .. 255) :
    /\ Decodes(r, bytes, s, out) /\ Matches(s, keysHeld, caps)
    /\ Len(front) = n
    /\ spelt = front \o (moving \o (r.bufTerm \o out))

LEMMA BytesJoin ==
  ASSUME NEW s \in Seq(0 .. 255), NEW t \in Seq(0 .. 255)
  PROVE  s \o t \in Seq(0 .. 255) /\ Len(s \o t) = Len(s) + Len(t)
BY Joins

(* The part of a sequence that is another one.                             *)
LEMMA PartIs ==
  ASSUME NEW Elem, NEW s \in Seq(Elem), NEW t \in Seq(Elem), NEW n \in Nat, n + Len(t) <= Len(s),
         \A i \in n + 1 .. n + Len(t) : s[i] = t[i - n]
  PROVE  SubSeq(s, n + 1, n + Len(t)) = t
<1> DEFINE m == Len(t)
           f == n + 1
           l == n + m
           u == SubSeq(s, f, l)
<1>1. Len(s) \in Nat /\ m \in Nat /\ s \in [1 .. Len(s) -> Elem]
      /\ t \in [1 .. m -> Elem]
  BY LenProperties, ZenonT(40)
<1>2. /\ f \in Int /\ l \in Int /\ l - f + 1 = m /\ (f <= l <=> 0 < m)
      /\ \A i \in 1 .. m : f + i - 1 \in n + 1 .. n + m /\ (f + i - 1) - n = i
      /\ \A i \in f .. l : i \in 1 .. Len(s)
  BY <1>1
<1>3. \A i \in f .. l : s[i] \in Elem
  <2> HIDE DEF f, l
  <2> QED BY <1>1, <1>2
<1> HIDE DEF f, l
<1>4. /\ u \in Seq(Elem) /\ Len(u) = (IF f <= l THEN l - f + 1 ELSE 0)
      /\ \A i \in 1 .. l - f + 1 : u[i] = s[f + i - 1]
  BY <1>2, <1>3, SubSeqProperties
<1> HIDE DEF u
<1>5. Len(u) = m /\ \A i \in 1 .. m : u[i] = t[i]
  <2>1. Len(u) = m
    BY <1>1, <1>2, <1>4
  <2>2. ASSUME NEW i \in 1 .. m PROVE u[i] = t[i]
    <3>1. u[i] = s[f + i - 1]
      BY <1>2, <1>4
    <3>2. s[f + i - 1] = t[(f + i - 1) - n]
      BY <1>2 DEF m
    <3> QED BY <1>2, <3>1, <3>2
  <2> QED BY <2>1, <2>2
<1>6. u \in [1 .. m -> Elem]
  <2>1. u \in [1 .. Len(u) -> Elem]
    BY <1>4, LenProperties, ZenonT(40)
  <2> QED BY <1>5, <2>1
<1>7. u = t
  BY <1>1, <1>5, <1>6
<1> QED BY <1>7, Zenon DEF u, f, l, m

LEMMA PendingTyped ==
  ASSUME NEW r \in KbdType, NEW moving \in Seq(0 .. 255), NEW out \in Seq(0 .. 255)
  PROVE  r.bufTerm \in Seq(0 .. 255) /\ moving \o (r.bufTerm \o out) \in Seq(0 .. 255)
<1> DEFINE b == r.bufTerm
<1>1. b \in Seq(0 .. 255)
  BY BareType
<1> HIDE DEF b
<1>2. moving \o (b \o out) \in Seq(0 .. 255)
  BY <1>1, BytesJoin, ZenonT(40)
<1> QED BY <1>1, <1>2 DEF b

(* A key is hit or released.                                               *)
LEMMA PendingMore ==
  ASSUME NEW r \in KbdType, NEW bytes \in Seq(0 .. 255), NEW moving \in Seq(0 .. 255), NEW n,
         NEW spelt, NEW before, NEW capsBefore, NEW after, NEW capsAfter,
         NEW more \in Seq(0 .. 255), NEW w \in Seq(0 .. 255),
         Pending(r, bytes, moving, n, spelt, before, capsBefore),
         \A s \in KbdType : IsBare(s) /\ Matches(s, before, capsBefore) =>
           \E e \in KbdType : Decodes(s, more, e, w) /\ Matches(e, after, capsAfter)
  PROVE  Pending(r, bytes \o more, moving, n, spelt \o w, after, capsAfter)
<1>1. PICK s \in KbdType, out \in Seq(0 .. 255), front \in Seq(0 .. 255) :
        /\ Decodes(r, bytes, s, out) /\ Matches(s, before, capsBefore)
        /\ Len(front) = n
        /\ spelt = front \o (moving \o (r.bufTerm \o out))
  BY DEF Pending
<1>2. IsBare(s)
  BY <1>1, DecodesTyped DEF IsBare
<1>3. PICK e \in KbdType : Decodes(s, more, e, w) /\ Matches(e, after, capsAfter)
  BY <1>1, <1>2
<1>4. Decodes(r, bytes \o more, e, out \o w)
  BY <1>1, <1>3, DecodesJoin, ZenonT(40)
<1>5. out \o w \in Seq(0 .. 255)
  BY BytesJoin
<1>6. spelt \o w = front \o (moving \o (r.bufTerm \o (out \o w)))
  <2> DEFINE b == r.bufTerm
  <2>1. b \in Seq(0 .. 255) /\ front \in Seq(0 .. 255) /\ out \in Seq(0 .. 255)
    BY <1>1, BareType
  <2>2. spelt = front \o (moving \o (b \o out))
    BY <1>1
  <2> HIDE DEF b
  <2> DEFINE left == b \o out
             all == moving \o left
  <2>3. left \in Seq(0 .. 255) /\ left \o w = b \o (out \o w)
    <3>1. left \in Seq(0 .. 255)
      BY <2>1, BytesJoin, ZenonT(40)
    <3>2. left \o w = b \o (out \o w)
      <4>1. Joint(b, out, w)
        BY <2>1, JointBytes, Zenon
      <4> QED BY <4>1 DEF Joint
    <3> QED BY <3>1, <3>2
  <2> HIDE DEF left
  <2>4. all \in Seq(0 .. 255)
    BY <2>3, BytesJoin
  <2>5. all \o w = moving \o (left \o w)
    <3>1. Joint(moving, left, w)
      BY <2>3, JointBytes, Zenon
    <3> QED BY <3>1 DEF Joint
  <2> HIDE DEF all
  <2>6. (front \o all) \o w = front \o (all \o w)
    <3>1. Joint(front, all, w)
      BY <2>1, <2>4, JointBytes, Zenon
    <3> QED BY <3>1 DEF Joint
  <2>7. spelt \o w = front \o (moving \o (b \o (out \o w)))
    <3>1. spelt = front \o all
      BY <2>2 DEF all, left
    <3> QED BY <2>3, <2>5, <2>6, <3>1, Zenon
  <2> QED BY <2>7, Zenon DEF b
<1> QED BY <1>1, <1>3, <1>4, <1>5, <1>6, ZenonT(40) DEF Pending

(* The driver processes the next byte of the port.                         *)
LEMMA PendingNext ==
  ASSUME NEW r \in KbdType, IsBare(r), NEW bytes \in Seq(0 .. 255), bytes # <<>>, NEW moving, NEW n,
         NEW spelt, NEW keysHeld, NEW caps, Pending(r, bytes, moving, n, spelt, keysHeld, caps)
  PROVE  Pending(Processed(r, Head(bytes)), Tail(bytes), moving, n, spelt, keysHeld, caps)
<1> DEFINE z == Processed(r, Head(bytes))
<1>1. PICK s \in KbdType, out \in Seq(0 .. 255), front \in Seq(0 .. 255) :
        /\ Decodes(r, bytes, s, out) /\ Matches(s, keysHeld, caps)
        /\ Len(front) = n
        /\ spelt = front \o (moving \o (r.bufTerm \o out))
  BY DEF Pending
<1>2. Bare(r) = r
  BY BareIs
<1>3. PICK rest \in Seq(0 .. 255) : Decodes(z, Tail(bytes), s, rest) /\ out = z.bufTerm \o rest
  <2>1. Decodes(r, bytes, s, out)
    BY <1>1
  <2>2. \E rest \in Seq(0 .. 255) :
          /\ Decodes(Processed(Bare(r), Head(bytes)), Tail(bytes), s, rest)
          /\ out = Processed(Bare(r), Head(bytes)).bufTerm \o rest
    BY <2>1, DecodesFirst
  <2> QED BY <1>2, <2>2
<1>4. r.bufTerm \o out = z.bufTerm \o rest
  <2>1. r.bufTerm = <<>>
    BY DEF IsBare
  <2>2. <<>> \o out = out
    BY ConcatEmptySeq
  <2> HIDE DEF z
  <2> QED BY <1>3, <2>1, <2>2, Zenon
<1>5. spelt = front \o (moving \o (z.bufTerm \o rest))
  <2> HIDE DEF z
  <2> QED BY <1>1, <1>4, Zenon
<1> HIDE DEF z
<1>6. Pending(z, Tail(bytes), moving, n, spelt, keysHeld, caps)
  BY <1>1, <1>3, <1>5, ZenonT(40) DEF Pending
<1> QED BY <1>6, Zenon DEF z

(* A read takes what is in the buffer, or as much as it wants.             *)
LEMMA DecodesAnyBuffer ==
  ASSUME NEW r, NEW t, Bare(r) = Bare(t), NEW bytes, NEW s, NEW out, Decodes(r, bytes, s, out)
  PROVE  Decodes(t, bytes, s, out)
<1>1. PICK f \in [0 .. Len(bytes) -> KbdType], o \in [0 .. Len(bytes) -> Seq(0 .. 255)] :
        Way(f, o, r, bytes, s, out)
  BY DEF Decodes
<1>2. Way(f, o, t, bytes, s, out)
  BY <1>1, Zenon DEF Way
<1> QED BY <1>2, Zenon DEF Decodes

LEMMA PendingTaken ==
  ASSUME NEW r \in KbdType, NEW t \in KbdType, Bare(r) = Bare(t), NEW bytes \in Seq(0 .. 255),
         NEW moving \in Seq(0 .. 255), NEW n, NEW spelt, NEW keysHeld, NEW caps,
         Pending(r, bytes, moving, n, spelt, keysHeld, caps),
         NEW first \in Seq(0 .. 255), r.bufTerm = first \o t.bufTerm
  PROVE  Pending(t, bytes, moving \o first, n, spelt, keysHeld, caps)
<1>1. PICK s \in KbdType, out \in Seq(0 .. 255), front \in Seq(0 .. 255) :
        /\ Decodes(r, bytes, s, out) /\ Matches(s, keysHeld, caps)
        /\ Len(front) = n
        /\ spelt = front \o (moving \o (r.bufTerm \o out))
  BY DEF Pending
<1>2. Decodes(t, bytes, s, out)
  BY <1>1, DecodesAnyBuffer
<1>3. moving \o (r.bufTerm \o out) = (moving \o first) \o (t.bufTerm \o out)
  <2> DEFINE b == t.bufTerm
  <2>1. b \in Seq(0 .. 255) /\ r.bufTerm = first \o b
    BY BareType
  <2> HIDE DEF b
  <2>2. b \o out \in Seq(0 .. 255)
    BY <2>1, BytesJoin
  <2>3. (first \o b) \o out = first \o (b \o out)
    <3>1. Joint(first, b, out)
      BY <2>1, JointBytes, Zenon
    <3> QED BY <3>1 DEF Joint
  <2>4. (moving \o first) \o (b \o out) = moving \o (first \o (b \o out))
    <3>1. Joint(moving, first, b \o out)
      BY <2>2, JointBytes, Zenon
    <3> QED BY <3>1 DEF Joint
  <2> QED BY <2>1, <2>3, <2>4, Zenon DEF b
<1>4. spelt = front \o ((moving \o first) \o (t.bufTerm \o out))
  BY <1>1, <1>3, Zenon
<1> QED BY <1>1, <1>2, <1>4, ZenonT(40) DEF Pending

(* A read is complete: it has the next bytes that the keys spelled.        *)
NextBytes(spelt, n, bytes) ==
  n + Len(bytes) <= Len(spelt) /\ SubSeq(spelt, n + 1, n + Len(bytes)) = bytes

LEMMA PendingDone ==
  ASSUME NEW r \in KbdType, NEW bytes, NEW moving \in Seq(0 .. 255), NEW n \in Nat, NEW spelt,
         NEW keysHeld, NEW caps, Pending(r, bytes, moving, n, spelt, keysHeld, caps)
  PROVE  /\ Pending(r, bytes, <<>>, n + Len(moving), spelt, keysHeld, caps)
         /\ NextBytes(spelt, n, moving)
<1>1. PICK s \in KbdType, out \in Seq(0 .. 255), front \in Seq(0 .. 255) :
        /\ Decodes(r, bytes, s, out) /\ Matches(s, keysHeld, caps)
        /\ Len(front) = n
        /\ spelt = front \o (moving \o (r.bufTerm \o out))
  BY DEF Pending
<1> DEFINE b == r.bufTerm \o out
<1>2. b \in Seq(0 .. 255) /\ spelt = front \o (moving \o b)
  <2>1. r.bufTerm \in Seq(0 .. 255)
    BY BareType
  <2> QED BY <1>1, <2>1, BytesJoin
<1>3. spelt = (front \o moving) \o (<<>> \o b)
  <2>1. <<>> \o b = b
    BY <1>2, ConcatEmptySeq
  <2> HIDE DEF b
  <2>2. (front \o moving) \o b = front \o (moving \o b)
    <3>1. Joint(front, moving, b)
      BY <1>2, JointBytes, Zenon
    <3> QED BY <3>1 DEF Joint
  <2> QED BY <1>2, <2>1, <2>2, Zenon
<1>4. front \o moving \in Seq(0 .. 255) /\ Len(front \o moving) = n + Len(moving)
  BY <1>1, BytesJoin
<1>5. Pending(r, bytes, <<>>, n + Len(moving), spelt, keysHeld, caps)
  BY <1>1, <1>3, <1>4, ZenonT(40) DEF Pending
<1> DEFINE m == Len(moving)
           v == moving \o b
<1>6. /\ v \in Seq(0 .. 255) /\ Len(v) = m + Len(b) /\ m \in Nat /\ Len(b) \in Nat
      /\ \A i \in 1 .. m : v[i] = moving[i]
  BY <1>2, Joins
<1>7. spelt = front \o v
  BY <1>2
<1> HIDE DEF b, v, m
<1>8. /\ spelt \in Seq(0 .. 255) /\ Len(spelt) = n + Len(v)
      /\ \A i \in n + 1 .. n + Len(v) : spelt[i] = v[i - n]
  <2>1. /\ front \o v \in Seq(0 .. 255) /\ Len(front \o v) = Len(front) + Len(v)
        /\ \A i \in Len(front) + 1 .. Len(front) + Len(v) : (front \o v)[i] = v[i - Len(front)]
    BY <1>1, <1>6, ConcatProperties
  <2> QED BY <1>1, <1>7, <2>1
<1>9. n + m <= Len(spelt)
  BY <1>6, <1>8
<1>10. \A i \in n + 1 .. n + m : spelt[i] = moving[i - n]
  <2>1. \A i \in n + 1 .. n + m : i \in n + 1 .. n + Len(v) /\ i - n \in 1 .. m
    BY <1>6
  <2> QED BY <1>6, <1>8, <2>1
<1>11. SubSeq(spelt, n + 1, n + m) = moving
  BY <1>6, <1>8, <1>9, <1>10, PartIs DEF m
<1> QED BY <1>5, <1>9, <1>11 DEF m, NextBytes

LEMMA PendingStart ==
  ASSUME NEW r \in KbdType, IsBare(r), Matches(r, {}, FALSE)
  PROVE  Pending(r, <<>>, <<>>, 0, <<>>, {}, FALSE)
<1>1. Decodes(r, <<>>, r, <<>>)
  BY BareIs, DecodesNone
<1>2. <<>> = <<>> \o (<<>> \o (r.bufTerm \o <<>>)) /\ <<>> \in Seq(0 .. 255) /\ Len(<<>>) = 0
  BY ConcatEmptySeq DEF IsBare
<1> QED BY <1>1, <1>2, Zenon DEF Pending

(* When the port is empty the keyboard itself agrees with the keys.        *)
LEMMA PendingNothing ==
  ASSUME NEW r \in KbdType, NEW moving, NEW n, NEW spelt, NEW keysHeld, NEW caps,
         Pending(r, <<>>, moving, n, spelt, keysHeld, caps)
  PROVE  Matches(r, keysHeld, caps)
<1>1. PICK s \in KbdType : Matches(s, keysHeld, caps) /\ s = Bare(r)
  BY DecodesEmpty DEF Pending
<1>2. Alike(r, s) /\ s.state = r.state
  BY <1>1, BareIs
<1> QED BY <1>1, <1>2 DEF Matches, Alike, Waits

-----------------------------------------------------------------------------

(* What a read has moved to its area so far.                               *)
MovedBy(c) == SubSeq(c.area, Offset(c.call) + 1, Offset(c.call) + c.moved)

LEMMA PartOf ==
  ASSUME NEW Elem, NEW s \in Seq(Elem), NEW n \in Nat, NEW m \in Nat, n + m <= Len(s)
  PROVE  /\ SubSeq(s, n + 1, n + m) \in Seq(Elem) /\ Len(SubSeq(s, n + 1, n + m)) = m
         /\ \A i \in 1 .. m : SubSeq(s, n + 1, n + m)[i] = s[n + i]
<1> DEFINE f == n + 1
           l == n + m
           u == SubSeq(s, f, l)
<1>1. Len(s) \in Nat /\ s \in [1 .. Len(s) -> Elem]
  BY LenProperties, ZenonT(40)
<1>2. /\ f \in Int /\ l \in Int /\ l - f + 1 = m /\ (f <= l <=> 0 < m)
      /\ \A i \in 1 .. m : f + i - 1 = n + i
      /\ \A i \in f .. l : i \in 1 .. Len(s)
  BY <1>1
<1>3. \A i \in f .. l : s[i] \in Elem
  <2> HIDE DEF f, l
  <2> QED BY <1>1, <1>2
<1> HIDE DEF f, l
<1>4. /\ u \in Seq(Elem) /\ Len(u) = (IF f <= l THEN l - f + 1 ELSE 0)
      /\ \A i \in 1 .. l - f + 1 : u[i] = s[f + i - 1]
  BY <1>2, <1>3, SubSeqProperties
<1> HIDE DEF u
<1>5. Len(u) = m /\ \A i \in 1 .. m : u[i] = s[n + i]
  <2>1. Len(u) = m
    BY <1>1, <1>2, <1>4
  <2>2. ASSUME NEW i \in 1 .. m PROVE u[i] = s[n + i]
    BY <1>2, <1>4
  <2> QED BY <2>1, <2>2
<1> QED BY <1>4, <1>5, Zenon DEF u, f, l

(* A sequence is its first bytes and those that are left when they drop.   *)
LEMMA Cut ==
  ASSUME NEW Elem, NEW t \in Seq(Elem), NEW n \in 0 .. Len(t)
  PROVE  /\ SubSeq(t, 1, n) \in Seq(Elem) /\ Len(SubSeq(t, 1, n)) = n
         /\ \A i \in 1 .. n : SubSeq(t, 1, n)[i] = t[i]
         /\ t = SubSeq(t, 1, n) \o SubSeq(t, n + 1, Len(t))
<1> DEFINE a == SubSeq(t, 1, n)
           b == SubSeq(t, n + 1, Len(t))
           z == 0
           m == Len(t) - n
<1>1. Len(t) \in Nat /\ n \in Nat /\ z \in Nat /\ m \in Nat
  OBVIOUS
<1>2. z + 1 = 1 /\ z + n = n /\ z + n <= Len(t) /\ n + m = Len(t) /\ \A i \in 1 .. n : z + i = i
  BY <1>1
<1> HIDE DEF z, m
<1>3. a \in Seq(Elem) /\ Len(a) = n /\ \A i \in 1 .. n : a[i] = t[i]
  <2>1. /\ SubSeq(t, z + 1, z + n) \in Seq(Elem) /\ Len(SubSeq(t, z + 1, z + n)) = n
        /\ \A i \in 1 .. n : SubSeq(t, z + 1, z + n)[i] = t[z + i]
    BY <1>1, <1>2, PartOf
  <2> QED BY <1>2, <2>1
<1>4. b \in Seq(Elem) /\ Len(b) = m /\ \A i \in 1 .. m : b[i] = t[n + i]
  <2>1. /\ SubSeq(t, n + 1, n + m) \in Seq(Elem) /\ Len(SubSeq(t, n + 1, n + m)) = m
        /\ \A i \in 1 .. m : SubSeq(t, n + 1, n + m)[i] = t[n + i]
    BY <1>1, <1>2, PartOf
  <2> QED BY <1>2, <2>1
<1> HIDE DEF a, b
<1>5. t = a \o b
  <2> DEFINE c == a \o b
  <2>1. /\ c \in Seq(Elem) /\ Len(c) = n + m
        /\ \A i \in 1 .. n : c[i] = a[i]
        /\ \A i \in n + 1 .. n + m : c[i] = b[i - n]
    <3>1. a \in Seq(Elem) /\ b \in Seq(Elem)
      BY <1>3, <1>4
    <3>2. /\ c \in Seq(Elem) /\ Len(c) = Len(a) + Len(b)
          /\ \A i \in 1 .. Len(a) : c[i] = a[i]
          /\ \A i \in Len(a) + 1 .. Len(a) + Len(b) : c[i] = b[i - Len(a)]
      BY <3>1, Joins
    <3> HIDE DEF c
    <3> QED BY <1>3, <1>4, <3>2
  <2> HIDE DEF c
  <2>2. \A i \in 1 .. Len(t) : c[i] = t[i]
    <3> TAKE i \in 1 .. Len(t)
    <3>1. CASE i \in 1 .. n
      BY <1>3, <2>1, <3>1
    <3>2. CASE i \notin 1 .. n
      <4>1. i \in n + 1 .. n + m /\ i - n \in 1 .. m /\ n + (i - n) = i
        BY <1>1, <1>2, <3>2
      <4> QED BY <1>4, <2>1, <4>1
    <3> QED BY <3>1, <3>2
  <2>3. c \in [1 .. Len(t) -> Elem] /\ t \in [1 .. Len(t) -> Elem]
    <3>1. c \in [1 .. Len(c) -> Elem] /\ t \in [1 .. Len(t) -> Elem]
      BY <2>1, LenProperties, ZenonT(40)
    <3> QED BY <1>2, <2>1, <3>1
  <2>4. t = c
    BY <2>2, <2>3
  <2> QED BY <2>4 DEF c
<1> QED BY <1>3, <1>5 DEF a, b

MovesWithin(Elem, a, t, o, m, n) ==
  /\ a \in Seq(Elem) /\ t \in Seq(Elem) /\ o \in Nat /\ m \in Nat
  /\ n \in 0 .. Len(t) /\ o + (m + n) <= Len(a)

MovesBoth(a, t, o, m, n) ==
  SubSeq(Filled(a, t, n, o + m), o + 1, o + (m + n)) = SubSeq(a, o + 1, o + m) \o SubSeq(t, 1, n)

LEMMA MovedMore ==
  ASSUME NEW Elem, NEW a, NEW t, NEW o, NEW m, NEW n, MovesWithin(Elem, a, t, o, m, n)
  PROVE  MovesBoth(a, t, o, m, n)
<1> DEFINE x == Filled(a, t, n, o + m)
           p == SubSeq(a, o + 1, o + m)
           q == SubSeq(t, 1, n)
           y == p \o q
<1>0. a \in Seq(Elem) /\ t \in Seq(Elem) /\ o \in Nat /\ m \in Nat
      /\ n \in 0 .. Len(t) /\ o + (m + n) <= Len(a)
  BY DEF MovesWithin
<1>1. Len(a) \in Nat /\ Len(t) \in Nat /\ n \in Nat /\ o + m \in Nat /\ o + m <= Len(a)
      /\ DOMAIN a = 1 .. Len(a)
  BY <1>0
<1>2. x \in Seq(Elem) /\ Len(x) = Len(a)
      /\ \A i \in 1 .. Len(a) : x[i] = IF i - (o + m) \in 1 .. n THEN t[i - (o + m)] ELSE a[i]
  BY <1>0, <1>1 DEF Filled
<1>3. p \in Seq(Elem) /\ Len(p) = m /\ \A i \in 1 .. m : p[i] = a[o + i]
  BY <1>0, <1>1, PartOf
<1>4. q \in Seq(Elem) /\ Len(q) = n /\ \A i \in 1 .. n : q[i] = t[i]
  BY <1>0, Cut
<1> HIDE DEF x, p, q
<1>5. /\ y \in Seq(Elem) /\ Len(y) = m + n
      /\ \A i \in 1 .. m : y[i] = p[i]
      /\ \A i \in m + 1 .. m + n : y[i] = q[i - m]
  <2>1. /\ y \in Seq(Elem) /\ Len(y) = Len(p) + Len(q)
        /\ \A i \in 1 .. Len(p) : y[i] = p[i]
        /\ \A i \in Len(p) + 1 .. Len(p) + Len(q) : y[i] = q[i - Len(p)]
    BY <1>3, <1>4, Joins, ZenonT(40)
  <2> HIDE DEF y
  <2> QED BY <1>3, <1>4, <2>1
<1> HIDE DEF y
<1>6. \A i \in o + 1 .. o + (m + n) : x[i] = y[i - o]
  <2> TAKE i \in o + 1 .. o + (m + n)
  <2>1. i \in 1 .. Len(a)
    BY <1>0, <1>1
  <2>2. CASE i - o <= m
    <3>1. i - o \in 1 .. m /\ o + (i - o) = i /\ i - (o + m) \notin 1 .. n
      BY <1>0, <1>1, <2>2
    <3> QED BY <1>2, <1>3, <1>5, <2>1, <3>1
  <2>3. CASE ~(i - o <= m)
    <3>1. i - o \in m + 1 .. m + n /\ (i - o) - m = i - (o + m) /\ i - (o + m) \in 1 .. n
      BY <1>0, <1>1, <2>3
    <3> QED BY <1>2, <1>4, <1>5, <2>1, <3>1
  <2> QED BY <2>2, <2>3
<1>7. SubSeq(x, o + 1, o + Len(y)) = y
  BY <1>0, <1>1, <1>2, <1>5, <1>6, PartIs
<1>8. SubSeq(x, o + 1, o + (m + n)) = p \o q
  BY <1>5, <1>7, Zenon DEF y
<1> QED BY <1>8, Zenon DEF MovesBoth, x, p, q

(* What is in the port behind one of its bytes.                            *)
Behind(s, i) == SubSeq(s, i + 1, Len(s))

LEMMA BehindTail ==
  ASSUME NEW Elem, NEW s \in Seq(Elem), s # <<>>
  PROVE  /\ Behind(s, 1) = Tail(s)
         /\ \A i \in DOMAIN Tail(s) : Behind(Tail(s), i) = Behind(s, i + 1)
<1> DEFINE t == Tail(s)
<1>1. /\ Len(s) \in Nat \ {0} /\ t \in Seq(Elem) /\ Len(t) = Len(s) - 1
      /\ DOMAIN t = 1 .. Len(s) - 1 /\ \A i \in 1 .. Len(s) - 1 : t[i] = s[i + 1]
  BY Tails
<1> HIDE DEF t
<1>2. ASSUME NEW n \in 0 .. Len(t) PROVE SubSeq(t, n + 1, Len(t)) = SubSeq(s, (n + 1) + 1, Len(s))
  <2> DEFINE m == Len(t) - n
             u == SubSeq(t, n + 1, n + m)
             k == n + 1
  <2>1. n \in Nat /\ m \in Nat /\ n + m = Len(t) /\ k \in Nat /\ k + m = Len(s)
    BY <1>1
  <2> HIDE DEF m, k
  <2>2. u \in Seq(Elem) /\ Len(u) = m /\ \A i \in 1 .. m : u[i] = t[n + i]
    <3>1. t \in Seq(Elem) /\ n \in Nat /\ m \in Nat /\ n + m <= Len(t)
      BY <1>1, <2>1
    <3> QED BY <3>1, PartOf, ZenonT(40)
  <2> HIDE DEF u
  <2>3. \A i \in k + 1 .. k + m : s[i] = u[i - k]
    <3> TAKE i \in k + 1 .. k + m
    <3>1. i - k \in 1 .. m /\ n + (i - k) = i - 1 /\ i - 1 \in 1 .. Len(s) - 1 /\ (i - 1) + 1 = i
      BY <1>1, <2>1 DEF k
    <3> QED BY <1>1, <2>2, <3>1
  <2>4. SubSeq(s, k + 1, k + Len(u)) = u
    BY <1>1, <2>1, <2>2, <2>3, PartIs
  <2> QED BY <2>1, <2>2, <2>4 DEF u, k
<1>3. \A i \in DOMAIN t : Behind(t, i) = Behind(s, i + 1)
  <2> TAKE i \in DOMAIN t
  <2>1. i \in 0 .. Len(t)
    BY <1>1
  <2> QED BY <1>2, <2>1 DEF Behind
<1>4. Behind(s, 1) = t
  <2>1. SubSeq(t, 0 + 1, Len(t)) = SubSeq(s, (0 + 1) + 1, Len(s)) /\ 0 + 1 = 1
    BY <1>1, <1>2
  <2>2. SubSeq(t, 1, Len(t)) = t
    BY <1>1
  <2> QED BY <2>1, <2>2 DEF Behind
<1> QED BY <1>3, <1>4 DEF t

LEMMA BehindJoin ==
  ASSUME NEW Elem, NEW s \in Seq(Elem), NEW t \in Seq(Elem), NEW i \in DOMAIN s
  PROVE  Behind(s, i) \in Seq(Elem) /\ Behind(s \o t, i) = Behind(s, i) \o t
<1> DEFINE n == Len(s)
           c == s \o t
           m == n - i
           u == SubSeq(s, i + 1, i + m)
           v == u \o t
<1>1. n \in Nat /\ i \in 1 .. n
  OBVIOUS
<1>2. m \in Nat /\ i + m = n /\ i \in Nat
  BY <1>1
<1> HIDE DEF n, m
<1>3. u \in Seq(Elem) /\ Len(u) = m /\ \A j \in 1 .. m : u[j] = s[i + j]
  BY <1>2, PartOf, SMTT(40) DEF n
<1> HIDE DEF u
<1>4. /\ c \in Seq(Elem) /\ Len(c) = n + Len(t) /\ Len(t) \in Nat
      /\ \A j \in 1 .. n : c[j] = s[j]
      /\ \A j \in n + 1 .. n + Len(t) : c[j] = t[j - n]
  BY Joins DEF n
<1>5. /\ v \in Seq(Elem) /\ Len(v) = m + Len(t)
      /\ \A j \in 1 .. m : v[j] = u[j]
      /\ \A j \in m + 1 .. m + Len(t) : v[j] = t[j - m]
  BY <1>3, Joins, ZenonT(40)
<1> HIDE DEF c, v
<1>6. \A j \in i + 1 .. i + Len(v) : c[j] = v[j - i]
  <2> TAKE j \in i + 1 .. i + Len(v)
  <2>1. CASE j <= n
    <3>1. j \in 1 .. n /\ j - i \in 1 .. m /\ i + (j - i) = j
      BY <1>1, <1>2, <2>1
    <3> QED BY <1>3, <1>4, <1>5, <3>1, ZenonT(40)
  <2>2. CASE ~(j <= n)
    <3>1. Len(t) \in Nat /\ Len(v) = m + Len(t)
      BY <1>4, <1>5
    <3>2. j \in n + 1 .. n + Len(t) /\ j - i \in m + 1 .. m + Len(t) /\ (j - i) - m = j - n
      BY <1>1, <1>2, <2>2, <3>1
    <3> QED BY <1>4, <1>5, <3>2
  <2> QED BY <2>1, <2>2
<1>7. i + Len(v) = Len(c) /\ i + Len(v) <= Len(c)
  BY <1>2, <1>4, <1>5
<1>8. SubSeq(c, i + 1, i + Len(v)) = v
  BY <1>2, <1>4, <1>5, <1>6, <1>7, PartIs
<1>9. Behind(s, i) = u
  BY <1>2 DEF Behind, u, n
<1>10. Behind(c, i) = v
  BY <1>7, <1>8 DEF Behind
<1> QED BY <1>3, <1>9, <1>10, Zenon DEF c, v

-----------------------------------------------------------------------------

(* The keys and the driver.  Until the driver has read the answer to the   *)
(* last command it has not touched what keys change, and until the         *)
(* keyboard has given that answer no key was used; when both have, what    *)
(* the driver has yet to give is what the keys spelled.                    *)
Moving == IF bufLock = Nobody THEN <<>> ELSE MovedBy(proc[bufLock])
Silence == held = {} /\ capsLock = FALSE /\ typed = <<>>
Untouched(r) == IsBare(r) /\ Matches(r, {}, FALSE)
Answering(i) == i \in DOMAIN port /\ port[i] = \hfa

FollowInv ==
  /\ held \subseteq Key /\ capsLock \in BOOLEAN /\ typed \in Seq(0 .. 255) /\ taken \in Nat
  /\ stage = Ready => Pending(kbd, port, Moving, taken, typed, held, capsLock)
  /\ stage # Ready => Untouched(kbd) /\ taken = 0
  /\ stage = EnableReceive =>
       \A i : Answering(i) => Pending(kbd, Behind(port, i), <<>>, 0, typed, held, capsLock)
  /\ stage \notin {Ready, EnableReceive} => Silence
  /\ stage = EnableReceive /\ (\A i : ~Answering(i)) => Silence

LEMMA Hears ==
  /\ Listening <=> stage = Ready \/ (stage = EnableReceive /\ \E i : Answering(i))
  /\ Ready # EnableReceive
<1>1. \hfa \in Range(port) <=> \E i : Answering(i)
  BY DEF Range, Answering
<1> QED BY <1>1, SettledStages DEF Listening, EnableReceive

LEMMA Away ==
  ASSUME FollowInv, stage # Ready, Silence, UNCHANGED <<held, capsLock, typed, taken>>,
         Untouched(kbd'), stage' # Ready, stage' # EnableReceive
  PROVE  FollowInv'
<1>1. taken = 0
  BY DEF FollowInv
<1>2. stage' # <<"enableScan", "receive">> /\ Ready' = Ready
  BY DEF EnableReceive, Ready, Alone
<1>3. /\ held' \subseteq Key /\ capsLock' \in BOOLEAN /\ typed' \in Seq(0 .. 255) /\ taken' \in Nat
      /\ taken' = 0 /\ Silence'
  BY <1>1 DEF FollowInv, Silence
<1> QED BY <1>2, <1>3 DEF FollowInv, EnableReceive

LEMMA Unanswered ==
  ASSUME FollowInv, stage # Ready, Silence, UNCHANGED <<held, capsLock, typed, taken>>,
         Untouched(kbd'), stage' = EnableReceive, \A i \in DOMAIN port' : port'[i] # \hfa
  PROVE  FollowInv'
<1>1. taken = 0
  BY DEF FollowInv
<1>2. stage' # Ready
  BY Hears
<1>3. /\ held' \subseteq Key /\ capsLock' \in BOOLEAN /\ typed' \in Seq(0 .. 255) /\ taken' \in Nat
      /\ taken' = 0 /\ Silence'
  BY <1>1 DEF FollowInv, Silence
<1>4. \A i : ~Answering(i)'
  BY DEF Answering
<1> QED BY <1>2, <1>3, <1>4 DEF FollowInv, EnableReceive, Ready, Alone

LEMMA FollowSend ==
  ASSUME InputInv, PortInv, FollowInv, NEW c \in Commands, Send(c),
         UNCHANGED <<held, capsLock, typed, taken>>
  PROVE  FollowInv'
<1>1. stage = <<c, "send">> /\ stage' = <<c, "receive">> /\ kbd' = kbd
  BY DEF Send, At
<1>2. stage # Ready /\ stage # EnableReceive /\ stage' # Ready
  BY <1>1, StageSet DEF EnableReceive
<1>3. Untouched(kbd) /\ Silence /\ taken = 0
  BY <1>2 DEF FollowInv
<1>4. CASE c # "enableScan"
  <2>1. stage' # EnableReceive
    BY <1>1, <1>4 DEF EnableReceive
  <2> QED BY <1>1, <1>2, <1>3, <2>1, Away
<1>5. CASE c = "enableScan"
  <2>1. stage = EnableSend /\ stage' = EnableReceive
    BY <1>1, <1>5 DEF EnableReceive, EnableSend
  <2>2. Clean(port) /\ ~device.testing
    BY <2>1, SettledStages DEF PortInv
  <2>3. port \in Seq(0 .. 255) /\ kbd \in KbdType
    BY DEF InputInv, InputType
  <2>4. PICK b \in {\hfe, \hfa} : port' = port \o <<b>>
    <3>1. PICK answer \in Answers(c) :
            port' = port \o (IF device.testing THEN <<\haa>> ELSE <<>>) \o answer
      BY DEF Send
    <3>2. answer \in {<<\hfe>>, <<\hfa>>}
      BY <1>5, AnswersAre
    <3>3. port \o <<>> = port
      BY <2>3, ConcatEmptySeq
    <3> QED BY <2>2, <3>1, <3>2, <3>3
  <2> DEFINE n == Len(port)
             answer == <<b>>
  <2>5. answer \in Seq(0 .. 255) /\ Len(answer) = 1 /\ answer[1] = b /\ port' = port \o answer
    BY <2>4
  <2> HIDE DEF answer
  <2>6. /\ n \in Nat /\ Len(port') = n + 1 /\ DOMAIN port' = 1 .. n + 1
        /\ \A i \in 1 .. n : port'[i] = port[i]
    <3>1. /\ Len(port) \in Nat /\ DOMAIN (port \o answer) = 1 .. Len(port) + Len(answer)
          /\ Len(port \o answer) = Len(port) + Len(answer)
          /\ \A i \in 1 .. Len(port) : (port \o answer)[i] = port[i]
      <4>1. port \in Seq(0 .. 255) /\ answer \in Seq(0 .. 255)
        BY <2>3, <2>5
      <4> QED BY <4>1, Joins
    <3> QED BY <2>5, <3>1
  <2>7. ASSUME NEW i \in DOMAIN port', port'[i] = \hfa
        PROVE  i = Len(port')
    <3>1. i \in 1 .. n + 1 /\ (i \in 1 .. n => i \in DOMAIN port)
      BY <2>3, <2>6
    <3>2. i \notin 1 .. n
      BY <2>2, <2>6, <2>7, <3>1 DEF Clean
    <3> QED BY <2>6, <3>1, <3>2
  <2>8. SubSeq(port', Len(port') + 1, Len(port')) = <<>>
    <3>1. port' \in Seq(0 .. 255)
      BY <2>3, <2>5, BytesJoin
    <3> QED BY <3>1
  <2>9. Pending(kbd, <<>>, <<>>, 0, typed, held, capsLock)
    BY <1>3, <2>3, PendingStart DEF Untouched, Silence
  <2>10. ASSUME NEW i, Answering(i)'
         PROVE  Pending(kbd, Behind(port, i), <<>>, 0, typed, held, capsLock)'
    <3>1. i = Len(port')
      BY <2>7, <2>10 DEF Answering
    <3>2. Behind(port', i) = <<>>
      BY <2>8, <3>1 DEF Behind
    <3>3. Pending(kbd', Behind(port', i), <<>>, 0, typed', held', capsLock')
      BY <1>1, <2>9, <3>2
    <3> QED BY <3>3
  <2>11. /\ held' \subseteq Key /\ capsLock' \in BOOLEAN /\ typed' \in Seq(0 .. 255)
         /\ taken' \in Nat /\ taken' = 0 /\ Silence' /\ Untouched(kbd')
    BY <1>1, <1>3 DEF FollowInv, Silence
  <2> QED BY <1>2, <2>10, <2>11 DEF FollowInv, Ready, Alone, EnableReceive
<1> QED BY <1>4, <1>5

LEMMA FollowReceive ==
  ASSUME InputInv, PortInv, FollowInv, NEW c \in Commands, Receive(c), bufLock' = Nobody,
         UNCHANGED <<held, capsLock, typed, taken>>
  PROVE  FollowInv'
<1>1. stage = <<c, "receive">> /\ kbd' = kbd /\ port # <<>> /\ port' = Tail(port)
  BY DEF Receive, At
<1>2. stage # Ready /\ (stage = EnableReceive <=> c = "enableScan")
  BY <1>1, StageSet DEF EnableReceive
<1>3. Untouched(kbd) /\ taken = 0
  BY <1>2 DEF FollowInv
<1>4. CASE c # "enableScan"
  <2>1. stage' \in {<<c, "send">>, <<c, "receive">>, NextStage(c)}
    BY <1>1 DEF Receive
  <2>2. NextStage(c) \in {<<"reset", "send">>, <<"getSet", "send">>, <<c, "receive">>, <<c, "value">>}
    BY <1>4 DEF NextStage, Commands
  <2>3. \A d \in Commands : \A t \in {"send", "receive", "value"} :
          <<d, t>> # Ready /\ (<<d, t>> = EnableReceive => d = "enableScan" /\ t = "receive")
    BY StageSet DEF EnableReceive
  <2>4. \E d \in Commands : \E t \in {"send", "receive", "value"} :
          stage' = <<d, t>> /\ (d # "enableScan" \/ t # "receive")
    BY <1>4, <2>1, <2>2 DEF Commands
  <2>5. stage' # Ready /\ stage' # EnableReceive
    BY <2>3, <2>4
  <2> QED BY <1>1, <1>2, <1>3, <1>4, <2>5, Away DEF FollowInv
<1>5. CASE c = "enableScan"
  <2>1. stage = EnableReceive
    BY <1>2, <1>5
  <2>2. port \in Seq(0 .. 255) /\ One(port)
    BY <2>1, SettledStages DEF PortInv, InputInv, InputType
  <2>3. /\ Head(port) = port[1] /\ 1 \in DOMAIN port /\ Behind(port, 1) = port'
        /\ \A i \in DOMAIN port' : /\ i + 1 \in DOMAIN port /\ port'[i] = port[i + 1]
                                   /\ Behind(port', i) = Behind(port, i + 1)
        /\ \A i \in DOMAIN port : i # 1 => i - 1 \in DOMAIN port' /\ (i - 1) + 1 = i
    BY <1>1, <2>2, Tails, BehindTail
  <2>4. /\ held' \subseteq Key /\ capsLock' \in BOOLEAN /\ typed' \in Seq(0 .. 255)
        /\ taken' \in Nat /\ taken' = 0 /\ Untouched(kbd')
    BY <1>1, <1>3 DEF FollowInv
  <2>5. CASE Head(port) = \hfa
    <3>1. stage' = Ready
      BY <1>5, <2>5 DEF Receive, Accepted, NextStage
    <3>2. Answering(1)
      BY <2>3, <2>5 DEF Answering
    <3>3. Pending(kbd, Behind(port, 1), <<>>, 0, typed, held, capsLock)
      BY <2>1, <3>2 DEF FollowInv
    <3>4. Moving' = <<>>
      BY DEF Moving
    <3>5. Pending(kbd', port', Moving', taken', typed', held', capsLock')
      BY <1>1, <1>3, <2>3, <3>3, <3>4
    <3> QED BY <2>4, <3>1, <3>5, SettledStages DEF FollowInv, Ready, Alone, EnableReceive
  <2>6. CASE Head(port) = \hfe
    <3>1. stage' = EnableSend
      <4>1. stage' = <<c, "send">>
        BY <2>6 DEF Receive, Accepted
      <4> QED BY <1>5, <4>1 DEF EnableSend
    <3>2. \A i : ~Answering(i)
      BY <2>2, <2>3, <2>6 DEF Answering, One
    <3>3. Silence
      BY <2>1, <3>2 DEF FollowInv
    <3> QED BY <1>1, <1>2, <1>3, <3>1, <3>3, Away, SettledStages
  <2>7. CASE Head(port) \notin {\hfa, \hfe}
    <3>1. stage' = EnableReceive
      BY <1>5, <2>1, <2>7 DEF Receive, Accepted
    <3>2. ASSUME NEW i, Answering(i)'
          PROVE  Pending(kbd, Behind(port, i), <<>>, 0, typed, held, capsLock)'
      <4>1. i \in DOMAIN port' /\ port'[i] = \hfa
        BY <3>2 DEF Answering
      <4>2. Answering(i + 1) /\ Behind(port', i) = Behind(port, i + 1)
        BY <2>3, <4>1 DEF Answering
      <4>3. Pending(kbd, Behind(port, i + 1), <<>>, 0, typed, held, capsLock)
        BY <2>1, <4>2 DEF FollowInv
      <4>4. Pending(kbd', Behind(port', i), <<>>, 0, typed', held', capsLock')
        BY <1>1, <4>2, <4>3
      <4> QED BY <4>4
    <3>3. ASSUME \A i : ~Answering(i)' PROVE Silence'
      <4>1. ASSUME NEW i, Answering(i) PROVE FALSE
        <5>1. i \in DOMAIN port /\ port[i] = \hfa /\ i # 1
          BY <2>3, <2>7, <4>1 DEF Answering
        <5>2. Answering(i - 1)'
          BY <2>3, <5>1 DEF Answering
        <5> QED BY <3>3, <5>2
      <4> QED BY <2>1, <4>1 DEF FollowInv, Silence
    <3> QED BY <2>4, <3>1, <3>2, <3>3, Hears DEF FollowInv, Ready, Alone, EnableReceive
  <2> QED BY <2>5, <2>6, <2>7
<1> QED BY <1>4, <1>5

NoAnswer(bytes) == \A i \in DOMAIN bytes : bytes[i] # \hfa

LEMMA NoAnswerJoins ==
  ASSUME NEW s \in Seq(0 .. 255), NEW t \in Seq(0 .. 255), NoAnswer(s), NoAnswer(t)
  PROVE  NoAnswer(s \o t) /\ s \o t \in Seq(0 .. 255)
<1>1. /\ DOMAIN s = 1 .. Len(s) /\ DOMAIN t = 1 .. Len(t) /\ Len(s) \in Nat /\ Len(t) \in Nat
      /\ DOMAIN (s \o t) = 1 .. Len(s) + Len(t) /\ s \o t \in Seq(0 .. 255)
      /\ \A i \in 1 .. Len(s) : (s \o t)[i] = s[i]
      /\ \A i \in Len(s) + 1 .. Len(s) + Len(t) : (s \o t)[i] = t[i - Len(s)]
  BY Joins
<1>2. ASSUME NEW i \in DOMAIN (s \o t) PROVE (s \o t)[i] # \hfa
  <2>1. i \in 1 .. Len(s) \/ (i \in Len(s) + 1 .. Len(s) + Len(t) /\ i - Len(s) \in 1 .. Len(t))
    BY <1>1
  <2> QED BY <1>1, <2>1 DEF NoAnswer
<1> QED BY <1>1, <1>2 DEF NoAnswer

LEMMA FollowStray ==
  ASSUME InputInv, FollowInv, Stray, UNCHANGED <<held, capsLock, typed, taken>>
  PROVE  FollowInv'
<1>1. PICK k \in Key : port' = port \o Make[k] \o Break[k]
  BY DEF Stray
<1>2. stage' = stage /\ kbd' = kbd /\ ~Listening
  BY DEF Stray
<1>3. stage # Ready /\ (stage = EnableReceive => \A i : ~Answering(i))
  BY <1>2, Hears
<1>4. Untouched(kbd) /\ Silence
  BY <1>3 DEF FollowInv
<1>5. CASE stage # EnableReceive
  BY <1>2, <1>3, <1>4, <1>5, Away
<1>6. CASE stage = EnableReceive
  <2>1. port \in Seq(0 .. 255) /\ Make[k] \in Seq(0 .. 255) /\ Break[k] \in Seq(0 .. 255)
        /\ Clean(Make[k]) /\ Clean(Break[k])
    BY KeyBytes DEF InputInv, InputType
  <2>2. NoAnswer(port) /\ NoAnswer(Make[k]) /\ NoAnswer(Break[k])
    BY <1>3, <1>6, <2>1 DEF Answering, Clean, NoAnswer
  <2>4. NoAnswer(port \o Make[k]) /\ port \o Make[k] \in Seq(0 .. 255)
    BY <2>1, <2>2, NoAnswerJoins
  <2>5. NoAnswer(port')
    BY <1>1, <2>1, <2>2, <2>4, NoAnswerJoins
  <2> QED BY <1>2, <1>3, <1>4, <1>6, <2>5, Unanswered DEF NoAnswer
<1> QED BY <1>5, <1>6

LEMMA FollowBringUp ==
  ASSUME InputInv, PortInv, FollowInv, BringUp, bufLock' = Nobody,
         UNCHANGED <<held, capsLock, typed, taken>>
  PROVE  FollowInv'
<1>1. CASE DisablePorts \/ Configure \/ SelfTest \/ PortTest \/ EnablePort
  <2>1. stage \in Early /\ kbd' = kbd /\ (stage' \in Early \/ stage' = <<"disableScan", "send">>)
    <3>1. DisablePorts \/ Configure => stage \in Early /\ stage' \in Early /\ kbd' = kbd
      BY StageSet DEF DisablePorts, Configure, Configures, At
    <3>2. ASSUME NEW s, NEW good, NEW number, NEW next, Alone(s) \in Early, Alone(next) \in Early,
                 Tests(s, good, number, next)
          PROVE  stage \in Early /\ stage' \in Early /\ kbd' = kbd
      BY <3>2 DEF Tests, At
    <3>3. SelfTest => stage \in Early /\ stage' \in Early /\ kbd' = kbd
      BY <3>2, StageSet DEF SelfTest
    <3>4. PortTest => stage \in Early /\ stage' \in Early /\ kbd' = kbd
      BY <3>2, StageSet, ZenonT(40) DEF PortTest
    <3>5. EnablePort => stage \in Early /\ stage' = <<"disableScan", "send">> /\ kbd' = kbd
      BY StageSet DEF EnablePort, Configures, At
    <3> QED BY <1>1, <3>1, <3>3, <3>4, <3>5
  <2>2. \A s : s \in Early \/ s = <<"disableScan", "send">> => s # Ready /\ s # EnableReceive
    BY SettledStages
  <2>3. stage \notin {Ready, EnableReceive} /\ stage' # Ready /\ stage' # EnableReceive
    BY <2>1, <2>2
  <2> QED BY <2>1, <2>3, Away DEF FollowInv
<1>2. CASE ReceiveSet
  <2>1. stage = <<"getSet", "value">> /\ stage' \in {stage, EnableSend}
        /\ (kbd' = kbd \/ \E set : kbd' = [kbd EXCEPT !.set = set])
    BY <1>2 DEF ReceiveSet, At, EnableSend
  <2>2. stage \notin {Ready, EnableReceive} /\ stage' # Ready /\ stage' # EnableReceive
    BY <2>1, SettledStages
  <2>3. Untouched(kbd) /\ Silence /\ kbd \in KbdType
    BY <2>2 DEF FollowInv, InputInv, InputType
  <2>4. Untouched(kbd')
    BY <2>1, <2>3 DEF Untouched, IsBare, Matches, Waits, KbdType
  <2> QED BY <2>2, <2>3, <2>4, Away
<1>3. CASE TestEnds
  <2>1. stage' = stage /\ kbd' = kbd /\ device.testing
    BY <1>3 DEF TestEnds
  <2>2. stage \notin {Ready, EnableReceive}
    BY <2>1, SettledStages DEF PortInv
  <2> QED BY <2>1, <2>2, Away DEF FollowInv
<1> QED BY <1>1, <1>2, <1>3, FollowSend, FollowReceive, FollowStray DEF BringUp

(* A key is hit or released: it sends its bytes, and spells w.             *)
Turns(more, w) ==
  \A s \in KbdType : IsBare(s) /\ Matches(s, held, capsLock) =>
    \E e \in KbdType : Decodes(s, more, e, w) /\ Matches(e, held', capsLock')

LEMMA FollowMore ==
  ASSUME InputInv, FollowInv, Listening, Moving \in Seq(0 .. 255),
         NEW more \in Seq(0 .. 255), Clean(more), NEW w \in Seq(0 .. 255),
         port' = port \o more, typed' = typed \o w, held' \subseteq Key, capsLock' \in BOOLEAN,
         Moving' = Moving, UNCHANGED <<kbd, stage, taken>>,
         Turns(more, w)
  PROVE  FollowInv'
<1>1. kbd \in KbdType /\ port \in Seq(0 .. 255) /\ typed \in Seq(0 .. 255) /\ taken \in Nat
  BY DEF InputInv, InputType, FollowInv
<1>2. typed' \in Seq(0 .. 255) /\ <<>> \in Seq(0 .. 255)
  BY <1>1, BytesJoin
<1>3. CASE stage = Ready
  <2>1. Pending(kbd, port, Moving, taken, typed, held, capsLock)
    BY <1>3 DEF FollowInv
  <2>2. Pending(kbd, port \o more, Moving, taken, typed \o w, held', capsLock')
    BY <1>1, <2>1, PendingMore, ZenonT(40) DEF Turns
  <2>3. Pending(kbd', port', Moving', taken', typed', held', capsLock')
    BY <2>2
  <2> QED BY <1>1, <1>2, <1>3, <2>3, Hears DEF FollowInv, Ready, Alone, EnableReceive
<1>4. CASE stage = EnableReceive /\ \E i : Answering(i)
  <2>1. PICK j : Answering(j)
    BY <1>4
  <2>2. /\ DOMAIN port = 1 .. Len(port) /\ Len(port) \in Nat /\ Len(more) \in Nat
        /\ DOMAIN more = 1 .. Len(more)
        /\ DOMAIN (port \o more) = 1 .. Len(port) + Len(more)
        /\ \A i \in 1 .. Len(port) : (port \o more)[i] = port[i]
        /\ \A i \in Len(port) + 1 .. Len(port) + Len(more) : (port \o more)[i] = more[i - Len(port)]
    BY <1>1, Joins
  <2>3. Answering(j)'
    <3>1. j \in 1 .. Len(port) /\ j \in 1 .. Len(port) + Len(more)
      BY <2>1, <2>2 DEF Answering
    <3> QED BY <2>1, <2>2, <3>1 DEF Answering
  <2>4. ASSUME NEW i, Answering(i)'
        PROVE  Answering(i) /\ Behind(port', i) = Behind(port, i) \o more
               /\ Behind(port, i) \in Seq(0 .. 255)
    <3>1. i \in 1 .. Len(port) + Len(more) /\ (port \o more)[i] = \hfa
      BY <2>2, <2>4 DEF Answering
    <3>2. i \in 1 .. Len(port)
      <4>1. SUFFICES ASSUME i \notin 1 .. Len(port) PROVE FALSE
        OBVIOUS
      <4>2. i \in Len(port) + 1 .. Len(port) + Len(more) /\ i - Len(port) \in 1 .. Len(more)
        BY <2>2, <3>1, <4>1
      <4>3. i - Len(port) \in DOMAIN more /\ more[i - Len(port)] = \hfa
        BY <2>2, <3>1, <4>2
      <4> QED BY <4>3 DEF Clean
    <3>3. i \in DOMAIN port /\ Answering(i)
      BY <2>2, <3>1, <3>2 DEF Answering
    <3> QED BY <1>1, <3>3, BehindJoin, ZenonT(40)
  <2>5. ASSUME NEW i, Answering(i)'
        PROVE  Pending(kbd, Behind(port, i), <<>>, 0, typed, held, capsLock)'
    <3>1. Pending(kbd, Behind(port, i), <<>>, 0, typed, held, capsLock)
      BY <1>4, <2>4, <2>5 DEF FollowInv
    <3>2. Pending(kbd, Behind(port, i) \o more, <<>>, 0, typed \o w, held', capsLock')
      BY <1>1, <1>2, <2>4, <2>5, <3>1, PendingMore, ZenonT(40) DEF Turns
    <3>3. Pending(kbd', Behind(port', i), <<>>, 0, typed', held', capsLock')
      BY <2>4, <2>5, <3>2
    <3> QED BY <3>3
  <2>6. Untouched(kbd') /\ taken' = 0 /\ taken' \in Nat
    BY <1>4, Hears DEF FollowInv
  <2> QED BY <1>2, <1>4, <2>3, <2>5, <2>6, Hears DEF FollowInv, Ready, Alone, EnableReceive
<1> QED BY <1>3, <1>4, Hears

(* The read in progress: what it has moved fits into its area.             *)
LEMMA Reader ==
  ASSUME IInv, NEW p \in Process, proc[p].pc \in {"take", "poll"}
  PROVE  /\ bufLock = p /\ p # Nobody /\ Moving = MovedBy(proc[p]) /\ stage = Ready
         /\ proc[p] \in CallType /\ proc[p].call \in Request /\ proc[p].call.nr = "read"
         /\ Offset(proc[p].call) \in Nat /\ proc[p].call.count \in Nat /\ proc[p].moved \in Nat
         /\ proc[p].moved <= proc[p].call.count
         /\ proc[p].area \in Seq(0 .. 255)
         /\ Offset(proc[p].call) + proc[p].call.count <= Len(proc[p].area)
         /\ MovedBy(proc[p]) \in Seq(0 .. 255) /\ Len(MovedBy(proc[p])) = proc[p].moved
<1> DEFINE a == proc[p].area
           o == Offset(proc[p].call)
           m == proc[p].moved
           n == proc[p].call.count
<1>1. CallsInv /\ proc[p] \in CallType /\ CallFits(proc[p])
  BY Type DEF IInv, CallsInv
<1>2. bufLock = p /\ p # Nobody /\ stage = Ready
  BY <1>1, ConsoleAssumption DEF CallsInv, LockInv, ReadyInv
<1>3. proc[p].call \in Request /\ proc[p].call.nr = "read" /\ m <= n
      /\ ~Fault(proc[p].call) /\ Len(a) = PageSize * Cardinality(PagesOf(proc[p].call))
  BY <1>1 DEF CallFits, Holds
<1>4. n \in Nat /\ m \in Nat /\ a \in Seq(0 .. 255)
  BY <1>1, <1>3, Sizes DEF CallType
<1>5. o \in Nat /\ o + n <= Len(a)
  BY <1>3, Span, OffsetIs
<1>6. Moving = MovedBy(proc[p]) /\ MovedBy(proc[p]) = SubSeq(a, o + 1, o + m)
  BY <1>2 DEF Moving, MovedBy
<1> HIDE DEF a, o, m, n
<1>7. o + m <= Len(a)
  <2>1. Len(a) \in Nat
    BY <1>4, LenProperties
  <2> QED BY <1>3, <1>4, <1>5, <2>1
<1>8. SubSeq(a, o + 1, o + m) \in Seq(0 .. 255) /\ Len(SubSeq(a, o + 1, o + m)) = m
  BY <1>4, <1>5, <1>7, PartOf, ZenonT(40)
<1> QED BY <1>1, <1>2, <1>3, <1>4, <1>5, <1>6, <1>8 DEF a, o, m, n

LEMMA MovingIs ==
  ASSUME IInv
  PROVE  /\ Moving \in Seq(0 .. 255)
         /\ bufLock # Nobody => bufLock \in Process /\ proc[bufLock].pc \in {"take", "poll"}
<1>1. bufLock \in Process \cup {Nobody}
      /\ \A p \in Process : bufLock = p => proc[p].pc \in {"take", "poll"}
  BY DEF IInv, CallsInv, LockInv
<1>2. CASE bufLock = Nobody
  BY <1>2 DEF Moving
<1>3. CASE bufLock # Nobody
  <2>1. bufLock \in Process /\ proc[bufLock].pc \in {"take", "poll"}
    BY <1>1, <1>3
  <2> QED BY <2>1, Reader
<1> QED BY <1>2, <1>3

LEMMA FollowHit ==
  ASSUME IInv, PortInv, FollowInv, HitKey
  PROVE  FollowInv' /\ PortInv'
<1>1. PICK k \in Key : \/ port' = port \o Make[k] /\ T!Hit(k)
                       \/ port' = port \o Break[k] /\ T!LetGo(k)
  BY DEF HitKey
<1>2. Listening /\ UNCHANGED <<kbd, stage, device, taken, bufLock, proc>>
  BY DEF HitKey, setup
<1>3. InputInv /\ Moving \in Seq(0 .. 255) /\ Moving' = Moving
  BY <1>2, MovingIs DEF IInv, Moving, MovedBy, Offset
<1>4. held \subseteq Key /\ capsLock \in BOOLEAN /\ typed \in Seq(0 .. 255) /\ port \in Seq(0 .. 255)
      /\ kbd \in KbdType
  BY <1>3 DEF FollowInv, InputInv, InputType
<1>5. Make[k] \in Seq(0 .. 255) /\ Clean(Make[k]) /\ Break[k] \in Seq(0 .. 255) /\ Clean(Break[k])
  BY KeyBytes
<1>6. PortInv'
  <2>1. PICK more \in Seq(0 .. 255) : Clean(more) /\ port' = port \o more
    BY <1>1, <1>5
  <2>2. stage = Ready \/ stage = EnableReceive
    BY <1>2, Hears
  <2>3. stage = EnableReceive => One(port')
    BY <1>4, <2>1, OneJoined DEF PortInv
  <2>4. stage # <<"getSet", "value">> /\ stage # EnableSend
    BY <2>2, SettledStages
  <2> QED BY <1>2, <2>3, <2>4 DEF PortInv, EnableSend, EnableReceive, Settled, Ready, Alone
<1>7. \E s \in KbdType : IsBare(s) /\ Matches(s, held, capsLock)
  <2>1. ASSUME NEW bytes \in Seq(0 .. 255), NEW moving, NEW n, NEW spelt,
               Pending(kbd, bytes, moving, n, spelt, held, capsLock)
        PROVE  \E s \in KbdType : IsBare(s) /\ Matches(s, held, capsLock)
    <3>1. PICK s \in KbdType, out \in Seq(0 .. 255) :
            Decodes(kbd, bytes, s, out) /\ Matches(s, held, capsLock)
      BY <2>1 DEF Pending
    <3>2. IsBare(s)
      BY <1>4, <3>1, DecodesTyped DEF IsBare
    <3> QED BY <3>1, <3>2
  <2>2. CASE stage = Ready
    BY <1>4, <2>1, <2>2 DEF FollowInv
  <2>3. CASE stage = EnableReceive /\ \E i : Answering(i)
    <3>1. PICK i : Answering(i)
      BY <2>3
    <3>2. Behind(port, i) \in Seq(0 .. 255)
      <4>1. i \in DOMAIN port
        BY <3>1 DEF Answering
      <4> QED BY <1>4, <4>1, BehindJoin, ZenonT(40)
    <3>3. Pending(kbd, Behind(port, i), <<>>, 0, typed, held, capsLock)
      BY <2>3, <3>1 DEF FollowInv
    <3> QED BY <2>1, <3>2, <3>3
  <2> QED BY <1>2, <2>2, <2>3, Hears
<1>8. CASE port' = port \o Make[k] /\ T!Hit(k)
  <2>1. Turns(Make[k], T!Spelling(k))
    BY <1>4, <1>8, HitDecodes DEF Turns
  <2>2. T!Spelling(k) \in Seq(0 .. 255)
    BY <1>5, <1>7, <2>1, DecodesTyped DEF Turns
  <2>3. typed' = typed \o T!Spelling(k) /\ held' \subseteq Key /\ capsLock' \in BOOLEAN
    BY <1>4, <1>8 DEF T!Hit
  <2> DEFINE w == T!Spelling(k)
             more == Make[k]
  <2>4. /\ w \in Seq(0 .. 255) /\ more \in Seq(0 .. 255) /\ Clean(more)
        /\ port' = port \o more /\ typed' = typed \o w
        /\ held' \subseteq Key /\ capsLock' \in BOOLEAN
        /\ Turns(more, w)
    BY <1>5, <1>8, <2>1, <2>2, <2>3, Zenon
  <2> HIDE DEF w, more
  <2> QED BY <1>2, <1>3, <1>6, <2>4, FollowMore
<1>9. CASE port' = port \o Break[k] /\ T!LetGo(k)
  <2>1. Turns(Break[k], <<>>)
    BY <1>4, <1>9, GoDecodes DEF Turns
  <2>2. typed' = typed \o <<>>
    BY <1>4, <1>9, ConcatEmptySeq DEF T!LetGo
  <2>3. held' \subseteq Key /\ capsLock' \in BOOLEAN /\ <<>> \in Seq(0 .. 255)
    BY <1>4, <1>9 DEF T!LetGo
  <2> DEFINE more == Break[k]
  <2>4. /\ <<>> \in Seq(0 .. 255) /\ more \in Seq(0 .. 255) /\ Clean(more)
        /\ port' = port \o more /\ typed' = typed \o <<>>
        /\ held' \subseteq Key /\ capsLock' \in BOOLEAN
        /\ Turns(more, <<>>)
    BY <1>5, <1>9, <2>1, <2>2, <2>3, Zenon
  <2> HIDE DEF more
  <2> QED BY <1>2, <1>3, <1>6, <2>4, FollowMore
<1> QED BY <1>1, <1>6, <1>8, <1>9

-----------------------------------------------------------------------------

(* A step that leaves the keyboard and the read in progress alone.         *)
LEMMA FollowKept ==
  ASSUME IInv, FollowInv, UNCHANGED <<setup, input, keys>>,
         \A q \in Process : proc[q].pc \in {"take", "poll"} => proc'[q] = proc[q]
  PROVE  FollowInv'
<1>1. UNCHANGED <<kbd, port, taken, held, capsLock, typed, stage, bufLock>>
  BY DEF setup, input, keys
<1>2. Moving' = Moving
  <2>1. CASE bufLock = Nobody
    BY <1>1, <2>1 DEF Moving
  <2>2. CASE bufLock # Nobody
    <3>1. proc'[bufLock] = proc[bufLock]
      BY <2>2, MovingIs
    <3> QED BY <1>1, <2>2, <3>1 DEF Moving, MovedBy, Offset
  <2> QED BY <2>1, <2>2
<1>3. \A i : (Answering(i)' <=> Answering(i)) /\ Behind(port', i) = Behind(port, i)
  BY <1>1 DEF Answering
<1>4. \A i : Pending(kbd, Behind(port, i), <<>>, 0, typed, held, capsLock)'
             <=> Pending(kbd, Behind(port, i), <<>>, 0, typed, held, capsLock)
  BY <1>1
<1>5. Pending(kbd, port, Moving, taken, typed, held, capsLock)'
      <=> Pending(kbd, port, Moving, taken, typed, held, capsLock)
  BY <1>1, <1>2
<1>6. (Silence' <=> Silence) /\ (Untouched(kbd)' <=> Untouched(kbd))
  BY <1>1 DEF Silence
<1> QED BY <1>1, <1>3, <1>4, <1>5, <1>6 DEF FollowInv, Ready, Alone, EnableReceive

(* While the keyboard is up and its settings stay, nothing is left of      *)
(* PortInv but that no test runs.                                          *)
LEMMA PortKept ==
  ASSUME PortInv, stage = Ready, UNCHANGED setup
  PROVE  PortInv'
<1>1. stage' = Ready /\ device' = device /\ ~device.testing
  BY SettledStages DEF setup, PortInv
<1> QED BY <1>1, SettledStages DEF PortInv, Settled, EnableSend, EnableReceive, Ready, Alone

(* A step changes the call that makes it and no other.                     *)
LEMMA OnlyOwn ==
  ASSUME IInv, NEW p \in Process, Steps(p)
  PROVE  \A q \in Process \ {p} : proc'[q] = proc[q]
<1>1. proc \in [Process -> CallType]
  BY DEF IInv, CallsInv, FitsInv
<1>2. CASE Write(p)
  BY <1>1, <1>2 DEF Write, Goto
<1>3. CASE Put(p)
  BY <1>1, <1>3 DEF Put
<1>4. CASE Written(p)
  BY <1>1, <1>4 DEF Written, Ends
<1> QED BY <1>2, <1>3, <1>4, OtherSteps DEF Beside

(* The bytes that a read moves are those it takes from the buffer.         *)
LEMMA TakeMoves ==
  ASSUME IInv, FollowInv, NEW p \in Process, Take(p)
  PROVE  /\ Pending(kbd', port, MovedBy(proc'[p]), taken, typed, held, capsLock)
         /\ kbd' \in KbdType /\ MovedBy(proc'[p]) \in Seq(0 .. 255)
         /\ Len(MovedBy(proc'[p])) = proc'[p].moved /\ proc'[p].moved \in Nat
         /\ proc'[p].call = proc[p].call /\ proc'[p].kfd = proc[p].kfd
         /\ \/ /\ proc'[p].pc = "retDesc" /\ proc'[p].status = "done"
               /\ proc'[p].moved = proc[p].call.count
               /\ bufLock' = Nobody /\ taken' = taken + proc[p].call.count
            \/ /\ proc'[p].pc = "poll" /\ proc'[p].status = proc[p].status
               /\ bufLock' = bufLock /\ taken' = taken
<1> DEFINE m == proc[p].moved
           o == Offset(proc[p].call)
           t == kbd.bufTerm
           want == proc[p].call.count - m
           n == IF Len(t) >= want THEN want ELSE Len(t)
           area == [i \in DOMAIN proc[p].area |->
                     IF i - (o + m) \in 1 .. n THEN t[i - (o + m)] ELSE proc[p].area[i]]
           done == [proc[p] EXCEPT !.area = area, !.status = "done", !.moved = @ + n, !.pc = "retDesc"]
           on == [proc[p] EXCEPT !.area = area, !.moved = @ + n, !.pc = "poll"]
<1>1. /\ proc[p].pc = "take"
      /\ kbd' = [kbd EXCEPT !.bufTerm = SubSeq(@, n + 1, Len(@))]
      /\ \/ n = want /\ bufLock' = Nobody /\ proc' = [proc EXCEPT ![p] = done]
            /\ taken' = taken + proc[p].call.count
         \/ n # want /\ bufLock' = bufLock /\ proc' = [proc EXCEPT ![p] = on] /\ taken' = taken
  BY DEF Take, Of, In
<1>2. /\ bufLock = p /\ Moving = MovedBy(proc[p]) /\ stage = Ready
      /\ proc[p] \in CallType /\ o \in Nat /\ proc[p].call.count \in Nat /\ m \in Nat
      /\ m <= proc[p].call.count /\ proc[p].area \in Seq(0 .. 255)
      /\ o + proc[p].call.count <= Len(proc[p].area)
      /\ MovedBy(proc[p]) \in Seq(0 .. 255) /\ Len(MovedBy(proc[p])) = m
  BY <1>1, Reader, ZenonT(40)
<1>3. InputInv /\ kbd \in KbdType /\ port \in Seq(0 .. 255)
  BY DEF IInv, InputInv, InputType
<1>4. t \in Seq(0 .. 255) /\ Len(t) \in Nat
  <2>1. t \in Seq(0 .. 255)
    BY <1>3 DEF KbdType
  <2> HIDE DEF t
  <2> QED BY <2>1, LenProperties
<1>5. n \in 0 .. Len(t) /\ n \in Nat /\ m + n \in Nat /\ m + n <= proc[p].call.count
      /\ (n = want => m + n = proc[p].call.count)
  <2> DEFINE k == proc[p].call.count
             l == Len(t)
  <2>1. k \in Nat /\ l \in Nat /\ m \in Nat /\ m <= k
    BY <1>2, <1>4
  <2>2. n = IF l >= k - m THEN k - m ELSE l
    OBVIOUS
  <2> HIDE DEF k, l, m, n
  <2>3. /\ n \in 0 .. l /\ n \in Nat /\ m + n \in Nat /\ m + n <= k
        /\ (n = k - m => m + n = k)
    BY <2>1, <2>2
  <2> QED BY <2>3 DEF k, l
<1>6. proc \in [Process -> CallType]
  BY DEF IInv, CallsInv, FitsInv
<1>7. /\ proc'[p].area = area /\ proc'[p].moved = m + n
      /\ proc'[p].call = proc[p].call /\ proc'[p].kfd = proc[p].kfd
      /\ \/ /\ proc'[p].pc = "retDesc" /\ proc'[p].status = "done" /\ m + n = proc[p].call.count
            /\ bufLock' = Nobody /\ taken' = taken + proc[p].call.count
         \/ /\ proc'[p].pc = "poll" /\ proc'[p].status = proc[p].status
            /\ bufLock' = bufLock /\ taken' = taken
  <2> HIDE DEF area, n
  <2>1. CASE n = want
    <3>1. proc'[p] = done
      BY <1>1, <1>6, <2>1
    <3> QED BY <1>1, <1>2, <1>5, <2>1, <3>1 DEF CallType
  <2>2. CASE n # want
    <3>1. proc'[p] = on
      BY <1>1, <1>6, <2>2
    <3> QED BY <1>1, <1>2, <1>5, <2>2, <3>1 DEF CallType
  <2> QED BY <2>1, <2>2
<1> DEFINE first == SubSeq(t, 1, n)
           rest == SubSeq(t, n + 1, Len(t))
<1>8. first \in Seq(0 .. 255) /\ Len(first) = n /\ t = first \o rest /\ rest \in Seq(0 .. 255)
  <2> HIDE DEF t, n
  <2> QED BY <1>4, <1>5, Cut, Dropped, ZenonT(40)
<1>9. kbd' \in KbdType /\ kbd'.bufTerm = rest /\ Bare(kbd') = Bare(kbd)
  <2>1. kbd' = [kbd EXCEPT !.bufTerm = rest]
    BY <1>1
  <2> HIDE DEF rest
  <2>2. kbd' \in KbdType /\ kbd'.bufTerm = rest
    BY <1>3, <1>8, <2>1, ZenonT(40) DEF KbdType
  <2>3. Bare(kbd') = Bare(kbd)
    BY <1>3, <2>1 DEF Bare, KbdType
  <2> QED BY <2>2, <2>3
<1>10. MovedBy(proc'[p]) = MovedBy(proc[p]) \o first
  <2>1. area = Filled(proc[p].area, t, n, o + m)
    BY DEF Filled
  <2>2. MovedBy(proc'[p]) = SubSeq(area, o + 1, o + (m + n))
    BY <1>7 DEF MovedBy
  <2>3. MovedBy(proc[p]) = SubSeq(proc[p].area, o + 1, o + m)
    BY DEF MovedBy
  <2> DEFINE a == proc[p].area
  <2>4. o + (m + n) <= Len(a)
    <3>1. Len(a) \in Nat
      BY <1>2, LenProperties
    <3> HIDE DEF o, m, n, a
    <3> QED BY <1>2, <1>5, <3>1, SMTT(40) DEF a
  <2>5. MovesBoth(a, t, o, m, n)
    <3> DEFINE Byte == 0 .. 255
    <3>1. MovesWithin(Byte, a, t, o, m, n)
      BY <1>2, <1>4, <1>5, <2>4 DEF MovesWithin
    <3> HIDE DEF o, m, n, a, t, Byte
    <3> QED BY <3>1, MovedMore, Zenon
  <2>6. SubSeq(Filled(a, t, n, o + m), o + 1, o + (m + n)) = SubSeq(a, o + 1, o + m) \o SubSeq(t, 1, n)
    BY <2>5 DEF MovesBoth
  <2> QED BY <2>1, <2>2, <2>3, <2>6
<1> HIDE DEF t, n, first, rest, area
<1>11. Pending(kbd, port, MovedBy(proc[p]), taken, typed, held, capsLock)
  BY <1>2 DEF FollowInv
<1>12. kbd.bufTerm = first \o kbd'.bufTerm
  BY <1>8, <1>9 DEF t
<1>13. Pending(kbd', port, MovedBy(proc[p]) \o first, taken, typed, held, capsLock)
  BY <1>2, <1>3, <1>8, <1>9, <1>11, <1>12, PendingTaken, ZenonT(40)
<1>14. MovedBy(proc[p]) \o first \in Seq(0 .. 255) /\ Len(MovedBy(proc[p]) \o first) = m + n
  BY <1>2, <1>8, BytesJoin, ZenonT(40)
<1>15. /\ MovedBy(proc'[p]) \in Seq(0 .. 255) /\ Len(MovedBy(proc'[p])) = proc'[p].moved
       /\ proc'[p].moved \in Nat
  BY <1>5, <1>7, <1>10, <1>14
<1>16. Pending(kbd', port, MovedBy(proc'[p]), taken, typed, held, capsLock)
  BY <1>10, <1>13
<1>17. \/ /\ proc'[p].pc = "retDesc" /\ proc'[p].status = "done"
          /\ proc'[p].moved = proc[p].call.count
          /\ bufLock' = Nobody /\ taken' = taken + proc[p].call.count
       \/ /\ proc'[p].pc = "poll" /\ proc'[p].status = proc[p].status
          /\ bufLock' = bufLock /\ taken' = taken
  BY <1>7
<1> QED BY <1>7, <1>9, <1>15, <1>16, <1>17

LEMMA FollowTake ==
  ASSUME IInv, FollowInv, NEW p \in Process, Take(p)
  PROVE  /\ FollowInv'
         /\ proc'[p].pc = "retDesc" =>
              /\ NextBytes(typed, taken, MovedBy(proc'[p]))
              /\ Len(MovedBy(proc'[p])) = proc[p].call.count
              /\ taken' = taken + proc[p].call.count
              /\ proc'[p].moved = proc[p].call.count
<1> DEFINE moving == MovedBy(proc'[p])
           count == proc[p].call.count
<1>1. /\ stage = Ready /\ stage' = Ready /\ port' = port /\ UNCHANGED <<held, capsLock, typed>>
  <2>1. In(p, "take")
    BY DEF Take
  <2>2. stage = Ready
    BY <2>1, Finds DEF Labels
  <2> QED BY <2>2 DEF Take, Others, setup, keys
<1>2. /\ Pending(kbd', port, moving, taken, typed, held, capsLock)
      /\ kbd' \in KbdType /\ moving \in Seq(0 .. 255)
      /\ Len(moving) = proc'[p].moved
      /\ \/ /\ proc'[p].pc = "retDesc" /\ proc'[p].moved = count
            /\ bufLock' = Nobody /\ taken' = taken + count
         \/ proc'[p].pc = "poll" /\ bufLock' = bufLock /\ taken' = taken
  BY TakeMoves
<1>3. bufLock = p /\ p # Nobody /\ count \in Nat
  <2>1. proc[p].pc = "take"
    BY DEF Take, In
  <2> QED BY <2>1, Reader
<1>4. /\ held' \subseteq Key /\ capsLock' \in BOOLEAN /\ typed' \in Seq(0 .. 255) /\ taken \in Nat
  BY <1>1 DEF FollowInv
<1>5. stage' = Ready /\ stage' # EnableReceive
  BY <1>1, Hears
<1> HIDE DEF moving, count
<1>6. ASSUME taken' \in Nat, Pending(kbd', port', Moving', taken', typed', held', capsLock')
      PROVE  FollowInv'
  BY <1>4, <1>5, <1>6 DEF FollowInv, Ready, Alone, EnableReceive
<1>7. CASE proc'[p].pc = "poll"
  <2>1. bufLock' = p /\ taken' = taken
    BY <1>2, <1>3, <1>7
  <2>2. Moving' = moving
    BY <1>3, <2>1 DEF Moving, MovedBy, Offset, moving
  <2>3. Pending(kbd', port', Moving', taken', typed', held', capsLock')
    BY <1>1, <1>2, <2>1, <2>2
  <2> QED BY <1>4, <1>6, <1>7, <2>1, <2>3
<1>8. CASE proc'[p].pc = "retDesc"
  <2>1. bufLock' = Nobody /\ taken' = taken + count /\ Len(moving) = count /\ proc'[p].moved = count
    BY <1>2, <1>8
  <2>2. /\ Pending(kbd', port, <<>>, taken + Len(moving), typed, held, capsLock)
        /\ NextBytes(typed, taken, moving)
    BY <1>2, <1>4, PendingDone, ZenonT(40)
  <2>3. Moving' = <<>>
    BY <2>1 DEF Moving
  <2>4. Pending(kbd', port', Moving', taken', typed', held', capsLock')
    BY <1>1, <2>1, <2>2, <2>3
  <2>5. taken' \in Nat
    BY <1>3, <1>4, <2>1
  <2>6. FollowInv'
    BY <1>6, <2>4, <2>5
  <2> QED BY <2>1, <2>2, <2>6 DEF moving, count
<1> QED BY <1>2, <1>7, <1>8

(* A byte of the port is processed: it is the next of those pending.       *)
LEMMA FollowPoll ==
  ASSUME IInv, FollowInv, NEW p \in Process, Poll(p)
  PROVE  FollowInv'
<1>1. /\ In(p, "poll") /\ port # <<>> /\ port' = Tail(port)
      /\ UNCHANGED <<setup, bufLock, taken, keys>>
  BY DEF Poll, Others
<1>2. stage = Ready /\ proc[p].pc = "poll" /\ CallsInv /\ InputInv /\ FitsInv
  BY <1>1, Finds DEF Labels
<1>3. kbd.bufTerm = <<>> /\ kbd.set = 2 /\ kbd \in KbdType /\ port \in Seq(0 .. 255)
  BY <1>2, ReadyIsTwo DEF CallsInv, PollInv, InputInv, InputType
<1>4. Processable(kbd, Head(port))
  BY <1>3, RoomForOne
<1>5. kbd' = Processed(kbd, Head(port)) /\ Goto(p, "take")
  BY <1>3, <1>4 DEF Poll
<1>6. bufLock = p /\ p # Nobody
  BY <1>2, Reader
<1>7. Moving' = Moving
  <2>1. /\ proc'[p].area = proc[p].area /\ proc'[p].call = proc[p].call
        /\ proc'[p].moved = proc[p].moved
    BY <1>2, <1>5 DEF Goto, FitsInv, CallType
  <2>2. bufLock' = p
    BY <1>1, <1>6
  <2> QED BY <1>6, <2>1, <2>2 DEF Moving, MovedBy, Offset
<1>8. Pending(kbd, port, Moving, taken, typed, held, capsLock)
  BY <1>2 DEF FollowInv
<1>9. Pending(Processed(kbd, Head(port)), Tail(port), Moving, taken, typed, held, capsLock)
  BY <1>1, <1>3, <1>8, PendingNext, ZenonT(40) DEF IsBare
<1>10. UNCHANGED <<held, capsLock, typed, taken, stage>>
  BY <1>1 DEF keys, setup
<1>11. Pending(kbd', port', Moving', taken', typed', held', capsLock')
  BY <1>1, <1>5, <1>7, <1>9, <1>10
<1>12. stage' = Ready /\ stage' # EnableReceive
  BY <1>2, <1>10, Hears
<1> QED BY <1>10, <1>11, <1>12 DEF FollowInv, Ready, Alone, EnableReceive

(* A read begins with no byte moved.                                       *)
LEMMA FollowRead ==
  ASSUME IInv, FollowInv, NEW p \in Process, Read(p)
  PROVE  FollowInv'
<1>1. /\ In(p, "driver") /\ UNCHANGED <<setup, keys, kbd, port, taken>>
  BY DEF Read, Calls, Others
<1>2. stage = Ready /\ proc[p].pc = "driver" /\ CallsInv /\ FitsInv /\ CallFits(proc[p])
      /\ proc[p].call \in Request
  BY <1>1, Finds DEF Labels
<1>3. CASE bufLock' = bufLock
  <2>1. \A q \in Process : proc[q].pc \in {"take", "poll"} => proc'[q] = proc[q]
    <3>1. Steps(p)
      BY DEF Steps
    <3> QED BY <1>2, <3>1, OnlyOwn
  <2> QED BY <1>1, <1>3, <2>1, FollowKept DEF input
<1>4. CASE bufLock' # bufLock
  <2>1. bufLock = Nobody /\ bufLock' = p /\ p # Nobody /\ Goto(p, "take")
    BY <1>4, ConsoleAssumption DEF Read
  <2>2. proc'[p].moved = 0 /\ proc'[p].area = proc[p].area /\ proc'[p].call = proc[p].call
    BY <1>2, <2>1 DEF Goto, FitsInv, CallType, CallFits
  <2>3. Moving = <<>> /\ Moving' = SubSeq(proc[p].area, Offset(proc[p].call) + 1, Offset(proc[p].call) + 0)
    BY <2>1, <2>2 DEF Moving, MovedBy, Offset
  <2>4. Moving' = <<>>
    <3> DEFINE o == Offset(proc[p].call)
               a == proc[p].area
    <3>1. o \in Nat /\ a \in Seq(0 .. 255)
      BY <1>2, OffsetIs DEF FitsInv, CallType
    <3>2. SubSeq(a, o + 1, o + 0) = <<>>
      <4> HIDE DEF o, a
      <4> QED BY <3>1
    <3> QED BY <2>3, <3>2
  <2>5. Pending(kbd, port, Moving, taken, typed, held, capsLock)
    BY <1>2 DEF FollowInv
  <2>6. UNCHANGED <<held, capsLock, typed, taken, stage, kbd, port>>
    BY <1>1 DEF keys, setup
  <2>7. Pending(kbd', port', Moving', taken', typed', held', capsLock')
    BY <2>3, <2>4, <2>5, <2>6
  <2>8. stage' = Ready /\ stage' # EnableReceive
    BY <1>2, <2>6, Hears
  <2> QED BY <2>6, <2>7, <2>8 DEF FollowInv, Ready, Alone, EnableReceive
<1> QED BY <1>3, <1>4

LEMMA FollowSteps ==
  ASSUME IInv, PortInv, FollowInv, NEW p \in Process, Steps(p)
  PROVE  PortInv' /\ FollowInv'
<1>1. UNCHANGED <<setup, keys>> /\ \E label \in Labels \ {"user"} : In(p, label)
  <2>1. UNCHANGED <<setup, keys>>
    BY DEF Steps, GetUserMem, Fetch, Adjust, Write, Put, Written, Read, Take, Poll, Seek,
           RetDesc, RetMem, Return, Others
  <2>2. \E label \in {"getMem", "fetch", "adjust", "driver", "put", "take", "poll", "retDesc",
                      "retMem", "return"} : In(p, label)
    BY DEF Steps, GetUserMem, Fetch, Adjust, Write, Put, Written, Read, Take, Poll, Seek,
           RetDesc, RetMem, Return, Calls
  <2>3. \A label \in {"getMem", "fetch", "adjust", "driver", "put", "take", "poll", "retDesc",
                      "retMem", "return"} : label \in Labels \ {"user"}
    BY DEF Labels
  <2> QED BY <2>1, <2>2, <2>3
<1>2. stage = Ready
  BY <1>1, Finds
<1>3. PortInv'
  BY <1>1, <1>2, PortKept
<1>4. ASSUME ~Take(p), ~Poll(p), ~Read(p) PROVE FollowInv'
  <2>1. UNCHANGED input /\ proc[p].pc \notin {"take", "poll"}
    BY <1>4 DEF Steps, GetUserMem, Fetch, Adjust, Write, Put, Written, Seek,
           RetDesc, RetMem, Return, Calls, In
  <2>2. \A q \in Process : proc[q].pc \in {"take", "poll"} => proc'[q] = proc[q]
    BY <2>1, OnlyOwn
  <2> QED BY <1>1, <2>1, <2>2, FollowKept
<1> QED BY <1>3, <1>4, FollowTake, FollowPoll, FollowRead

(* No call is made before the keyboard is up, and then it has no holder.   *)
LEMMA NobodyReads ==
  ASSUME IInv, stage # Ready
  PROVE  bufLock = Nobody
<1>1. \A p \in Process : proc[p].pc = "user"
  BY DEF IInv, CallsInv, ReadyInv
<1> QED BY <1>1 DEF IInv, CallsInv, LockInv

LEMMA FollowBringsUp ==
  ASSUME IInv, PortInv, FollowInv, BringsUp
  PROVE  PortInv' /\ FollowInv'
<1>1. /\ InputInv /\ BringUp /\ UNCHANGED <<held, capsLock, typed, taken>>
      /\ UNCHANGED <<bufLock, proc, keys>>
  BY DEF IInv, BringsUp, keys
<1>2. PortInv'
  BY <1>1, PortStep
<1>3. CASE stage # Ready
  <2>1. bufLock' = Nobody
    BY <1>1, <1>3, NobodyReads
  <2> QED BY <1>1, <1>2, <2>1, FollowBringUp
<1>4. CASE stage = Ready
  <2>1. (TestEnds \/ Stray) /\ ~device.testing
    BY <1>1, <1>4, StaysReady, SettledStages DEF PortInv
  <2>2. FALSE
    <3>1. Listening
      BY <1>4 DEF Listening
    <3>2. ~Stray /\ ~TestEnds
      BY <2>1, <3>1 DEF Stray, TestEnds
    <3> QED BY <2>1, <3>2
  <2> QED BY <2>2
<1> QED BY <1>3, <1>4

LEMMA FollowStarts ==
  ASSUME Init
  PROVE  PortInv /\ FollowInv
<1>1. /\ stage \in Early /\ stage \notin Settled /\ stage # Ready /\ kbd \in KbdType
  BY StageSet, SettledStages, InputStarts DEF Init, KeyboardInit, InputInv, InputType
<1>2. PortInv
  BY <1>1 DEF PortInv, Settled
<1>3. stage # EnableReceive
  BY <1>1, SettledStages
<1>4. Sides({}) = {} /\ Names({}) = {}
  BY DEF Sides, Names, HeldModifiers
<1>5. Untouched(kbd)
  BY <1>4 DEF Init, KeyboardInit, Untouched, IsBare, Matches, Waits
<1>6. Silence /\ taken = 0 /\ capsLock = FALSE /\ held = {} /\ typed \in Seq(0 .. 255)
  BY DEF Init, Silence
<1> QED BY <1>1, <1>2, <1>3, <1>5, <1>6 DEF FollowInv

LEMMA Following ==
  ASSUME IInv, PortInv, FollowInv, [Next]_vars
  PROVE  PortInv' /\ FollowInv'
<1>1. CASE BringsUp
  BY <1>1, FollowBringsUp
<1>2. CASE HitKey
  BY <1>2, FollowHit
<1>3. ASSUME NEW p \in Process, NEW req \in Request, Call(p, req) PROVE PortInv' /\ FollowInv'
  <2> DEFINE c == [AtRest EXCEPT !.pc = IF req.nr = "lseek" THEN "fetch" ELSE "getMem",
                                 !.call = req, !.status = "asked"]
  <2>1. /\ proc[p].pc = "user" /\ stage = Ready /\ UNCHANGED <<setup, input, keys>>
        /\ proc' = [proc EXCEPT ![p] = c]
    BY <1>3 DEF Call, In
  <2> HIDE DEF c
  <2>2. \A q \in Process : proc[q].pc \in {"take", "poll"} => proc'[q] = proc[q]
    BY <2>1 DEF IInv, CallsInv, FitsInv
  <2> QED BY <2>1, <2>2, PortKept, FollowKept
<1>4. ASSUME NEW p \in Process, Steps(p) PROVE PortInv' /\ FollowInv'
  BY <1>4, FollowSteps
<1>5. ASSUME NEW p \in Process, NEW q \in Process, Fork(p, q) PROVE PortInv' /\ FollowInv'
  <2>1. stage = Ready /\ UNCHANGED <<setup, input, keys, proc>>
    BY <1>5 DEF Fork
  <2> QED BY <2>1, PortKept, FollowKept
<1>6. CASE UNCHANGED vars
  <2>1. UNCHANGED <<setup, input, keys, proc>>
    BY <1>6 DEF vars
  <2>2. PortInv'
    BY <2>1, ZenonT(40) DEF PortInv, Clean, One, setup, input, Settled, EnableSend, EnableReceive, Ready, Alone
  <2> QED BY <2>1, <2>2, FollowKept
<1> QED BY <1>1, <1>2, <1>3, <1>4, <1>5, <1>6 DEF Next, Programs

LEMMA Followed == Spec => [](PortInv /\ FollowInv)
<1>1. Init => PortInv /\ FollowInv
  BY FollowStarts
<1>2. IInv /\ PortInv /\ FollowInv /\ [Next]_vars => (PortInv /\ FollowInv)'
  BY Following
<1> QED BY <1>1, <1>2, Invariance, PTL DEF Spec

(* ModifiersFollowKeys: the driver's flags for shift, ctrl, alt and caps   *)
(* lock are those of the keys that are held, whichever keys of however     *)
(* many are hit and released in whatever order, on both sides of the       *)
(* keyboard, and however the reads of programs cut up the bytes, whenever  *)
(* the driver has seen all of them.                                        *)
THEOREM ModifiersFollow == Spec => []ModifiersFollowKeys
<1>1. IInv /\ FollowInv => ModifiersFollowKeys
  <2>1. SUFFICES ASSUME IInv, FollowInv, stage = Ready, port = <<>>
                 PROVE  /\ kbd.on = {m \in {"shift", "ctrl", "alt"} : T!Holding(m)}
                        /\ kbd.capL = capsLock /\ kbd.state = 0
    BY DEF ModifiersFollowKeys
  <2>2. kbd \in KbdType /\ Pending(kbd, <<>>, Moving, taken, typed, held, capsLock)
    BY <2>1 DEF IInv, InputInv, InputType, FollowInv
  <2>3. Matches(kbd, held, capsLock)
    BY <2>2, PendingNothing
  <2>4. kbd.on = {m \in {"shift", "ctrl", "alt"} : T!Holding(m)}
    BY <2>3 DEF Matches, Names, HeldModifiers, T!Holding
  <2> QED BY <2>3, <2>4 DEF Matches, Waits
<1> QED BY <1>1, Invariance, Followed, PTL

-----------------------------------------------------------------------------

(* What a descriptor leads to, and the driver of what it leads to.         *)
Opens(fd, k) == (fd \in 0 .. 2 /\ k = 1) \/ (fd \in 3 .. 6 /\ k \in 2 .. 5)

LEMMA DescriptorOpens ==
  ASSUME DescInv, NEW p \in alive, NEW fd \in Int
  PROVE  IF fd \in 0 .. 6 THEN Opens(fd, Map_fetch(fd, desctors[p]))
         ELSE Map_fetch(fd, desctors[p]) = Absent
<1>1. desctors[p] \in MapOf(DescriptorType) /\ Members(desctors[p]) = FirstDescs
  BY DEF DescInv
<1>2. \A d \in FirstDescs : Opens(d.key, d.value) /\ d.key \in 0 .. 6
  BY DEF FirstDescs, Pair, Opens
<1>3. \A j \in 0 .. 6 : \E d \in FirstDescs : d.key = j
  BY DEF FirstDescs, Pair
<1>4. CASE fd \in 0 .. 6
  <2>1. PICK d \in FirstDescs : d.key = fd
    BY <1>3, <1>4
  <2>2. Map_fetch(fd, desctors[p]) = d.value
    BY <1>1, <2>1, Fetches
  <2> QED BY <1>2, <1>4, <2>1, <2>2
<1>5. CASE fd \notin 0 .. 6
  <2>1. fd \notin Keys(desctors[p])
    BY <1>1, <1>2, <1>5, KeyHas
  <2> QED BY <1>1, <1>5, <2>1, NotFound
<1> QED BY <1>4, <1>5

LEMMA DriversAre ==
  ASSUME DescInv
  PROVE  /\ Map_fetch(1, kfdDriverMap) = "VGATerminal"
         /\ \A k \in 2 .. 5 : Map_fetch(k, kfdDriverMap) = "ATA"
<1> DEFINE pairs == <<<<1, "VGATerminal">>, <<2, "ATA">>, <<3, "ATA">>, <<4, "ATA">>, <<5, "ATA">>>>
           D == (1 .. 5) \X {"VGATerminal", "ATA"}
           E == [key : 1 .. 5, value : {"VGATerminal", "ATA"}]
           map == Map_of(pairs)
<1>1. /\ pairs \in Seq(D) /\ Len(pairs) = 5
      /\ \A i \in 1 .. 5 : pairs[i][1] = i /\ pairs[i][2] \in {"VGATerminal", "ATA"}
      /\ pairs[1][2] = "VGATerminal" /\ \A i \in 2 .. 5 : pairs[i][2] = "ATA"
  OBVIOUS
<1> HIDE DEF pairs
<1>2. \A i \in 1 .. Len(pairs) : Pair(pairs[i][1], pairs[i][2]) \in E
  BY <1>1 DEF Pair
<1>3. \A i, j \in 1 .. Len(pairs) : pairs[i][1] = pairs[j][1] => i = j
  BY <1>1
<1> HIDE DEF D, E
<1>4. /\ map \in MapOf(E)
      /\ Members(map) = {Pair(pairs[i][1], pairs[i][2]) : i \in 1 .. Len(pairs)}
  BY <1>1, <1>2, <1>3, MapOfPairs
<1> HIDE DEF map
<1>5. \A k, v : Pair(k, v).key = k /\ Pair(k, v).value = v
  BY DEF Pair
<1>6. ASSUME NEW i \in 1 .. 5 PROVE Map_fetch(i, map) = pairs[i][2]
  <2>1. Pair(i, pairs[i][2]) \in Members(map)
    BY <1>1, <1>4
  <2>2. Map_fetch(Pair(i, pairs[i][2]).key, map) = Pair(i, pairs[i][2]).value
    BY <1>4, <2>1, Fetches
  <2> QED BY <1>5, <2>2
<1>7. kfdDriverMap = map
  BY DEF DescInv, map, pairs
<1>8. Map_fetch(1, map) = "VGATerminal"
  BY <1>1, <1>6
<1>9. \A k \in 2 .. 5 : Map_fetch(k, map) = "ATA"
  BY <1>1, <1>6
<1> QED BY <1>7, <1>8, <1>9

(* How a call stands for its program, as Teletype has it (Doing).          *)
Area(c) == SubSeq(c.area, Offset(c.call) + 1, Offset(c.call) + c.call.count)
BytesOf(c) == IF c.status = "done" /\ c.call.nr \in {"read", "_llseek"} THEN Area(c) ELSE <<>>
Stands(c) == [req |-> c.call, status |-> c.status, bytes |-> BytesOf(c)]

LEMMA DoingIs ==
  /\ Doing = [q \in Process |-> Stands(proc[q])]
  /\ Doing' = [q \in Process |-> Stands(proc'[q])]
BY DEF Doing, Stands, BytesOf, Area, Of, Got, MovedBytes, Offset

LEMMA DoingGoes ==
  ASSUME FitsInv, NEW p \in Process, NEW c, Goes(p, c)
  PROVE  /\ Doing[p] = Stands(proc[p])
         /\ Doing' = [Doing EXCEPT ![p] = Stands(c)]
         /\ Stands(c) = Stands(proc[p]) => Doing' = Doing
<1>1. proc'[p] = c /\ \A q \in Process \ {p} : proc'[q] = proc[q]
  BY DEF FitsInv, Goes
<1>2. Doing' = [Doing EXCEPT ![p] = Stands(c)]
  BY <1>1, DoingIs
<1> QED BY <1>2, DoingIs

(* What the bytes of a write and of a tell are: those of the program's     *)
(* memory, and zeros.                                                      *)
Meant(req, mem) ==
  [i \in 1 .. req.count |-> IF req.nr = "write" THEN mem[req.addr + i - 1] ELSE 0]

(* What a call has told or will tell its program: nothing while it is on   *)
(* its way; where it has a description, that of its descriptor; and the    *)
(* bytes it carries are those that it is to print, or to bring back.       *)
Told(c, mem) ==
  /\ c.pc = "user" => c = AtRest
  /\ c.pc \in {"getMem", "fetch", "adjust", "driver", "put", "take", "poll"} => c.status = "asked"
  /\ c.pc \in {"retDesc", "retMem", "return"} => c.status \notin {"none", "asked"}
  /\ c.pc = "return" => c.call.nr = "lseek" \/ c.status # "done"
  /\ c.pc \in {"adjust", "driver", "put", "take", "poll"} => Opens(c.call.fd, c.kfd)
  /\ c.pc \in {"put", "take", "poll"} => c.kfd = 1
  /\ c.pc \in {"fetch", "adjust", "driver", "put"} /\ c.call.nr \in {"write", "_llseek"} =>
       Area(c) = Meant(c.call, mem)

ToldInv == \A p \in Process : Told(proc[p], memory[p]) /\ (proc[p].pc # "user" => p \in alive)

LEMMA ToldGoes ==
  ASSUME IInv, ToldInv, NEW p \in Process, NEW c, Goes(p, c), UNCHANGED <<memory, alive>>,
         Told(c, memory[p]), p \in alive
  PROVE  ToldInv'
<1>1. proc'[p] = c /\ \A q \in Process \ {p} : proc'[q] = proc[q]
  BY DEF IInv, CallsInv, FitsInv, Goes
<1> QED BY <1>1 DEF ToldInv

(* A step that no program notices.                                         *)
Unnoticed == UNCHANGED <<keys, taken, paper, alive, memory>>

LEMMA Silently ==
  ASSUME IInv, ToldInv, NEW p \in Process, NEW c, Goes(p, c), Unnoticed, p \in alive,
         Told(c, memory[p]), Stands(c) = Stands(proc[p])
  PROVE  ToldInv' /\ UNCHANGED T!vars
<1>1. Doing' = Doing
  BY DoingGoes DEF IInv, CallsInv
<1>2. ToldInv'
  BY ToldGoes DEF Unnoticed
<1> QED BY <1>1, <1>2 DEF Unnoticed, T!vars, keys

LEMMA StopsSilently ==
  ASSUME ToldInv, Unnoticed, proc' = proc
  PROVE  ToldInv' /\ UNCHANGED T!vars
<1>1. Doing' = Doing
  BY DoingIs
<1>2. ToldInv'
  BY DEF ToldInv, Unnoticed
<1> QED BY <1>1, <1>2 DEF Unnoticed, T!vars, keys

(* A step that ends what was asked.                                        *)
LEMMA EndsAs ==
  ASSUME IInv, NEW p \in Process, NEW c, Goes(p, c), UNCHANGED <<keys, alive, memory>>,
         c.call = proc[p].call
  PROVE  T!Ends(p, c.status, BytesOf(c))
<1>1. Doing[p] = Stands(proc[p]) /\ Doing' = [Doing EXCEPT ![p] = Stands(c)]
  BY DoingGoes DEF IInv, CallsInv
<1>2. Stands(c) = [Stands(proc[p]) EXCEPT !.status = c.status, !.bytes = BytesOf(c)]
  <2> DEFINE x == [Stands(proc[p]) EXCEPT !.status = c.status, !.bytes = BytesOf(c)]
  <2>1. x = [req |-> proc[p].call, status |-> c.status, bytes |-> BytesOf(c)]
    <3>1. ASSUME NEW r, NEW s, NEW t, NEW b, NEW d, NEW y,
                 y = [[req |-> r, status |-> s, bytes |-> b] EXCEPT !.status = t, !.bytes = d]
          PROVE  y = [req |-> r, status |-> t, bytes |-> d]
      BY <3>1
    <3>2. x = [[req |-> proc[p].call, status |-> proc[p].status, bytes |-> BytesOf(proc[p])]
               EXCEPT !.status = c.status, !.bytes = BytesOf(c)]
      BY DEF Stands
    <3> HIDE DEF x
    <3> QED BY <3>1, <3>2
  <2> QED BY <2>1 DEF Stands
<1>3. Doing' = [Doing EXCEPT ![p].status = c.status, ![p].bytes = BytesOf(c)]
  <2>1. p \in DOMAIN Doing
    BY DoingIs
  <2> QED BY <1>1, <1>2, <2>1
<1> QED BY <1>3 DEF T!Ends, T!keys, keys

LEMMA FurtherIs ==
  ASSUME NEW c \in CallType, NEW label, NEW status
  PROVE  LET d == Further(c, label, status)
         IN /\ d.pc = label /\ d.status = status /\ d.call = c.call /\ d.kfd = c.kfd
            /\ d.area = c.area /\ d.moved = c.moved
BY DEF Further, CallType

LEMMA SameStands ==
  ASSUME NEW c, NEW d, d.call = c.call, d.status = c.status,
         d.area = c.area \/ c.status # "done"
  PROVE  Stands(d) = Stands(c)
BY DEF Stands, BytesOf, Area, Offset

LEMMA SameArea ==
  ASSUME NEW c, NEW d, d.call = c.call, d.area = c.area
  PROVE  Area(d) = Area(c)
BY DEF Area, Offset

(* A step of the program as Teletype has it.                               *)
Mirrored == ToldInv' /\ (T!Next \/ UNCHANGED T!vars)

LEMMA Mirrors ==
  ASSUME NEW p \in Process, ToldInv',
         \/ \E req \in Request : T!Ask(p, req)
         \/ T!Put(p) \/ T!Get(p) \/ T!Tell(p) \/ T!Refuse(p) \/ T!Answer(p)
         \/ \E q \in Process : T!Fork(p, q)
  PROVE  Mirrored
BY DEF Mirrored, T!Next

(* What every step of a call in the kernel finds of what was told.         *)
LEMMA FindsTold ==
  ASSUME IInv, ToldInv, NEW p \in Process, NEW label \in Labels \ {"user"}, In(p, label)
  PROVE  /\ proc[p].pc = label /\ Told(proc[p], memory[p]) /\ p \in alive
         /\ proc[p] \in CallType /\ CallFits(proc[p]) /\ proc[p].call \in Request
         /\ proc[p].call.fd \in Int /\ proc[p].call.addr \in Int /\ proc[p].call.count \in Nat
         /\ FitsInv /\ DescInv
         /\ Doing[p] = Stands(proc[p])
         /\ proc[p].pc \notin {"user", "getMem", "return"} => ~Fault(proc[p].call)
<1>1. /\ proc[p].pc = label /\ proc[p] \in CallType /\ CallFits(proc[p])
      /\ proc[p].call \in Request /\ FitsInv
  BY Finds
<1>2. Told(proc[p], memory[p]) /\ p \in alive
  BY <1>1 DEF ToldInv
<1>3. proc[p].call.fd \in Int /\ proc[p].call.addr \in Int /\ proc[p].call.count \in Nat
  BY <1>1, ConsoleAssumption
<1>4. proc[p].pc \notin {"user", "getMem", "return"} => ~Fault(proc[p].call)
  <2>1. Holds(proc[p]) => ~Fault(proc[p].call)
    BY <1>1 DEF CallFits
  <2>2. proc[p].call.nr = "lseek" => ~Fault(proc[p].call)
    BY DEF Fault
  <2> QED BY <2>1, <2>2 DEF Holds
<1>5. Doing[p] = Stands(proc[p]) /\ DescInv
  BY DoingIs DEF IInv
<1> QED BY <1>1, <1>2, <1>3, <1>4, <1>5

LEMMA RestStands == Stands(AtRest) = T!Idle
BY DEF Stands, BytesOf, AtRest, NoCall, T!Idle, T!NoRequest

LEMMA CallTold ==
  ASSUME IInv, ToldInv, NEW p \in Process, NEW req \in Request, Call(p, req)
  PROVE  Mirrored
<1> DEFINE label == IF req.nr = "lseek" THEN "fetch" ELSE "getMem"
           c == [AtRest EXCEPT !.pc = label, !.call = req, !.status = "asked"]
<1>1. /\ proc[p].pc = "user" /\ p \in alive /\ Goes(p, c)
      /\ UNCHANGED <<keys, taken, paper, alive, memory>>
  BY DEF Call, In, Goes, input, output
<1>2. /\ label \in {"fetch", "getMem"} /\ (label = "fetch" => req.nr = "lseek")
  OBVIOUS
<1> HIDE DEF label
<1>3. c.pc = label /\ c.call = req /\ c.status = "asked"
  BY DEF AtRest
<1> HIDE DEF c
<1>4. proc[p] = AtRest
  BY <1>1 DEF ToldInv, Told
<1>5. Told(c, memory[p])
  BY <1>2, <1>3 DEF Told
<1>6. ToldInv'
  BY <1>1, <1>5, ToldGoes
<1>7. Doing[p] = T!Idle /\ Doing' = [Doing EXCEPT ![p] = Stands(c)]
  BY <1>1, <1>4, RestStands, DoingGoes DEF IInv, CallsInv
<1>8. Stands(c) = [req |-> req, status |-> "asked", bytes |-> <<>>]
  BY <1>3 DEF Stands, BytesOf
<1>9. T!Ask(p, req)
  BY <1>1, <1>7, <1>8 DEF T!Ask, T!keys, keys
<1> QED BY <1>6, <1>9, Mirrors

(* The bytes of the program's memory, or zeros, are in the area.           *)
LEMMA PassedMeant ==
  ASSUME IInv, NEW p \in Process, proc[p].call \in Request,
         proc[p].call.nr \in {"write", "_llseek"}, ~Fault(proc[p].call),
         NEW c, c.call = proc[p].call, c.area = Passed(p)
  PROVE  Area(c) = Meant(c.call, memory[p])
<1> DEFINE r == proc[p].call
           o == Offset(r)
           n == PageSize * Cardinality(PagesOf(r))
           F(i) == IF r.nr = "write" THEN memory[p][r.addr - o + i - 1] ELSE 0
<1>1. /\ n \in Nat /\ o \in Nat /\ r.count \in Nat /\ r.addr \in Int /\ o + r.count <= n
  BY Span, Sizes, ConsoleAssumption, OffsetIs
<1>2. Passed(p) = [i \in 1 .. n |-> F(i)]
  BY DEF Passed, Of
<1>3. Area(c) = SubSeq(Passed(p), o + 1, o + r.count)
  BY DEF Area
<1> HIDE DEF n, o, r
<1>4. SubSeq(Passed(p), o + 1, o + r.count) = [i \in 1 .. r.count |-> Passed(p)[o + i]]
  BY <1>1
<1>5. ASSUME NEW i \in 1 .. r.count
      PROVE  Passed(p)[o + i] = IF r.nr = "write" THEN memory[p][r.addr + i - 1] ELSE 0
  <2>1. o + i \in 1 .. n /\ r.addr - o + (o + i) - 1 = r.addr + i - 1
    BY <1>1
  <2>2. Passed(p)[o + i] = F(o + i)
    BY <1>2, <2>1
  <2> QED BY <2>1, <2>2
<1>6. Meant(r, memory[p]) = [i \in 1 .. r.count |->
                             IF r.nr = "write" THEN memory[p][r.addr + i - 1] ELSE 0]
  BY DEF Meant
<1>7. Area(c) = Meant(r, memory[p])
  BY <1>3, <1>4, <1>5, <1>6
<1> QED BY <1>7 DEF r

LEMMA GetUserMemTold ==
  ASSUME IInv, ToldInv, NEW p \in Process, GetUserMem(p)
  PROVE  Mirrored
<1>1. In(p, "getMem") /\ UNCHANGED <<keys, taken, paper, alive, memory>>
  BY DEF GetUserMem, input, output
<1>2. /\ proc[p].pc = "getMem" /\ Told(proc[p], memory[p]) /\ p \in alive /\ FitsInv
      /\ proc[p] \in CallType /\ CallFits(proc[p]) /\ proc[p].call \in Request
      /\ Doing[p] = Stands(proc[p])
  BY <1>1, FindsTold DEF Labels
<1>3. proc[p].status = "asked"
  BY <1>2 DEF Told
<1>4. CASE Fault(proc[p].call)
  <2> DEFINE c == Further(proc[p], "return", "EFAULT")
  <2>1. Ends(p, "EFAULT", "return")
    BY <1>4 DEF GetUserMem, Of
  <2>2. Goes(p, c) /\ c.pc = "return" /\ c.status = "EFAULT" /\ c.call = proc[p].call
    BY <1>2, <2>1, EndsGoes, FurtherIs
  <2> HIDE DEF c
  <2>3. Told(c, memory[p])
    BY <2>2 DEF Told
  <2>4. ToldInv'
    BY <1>1, <1>2, <2>2, <2>3, ToldGoes
  <2>5. T!Ends(p, c.status, BytesOf(c))
    BY <1>1, <2>2, EndsAs
  <2>6. BytesOf(c) = <<>>
    BY <2>2 DEF BytesOf
  <2>7. Doing[p].status = "asked" /\ Doing[p].req = proc[p].call
    BY <1>2, <1>3 DEF Stands
  <2>8. T!Refuse(p)
    BY <1>1, <1>4, <2>2, <2>5, <2>6, <2>7 DEF T!Refuse
  <2> QED BY <2>4, <2>8, Mirrors
<1>5. CASE proc' = proc
  BY <1>1, <1>5, StopsSilently DEF Unnoticed, Mirrored
<1>6. ASSUME proc' # proc, ~Fault(proc[p].call) PROVE Mirrored
  <2> DEFINE x == Passed(p)
             c == [proc[p] EXCEPT !.pc = "fetch", !.area = x]
  <2>1. proc' = [proc EXCEPT ![p].pc = "fetch", ![p].area = x]
    BY <1>6 DEF GetUserMem, Of, Stops
  <2> HIDE DEF x
  <2>2. Goes(p, c)
    BY <2>1 DEF Goes
  <2>3. /\ c.pc = "fetch" /\ c.area = x /\ c.call = proc[p].call /\ c.status = "asked"
    BY <1>2, <1>3 DEF CallType
  <2> HIDE DEF c
  <2>4. c.call.nr \in {"write", "_llseek"} => Area(c) = Meant(c.call, memory[p])
    BY <1>2, <1>6, <2>3, PassedMeant DEF x
  <2>5. Told(c, memory[p])
    BY <2>3, <2>4 DEF Told
  <2>6. Stands(c) = Stands(proc[p])
    BY <1>3, <2>3, SameStands
  <2> QED BY <1>1, <1>2, <2>2, <2>5, <2>6, Silently DEF Unnoticed, Mirrored
<1> QED BY <1>4, <1>5, <1>6

LEMMA FetchTold ==
  ASSUME IInv, ToldInv, NEW p \in Process, Fetch(p)
  PROVE  Mirrored
<1> DEFINE fd == proc[p].call.fd
           k == Map_fetch(fd, desctors[p])
<1>1. In(p, "fetch") /\ UNCHANGED <<keys, taken, paper, alive, memory>>
  BY DEF Fetch, input, output
<1>2. /\ proc[p].pc = "fetch" /\ Told(proc[p], memory[p]) /\ p \in alive /\ FitsInv /\ DescInv
      /\ proc[p] \in CallType /\ CallFits(proc[p]) /\ proc[p].call \in Request
      /\ fd \in Int /\ Doing[p] = Stands(proc[p]) /\ ~Fault(proc[p].call)
  BY <1>1, FindsTold DEF Labels
<1>3. proc[p].status = "asked"
  BY <1>2 DEF Told
<1>4. IF fd \in 0 .. 6 THEN Opens(fd, k) ELSE k = Absent
  BY <1>2, DescriptorOpens
<1>5. \/ (fd < 0 \/ k = Absent) /\ Ends(p, "EBADF", Back(p))
      \/ proc' = proc
      \/ ~(fd < 0 \/ k = Absent) /\ proc' = [proc EXCEPT ![p].pc = "adjust", ![p].kfd = k]
  BY DEF Fetch, Stops, Of
<1> HIDE DEF k
<1>6. CASE (fd < 0 \/ k = Absent) /\ Ends(p, "EBADF", Back(p))
  <2> DEFINE c == Further(proc[p], Back(p), "EBADF")
  <2>1. Goes(p, c) /\ c.pc = Back(p) /\ c.status = "EBADF" /\ c.call = proc[p].call
    BY <1>2, <1>6, EndsGoes, FurtherIs
  <2> HIDE DEF c
  <2>2. Told(c, memory[p])
    <3>1. c.pc \in {"return", "retMem"}
      BY <2>1 DEF Back
    <3> QED BY <2>1, <3>1 DEF Told
  <2>3. ToldInv'
    BY <1>1, <1>2, <2>1, <2>2, ToldGoes
  <2>4. T!Ends(p, c.status, BytesOf(c))
    BY <1>1, <2>1, EndsAs
  <2>5. BytesOf(c) = <<>>
    BY <2>1 DEF BytesOf
  <2>6. Doing[p].status = "asked" /\ Doing[p].req = proc[p].call
    BY <1>2, <1>3 DEF Stands
  <2>7. DescribedBy(fd) = "nothing"
    <3>1. fd \notin 0 .. 6
      BY <1>4, <1>6, ConsoleAssumption DEF Opens
    <3> QED BY <3>1 DEF DescribedBy
  <2>8. T!Refuse(p)
    BY <1>1, <1>2, <2>1, <2>4, <2>5, <2>6, <2>7 DEF T!Refuse
  <2> QED BY <2>3, <2>8, Mirrors
<1>7. CASE proc' = proc
  BY <1>1, <1>7, StopsSilently DEF Unnoticed, Mirrored
<1>8. CASE ~(fd < 0 \/ k = Absent) /\ proc' = [proc EXCEPT ![p].pc = "adjust", ![p].kfd = k]
  <2> DEFINE c == [proc[p] EXCEPT !.pc = "adjust", !.kfd = k]
  <2>1. Goes(p, c)
    BY <1>8 DEF Goes
  <2>2. /\ c.pc = "adjust" /\ c.area = proc[p].area /\ c.call = proc[p].call
        /\ c.status = "asked" /\ c.kfd = k
    BY <1>2, <1>3 DEF CallType
  <2> HIDE DEF c
  <2>3. Opens(fd, k)
    BY <1>4, <1>8
  <2>4. Told(c, memory[p])
    BY <1>2, <2>2, <2>3, SameArea DEF Told
  <2>5. Stands(c) = Stands(proc[p])
    BY <1>3, <2>2, SameStands
  <2> QED BY <1>1, <1>2, <2>1, <2>4, <2>5, Silently DEF Unnoticed, Mirrored
<1> QED BY <1>5, <1>6, <1>7, <1>8

(* A step to another place, with what was told before.                     *)
LEMMA GotoTold ==
  ASSUME IInv, ToldInv, NEW p \in Process, NEW from \in Labels \ {"user"}, In(p, from),
         Unnoticed, NEW label, Goto(p, label),
         from \in {"fetch", "adjust", "driver"} \/ label \notin {"fetch", "adjust", "driver", "put"},
         \/ from \in {"adjust", "driver", "take", "poll"} /\ label \in {"driver", "put", "take", "poll"}
         \/ from = "retDesc" /\ label = Back(p),
         label \in {"put", "take", "poll"} => proc[p].kfd = 1
  PROVE  Mirrored
<1> DEFINE c == Further(proc[p], label, proc[p].status)
<1>1. /\ proc[p].pc = from /\ Told(proc[p], memory[p]) /\ p \in alive /\ FitsInv
      /\ proc[p] \in CallType /\ Doing[p] = Stands(proc[p])
  BY FindsTold
<1>2. /\ Goes(p, c) /\ c.pc = label /\ c.status = proc[p].status /\ c.call = proc[p].call
      /\ c.kfd = proc[p].kfd /\ c.area = proc[p].area
  BY <1>1, GotoGoes, FurtherIs
<1> HIDE DEF c
<1>3. Stands(c) = Stands(proc[p]) /\ Area(c) = Area(proc[p])
  BY <1>2, SameStands, SameArea
<1>4. CASE from \in {"adjust", "driver", "take", "poll"} /\ label \in {"driver", "put", "take", "poll"}
  <2>1. Told(c, memory[p])
    BY <1>1, <1>2, <1>3, <1>4 DEF Told
  <2> QED BY <1>1, <1>2, <1>3, <2>1, Silently DEF Mirrored
<1>5. CASE from = "retDesc" /\ label = Back(p)
  <2>1. Told(c, memory[p])
    BY <1>1, <1>2, <1>5 DEF Told, Back, Of
  <2> QED BY <1>1, <1>2, <1>3, <2>1, Silently DEF Mirrored
<1> QED BY <1>4, <1>5

LEMMA AdjustTold ==
  ASSUME IInv, ToldInv, NEW p \in Process, Adjust(p)
  PROVE  Mirrored
<1>1. In(p, "adjust") /\ Goto(p, "driver") /\ Unnoticed
  BY DEF Adjust, Unnoticed, input, output
<1> QED BY <1>1, GotoTold DEF Labels

(* The driver that a call has says what its descriptor is.                 *)
LEMMA DriverTold ==
  ASSUME IInv, ToldInv, NEW p \in Process, NEW nr, NEW driver, Calls(p, nr, driver)
  PROVE  /\ In(p, "driver") /\ proc[p].call.nr = nr /\ proc[p].status = "asked"
         /\ driver = "VGATerminal" => proc[p].kfd = 1 /\ DescribedBy(proc[p].call.fd) = "terminal"
         /\ driver = "ATA" => DescribedBy(proc[p].call.fd) = "drive"
<1>1. In(p, "driver") /\ proc[p].call.nr = nr /\ Map_fetch(proc[p].kfd, kfdDriverMap) = driver
  BY DEF Calls, Of, Driver
<1>2. proc[p].pc = "driver" /\ Told(proc[p], memory[p]) /\ DescInv
  BY <1>1, FindsTold DEF Labels
<1>3. proc[p].status = "asked" /\ Opens(proc[p].call.fd, proc[p].kfd)
  BY <1>2 DEF Told
<1>4. CASE proc[p].call.fd \in 0 .. 2 /\ proc[p].kfd = 1
  <2>1. driver = "VGATerminal"
    BY <1>1, <1>2, <1>4, DriversAre
  <2>2. DescribedBy(proc[p].call.fd) = "terminal"
    BY <1>4 DEF DescribedBy
  <2> QED BY <1>1, <1>3, <1>4, <2>1, <2>2
<1>5. CASE proc[p].call.fd \in 3 .. 6 /\ proc[p].kfd \in 2 .. 5
  <2>1. driver = "ATA"
    BY <1>1, <1>2, <1>5, DriversAre
  <2>2. DescribedBy(proc[p].call.fd) = "drive"
    <3>1. proc[p].call.fd \notin 0 .. 2
      BY <1>5
    <3> QED BY <1>5, <3>1 DEF DescribedBy
  <2> QED BY <1>1, <1>3, <2>1, <2>2
<1> QED BY <1>3, <1>4, <1>5 DEF Opens

LEMMA WriteTold ==
  ASSUME IInv, ToldInv, NEW p \in Process, Write(p)
  PROVE  Mirrored
<1>1. Calls(p, "write", "VGATerminal") /\ Goto(p, "put") /\ Unnoticed
  BY DEF Write, Unnoticed, Others, input
<1>2. In(p, "driver") /\ proc[p].kfd = 1
  BY <1>1, DriverTold
<1> QED BY <1>1, <1>2, GotoTold DEF Labels

LEMMA PutTold ==
  ASSUME IInv, ToldInv, NEW p \in Process, Put(p)
  PROVE  Mirrored
<1> DEFINE c == [proc[p] EXCEPT !.moved = @ + 1]
<1>1. In(p, "put") /\ Unnoticed /\ Goes(p, c)
  BY DEF Put, Unnoticed, Others, input, Goes
<1>2. /\ proc[p].pc = "put" /\ Told(proc[p], memory[p]) /\ p \in alive /\ proc[p] \in CallType
  BY <1>1, FindsTold DEF Labels
<1>3. /\ c.pc = "put" /\ c.area = proc[p].area /\ c.call = proc[p].call
      /\ c.status = proc[p].status /\ c.kfd = proc[p].kfd
  BY <1>2 DEF CallType
<1> HIDE DEF c
<1>4. Stands(c) = Stands(proc[p]) /\ Area(c) = Area(proc[p])
  BY <1>3, SameStands, SameArea
<1>5. Told(c, memory[p])
  BY <1>2, <1>3, <1>4 DEF Told
<1> QED BY <1>1, <1>2, <1>4, <1>5, Silently DEF Mirrored

LEMMA WrittenTold ==
  ASSUME IInv, ToldInv, NEW p \in Process, Written(p)
  PROVE  Mirrored
<1> DEFINE c == Further(proc[p], "retDesc", "done")
           r == proc[p].call
<1>1. /\ In(p, "put") /\ Ends(p, "done", "retDesc") /\ UNCHANGED <<keys, taken, alive, memory>>
      /\ paper' = paper \o MovedBytes(p)
  BY DEF Written, Others, input
<1>2. /\ proc[p].pc = "put" /\ Told(proc[p], memory[p]) /\ p \in alive /\ FitsInv
      /\ proc[p] \in CallType /\ CallFits(proc[p]) /\ ~Fault(r) /\ Doing[p] = Stands(proc[p])
  BY <1>1, FindsTold DEF Labels
<1>3. r.nr = "write" /\ proc[p].status = "asked" /\ Opens(r.fd, 1)
  BY <1>2 DEF Told, CallFits
<1>4. Goes(p, c) /\ c.pc = "retDesc" /\ c.status = "done" /\ c.call = r
  BY <1>1, <1>2, EndsGoes, FurtherIs
<1> HIDE DEF c
<1>5. Told(c, memory[p])
  BY <1>4 DEF Told
<1>6. ToldInv'
  BY <1>1, <1>2, <1>4, <1>5, ToldGoes
<1>7. T!Ends(p, "done", BytesOf(c))
  BY <1>1, <1>4, EndsAs
<1>8. BytesOf(c) = <<>>
  BY <1>3, <1>4 DEF BytesOf
<1>9. Doing[p].status = "asked" /\ Doing[p].req = r
  BY <1>2, <1>3 DEF Stands
<1>10. DescribedBy(r.fd) = "terminal"
  BY <1>3 DEF Opens, DescribedBy
<1>11. MovedBytes(p) = T!Bytes(p, r)
  <2>1. MovedBytes(p) = Meant(r, memory[p])
    BY <1>2, <1>3 DEF MovedBytes, Of, Area, Told
  <2> QED BY <1>3, <2>1 DEF Meant, T!Bytes
<1>12. T!Put(p)
  BY <1>1, <1>2, <1>3, <1>7, <1>8, <1>9, <1>10, <1>11 DEF T!Put, T!Asked
<1> QED BY <1>6, <1>12, Mirrors

(* The next no bytes.                                                      *)
LEMMA NothingNext ==
  ASSUME IInv, FollowInv, stage = Ready
  PROVE  NextBytes(typed, taken, <<>>)
<1>1. Pending(kbd, port, Moving, taken, typed, held, capsLock)
  BY DEF FollowInv
<1>2. PICK s \in KbdType, out \in Seq(0 .. 255), front \in Seq(0 .. 255) :
        /\ Len(front) = taken
        /\ typed = front \o (Moving \o (kbd.bufTerm \o out))
  BY <1>1 DEF Pending
<1> DEFINE b == Moving \o (kbd.bufTerm \o out)
<1>3. b \in Seq(0 .. 255)
  <2>1. kbd.bufTerm \in Seq(0 .. 255)
    BY DEF IInv, InputInv, InputType, KbdType
  <2>2. Moving \in Seq(0 .. 255)
    BY MovingIs
  <2> QED BY <1>2, <2>1, <2>2, BytesJoin
<1>4. typed = front \o b
  BY <1>2
<1> HIDE DEF b
<1>5. Len(typed) = taken + Len(b) /\ Len(b) \in Nat /\ taken \in Nat /\ typed \in Seq(0 .. 255)
  <2>1. Len(typed) = Len(front) + Len(b) /\ typed \in Seq(0 .. 255)
    BY <1>2, <1>3, <1>4, BytesJoin, ZenonT(40)
  <2> QED BY <1>2, <1>3, <2>1, LenProperties
<1>6. SubSeq(typed, taken + 1, taken + 0) = <<>>
  BY <1>5
<1> DEFINE e == <<>>
<1>7. Len(e) = 0 /\ SubSeq(typed, taken + 1, taken + 0) = e
  BY <1>6
<1> HIDE DEF e
<1>8. taken + 0 = taken /\ taken <= Len(typed)
  BY <1>5
<1>9. NextBytes(typed, taken, e)
  BY <1>7, <1>8 DEF NextBytes
<1> QED BY <1>9 DEF e

LEMMA GetsAs ==
  ASSUME IInv, NEW p \in Process, NEW c, Goes(p, c), c.call = proc[p].call, c.status = "done",
         c.call.nr = "read", proc[p].status = "asked", ~Fault(c.call),
         DescribedBy(c.call.fd) = "terminal", NextBytes(typed, taken, Area(c)),
         Len(Area(c)) = c.call.count, taken' = taken + c.call.count,
         UNCHANGED <<keys, paper, alive, memory>>
  PROVE  T!Get(p)
<1>1. Doing[p].status = "asked" /\ Doing[p].req = c.call
  BY DoingIs DEF Stands
<1>2. T!Ends(p, "done", BytesOf(c))
  BY EndsAs
<1>3. /\ BytesOf(c) = SubSeq(typed, taken + 1, taken + c.call.count)
      /\ taken + c.call.count <= Len(typed)
  BY DEF BytesOf, NextBytes
<1>4. T!Asked(p, "read", "terminal")
  BY <1>1 DEF T!Asked
<1> QED BY <1>1, <1>2, <1>3, <1>4 DEF T!Get

LEMMA ReadTold ==
  ASSUME IInv, ToldInv, FollowInv, NEW p \in Process, Read(p)
  PROVE  Mirrored
<1> DEFINE r == proc[p].call
<1>1. /\ Calls(p, "read", "VGATerminal") /\ UNCHANGED <<keys, taken, paper, alive, memory>>
      /\ r.count = 0 => Ends(p, "done", "retDesc")
      /\ r.count # 0 => Goto(p, "take")
  BY DEF Read, Others, output, Of
<1>2. /\ In(p, "driver") /\ r.nr = "read" /\ proc[p].status = "asked" /\ proc[p].kfd = 1
      /\ DescribedBy(r.fd) = "terminal"
  BY <1>1, DriverTold
<1>3. /\ proc[p].pc = "driver" /\ p \in alive /\ FitsInv /\ proc[p] \in CallType
      /\ r \in Request /\ ~Fault(r)
  BY <1>2, FindsTold DEF Labels
<1>4. CASE r.count # 0
  BY <1>1, <1>2, <1>4, GotoTold DEF Labels, Unnoticed
<1>5. CASE r.count = 0
  <2> DEFINE c == Further(proc[p], "retDesc", "done")
  <2>1. /\ Goes(p, c) /\ c.pc = "retDesc" /\ c.status = "done" /\ c.call = r
        /\ c.area = proc[p].area
    BY <1>1, <1>3, <1>5, EndsGoes, FurtherIs
  <2> HIDE DEF c
  <2>2. Told(c, memory[p])
    BY <2>1 DEF Told
  <2>3. ToldInv'
    BY <1>1, <1>3, <2>1, <2>2, ToldGoes
  <2>4. Area(c) = <<>>
    <3> DEFINE o == Offset(r)
               a == proc[p].area
    <3>1. o \in Nat /\ a \in Seq(0 .. 255)
      BY <1>3, OffsetIs DEF CallType
    <3>2. SubSeq(a, o + 1, o + 0) = <<>>
      <4> HIDE DEF o, a
      <4> QED BY <3>1
    <3> QED BY <1>5, <2>1, <3>2 DEF Area
  <2>5. NextBytes(typed, taken, Area(c))
    <3>1. stage = Ready
      BY <1>2, Finds DEF Labels
    <3> QED BY <2>4, <3>1, NothingNext
  <2>6. Len(Area(c)) = r.count /\ taken' = taken + r.count
    <3>1. taken \in Nat /\ taken' = taken
      BY <1>1 DEF FollowInv
    <3>2. Len(Area(c)) = 0
      BY <2>4
    <3> QED BY <1>5, <3>1, <3>2
  <2>7. T!Get(p)
    BY <1>1, <1>2, <1>3, <2>1, <2>5, <2>6, GetsAs
  <2> QED BY <2>3, <2>7, Mirrors
<1> QED BY <1>4, <1>5

LEMMA GoesItself ==
  ASSUME FitsInv, FitsInv', NEW p \in Process, \A q \in Process \ {p} : proc'[q] = proc[q]
  PROVE  Goes(p, proc'[p])
BY DEF FitsInv, Goes

LEMMA TakeTold ==
  ASSUME IInv, ToldInv, FollowInv, NEW p \in Process, Take(p)
  PROVE  Mirrored
<1> DEFINE c == proc'[p]
           r == proc[p].call
<1>1. In(p, "take") /\ UNCHANGED <<keys, paper, alive, memory>>
  BY DEF Take, Others, output
<1>2. /\ proc[p].pc = "take" /\ Told(proc[p], memory[p]) /\ p \in alive /\ FitsInv
      /\ proc[p] \in CallType /\ CallFits(proc[p]) /\ ~Fault(r)
  BY <1>1, FindsTold DEF Labels
<1>3. r.nr = "read" /\ proc[p].status = "asked" /\ Opens(r.fd, 1) /\ proc[p].kfd = 1
  BY <1>2 DEF Told, CallFits
<1>4. Goes(p, c)
  <2>1. FitsInv'
    BY TakeStep DEF IInv, CallsInv
  <2>2. \A q \in Process \ {p} : proc'[q] = proc[q]
    BY OnlyOwn DEF Steps
  <2> QED BY <1>2, <2>1, <2>2, GoesItself
<1>5. /\ c.call = r /\ c.kfd = proc[p].kfd
      /\ \/ c.pc = "retDesc" /\ c.status = "done" /\ c.moved = r.count
         \/ c.pc = "poll" /\ c.status = proc[p].status /\ taken' = taken
  BY TakeMoves
<1>6. c.pc = "retDesc" => /\ NextBytes(typed, taken, MovedBy(c)) /\ Len(MovedBy(c)) = r.count
                          /\ taken' = taken + r.count
  BY FollowTake
<1> HIDE DEF c
<1>7. CASE c.pc = "poll"
  <2>1. Told(c, memory[p])
    BY <1>3, <1>5, <1>7 DEF Told
  <2>2. Stands(c) = Stands(proc[p])
    BY <1>3, <1>5, <1>7, SameStands
  <2> QED BY <1>1, <1>2, <1>4, <1>5, <1>7, <2>1, <2>2, Silently DEF Unnoticed, Mirrored
<1>8. CASE c.pc = "retDesc"
  <2>1. c.status = "done" /\ c.moved = r.count
    BY <1>5, <1>8
  <2>2. Told(c, memory[p])
    BY <1>8, <2>1 DEF Told
  <2>3. ToldInv'
    BY <1>1, <1>2, <1>4, <2>2, ToldGoes
  <2>4. Area(c) = MovedBy(c)
    BY <1>5, <2>1 DEF Area, MovedBy
  <2>5. DescribedBy(r.fd) = "terminal"
    BY <1>3 DEF Opens, DescribedBy
  <2>6. NextBytes(typed, taken, Area(c)) /\ Len(Area(c)) = r.count /\ taken' = taken + r.count
    BY <1>6, <1>8, <2>4
  <2>7. T!Get(p)
    BY <1>1, <1>2, <1>3, <1>4, <1>5, <2>1, <2>5, <2>6, GetsAs
  <2> QED BY <2>3, <2>7, Mirrors
<1> QED BY <1>5, <1>7, <1>8

LEMMA PollTold ==
  ASSUME IInv, ToldInv, NEW p \in Process, Poll(p)
  PROVE  Mirrored
<1>1. In(p, "poll") /\ Unnoticed /\ (proc' = proc \/ Goto(p, "take"))
  BY DEF Poll, Others, output, Unnoticed, Stops
<1>2. proc[p].kfd = 1
  BY <1>1, FindsTold DEF Labels, Told
<1>3. CASE proc' = proc
  BY <1>1, <1>3, StopsSilently DEF Mirrored
<1>4. CASE Goto(p, "take")
  BY <1>1, <1>2, <1>4, GotoTold DEF Labels
<1> QED BY <1>1, <1>3, <1>4

LEMMA SeekTold ==
  ASSUME IInv, ToldInv, NEW p \in Process, Seek(p)
  PROVE  Mirrored
<1> DEFINE r == proc[p].call
<1>1. /\ UNCHANGED <<keys, taken, paper, alive, memory>>
      /\ \E nr \in {"lseek", "_llseek"} :
           \/ Calls(p, nr, "VGATerminal") /\ Ends(p, "ESPIPE", "retDesc")
           \/ Calls(p, nr, "ATA") /\ Ends(p, "done", "retDesc")
  BY DEF Seek, Others, input, output
<1>2. PICK nr \in {"lseek", "_llseek"} :
           \/ Calls(p, nr, "VGATerminal") /\ Ends(p, "ESPIPE", "retDesc")
           \/ Calls(p, nr, "ATA") /\ Ends(p, "done", "retDesc")
  BY <1>1
<1>3. In(p, "driver") /\ r.nr = nr /\ proc[p].status = "asked"
  BY <1>2, DriverTold
<1>4. /\ proc[p].pc = "driver" /\ Told(proc[p], memory[p]) /\ p \in alive /\ FitsInv
      /\ proc[p] \in CallType /\ ~Fault(r) /\ Doing[p] = Stands(proc[p])
  BY <1>3, FindsTold DEF Labels
<1>5. Doing[p].status = "asked" /\ Doing[p].req = r
  BY <1>3, <1>4 DEF Stands
<1>6. ASSUME NEW status \in {"ESPIPE", "done"}, Ends(p, status, "retDesc")
      PROVE  /\ ToldInv'
             /\ status = "ESPIPE" => T!Ends(p, "ESPIPE", <<>>)
             /\ status = "done" => T!Ends(p, "done", IF r.nr = "lseek" THEN <<>>
                                                     ELSE [i \in 1 .. r.count |-> 0])
  <2> DEFINE c == Further(proc[p], "retDesc", status)
  <2>1. /\ Goes(p, c) /\ c.pc = "retDesc" /\ c.status = status /\ c.call = r
        /\ c.area = proc[p].area
    BY <1>4, <1>6, EndsGoes, FurtherIs
  <2> HIDE DEF c
  <2>2. Told(c, memory[p])
    BY <2>1 DEF Told
  <2>3. ToldInv'
    BY <1>1, <1>4, <2>1, <2>2, ToldGoes
  <2>4. T!Ends(p, status, BytesOf(c))
    BY <1>1, <2>1, EndsAs
  <2>5. r.nr = "_llseek" => Area(c) = [i \in 1 .. r.count |-> 0]
    <3>1. r.nr = "_llseek" => Area(proc[p]) = Meant(r, memory[p])
      BY <1>4 DEF Told
    <3>2. Area(c) = Area(proc[p])
      BY <2>1, SameArea
    <3>3. r.nr = "_llseek" => Meant(r, memory[p]) = [i \in 1 .. r.count |-> 0]
      BY DEF Meant
    <3> QED BY <3>1, <3>2, <3>3
  <2>6. /\ status = "ESPIPE" => BytesOf(c) = <<>>
        /\ status = "done" => BytesOf(c) = IF r.nr = "lseek" THEN <<>> ELSE [i \in 1 .. r.count |-> 0]
    BY <1>3, <2>1, <2>5 DEF BytesOf
  <2> QED BY <2>3, <2>4, <2>6
<1>7. CASE Calls(p, nr, "VGATerminal") /\ Ends(p, "ESPIPE", "retDesc")
  <2>1. DescribedBy(r.fd) = "terminal"
    BY <1>7, DriverTold
  <2>2. T!Asked(p, nr, "terminal")
    BY <1>3, <1>4, <1>5, <2>1 DEF T!Asked
  <2>3. T!Tell(p)
    BY <1>1, <1>6, <1>7, <2>2 DEF T!Tell
  <2> QED BY <1>6, <1>7, <2>3, Mirrors
<1>8. CASE Calls(p, nr, "ATA") /\ Ends(p, "done", "retDesc")
  <2>1. DescribedBy(r.fd) = "drive"
    BY <1>8, DriverTold
  <2>2. T!Asked(p, nr, "drive")
    BY <1>3, <1>4, <1>5, <2>1 DEF T!Asked
  <2>3. T!Tell(p)
    BY <1>1, <1>3, <1>5, <1>6, <1>8, <2>2 DEF T!Tell
  <2> QED BY <1>6, <1>8, <2>3, Mirrors
<1> QED BY <1>2, <1>7, <1>8

LEMMA RetDescTold ==
  ASSUME IInv, ToldInv, NEW p \in Process, RetDesc(p)
  PROVE  Mirrored
<1>1. In(p, "retDesc") /\ Unnoticed /\ (proc' = proc \/ Goto(p, Back(p)))
  BY DEF RetDesc, input, output, Unnoticed, Stops
<1>2. CASE proc' = proc
  BY <1>1, <1>2, StopsSilently DEF Mirrored
<1>3. CASE Goto(p, Back(p))
  BY <1>1, <1>3, GotoTold DEF Labels, Back
<1> QED BY <1>1, <1>2, <1>3

LEMMA RestTold == \A mem : Told(AtRest, mem)
BY DEF Told, AtRest

(* The call ends, with the bytes that it brings.                           *)
LEMMA AnswersAs ==
  ASSUME IInv, ToldInv, NEW p \in Process, proc[p].pc \in {"retMem", "return"}, Goes(p, AtRest),
         UNCHANGED <<keys, taken, paper, alive>>,
         LET got == BytesOf(proc[p])
             to == proc[p].call.addr
         IN memory' = [memory EXCEPT ![p] = [a \in Address |->
              IF a - to + 1 \in 1 .. Len(got) THEN got[a - to + 1] ELSE @[a]]]
  PROVE  Mirrored
<1> DEFINE got == BytesOf(proc[p])
           to == proc[p].call.addr
<1>1. proc'[p] = AtRest /\ \A q \in Process \ {p} : proc'[q] = proc[q]
  BY DEF IInv, CallsInv, FitsInv, Goes
<1>2. \A q \in Process \ {p} : memory'[q] = memory[q]
  BY DEF IInv, MemInv
<1>3. ToldInv'
  <2>1. AtRest.pc = "user"
    BY DEF AtRest
  <2>2. ASSUME NEW q \in Process
        PROVE  Told(proc'[q], memory'[q]) /\ (proc'[q].pc # "user" => q \in alive')
    <3>1. CASE q = p
      BY <1>1, <2>1, <3>1, RestTold
    <3>2. CASE q # p
      BY <1>1, <1>2, <3>2 DEF ToldInv
    <3> QED BY <3>1, <3>2
  <2> QED BY <2>2 DEF ToldInv
<1>4. proc[p].status \notin {"none", "asked"}
  BY DEF ToldInv, Told
<1>5. Doing[p] = Stands(proc[p]) /\ Doing' = [Doing EXCEPT ![p] = T!Idle]
  BY RestStands, DoingGoes DEF IInv, CallsInv
<1>6. /\ Doing[p].status = proc[p].status /\ Doing[p].req.addr = to /\ Doing[p].bytes = got
  BY <1>5 DEF Stands
<1>7. memory' = [memory EXCEPT ![p] = [a \in Address |->
                   IF a - to + 1 \in 1 .. Len(got) THEN got[a - to + 1] ELSE @[a]]]
  OBVIOUS
<1> HIDE DEF got, to
<1>8. T!Answer(p)
  BY <1>4, <1>5, <1>6, <1>7 DEF T!Answer, T!keys, keys
<1> QED BY <1>3, <1>8, Mirrors

LEMMA RetMemTold ==
  ASSUME IInv, ToldInv, NEW p \in Process, RetMem(p)
  PROVE  Mirrored
<1> DEFINE got == Got(p)
           to == proc[p].call.addr
<1>1. /\ In(p, "retMem") /\ Goes(p, AtRest) /\ UNCHANGED <<keys, taken, paper, alive>>
      /\ memory' = [memory EXCEPT ![p] = [a \in Address |->
           IF a - to + 1 \in DOMAIN got THEN got[a - to + 1] ELSE @[a]]]
  BY DEF RetMem, Leave, Goes, Of, input, output
<1>2. proc[p].pc = "retMem" /\ proc[p] \in CallType /\ CallFits(proc[p]) /\ proc[p].call \in Request
  BY <1>1, FindsTold DEF Labels
<1>3. got \in Seq(0 .. 255)
  BY <1>2, GotBytes DEF CallFits, Holds
<1>4. got = BytesOf(proc[p])
  BY DEF Got, BytesOf, Area, MovedBytes, Of
<1> HIDE DEF got, to
<1>5. DOMAIN got = 1 .. Len(got)
  BY <1>3
<1>6. memory' = [memory EXCEPT ![p] = [a \in Address |->
           IF a - to + 1 \in 1 .. Len(got) THEN got[a - to + 1] ELSE @[a]]]
  BY <1>1, <1>5
<1> QED BY <1>1, <1>2, <1>4, <1>6, AnswersAs DEF to

LEMMA ReturnTold ==
  ASSUME IInv, ToldInv, NEW p \in Process, Return(p)
  PROVE  Mirrored
<1> DEFINE got == BytesOf(proc[p])
           to == proc[p].call.addr
<1>1. /\ In(p, "return") /\ Goes(p, AtRest) /\ UNCHANGED <<keys, taken, paper, alive, memory>>
  BY DEF Return, Leave, Goes, input, output
<1>2. proc[p].pc = "return" /\ Told(proc[p], memory[p])
  BY <1>1, FindsTold DEF Labels
<1>3. got = <<>>
  BY <1>2 DEF Told, BytesOf
<1>4. memory \in [Process -> [Address -> 0 .. 255]]
  BY DEF IInv, MemInv
<1>5. 1 .. Len(got) = {}
  BY <1>3
<1> HIDE DEF got, to
<1>6. memory[p] = [a \in Address |-> IF a - to + 1 \in 1 .. Len(got) THEN got[a - to + 1]
                                     ELSE memory[p][a]]
  BY <1>4, <1>5
<1>7. memory' = [memory EXCEPT ![p] = [a \in Address |->
           IF a - to + 1 \in 1 .. Len(got) THEN got[a - to + 1] ELSE @[a]]]
  BY <1>1, <1>4, <1>6
<1> QED BY <1>1, <1>2, <1>7, AnswersAs DEF got, to

LEMMA ForkTold ==
  ASSUME IInv, ToldInv, NEW p \in Process, NEW q \in Process, Fork(p, q)
  PROVE  Mirrored
<1>1. /\ proc[p].pc = "user" /\ p \in alive /\ q \notin alive /\ alive' = alive \cup {q}
      /\ memory' = [memory EXCEPT ![q] = memory[p]]
      /\ UNCHANGED <<keys, taken, paper, proc>>
  BY DEF Fork, In, input, output
<1>2. proc[p] = AtRest /\ proc[q] = AtRest
  BY <1>1 DEF ToldInv, Told
<1>3. \A r \in Process \ {q} : memory'[r] = memory[r]
  BY <1>1 DEF IInv, MemInv
<1>4. ToldInv'
  <2>1. ASSUME NEW r \in Process
        PROVE  Told(proc'[r], memory'[r]) /\ (proc'[r].pc # "user" => r \in alive')
    <3>1. CASE r = q
      BY <1>1, <1>2, <3>1, RestTold
    <3>2. CASE r # q
      BY <1>1, <1>3, <3>2 DEF ToldInv
    <3> QED BY <3>1, <3>2
  <2> QED BY <2>1 DEF ToldInv
<1>5. Doing[p] = T!Idle /\ Doing' = Doing
  BY <1>1, <1>2, DoingIs, RestStands
<1>6. T!Fork(p, q)
  BY <1>1, <1>5 DEF T!Fork, T!keys, keys
<1> QED BY <1>4, <1>6, Mirrors

LEMMA StepsTold ==
  ASSUME IInv, ToldInv, FollowInv, NEW p \in Process, Steps(p)
  PROVE  Mirrored
BY GetUserMemTold, FetchTold, AdjustTold, WriteTold, PutTold, WrittenTold, ReadTold, TakeTold,
   PollTold, SeekTold, RetDescTold, RetMemTold, ReturnTold DEF Steps

LEMMA HitTold ==
  ASSUME ToldInv, HitKey
  PROVE  Mirrored
<1>1. /\ UNCHANGED <<taken, paper, alive, memory, proc>>
      /\ \E k \in Key : T!Hit(k) \/ T!LetGo(k)
  BY DEF HitKey, output
<1>2. Doing' = Doing
  BY <1>1, DoingIs
<1>3. T!HitKey
  BY <1>1, <1>2 DEF T!HitKey
<1>4. ToldInv'
  BY <1>1 DEF ToldInv
<1> QED BY <1>3, <1>4 DEF Mirrored, T!Next

LEMMA Mirroring ==
  ASSUME IInv, FollowInv, ToldInv, [Next]_vars
  PROVE  Mirrored
<1>1. CASE BringsUp
  <2>1. Unnoticed /\ proc' = proc
    BY <1>1 DEF BringsUp, Unnoticed, output
  <2> QED BY <2>1, StopsSilently DEF Mirrored
<1>2. CASE UNCHANGED vars
  <2>1. Unnoticed /\ proc' = proc
    BY <1>2 DEF vars, Unnoticed, input, output
  <2> QED BY <2>1, StopsSilently DEF Mirrored
<1> QED BY <1>1, <1>2, HitTold, CallTold, StepsTold, ForkTold DEF Next, Programs

LEMMA MirrorStarts ==
  ASSUME Init
  PROVE  T!Init /\ ToldInv
<1>1. /\ proc = [p \in Process |-> AtRest] /\ alive = {First} /\ taken = 0 /\ paper = <<>>
      /\ memory = [p \in Process |-> InitMemory] /\ held = {} /\ capsLock = FALSE /\ typed = <<>>
  BY DEF Init
<1>2. Doing = [p \in Process |-> T!Idle]
  BY <1>1, DoingIs, RestStands
<1>3. AtRest.pc = "user"
  BY DEF AtRest
<1>4. ToldInv
  BY <1>1, <1>3, RestTold DEF ToldInv
<1> QED BY <1>1, <1>2, <1>4 DEF T!Init

(* ImplementsTeletype: whatever programs ask for, and however the steps of *)
(* their calls mix with one another, with the keys and with the bring up,  *)
(* the console is the one of Teletype: a write prints the bytes of its     *)
(* program whole, a read takes the next bytes that the keys spelled whole  *)
(* and its program finds them in its buffer, a drive tells its position,   *)
(* and a call is refused for the memory or the descriptor it names only.   *)
(* The step where Teletype acts is the one in which the call has all it    *)
(* asked for; every other one changes nothing that a program can see.      *)
THEOREM Implements == Spec => ImplementsTeletype
<1>1. Init => T!Init /\ ToldInv
  BY MirrorStarts
<1>2. IInv /\ (PortInv /\ FollowInv) /\ ToldInv /\ [Next]_vars => ToldInv' /\ [T!Next]_T!vars
  BY Mirroring DEF Mirrored
<1> QED BY <1>1, <1>2, Invariance, Followed, PTL DEF Spec, ImplementsTeletype, T!Spec

=============================================================================
