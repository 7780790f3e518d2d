------------------------------ MODULE Terminal ------------------------------
(***************************************************************************)
(* The text screen (os/kernel/driver/VGATerminal.h): the cells of video    *)
(* memory, the position, and the cursor, which is the cell at the position *)
(* with its colours exchanged while nothing is being written.              *)
(***************************************************************************)
EXTENDS Integers

CONSTANTS width, height

ASSUME TerminalAssumption == width \in Nat \ {0} /\ height \in Nat \ {0}

VARIABLE term    \* struct VGATerminal, with onlcr, cursor and xon set

total == width * height
Cells == 0 .. total - 1
Space == 32
Blank == [text |-> Space, format |-> \h07]

TerminalType ==
  [pos : Cells, screen : [Cells -> [text : 0 .. 255, format : {\h07, \h70}]]]

(* The bits of the two colours, exchanged.                                 *)
Toggled(t) ==
  [t EXCEPT !.screen[t.pos].format = IF @ = \h07 THEN \h70 ELSE \h07]

(* initializeVGATerminal and systemEntry.                                  *)
TerminalInit == term = Toggled([pos |-> 0, screen |-> [i \in Cells |-> Blank]])

AdjustVisLate(t) ==    \* mutation: the position after the last cell is kept
  IF t.pos <= total THEN t
  ELSE [pos |-> t.pos - width,
        screen |-> [i \in Cells |-> IF i + width < total THEN t.screen[i + width] ELSE Blank]]

(* The loop scrolls one row at a time until the position is on the screen. *)
AdjustVis(t) ==
  IF t.pos < total THEN t
  ELSE LET rows == 1 + ((t.pos - total) \div width)
           from == rows * width
       IN [pos |-> t.pos - from,
           screen |-> [i \in Cells |->
             IF i + from < total THEN t.screen[i + from] ELSE Blank]]

LF == 10
CR == 13
LineStart(t) == t.pos - (t.pos % width)

WriteCodePoint(t, cp) ==
  CASE cp = LF -> AdjustVis([t EXCEPT !.pos = LineStart(t) + width])
    [] cp = CR -> [t EXCEPT !.pos = LineStart(t)]
    [] cp \in 32 .. 126 ->
         AdjustVis([t EXCEPT !.pos = @ + 1,
                             !.screen[t.pos] = [text |-> cp, format |-> \h07]])
    [] OTHER -> t

=============================================================================
