----------------------------- MODULE MCConsole -----------------------------
(* Two processes at a screen of two rows of two characters, with pages of  *)
(* two bytes: page 1 is text that cannot be written, 2 and 3 are data, and *)
(* 4 is not there.                                                         *)
EXTENDS Console

MCMake == [k \in Key |->
  CASE k = "a" -> <<\h1c>> [] k = "b" -> <<\h32>>
    [] k = "altL" -> <<\h11>> [] k = "altR" -> <<\he0, \h11>>]
MCBreak == [k \in Key |->
  CASE k = "a" -> <<\hf0, \h1c>> [] k = "b" -> <<\hf0, \h32>>
    [] k = "altL" -> <<\hf0, \h11>> [] k = "altR" -> <<\he0, \hf0, \h11>>]
MCKind == [k \in Key |-> IF k \in {"a", "b"} THEN "letter" ELSE "modifier"]
MCGlyph == [k \in Key |->
  CASE k = "a" -> <<97, 65>> [] k = "b" -> <<98, 66>> [] OTHER -> "alt"]

MCInitMemory == [a \in Address |-> CASE a = 2 -> 66 [] a = 3 -> 10 [] OTHER -> 67]

MCCall(nr, fd, addr, count) == [nr |-> nr, fd |-> fd, addr |-> addr, count |-> count]
MCRequest ==
  {MCCall("write", 1, 2, 2), MCCall("write", 2, 5, 2),
   MCCall("read", 0, 5, 2), MCCall("read", 0, 4, 1), MCCall("read", 0, 3, 2),
   MCCall("lseek", 9, -1, 0), MCCall("_llseek", 1, 4, 1), MCCall("_llseek", 3, 4, 1)}

=============================================================================
