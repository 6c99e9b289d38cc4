---------------------------- MODULE MCWindowsProc ---------------------------
(***************************************************************************)
(* Two processes besides the caller and two changes during the calls;      *)
(* texts of up to two elements, a root directory of three and longer ones  *)
(* with a backslash at the end and without; buffers from too small to      *)
(* larger than any text; environments followed by one NUL or two.          *)
(***************************************************************************)
EXTENDS WindowsProc

CONSTANT p1, p2

MCPids == {p1, p2}
MCCapacities == 1 .. 5
MCPaddings == 1 .. 2
MCTexts ==
  UNION {[1 .. n -> {Mark, Other}] : n \in 0 .. 2}
  \cup {<<Other, Other, Mark>>, <<Other, Other, Other, Mark>>,
        <<Other, Other, Other, Other>>}
MCGarbage == UNION {[1 .. n -> {Mark, Other, End}] : n \in 1 .. 2}
=============================================================================
