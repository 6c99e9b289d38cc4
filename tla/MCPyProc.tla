------------------------------ MODULE MCPyProc ------------------------------
(***************************************************************************)
(* Files of up to four bytes over NUL, '=' and one other byte, read into a *)
(* buffer of two that grows to eight: every place the terminators and the  *)
(* delimiters can take against each other and against the end of a chunk.  *)
(* Three process IDs, of which one is asked about and another comes last   *)
(* as a number and first as text, and two processes that start during a    *)
(* call; names with what ends a name in a line, and a buffer that cuts the *)
(* longest.                                                                *)
(***************************************************************************)
EXTENDS PyProc

CONSTANT Other

MCBytes == {Nul, Equals, Other}
MCPids == {2, 3, 10}
MCTextPlace == (10 :> 1) @@ (2 :> 2) @@ (3 :> 3)
MCNames == {<<>>, <<Letter, Newline, Letter>>, <<RParen, Letter, 7>>}
=============================================================================
