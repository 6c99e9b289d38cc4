--------------------------- MODULE MCSysctlAlloc ---------------------------
(***************************************************************************)
(* Tables of zero to nine entries: the margin of one eighth is one entry   *)
(* for sizes 8 and 9 and none below.  Three attempts: one that makes the   *)
(* block, one that outgrows or underuses it, and the last.                 *)
(***************************************************************************)
EXTENDS SysctlAlloc
=============================================================================
