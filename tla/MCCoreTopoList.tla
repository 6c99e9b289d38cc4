--------------------------- MODULE MCCoreTopoList ---------------------------
(***************************************************************************)
(* Two packages of two cores, so that package and core ids repeat across   *)
(* each other.  The list starts at one slot and may double twice before    *)
(* size_t is exhausted (SizeMax = 31 bytes, 4 bytes a key: a third         *)
(* doubling would ask for 32 bytes, which wraps to none).                  *)
(***************************************************************************)
EXTENDS CoreTopoList

=============================================================================
