----------------------------- MODULE MCCommandSet -----------------------------
(***************************************************************************)
(* CommandSet with the bits at the edges: the last of a range, the two     *)
(* sides of the mask 0xFFFC0000, and the last one in the mask 0xE0000000.  *)
(***************************************************************************)
EXTENDS CommandSet

EdgeBits == SUBSET {0, 17, 18, 29}
AFewBits == SUBSET {29, 30}
===============================================================================
