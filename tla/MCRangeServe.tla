----------------------------- MODULE MCRangeServe -----------------------------
(***************************************************************************)
(* A file of up to 10 bytes, blocks of 3 and reads of up to 2 bytes:       *)
(* ranges begin at every offset of a block and reads straddle blocks.  A   *)
(* counter is three bits wide: each of its values is some nonce, and an    *)
(* offset of up to three blocks carries through all bits and past them.    *)
(***************************************************************************)
EXTENDS CtrSeek
=============================================================================
