-------------------------- MODULE MCBlockPipeline --------------------------
(***************************************************************************)
(* Heights 1..12 are fed in the fast phase, up to four more in the low     *)
(* one.  Channels of three, batches of five fetched in chunks of two: a    *)
(* batch fills, is cut short with none or some heights left, and both      *)
(* channels run full.  The handler may die of one of three blocks.         *)
(***************************************************************************)
EXTENDS BlockPipeline

MCBad == {2, 9, 14}
=============================================================================
