---------------------------- MODULE MCBlockStore ----------------------------
(* A short and a long body under the first digest, which peers may swap, a   *)
(* short one under the others, and none under the last, which is certified   *)
(* and finalized without ever being held; caps of a few blocks.              *)
EXTENDS BlockStore

MCSize == [c \in Contents |-> IF c = "long" THEN 2 ELSE 1]
MCBodies == [d \in Digests |-> CASE d = 1 -> {"short", "long"}
                                  [] d = MaxView -> {}
                                  [] OTHER -> {"short"}]
=============================================================================
