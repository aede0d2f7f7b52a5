---------------------------- MODULE MCExtension ----------------------------
(***************************************************************************)
(* Instances of Extension for TLC.  Every item has size 1: MaxBuffered is  *)
(* the number of items that overflow the buffer, and a value above the     *)
(* number of items means that it never overflows.                          *)
(***************************************************************************)
EXTENDS Extension

CONSTANTS t1, l1, r1, r2

MCKindOf == [i \in Item |-> IF i = t1 THEN "traces" ELSE "logs"]
MCSize == [i \in Item |-> 1]

MCIdOf == [r \in Request |-> r]  \* no retries
=============================================================================
