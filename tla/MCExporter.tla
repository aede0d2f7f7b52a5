----------------------------- MODULE MCExporter -----------------------------
(***************************************************************************)
(* Instances of Exporter for TLC.  A trace has size 2 and other items have *)
(* size 1, so that MaxBuffered decides how many of them overflow.          *)
(***************************************************************************)
EXTENDS Exporter

CONSTANTS t1, l1, p1, r1, r2

MCKindOf == [i \in Item |-> CASE i = t1 -> "traces" [] i = l1 -> "logs" [] i = p1 -> "profiles"]
MCSize == [i \in Item |-> IF i = t1 THEN 2 ELSE 1]
=============================================================================
