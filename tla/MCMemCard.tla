------------------------------ MODULE MCMemCard ------------------------------
(***************************************************************************)
(* Bounds for MemCard: slot A has one system cell and two general ones,    *)
(* slot B one of each; a write covers one or two cells, so one may cross   *)
(* from the system area into the general area.                             *)
(***************************************************************************)
EXTENDS MemCard

MCCardSize == [s \in Slots |-> IF s = 0 THEN 3 ELSE 2]
=============================================================================
