------------------------------ MODULE MCPppoe ------------------------------
(* Instances of PppoeManager for TLC. *)
EXTENDS PppoeManager

OneLine  == [s \in Sessions |-> "l1"]
TwoLines == [s \in Sessions |-> IF s = 1 THEN "l1" ELSE "l2"]
=============================================================================
