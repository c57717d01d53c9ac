------------------------- MODULE MCServerSelection -------------------------
(***************************************************************************)
(* An instance of ServerSelection whose floats have a mantissa of two      *)
(* bits: 0..4 are exact, 5 is a tie and rounds to 4, 6 is exact.           *)
(***************************************************************************)
EXTENDS ServerSelection

TwoBits(sum) == IF sum = 5 THEN 4 ELSE sum
============================================================================
