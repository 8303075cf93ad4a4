---------------------------- MODULE MCPortfolio ----------------------------
(***************************************************************************)
(* A small instance of Portfolio: a pool of two positions, a dollar of 5   *)
(* and fills of 1 or 2 shares at 2 or 3, so that averages do not divide.   *)
(***************************************************************************)
EXTENDS Portfolio

=============================================================================
