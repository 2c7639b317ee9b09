--------------------------- MODULE MCTransaction ---------------------------
(***************************************************************************)
(* One sale handled by two requests at once.  The buyer has no agent, so   *)
(* every gate is in force; the flat is linked to its agreement and the     *)
(* buyer verified, as in the seeded database, so that the OTP can be       *)
(* issued at all.                                                          *)
(***************************************************************************)
EXTENDS Transaction, TLC

CONSTANTS t, p, l, r1, r2

MCPropertyOf == t :> p
MCListingOf == p :> l

RequestSymmetry == Permutations(Requests)
=============================================================================
