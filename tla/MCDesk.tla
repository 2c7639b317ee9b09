-------------------------------- MODULE MCDesk --------------------------------
(***************************************************************************)
(* The seller's desk: three windows of one date in his calendar (two       *)
(* quarters, and both in one), or the photos of his flat.  They share no   *)
(* row, so a behaviour is one of the two (which no step changes).          *)
(*                                                                         *)
(* One listing, three photos of which two have one content, a limit of two *)
(* (20 in the code): a photo too many, and a photo twice, are both at      *)
(* hand.  A seller sends an order of up to two ids, one perhaps twice.     *)
(***************************************************************************)
EXTENDS Slots, Photo, TLC

CONSTANTS h1, h2, d1, g1, p1, p2, p3, k1, k2

VARIABLE part

MCHashOf == (p1 :> k1) @@ (p2 :> k1) @@ (p3 :> k2)

MCInit == part \in {"slots", "photo"} /\ SlotsInit /\ Init

MCNext ==
  /\ UNCHANGED part
  /\ \/ part = "slots" /\ SlotsNext /\ UNCHANGED vars
     \/ part = "photo" /\ Next /\ UNCHANGED slotsVars

MCSpec == MCInit /\ [][MCNext]_<<part, slotsVars, vars>>

\* The requests of either; p1 and p2 have the same content.
Symmetry == Permutations(Handlers) \cup Permutations({p1, p2})
=============================================================================
