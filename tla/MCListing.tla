----------------------------- MODULE MCListing -----------------------------
(***************************************************************************)
(* One listing, two texts, two portals of the three: enough for a portal   *)
(* already made and one still to make.  Two requests, so that the          *)
(* description and the photos can be approved at once.                     *)
(***************************************************************************)
EXTENDS Listing, TLC

CONSTANTS l1, x1, x2, r1, r2

MCPortals == <<"propertyguru", "srx">>

ListingSymmetry == Permutations(Texts) \cup Permutations(Requests)
=============================================================================
