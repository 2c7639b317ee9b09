----------------------------- MODULE MCViewing -----------------------------
(***************************************************************************)
(* A one-to-one slot and an open house, two phone numbers, two requests in *)
(* flight.  The first phone may book either slot, both compete for the     *)
(* open house.                                                             *)
(***************************************************************************)
EXTENDS Viewing, TLC

CONSTANTS slot, house, v1, v2, v3, w1, w2, r1, r2

MCSlotOf == (v1 :> slot) @@ (v2 :> house) @@ (v3 :> house)
MCViewerOf == (v1 :> w1) @@ (v2 :> w1) @@ (v3 :> w2)
MCSlotType == (slot :> "single") @@ (house :> "group")
MCMaxViewers == (slot :> 1) @@ (house :> 1)

\* An open house with room for both, booked before it is full.
RoomyMaxViewers == (slot :> 1) @@ (house :> 2)

\* The one-to-one slot alone, with three identities to book it.
SingleSlotOf == (v1 :> slot) @@ (v2 :> slot) @@ (v3 :> slot)
SingleViewerOf == (v1 :> w1) @@ (v2 :> w2) @@ (v3 :> w1)
SingleSlotType == (slot :> "single")
SingleMaxViewers == (slot :> 1)

\* Bound: a behaviour is followed until requests have overlapped on two rows.
OneContendedRow == Cardinality(contended) <= 1

\* otpAttempts is read only while a viewing is pending_otp, a status it never
\* returns to: states that differ elsewhere in it are not told apart.
View ==
  <<viewingStatus, slotStatus, currentBookings, phoneVerified, req, contended,
    [v \in Viewings |-> IF viewingStatus[v] = "pending_otp" THEN otpAttempts[v] ELSE 0]>>

RequestSymmetry == Permutations(Requests)
=============================================================================
