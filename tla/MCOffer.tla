------------------------------ MODULE MCOffer ------------------------------
(***************************************************************************)
(* Three offers on one flat, so that a counter-offer and a rival offer     *)
(* exist at once, and three requests: two acceptances and one more         *)
(* operation in flight.                                                    *)
(***************************************************************************)
EXTENDS Offer, TLC

CONSTANTS o1, o2, o3, p, r1, r2, r3

MCPropertyOf == [o \in Offers |-> p]

\* One offer of the three goes on with an analysis: the analyses of two offers
\* share no row.
OneAnalysis == Cardinality({o \in Offers : aiAnalysisStatus[o] # "none"}) <= 1

OfferSymmetry == Permutations(Offers) \cup Permutations(Requests)
=============================================================================
