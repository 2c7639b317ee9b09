---------------------------- MODULE MCPersonalData ----------------------------
(***************************************************************************)
(* The documents a seller uploads, the papers of a sale, and the consents  *)
(* and deletions, side by side.  No handler touches two of them, so a      *)
(* behaviour is one of one part (which no step changes).                   *)
(***************************************************************************)
EXTENDS PersonalData, TLC

CONSTANTS d1, d2, d3, r1, r2, p1, p2, q1, q2, Docs, MaxFiles, NoDoc, Papers, MaxCdd, NoPaper

\* NoDoc and NoPaper are nobody's identity; a type of document has a limit.
ASSUME DocAssumption == NoDoc \notin Docs /\ IsFiniteSet(Requests) /\ MaxFiles \in Nat \ {0}
ASSUME PaperAssumption == NoPaper \notin Papers

VARIABLES part, row, file, old, closed, req, got, stray,
          path, invoiced, cdd, disk, kind, sale, handed, rooted, work, lost

uploads == <<row, file, old, closed, req, got, stray>>
papers == <<path, invoiced, cdd, disk, kind, sale, handed, rooted, work, lost>>

Seller == INSTANCE SellerDocuments
Sale == INSTANCE SaleDocuments

MCInit ==
  /\ part \in {"seller", "sale", "data"} /\ Seller!DocInit /\ Sale!PaperInit /\ DataInit
  /\ rooted => part = "sale"
  /\ "marketing" \in consent => part = "data"

MCNext ==
  /\ UNCHANGED part
  /\ \/ part = "seller" /\ Seller!DocNext /\ UNCHANGED <<papers, dataVars>>
     \/ part = "sale" /\ Sale!PaperNext /\ UNCHANGED <<uploads, dataVars>>
     \/ part = "data" /\ DataNext /\ UNCHANGED <<uploads, papers>>

MCSpec == MCInit /\ [][MCNext]_<<part, uploads, papers, dataVars>>

\* Of SellerDocuments: a document is received once, and its file accounted for.
DocumentsAreSound == Seller!DocumentsAreSound

\* Of SaleDocuments: a file on disk has its row, and a row its file.
PapersAreSound == Sale!PapersAreSound

Symmetry == Permutations(Docs) \cup Permutations(Requests)
=============================================================================
