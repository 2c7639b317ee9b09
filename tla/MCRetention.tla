----------------------------- MODULE MCRetention -----------------------------
(***************************************************************************)
(* Two sales of one seller, one perhaps open while the other is past its   *)
(* periods, and one perhaps without a scan or an invoice; or a lead who    *)
(* may have a sale; or a row of each other kind.                           *)
(***************************************************************************)
EXTENDS Retention, TLC

CONSTANTS s1, t1, t2

MCScenarios ==
  {[sellers |-> {}, txs |-> {t1, t2}, papers |-> p, kinds |-> {}] : p \in {{t1, t2}, {t2}}}
  \cup {[sellers |-> {s1}, txs |-> {t1}, papers |-> {t1}, kinds |-> {}]}
  \cup {[sellers |-> {}, txs |-> {}, papers |-> {}, kinds |-> {k}] : k \in Kinds}

MCSellerOf == (t1 :> s1) @@ (t2 :> s1)
=============================================================================
