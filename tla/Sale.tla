-------------------------------- MODULE Sale --------------------------------
(***************************************************************************)
(* What a sale promises to the people in it, whoever handles it and        *)
(* whatever fails: the life of a row of transactions, without requests,    *)
(* gates or cascade.  Transaction implements it.                           *)
(*                                                                         *)
(* The status goes forward along TRANSACTION_STATUS_ORDER or falls         *)
(* through, and then rests.  A sale completes only when the retention of   *)
(* its due diligence has been refreshed, which is never taken back.  The   *)
(* buyer holds an option only after an agent reviewed it, and a review is  *)
(* never taken back either.                                                *)
(***************************************************************************)
EXTENDS Integers, Sequences

CONSTANT Transactions  \* identities of rows of transactions

VARIABLES
  status,      \* the status of each sale, "none" before the row exists
  retained,    \* sales whose due diligence has had its retention refreshed
  reviewed,    \* sales whose option an agent has reviewed
  withBuyer    \* sales whose option is with the buyer, issued or exercised

vars == <<status, retained, reviewed, withBuyer>>

TRANSACTION_STATUS_ORDER ==
  <<"option_issued", "option_exercised", "completing", "completed">>

\* The places in the order that come after status s.
After(s) ==
  {j \in DOMAIN TRANSACTION_STATUS_ORDER :
     \E i \in 1 .. j - 1 : TRANSACTION_STATUS_ORDER[i] = s}

Open(t) == status[t] \notin {"none", "completed", "fallen_through"}

Init ==
  /\ status = [t \in Transactions |-> "none"]
  /\ retained = {}
  /\ reviewed = {}
  /\ withBuyer = {}

Create(t) ==
  /\ status[t] = "none"
  /\ status' = [status EXCEPT ![t] = "option_issued"]
  /\ UNCHANGED <<retained, reviewed, withBuyer>>

\* updateTransactionStatus.
Advance(t) ==
  /\ \E j \in After(status[t]) :
       /\ status' = [status EXCEPT ![t] = TRANSACTION_STATUS_ORDER[j]]
       /\ TRANSACTION_STATUS_ORDER[j] = "completed" => t \in retained
  /\ UNCHANGED <<retained, reviewed, withBuyer>>

\* updateFallenThrough.
FallThrough(t) ==
  /\ Open(t)
  /\ status' = [status EXCEPT ![t] = "fallen_through"]
  /\ UNCHANGED <<retained, reviewed, withBuyer>>

\* refreshCddRetentionOnCompletion.
Retain(t) ==
  /\ retained' = retained \cup {t}
  /\ UNCHANGED <<status, reviewed, withBuyer>>

\* updateOtpReview.
Review(t) ==
  /\ reviewed' = reviewed \cup {t}
  /\ UNCHANGED <<status, retained, withBuyer>>

\* updateOtpStatus, to issued_to_buyer or exercised.
HandOver(t) ==
  /\ t \in reviewed
  /\ withBuyer' = withBuyer \cup {t}
  /\ UNCHANGED <<status, retained, reviewed>>

\* updateOtpStatus, to any other status: the option expires.
TakeBack(t) ==
  /\ withBuyer' = withBuyer \ {t}
  /\ UNCHANGED <<status, retained, reviewed>>

Next ==
  \E t \in Transactions :
    \/ Create(t) \/ Advance(t) \/ FallThrough(t)
    \/ Retain(t) \/ Review(t) \/ HandOver(t) \/ TakeBack(t)

Spec == Init /\ [][Next]_vars
=============================================================================
