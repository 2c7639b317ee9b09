------------------------------- MODULE Offer -------------------------------
(***************************************************************************)
(* The negotiation over a property (src/src/domains/offer): offers, their  *)
(* counter-offers, the one that is accepted, and the voiding of all when   *)
(* the seller withdraws consent (src/src/domains/compliance).              *)
(*                                                                         *)
(* A handler is a request, as in Viewing: one action reads the offer and   *)
(* checks OFFER_TRANSITIONS, later ones write.  PostgreSQL runs the        *)
(* transactions at READ COMMITTED.  Countering is one action: its first    *)
(* statement compares and sets, and nothing it writes is seen before the   *)
(* commit.  Accepting is three: the row lock, the unique index with the    *)
(* snapshot of the second statement, and that statement with the commit.   *)
(*                                                                         *)
(* A counter-offer copies its parent's property, so the property of an     *)
(* offer is a constant of its identity; an offer not yet inserted has      *)
(* status "none".  Amounts, buyers and their anonymisation are left out,   *)
(* and so is the active listing createOffer looks for: no later step of    *)
(* the negotiation reads it again.                                         *)
(***************************************************************************)
EXTENDS Integers, FiniteSets

CONSTANTS
  Offers,      \* identities of rows of offers
  Properties,  \* rows of properties
  Requests,    \* handlers the process may have in flight
  PropertyOf,  \* offer -> property
  NoOffer      \* no offer

ASSUME OfferAssumption ==
  /\ PropertyOf \in [Offers -> Properties]
  /\ NoOffer \notin Offers

VARIABLES
  offerStatus,       \* offers.status
  parentOfferId,     \* offers.parent_offer_id
  aiAnalysisStatus,  \* offers.ai_analysis_status, "none" when there is no text
  req,               \* the local state of each request
  contended          \* ghost: properties two requests decided on at once

vars == <<offerStatus, parentOfferId, aiAnalysisStatus, req, contended>>

OfferStatuses == {"none", "pending", "countered", "accepted", "rejected", "expired"}

\* What a request has read and has still to do: op names its next write.
RequestStates ==
  [op : {"idle", "analyse", "counter", "accept", "accepting", "expiring",
         "reject", "review", "share", "void"},
   offer : Offers \cup {NoOffer},
   child : Offers \cup {NoOffer},  \* the counter-offer to insert
   open : SUBSET Offers]           \* the offers the expiring statement found

Idle == [op |-> "idle", offer |-> NoOffer, child |-> NoOffer, open |-> {}]

On(op, o) == [op |-> op, offer |-> o, child |-> NoOffer, open |-> {}]

TypeOK ==
  /\ offerStatus \in [Offers -> OfferStatuses]
  /\ parentOfferId \in [Offers -> Offers \cup {NoOffer}]
  /\ aiAnalysisStatus \in [Offers -> {"none", "generated", "reviewed", "shared"}]
  /\ req \in [Requests -> RequestStates]
  /\ contended \subseteq Properties

-----------------------------------------------------------------------------
(* The rows, as the handlers' queries see them.                            *)

Siblings(o) == {x \in Offers : PropertyOf[x] = PropertyOf[o]} \ {o}

\* An offer some request of the process is about to insert, or that exists.
Fresh(o) == offerStatus[o] = "none" /\ \A q \in Requests : req[q].child # o

\* A row updated by a transaction in progress blocks every other writer.
Unlocked(r, o) ==
  \A q \in Requests \ {r} : req[q].op \in {"accepting", "expiring"} => req[q].offer # o

UniqueAccepted_NoIndex(r) == req[r].offer # NoOffer

\* offers_one_accepted_per_property lets the row in: no other row accepted,
\* none being accepted by a transaction whose outcome it would have to await.
UniqueAccepted(r) ==
  /\ \A x \in Siblings(req[r].offer) : offerStatus[x] # "accepted"
  /\ \A q \in Requests \ {r} :
       req[q].op = "expiring" => req[q].offer \notin Siblings(req[r].offer)

-----------------------------------------------------------------------------
(* Requests.                                                               *)

Continue(r, state) ==
  /\ req' = [req EXCEPT ![r] = state]
  /\ UNCHANGED contended

\* The property whose offers a request decides on.
Touched(q) ==
  IF q.op \in {"counter", "accept", "accepting", "expiring", "reject"}
  THEN {PropertyOf[q.offer]} ELSE {PropertyOf[x] : x \in q.open}

Begin(r, state) ==
  /\ req[r] = Idle
  /\ req' = [req EXCEPT ![r] = state]
  /\ contended' = contended \cup
       {p \in Touched(state) : \E q \in Requests \ {r} : p \in Touched(req[q])}
  /\ UNCHANGED <<offerStatus, parentOfferId, aiAnalysisStatus>>

\* The handler throws at its next await: a guard re-checked in a transaction,
\* the unique index, a deadlock PostgreSQL breaks, a restart, a failed AI
\* call.  An open transaction rolls back.
Fail(r) ==
  /\ req[r] # Idle
  /\ Continue(r, Idle)
  /\ UNCHANGED <<offerStatus, parentOfferId, aiAnalysisStatus>>

-----------------------------------------------------------------------------
(* createOffer inserts the offer, then asks for an AI analysis of it.      *)

CreateOffer(r, o) ==
  /\ req[r] = Idle
  /\ Fresh(o)
  /\ offerStatus' = [offerStatus EXCEPT ![o] = "pending"]
  /\ Continue(r, On("analyse", o))
  /\ UNCHANGED <<parentOfferId, aiAnalysisStatus>>

Analyse(r) ==
  /\ req[r].op = "analyse"
  /\ Unlocked(r, req[r].offer)
  /\ aiAnalysisStatus' = [aiAnalysisStatus EXCEPT ![req[r].offer] = "generated"]
  /\ Continue(r, Idle)
  /\ UNCHANGED <<offerStatus, parentOfferId>>

\* reviewAiAnalysis and shareAiAnalysis: read the status, then overwrite it.
ReviewStart(r, o) ==
  /\ aiAnalysisStatus[o] = "generated"
  /\ Begin(r, On("review", o))

ShareStart_Unreviewed(r, o) ==
  /\ aiAnalysisStatus[o] # "none"
  /\ Begin(r, On("share", o))

ShareStart(r, o) ==
  /\ aiAnalysisStatus[o] = "reviewed"
  /\ Begin(r, On("share", o))

AnalysisCommit(r) ==
  /\ req[r].op \in {"review", "share"}
  /\ Unlocked(r, req[r].offer)
  /\ aiAnalysisStatus' = [aiAnalysisStatus EXCEPT ![req[r].offer] =
       IF req[r].op = "review" THEN "reviewed" ELSE "shared"]
  /\ Continue(r, Idle)
  /\ UNCHANGED <<offerStatus, parentOfferId>>

-----------------------------------------------------------------------------
(* counterOffer.                                                           *)

CounterStart(r, o, c) ==
  /\ offerStatus[o] = "pending"
  /\ c \in Siblings(o) /\ Fresh(c)
  /\ Begin(r, [On("counter", o) EXCEPT !.child = c])

\* counterOfferAtomically: the parent must still have the status read, and
\* only a pending offer passes the guard of the read.
CounterCommit(r) ==
  LET o == req[r].offer
      c == req[r].child
  IN  /\ req[r].op = "counter"
      /\ Unlocked(r, o)
      /\ offerStatus[o] = "pending"
      /\ offerStatus' = [offerStatus EXCEPT ![o] = "countered", ![c] = "pending"]
      /\ parentOfferId' = [parentOfferId EXCEPT ![c] = o]
      /\ Continue(r, Idle)
      /\ UNCHANGED aiAnalysisStatus

-----------------------------------------------------------------------------
(* acceptOffer and rejectOffer.                                            *)

AcceptStart(r, o) ==
  /\ offerStatus[o] = "pending"
  /\ Begin(r, On("accept", o))

\* updateStatusTx locks the row and gives it a version not yet visible,
\* whatever its status is by now.
AcceptUpdate(r) ==
  /\ req[r].op = "accept"
  /\ Unlocked(r, req[r].offer)
  /\ Continue(r, [req[r] EXCEPT !.op = "accepting"])
  /\ UNCHANGED <<offerStatus, parentOfferId, aiAnalysisStatus>>

\* The index entry is in; the next statement sees what is committed by now.
AcceptIndex(r) ==
  /\ req[r].op = "accepting"
  /\ UniqueAccepted(r)
  /\ Continue(r, [req[r] EXCEPT !.op = "expiring", !.open =
       {x \in Siblings(req[r].offer) : offerStatus[x] \in {"pending", "countered"}}])
  /\ UNCHANGED <<offerStatus, parentOfferId, aiAnalysisStatus>>

\* expirePendingAndCounteredSiblingsTx: a row found by the snapshot is locked
\* and its condition checked again on its last committed version.
AcceptCommit(r) ==
  LET o == req[r].offer
  IN  /\ req[r].op = "expiring"
      /\ \A x \in req[r].open : Unlocked(r, x)
      /\ offerStatus' = [x \in Offers |->
           IF x = o THEN "accepted"
           ELSE IF x \in req[r].open /\ offerStatus[x] \in {"pending", "countered"}
           THEN "expired" ELSE offerStatus[x]]
      /\ Continue(r, Idle)
      /\ UNCHANGED <<parentOfferId, aiAnalysisStatus>>

RejectStart_AnyStatus(r, o) ==
  /\ offerStatus[o] # "none"
  /\ Begin(r, On("reject", o))

RejectStart(r, o) ==
  /\ offerStatus[o] = "pending"
  /\ Begin(r, On("reject", o))

\* updateStatus: no condition on the row.
RejectCommit(r) ==
  /\ req[r].op = "reject"
  /\ Unlocked(r, req[r].offer)
  /\ offerStatus' = [offerStatus EXCEPT ![req[r].offer] = "rejected"]
  /\ Continue(r, Idle)
  /\ UNCHANGED <<parentOfferId, aiAnalysisStatus>>

-----------------------------------------------------------------------------
(* withdrawConsent voids the open offers with the statement acceptances    *)
(* use, outside a transaction and with no offer excepted.                  *)

VoidStart(r, p) ==
  LET open == {x \in Offers : PropertyOf[x] = p /\ offerStatus[x] \in {"pending", "countered"}}
  IN  /\ open # {}
      /\ Begin(r, [Idle EXCEPT !.op = "void", !.open = open])

VoidCommit(r) ==
  /\ req[r].op = "void"
  /\ \A x \in req[r].open : Unlocked(r, x)
  /\ offerStatus' = [x \in Offers |->
       IF x \in req[r].open /\ offerStatus[x] \in {"pending", "countered"}
       THEN "expired" ELSE offerStatus[x]]
  /\ Continue(r, Idle)
  /\ UNCHANGED <<parentOfferId, aiAnalysisStatus>>

-----------------------------------------------------------------------------

Init ==
  /\ offerStatus = [o \in Offers |-> "none"]
  /\ parentOfferId = [o \in Offers |-> NoOffer]
  /\ aiAnalysisStatus = [o \in Offers |-> "none"]
  /\ req = [r \in Requests |-> Idle]
  /\ contended = {}

Start(r) ==
  \/ \E p \in Properties : VoidStart(r, p)
  \/ \E o \in Offers :
       \/ ReviewStart(r, o)
       \/ ShareStart(r, o)
       \/ AcceptStart(r, o)
       \/ RejectStart(r, o)
       \/ \E c \in Offers : CounterStart(r, o, c)

Next ==
  \E r \in Requests :
    \/ \E o \in Offers : CreateOffer(r, o)
    \/ Start(r)
    \/ Analyse(r)
    \/ AnalysisCommit(r)
    \/ CounterCommit(r)
    \/ AcceptUpdate(r)
    \/ AcceptIndex(r)
    \/ AcceptCommit(r)
    \/ RejectCommit(r)
    \/ VoidCommit(r)
    \/ Fail(r)

Spec == Init /\ [][Next]_vars

-----------------------------------------------------------------------------
(* Properties.                                                             *)

\* Two offers on one property are never both accepted, however acceptances
\* interleave with each other and with every other operation.
OneAccepted ==
  \A o \in Offers : offerStatus[o] = "accepted"
    => \A x \in Siblings(o) : offerStatus[x] # "accepted"

\* An offer is countered at most once, however many agents counter it at once:
\* a negotiation is a chain.
CounteredOnce ==
  \A c, d \in Offers : parentOfferId[c] = parentOfferId[d] /\ parentOfferId[c] # NoOffer
    => c = d

\* When an offer that was countered is accepted all the same, by an acceptance
\* that had read it pending, its counter-offer is no longer open.
CounterOfferClosed ==
  \A c \in Offers :
    parentOfferId[c] # NoOffer /\ offerStatus[parentOfferId[c]] = "accepted"
      => offerStatus[c] \notin {"pending", "countered"}

\* An AI analysis reaches the seller only once an agent has reviewed it.
SharedOnlyReviewed ==
  [][\A o \in Offers :
       aiAnalysisStatus'[o] = "shared" => aiAnalysisStatus[o] \in {"reviewed", "shared"}]_vars

\* OFFER_TRANSITIONS gives accepted, rejected and expired no successor: they
\* are final on a property no two requests decided on at once.
OutcomeIsFinal ==
  [][\A o \in Offers :
       (PropertyOf[o] \notin contended'
        /\ offerStatus[o] \in {"accepted", "rejected", "expired"})
         => offerStatus'[o] = offerStatus[o]]_vars

\* The offers on a property: a chain of counter-offers, one winner at most, and
\* nothing left open under the winner, whatever requests race.
NegotiationIsSound == TypeOK /\ OneAccepted /\ CounteredOnce /\ CounterOfferClosed
=============================================================================
