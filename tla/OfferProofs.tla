---------------------------- MODULE OfferProofs ----------------------------
(***************************************************************************)
(* Proofs about Offer, for any number of offers, properties and requests.  *)
(***************************************************************************)
EXTENDS Offer, TLAPS

\* The shape of a request's state: which fields each operation uses.
WellShaped(q) ==
  /\ q.op \in {"idle", "void"} <=> q.offer = NoOffer
  /\ q.op = "counter" <=> q.child # NoOffer
  /\ q.op = "counter" => q.child \in Siblings(q.offer)
  /\ q.open # {} => q.op \in {"expiring", "void"}
  /\ q.offer # NoOffer => q.open \subseteq Siblings(q.offer)

\* Requests work on rows that exist, counter-offers to insert do not yet and
\* are each some request's own.
Identities ==
  \A r \in Requests :
    /\ WellShaped(req[r])
    /\ req[r].offer # NoOffer => offerStatus[req[r].offer] # "none"
    /\ \A x \in req[r].open : offerStatus[x] # "none"
    /\ req[r].child # NoOffer =>
         /\ offerStatus[req[r].child] = "none"
         /\ \A q \in Requests \ {r} : req[q].child # req[r].child

\* A counter-offer hangs on a sibling that is no longer pending.
Chain ==
  \A c \in Offers : parentOfferId[c] # NoOffer =>
    /\ offerStatus[c] # "none"
    /\ parentOfferId[c] \in Siblings(c)
    /\ offerStatus[parentOfferId[c]] \notin {"none", "pending"}

\* Only an offer that exists is analysed.
Analysed == \A o \in Offers : aiAnalysisStatus[o] # "none" => offerStatus[o] # "none"

TypeInv == TypeOK /\ Identities /\ Chain /\ Analysed

\* What the row locks and the unique index give an acceptance in progress.
Locking ==
  \A r \in Requests :
    /\ req[r].op \in {"accepting", "expiring"} =>
         \A q \in Requests \ {r} :
           req[q].op \in {"accepting", "expiring"} => req[q].offer # req[r].offer
    /\ req[r].op = "expiring" =>
         /\ \A q \in Requests \ {r} : req[q].op = "expiring"
              => PropertyOf[req[q].offer] # PropertyOf[req[r].offer]
         /\ \A x \in Siblings(req[r].offer) : offerStatus[x] # "accepted"
         /\ \A c \in Offers :
              (parentOfferId[c] = req[r].offer /\ offerStatus[c] \in {"pending", "countered"})
                => c \in req[r].open

AcceptInv == TypeInv /\ Locking /\ OneAccepted /\ CounteredOnce /\ CounterOfferClosed

-----------------------------------------------------------------------------

\* The state an operation starts with.
LEMMA OnShaped ==
  ASSUME NEW o \in Offers,
         NEW op \in {"analyse", "accept", "reject", "review", "share"}
  PROVE  /\ On(op, o) \in RequestStates /\ WellShaped(On(op, o))
         /\ On(op, o).op = op /\ On(op, o).offer = o
         /\ On(op, o).child = NoOffer /\ On(op, o).open = {}
<1>1. /\ On(op, o).op = op /\ On(op, o).offer = o
      /\ On(op, o).child = NoOffer /\ On(op, o).open = {}
  BY DEF On
<1>2. On(op, o) \in RequestStates
  BY DEF On, RequestStates
<1>3. QED
  BY <1>1, <1>2, OfferAssumption DEF WellShaped

LEMMA CounterShaped ==
  ASSUME NEW o \in Offers, NEW c \in Siblings(o)
  PROVE  LET state == [On("counter", o) EXCEPT !.child = c]
         IN  /\ state \in RequestStates /\ WellShaped(state)
             /\ state.op = "counter" /\ state.offer = o
             /\ state.child = c /\ state.open = {}
<1> DEFINE state == [On("counter", o) EXCEPT !.child = c]
<1>1. c \in Offers
  BY DEF Siblings
<1>2. On("counter", o) \in RequestStates
  BY DEF On, RequestStates
<1>3. state \in RequestStates /\ state.child = c
  BY <1>1, <1>2 DEF RequestStates
<1>4. state.op = "counter" /\ state.offer = o /\ state.open = {}
  BY <1>2 DEF On, RequestStates
<1> HIDE DEF state
<1>5. WellShaped(state)
  BY <1>1, <1>3, <1>4, OfferAssumption DEF WellShaped
<1>6. QED
  BY <1>3, <1>4, <1>5 DEF state

LEMMA VoidShaped ==
  ASSUME NEW open \in SUBSET Offers
  PROVE  LET state == [Idle EXCEPT !.op = "void", !.open = open]
         IN  /\ state \in RequestStates /\ WellShaped(state)
             /\ state.op = "void" /\ state.offer = NoOffer
             /\ state.child = NoOffer /\ state.open = open
<1> DEFINE state == [Idle EXCEPT !.op = "void", !.open = open]
<1>1. /\ state.op = "void" /\ state.offer = NoOffer
      /\ state.child = NoOffer /\ state.open = open
  BY DEF Idle
<1>2. state \in RequestStates
  BY DEF Idle, RequestStates
<1> HIDE DEF state
<1>3. WellShaped(state)
  BY <1>1 DEF WellShaped
<1>4. QED
  BY <1>1, <1>2, <1>3 DEF state

LEMMA IdleShaped ==
  /\ Idle \in RequestStates /\ WellShaped(Idle)
  /\ Idle.op = "idle" /\ Idle.offer = NoOffer /\ Idle.child = NoOffer /\ Idle.open = {}
<1>1. /\ Idle.op = "idle" /\ Idle.offer = NoOffer
      /\ Idle.child = NoOffer /\ Idle.open = {}
  BY DEF Idle
<1>2. Idle \in RequestStates
  BY DEF Idle, RequestStates
<1>3. QED
  BY <1>1, <1>2 DEF WellShaped

\* Only the request that takes the step changes its state.
LEMMA Moves ==
  ASSUME TypeOK, NEW r \in Requests, NEW state \in RequestStates,
         req' = [req EXCEPT ![r] = state]
  PROVE  /\ req' \in [Requests -> RequestStates]
         /\ req'[r] = state
         /\ \A p \in Requests \ {r} : req'[p] = req[p]
  BY DEF TypeOK

LEMMA TypeInvInit == Init => TypeInv
<1> SUFFICES ASSUME Init PROVE TypeInv
  OBVIOUS
<1>1. TypeOK
  BY IdleShaped DEF Init, TypeOK, OfferStatuses
<1>2. Identities /\ Chain /\ Analysed
  BY IdleShaped DEF Init, Identities, Chain, Analysed
<1>3. QED
  BY <1>1, <1>2 DEF TypeInv

\* A step that leaves the rows alone and gives its request a sound state.
LEMMA TypeInvMove ==
  ASSUME TypeInv, NEW r \in Requests, NEW state \in RequestStates, WellShaped(state),
         state.offer # NoOffer => offerStatus[state.offer] # "none",
         \A x \in state.open : offerStatus[x] # "none",
         state.child # NoOffer =>
           /\ offerStatus[state.child] = "none"
           /\ \A q \in Requests \ {r} : req[q].child # state.child,
         req' = [req EXCEPT ![r] = state],
         contended' \subseteq Properties,
         UNCHANGED <<offerStatus, parentOfferId>>,
         aiAnalysisStatus' \in [Offers -> {"none", "generated", "reviewed", "shared"}],
         \A o \in Offers : aiAnalysisStatus'[o] # "none" => offerStatus[o] # "none"
  PROVE  TypeInv'
<1>1. /\ req' \in [Requests -> RequestStates] /\ req'[r] = state
      /\ \A p \in Requests \ {r} : req'[p] = req[p]
  BY Moves DEF TypeInv
<1>2. TypeOK'
  BY <1>1 DEF TypeInv, TypeOK
<1>3. Identities'
  BY <1>1 DEF TypeInv, Identities
<1>4. Chain' /\ Analysed'
  BY DEF TypeInv, Chain, Analysed
<1>5. QED
  BY <1>2, <1>3, <1>4 DEF TypeInv

LEMMA BeginType ==
  ASSUME TypeInv, NEW r \in Requests, NEW state \in RequestStates, WellShaped(state),
         state.offer # NoOffer => state.offer \in Offers /\ offerStatus[state.offer] # "none",
         \A x \in state.open : offerStatus[x] # "none",
         state.child # NoOffer => Fresh(state.child), Begin(r, state)
  PROVE  TypeInv'
<1>1. contended' \subseteq Properties
  <2>1. Touched(state) \subseteq Properties
    <3>1. state.open \subseteq Offers
      BY DEF RequestStates
    <3>2. state.op \notin {"idle", "void"} => state.offer \in Offers
      BY DEF WellShaped
    <3>3. QED
      BY <3>1, <3>2, OfferAssumption DEF Touched
  <2>2. QED
    BY <2>1 DEF Begin, TypeInv, TypeOK
<1>2. QED
  BY <1>1, TypeInvMove DEF Begin, Fresh, TypeInv, TypeOK, Analysed

LEMMA TypeInvStart ==
  ASSUME TypeInv, NEW r \in Requests, Start(r)
  PROVE  TypeInv'
<1> USE OfferAssumption
<1>1. \A o \in Offers : aiAnalysisStatus[o] # "none" => offerStatus[o] # "none"
  BY DEF TypeInv, Analysed
<1>2. ASSUME NEW p \in Properties, VoidStart(r, p) PROVE TypeInv'
  <2> DEFINE open == {x \in Offers : PropertyOf[x] = p /\ offerStatus[x] \in {"pending", "countered"}}
             state == [Idle EXCEPT !.op = "void", !.open = open]
  <2>1. Begin(r, state)
    BY <1>2 DEF VoidStart
  <2>2. open \in SUBSET Offers /\ \A x \in open : offerStatus[x] # "none"
    OBVIOUS
  <2> HIDE DEF open
  <2>3. /\ state \in RequestStates /\ WellShaped(state) /\ state.offer = NoOffer
        /\ state.child = NoOffer /\ state.open = open
    BY <2>2, VoidShaped
  <2> HIDE DEF state
  <2>4. QED
    BY <2>1, <2>2, <2>3, BeginType
<1>3. ASSUME NEW o \in Offers, ReviewStart(r, o) PROVE TypeInv'
  BY <1>1, <1>3, OnShaped, BeginType DEF ReviewStart
<1>4. ASSUME NEW o \in Offers, ShareStart(r, o) PROVE TypeInv'
  BY <1>1, <1>4, OnShaped, BeginType DEF ShareStart
<1>5. ASSUME NEW o \in Offers, AcceptStart(r, o) PROVE TypeInv'
  BY <1>5, OnShaped, BeginType DEF AcceptStart
<1>6. ASSUME NEW o \in Offers, RejectStart(r, o) PROVE TypeInv'
  BY <1>6, OnShaped, BeginType DEF RejectStart
<1>7. ASSUME NEW o \in Offers, NEW c \in Offers, CounterStart(r, o, c) PROVE TypeInv'
  <2> DEFINE state == [On("counter", o) EXCEPT !.child = c]
  <2>1. /\ offerStatus[o] = "pending" /\ c \in Siblings(o) /\ Fresh(c)
        /\ Begin(r, state)
    BY <1>7 DEF CounterStart
  <2>2. /\ state \in RequestStates /\ WellShaped(state) /\ state.offer = o
        /\ state.child = c /\ state.open = {}
    BY <2>1, CounterShaped
  <2> HIDE DEF state
  <2>3. QED
    BY <2>1, <2>2, BeginType
<1>8. QED
  BY <1>2, <1>3, <1>4, <1>5, <1>6, <1>7 DEF Start

\* The offers a request works on exist, and are offers.
LEMMA AtWork ==
  ASSUME TypeInv, NEW r \in Requests, req[r].op \notin {"idle", "void"}
  PROVE  /\ req[r] \in RequestStates /\ WellShaped(req[r])
         /\ req[r].offer \in Offers /\ offerStatus[req[r].offer] # "none"
<1>1. req[r] \in RequestStates /\ WellShaped(req[r])
  BY DEF TypeInv, TypeOK, Identities
<1>2. QED
  BY <1>1 DEF TypeInv, Identities, WellShaped, RequestStates

\* A step after which its request is idle, or has only an analysis to add, and
\* which never takes an offer back to "none" or "pending".
LEMMA TypeInvWrite ==
  ASSUME TypeInv, NEW r \in Requests, NEW state \in RequestStates, WellShaped(state),
         state.child = NoOffer, state.open = {}, Continue(r, state),
         offerStatus' \in [Offers -> OfferStatuses],
         parentOfferId' \in [Offers -> Offers \cup {NoOffer}],
         UNCHANGED aiAnalysisStatus,
         \A o \in Offers : offerStatus[o] # "none" => offerStatus'[o] # "none",
         state.offer # NoOffer => offerStatus'[state.offer] # "none",
         \A q \in Requests \ {r} : req[q].child # NoOffer
                                   => offerStatus'[req[q].child] = "none",
         Chain'
  PROVE  TypeInv'
<1>1. /\ req' \in [Requests -> RequestStates] /\ req'[r] = state
      /\ \A p \in Requests \ {r} : req'[p] = req[p]
  BY Moves DEF TypeInv, Continue
<1>2. TypeOK'
  BY <1>1 DEF TypeInv, TypeOK, Continue
<1>3. Identities'
  <2>1. \A p \in Requests : req[p].offer \in Offers \cup {NoOffer}
                           /\ req[p].open \subseteq Offers
    BY DEF TypeInv, TypeOK, RequestStates
  <2>2. QED
    BY <1>1, <2>1 DEF TypeInv, Identities
<1>4. Analysed'
  BY DEF TypeInv, Analysed
<1>5. QED
  BY <1>2, <1>3, <1>4 DEF TypeInv

LEMMA TypeInvStep == TypeInv /\ [Next]_vars => TypeInv'
<1> SUFFICES ASSUME TypeInv, [Next]_vars PROVE TypeInv'
  OBVIOUS
<1> USE OfferAssumption
<1>1. ASSUME NEW r \in Requests, NEW o \in Offers, CreateOffer(r, o) PROVE TypeInv'
  <2>1. /\ offerStatus[o] = "none" /\ \A q \in Requests : req[q].child # o
        /\ offerStatus' = [offerStatus EXCEPT ![o] = "pending"]
        /\ Continue(r, On("analyse", o))
        /\ UNCHANGED <<parentOfferId, aiAnalysisStatus>>
    BY <1>1 DEF CreateOffer, Fresh
  <2>2. /\ offerStatus' \in [Offers -> OfferStatuses] /\ offerStatus'[o] = "pending"
        /\ \A x \in Offers \ {o} : offerStatus'[x] = offerStatus[x]
    BY <2>1 DEF TypeInv, TypeOK, OfferStatuses
  <2>3. Chain'
    BY <2>1, <2>2 DEF TypeInv, Chain, Siblings
  <2>4. \A q \in Requests \ {r} : req[q].child # NoOffer
                                 => offerStatus'[req[q].child] = "none"
    BY <2>1, <2>2 DEF TypeInv, TypeOK, RequestStates, Identities
  <2>5. parentOfferId' \in [Offers -> Offers \cup {NoOffer}]
    BY <2>1 DEF TypeInv, TypeOK
  <2>6. QED
    BY <2>1, <2>2, <2>3, <2>4, <2>5, OnShaped, TypeInvWrite
<1>2. ASSUME NEW r \in Requests, Start(r) PROVE TypeInv'
  BY <1>2, TypeInvStart
<1>3. ASSUME NEW r \in Requests, \/ Analyse(r) \/ AnalysisCommit(r) PROVE TypeInv'
  <2>1. req[r].offer \in Offers /\ offerStatus[req[r].offer] # "none"
    BY <1>3, AtWork DEF Analyse, AnalysisCommit
  <2>2. PICK s \in {"generated", "reviewed", "shared"} :
          aiAnalysisStatus' = [aiAnalysisStatus EXCEPT ![req[r].offer] = s]
    BY <1>3 DEF Analyse, AnalysisCommit
  <2>3. /\ aiAnalysisStatus' \in [Offers -> {"none", "generated", "reviewed", "shared"}]
        /\ \A o \in Offers : aiAnalysisStatus'[o] # "none" => offerStatus[o] # "none"
    BY <2>1, <2>2 DEF TypeInv, TypeOK, Analysed
  <2>4. Continue(r, Idle) /\ UNCHANGED <<offerStatus, parentOfferId>>
    BY <1>3 DEF Analyse, AnalysisCommit
  <2>5. contended' \subseteq Properties
    BY <2>4 DEF Continue, TypeInv, TypeOK
  <2>6. QED
    BY <2>3, <2>4, <2>5, IdleShaped, TypeInvMove DEF Continue
<1>4. ASSUME NEW r \in Requests, CounterCommit(r) PROVE TypeInv'
  <2>1. PICK o \in Offers, c \in Offers :
          /\ o = req[r].offer /\ c = req[r].child /\ c \in Siblings(o)
          /\ offerStatus[o] = "pending" /\ offerStatus[c] = "none"
          /\ \A q \in Requests \ {r} : req[q].child # c
    BY <1>4, AtWork DEF CounterCommit, WellShaped, Siblings, TypeInv, Identities
  <2>2. /\ offerStatus' = [offerStatus EXCEPT ![o] = "countered", ![c] = "pending"]
        /\ parentOfferId' = [parentOfferId EXCEPT ![c] = o]
        /\ Continue(r, Idle) /\ UNCHANGED aiAnalysisStatus
    BY <1>4, <2>1 DEF CounterCommit
  <2>3. /\ o # c /\ offerStatus'[o] = "countered" /\ offerStatus'[c] = "pending"
        /\ \A x \in Offers \ {o, c} : offerStatus'[x] = offerStatus[x]
        /\ offerStatus' \in [Offers -> OfferStatuses]
        /\ parentOfferId' \in [Offers -> Offers \cup {NoOffer}]
        /\ parentOfferId'[c] = o
        /\ \A x \in Offers \ {c} : parentOfferId'[x] = parentOfferId[x]
    BY <2>1, <2>2 DEF TypeInv, TypeOK, OfferStatuses, Siblings
  <2>4. Chain'
    BY <2>1, <2>3 DEF TypeInv, Chain, Siblings
  <2>5. \A q \in Requests \ {r} : req[q].child # NoOffer
                                 => offerStatus'[req[q].child] = "none"
    BY <2>1, <2>3 DEF TypeInv, TypeOK, RequestStates, Identities
  <2>6. QED
    BY <2>1, <2>2, <2>3, <2>4, <2>5, IdleShaped, TypeInvWrite
<1>5. ASSUME NEW r \in Requests, AcceptUpdate(r) PROVE TypeInv'
  <2> DEFINE state == [req[r] EXCEPT !.op = "accepting"]
  <2>1. /\ req[r].op = "accept" /\ Continue(r, state)
        /\ UNCHANGED <<offerStatus, parentOfferId, aiAnalysisStatus>>
    BY <1>5 DEF AcceptUpdate
  <2>2. /\ req[r] \in RequestStates /\ WellShaped(req[r])
        /\ req[r].offer \in Offers /\ offerStatus[req[r].offer] # "none"
    BY <2>1, AtWork
  <2>3. /\ state \in RequestStates /\ state.op = "accepting" /\ state.offer = req[r].offer
        /\ state.child = req[r].child /\ state.open = req[r].open
    BY <2>2 DEF RequestStates
  <2>4. WellShaped(state) /\ state.child = NoOffer /\ state.open = {}
    BY <2>1, <2>2, <2>3 DEF WellShaped
  <2> HIDE DEF state
  <2>5. QED
    BY <2>1, <2>2, <2>3, <2>4, TypeInvMove DEF Continue, TypeInv, TypeOK, Analysed
<1>6. ASSUME NEW r \in Requests, AcceptIndex(r) PROVE TypeInv'
  <2> DEFINE found == {x \in Siblings(req[r].offer) : offerStatus[x] \in {"pending", "countered"}}
             state == [req[r] EXCEPT !.op = "expiring", !.open = found]
  <2>1. /\ req[r].op = "accepting" /\ Continue(r, state)
        /\ UNCHANGED <<offerStatus, parentOfferId, aiAnalysisStatus>>
    BY <1>6 DEF AcceptIndex
  <2>2. /\ req[r] \in RequestStates /\ WellShaped(req[r])
        /\ req[r].offer \in Offers /\ offerStatus[req[r].offer] # "none"
    BY <2>1, AtWork
  <2>3. /\ found \in SUBSET Offers /\ found \subseteq Siblings(req[r].offer)
        /\ \A x \in found : offerStatus[x] # "none"
    BY DEF Siblings
  <2> HIDE DEF found
  <2>4. /\ state \in RequestStates /\ state.op = "expiring" /\ state.offer = req[r].offer
        /\ state.child = req[r].child /\ state.open = found
    BY <2>2, <2>3 DEF RequestStates
  <2>5. WellShaped(state) /\ state.child = NoOffer
    BY <2>1, <2>2, <2>3, <2>4 DEF WellShaped
  <2> HIDE DEF state
  <2>6. QED
    BY <2>1, <2>2, <2>3, <2>4, <2>5, TypeInvMove DEF Continue, TypeInv, TypeOK, Analysed
<1>7. ASSUME NEW r \in Requests, AcceptCommit(r) \/ RejectCommit(r) \/ VoidCommit(r)
      PROVE TypeInv'
  <2>2. /\ Continue(r, Idle) /\ UNCHANGED <<parentOfferId, aiAnalysisStatus>>
        /\ offerStatus' \in [Offers -> OfferStatuses]
        /\ \A x \in Offers : \/ offerStatus'[x] = offerStatus[x]
                            \/ /\ offerStatus[x] # "none"
                               /\ offerStatus'[x] \in {"accepted", "rejected", "expired"}
    <3>1. CASE AcceptCommit(r)
      <4>1. req[r].offer \in Offers /\ offerStatus[req[r].offer] # "none"
        BY <3>1, AtWork DEF AcceptCommit
      <4>2. QED
        BY <3>1, <4>1 DEF AcceptCommit, TypeInv, TypeOK, OfferStatuses
    <3>2. CASE RejectCommit(r)
      <4>1. req[r].offer \in Offers /\ offerStatus[req[r].offer] # "none"
        BY <3>2, AtWork DEF RejectCommit
      <4>2. QED
        BY <3>2, <4>1 DEF RejectCommit, TypeInv, TypeOK, OfferStatuses
    <3>3. CASE VoidCommit(r)
      BY <3>3 DEF VoidCommit, TypeInv, TypeOK, OfferStatuses
    <3>4. QED
      BY <1>7, <3>1, <3>2, <3>3
  <2>3. Chain'
    BY <2>2 DEF TypeInv, Chain, Siblings
  <2>4. \A q \in Requests \ {r} : req[q].child # NoOffer
                                 => offerStatus'[req[q].child] = "none"
    BY <2>2 DEF TypeInv, TypeOK, RequestStates, Identities
  <2>5. parentOfferId' \in [Offers -> Offers \cup {NoOffer}]
    BY <2>2 DEF TypeInv, TypeOK
  <2>6. QED
    BY <2>2, <2>3, <2>4, <2>5, IdleShaped, TypeInvWrite
<1>8. ASSUME NEW r \in Requests, Fail(r) PROVE TypeInv'
  BY <1>8, IdleShaped, TypeInvMove DEF Fail, Continue, TypeInv, TypeOK, Analysed
<1>9. CASE UNCHANGED vars
  BY <1>9 DEF vars, TypeInv, TypeOK, Identities, Chain, Analysed
<1>10. QED
  BY <1>1, <1>2, <1>3, <1>4, <1>5, <1>6, <1>7, <1>8, <1>9 DEF Next

\* Type correctness of the specification.
THEOREM TypeCorrect == Spec => []TypeOK
<1>1. TypeInv => TypeOK
  BY DEF TypeInv
<1>2. QED
  BY TypeInvInit, TypeInvStep, <1>1, PTL DEF Spec

-----------------------------------------------------------------------------
(* One accepted offer, one counter-offer, no counter-offer left open.      *)

AcceptParts == Locking /\ OneAccepted /\ CounteredOnce /\ CounterOfferClosed

\* A step that leaves the negotiation alone and takes no lock.
LEMMA AcceptMove ==
  ASSUME TypeInv, AcceptParts, NEW r \in Requests, NEW state \in RequestStates,
         req' = [req EXCEPT ![r] = state],
         state.op \notin {"accepting", "expiring"},
         UNCHANGED <<offerStatus, parentOfferId>>
  PROVE  AcceptParts'
<1>1. /\ req'[r] = state
      /\ \A p \in Requests \ {r} : req'[p] = req[p]
  BY Moves DEF TypeInv
<1>2. Locking'
  BY <1>1 DEF AcceptParts, Locking
<1>3. OneAccepted' /\ CounteredOnce' /\ CounterOfferClosed'
  BY DEF AcceptParts, OneAccepted, CounteredOnce, CounterOfferClosed
<1>4. QED
  BY <1>2, <1>3 DEF AcceptParts

LEMMA AcceptInit == Init => AcceptInv
<1> SUFFICES ASSUME Init PROVE AcceptInv
  OBVIOUS
<1>1. TypeInv
  BY TypeInvInit
<1>2. Locking /\ OneAccepted /\ CounteredOnce /\ CounterOfferClosed
  BY IdleShaped DEF Init, Locking, OneAccepted, CounteredOnce, CounterOfferClosed
<1>3. QED
  BY <1>1, <1>2 DEF AcceptInv

\* The locks of an acceptance, and what the unique index let in, survive every
\* step of the other requests.
LEMMA AcceptStep == AcceptInv /\ [Next]_vars => AcceptInv'
<1> SUFFICES ASSUME TypeInv, AcceptParts, [Next]_vars PROVE AcceptParts'
  BY TypeInvStep DEF AcceptInv, AcceptParts
<1> USE OfferAssumption
<1>1. ASSUME NEW r \in Requests, NEW o \in Offers, CreateOffer(r, o) PROVE AcceptParts'
  <2>1. /\ offerStatus[o] = "none" /\ offerStatus'[o] = "pending"
        /\ \A x \in Offers \ {o} : offerStatus'[x] = offerStatus[x]
        /\ parentOfferId' = parentOfferId
        /\ req'[r] = On("analyse", o) /\ On("analyse", o).op = "analyse"
        /\ \A p \in Requests \ {r} : req'[p] = req[p]
    BY <1>1, OnShaped, Moves DEF CreateOffer, Fresh, Continue, TypeInv, TypeOK
  <2>2. parentOfferId[o] = NoOffer
    BY <2>1 DEF TypeInv, TypeOK, Chain
  <2>3. Locking'
    <3>1. \A p \in Requests \ {r} : req[p].op \notin {"idle", "void"} => req[p].offer \in Offers
      BY AtWork
    <3>2. QED
      BY <2>1, <2>2, <3>1 DEF AcceptParts, Locking, Siblings
  <2>4. OneAccepted'
    BY <2>1 DEF AcceptParts, OneAccepted, Siblings
  <2>5. CounteredOnce'
    BY <2>1 DEF AcceptParts, CounteredOnce
  <2>6. CounterOfferClosed'
    BY <2>1, <2>2 DEF AcceptParts, CounterOfferClosed, TypeInv, TypeOK, Chain
  <2>7. QED
    BY <2>3, <2>4, <2>5, <2>6 DEF AcceptParts
<1>2. ASSUME NEW r \in Requests, Start(r) PROVE AcceptParts'
  <2>1. PICK state \in RequestStates :
          Begin(r, state) /\ state.op \notin {"accepting", "expiring"}
    <3> DEFINE Starts == \E state \in RequestStates :
                 Begin(r, state) /\ state.op \notin {"accepting", "expiring"}
    <3>1. ASSUME NEW p \in Properties, VoidStart(r, p) PROVE Starts
      BY <3>1, VoidShaped DEF VoidStart
    <3>2. ASSUME NEW o \in Offers, \/ ReviewStart(r, o) \/ ShareStart(r, o)
                                   \/ AcceptStart(r, o) \/ RejectStart(r, o)
          PROVE Starts
      BY <3>2, OnShaped DEF ReviewStart, ShareStart, AcceptStart, RejectStart
    <3>3. ASSUME NEW o \in Offers, NEW c \in Offers, CounterStart(r, o, c) PROVE Starts
      <4> DEFINE state == [On("counter", o) EXCEPT !.child = c]
      <4>1. c \in Siblings(o) /\ Begin(r, state)
        BY <3>3 DEF CounterStart
      <4>2. state \in RequestStates /\ state.op = "counter"
        BY <4>1, CounterShaped
      <4> HIDE DEF state
      <4>3. QED
        BY <4>1, <4>2
    <3>4. QED
      BY <1>2, <3>1, <3>2, <3>3 DEF Start
  <2>2. QED
    BY <2>1, AcceptMove DEF Begin
<1>3. ASSUME NEW r \in Requests, \/ Analyse(r) \/ AnalysisCommit(r) \/ Fail(r)
      PROVE AcceptParts'
  BY <1>3, IdleShaped, AcceptMove DEF Analyse, AnalysisCommit, Fail, Continue
<1>4. ASSUME NEW r \in Requests, CounterCommit(r) PROVE AcceptParts'
  <2>1. PICK o \in Offers, c \in Offers :
          /\ o = req[r].offer /\ c = req[r].child /\ c \in Siblings(o)
          /\ offerStatus[o] = "pending" /\ offerStatus[c] = "none" /\ Unlocked(r, o)
    BY <1>4, AtWork DEF CounterCommit, WellShaped, Siblings, TypeInv, Identities
  <2>2. /\ o # c /\ offerStatus'[o] = "countered" /\ offerStatus'[c] = "pending"
        /\ \A x \in Offers \ {o, c} : offerStatus'[x] = offerStatus[x]
        /\ parentOfferId'[c] = o
        /\ \A x \in Offers \ {c} : parentOfferId'[x] = parentOfferId[x]
        /\ req'[r] = Idle /\ \A p \in Requests \ {r} : req'[p] = req[p]
    BY <1>4, <2>1, IdleShaped, Moves
       DEF CounterCommit, Continue, TypeInv, TypeOK, Siblings
  <2>3. \A x \in Offers : parentOfferId[x] # c /\ parentOfferId[x] # o
    BY <2>1 DEF TypeInv, Chain
  <2>4. Locking'
    <3>1. \A p \in Requests \ {r} : req[p].op \notin {"idle", "void"} => req[p].offer \in Offers
      BY AtWork
    <3>2. \A p \in Requests \ {r} :
            req[p].op \in {"accepting", "expiring"} => req[p].offer # o
      BY <2>1 DEF Unlocked
    <3>3. QED
      BY <2>1, <2>2, <2>3, <3>1, <3>2, IdleShaped DEF AcceptParts, Locking, Siblings
  <2>5. OneAccepted'
    BY <2>1, <2>2 DEF AcceptParts, OneAccepted, Siblings
  <2>6. CounteredOnce'
    BY <2>1, <2>2, <2>3 DEF AcceptParts, CounteredOnce
  <2>7. CounterOfferClosed'
    BY <2>1, <2>2, <2>3 DEF AcceptParts, CounterOfferClosed, TypeInv, TypeOK
  <2>8. QED
    BY <2>4, <2>5, <2>6, <2>7 DEF AcceptParts
<1>5. ASSUME NEW r \in Requests, AcceptUpdate(r) PROVE AcceptParts'
  <2>1. PICK o \in Offers :
          /\ o = req[r].offer /\ req[r].op = "accept" /\ Unlocked(r, o)
          /\ req[r] \in RequestStates
    BY <1>5, AtWork DEF AcceptUpdate
  <2>2. /\ req'[r].op = "accepting" /\ req'[r].offer = o
        /\ \A p \in Requests \ {r} : req'[p] = req[p]
        /\ offerStatus' = offerStatus /\ parentOfferId' = parentOfferId
    BY <1>5, <2>1 DEF AcceptUpdate, Continue, TypeInv, TypeOK, RequestStates
  <2>3. Locking'
    BY <2>1, <2>2 DEF AcceptParts, Locking, Unlocked
  <2>4. QED
    BY <2>2, <2>3 DEF AcceptParts, OneAccepted, CounteredOnce, CounterOfferClosed
<1>6. ASSUME NEW r \in Requests, AcceptIndex(r) PROVE AcceptParts'
  <2> DEFINE found == {x \in Siblings(req[r].offer) : offerStatus[x] \in {"pending", "countered"}}
  <2>1. PICK o \in Offers :
          /\ o = req[r].offer /\ req[r].op = "accepting" /\ UniqueAccepted(r)
          /\ req[r] \in RequestStates
    BY <1>6, AtWork DEF AcceptIndex
  <2>2. /\ req'[r].op = "expiring" /\ req'[r].offer = o /\ req'[r].open = found
        /\ \A p \in Requests \ {r} : req'[p] = req[p]
        /\ offerStatus' = offerStatus /\ parentOfferId' = parentOfferId
    <3>1. req' = [req EXCEPT ![r] = [req[r] EXCEPT !.op = "expiring", !.open = found]]
      BY <1>6 DEF AcceptIndex, Continue
    <3> HIDE DEF found
    <3>2. QED
      BY <1>6, <2>1, <3>1 DEF AcceptIndex, TypeInv, TypeOK, RequestStates
  <2>3. \A q \in Requests \ {r} :
          req[q].op \in {"accepting", "expiring"} => req[q].offer # o
    BY <2>1 DEF AcceptParts, Locking
  <2>4. \A q \in Requests \ {r} :
          req[q].op = "expiring" => PropertyOf[req[q].offer] # PropertyOf[o]
    <3>1. \A q \in Requests \ {r} : req[q].op \notin {"idle", "void"} => req[q].offer \in Offers
      BY AtWork
    <3>2. QED
      BY <2>1, <2>3, <3>1 DEF UniqueAccepted, Siblings
  <2>5. \A c \in Offers :
          (parentOfferId[c] = o /\ offerStatus[c] \in {"pending", "countered"}) => c \in found
    BY <2>1 DEF TypeInv, Chain, Siblings
  <2>6. \A x \in Siblings(o) : offerStatus[x] # "accepted"
    BY <2>1 DEF UniqueAccepted
  <2> HIDE DEF found
  <2>7. Locking'
    BY <2>2, <2>3, <2>4, <2>5, <2>6 DEF AcceptParts, Locking, Siblings
  <2>8. QED
    BY <2>2, <2>7 DEF AcceptParts, OneAccepted, CounteredOnce, CounterOfferClosed
<1>7. ASSUME NEW r \in Requests, AcceptCommit(r) PROVE AcceptParts'
  <2>1. PICK o \in Offers : o = req[r].offer /\ req[r].op = "expiring"
    BY <1>7, AtWork DEF AcceptCommit
  <2>2. /\ offerStatus'[o] = "accepted"
        /\ \A x \in Offers \ {o} :
             \/ offerStatus'[x] = offerStatus[x]
             \/ offerStatus'[x] = "expired" /\ offerStatus[x] \in {"pending", "countered"}
        /\ \A x \in req[r].open : x \in Offers \ {o} /\ offerStatus[x] \in {"pending", "countered"}
             => offerStatus'[x] = "expired"
        /\ parentOfferId' = parentOfferId
        /\ req'[r] = Idle /\ \A p \in Requests \ {r} : req'[p] = req[p]
    BY <1>7, <2>1, IdleShaped, Moves DEF AcceptCommit, Continue, TypeInv, TypeOK
  <2>3. /\ \A x \in Siblings(o) : offerStatus[x] # "accepted"
        /\ \A c \in Offers :
             (parentOfferId[c] = o /\ offerStatus[c] \in {"pending", "countered"})
               => c \in req[r].open
        /\ \A q \in Requests \ {r} :
             req[q].op = "expiring" => PropertyOf[req[q].offer] # PropertyOf[o]
    BY <2>1 DEF AcceptParts, Locking
  <2>4. Locking'
    <3>1. \A p \in Requests \ {r} : req[p].op \notin {"idle", "void"} => req[p].offer \in Offers
      BY AtWork
    <3>2. ASSUME NEW p \in Requests \ {r}, req[p].op = "expiring",
                 NEW x \in Siblings(req[p].offer)
          PROVE  offerStatus'[x] # "accepted"
      <4>1. x \in Offers \ {o} /\ offerStatus[x] # "accepted"
        BY <2>3, <3>1, <3>2 DEF Siblings, AcceptParts, Locking
      <4>2. QED
        BY <2>2, <4>1
    <3>3. ASSUME NEW p \in Requests \ {r}, req[p].op = "expiring", NEW c \in Offers,
                 parentOfferId[c] = req[p].offer, offerStatus'[c] \in {"pending", "countered"}
          PROVE  c \in req[p].open
      <4>1. offerStatus[c] \in {"pending", "countered"}
        BY <2>2, <3>3
      <4>2. QED
        BY <3>3, <4>1 DEF AcceptParts, Locking
    <3>4. Siblings(o)' = Siblings(o)
      BY DEF Siblings
    <3>5. QED
      BY <2>2, <3>2, <3>3, IdleShaped DEF AcceptParts, Locking, Siblings
  <2>5. OneAccepted'
    BY <2>1, <2>2, <2>3 DEF AcceptParts, OneAccepted, Siblings
  <2>6. CounteredOnce'
    BY <2>2 DEF AcceptParts, CounteredOnce
  <2>7. CounterOfferClosed'
    <3> SUFFICES ASSUME NEW c \in Offers, parentOfferId[c] # NoOffer,
                        offerStatus'[parentOfferId[c]] = "accepted"
                 PROVE  offerStatus'[c] \notin {"pending", "countered"}
      BY <2>2 DEF CounterOfferClosed
    <3>1. parentOfferId[c] \in Offers /\ parentOfferId[c] # c
      BY DEF TypeInv, TypeOK, Chain, Siblings
    <3>2. CASE c = o
      BY <2>2, <3>2
    <3>3. CASE c # o /\ parentOfferId[c] = o
      BY <2>2, <2>3, <3>3
    <3>4. CASE c # o /\ parentOfferId[c] # o
      <4>1. offerStatus[parentOfferId[c]] = "accepted"
        BY <2>2, <3>1, <3>4
      <4>2. offerStatus[c] \notin {"pending", "countered"}
        BY <4>1 DEF AcceptParts, CounterOfferClosed
      <4>3. QED
        BY <2>2, <3>4, <4>2
    <3>5. QED
      BY <3>2, <3>3, <3>4
  <2>8. QED
    BY <2>4, <2>5, <2>6, <2>7 DEF AcceptParts
<1>8. ASSUME NEW r \in Requests, RejectCommit(r) PROVE AcceptParts'
  <2>1. PICK o \in Offers : o = req[r].offer
    BY <1>8, AtWork DEF RejectCommit
  <2>2. /\ offerStatus'[o] = "rejected"
        /\ \A x \in Offers \ {o} : offerStatus'[x] = offerStatus[x]
        /\ parentOfferId' = parentOfferId
        /\ req'[r] = Idle /\ \A p \in Requests \ {r} : req'[p] = req[p]
    BY <1>8, <2>1, IdleShaped, Moves DEF RejectCommit, Continue, TypeInv, TypeOK
  <2>3. Locking'
    BY <2>2, IdleShaped DEF AcceptParts, Locking, Siblings
  <2>4. OneAccepted'
    BY <2>2 DEF AcceptParts, OneAccepted, Siblings
  <2>5. CounteredOnce' /\ CounterOfferClosed'
    BY <2>2 DEF AcceptParts, CounteredOnce, CounterOfferClosed, TypeInv, TypeOK
  <2>6. QED
    BY <2>3, <2>4, <2>5 DEF AcceptParts
<1>9. ASSUME NEW r \in Requests, VoidCommit(r) PROVE AcceptParts'
  <2>1. /\ \A x \in Offers :
             \/ offerStatus'[x] = offerStatus[x]
             \/ offerStatus'[x] = "expired" /\ offerStatus[x] \in {"pending", "countered"}
        /\ parentOfferId' = parentOfferId
        /\ req'[r] = Idle /\ \A p \in Requests \ {r} : req'[p] = req[p]
    BY <1>9, IdleShaped, Moves DEF VoidCommit, Continue, TypeInv, TypeOK
  <2>2. Locking'
    BY <2>1, IdleShaped DEF AcceptParts, Locking, Siblings
  <2>3. OneAccepted'
    BY <2>1 DEF AcceptParts, OneAccepted, Siblings
  <2>4. CounteredOnce' /\ CounterOfferClosed'
    BY <2>1 DEF AcceptParts, CounteredOnce, CounterOfferClosed, TypeInv, TypeOK
  <2>5. QED
    BY <2>2, <2>3, <2>4 DEF AcceptParts
<1>10. CASE UNCHANGED vars
  BY <1>10 DEF vars, AcceptParts, Locking, OneAccepted, CounteredOnce, CounterOfferClosed
<1>11. QED
  BY <1>1, <1>2, <1>3, <1>4, <1>5, <1>6, <1>7, <1>8, <1>9, <1>10 DEF Next

\* At most one offer per property is accepted: acceptances read stale statuses
\* and write unconditionally, the unique index alone keeps them apart.
THEOREM OneAcceptedKept == Spec => []OneAccepted
<1>1. AcceptInv => OneAccepted
  BY DEF AcceptInv
<1>2. QED
  BY AcceptInit, AcceptStep, <1>1, PTL DEF Spec

\* The optimistic lock of counterOfferAtomically makes a negotiation a chain.
THEOREM CounteredOnceKept == Spec => []CounteredOnce
<1>1. AcceptInv => CounteredOnce
  BY DEF AcceptInv
<1>2. QED
  BY AcceptInit, AcceptStep, <1>1, PTL DEF Spec

\* Accepting an offer that was countered meanwhile closes its counter-offer:
\* the snapshot is taken under the lock of the row the counter-offer needs.
THEOREM CounterOfferClosedKept == Spec => []CounterOfferClosed
<1>1. AcceptInv => CounterOfferClosed
  BY DEF AcceptInv
<1>2. QED
  BY AcceptInit, AcceptStep, <1>1, PTL DEF Spec

\* The four parts of a sound negotiation together.
THEOREM NegotiationIsSoundKept == Spec => []NegotiationIsSound
<1>1. Spec => [](TypeOK /\ OneAccepted /\ CounteredOnce /\ CounterOfferClosed)
  BY TypeCorrect, OneAcceptedKept, CounteredOnceKept, CounterOfferClosedKept, PTL
<1>2. QED
  BY <1>1 DEF NegotiationIsSound

-----------------------------------------------------------------------------
(* An analysis is shared after its review only.                            *)

\* An offer is analysed by the request that created it, while it has no analysis;
\* a review finds one, and a share one that is reviewed.
Analyses ==
  \A r \in Requests :
    /\ req[r].op = "analyse" =>
         /\ aiAnalysisStatus[req[r].offer] = "none"
         /\ \A q \in Requests \ {r} :
              req[q].op = "analyse" => req[q].offer # req[r].offer
    /\ req[r].op = "review" => aiAnalysisStatus[req[r].offer] # "none"
    /\ req[r].op = "share" => aiAnalysisStatus[req[r].offer] \in {"reviewed", "shared"}

AnalysisInv == TypeInv /\ Analyses

NoneShared ==
  \A o \in Offers :
    aiAnalysisStatus'[o] = "shared" => aiAnalysisStatus[o] \in {"reviewed", "shared"}

LEMMA AnalysisInit == Init => AnalysisInv
<1>1. Init => Analyses
  BY IdleShaped DEF Init, Analyses
<1>2. QED
  BY <1>1, TypeInvInit DEF AnalysisInv

\* A step that leaves the analyses alone, and its request about no analysis or
\* about one as it is.
LEMMA AnalysisMove ==
  ASSUME AnalysisInv, NEW r \in Requests, NEW state \in RequestStates,
         req' = [req EXCEPT ![r] = state], UNCHANGED aiAnalysisStatus,
         state.op # "analyse",
         state.op = "review" => aiAnalysisStatus[state.offer] # "none",
         state.op = "share" => aiAnalysisStatus[state.offer] \in {"reviewed", "shared"}
  PROVE  Analyses' /\ NoneShared
<1>1. /\ req'[r] = state
      /\ \A p \in Requests \ {r} : req'[p] = req[p]
  BY Moves DEF AnalysisInv, TypeInv
<1>2. Analyses'
  BY <1>1 DEF AnalysisInv, Analyses
<1>3. NoneShared
  BY DEF NoneShared
<1>4. QED
  BY <1>2, <1>3

LEMMA AnalysisStart ==
  ASSUME AnalysisInv, NEW r \in Requests, Start(r)
  PROVE  Analyses' /\ NoneShared
<1>1. ASSUME NEW p \in Properties, VoidStart(r, p) PROVE Analyses' /\ NoneShared
  <2> DEFINE open == {x \in Offers : PropertyOf[x] = p /\ offerStatus[x] \in {"pending", "countered"}}
             state == [Idle EXCEPT !.op = "void", !.open = open]
  <2>1. state \in RequestStates /\ state.op = "void"
    BY VoidShaped
  <2> HIDE DEF state
  <2>2. Begin(r, state)
    BY <1>1 DEF VoidStart, state
  <2>3. QED
    BY <2>1, <2>2, AnalysisMove DEF Begin
<1>2. ASSUME NEW o \in Offers, ReviewStart(r, o) PROVE Analyses' /\ NoneShared
  BY <1>2, OnShaped, AnalysisMove DEF ReviewStart, Begin
<1>3. ASSUME NEW o \in Offers, ShareStart(r, o) PROVE Analyses' /\ NoneShared
  <2>1. /\ On("share", o) \in RequestStates
        /\ On("share", o).op = "share" /\ On("share", o).offer = o
    BY OnShaped
  <2>2. Begin(r, On("share", o)) /\ aiAnalysisStatus[o] = "reviewed"
    BY <1>3 DEF ShareStart
  <2> DEFINE state == On("share", o)
  <2>3. /\ state.op # "analyse" /\ state.op # "review"
        /\ aiAnalysisStatus[state.offer] \in {"reviewed", "shared"}
    BY <2>1, <2>2
  <2> HIDE DEF state
  <2>4. state \in RequestStates /\ Begin(r, state)
    BY <2>1, <2>2 DEF state
  <2>5. QED
    BY <2>3, <2>4, AnalysisMove DEF Begin
<1>4. ASSUME NEW o \in Offers, AcceptStart(r, o) \/ RejectStart(r, o)
      PROVE  Analyses' /\ NoneShared
  BY <1>4, OnShaped, AnalysisMove DEF AcceptStart, RejectStart, Begin
<1>5. ASSUME NEW o \in Offers, NEW c \in Offers, CounterStart(r, o, c)
      PROVE  Analyses' /\ NoneShared
  <2> DEFINE state == [On("counter", o) EXCEPT !.child = c]
  <2>1. c \in Siblings(o) /\ Begin(r, state)
    BY <1>5 DEF CounterStart
  <2>2. state \in RequestStates /\ state.op = "counter"
    BY <2>1, CounterShaped
  <2> HIDE DEF state
  <2>3. QED
    BY <2>1, <2>2, AnalysisMove DEF Begin
<1>6. QED
  BY <1>1, <1>2, <1>3, <1>4, <1>5 DEF Start

LEMMA AnalysisStep == AnalysisInv /\ [Next]_vars => AnalysisInv' /\ NoneShared
<1> SUFFICES ASSUME AnalysisInv, [Next]_vars PROVE Analyses' /\ NoneShared
  BY TypeInvStep DEF AnalysisInv
<1>t. TypeInv /\ TypeOK
  BY DEF AnalysisInv, TypeInv
<1>1. ASSUME NEW r \in Requests, NEW o \in Offers, CreateOffer(r, o)
      PROVE  Analyses' /\ NoneShared
  <2>1. /\ req'[r] = On("analyse", o)
        /\ On("analyse", o).op = "analyse" /\ On("analyse", o).offer = o
        /\ \A p \in Requests \ {r} : req'[p] = req[p]
        /\ aiAnalysisStatus' = aiAnalysisStatus
    BY <1>1, <1>t, OnShaped, Moves DEF CreateOffer, Continue
  <2>2. offerStatus[o] = "none" /\ aiAnalysisStatus[o] = "none"
    BY <1>1, <1>t DEF CreateOffer, Fresh, TypeInv, Analysed
  <2>3. \A q \in Requests : req[q].op = "analyse" => req[q].offer # o
    BY <1>t, <2>2, AtWork
  <2>4. QED
    BY <2>1, <2>2, <2>3 DEF AnalysisInv, Analyses, NoneShared
<1>2. ASSUME NEW r \in Requests, Analyse(r) \/ AnalysisCommit(r)
      PROVE  Analyses' /\ NoneShared
  <2> DEFINE o == req[r].offer
  <2>1. req[r].op \in {"analyse", "review", "share"} /\ o \in Offers
    BY <1>2, <1>t, AtWork DEF Analyse, AnalysisCommit
  <2>2. /\ req'[r].op = "idle"
        /\ \A p \in Requests \ {r} : req'[p] = req[p]
    BY <1>2, <1>t, IdleShaped, Moves DEF Analyse, AnalysisCommit, Continue
  <2>3. /\ \A x \in Offers \ {o} : aiAnalysisStatus'[x] = aiAnalysisStatus[x]
        /\ req[r].op = "analyse" => aiAnalysisStatus'[o] = "generated"
        /\ req[r].op = "review" => aiAnalysisStatus'[o] = "reviewed"
        /\ req[r].op = "share" => aiAnalysisStatus'[o] = "shared"
    BY <1>2, <1>t, <2>1 DEF Analyse, AnalysisCommit, TypeOK
  <2>4. \A q \in Requests : req[q].op \notin {"idle", "void"} => req[q].offer \in Offers
    BY <1>t, AtWork
  <2> HIDE DEF o
  <2>5. /\ req[r].op = "analyse" => aiAnalysisStatus[o] = "none"
        /\ req[r].op = "review" => aiAnalysisStatus[o] # "none"
        /\ req[r].op = "share" => aiAnalysisStatus[o] \in {"reviewed", "shared"}
    BY DEF AnalysisInv, Analyses, o
  <2>6. Analyses'
    <3>1. ASSUME NEW q \in Requests \ {r}, req[q].op \in {"analyse", "review", "share"},
                 req[q].offer = o
          PROVE  /\ req[q].op # "analyse" /\ req[r].op # "analyse"
                 /\ req[q].op = "share" => aiAnalysisStatus'[o] \in {"reviewed", "shared"}
                 /\ aiAnalysisStatus'[o] # "none"
      BY <2>1, <2>3, <2>5, <3>1 DEF AnalysisInv, Analyses, o
    <3>2. ASSUME NEW q \in Requests \ {r}
          PROVE  /\ req'[q].op = "analyse" =>
                      /\ aiAnalysisStatus'[req'[q].offer] = "none"
                      /\ \A p \in Requests \ {q} :
                           req'[p].op = "analyse" => req'[p].offer # req'[q].offer
                 /\ req'[q].op = "review" => aiAnalysisStatus'[req'[q].offer] # "none"
                 /\ req'[q].op = "share" =>
                      aiAnalysisStatus'[req'[q].offer] \in {"reviewed", "shared"}
      BY <2>2, <2>3, <2>4, <3>1 DEF AnalysisInv, Analyses
    <3>3. QED
      BY <2>2, <3>2 DEF Analyses
  <2>7. NoneShared
    BY <2>1, <2>3, <2>5 DEF NoneShared
  <2>8. QED
    BY <2>6, <2>7
<1>3. ASSUME NEW r \in Requests,
             \/ CounterCommit(r) \/ AcceptCommit(r) \/ RejectCommit(r)
             \/ VoidCommit(r) \/ Fail(r)
      PROVE  Analyses' /\ NoneShared
  BY <1>3, IdleShaped, AnalysisMove
     DEF CounterCommit, AcceptCommit, RejectCommit, VoidCommit, Fail, Continue
<1>4. ASSUME NEW r \in Requests, AcceptUpdate(r) \/ AcceptIndex(r)
      PROVE  Analyses' /\ NoneShared
  <2>1. PICK state \in RequestStates :
          /\ req' = [req EXCEPT ![r] = state]
          /\ state.op \in {"accepting", "expiring"}
    <3>1. req[r] \in RequestStates
      BY <1>t DEF TypeOK
    <3>2. CASE AcceptUpdate(r)
      <4> DEFINE state == [req[r] EXCEPT !.op = "accepting"]
      <4>1. state \in RequestStates /\ state.op = "accepting"
        BY <3>1 DEF RequestStates
      <4>2. QED
        BY <3>2, <4>1 DEF AcceptUpdate, Continue
    <3>3. CASE AcceptIndex(r)
      <4> DEFINE state == [req[r] EXCEPT !.op = "expiring", !.open =
                    {x \in Siblings(req[r].offer) : offerStatus[x] \in {"pending", "countered"}}]
      <4>1. state \in RequestStates /\ state.op = "expiring"
        BY <3>1 DEF RequestStates, Siblings
      <4>2. QED
        BY <3>3, <4>1 DEF AcceptIndex, Continue
    <3>4. QED
      BY <1>4, <3>2, <3>3
  <2>2. UNCHANGED aiAnalysisStatus
    BY <1>4 DEF AcceptUpdate, AcceptIndex
  <2>3. QED
    BY <2>1, <2>2, AnalysisMove
<1>5. CASE UNCHANGED vars
  BY <1>5 DEF vars, AnalysisInv, Analyses, NoneShared
<1>6. QED
  BY <1>1, <1>2, <1>3, <1>4, <1>5, AnalysisStart DEF Next

\* shareAiAnalysis writes by id what it read reviewed, and nothing takes a review
\* back meanwhile but another one.
THEOREM SharedOnlyReviewedKept == Spec => SharedOnlyReviewed
<1>1. AnalysisInv /\ [Next]_vars => [NoneShared]_vars
  BY AnalysisStep
<1>2. QED
  BY AnalysisInit, AnalysisStep, <1>1, PTL DEF Spec, SharedOnlyReviewed, NoneShared

-----------------------------------------------------------------------------
(* Outcomes are final where requests do not race.                          *)

\* The operations that write a status without looking at it again.
Blind == {"accept", "accepting", "expiring", "reject"}

\* Two requests on the offers of one property leave it contended; elsewhere what
\* a request read still holds.
Exclusive ==
  \A r \in Requests : \A q \in Requests \ {r} :
    \A p \in Touched(req[r]) : p \in Touched(req[q]) => p \in contended

ReadsHold ==
  \A r \in Requests :
    req[r].op \in Blind /\ PropertyOf[req[r].offer] \notin contended
      => offerStatus[req[r].offer] = "pending"

OutcomeInv == TypeInv /\ Exclusive /\ ReadsHold

OutcomeKept ==
  \A o \in Offers :
    (PropertyOf[o] \notin contended' /\ offerStatus[o] \in {"accepted", "rejected", "expired"})
      => offerStatus'[o] = offerStatus[o]

LEMMA NothingTouched == Touched(Idle) = {}
  BY IdleShaped DEF Touched

LEMMA OutcomeInit == Init => OutcomeInv
<1>1. Init => Exclusive /\ ReadsHold
  BY IdleShaped, NothingTouched DEF Init, Exclusive, ReadsHold, Blind
<1>2. QED
  BY <1>1, TypeInvInit DEF OutcomeInv

\* A request that begins enters the ghost with whoever is there already.
LEMMA OutcomeBegin ==
  ASSUME OutcomeInv, NEW r \in Requests, NEW state \in RequestStates, Begin(r, state),
         state.op \in Blind => offerStatus[state.offer] = "pending"
  PROVE  Exclusive' /\ ReadsHold' /\ OutcomeKept
<1>1. /\ req'[r] = state
      /\ \A q \in Requests \ {r} : req'[q] = req[q]
  BY Moves DEF OutcomeInv, TypeInv, Begin
<1>2. /\ contended \subseteq contended' /\ offerStatus' = offerStatus
      /\ \A p \in Touched(state) :
           (\E q \in Requests \ {r} : p \in Touched(req[q])) => p \in contended'
  BY DEF Begin
<1>3. /\ Touched(req[r])' = Touched(state)
      /\ \A q \in Requests \ {r} : Touched(req[q])' = Touched(req[q])
  BY <1>1 DEF Touched
<1>4. Exclusive'
  BY <1>2, <1>3 DEF OutcomeInv, Exclusive
<1>5. ReadsHold'
  BY <1>1, <1>2 DEF OutcomeInv, ReadsHold
<1>6. OutcomeKept
  BY <1>2 DEF OutcomeKept
<1>7. QED
  BY <1>4, <1>5, <1>6

\* A request that goes on touches no more than it did, and changes no offer but
\* a new one or one of a property it touches: what the others read elsewhere holds.
LEMMA OutcomeWrite ==
  ASSUME OutcomeInv, NEW r \in Requests, NEW state \in RequestStates,
         Continue(r, state), Touched(state) \subseteq Touched(req[r]),
         state.op \in Blind =>
           /\ req[r].op \in Blind /\ state.offer = req[r].offer
           /\ offerStatus' = offerStatus,
         \A x \in Offers : \/ offerStatus'[x] = offerStatus[x]
                           \/ offerStatus[x] = "none"
                           \/ PropertyOf[x] \in Touched(req[r])
  PROVE  Exclusive' /\ ReadsHold'
<1>1. /\ req'[r] = state /\ contended' = contended
      /\ \A q \in Requests \ {r} : req'[q] = req[q]
  BY Moves DEF OutcomeInv, TypeInv, Continue
<1>2. /\ Touched(req[r])' = Touched(state)
      /\ \A q \in Requests \ {r} : Touched(req[q])' = Touched(req[q])
  BY <1>1 DEF Touched
<1>3. Exclusive'
  BY <1>1, <1>2 DEF OutcomeInv, Exclusive
<1>4. ASSUME NEW q \in Requests \ {r}, req[q].op \in Blind,
             PropertyOf[req[q].offer] \notin contended
      PROVE  offerStatus'[req[q].offer] = "pending"
  <2>1. req[q].offer \in Offers /\ offerStatus[req[q].offer] = "pending"
    BY <1>4, AtWork DEF OutcomeInv, ReadsHold, Blind
  <2>2. PropertyOf[req[q].offer] \in Touched(req[q])
    BY <1>4 DEF Touched, Blind
  <2>3. PropertyOf[req[q].offer] \notin Touched(req[r])
    BY <1>4, <2>2 DEF OutcomeInv, Exclusive
  <2>4. QED
    BY <2>1, <2>3
<1>5. ReadsHold'
  BY <1>1, <1>4 DEF OutcomeInv, ReadsHold
<1>6. QED
  BY <1>3, <1>5

LEMMA OutcomeStart ==
  ASSUME OutcomeInv, NEW r \in Requests, Start(r)
  PROVE  Exclusive' /\ ReadsHold' /\ OutcomeKept
<1> SUFFICES \E state \in RequestStates :
               /\ Begin(r, state)
               /\ state.op \in Blind => offerStatus[state.offer] = "pending"
  BY OutcomeBegin
<1>1. ASSUME NEW p \in Properties, VoidStart(r, p)
      PROVE  \E state \in RequestStates : Begin(r, state) /\ state.op \notin Blind
  <2> DEFINE open == {x \in Offers : PropertyOf[x] = p /\ offerStatus[x] \in {"pending", "countered"}}
             state == [Idle EXCEPT !.op = "void", !.open = open]
  <2>1. state \in RequestStates /\ state.op = "void"
    BY VoidShaped
  <2>2. Begin(r, state)
    BY <1>1 DEF VoidStart
  <2>3. QED
    BY <2>1, <2>2 DEF Blind
<1>2. ASSUME NEW o \in Offers, ReviewStart(r, o)
      PROVE  Begin(r, On("review", o))
  BY <1>2 DEF ReviewStart
<1>3. ASSUME NEW o \in Offers, ShareStart(r, o)
      PROVE  Begin(r, On("share", o))
  BY <1>3 DEF ShareStart
<1>4. ASSUME NEW o \in Offers, AcceptStart(r, o)
      PROVE  Begin(r, On("accept", o)) /\ offerStatus[o] = "pending"
  BY <1>4 DEF AcceptStart
<1>5. ASSUME NEW o \in Offers, RejectStart(r, o)
      PROVE  Begin(r, On("reject", o)) /\ offerStatus[o] = "pending"
  BY <1>5 DEF RejectStart
<1>6. ASSUME NEW o \in Offers, NEW c \in Offers, CounterStart(r, o, c)
      PROVE  \E state \in RequestStates : Begin(r, state) /\ state.op \notin Blind
  <2> DEFINE state == [On("counter", o) EXCEPT !.child = c]
  <2>1. c \in Siblings(o) /\ Begin(r, state)
    BY <1>6 DEF CounterStart
  <2>2. state \in RequestStates /\ state.op = "counter"
    BY <2>1, CounterShaped
  <2>3. QED
    BY <2>1, <2>2 DEF Blind
<1>7. ASSUME NEW o \in Offers, NEW op \in {"accept", "reject", "review", "share"}
      PROVE  On(op, o) \in RequestStates /\ On(op, o).op = op /\ On(op, o).offer = o
  BY OnShaped
<1>8. QED
  BY <1>1, <1>2, <1>3, <1>4, <1>5, <1>6, <1>7 DEF Start, Blind

LEMMA OutcomeStep == OutcomeInv /\ [Next]_vars => OutcomeInv' /\ OutcomeKept
<1> SUFFICES ASSUME OutcomeInv, [Next]_vars PROVE Exclusive' /\ ReadsHold' /\ OutcomeKept
  BY TypeInvStep DEF OutcomeInv
<1>t. TypeInv /\ TypeOK
  BY DEF OutcomeInv, TypeInv
<1>i. Idle \in RequestStates /\ Idle.op \notin Blind /\ Touched(Idle) = {}
  BY IdleShaped, NothingTouched DEF Blind
<1>1. ASSUME NEW r \in Requests, NEW o \in Offers, CreateOffer(r, o)
      PROVE  Exclusive' /\ ReadsHold' /\ OutcomeKept
  <2> DEFINE state == On("analyse", o)
  <2>1. /\ state \in RequestStates /\ state.op = "analyse" /\ state.open = {}
    BY OnShaped
  <2>2. Continue(r, state)
    BY <1>1 DEF CreateOffer
  <2>3. offerStatus[o] = "none" /\ \A x \in Offers \ {o} : offerStatus'[x] = offerStatus[x]
    BY <1>1, <1>t DEF CreateOffer, Fresh, TypeOK
  <2> HIDE DEF state
  <2>4. Touched(state) = {} /\ state.op \notin Blind
    BY <2>1 DEF Touched, Blind
  <2>5. Exclusive' /\ ReadsHold'
    BY <2>1, <2>2, <2>3, <2>4, OutcomeWrite
  <2>6. OutcomeKept
    BY <2>3 DEF OutcomeKept
  <2>7. QED
    BY <2>5, <2>6
<1>2. ASSUME NEW r \in Requests, Analyse(r) \/ AnalysisCommit(r) \/ Fail(r)
      PROVE  Exclusive' /\ ReadsHold' /\ OutcomeKept
  <2>1. Continue(r, Idle) /\ offerStatus' = offerStatus
    BY <1>2 DEF Analyse, AnalysisCommit, Fail
  <2>2. QED
    BY <1>i, <2>1, OutcomeWrite DEF OutcomeKept
<1>3. ASSUME NEW r \in Requests, CounterCommit(r)
      PROVE  Exclusive' /\ ReadsHold' /\ OutcomeKept
  <2> DEFINE o == req[r].offer
             c == req[r].child
  <2>1. /\ Continue(r, Idle) /\ offerStatus[o] = "pending"
        /\ PropertyOf[o] \in Touched(req[r])
    BY <1>3 DEF CounterCommit, Touched
  <2>2. o \in Offers /\ c \in Offers /\ offerStatus[c] = "none"
    BY <1>3, <1>t, AtWork DEF CounterCommit, WellShaped, Siblings, TypeInv, Identities
  <2>3. \A x \in Offers \ {o, c} : offerStatus'[x] = offerStatus[x]
    BY <1>3, <1>t, <2>2 DEF CounterCommit, TypeOK
  <2> HIDE DEF o, c
  <2>4. Exclusive' /\ ReadsHold'
    BY <1>i, <2>1, <2>2, <2>3, OutcomeWrite
  <2>5. OutcomeKept
    BY <2>1, <2>2, <2>3 DEF OutcomeKept
  <2>6. QED
    BY <2>4, <2>5
<1>4. ASSUME NEW r \in Requests, NEW state \in RequestStates, Continue(r, state),
             req[r].op \in Blind, state.op \in Blind, state.offer = req[r].offer,
             offerStatus' = offerStatus
      PROVE  Exclusive' /\ ReadsHold' /\ OutcomeKept
  <2>1. Touched(state) = Touched(req[r])
    BY <1>4 DEF Touched, Blind
  <2>2. QED
    BY <1>4, <2>1, OutcomeWrite DEF OutcomeKept
<1>5. ASSUME NEW r \in Requests, AcceptUpdate(r)
      PROVE  Exclusive' /\ ReadsHold' /\ OutcomeKept
  <2> DEFINE state == [req[r] EXCEPT !.op = "accepting"]
  <2>1. req[r] \in RequestStates
    BY <1>t DEF TypeOK
  <2>2. /\ state \in RequestStates /\ state.op = "accepting"
        /\ state.offer = req[r].offer
    BY <2>1 DEF RequestStates
  <2>3. Continue(r, state) /\ req[r].op = "accept" /\ offerStatus' = offerStatus
    BY <1>5 DEF AcceptUpdate
  <2> HIDE DEF state
  <2>4. QED
    BY <1>4, <2>2, <2>3 DEF Blind
<1>6. ASSUME NEW r \in Requests, AcceptIndex(r)
      PROVE  Exclusive' /\ ReadsHold' /\ OutcomeKept
  <2> DEFINE state == [req[r] EXCEPT !.op = "expiring", !.open =
                {x \in Siblings(req[r].offer) : offerStatus[x] \in {"pending", "countered"}}]
  <2>1. req[r] \in RequestStates
    BY <1>t DEF TypeOK
  <2>2. /\ state \in RequestStates /\ state.op = "expiring"
        /\ state.offer = req[r].offer
    BY <2>1 DEF RequestStates, Siblings
  <2>3. Continue(r, state) /\ req[r].op = "accepting" /\ offerStatus' = offerStatus
    BY <1>6 DEF AcceptIndex
  <2> HIDE DEF state
  <2>4. QED
    BY <1>4, <2>2, <2>3 DEF Blind
<1>7. ASSUME NEW r \in Requests, AcceptCommit(r)
      PROVE  Exclusive' /\ ReadsHold' /\ OutcomeKept
  <2> DEFINE o == req[r].offer
  <2>1. /\ o \in Offers /\ Continue(r, Idle) /\ req[r].open \subseteq Siblings(o)
        /\ PropertyOf[o] \in Touched(req[r])
    BY <1>7, <1>t, AtWork, OfferAssumption DEF AcceptCommit, WellShaped, Touched
  <2>2. \A x \in Offers \ {o} :
          offerStatus'[x] = offerStatus[x]
          \/ /\ x \in req[r].open
             /\ offerStatus[x] \in {"pending", "countered"}
    BY <1>7 DEF AcceptCommit
  <2>3. PropertyOf[o] \notin contended => offerStatus[o] = "pending"
    BY <1>7 DEF AcceptCommit, OutcomeInv, ReadsHold, Blind
  <2> HIDE DEF o
  <2>4. Exclusive' /\ ReadsHold'
    BY <1>i, <2>1, <2>2, OutcomeWrite DEF Siblings
  <2>5. OutcomeKept
    BY <2>1, <2>2, <2>3 DEF OutcomeKept, Continue
  <2>6. QED
    BY <2>4, <2>5
<1>8. ASSUME NEW r \in Requests, RejectCommit(r)
      PROVE  Exclusive' /\ ReadsHold' /\ OutcomeKept
  <2> DEFINE o == req[r].offer
  <2>1. /\ o \in Offers /\ Continue(r, Idle) /\ PropertyOf[o] \in Touched(req[r])
    BY <1>8, <1>t, AtWork DEF RejectCommit, Touched
  <2>2. \A x \in Offers \ {o} : offerStatus'[x] = offerStatus[x]
    BY <1>8, <1>t DEF RejectCommit, TypeOK
  <2>3. PropertyOf[o] \notin contended => offerStatus[o] = "pending"
    BY <1>8 DEF RejectCommit, OutcomeInv, ReadsHold, Blind
  <2> HIDE DEF o
  <2>4. Exclusive' /\ ReadsHold'
    BY <1>i, <2>1, <2>2, OutcomeWrite
  <2>5. OutcomeKept
    BY <2>1, <2>2, <2>3 DEF OutcomeKept, Continue
  <2>6. QED
    BY <2>4, <2>5
<1>9. ASSUME NEW r \in Requests, VoidCommit(r)
      PROVE  Exclusive' /\ ReadsHold' /\ OutcomeKept
  <2>1. /\ Continue(r, Idle)
        /\ \A x \in Offers : \/ offerStatus'[x] = offerStatus[x]
                             \/ /\ x \in req[r].open
                                /\ offerStatus[x] \in {"pending", "countered"}
    BY <1>9 DEF VoidCommit
  <2>2. \A x \in req[r].open : PropertyOf[x] \in Touched(req[r])
    BY <1>9 DEF VoidCommit, Touched
  <2>3. Exclusive' /\ ReadsHold'
    BY <1>i, <2>1, <2>2, OutcomeWrite
  <2>4. OutcomeKept
    BY <2>1 DEF OutcomeKept
  <2>5. QED
    BY <2>3, <2>4
<1>10. CASE UNCHANGED vars
  BY <1>10 DEF vars, OutcomeInv, Exclusive, ReadsHold, Touched, OutcomeKept
<1>11. QED
  BY <1>1, <1>2, <1>3, <1>5, <1>6, <1>7, <1>8, <1>9, <1>10, OutcomeStart DEF Next

\* accepted, rejected and expired are final on a property no two requests decided
\* on at once: the guard of the read is enough when nobody else writes.
THEOREM OutcomeIsFinalKept == Spec => OutcomeIsFinal
<1>1. OutcomeInv /\ [Next]_vars => [OutcomeKept]_vars
  BY OutcomeStep
<1>2. QED
  BY OutcomeInit, OutcomeStep, <1>1, PTL DEF Spec, OutcomeIsFinal, OutcomeKept
=============================================================================
