---------------------------- MODULE ListingProofs ----------------------------
(***************************************************************************)
(* Proofs about Listing, for any number of listings, texts, portals and    *)
(* requests.                                                               *)
(***************************************************************************)
EXTENDS Listing, TLAPS

Ops == {"idle", "gate", "status", "revert", "revertClosed", "text", "approve",
        "approving", "promote", "promoting", "generate", "portals"}

\* The values a request carries fit its next step: only the one that makes
\* content for the portals is past the first of them.
WellFormed(q) ==
  /\ q.op = "idle" => q = Idle
  /\ q.op # "idle" => q.listing \in Listings
  /\ q.op # "portals" => q.portal = 1

TypeInv == TypeOK /\ \A r \in Requests : WellFormed(req[r])

-----------------------------------------------------------------------------
(* The states requests take.                                               *)

\* There is a first portal.
LEMMA FirstPortal == Len(PORTALS) \in Nat /\ 1 \in 1..Len(PORTALS)
  BY ListingAssumption

LEMMA IdleFormed ==
  /\ Idle \in RequestStates /\ WellFormed(Idle)
  /\ Idle.op = "idle" /\ Idle.listing = NoListing /\ Idle.portal = 1
<1>1. Idle.op = "idle" /\ Idle.listing = NoListing /\ Idle.portal = 1
  BY DEF Idle
<1>2. Idle \in RequestStates
  BY FirstPortal DEF Idle, RequestStates, ListingStatuses, Descriptions
<1>3. QED
  BY <1>1, <1>2 DEF WellFormed

LEMMA OnFormed ==
  ASSUME NEW op \in Ops \ {"idle"}, NEW l \in Listings
  PROVE  /\ On(op, l) \in RequestStates
         /\ On(op, l).op = op /\ On(op, l).listing = l /\ On(op, l).portal = 1
         /\ \A s \in ListingStatuses : [On(op, l) EXCEPT !.next = s] \in RequestStates
         /\ \A x \in Descriptions : [On(op, l) EXCEPT !.text = x] \in RequestStates
  BY FirstPortal DEF On, Idle, Ops, RequestStates, ListingStatuses, Descriptions

\* Only the request that takes the step changes its state.
LEMMA Moves ==
  ASSUME TypeOK, NEW r \in Requests, NEW state \in RequestStates,
         req' = [req EXCEPT ![r] = state]
  PROVE  /\ req' \in [Requests -> RequestStates]
         /\ req'[r] = state
         /\ \A p \in Requests \ {r} : req'[p] = req[p]
  BY DEF TypeOK

LEMMA FinishMoves ==
  ASSUME TypeOK, NEW r \in Requests, req' = [req EXCEPT ![r] = Idle]
  PROVE  /\ req' \in [Requests -> RequestStates]
         /\ req'[r] = Idle
         /\ \A p \in Requests \ {r} : req'[p] = req[p]
  BY IdleFormed, Moves

LEMMA ContinueMoves ==
  ASSUME TypeOK, NEW r \in Requests, NEW op \in Ops, Continue(r, op)
  PROVE  /\ req' \in [Requests -> RequestStates]
         /\ req'[r].op = op /\ req'[r].listing = req[r].listing
         /\ req'[r].next = req[r].next /\ req'[r].text = req[r].text
         /\ req'[r].portal = req[r].portal
         /\ \A p \in Requests \ {r} : req'[p] = req[p]
         /\ contended' = contended /\ abandoned' = abandoned
<1> DEFINE state == [req[r] EXCEPT !.op = op]
<1>1. req[r] \in RequestStates
  BY DEF TypeOK
<1>2. /\ state \in RequestStates /\ state.op = op /\ state.listing = req[r].listing
      /\ state.next = req[r].next /\ state.text = req[r].text
      /\ state.portal = req[r].portal
  BY <1>1 DEF RequestStates, Ops
<1>3. /\ req' = [req EXCEPT ![r] = state]
      /\ contended' = contended /\ abandoned' = abandoned
  BY DEF Continue
<1> HIDE DEF state
<1>4. QED
  BY <1>2, <1>3, Moves

\* A request that reads a text and goes on.
LEMMA ReadMoves ==
  ASSUME TypeOK, NEW r \in Requests, NEW op \in Ops, NEW x \in Descriptions,
         req' = [req EXCEPT ![r].op = op, ![r].text = x]
  PROVE  /\ req' \in [Requests -> RequestStates]
         /\ req'[r].op = op /\ req'[r].listing = req[r].listing
         /\ req'[r].next = req[r].next /\ req'[r].text = x
         /\ req'[r].portal = req[r].portal
         /\ \A p \in Requests \ {r} : req'[p] = req[p]
  BY DEF TypeOK, RequestStates, Ops

LEMMA BeginMoves ==
  ASSUME TypeOK, NEW r \in Requests, NEW state \in RequestStates, Begin(r, state)
  PROVE  /\ req[r] = Idle
         /\ req' \in [Requests -> RequestStates]
         /\ req'[r] = state
         /\ \A p \in Requests \ {r} : req'[p] = req[p]
         /\ contended' \subseteq contended \cup {state.listing}
         /\ contended \subseteq contended'
         /\ \A p \in Requests \ {r} :
              req[p].listing = state.listing => state.listing \in contended'
         /\ abandoned' = abandoned
<1>1. /\ req[r] = Idle /\ req' = [req EXCEPT ![r] = state]
      /\ Contend(r, state.listing) /\ abandoned' = abandoned
  BY DEF Begin
<1>2. QED
  BY <1>1, Moves DEF Contend

LEMMA OnceMoves ==
  ASSUME TypeOK, NEW r \in Requests, NEW l \in Listings, Once(r, l)
  PROVE  /\ req[r] = Idle /\ req' = req
         /\ contended' \subseteq contended \cup {l}
         /\ contended \subseteq contended'
         /\ \A p \in Requests \ {r} : req[p].listing = l => l \in contended'
         /\ abandoned' = abandoned
  BY DEF Once, Contend, TypeOK

\* The listing of a request at work.
LEMMA AtWork ==
  ASSUME TypeInv, NEW r \in Requests, req[r].op # "idle"
  PROVE  req[r].listing \in Listings
  BY DEF TypeInv, WellFormed

-----------------------------------------------------------------------------
(* Type correctness.                                                       *)

LEMMA TypeInvInit == Init => TypeInv
<1> SUFFICES ASSUME Init PROVE TypeInv
  OBVIOUS
<1>1. TypeOK
  BY IdleFormed DEF Init, TypeOK, ListingStatuses, Descriptions
<1>2. \A r \in Requests : WellFormed(req[r])
  BY IdleFormed DEF Init
<1>3. QED
  BY <1>1, <1>2 DEF TypeInv

\* A step that leaves the other requests alone.
LEMMA TypeInvMove ==
  ASSUME TypeInv, NEW r \in Requests, TypeOK', WellFormed(req'[r]),
         \A p \in Requests \ {r} : req'[p] = req[p]
  PROVE  TypeInv'
<1>1. \A p \in Requests : WellFormed(req'[p])
  BY DEF TypeInv
<1>2. QED
  BY <1>1 DEF TypeInv, WellFormed, Idle

\* A handler that starts to work, and may write the photos' approval.
LEMMA TypeInvBegin ==
  ASSUME TypeInv, NEW r \in Requests, NEW l \in Listings, NEW state \in RequestStates,
         Begin(r, state), state.op # "idle", state.listing = l, state.portal = 1,
         UNCHANGED <<statusVars, aiDescription, description, descriptionApproved,
                     portalContent, eaaSigned>>,
         photosApproved' \subseteq Listings
  PROVE  TypeInv'
<1>1. /\ req' \in [Requests -> RequestStates] /\ req'[r] = state
      /\ \A p \in Requests \ {r} : req'[p] = req[p]
      /\ contended' \subseteq contended \cup {l} /\ abandoned' = abandoned
  BY BeginMoves DEF TypeInv
<1>2. TypeOK'
  BY <1>1 DEF TypeInv, TypeOK, statusVars
<1>3. WellFormed(req'[r])
  BY <1>1 DEF WellFormed
<1>4. QED
  BY <1>1, <1>2, <1>3, TypeInvMove

LEMMA TypeInvStart ==
  ASSUME TypeInv, NEW r \in Requests, NEW l \in Listings, Start(r, l)
  PROVE  TypeInv'
<1>1. TypeOK /\ WellFormed(req[r])
  BY DEF TypeInv
<1>2. ASSUME Once(r, l), UNCHANGED <<statusVars, portalContent>>,
             eaaSigned' \subseteq Listings,
             aiDescription' \in [Listings -> Descriptions],
             description' \in [Listings -> Descriptions],
             descriptionApproved' \subseteq Listings, photosApproved' \subseteq Listings
      PROVE  TypeInv'
  <2>1. req' = req /\ contended' \subseteq contended \cup {l} /\ abandoned' = abandoned
    BY <1>1, <1>2, OnceMoves
  <2>2. TypeOK'
    BY <1>1, <1>2, <2>1 DEF TypeOK, statusVars
  <2>3. QED
    BY <1>1, <2>1, <2>2, TypeInvMove
<1>3. ASSUME NEW op \in Ops \ {"idle"}, NEW s \in ListingStatuses,
             Begin(r, [On(op, l) EXCEPT !.next = s]),
             UNCHANGED <<statusVars, reviewVars, portalContent, eaaSigned>>
      PROVE  TypeInv'
  <2> DEFINE state == [On(op, l) EXCEPT !.next = s]
  <2>1. /\ state \in RequestStates
        /\ state.op = op /\ state.listing = l /\ state.portal = 1
    BY OnFormed DEF On, Idle
  <2> HIDE DEF state
  <2>2. QED
    BY <1>1, <1>3, <2>1, TypeInvBegin DEF state, reviewVars, TypeOK
<1>4. CASE SignEaa(r, l)
  BY <1>1, <1>2, <1>4 DEF SignEaa, TypeOK, reviewVars
<1>5. CASE \E s \in ListingStatuses : StatusStart(r, l, s)
  BY <1>3, <1>5 DEF StatusStart, Ops
<1>6. CASE EditStart(r, l) \/ CloseStart(r, l)
  BY <1>3, <1>6 DEF EditStart, CloseStart, Ops, ListingStatuses
<1>7. CASE RevertStart(r, l)
  <2>1. PICK op \in {"revert", "revertClosed"} : Begin(r, On(op, l))
    BY <1>7 DEF RevertStart
  <2>2. /\ On(op, l) \in RequestStates
        /\ On(op, l).op = op /\ On(op, l).listing = l /\ On(op, l).portal = 1
    BY OnFormed DEF Ops
  <2>3. QED
    BY <1>1, <1>7, <2>1, <2>2, TypeInvBegin DEF RevertStart, reviewVars, TypeOK
<1>8. CASE \E x \in Texts : \/ GenerateListingDescription(r, l, x)
                            \/ SaveDescriptionDraft(r, l, x)
  BY <1>1, <1>2, <1>8 DEF GenerateListingDescription, SaveDescriptionDraft, TypeOK, Descriptions
<1>9. CASE RejectDescription(r, l) \/ ReinstatePhotos(r, l)
  BY <1>1, <1>2, <1>9 DEF RejectDescription, ReinstatePhotos, TypeOK, Descriptions
<1>10. CASE \E x \in Descriptions : ApproveDescription(r, l, x)
  <2>1. PICK x \in Descriptions, op \in {"approve", "text"} :
          /\ Begin(r, [On(op, l) EXCEPT !.text = x])
          /\ UNCHANGED <<statusVars, reviewVars, portalContent, eaaSigned>>
    BY <1>10 DEF ApproveDescription
  <2> DEFINE state == [On(op, l) EXCEPT !.text = x]
  <2>2. /\ state \in RequestStates
        /\ state.op = op /\ state.listing = l /\ state.portal = 1
    BY OnFormed DEF On, Idle, Ops
  <2> HIDE DEF state
  <2>3. QED
    BY <1>1, <2>1, <2>2, TypeInvBegin DEF state, reviewVars, TypeOK
<1>11. CASE ApprovePhotos(r, l)
  <2>1. /\ On("promote", l) \in RequestStates
        /\ On("promote", l).op = "promote" /\ On("promote", l).listing = l
        /\ On("promote", l).portal = 1
    BY OnFormed DEF Ops
  <2>2. QED
    BY <1>1, <1>11, <2>1, TypeInvBegin DEF ApprovePhotos, TypeOK
<1>12. QED
  BY <1>4, <1>5, <1>6, <1>7, <1>8, <1>9, <1>10, <1>11 DEF Start

LEMMA TypeInvRequest ==
  ASSUME TypeInv, NEW r \in Requests, Step(r)
  PROVE  TypeInv'
<1>1. /\ TypeOK /\ WellFormed(req[r]) /\ req[r] \in RequestStates
      /\ req[r].op # "idle" => req[r].listing \in Listings
  BY DEF TypeInv, TypeOK, WellFormed
<1>2. ASSUME req' = [req EXCEPT ![r] = Idle], TypeOK => TypeOK' PROVE TypeInv'
  BY <1>1, <1>2, IdleFormed, FinishMoves, TypeInvMove
<1>3. ASSUME NEW op \in Ops \ {"idle"}, Continue(r, op), req[r].op \notin {"idle", "portals"},
             UNCHANGED <<propertyStatus, description, descriptionApproved, photosApproved,
                         portalContent, eaaSigned>>,
             listingStatus' \in [Listings -> ListingStatuses],
             aiDescription' \in [Listings -> Descriptions]
      PROVE  TypeInv'
  <2>1. /\ req' \in [Requests -> RequestStates]
        /\ req'[r].op = op /\ req'[r].listing = req[r].listing
        /\ req'[r].portal = req[r].portal
        /\ \A p \in Requests \ {r} : req'[p] = req[p]
        /\ contended' = contended /\ abandoned' = abandoned
    BY <1>1, <1>3, ContinueMoves
  <2>2. TypeOK'
    BY <1>1, <1>3, <2>1 DEF TypeOK
  <2>3. WellFormed(req'[r])
    BY <1>1, <1>3, <2>1 DEF WellFormed
  <2>4. QED
    BY <2>1, <2>2, <2>3, TypeInvMove
<1>4. ASSUME NEW op \in Ops \ {"idle"}, NEW x \in Descriptions,
             req[r].op \notin {"idle", "portals"},
             req' = [req EXCEPT ![r].op = op, ![r].text = x],
             UNCHANGED <<statusVars, reviewVars, portalContent, eaaSigned, contended, abandoned>>
      PROVE  TypeInv'
  <2>1. /\ req' \in [Requests -> RequestStates]
        /\ req'[r].op = op /\ req'[r].listing = req[r].listing
        /\ req'[r].portal = req[r].portal
        /\ \A p \in Requests \ {r} : req'[p] = req[p]
    BY <1>1, <1>4, ReadMoves
  <2>2. TypeOK'
    BY <1>1, <1>4, <2>1 DEF TypeOK, statusVars, reviewVars
  <2>3. WellFormed(req'[r])
    BY <1>1, <1>4, <2>1 DEF WellFormed
  <2>4. QED
    BY <2>1, <2>2, <2>3, TypeInvMove
<1>5. CASE EaaGate(r)
  BY <1>1, <1>3, <1>5 DEF EaaGate, Ops, TypeOK, statusVars, reviewVars
<1>6. CASE StatusCommit(r)
  <2>1. req[r].next \in ListingStatuses
    BY <1>1 DEF RequestStates
  <2>2. /\ listingStatus' \in [Listings -> ListingStatuses]
        /\ propertyStatus' \in [Listings -> {"draft", "listed"}]
    BY <1>1, <1>6, <2>1 DEF StatusCommit, TypeOK
  <2>3. QED
    BY <1>1, <1>2, <1>6, <2>2, FinishMoves DEF StatusCommit, Finish, TypeOK, reviewVars
<1>7. CASE RevertCommit(r)
  <2>1. /\ listingStatus' \in [Listings -> ListingStatuses]
        /\ propertyStatus' \in [Listings -> {"draft", "listed"}]
    BY <1>1, <1>7 DEF RevertCommit, TypeOK, ListingStatuses
  <2>2. QED
    BY <1>1, <1>2, <1>7, <2>1, FinishMoves DEF RevertCommit, Finish, TypeOK, reviewVars
<1>8. CASE SaveText(r)
  <2>1. req[r].text \in Descriptions
    BY <1>1 DEF RequestStates
  <2>2. aiDescription' \in [Listings -> Descriptions]
    BY <1>1, <1>8, <2>1 DEF SaveText, TypeOK
  <2>3. QED
    BY <1>1, <1>3, <1>8, <2>2 DEF SaveText, Ops, TypeOK, statusVars
<1>9. CASE ApproveRead(r)
  <2>1. aiDescription[req[r].listing] \in Descriptions
    BY <1>1, <1>9 DEF ApproveRead, TypeOK
  <2>2. QED
    BY <1>4, <1>9, <2>1 DEF ApproveRead, Ops
<1>10. CASE ApproveCommit(r)
  <2> DEFINE l == req[r].listing
  <2>1. l \in Listings /\ req[r].text \in Descriptions
    BY <1>1, <1>10 DEF ApproveCommit, RequestStates
  <2>2. /\ On("promote", l) \in RequestStates
        /\ On("promote", l).op = "promote" /\ On("promote", l).listing = l
        /\ On("promote", l).portal = 1
    <3> HIDE DEF l
    <3>1. QED
      BY <2>1, OnFormed DEF Ops
  <2>3. /\ req' \in [Requests -> RequestStates] /\ req'[r] = On("promote", l)
        /\ \A p \in Requests \ {r} : req'[p] = req[p]
    BY <1>1, <1>10, <2>2, Moves DEF ApproveCommit
  <2>4. TypeOK'
    BY <1>1, <1>10, <2>1, <2>3 DEF ApproveCommit, TypeOK, statusVars
  <2>5. WellFormed(req'[r])
    BY <2>1, <2>2, <2>3 DEF WellFormed
  <2>6. QED
    BY <2>3, <2>4, <2>5, TypeInvMove
<1>11. CASE PromoteRead(r)
  <2>1. CASE Continue(r, "promoting")
    BY <1>1, <1>3, <1>11, <2>1 DEF PromoteRead, Ops, TypeOK, statusVars, reviewVars
  <2>2. CASE Finish(r)
    BY <1>1, <1>2, <1>11, <2>2, FinishMoves DEF PromoteRead, Finish, TypeOK, statusVars, reviewVars
  <2>3. QED
    BY <1>11, <2>1, <2>2 DEF PromoteRead
<1>12. CASE PromoteCommit(r)
  <2>1. listingStatus' \in [Listings -> ListingStatuses]
    BY <1>1, <1>12 DEF PromoteCommit, TypeOK, ListingStatuses
  <2>2. QED
    BY <1>1, <1>3, <1>12, <2>1 DEF PromoteCommit, Ops, TypeOK, reviewVars
<1>13. CASE GenerateRead(r)
  <2>1. description[req[r].listing] \in Descriptions
    BY <1>1, <1>13 DEF GenerateRead, TypeOK
  <2>2. QED
    BY <1>4, <1>13, <2>1 DEF GenerateRead, Ops
<1>14. CASE UpsertPortal(r)
  <2> DEFINE k == req[r].portal
             next == IF k = Len(PORTALS) THEN Idle ELSE [req[r] EXCEPT !.portal = k + 1]
  <2>1. k \in 1..Len(PORTALS) /\ req[r].listing \in Listings /\ req[r].text \in Descriptions
    BY <1>1, <1>14 DEF UpsertPortal, RequestStates
  <2>2. next \in RequestStates /\ WellFormed(next)
    <3>1. CASE k = Len(PORTALS)
      BY <3>1, IdleFormed
    <3>2. CASE k # Len(PORTALS)
      BY <1>1, <1>14, <2>1, <3>2, FirstPortal DEF UpsertPortal, RequestStates, WellFormed
    <3>3. QED
      BY <3>1, <3>2
  <2>3. req' = [req EXCEPT ![r] = next]
    BY <1>14 DEF UpsertPortal
  <2> HIDE DEF next
  <2>4. /\ req' \in [Requests -> RequestStates] /\ req'[r] = next
        /\ \A p \in Requests \ {r} : req'[p] = req[p]
    BY <1>1, <2>2, <2>3, Moves
  <2>5. portalContent' \in [Listings -> [1..Len(PORTALS) -> Descriptions \cup {NoRow}]]
    BY <1>1, <1>14, <2>1 DEF UpsertPortal, TypeOK
  <2>6. TypeOK'
    BY <1>1, <1>14, <2>4, <2>5 DEF UpsertPortal, TypeOK, statusVars, reviewVars
  <2>7. QED
    BY <2>2, <2>4, <2>6, TypeInvMove
<1>15. CASE Fail(r)
  <2>1. abandoned' \subseteq Listings
    BY <1>1, <1>15 DEF Fail, TypeOK, Promoting
  <2>2. QED
    BY <1>2, <1>15, <2>1, FinishMoves DEF Fail, TypeOK, statusVars, reviewVars
<1>16. QED
  BY <1>5, <1>6, <1>7, <1>8, <1>9, <1>10, <1>11, <1>12, <1>13, <1>14, <1>15 DEF Step

LEMMA TypeInvStep == TypeInv /\ [Next]_vars => TypeInv'
<1> SUFFICES ASSUME TypeInv, [Next]_vars PROVE TypeInv'
  OBVIOUS
<1>1. CASE UNCHANGED vars
  BY <1>1 DEF vars, statusVars, reviewVars, TypeInv, TypeOK, WellFormed
<1>2. QED
  BY <1>1, TypeInvStart, TypeInvRequest DEF Next

\* Type correctness of the specification.
THEOREM TypeCorrect == Spec => []TypeOK
<1>1. TypeInv => TypeOK
  BY DEF TypeInv
<1>2. QED
  BY TypeInvInit, TypeInvStep, <1>1, PTL DEF Spec

-----------------------------------------------------------------------------
(* What a step may touch.                                                  *)

\* The changes of status a handler starts for.
Fits(s, n) ==
  <<s, n>> \in LISTING_STATUS_TRANSITIONS \/ (s # "closed" /\ n = "closed")

\* A request that starts on l writes no status and no portal, and leaves the
\* other listings alone.
Started(r, l) ==
  /\ req[r] = Idle
  /\ req' \in [Requests -> RequestStates]
  /\ req'[r] = Idle \/ req'[r].listing = l
  /\ \A p \in Requests \ {r} : req'[p] = req[p]
  /\ contended \subseteq contended' /\ contended' \subseteq contended \cup {l}
  /\ \A p \in Requests \ {r} : req[p].listing = l => l \in contended'
  /\ abandoned' = abandoned /\ eaaSigned \subseteq eaaSigned'
  /\ listingStatus' = listingStatus /\ propertyStatus' = propertyStatus
  /\ portalContent' = portalContent
  /\ \A m \in Listings \ {l} :
       description'[m] = description[m] /\ (Reviewed(m)' <=> Reviewed(m))
  /\ description'[l] \in {description[l], NoText}
  /\ Reviewed(l)' => Reviewed(l) \/ req'[r].op = "promote"
  /\ req'[r].op \in {"idle", "gate", "status", "revert", "revertClosed",
                     "text", "approve", "promote"}
  /\ req'[r].op \in {"gate", "status"} => Fits(listingStatus[l], req'[r].next)
  /\ req'[r].op = "status" => req'[r].next # "live"
  /\ req'[r].op = "revert" => listingStatus[l] # "closed"
  /\ req'[r].op = "revertClosed" => listingStatus[l] = "closed"

LEMMA StartMoves ==
  ASSUME TypeInv, NEW r \in Requests, NEW l \in Listings, Start(r, l)
  PROVE  Started(r, l)
<1>1. TypeOK
  BY DEF TypeInv
<1>2. CASE \/ SignEaa(r, l)
           \/ \E x \in Texts : \/ GenerateListingDescription(r, l, x)
                               \/ SaveDescriptionDraft(r, l, x)
           \/ RejectDescription(r, l)
           \/ ReinstatePhotos(r, l)
  <2>1. /\ Once(r, l) /\ UNCHANGED <<statusVars, portalContent>>
        /\ eaaSigned \subseteq eaaSigned'
        /\ descriptionApproved' \in {descriptionApproved, descriptionApproved \ {l}}
        /\ photosApproved' \in {photosApproved, photosApproved \ {l}}
        /\ description' \in {description, [description EXCEPT ![l] = NoText]}
    BY <1>2 DEF SignEaa, GenerateListingDescription, SaveDescriptionDraft,
       RejectDescription, ReinstatePhotos, reviewVars
  <2>2. /\ req[r] = Idle /\ req' = req
        /\ contended' \subseteq contended \cup {l} /\ contended \subseteq contended'
        /\ \A p \in Requests \ {r} : req[p].listing = l => l \in contended'
        /\ abandoned' = abandoned
    BY <1>1, <2>1, OnceMoves
  <2>3. \A m \in Listings : Reviewed(m)' => Reviewed(m)
    BY <2>1 DEF Reviewed
  <2>4. \A m \in Listings \ {l} :
          description'[m] = description[m] /\ (Reviewed(m)' <=> Reviewed(m))
    BY <1>1, <2>1 DEF TypeOK, Reviewed
  <2>5. description'[l] \in {description[l], NoText}
    BY <1>1, <2>1 DEF TypeOK
  <2>6. req' \in [Requests -> RequestStates] /\ req'[r] = Idle /\ req'[r].op = "idle"
    BY <1>1, <2>2, IdleFormed DEF TypeOK
  <2>7. QED
    BY <2>1, <2>2, <2>3, <2>4, <2>5, <2>6 DEF Started, statusVars
<1>3. ASSUME NEW state \in RequestStates, Begin(r, state), state.listing = l,
             state.op \in {"gate", "status", "revert", "revertClosed", "text", "approve",
                           "promote"},
             UNCHANGED <<statusVars, description, descriptionApproved, portalContent, eaaSigned>>,
             \/ photosApproved' = photosApproved
             \/ photosApproved' = photosApproved \cup {l} /\ state.op = "promote",
             state.op \in {"gate", "status"} => Fits(listingStatus[l], state.next),
             state.op = "status" => state.next # "live",
             state.op = "revert" => listingStatus[l] # "closed",
             state.op = "revertClosed" => listingStatus[l] = "closed"
      PROVE  Started(r, l)
  <2>1. /\ req[r] = Idle /\ req' \in [Requests -> RequestStates] /\ req'[r] = state
        /\ \A p \in Requests \ {r} : req'[p] = req[p]
        /\ contended' \subseteq contended \cup {l} /\ contended \subseteq contended'
        /\ \A p \in Requests \ {r} : req[p].listing = l => l \in contended'
        /\ abandoned' = abandoned
    BY <1>1, <1>3, BeginMoves
  <2>2. /\ \A m \in Listings \ {l} : Reviewed(m)' <=> Reviewed(m)
        /\ Reviewed(l)' => Reviewed(l) \/ state.op = "promote"
    BY <1>3 DEF Reviewed
  <2>3. QED
    BY <1>3, <2>1, <2>2 DEF Started, statusVars
<1>4. ASSUME NEW op \in {"gate", "status"}, NEW s \in ListingStatuses,
             Begin(r, [On(op, l) EXCEPT !.next = s]),
             UNCHANGED <<statusVars, reviewVars, portalContent, eaaSigned>>,
             Fits(listingStatus[l], s), op = "status" => s # "live"
      PROVE  Started(r, l)
  <2> DEFINE state == [On(op, l) EXCEPT !.next = s]
  <2>1. /\ state \in RequestStates
        /\ state.op = op /\ state.listing = l /\ state.next = s
    BY OnFormed DEF On, Idle, Ops
  <2> HIDE DEF state
  <2>2. QED
    BY <1>3, <1>4, <2>1 DEF state, reviewVars
<1>5. CASE \E s \in ListingStatuses : StatusStart(r, l, s)
  BY <1>4, <1>5 DEF StatusStart, Fits
<1>6. CASE EditStart(r, l) \/ CloseStart(r, l)
  BY <1>4, <1>6 DEF EditStart, CloseStart, Fits, ListingStatuses, LISTING_STATUS_TRANSITIONS
<1>7. CASE RevertStart(r, l)
  <2>1. PICK op \in {"revert", "revertClosed"} :
          /\ Begin(r, On(op, l))
          /\ op = "revert" <=> listingStatus[l] # "closed"
    BY <1>7 DEF RevertStart
  <2>2. On(op, l) \in RequestStates /\ On(op, l).op = op /\ On(op, l).listing = l
    BY OnFormed DEF Ops
  <2>3. QED
    BY <1>3, <1>7, <2>1, <2>2 DEF RevertStart, reviewVars
<1>8. CASE \E x \in Descriptions : ApproveDescription(r, l, x)
  <2>1. PICK x \in Descriptions, op \in {"approve", "text"} :
          /\ Begin(r, [On(op, l) EXCEPT !.text = x])
          /\ UNCHANGED <<statusVars, reviewVars, portalContent, eaaSigned>>
    BY <1>8 DEF ApproveDescription
  <2> DEFINE state == [On(op, l) EXCEPT !.text = x]
  <2>2. state \in RequestStates /\ state.op = op /\ state.listing = l
    BY OnFormed DEF On, Idle, Ops
  <2> HIDE DEF state
  <2>3. QED
    BY <1>3, <2>1, <2>2 DEF state, reviewVars
<1>9. CASE ApprovePhotos(r, l)
  <2>1. /\ On("promote", l) \in RequestStates
        /\ On("promote", l).op = "promote" /\ On("promote", l).listing = l
    BY OnFormed DEF Ops
  <2>2. QED
    BY <1>3, <1>9, <2>1 DEF ApprovePhotos
<1>10. QED
  BY <1>2, <1>5, <1>6, <1>7, <1>8, <1>9 DEF Start

\* A request at work leaves the listings of the others alone.
Stepped(r, l) ==
  /\ req[r].op # "idle" /\ req[r].listing = l
  /\ req' \in [Requests -> RequestStates]
  /\ req'[r] = Idle \/ req'[r].listing = l
  /\ \A p \in Requests \ {r} : req'[p] = req[p]
  /\ contended' = contended /\ eaaSigned' = eaaSigned
  /\ abandoned \subseteq abandoned' /\ abandoned' \subseteq abandoned \cup {l}
  /\ photosApproved' = photosApproved
  /\ \A m \in Listings \ {l} :
       /\ listingStatus'[m] = listingStatus[m] /\ propertyStatus'[m] = propertyStatus[m]
       /\ portalContent'[m] = portalContent[m] /\ description'[m] = description[m]
       /\ Reviewed(m)' <=> Reviewed(m)

LEMMA StepMoves ==
  ASSUME TypeInv, NEW r \in Requests, Step(r)
  PROVE  /\ req[r].listing \in Listings
         /\ Stepped(r, req[r].listing)
<1> DEFINE l == req[r].listing
<1>1. /\ TypeOK /\ WellFormed(req[r]) /\ req[r] \in RequestStates
      /\ req[r].op = "idle" => req[r] = Idle
  BY DEF TypeInv, TypeOK, WellFormed
<1>2. req[r].op # "idle"
  BY <1>1, IdleFormed DEF Step, EaaGate, StatusCommit, RevertCommit, SaveText, ApproveRead,
     ApproveCommit, PromoteRead, PromoteCommit, GenerateRead, UpsertPortal, Fail
<1>3. l \in Listings
  BY <1>2, AtWork
<1> HIDE DEF l
<1>4. req' \in [Requests -> RequestStates] /\ \A p \in Requests \ {r} : req'[p] = req[p]
  <2>1. TypeInv'
    BY TypeInvRequest
  <2>2. PICK state : req' = [req EXCEPT ![r] = state]
    BY DEF Step, EaaGate, StatusCommit, RevertCommit, SaveText, ApproveRead, ApproveCommit,
       PromoteRead, PromoteCommit, GenerateRead, UpsertPortal, Fail, Continue, Finish
  <2>3. QED
    BY <1>1, <2>1, <2>2 DEF TypeInv, TypeOK
<1>5. req'[r] = Idle \/ req'[r].listing = l
  <2>1. CASE req' = [req EXCEPT ![r] = Idle]
    BY <1>1, <2>1 DEF TypeOK
  <2>2. CASE \E op \in Ops : req' = [req EXCEPT ![r].op = op]
    BY <1>1, <2>2 DEF TypeOK, RequestStates, l
  <2>3. CASE \E op \in Ops, x \in Descriptions : req' = [req EXCEPT ![r].op = op, ![r].text = x]
    BY <1>1, <2>3 DEF TypeOK, RequestStates, l
  <2>4. CASE ApproveCommit(r)
    BY <1>1, <1>3, <2>4, OnFormed DEF ApproveCommit, TypeOK, l, Ops
  <2>5. CASE UpsertPortal(r)
    <3>1. req'[r] \in {Idle, [req[r] EXCEPT !.portal = req[r].portal + 1]}
      BY <1>1, <2>5 DEF UpsertPortal, TypeOK
    <3>2. QED
      BY <1>1, <3>1 DEF RequestStates, l
  <2>6. CASE ApproveRead(r) \/ GenerateRead(r)
    BY <1>1, <1>3, <2>3, <2>6 DEF ApproveRead, GenerateRead, Ops, TypeOK, l
  <2>7. CASE Fail(r)
    BY <2>1, <2>7 DEF Fail
  <2>8. CASE EaaGate(r) \/ SaveText(r) \/ PromoteCommit(r)
    BY <2>2, <2>8 DEF EaaGate, SaveText, PromoteCommit, Continue, Ops
  <2>9. CASE StatusCommit(r) \/ RevertCommit(r)
    BY <2>1, <2>9 DEF StatusCommit, RevertCommit, Finish
  <2>10. CASE PromoteRead(r)
    BY <2>1, <2>2, <2>10 DEF PromoteRead, Continue, Finish, Ops
  <2>11. QED
    BY <2>4, <2>5, <2>6, <2>7, <2>8, <2>9, <2>10 DEF Step
<1>6. /\ contended' = contended /\ eaaSigned' = eaaSigned /\ photosApproved' = photosApproved
      /\ abandoned \subseteq abandoned' /\ abandoned' \subseteq abandoned \cup {l}
  BY DEF Step, EaaGate, StatusCommit, RevertCommit, SaveText, ApproveRead, ApproveCommit,
     PromoteRead, PromoteCommit, GenerateRead, UpsertPortal, Fail, Continue, Finish,
     reviewVars, l
<1>7. ASSUME NEW m \in Listings \ {l}
      PROVE  /\ listingStatus'[m] = listingStatus[m] /\ propertyStatus'[m] = propertyStatus[m]
             /\ portalContent'[m] = portalContent[m] /\ description'[m] = description[m]
             /\ Reviewed(m)' <=> Reviewed(m)
  <2>1. listingStatus'[m] = listingStatus[m] /\ propertyStatus'[m] = propertyStatus[m]
    BY <1>1, <1>3, <1>7 DEF Step, EaaGate, StatusCommit, RevertCommit, SaveText, ApproveRead,
       ApproveCommit, PromoteRead, PromoteCommit, GenerateRead, UpsertPortal, Fail,
       statusVars, TypeOK, l
  <2>2. portalContent'[m] = portalContent[m] /\ description'[m] = description[m]
    BY <1>1, <1>3, <1>7 DEF Step, EaaGate, StatusCommit, RevertCommit, SaveText, ApproveRead,
       ApproveCommit, PromoteRead, PromoteCommit, GenerateRead, UpsertPortal, Fail,
       reviewVars, TypeOK, l
  <2>3. Reviewed(m)' <=> Reviewed(m)
    <3>1. descriptionApproved' \in {descriptionApproved, descriptionApproved \cup {l}}
      BY DEF Step, EaaGate, StatusCommit, RevertCommit, SaveText, ApproveRead,
         ApproveCommit, PromoteRead, PromoteCommit, GenerateRead, UpsertPortal, Fail,
         reviewVars, l
    <3>2. QED
      BY <1>6, <1>7, <3>1 DEF Reviewed
  <2>4. QED
    BY <2>1, <2>2, <2>3
<1>8. QED
  BY <1>2, <1>3, <1>4, <1>5, <1>6, <1>7 DEF Stepped, l

\* Where a request at work that is to decide on its reads comes from.
LEMMA DecisionMoves ==
  ASSUME TypeInv, NEW r \in Requests, Step(r)
  PROVE  /\ req'[r].op = "status" => EaaGate(r) /\ req'[r].next = req[r].next
         /\ req'[r].op = "promoting" => PromoteRead(r) /\ Reviewed(req[r].listing)
         /\ req'[r].op \notin {"gate", "revert", "revertClosed"}
<1>1. TypeOK /\ req[r] \in RequestStates
  BY DEF TypeInv, TypeOK
<1>2. ASSUME req' = [req EXCEPT ![r] = Idle] PROVE req'[r].op = "idle"
  BY <1>1, <1>2, IdleFormed DEF TypeOK
<1>3. CASE StatusCommit(r) \/ RevertCommit(r) \/ Fail(r)
  BY <1>2, <1>3 DEF StatusCommit, RevertCommit, Fail, Finish
<1>4. CASE SaveText(r) \/ ApproveRead(r) \/ PromoteCommit(r) \/ GenerateRead(r)
  BY <1>1, <1>4 DEF SaveText, ApproveRead, PromoteCommit, GenerateRead, Continue,
     TypeOK, RequestStates
<1>5. CASE EaaGate(r)
  BY <1>1, <1>5 DEF EaaGate, Continue, TypeOK, RequestStates
<1>6. CASE PromoteRead(r)
  <2>1. CASE Reviewed(req[r].listing)
    BY <1>1, <1>6, <2>1 DEF PromoteRead, Continue, TypeOK, RequestStates
  <2>2. CASE ~Reviewed(req[r].listing)
    BY <1>2, <1>6, <2>2 DEF PromoteRead, Finish
  <2>3. QED
    BY <2>1, <2>2
<1>7. CASE ApproveCommit(r)
  <2>1. req[r].listing \in Listings
    BY <1>7, AtWork DEF ApproveCommit
  <2>2. QED
    BY <1>1, <1>7, <2>1, OnFormed DEF ApproveCommit, TypeOK, Ops
<1>8. CASE UpsertPortal(r)
  <2>1. req'[r] \in {Idle, [req[r] EXCEPT !.portal = req[r].portal + 1]}
    BY <1>1, <1>8 DEF UpsertPortal, TypeOK
  <2>2. QED
    BY <1>1, <1>8, <2>1, IdleFormed DEF UpsertPortal, RequestStates
<1>9. QED
  BY <1>3, <1>4, <1>5, <1>6, <1>7, <1>8 DEF Step

-----------------------------------------------------------------------------
(* A live listing has its agreement: the gate's answer is carried by the   *)
(* request, and no handler takes an agreement back.                        *)

Gated ==
  \A r \in Requests :
    (req[r].op = "status" /\ req[r].next = "live") => req[r].listing \in eaaSigned

AgreedInv == TypeInv /\ LiveIsAgreed /\ Gated

LEMMA AgreedInit == Init => AgreedInv
<1> SUFFICES ASSUME Init PROVE AgreedInv
  OBVIOUS
<1>1. LiveIsAgreed /\ Gated
  BY IdleFormed DEF Init, LiveIsAgreed, Gated
<1>2. QED
  BY <1>1, TypeInvInit DEF AgreedInv

LEMMA AgreedStart ==
  ASSUME AgreedInv, NEW r \in Requests, NEW l \in Listings, Start(r, l)
  PROVE  AgreedInv'
<1>1. TypeInv' /\ Started(r, l)
  BY TypeInvStart, StartMoves DEF AgreedInv
<1>2. LiveIsAgreed'
  BY <1>1 DEF AgreedInv, LiveIsAgreed, Started
<1>3. Gated'
  BY <1>1 DEF AgreedInv, Gated, Started
<1>4. QED
  BY <1>1, <1>2, <1>3 DEF AgreedInv

LEMMA AgreedRequest ==
  ASSUME AgreedInv, NEW r \in Requests, Step(r)
  PROVE  AgreedInv'
<1> DEFINE l == req[r].listing
<1>1. TypeInv' /\ l \in Listings /\ Stepped(r, l) /\ TypeOK /\ req[r] \in RequestStates
  BY TypeInvRequest, StepMoves DEF AgreedInv, TypeInv, TypeOK
<1> HIDE DEF l
<1>2. l = req[r].listing
  BY DEF l
<1>3. ASSUME listingStatus'[l] = "live", listingStatus[l] # "live" PROVE l \in eaaSigned
  <2>1. StatusCommit(r) /\ req[r].next = "live"
    BY <1>1, <1>2, <1>3 DEF Step, EaaGate, StatusCommit, RevertCommit, SaveText, ApproveRead,
       ApproveCommit, PromoteRead, PromoteCommit, GenerateRead, UpsertPortal, Fail,
       statusVars, TypeOK
  <2>2. QED
    BY <1>2, <2>1 DEF StatusCommit, AgreedInv, Gated
<1>4. LiveIsAgreed'
  BY <1>1, <1>3 DEF AgreedInv, LiveIsAgreed, Stepped
<1>5. ASSUME req'[r].op = "status" PROVE l \in eaaSigned
  BY <1>2, <1>5, DecisionMoves DEF AgreedInv, EaaGate
<1>6. Gated'
  BY <1>1, <1>2, <1>5, IdleFormed DEF AgreedInv, Gated, Stepped
<1>7. QED
  BY <1>1, <1>4, <1>6 DEF AgreedInv

LEMMA AgreedStep == AgreedInv /\ [Next]_vars => AgreedInv'
<1> SUFFICES ASSUME AgreedInv, [Next]_vars PROVE AgreedInv'
  OBVIOUS
<1>1. CASE UNCHANGED vars
  BY <1>1, TypeInvStep DEF vars, statusVars, AgreedInv, LiveIsAgreed, Gated
<1>2. QED
  BY <1>1, AgreedStart, AgreedRequest DEF Next

\* A listing is live only under an agreement signed or active.
THEOREM LiveIsAgreedKept == Spec => []LiveIsAgreed
<1>1. AgreedInv => LiveIsAgreed
  BY DEF AgreedInv
<1>2. QED
  BY AgreedInit, AgreedStep, <1>1, PTL DEF Spec

-----------------------------------------------------------------------------
(* Content is made once both reviews stand: whoever records the second of  *)
(* them is promoting the listing until the content is made, or dies.       *)

Made(l) == \A k \in 1..Len(PORTALS) : portalContent[l][k] # NoRow

Promoted(l) == \E q \in Requests : req[q].listing = l /\ req[q].op \in Promoting

GeneratedOrPromoted ==
  \A l \in Listings : (Reviewed(l) /\ l \notin abandoned) => Made(l) \/ Promoted(l)

\* The portals a request has passed have their content.
PassedAreMade ==
  \A r \in Requests : req[r].op = "portals" =>
    \A k \in 1..Len(PORTALS) :
      k < req[r].portal => portalContent[req[r].listing][k] # NoRow

GeneratedInv == TypeInv /\ GeneratedOrPromoted /\ PassedAreMade

\* How a request at work on a promotion goes on, and what it writes.
LEMMA PromotionMoves ==
  ASSUME TypeInv, NEW r \in Requests, NEW l \in Listings,
         Step(r), req[r].listing = l, req[r].op \in Promoting
  PROVE  \/ req'[r].op \in Promoting
         \/ ~Reviewed(l)'
         \/ l \in abandoned'
         \/ UpsertPortal(r) /\ req[r].portal = Len(PORTALS)
<1>1. TypeOK /\ req[r] \in RequestStates
  BY DEF TypeInv, TypeOK
<1>2. CASE PromoteRead(r)
  <2>1. CASE Reviewed(l)
    BY <1>1, <1>2, <2>1 DEF PromoteRead, Continue, TypeOK, RequestStates, Promoting
  <2>2. CASE ~Reviewed(l)
    BY <1>2, <2>2 DEF PromoteRead, reviewVars, Reviewed
  <2>3. QED
    BY <2>1, <2>2
<1>3. CASE PromoteCommit(r) \/ GenerateRead(r)
  BY <1>1, <1>3 DEF PromoteCommit, GenerateRead, Continue, TypeOK, RequestStates, Promoting
<1>4. CASE UpsertPortal(r)
  BY <1>1, <1>4 DEF UpsertPortal, TypeOK, RequestStates, Promoting
<1>5. CASE Fail(r)
  BY <1>5 DEF Fail
<1>6. QED
  BY <1>2, <1>3, <1>4, <1>5 DEF Step, EaaGate, StatusCommit, RevertCommit, SaveText,
     ApproveRead, ApproveCommit, Promoting

LEMMA GeneratedInit == Init => GeneratedInv
<1> SUFFICES ASSUME Init PROVE GeneratedInv
  OBVIOUS
<1>1. GeneratedOrPromoted
  BY DEF Init, GeneratedOrPromoted, Reviewed
<1>2. PassedAreMade
  BY IdleFormed DEF Init, PassedAreMade
<1>3. QED
  BY <1>1, <1>2, TypeInvInit DEF GeneratedInv

LEMMA GeneratedStart ==
  ASSUME GeneratedInv, NEW r \in Requests, NEW l \in Listings, Start(r, l)
  PROVE  GeneratedInv'
<1>1. TypeInv' /\ Started(r, l)
  BY TypeInvStart, StartMoves DEF GeneratedInv
<1>2. GeneratedOrPromoted'
  <2> SUFFICES ASSUME NEW m \in Listings, Reviewed(m)', m \notin abandoned'
               PROVE  Made(m)' \/ Promoted(m)'
    BY DEF GeneratedOrPromoted
  <2>1. CASE Reviewed(m)
    <3>1. Made(m) \/ Promoted(m)
      BY <1>1, <2>1 DEF GeneratedInv, GeneratedOrPromoted, Started
    <3>2. Made(m) => Made(m)'
      BY <1>1 DEF Made, Started
    <3>3. Promoted(m) => Promoted(m)'
      BY <1>1, IdleFormed DEF Promoted, Promoting, Started
    <3>4. QED
      BY <3>1, <3>2, <3>3
  <2>2. CASE ~Reviewed(m)
    <3>1. req'[r].op = "promote" /\ m = l
      BY <1>1, <2>2 DEF Started
    <3>2. req'[r].listing = m
      BY <1>1, <3>1, IdleFormed DEF Started
    <3>3. QED
      BY <3>1, <3>2 DEF Promoted, Promoting
  <2>3. QED
    BY <2>1, <2>2
<1>3. PassedAreMade'
  BY <1>1 DEF GeneratedInv, PassedAreMade, Started
<1>4. QED
  BY <1>1, <1>2, <1>3 DEF GeneratedInv

\* Content is never taken away, and a portal passed has its own.
LEMMA ContentKept ==
  ASSUME TypeInv, NEW r \in Requests, Step(r), NEW m \in Listings, NEW k \in 1..Len(PORTALS)
  PROVE  /\ portalContent[m][k] # NoRow => portalContent'[m][k] # NoRow
         /\ (UpsertPortal(r) /\ req[r].listing = m /\ req[r].portal = k)
              => portalContent'[m][k] # NoRow
<1>1. TypeOK /\ req[r] \in RequestStates
  BY DEF TypeInv, TypeOK
<1>2. CASE UpsertPortal(r)
  <2>1. req[r].text \in Descriptions /\ NoRow \notin Descriptions
    BY <1>1, ListingAssumption DEF RequestStates, Descriptions
  <2>2. QED
    BY <1>1, <1>2, <2>1 DEF UpsertPortal, TypeOK
<1>3. CASE ~UpsertPortal(r)
  BY <1>3 DEF Step, EaaGate, StatusCommit, RevertCommit, SaveText, ApproveRead, ApproveCommit,
     PromoteRead, PromoteCommit, GenerateRead, Fail
<1>4. QED
  BY <1>2, <1>3

\* How a request comes to make content, and how far it is.
LEMMA PortalsMoves ==
  ASSUME TypeInv, NEW r \in Requests, Step(r), req'[r].op = "portals"
  PROVE  \/ GenerateRead(r) /\ req'[r].portal = 1
         \/ /\ UpsertPortal(r) /\ req[r].op = "portals"
            /\ req[r].portal \in 1..Len(PORTALS)
            /\ req'[r].portal = req[r].portal + 1
            /\ req'[r].text = req[r].text
<1>1. TypeOK /\ req[r] \in RequestStates /\ WellFormed(req[r])
  BY DEF TypeInv, TypeOK
<1>2. ~Fail(r) /\ ~StatusCommit(r) /\ ~RevertCommit(r)
  BY <1>1, IdleFormed DEF Fail, StatusCommit, RevertCommit, Finish, TypeOK
<1>3. ~EaaGate(r) /\ ~SaveText(r) /\ ~ApproveRead(r) /\ ~PromoteCommit(r)
  BY <1>1 DEF EaaGate, SaveText, ApproveRead, PromoteCommit, Continue, TypeOK, RequestStates
<1>4. ~PromoteRead(r)
  BY <1>1, IdleFormed DEF PromoteRead, Continue, Finish, TypeOK, RequestStates
<1>5. ~ApproveCommit(r)
  <2> SUFFICES ASSUME ApproveCommit(r) PROVE FALSE
    OBVIOUS
  <2>1. req[r].listing \in Listings
    BY <1>1 DEF ApproveCommit, WellFormed
  <2>2. QED
    BY <1>1, <2>1, OnFormed DEF ApproveCommit, TypeOK, Ops
<1>6. CASE GenerateRead(r)
  BY <1>1, <1>6 DEF GenerateRead, TypeOK, RequestStates, WellFormed
<1>7. CASE UpsertPortal(r)
  <2>1. req'[r] \in {Idle, [req[r] EXCEPT !.portal = req[r].portal + 1]}
    BY <1>1, <1>7 DEF UpsertPortal, TypeOK
  <2>2. req'[r] = [req[r] EXCEPT !.portal = req[r].portal + 1]
    BY <2>1, IdleFormed
  <2>3. QED
    BY <1>1, <1>7, <2>2 DEF UpsertPortal, RequestStates
<1>8. QED
  BY <1>2, <1>3, <1>4, <1>5, <1>6, <1>7 DEF Step

LEMMA GeneratedRequest ==
  ASSUME GeneratedInv, NEW r \in Requests, Step(r)
  PROVE  GeneratedInv'
<1> DEFINE l == req[r].listing
<1>1. TypeInv /\ TypeInv' /\ l \in Listings /\ Stepped(r, l) /\ req[r] \in RequestStates
  BY TypeInvRequest, StepMoves DEF GeneratedInv, TypeInv, TypeOK
<1>2. Len(PORTALS) \in Nat
  BY FirstPortal
<1> HIDE DEF l
<1>3. l = req[r].listing
  BY DEF l
<1>4. GeneratedOrPromoted'
  <2> SUFFICES ASSUME NEW m \in Listings, Reviewed(m)', m \notin abandoned'
               PROVE  Made(m)' \/ Promoted(m)'
    BY DEF GeneratedOrPromoted
  <2>1. Made(m) => Made(m)'
    BY <1>1, ContentKept DEF Made
  <2>2. CASE ~Reviewed(m)
    <3>1. m = l
      BY <1>1, <2>2 DEF Stepped
    <3>2. ApproveCommit(r)
      BY <1>1, <1>3, <2>2 DEF Step, EaaGate, StatusCommit, RevertCommit, SaveText,
         ApproveRead, PromoteRead, PromoteCommit, GenerateRead, UpsertPortal, Fail,
         reviewVars, Reviewed
    <3>3. req'[r] = On("promote", l)
      BY <1>1, <1>3, <3>2 DEF ApproveCommit, TypeInv, TypeOK
    <3>4. req'[r].listing = l /\ req'[r].op = "promote"
      BY <1>1, <3>3, OnFormed DEF Ops
    <3>5. QED
      BY <3>1, <3>4 DEF Promoted, Promoting
  <2>3. CASE Reviewed(m)
    <3>1. Made(m) \/ Promoted(m)
      BY <1>1, <2>3 DEF GeneratedInv, GeneratedOrPromoted, Stepped
    <3>2. ASSUME Promoted(m) PROVE Made(m)' \/ Promoted(m)'
      <4>1. PICK q \in Requests : req[q].listing = m /\ req[q].op \in Promoting
        BY <3>2 DEF Promoted
      <4>2. CASE q # r
        BY <1>1, <4>1, <4>2 DEF Promoted, Stepped
      <4>3. CASE q = r /\ req'[r].op \in Promoting
        <5>1. req'[r].listing = m
          BY <1>1, <1>3, <4>1, <4>3, IdleFormed DEF Stepped, Promoting
        <5>2. QED
          BY <4>3, <5>1 DEF Promoted
      <4>4. CASE q = r /\ req'[r].op \notin Promoting
        <5>1. UpsertPortal(r) /\ req[r].portal = Len(PORTALS) /\ req[r].op = "portals"
          BY <1>1, <4>1, <4>4, PromotionMoves DEF UpsertPortal
        <5>2. ASSUME NEW k \in 1..Len(PORTALS) PROVE portalContent'[m][k] # NoRow
          <6>1. CASE k = req[r].portal
            BY <1>1, <4>1, <4>4, <5>1, <6>1, ContentKept
          <6>2. CASE k < req[r].portal
            <7>1. portalContent[m][k] # NoRow
              BY <4>1, <4>4, <5>1, <6>2 DEF GeneratedInv, PassedAreMade
            <7>2. QED
              BY <1>1, <7>1, ContentKept
          <6>3. QED
            BY <1>2, <5>1, <6>1, <6>2
        <5>3. QED
          BY <5>2 DEF Made
      <4>5. QED
        BY <4>2, <4>3, <4>4
    <3>3. QED
      BY <2>1, <3>1, <3>2
  <2>4. QED
    BY <2>2, <2>3
<1>5. PassedAreMade'
  <2> SUFFICES ASSUME NEW p \in Requests, req'[p].op = "portals",
                      NEW k \in 1..Len(PORTALS), k < req'[p].portal
               PROVE  portalContent'[req'[p].listing][k] # NoRow
    BY DEF PassedAreMade
  <2>1. CASE p # r
    <3>1. req'[p] = req[p] /\ req[p].listing \in Listings
      BY <1>1, <2>1 DEF Stepped, TypeInv, WellFormed
    <3>2. portalContent[req[p].listing][k] # NoRow
      BY <3>1 DEF GeneratedInv, PassedAreMade
    <3>3. QED
      BY <1>1, <3>1, <3>2, ContentKept
  <2>2. CASE p = r
    <3>1. req'[r].listing = l
      BY <1>1, <2>2, IdleFormed DEF Stepped
    <3>2. /\ UpsertPortal(r) /\ req[r].op = "portals" /\ req[r].portal \in 1..Len(PORTALS)
          /\ k < req[r].portal + 1
      BY <1>1, <2>2, PortalsMoves
    <3>3. CASE k = req[r].portal
      BY <1>1, <1>3, <2>2, <3>1, <3>2, <3>3, ContentKept
    <3>4. CASE k < req[r].portal
      <4>1. portalContent[l][k] # NoRow
        BY <1>3, <3>2, <3>4 DEF GeneratedInv, PassedAreMade
      <4>2. QED
        BY <1>1, <2>2, <3>1, <4>1, ContentKept
    <3>5. QED
      BY <1>2, <3>2, <3>3, <3>4
  <2>3. QED
    BY <2>1, <2>2
<1>6. QED
  BY <1>1, <1>4, <1>5 DEF GeneratedInv

LEMMA GeneratedStep == GeneratedInv /\ [Next]_vars => GeneratedInv'
<1> SUFFICES ASSUME GeneratedInv, [Next]_vars PROVE GeneratedInv'
  OBVIOUS
<1>1. CASE UNCHANGED vars
  <2>1. TypeInv'
    BY <1>1, TypeInvStep DEF GeneratedInv
  <2>2. GeneratedOrPromoted' /\ PassedAreMade'
    BY <1>1 DEF vars, reviewVars, GeneratedInv, GeneratedOrPromoted, PassedAreMade,
       Reviewed, Made, Promoted
  <2>3. QED
    BY <2>1, <2>2 DEF GeneratedInv
<1>2. QED
  BY <1>1, GeneratedStart, GeneratedRequest DEF Next

\* A listing with both reviews, at rest, has content for every portal.
THEOREM ReviewedIsGeneratedKept == Spec => []ReviewedIsGenerated
<1>1. ASSUME GeneratedInv PROVE ReviewedIsGenerated
  BY <1>1 DEF GeneratedInv, GeneratedOrPromoted, ReviewedIsGenerated, Quiet, Made, Promoted
<1>2. QED
  BY GeneratedInit, GeneratedStep, <1>1, PTL DEF Spec

-----------------------------------------------------------------------------
(* The status of a listing one request handles at a time.                  *)

\* A listing two requests handle is contended.
Exclusive ==
  \A r, q \in Requests, l \in Listings :
    (r # q /\ req[r].listing = l /\ req[q].listing = l) => l \in contended

\* What a request has read of a listing it handles alone still holds.
ReadsHold ==
  \A r \in Requests, l \in Listings :
    (req[r].listing = l /\ l \notin contended) =>
      /\ req[r].op \in {"gate", "status"} => Fits(listingStatus[l], req[r].next)
      /\ req[r].op = "revert" => listingStatus[l] # "closed"
      /\ req[r].op = "revertClosed" => listingStatus[l] = "closed"
      /\ req[r].op = "promoting" => Reviewed(l)

StatusInv == TypeInv /\ Exclusive /\ ReadsHold /\ LiveIsListed

LEMMA ExclusiveStart ==
  ASSUME Exclusive, NEW r \in Requests, NEW l \in Listings, Started(r, l)
  PROVE  Exclusive'
<1> SUFFICES ASSUME NEW p \in Requests, NEW q \in Requests, NEW m \in Listings, p # q,
                    req'[p].listing = m, req'[q].listing = m, m \notin contended
             PROVE  m \in contended'
  BY DEF Exclusive, Started
<1>1. p = r \/ q = r
  BY DEF Exclusive, Started
<1>2. req'[r].listing # NoListing
  BY <1>1, ListingAssumption
<1>3. m = l
  BY <1>1, <1>2, IdleFormed DEF Started
<1>4. QED
  BY <1>1, <1>3 DEF Started

LEMMA ExclusiveRequest ==
  ASSUME Exclusive, NEW r \in Requests, NEW l \in Listings, Stepped(r, l)
  PROVE  Exclusive'
<1>1. req'[r].listing \in {NoListing, l}
  BY IdleFormed DEF Stepped
<1>2. QED
  BY <1>1, ListingAssumption DEF Exclusive, Stepped

LEMMA StatusInit == Init => StatusInv
<1> SUFFICES ASSUME Init PROVE StatusInv
  OBVIOUS
<1>1. Exclusive /\ ReadsHold /\ LiveIsListed
  BY IdleFormed, ListingAssumption DEF Init, Exclusive, ReadsHold, LiveIsListed
<1>2. QED
  BY <1>1, TypeInvInit DEF StatusInv

LEMMA StatusInvStart ==
  ASSUME StatusInv, NEW r \in Requests, NEW l \in Listings, Start(r, l)
  PROVE  StatusInv'
<1>1. TypeInv' /\ Started(r, l) /\ Exclusive'
  BY TypeInvStart, StartMoves, ExclusiveStart DEF StatusInv
<1>2. LiveIsListed'
  BY <1>1 DEF StatusInv, LiveIsListed, Started
<1>3. ReadsHold'
  <2> SUFFICES ASSUME NEW p \in Requests, NEW m \in Listings,
                      req'[p].listing = m, m \notin contended'
               PROVE  /\ req'[p].op \in {"gate", "status"} =>
                           Fits(listingStatus[m], req'[p].next)
                      /\ req'[p].op = "revert" => listingStatus[m] # "closed"
                      /\ req'[p].op = "revertClosed" => listingStatus[m] = "closed"
                      /\ req'[p].op = "promoting" => Reviewed(m)'
    BY <1>1 DEF ReadsHold, Started, Fits
  <2>1. CASE p = r
    <3>1. m = l
      BY <2>1, IdleFormed, ListingAssumption, <1>1 DEF Started
    <3>2. QED
      BY <1>1, <2>1, <3>1 DEF Started
  <2>2. CASE p # r
    <3>1. req[p] = req'[p] /\ m # l /\ m \notin contended
      BY <1>1, <2>2 DEF Started
    <3>2. Reviewed(m)' <=> Reviewed(m)
      BY <1>1, <3>1 DEF Started
    <3>3. QED
      BY <3>1, <3>2 DEF StatusInv, ReadsHold
  <2>3. QED
    BY <2>1, <2>2
<1>4. QED
  BY <1>1, <1>2, <1>3 DEF StatusInv

\* What a request at work writes on the status of a listing it handles alone.
LEMMA StatusMoves ==
  ASSUME StatusInv, NEW r \in Requests, NEW l \in Listings,
         Step(r), req[r].listing = l, l \notin contended
  PROVE  /\ listingStatus'[l] = "live" => propertyStatus'[l] = "listed"
         /\ \/ listingStatus'[l] = listingStatus[l]
            \/ Fits(listingStatus[l], listingStatus'[l])
            \/ listingStatus'[l] = "approved" /\ Reviewed(l)
            \/ listingStatus'[l] = "draft" /\ listingStatus[l] # "closed"
<1>1. TypeOK /\ req[r] \in RequestStates
  BY DEF StatusInv, TypeInv, TypeOK
<1>2. listingStatus[l] = "live" => propertyStatus[l] = "listed"
  BY DEF StatusInv, LiveIsListed
<1>3. CASE StatusCommit(r)
  <2>1. Fits(listingStatus[l], req[r].next)
    BY <1>3 DEF StatusCommit, StatusInv, ReadsHold
  <2>2. QED
    BY <1>1, <1>3, <2>1 DEF StatusCommit, TypeOK
<1>4. CASE RevertCommit(r)
  <2>1. /\ req[r].op = "revert" => listingStatus[l] # "closed"
        /\ req[r].op = "revertClosed" => listingStatus[l] = "closed"
    BY DEF StatusInv, ReadsHold
  <2>2. QED
    BY <1>1, <1>4, <2>1 DEF RevertCommit, TypeOK
<1>5. CASE PromoteCommit(r)
  <2>1. Reviewed(l)
    BY <1>5 DEF PromoteCommit, StatusInv, ReadsHold
  <2>2. QED
    BY <1>1, <1>5, <2>1 DEF PromoteCommit, TypeOK
<1>6. CASE UNCHANGED statusVars
  BY <1>2, <1>6 DEF statusVars
<1>7. QED
  BY <1>3, <1>4, <1>5, <1>6 DEF Step, EaaGate, SaveText, ApproveRead, ApproveCommit,
     PromoteRead, GenerateRead, UpsertPortal, Fail, statusVars

LEMMA StatusInvRequest ==
  ASSUME StatusInv, NEW r \in Requests, Step(r)
  PROVE  StatusInv'
<1> DEFINE l == req[r].listing
<1>1. TypeInv /\ TypeInv' /\ l \in Listings /\ Stepped(r, l) /\ Exclusive'
  BY TypeInvRequest, StepMoves, ExclusiveRequest DEF StatusInv
<1> HIDE DEF l
<1>2. l = req[r].listing
  BY DEF l
<1>3. LiveIsListed'
  BY <1>1, <1>2, StatusMoves DEF StatusInv, LiveIsListed, Stepped
<1>4. ReadsHold'
  <2> SUFFICES ASSUME NEW p \in Requests, NEW m \in Listings,
                      req'[p].listing = m, m \notin contended
               PROVE  /\ req'[p].op \in {"gate", "status"} =>
                           Fits(listingStatus'[m], req'[p].next)
                      /\ req'[p].op = "revert" => listingStatus'[m] # "closed"
                      /\ req'[p].op = "revertClosed" => listingStatus'[m] = "closed"
                      /\ req'[p].op = "promoting" => Reviewed(m)'
    BY <1>1 DEF ReadsHold, Stepped, Fits
  <2>1. CASE p = r
    <3>1. m = l
      BY <1>1, <2>1, IdleFormed, ListingAssumption DEF Stepped
    <3>2. ASSUME req'[r].op = "status" PROVE Fits(listingStatus'[m], req'[r].next)
      <4>1. EaaGate(r) /\ req'[r].next = req[r].next
        BY <1>1, <3>2, DecisionMoves
      <4>2. Fits(listingStatus[m], req[r].next)
        BY <1>2, <3>1, <4>1 DEF EaaGate, StatusInv, ReadsHold
      <4>3. QED
        BY <4>1, <4>2 DEF EaaGate, statusVars
    <3>3. ASSUME req'[r].op = "promoting" PROVE Reviewed(m)'
      <4>1. PromoteRead(r) /\ Reviewed(m)
        BY <1>1, <1>2, <3>1, <3>3, DecisionMoves
      <4>2. QED
        BY <4>1 DEF PromoteRead, reviewVars, Reviewed
    <3>4. QED
      BY <1>1, <2>1, <3>2, <3>3, DecisionMoves
  <2>2. CASE p # r
    <3>1. req[p] = req'[p] /\ m # l
      BY <1>1, <1>2, <2>2 DEF Stepped, StatusInv, Exclusive
    <3>2. listingStatus'[m] = listingStatus[m] /\ (Reviewed(m)' <=> Reviewed(m))
      BY <1>1, <3>1 DEF Stepped
    <3>3. QED
      BY <3>1, <3>2 DEF StatusInv, ReadsHold
  <2>3. QED
    BY <2>1, <2>2
<1>5. QED
  BY <1>1, <1>3, <1>4 DEF StatusInv

LEMMA StatusStep == StatusInv /\ [Next]_vars => StatusInv'
<1> SUFFICES ASSUME StatusInv, [Next]_vars PROVE StatusInv'
  OBVIOUS
<1>1. CASE UNCHANGED vars
  <2>1. TypeInv'
    BY <1>1, TypeInvStep DEF StatusInv
  <2>2. Exclusive' /\ ReadsHold' /\ LiveIsListed'
    BY <1>1 DEF vars, statusVars, reviewVars, StatusInv, Exclusive, ReadsHold, LiveIsListed,
       Reviewed, Fits
  <2>3. QED
    BY <2>1, <2>2 DEF StatusInv
<1>2. QED
  BY <1>1, StatusInvStart, StatusInvRequest DEF Next

\* The flat of a live listing, handled by one request at a time, is listed.
THEOREM LiveIsListedKept == Spec => []LiveIsListed
<1>1. StatusInv => LiveIsListed
  BY DEF StatusInv
<1>2. QED
  BY StatusInit, StatusStep, <1>1, PTL DEF Spec

\* The status of a listing handled by one request at a time follows the table,
\* but for the approval, the return to draft and the closing.
THEOREM FollowsTransitionsKept == Spec => FollowsTransitions
<1> DEFINE Follows ==
      \A l \in Listings :
        (l \notin contended' /\ listingStatus'[l] # listingStatus[l]) =>
          \/ <<listingStatus[l], listingStatus'[l]>> \in LISTING_STATUS_TRANSITIONS
          \/ listingStatus'[l] = "approved" /\ Reviewed(l)
          \/ listingStatus[l] # "closed" /\ listingStatus'[l] \in {"draft", "closed"}
<1>1. StatusInv /\ [Next]_vars => [Follows]_vars
  <2> SUFFICES ASSUME StatusInv, Next PROVE Follows
    OBVIOUS
  <2>1. ASSUME NEW r \in Requests, NEW l \in Listings, Start(r, l) PROVE Follows
    BY <2>1, StartMoves DEF StatusInv, Started
  <2>2. ASSUME NEW r \in Requests, Step(r) PROVE Follows
    <3> SUFFICES ASSUME NEW l \in Listings, l \notin contended',
                        listingStatus'[l] # listingStatus[l]
                 PROVE  \/ Fits(listingStatus[l], listingStatus'[l])
                        \/ listingStatus'[l] = "approved" /\ Reviewed(l)
                        \/ listingStatus[l] # "closed" /\ listingStatus'[l] = "draft"
      BY DEF Fits
    <3>1. l \notin contended /\ req[r].listing = l
      BY <2>2, StepMoves DEF StatusInv, Stepped
    <3>2. QED
      BY <2>2, <3>1, StatusMoves
  <2>3. QED
    BY <2>1, <2>2 DEF Next
<1> HIDE DEF Follows
<1>2. Spec => [][Follows]_vars
  BY StatusInit, StatusStep, <1>1, PTL DEF Spec
<1>3. QED
  BY <1>2 DEF FollowsTransitions, Follows

-----------------------------------------------------------------------------
(* The portals carry the description published: the request that makes the *)
(* content carries it too, as long as it handles the listing alone.        *)

Carries(l) == \A k \in 1..Len(PORTALS) : portalContent[l][k] = description[l]

CarriedOrPromoted ==
  \A l \in Listings :
    (Reviewed(l) /\ description[l] # NoText /\ l \notin contended \cup abandoned) =>
      Carries(l) \/ Promoted(l)

\* A request past a portal left the description there.
PassedCarry ==
  \A r \in Requests, l \in Listings :
    (req[r].listing = l /\ req[r].op = "portals" /\ l \notin contended) =>
      /\ req[r].text = description[l]
      /\ \A k \in 1..Len(PORTALS) :
           k < req[r].portal => portalContent[l][k] = description[l]

CarriedInv == TypeInv /\ Exclusive /\ CarriedOrPromoted /\ PassedCarry

LEMMA CarriedInit == Init => CarriedInv
<1> SUFFICES ASSUME Init PROVE CarriedInv
  OBVIOUS
<1>1. Exclusive /\ CarriedOrPromoted /\ PassedCarry
  BY IdleFormed, ListingAssumption DEF Init, Exclusive, CarriedOrPromoted, PassedCarry, Reviewed
<1>2. QED
  BY <1>1, TypeInvInit DEF CarriedInv

LEMMA CarriedStart ==
  ASSUME CarriedInv, NEW r \in Requests, NEW l \in Listings, Start(r, l)
  PROVE  CarriedInv'
<1>1. TypeInv' /\ Started(r, l) /\ Exclusive'
  BY TypeInvStart, StartMoves, ExclusiveStart DEF CarriedInv
<1>2. CarriedOrPromoted'
  <2> SUFFICES ASSUME NEW m \in Listings, Reviewed(m)', description'[m] # NoText,
                      m \notin contended', m \notin abandoned'
               PROVE  Carries(m)' \/ Promoted(m)'
    BY DEF CarriedOrPromoted
  <2>1. description'[m] = description[m] /\ m \notin contended \cup abandoned
    BY <1>1 DEF Started
  <2>2. CASE Reviewed(m)
    <3>1. Carries(m) \/ Promoted(m)
      BY <2>1, <2>2 DEF CarriedInv, CarriedOrPromoted
    <3>2. Carries(m) => Carries(m)'
      BY <1>1, <2>1 DEF Carries, Started
    <3>3. Promoted(m) => Promoted(m)'
      BY <1>1, IdleFormed DEF Promoted, Promoting, Started
    <3>4. QED
      BY <3>1, <3>2, <3>3
  <2>3. CASE ~Reviewed(m)
    <3>1. req'[r].op = "promote" /\ m = l
      BY <1>1, <2>3 DEF Started
    <3>2. req'[r].listing = m
      BY <1>1, <3>1, IdleFormed DEF Started
    <3>3. QED
      BY <3>1, <3>2 DEF Promoted, Promoting
  <2>4. QED
    BY <2>2, <2>3
<1>3. PassedCarry'
  <2> SUFFICES ASSUME NEW p \in Requests, NEW m \in Listings, req'[p].listing = m,
                      req'[p].op = "portals", m \notin contended'
               PROVE  /\ req'[p].text = description'[m]
                      /\ \A k \in 1..Len(PORTALS) :
                           k < req'[p].portal => portalContent'[m][k] = description'[m]
    BY DEF PassedCarry
  <2>1. p # r /\ req'[p] = req[p] /\ m # l /\ m \notin contended
    BY <1>1 DEF Started
  <2>2. description'[m] = description[m] /\ portalContent' = portalContent
    BY <1>1, <2>1 DEF Started
  <2>3. QED
    BY <2>1, <2>2 DEF CarriedInv, PassedCarry
<1>4. QED
  BY <1>1, <1>2, <1>3 DEF CarriedInv

\* What a request writes where it makes content.
LEMMA UpsertWrites ==
  ASSUME TypeInv, NEW r \in Requests, NEW l \in Listings, UpsertPortal(r), req[r].listing = l
  PROVE  /\ req[r].portal \in 1..Len(PORTALS)
         /\ portalContent'[l][req[r].portal] = req[r].text
         /\ \A k \in 1..Len(PORTALS) :
              k # req[r].portal => portalContent'[l][k] = portalContent[l][k]
         /\ description' = description
<1>1. req[r].portal \in 1..Len(PORTALS)
  BY DEF TypeInv, TypeOK, RequestStates
<1>2. QED
  BY <1>1 DEF UpsertPortal, TypeInv, TypeOK, reviewVars

LEMMA CarriedRequest ==
  ASSUME CarriedInv, NEW r \in Requests, Step(r)
  PROVE  CarriedInv'
<1> DEFINE l == req[r].listing
<1>1. TypeInv /\ TypeInv' /\ l \in Listings /\ Stepped(r, l) /\ Exclusive'
  BY TypeInvRequest, StepMoves, ExclusiveRequest DEF CarriedInv
<1>2. Len(PORTALS) \in Nat
  BY FirstPortal
<1> HIDE DEF l
<1>3. l = req[r].listing
  BY DEF l
\* The request that makes content carries the description.
<1>4. ASSUME l \notin contended, UpsertPortal(r)
      PROVE  \A k \in 1..Len(PORTALS) :
               k < req[r].portal + 1 => portalContent'[l][k] = description'[l]
  <2>1. /\ req[r].text = description[l]
        /\ \A k \in 1..Len(PORTALS) :
             k < req[r].portal => portalContent[l][k] = description[l]
    BY <1>1, <1>3, <1>4 DEF CarriedInv, PassedCarry, UpsertPortal
  <2>2. QED
    BY <1>1, <1>2, <1>3, <1>4, <2>1, UpsertWrites
<1>5. CarriedOrPromoted'
  <2> SUFFICES ASSUME NEW m \in Listings, Reviewed(m)', description'[m] # NoText,
                      m \notin contended, m \notin abandoned'
               PROVE  Carries(m)' \/ Promoted(m)'
    BY <1>1 DEF CarriedOrPromoted, Stepped
  <2>1. m \notin abandoned
    BY <1>1 DEF Stepped
  <2>2. CASE m # l
    <3>1. Carries(m) \/ Promoted(m)
      BY <1>1, <2>1, <2>2 DEF CarriedInv, CarriedOrPromoted, Stepped
    <3>2. Carries(m) => Carries(m)'
      BY <1>1, <2>2 DEF Carries, Stepped
    <3>3. Promoted(m) => Promoted(m)'
      BY <1>1, <1>3, <2>2 DEF Promoted, Stepped
    <3>4. QED
      BY <3>1, <3>2, <3>3
  <2>3. CASE m = l /\ ApproveCommit(r)
    <3>1. req'[r] = On("promote", l)
      BY <1>1, <1>3, <2>3 DEF ApproveCommit, TypeInv, TypeOK
    <3>2. req'[r].listing = l /\ req'[r].op = "promote"
      BY <1>1, <3>1, OnFormed DEF Ops
    <3>3. QED
      BY <2>3, <3>2 DEF Promoted, Promoting
  <2>4. CASE m = l /\ UpsertPortal(r)
    <3>1. CASE req[r].portal = Len(PORTALS)
      BY <1>2, <1>4, <2>4, <3>1 DEF Carries
    <3>2. CASE req[r].portal # Len(PORTALS)
      <4>1. req'[r].op \in Promoting
        BY <1>1, <1>3, <2>4, <3>2, PromotionMoves DEF UpsertPortal, Promoting
      <4>2. req'[r].listing = l
        BY <1>1, <4>1, IdleFormed DEF Stepped, Promoting
      <4>3. QED
        BY <2>4, <4>1, <4>2 DEF Promoted
    <3>3. QED
      BY <3>1, <3>2
  <2>5. CASE m = l /\ ~ApproveCommit(r) /\ ~UpsertPortal(r)
    <3>1. /\ description' = description /\ portalContent' = portalContent
          /\ descriptionApproved' = descriptionApproved
      BY <2>5 DEF Step, EaaGate, StatusCommit, RevertCommit, SaveText, ApproveRead,
         PromoteRead, PromoteCommit, GenerateRead, Fail, reviewVars
    <3>2. Reviewed(m)
      BY <1>1, <3>1 DEF Reviewed, Stepped
    <3>3. Carries(m) \/ Promoted(m)
      BY <2>1, <3>1, <3>2 DEF CarriedInv, CarriedOrPromoted
    <3>4. Carries(m) => Carries(m)'
      BY <3>1 DEF Carries
    <3>5. ASSUME Promoted(m) PROVE Promoted(m)'
      <4>1. PICK q \in Requests : req[q].listing = m /\ req[q].op \in Promoting
        BY <3>5 DEF Promoted
      <4>2. q = r
        BY <1>1, <1>3, <2>5, <4>1 DEF CarriedInv, Exclusive
      <4>3. req'[r].op \in Promoting
        BY <1>1, <2>5, <4>1, <4>2, PromotionMoves
      <4>4. req'[r].listing = m
        BY <1>1, <2>5, <4>3, IdleFormed DEF Stepped, Promoting
      <4>5. QED
        BY <4>3, <4>4 DEF Promoted
    <3>6. QED
      BY <3>3, <3>4, <3>5
  <2>6. QED
    BY <2>2, <2>3, <2>4, <2>5
<1>6. PassedCarry'
  <2> SUFFICES ASSUME NEW p \in Requests, NEW m \in Listings, req'[p].listing = m,
                      req'[p].op = "portals", m \notin contended
               PROVE  /\ req'[p].text = description'[m]
                      /\ \A k \in 1..Len(PORTALS) :
                           k < req'[p].portal => portalContent'[m][k] = description'[m]
    BY <1>1 DEF PassedCarry, Stepped
  <2>1. CASE p # r
    <3>1. req'[p] = req[p] /\ m # l
      BY <1>1, <1>3, <2>1 DEF CarriedInv, Exclusive, Stepped
    <3>2. description'[m] = description[m] /\ portalContent'[m] = portalContent[m]
      BY <1>1, <3>1 DEF Stepped
    <3>3. QED
      BY <3>1, <3>2 DEF CarriedInv, PassedCarry
  <2>2. CASE p = r
    <3>1. m = l
      BY <1>1, <2>2, IdleFormed DEF Stepped
    <3>2. CASE GenerateRead(r) /\ req'[r].portal = 1
      <4>1. req'[r].text = description[l] /\ description' = description
        BY <1>1, <1>3, <3>2 DEF GenerateRead, TypeInv, TypeOK, RequestStates, reviewVars
      <4>2. QED
        BY <1>2, <2>2, <3>1, <3>2, <4>1
    <3>3. CASE /\ UpsertPortal(r) /\ req[r].op = "portals"
               /\ req'[r].portal = req[r].portal + 1 /\ req'[r].text = req[r].text
      <4>1. req[r].text = description[l] /\ description' = description
        BY <1>1, <1>3, <3>1, <3>3, UpsertWrites DEF CarriedInv, PassedCarry
      <4>2. QED
        BY <1>4, <2>2, <3>1, <3>3, <4>1
    <3>4. QED
      BY <1>1, <2>2, <3>2, <3>3, PortalsMoves
  <2>3. QED
    BY <2>1, <2>2
<1>7. QED
  BY <1>1, <1>5, <1>6 DEF CarriedInv

LEMMA CarriedStep == CarriedInv /\ [Next]_vars => CarriedInv'
<1> SUFFICES ASSUME CarriedInv, [Next]_vars PROVE CarriedInv'
  OBVIOUS
<1>1. CASE UNCHANGED vars
  <2>1. TypeInv'
    BY <1>1, TypeInvStep DEF CarriedInv
  <2>2. Exclusive' /\ CarriedOrPromoted' /\ PassedCarry'
    BY <1>1 DEF vars, reviewVars, CarriedInv, Exclusive, CarriedOrPromoted, PassedCarry,
       Reviewed, Carries, Promoted
  <2>3. QED
    BY <2>1, <2>2 DEF CarriedInv
<1>2. QED
  BY <1>1, CarriedStart, CarriedRequest DEF Next

\* The portals of a reviewed listing at rest, handled by one request at a time,
\* carry the description published.
THEOREM PortalsCarryDescriptionKept == Spec => []PortalsCarryDescription
<1>1. ASSUME CarriedInv PROVE PortalsCarryDescription
  BY <1>1 DEF CarriedInv, CarriedOrPromoted, PortalsCarryDescription, Quiet, Carries, Promoted
<1>2. QED
  BY CarriedInit, CarriedStep, <1>1, PTL DEF Spec

\* The four parts of a sound listing together.
THEOREM ListingIsSoundKept == Spec => []ListingIsSound
<1>1. Spec => [](TypeOK /\ ReviewedIsGenerated /\ LiveIsListed /\ LiveIsAgreed)
  BY TypeCorrect, ReviewedIsGeneratedKept, LiveIsListedKept, LiveIsAgreedKept, PTL
<1>2. QED
  BY <1>1 DEF ListingIsSound
=============================================================================
