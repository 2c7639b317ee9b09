------------------------------- MODULE Listing -------------------------------
(***************************************************************************)
(* The listing of a flat (src/src/domains/property), the review of its     *)
(* description and photos (src/src/domains/review), and the content made   *)
(* for the portals once both are approved.                                 *)
(*                                                                         *)
(* A handler is a request, as in Viewing.  Handlers that write once and    *)
(* decide on nothing they read are one action.  approveListingDescription  *)
(* and approveListingIfFullyReviewed read and then update in a transaction *)
(* at READ COMMITTED that locks nothing before the update: two actions.    *)
(*                                                                         *)
(* createProperty inserts a property with its listing, the only one it     *)
(* ever has: both rows are one identity here, drafts from the start.  Of   *)
(* the photos only their approval is here (Photo has the photos).  Posting *)
(* a portal listing by hand decides nothing here, and their expiry is in   *)
(* Transaction: a portal has content made for it, or no row.               *)
(***************************************************************************)
EXTENDS Integers, Sequences

CONSTANTS
  Listings,   \* identities of rows of listings, with their properties
  Requests,   \* handlers the process may have in flight
  Texts,      \* descriptions an AI or an agent writes
  PORTALS,    \* the portals, in the order content is made for them
  NoListing,  \* no listing
  NoText,     \* no description
  NoRow       \* a portal without a portal listing

ASSUME ListingAssumption ==
  /\ NoListing \notin Listings
  /\ NoText \notin Texts
  /\ NoRow \notin Texts \cup {NoText}
  /\ PORTALS \in Seq(STRING) /\ PORTALS # <<>>

VARIABLES
  listingStatus,        \* listings.status
  propertyStatus,       \* properties.status
  aiDescription,        \* listings.ai_description, the text under review
  description,          \* listings.description, the text published
  descriptionApproved,  \* listings with a description_approved_at
  photosApproved,       \* listings with a photos_approved_at
  portalContent,        \* portal_listings: the description each portal carries
  eaaSigned,            \* listings whose seller has an agreement signed or active
  req,                  \* the local state of each request
  contended,            \* ghost: listings two requests handled at once
  abandoned             \* ghost: listings an approval died on half-way

statusVars == <<listingStatus, propertyStatus>>
reviewVars == <<aiDescription, description, descriptionApproved, photosApproved>>
vars == <<statusVars, reviewVars, portalContent, eaaSigned, req, contended, abandoned>>

ListingStatuses == {"draft", "pending_review", "approved", "live", "paused", "closed"}

\* The pairs of LISTING_STATUS_TRANSITIONS; closed has no successor.
LISTING_STATUS_TRANSITIONS ==
  {<<"draft", "pending_review">>,
   <<"pending_review", "approved">>, <<"pending_review", "draft">>,
   <<"approved", "live">>, <<"approved", "draft">>,
   <<"live", "paused">>, <<"live", "pending_review">>, <<"live", "closed">>,
   <<"paused", "live">>, <<"paused", "closed">>}

Descriptions == Texts \cup {NoText}

\* What a request has read and has still to do: op names its next step.
RequestStates ==
  [op : {"idle", "gate", "status", "revert", "revertClosed", "text", "approve",
         "approving", "promote", "promoting", "generate", "portals"},
   listing : Listings \cup {NoListing},
   next : ListingStatuses,    \* the status to write
   text : Descriptions,       \* the description read, or to write
   portal : 1..Len(PORTALS)]  \* the portal whose turn it is

Idle == [op |-> "idle", listing |-> NoListing, next |-> "draft", text |-> NoText, portal |-> 1]

On(op, l) == [Idle EXCEPT !.op = op, !.listing = l]

TypeOK ==
  /\ listingStatus \in [Listings -> ListingStatuses]
  /\ propertyStatus \in [Listings -> {"draft", "listed"}]
  /\ aiDescription \in [Listings -> Descriptions]
  /\ description \in [Listings -> Descriptions]
  /\ descriptionApproved \subseteq Listings
  /\ photosApproved \subseteq Listings
  /\ portalContent \in [Listings -> [1..Len(PORTALS) -> Descriptions \cup {NoRow}]]
  /\ eaaSigned \subseteq Listings
  /\ req \in [Requests -> RequestStates]
  /\ contended \subseteq Listings
  /\ abandoned \subseteq Listings

-----------------------------------------------------------------------------
(* Requests.                                                               *)

Reviewed(l) == l \in descriptionApproved /\ l \in photosApproved

Contend(r, l) ==
  contended' = contended \cup
    {x \in {l} : \E q \in Requests \ {r} : req[q].listing = x}

Begin(r, state) ==
  /\ req[r] = Idle
  /\ req' = [req EXCEPT ![r] = state]
  /\ Contend(r, state.listing)
  /\ UNCHANGED abandoned

\* A handler whose only write is the one of this step.
Once(r, l) ==
  /\ req[r] = Idle
  /\ Contend(r, l)
  /\ UNCHANGED <<req, abandoned>>

Continue(r, op) ==
  /\ req' = [req EXCEPT ![r].op = op]
  /\ UNCHANGED <<contended, abandoned>>

Finish(r) ==
  /\ req' = [req EXCEPT ![r] = Idle]
  /\ UNCHANGED <<contended, abandoned>>

\* The steps of an approval that come after it is recorded.
Promoting == {"promote", "promoting", "generate", "portals"}

\* The handler throws at its next await (a refusal, an error of the database,
\* a missing agent, a restart); what it has written stays.
Fail(r) ==
  /\ req[r] # Idle
  /\ req' = [req EXCEPT ![r] = Idle]
  /\ abandoned' = abandoned \cup {l \in {req[r].listing} : req[r].op \in Promoting}
  /\ UNCHANGED <<statusVars, reviewVars, portalContent, eaaSigned, contended>>

-----------------------------------------------------------------------------
(* The agreement (src/src/domains/compliance): no handler takes it back.   *)

SignEaa(r, l) ==
  /\ l \notin eaaSigned
  /\ Once(r, l)
  /\ eaaSigned' = eaaSigned \cup {l}
  /\ UNCHANGED <<statusVars, reviewVars, portalContent>>

-----------------------------------------------------------------------------
(* The status: updateListingStatus, the edits that send a live listing     *)
(* back, the fall-through's return to draft, the withdrawal of consent.    *)

StatusStart_AnyTransition(r, l, s) ==
  /\ listingStatus[l] # "closed"
  /\ Begin(r, [On(IF s = "live" THEN "gate" ELSE "status", l) EXCEPT !.next = s])
  /\ UNCHANGED <<statusVars, reviewVars, portalContent, eaaSigned>>

\* updateListingStatus up to the gate of a listing that goes live.
StatusStart(r, l, s) ==
  /\ <<listingStatus[l], s>> \in LISTING_STATUS_TRANSITIONS
  /\ Begin(r, [On(IF s = "live" THEN "gate" ELSE "status", l) EXCEPT !.next = s])
  /\ UNCHANGED <<statusVars, reviewVars, portalContent, eaaSigned>>

EaaGate_Unsigned(r) ==
  /\ req[r].op = "gate"
  /\ Continue(r, "status")
  /\ UNCHANGED <<statusVars, reviewVars, portalContent, eaaSigned>>

\* checkComplianceGate('eaa_signed')
EaaGate(r) ==
  /\ req[r].op = "gate"
  /\ req[r].listing \in eaaSigned
  /\ Continue(r, "status")
  /\ UNCHANGED <<statusVars, reviewVars, portalContent, eaaSigned>>

\* updateProperty and updateAskingPrice, having written the property and read
\* its listing live.
EditStart(r, l) ==
  /\ listingStatus[l] = "live"
  /\ Begin(r, [On("status", l) EXCEPT !.next = "pending_review"])
  /\ UNCHANGED <<statusVars, reviewVars, portalContent, eaaSigned>>

\* withdrawConsent delists the listing it read not closed.
CloseStart(r, l) ==
  /\ listingStatus[l] # "closed"
  /\ Begin(r, [On("status", l) EXCEPT !.next = "closed"])
  /\ UNCHANGED <<statusVars, reviewVars, portalContent, eaaSigned>>

\* By id, whatever the status is by now; going live lists the property in the
\* same transaction.
StatusCommit(r) ==
  LET l == req[r].listing
  IN  /\ req[r].op = "status"
      /\ listingStatus' = [listingStatus EXCEPT ![l] = req[r].next]
      /\ propertyStatus' = IF req[r].next = "live"
                           THEN [propertyStatus EXCEPT ![l] = "listed"]
                           ELSE propertyStatus
      /\ Finish(r)
      /\ UNCHANGED <<reviewVars, portalContent, eaaSigned>>

\* revertPropertyToDraft: the listing with the property when it is not closed,
\* the property alone when it is.
RevertStart(r, l) ==
  /\ Begin(r, On(IF listingStatus[l] = "closed" THEN "revertClosed" ELSE "revert", l))
  /\ UNCHANGED <<statusVars, reviewVars, portalContent, eaaSigned>>

RevertCommit(r) ==
  LET l == req[r].listing
  IN  /\ req[r].op \in {"revert", "revertClosed"}
      /\ listingStatus' = IF req[r].op = "revert"
                          THEN [listingStatus EXCEPT ![l] = "draft"] ELSE listingStatus
      /\ propertyStatus' = [propertyStatus EXCEPT ![l] = "draft"]
      /\ Finish(r)
      /\ UNCHANGED <<reviewVars, portalContent, eaaSigned>>

-----------------------------------------------------------------------------
(* The description under review.                                           *)

\* saveAiDescription: a new text, no longer approved.
GenerateListingDescription(r, l, x) ==
  /\ Once(r, l)
  /\ aiDescription' = [aiDescription EXCEPT ![l] = x]
  /\ descriptionApproved' = descriptionApproved \ {l}
  /\ UNCHANGED <<statusVars, description, photosApproved, portalContent, eaaSigned>>

\* updateDescriptionDraft: an approval stands, though of the text before.
SaveDescriptionDraft(r, l, x) ==
  /\ Once(r, l)
  /\ aiDescription' = [aiDescription EXCEPT ![l] = x]
  /\ UNCHANGED <<statusVars, description, descriptionApproved, photosApproved,
                 portalContent, eaaSigned>>

\* rejectListingDescription clears the published text alone.
RejectDescription(r, l) ==
  /\ Once(r, l)
  /\ description' = [description EXCEPT ![l] = NoText]
  /\ UNCHANGED <<statusVars, aiDescription, descriptionApproved, photosApproved,
                 portalContent, eaaSigned>>

\* reinstateListingPhotos
ReinstatePhotos(r, l) ==
  /\ Once(r, l)
  /\ photosApproved' = photosApproved \ {l}
  /\ UNCHANGED <<statusVars, aiDescription, description, descriptionApproved,
                 portalContent, eaaSigned>>

-----------------------------------------------------------------------------
(* approveItem: for a listing it takes the item for pending review without *)
(* a look.                                                                 *)

\* With the agent's own text, or as it stands.
ApproveDescription(r, l, x) ==
  /\ Begin(r, [On(IF x = NoText THEN "approve" ELSE "text", l) EXCEPT !.text = x])
  /\ UNCHANGED <<statusVars, reviewVars, portalContent, eaaSigned>>

SaveText(r) ==
  LET l == req[r].listing
  IN  /\ req[r].op = "text"
      /\ aiDescription' = [aiDescription EXCEPT ![l] = req[r].text]
          /\ Continue(r, "approve")
      /\ UNCHANGED <<statusVars, description, descriptionApproved, photosApproved,
                     portalContent, eaaSigned>>

\* approveListingDescription: what findUnique read ...
ApproveRead(r) ==
  /\ req[r].op = "approve"
  /\ req' = [req EXCEPT ![r].op = "approving", ![r].text = aiDescription[req[r].listing]]
  /\ UNCHANGED <<statusVars, reviewVars, portalContent, eaaSigned, contended, abandoned>>

\* ... update publishes, if there is a text.
ApproveCommit(r) ==
  LET l == req[r].listing
  IN  /\ req[r].op = "approving"
      /\ descriptionApproved' = descriptionApproved \cup {l}
      /\ description' = IF req[r].text # NoText
                        THEN [description EXCEPT ![l] = req[r].text] ELSE description
      /\ req' = [req EXCEPT ![r] = On("promote", l)]
      /\ UNCHANGED <<statusVars, aiDescription, photosApproved,
                     portalContent, eaaSigned, contended, abandoned>>

\* approveListingPhotos
ApprovePhotos(r, l) ==
  /\ Begin(r, On("promote", l))
  /\ photosApproved' = photosApproved \cup {l}
  /\ UNCHANGED <<statusVars, aiDescription, description, descriptionApproved,
                 portalContent, eaaSigned>>

\* approveListingIfFullyReviewed: what findUnique read ...
PromoteRead(r) ==
  /\ req[r].op = "promote"
  /\ IF Reviewed(req[r].listing) THEN Continue(r, "promoting") ELSE Finish(r)
  /\ UNCHANGED <<statusVars, reviewVars, portalContent, eaaSigned>>

\* ... approves the listing, whatever its status is.
PromoteCommit(r) ==
  /\ req[r].op = "promoting"
  /\ listingStatus' = [listingStatus EXCEPT ![req[r].listing] = "approved"]
  /\ Continue(r, "generate")
  /\ UNCHANGED <<propertyStatus, reviewVars, portalContent, eaaSigned>>

\* generatePortalListings: the listing is read once, then one upsert a portal.
GenerateRead(r) ==
  /\ req[r].op = "generate"
  /\ req' = [req EXCEPT ![r].op = "portals", ![r].text = description[req[r].listing]]
  /\ UNCHANGED <<statusVars, reviewVars, portalContent, eaaSigned, contended, abandoned>>

UpsertPortal_CreateOnly(r) ==
  LET l == req[r].listing
      k == req[r].portal
  IN  /\ req[r].op = "portals"
      /\ portalContent' = IF portalContent[l][k] = NoRow
                          THEN [portalContent EXCEPT ![l][k] = req[r].text] ELSE portalContent
      /\ req' = [req EXCEPT ![r] = IF k = Len(PORTALS) THEN Idle ELSE [@ EXCEPT !.portal = k + 1]]
      /\ UNCHANGED <<statusVars, reviewVars, eaaSigned, contended, abandoned>>

UpsertPortal(r) ==
  LET l == req[r].listing
      k == req[r].portal
  IN  /\ req[r].op = "portals"
      /\ portalContent' = [portalContent EXCEPT ![l][k] = req[r].text]
      /\ req' = [req EXCEPT ![r] = IF k = Len(PORTALS) THEN Idle ELSE [@ EXCEPT !.portal = k + 1]]
      /\ UNCHANGED <<statusVars, reviewVars, eaaSigned, contended, abandoned>>

-----------------------------------------------------------------------------

Init ==
  /\ listingStatus = [l \in Listings |-> "draft"]
  /\ propertyStatus = [l \in Listings |-> "draft"]
  /\ aiDescription = [l \in Listings |-> NoText]
  /\ description = [l \in Listings |-> NoText]
  /\ descriptionApproved = {}
  /\ photosApproved = {}
  /\ portalContent = [l \in Listings |-> [k \in 1..Len(PORTALS) |-> NoRow]]
  /\ eaaSigned = {}
  /\ req = [r \in Requests |-> Idle]
  /\ contended = {}
  /\ abandoned = {}

Start(r, l) ==
  \/ SignEaa(r, l)
  \/ \E s \in ListingStatuses : StatusStart(r, l, s)
  \/ EditStart(r, l)
  \/ CloseStart(r, l)
  \/ RevertStart(r, l)
  \/ \E x \in Texts : GenerateListingDescription(r, l, x)
  \/ \E x \in Texts : SaveDescriptionDraft(r, l, x)
  \/ RejectDescription(r, l)
  \/ ReinstatePhotos(r, l)
  \/ \E x \in Descriptions : ApproveDescription(r, l, x)
  \/ ApprovePhotos(r, l)

Step(r) ==
  \/ EaaGate(r)
  \/ StatusCommit(r)
  \/ RevertCommit(r)
  \/ SaveText(r)
  \/ ApproveRead(r)
  \/ ApproveCommit(r)
  \/ PromoteRead(r)
  \/ PromoteCommit(r)
  \/ GenerateRead(r)
  \/ UpsertPortal(r)
  \/ Fail(r)

Next == \E r \in Requests : Step(r) \/ \E l \in Listings : Start(r, l)

Spec == Init /\ [][Next]_vars

-----------------------------------------------------------------------------
(* Properties.                                                             *)

\* No request is handling the listing.
Quiet(l) == \A q \in Requests : req[q].listing # l

\* When both reviews stand, every portal has content made for it: of two
\* agents who approve the description and the photos at once, the one whose
\* approval came last sees both and makes it, whatever requests race.
ReviewedIsGenerated ==
  \A l \in Listings :
    (Reviewed(l) /\ Quiet(l) /\ l \notin abandoned) =>
      \A k \in 1..Len(PORTALS) : portalContent[l][k] # NoRow

\* The portals of a reviewed listing carry the description published: one
\* approved anew replaces the content made before.
PortalsCarryDescription ==
  \A l \in Listings :
    (/\ Reviewed(l)
     /\ description[l] # NoText
     /\ Quiet(l)
     /\ l \notin contended \cup abandoned) =>
       \A k \in 1..Len(PORTALS) : portalContent[l][k] = description[l]

\* The flat of a live listing is listed, what the transaction over the two rows
\* is there for.
LiveIsListed ==
  \A l \in Listings :
    (listingStatus[l] = "live" /\ l \notin contended) => propertyStatus[l] = "listed"

\* A listing is live only under an agreement signed or active, whatever
\* requests race: the gate's answer cannot go stale.
LiveIsAgreed == \A l \in Listings : listingStatus[l] = "live" => l \in eaaSigned

\* The status follows LISTING_STATUS_TRANSITIONS, but for the three writers
\* that do not ask it: the approval of a listing with both reviews, the
\* fall-through's return to draft, the withdrawal's closing.
FollowsTransitions ==
  [][\A l \in Listings :
       (l \notin contended' /\ listingStatus'[l] # listingStatus[l]) =>
         \/ <<listingStatus[l], listingStatus'[l]>> \in LISTING_STATUS_TRANSITIONS
         \/ listingStatus'[l] = "approved" /\ Reviewed(l)
         \/ listingStatus[l] # "closed" /\ listingStatus'[l] \in {"draft", "closed"}]_vars

\* A listing shown to buyers is agreed, reviewed, on its portals and of a flat that
\* is listed.
ListingIsSound == TypeOK /\ ReviewedIsGenerated /\ LiveIsListed /\ LiveIsAgreed
=============================================================================
