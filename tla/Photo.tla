-------------------------------- MODULE Photo --------------------------------
(***************************************************************************)
(* The photos of a listing (src/src/domains/property/photo.service.ts and  *)
(* portal.service.ts): a list in one column, read, changed and written     *)
(* whole, and on disk an original and an optimised file for each photo.    *)
(*                                                                         *)
(* A handler is a request that yields at each await, as in Viewing.  No    *)
(* transaction and no lock holds the list and the files together.  The     *)
(* checks of the picture itself come before the handler decides anything   *)
(* (an upload that fails them ends as one that dies at the scan); the      *)
(* approval of the photos is in Listing.                                   *)
(***************************************************************************)
EXTENDS Integers, Sequences, FiniteSets, SequencesExt

CONSTANTS
  Listings,      \* identities of rows of listings
  Photos,        \* identities of photos: createId never gives one twice
  Hashes,        \* contents a photo may have
  HashOf,        \* the content of each photo
  PhotoRequests, \* handlers the process may have in flight
  MAX_PHOTOS,    \* photos a listing may have
  MaxOrder,      \* bound: ids in the order a seller sends
  NoListing,     \* no listing
  NoPhoto        \* no photo

ASSUME PhotoAssumption ==
  /\ NoListing \notin Listings
  /\ NoPhoto \notin Photos
  /\ HashOf \in [Photos -> Hashes]
  /\ MAX_PHOTOS \in Nat
  /\ MaxOrder \in Nat

VARIABLES
  photos,     \* listings.photos, the ids of the list's records
  active,     \* listings whose status is not closed
  deleted,    \* listings whose rows were deleted for good
  uploaded,   \* photos an upload has taken up
  originals,  \* photos with their original file on disk
  optimized,  \* photos with their optimised file on disk
  req,        \* the local state of each request
  contended,  \* ghost: listings two requests handled at once
  abandoned   \* ghost: listings a request died on after it deleted a file

rowVars == <<photos, active, deleted>>
fileVars == <<originals, optimized>>
vars == <<rowVars, uploaded, fileVars, req, contended, abandoned>>

\* What a request has read and has still to do: op names its next step.
RequestStates ==
  [op : {"idle", "scan", "optimise", "add", "append", "unlink", "unlinkOptimized",
         "shorten", "order", "clear", "clearOriginal"},
   listing : Listings \cup {NoListing},
   photo : uploaded \cup {NoPhoto},  \* the photo uploaded or removed
   list : Seq(uploaded)]             \* the list to write, or the photos left to delete

Idle == [op |-> "idle", listing |-> NoListing, photo |-> NoPhoto, list |-> <<>>]

TypeOK ==
  /\ photos \in [Listings -> Seq(uploaded)]
  /\ active \subseteq Listings
  /\ deleted \subseteq Listings
  /\ uploaded \subseteq Photos
  /\ originals \subseteq uploaded
  /\ optimized \subseteq uploaded
  /\ req \in [PhotoRequests -> RequestStates]
  /\ contended \subseteq Listings
  /\ abandoned \subseteq Listings

Listed(l) == ToSet(photos[l])

-----------------------------------------------------------------------------
(* Requests.                                                               *)

Contend(r, l) ==
  contended' = contended \cup
    {x \in {l} : \E q \in PhotoRequests \ {r} : req[q].listing = x}

Begin(r, state) ==
  /\ req[r] = Idle
  /\ req' = [req EXCEPT ![r] = state]
  /\ Contend(r, state.listing)
  /\ UNCHANGED abandoned

\* A handler whose only write is the one of this step.
Once(r, l) ==
  /\ req[r] = Idle
  /\ Contend(r, l)
  /\ UNCHANGED <<req, abandoned>>

Continue(r, op) ==
  /\ req' = [req EXCEPT ![r].op = op]
  /\ UNCHANGED <<contended, abandoned>>

Finish(r) ==
  /\ req' = [req EXCEPT ![r] = Idle]
  /\ UNCHANGED <<contended, abandoned>>

\* The steps between the first file a request deletes and its write.
Deleting == {"unlinkOptimized", "shorten", "clear", "clearOriginal"}

\* The handler throws at its next await (a refusal, a file that is not there, a
\* row that is gone, a restart); what it has written stays.
Fail(r) ==
  /\ req[r] # Idle
  /\ req' = [req EXCEPT ![r] = Idle]
  /\ abandoned' = abandoned \cup {l \in {req[r].listing} : req[r].op \in Deleting}
  /\ UNCHANGED <<rowVars, uploaded, fileVars, contended>>

-----------------------------------------------------------------------------
(* The listing around its photos.                                          *)

\* The listing is closed, or approved though closed (see Listing).
ToggleActive(r, l) ==
  /\ l \notin deleted
  /\ Once(r, l)
  /\ active' = IF l \in active THEN active \ {l} ELSE active \cup {l}
  /\ UNCHANGED <<photos, deleted, uploaded, fileVars>>

\* rejectListingPhotos: the files stay.
RejectPhotos(r, l) ==
  /\ l \notin deleted
  /\ Once(r, l)
  /\ photos' = [photos EXCEPT ![l] = <<>>]
  /\ UNCHANGED <<active, deleted, uploaded, fileVars>>

\* executeHardDelete: the paths of the photos' files are looked for in the JSON
\* text of the column as if it were the list, and none is found.
HardDelete(r, l) ==
  /\ l \notin deleted
  /\ Once(r, l)
  /\ deleted' = deleted \cup {l}
  /\ active' = active \ {l}
  /\ photos' = [photos EXCEPT ![l] = <<>>]
  /\ UNCHANGED <<uploaded, fileVars>>

-----------------------------------------------------------------------------
(* Upload: processAndSavePhoto, then addPhotoToListing.                    *)

\* The content is looked for in the active listing, if there is one.
UploadStart(r, l, p) ==
  /\ p \notin uploaded
  /\ l \in active => \A q \in Listed(l) : HashOf[q] # HashOf[p]
  /\ uploaded' = uploaded \cup {p}
  /\ Begin(r, [op |-> "scan", listing |-> l, photo |-> p, list |-> <<>>])
  /\ UNCHANGED <<rowVars, fileVars>>

SaveOriginal(r) ==
  /\ req[r].op = "scan"
  /\ originals' = originals \cup {req[r].photo}
  /\ Continue(r, "optimise")
  /\ UNCHANGED <<rowVars, uploaded, optimized>>

\* A picture that cannot be optimised takes its original away again.
SaveOptimized(r) ==
  /\ req[r].op = "optimise"
  /\ \/ /\ optimized' = optimized \cup {req[r].photo}
        /\ Continue(r, "add")
        /\ UNCHANGED originals
     \/ /\ originals' = originals \ {req[r].photo}
        /\ Finish(r)
        /\ UNCHANGED optimized
  /\ UNCHANGED <<rowVars, uploaded>>

AddRead_OffByOne(r) ==
  LET l == req[r].listing
  IN  /\ req[r].op = "add"
      /\ l \in active
      /\ Len(photos[l]) <= MAX_PHOTOS
      /\ req' = [req EXCEPT ![r].op = "append", ![r].list = Append(photos[l], req[r].photo)]
      /\ UNCHANGED <<rowVars, uploaded, fileVars, contended, abandoned>>

\* Past the limit, or with no active listing, it throws: the files stay.
AddRead(r) ==
  LET l == req[r].listing
  IN  /\ req[r].op = "add"
      /\ l \in active
      /\ Len(photos[l]) < MAX_PHOTOS
      /\ req' = [req EXCEPT ![r].op = "append", ![r].list = Append(photos[l], req[r].photo)]
      /\ UNCHANGED <<rowVars, uploaded, fileVars, contended, abandoned>>

-----------------------------------------------------------------------------
(* Removal and order.                                                      *)

\* The records left, in their order, renumbered.
Without(list, p) ==
  LET kept[n \in 0..Len(list)] ==
        IF n = 0 THEN <<>>
        ELSE IF list[n] = p THEN kept[n - 1] ELSE Append(kept[n - 1], list[n])
  IN  kept[Len(list)]

RemoveStart(r, l, p) ==
  /\ l \in active
  /\ p \in Listed(l)
  /\ Begin(r, [op |-> "unlink", listing |-> l, photo |-> p, list |-> Without(photos[l], p)])
  /\ UNCHANGED <<rowVars, uploaded, fileVars>>

\* unlink throws when the file is not there.
UnlinkOriginal(r) ==
  /\ req[r].op = "unlink"
  /\ req[r].photo \in originals
  /\ originals' = originals \ {req[r].photo}
  /\ Continue(r, "unlinkOptimized")
  /\ UNCHANGED <<rowVars, uploaded, optimized>>

UnlinkOptimized(r) ==
  /\ req[r].op = "unlinkOptimized"
  /\ req[r].photo \in optimized
  /\ optimized' = optimized \ {req[r].photo}
  /\ Continue(r, "shorten")
  /\ UNCHANGED <<rowVars, uploaded, originals>>

ReorderStart_NoneAdded(r, l, order) ==
  /\ l \in active
  /\ ToSet(order) \subseteq Listed(l)
  /\ Begin(r, [op |-> "order", listing |-> l, photo |-> NoPhoto, list |-> order])
  /\ UNCHANGED <<rowVars, uploaded, fileVars>>

\* The ids sent are compared with those listed as sets: one may come twice.
ReorderStart(r, l, order) ==
  /\ l \in active
  /\ ToSet(order) = Listed(l)
  /\ Begin(r, [op |-> "order", listing |-> l, photo |-> NoPhoto, list |-> order])
  /\ UNCHANGED <<rowVars, uploaded, fileVars>>

\* updateListingPhotos
UpdateListingPhotos(r) ==
  /\ req[r].op \in {"append", "shorten", "order"}
  /\ req[r].listing \notin deleted
  /\ photos' = [photos EXCEPT ![req[r].listing] = req[r].list]
  /\ Finish(r)
  /\ UNCHANGED <<active, deleted, uploaded, fileVars>>

-----------------------------------------------------------------------------
(* Download: the agent takes the photos away, whatever the status.         *)

\* readPhotosForDownload; a file that is missing is left out of the archive.
DownloadStart(r, l) ==
  /\ photos[l] # <<>>
  /\ Begin(r, [op |-> "clear", listing |-> l, photo |-> NoPhoto, list |-> photos[l]])
  /\ UNCHANGED <<rowVars, uploaded, fileVars>>

\* deletePhotosFromListing, once the archive is sent: one photo after the other.
ClearOptimized(r) ==
  /\ req[r].op = "clear"
  /\ req[r].list # <<>>
  /\ Head(req[r].list) \in optimized
  /\ optimized' = optimized \ {Head(req[r].list)}
  /\ Continue(r, "clearOriginal")
  /\ UNCHANGED <<rowVars, uploaded, originals>>

ClearOriginal(r) ==
  /\ req[r].op = "clearOriginal"
  /\ Head(req[r].list) \in originals
  /\ originals' = originals \ {Head(req[r].list)}
  /\ req' = [req EXCEPT ![r].op = "clear", ![r].list = Tail(req[r].list)]
  /\ UNCHANGED <<rowVars, uploaded, optimized, contended, abandoned>>

ClearListingPhotos(r) ==
  /\ req[r].op = "clear"
  /\ req[r].list = <<>>
  /\ req[r].listing \notin deleted
  /\ photos' = [photos EXCEPT ![req[r].listing] = <<>>]
  /\ Finish(r)
  /\ UNCHANGED <<active, deleted, uploaded, fileVars>>

-----------------------------------------------------------------------------

Init ==
  /\ photos = [l \in Listings |-> <<>>]
  /\ active = Listings
  /\ deleted = {}
  /\ uploaded = {}
  /\ originals = {}
  /\ optimized = {}
  /\ req = [r \in PhotoRequests |-> Idle]
  /\ contended = {}
  /\ abandoned = {}

Orders == UNION {[1..n -> Photos] : n \in 1..MaxOrder}

Start(r, l) ==
  \/ ToggleActive(r, l)
  \/ RejectPhotos(r, l)
  \/ HardDelete(r, l)
  \/ \E p \in Photos : UploadStart(r, l, p)
  \/ \E p \in Photos : RemoveStart(r, l, p)
  \/ \E order \in Orders : ReorderStart(r, l, order)
  \/ DownloadStart(r, l)

Step(r) ==
  \/ SaveOriginal(r)
  \/ SaveOptimized(r)
  \/ AddRead(r)
  \/ UnlinkOriginal(r)
  \/ UnlinkOptimized(r)
  \/ UpdateListingPhotos(r)
  \/ ClearOptimized(r)
  \/ ClearOriginal(r)
  \/ ClearListingPhotos(r)
  \/ Fail(r)

Next == \E r \in PhotoRequests : Step(r) \/ \E l \in Listings : Start(r, l)

Spec == Init /\ [][Next]_vars

-----------------------------------------------------------------------------
(* Properties.                                                             *)

\* A listing never has more than MAX_PHOTOS different photos, whatever uploads
\* race past the check: each writes the list it checked with one photo more.
\* (One that a reordering listed twice counts once.)
WithinLimit == \A l \in Listings : Cardinality(Listed(l)) <= MAX_PHOTOS

\* The same picture is not listed twice, though it is scanned, saved and
\* optimised between the look for its content and the write.
UniqueContent ==
  \A l \in Listings \ contended :
    \A p, q \in Listed(l) : HashOf[p] = HashOf[q] => p = q

\* No request is deleting files of the listing.
Undisturbed(l) ==
  \A r \in PhotoRequests : req[r].listing = l => req[r].op \notin Deleting

\* Each photo listed has both of its files.
ListedHasFiles ==
  \A l \in Listings \ (contended \cup abandoned) :
    Undisturbed(l) => Listed(l) \subseteq originals \cap optimized

\* A photo leaves the list after both of its files, but for the rejection and
\* the deletion of all: no other write of the whole list drops it.
LeavesAfterItsFiles ==
  [][\A l \in Listings \ contended' : \A p \in Listed(l) \ Listed(l)' :
       \/ p \notin originals \cup optimized
       \/ \E r \in PhotoRequests : RejectPhotos(r, l) \/ HardDelete(r, l)]_vars

\* The list of photos holds the limit, no picture twice, and none without its files.
PhotosAreSound == TypeOK /\ WithinLimit /\ UniqueContent /\ ListedHasFiles
=============================================================================
