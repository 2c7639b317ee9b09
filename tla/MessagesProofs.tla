---------------------------- MODULE MessagesProofs ----------------------------
(***************************************************************************)
(* Proofs about Invoice, for any number of requests and notifications,     *)
(* about Notification, for any number of sends and attempts, and about     *)
(* Reminders, for any number of items and instants.                        *)
(***************************************************************************)
EXTENDS MCMessages, FiniteSetTheorems, TLAPS

Statuses == {"none", "uploaded", "sent_to_client", "paid"}

InvoiceTypeOK ==
  /\ invoice \in Statuses
  /\ notices \in Nat
  /\ handler \in [Handlers -> {"idle", "upload", "notify", "sent", "pay"}]
  /\ raced \in BOOLEAN

Notifies(h) == handler[h] \in {"notify", "sent"}

\* Who is past the notification has a row to show for it, and so has who is about
\* to write what comes after it.
Announced ==
  /\ PaidWasAnnounced
  /\ \A h \in Handlers : handler[h] = "sent" => notices > 0
  /\ \A h \in Handlers : handler[h] = "pay" => invoice \in {"sent_to_client", "paid"}

\* While no second request has set off, the one that sends finds the invoice as
\* it was when it looked.
OneSends ==
  ~raced => \A h \in Handlers : Notifies(h) =>
    /\ invoice = "uploaded"
    /\ \A g \in Handlers \ {h} : ~Notifies(g)

InvoiceInv == InvoiceTypeOK /\ Announced /\ OneSends

-----------------------------------------------------------------------------

\* The place of each status in the order.
LEMMA RankOf ==
  /\ Rank("none") = 1 /\ Rank("uploaded") = 2
  /\ Rank("sent_to_client") = 3 /\ Rank("paid") = 4
<1> DEFINE S == InvoiceStatus
<1>1. DOMAIN S = 1..4 /\ S[1] = "none" /\ S[2] = "uploaded"
      /\ S[3] = "sent_to_client" /\ S[4] = "paid"
  BY DEF InvoiceStatus
<1>2. \A n \in DOMAIN S : n = 1 \/ n = 2 \/ n = 3 \/ n = 4
  BY <1>1
<1>3. Rank("none") = 1
  BY <1>1, <1>2 DEF Rank
<1>4. Rank("uploaded") = 2
  BY <1>1, <1>2 DEF Rank
<1>5. Rank("sent_to_client") = 3
  BY <1>1, <1>2 DEF Rank
<1>6. Rank("paid") = 4
  BY <1>1, <1>2 DEF Rank
<1> QED
  BY <1>3, <1>4, <1>5, <1>6

LEMMA InitInv == InvoiceInit => InvoiceInv
<1> SUFFICES ASSUME InvoiceInit PROVE InvoiceInv
  OBVIOUS
<1>1. \A h \in Handlers : handler[h] = "idle"
  BY DEF InvoiceInit
<1>2. invoice \in Statuses /\ notices \in Nat
  BY DEF InvoiceInit, Statuses
<1>3. handler \in [Handlers -> {"idle", "upload", "notify", "sent", "pay"}]
  BY DEF InvoiceInit
<1>4. raced \in BOOLEAN
  BY Zenon DEF InvoiceInit
<1>5. Announced
  BY <1>1 DEF InvoiceInit, Announced, PaidWasAnnounced
<1>6. OneSends
  BY <1>1 DEF OneSends, Notifies
<1> QED
  BY <1>2, <1>3, <1>4, <1>5, <1>6 DEF InvoiceInv, InvoiceTypeOK

\* What a step of the spec keeps.
LEMMA StepInv == InvoiceInv /\ [InvoiceNext]_invoiceVars => InvoiceInv'
<1> SUFFICES ASSUME InvoiceInv, [InvoiceNext]_invoiceVars PROVE InvoiceInv'
  OBVIOUS
<1> USE DEF InvoiceInv, InvoiceTypeOK, Statuses, Announced, PaidWasAnnounced, OneSends,
            Notifies, Sets, Ends
<1>1. ASSUME NEW h \in Handlers, UploadInvoice(h) PROVE InvoiceInv'
  BY <1>1 DEF UploadInvoice
<1>2. ASSUME NEW h \in Handlers, CreateCommissionInvoice(h) PROVE InvoiceInv'
  BY <1>2 DEF CreateCommissionInvoice
<1>3. ASSUME NEW h \in Handlers, SendInvoice(h) PROVE InvoiceInv'
  BY <1>3 DEF SendInvoice
<1>4. ASSUME NEW h \in Handlers, SendNotice(h) PROVE InvoiceInv'
  BY <1>4 DEF SendNotice
<1>5. ASSUME NEW h \in Handlers, MarkSentToClient(h) PROVE InvoiceInv'
  BY <1>5 DEF MarkSentToClient
<1>6. ASSUME NEW h \in Handlers, MarkInvoicePaid(h) PROVE InvoiceInv'
  BY <1>6 DEF MarkInvoicePaid
<1>7. ASSUME NEW h \in Handlers, WritePaid(h) PROVE InvoiceInv'
  BY <1>7 DEF WritePaid
<1>8. ASSUME NEW h \in Handlers, HandlerFails(h) PROVE InvoiceInv'
  BY <1>8 DEF HandlerFails
<1>9. CASE UNCHANGED invoiceVars
  BY <1>9 DEF invoiceVars
<1> QED
  BY <1>1, <1>2, <1>3, <1>4, <1>5, <1>6, <1>7, <1>8, <1>9 DEF InvoiceNext

\* A status written is the one that comes next.
LEMMA StepForward ==
  InvoiceInv /\ InvoiceNext /\ invoice' # invoice /\ ~raced
    => Rank(invoice') = Rank(invoice) + 1
<1> SUFFICES ASSUME InvoiceInv, NEW h \in Handlers, invoice' # invoice, ~raced,
                    CreateCommissionInvoice(h) \/ MarkSentToClient(h) \/ WritePaid(h)
             PROVE  Rank(invoice') = Rank(invoice) + 1
  BY DEF InvoiceNext, UploadInvoice, SendInvoice, SendNotice, MarkInvoicePaid, HandlerFails
<1>1. CASE CreateCommissionInvoice(h)
  BY <1>1, RankOf DEF CreateCommissionInvoice
<1>2. CASE MarkSentToClient(h)
  BY <1>2, RankOf DEF MarkSentToClient, InvoiceInv, OneSends, Notifies
<1>3. CASE WritePaid(h)
  BY <1>3, RankOf DEF WritePaid, InvoiceInv, Announced
<1> QED
  BY <1>1, <1>2, <1>3

\* The values the rows of the invoice may have, whichever requests are at work.
THEOREM TypeCorrect == InvoiceSpec => []InvoiceTypeOK
<1>1. InvoiceInv => InvoiceTypeOK
  BY DEF InvoiceInv
<1> QED
  BY InitInv, StepInv, <1>1, PTL DEF InvoiceSpec

\* An invoice the client is said to have was announced, and its status goes one step
\* at a time while one request sends it (sendInvoice, markInvoicePaid).
THEOREM InvoiceIsSoundKept == InvoiceSpec => InvoiceIsSound
<1>1. InvoiceInv /\ InvoiceInv' /\ [InvoiceNext]_invoiceVars
        => [/\ PaidWasAnnounced'
            /\ invoice' # invoice /\ ~raced => Rank(invoice') = Rank(invoice) + 1]_invoiceVars
  BY StepForward DEF InvoiceInv, Announced
<1> QED
  BY InitInv, StepInv, <1>1, PTL DEF InvoiceSpec, InvoiceIsSound

-----------------------------------------------------------------------------
(* One notification on its way.                                            *)

Early == {"idle", "sensitive", "inApp", "inAppSent", "consent", "channel", "dnc", "create", "blocked"}
OnMain == {"send", "noAddress", "record", "failed"}
OnSpare == {"spare", "spareSend", "spareNoAddress", "spareRecord", "alert"}
SendOps == Early \cup OnMain \cup OnSpare \cup {"returned", "thrown"}

SendCalls == [op : SendOps, input : Inputs, channel : {"none", "email", Phone},
              attempts : Nat, silent : BOOLEAN]

SendType ==
  /\ seller \in [phone : BOOLEAN, email : BOOLEAN, emailOnly : BOOLEAN, service : BOOLEAN,
                 marketing : BOOLEAN, sensitive : BOOLEAN]
  /\ call \in [Sends -> SendCalls]
  /\ row \in [Sends -> [Rows -> Status]]
  /\ stored \in [Sends -> Nat]
  /\ taken \in [Sends -> [{"main", "spare"} -> SUBSET (1..MaxRetries)]]
  /\ phone \in [Sends -> {"nothing", "arrived", "opened", "bounced"}]

\* How often the provider under way has been tried; who answered has the message.
AttemptsFit(s) ==
  /\ call[s].op \in Early \cup {"noAddress"} \cup (OnSpare \ {"spareSend", "spareRecord", "alert"})
       => call[s].attempts = 0
  /\ call[s].op \in {"send", "spareSend"} => call[s].attempts \in 0..(MaxRetries - 1)
  /\ call[s].op = "record" => call[s].attempts \in taken[s]["main"]
  /\ call[s].op = "spareRecord" => call[s].attempts \in taken[s]["spare"]

\* The rows are made in their order, and no message goes out before its row.
RowsInOrder(s) ==
  /\ call[s].op \in Early => /\ row[s]["main"] = "none" /\ row[s]["spare"] = "none"
                             /\ taken[s]["main"] = {} /\ taken[s]["spare"] = {}
  /\ call[s].op \in Early \ {"idle", "sensitive", "inApp"} => row[s]["in_app"] # "none"
  /\ call[s].op \in OnMain \cup OnSpare \/ taken[s]["main"] # {} => row[s]["main"] # "none"
  /\ row[s]["spare"] # "none" => row[s]["main"] # "none"
  /\ row[s]["main"] # "none" => row[s]["in_app"] # "none"

\* Past its own failure a main row is not pending, unless that could not be written.
FailureIsOnRecord(s) ==
  row[s]["main"] = "pending" /\ s \notin slipped =>
    /\ call[s].op \notin OnSpare
    /\ call[s].op = "returned" => taken[s]["main"] = {}

\* Where nothing slipped, one attempt of one channel got through, and was answered.
OneGotThrough(s) ==
  s \notin slipped =>
    /\ \/ \E n \in Nat : taken[s]["main"] \subseteq {n} /\ taken[s]["spare"] = {}
       \/ \E n \in Nat : taken[s]["spare"] \subseteq {n} /\ taken[s]["main"] = {}
    /\ call[s].op \notin {"record", "spareRecord", "returned", "thrown"} =>
         taken[s]["main"] = {} /\ taken[s]["spare"] = {}

\* What a recipient has said is not taken back: a call that began against it is
\* stopped by the check that is for it.
SilenceHolds(s) ==
  call[s].silent =>
    /\ SaidNo(call[s].input)
    /\ call[s].op \in Early \cup {"returned", "thrown"}
    /\ call[s].op \in Early \ {"sensitive"} =>
         ~seller.service \/ (call[s].input.marketing /\ ~seller.marketing)
    /\ call[s].op # "create"
    /\ taken[s]["main"] = {} /\ taken[s]["spare"] = {}

SendHolds(s) ==
  /\ AttemptsFit(s) /\ RowsInOrder(s) /\ FailureIsOnRecord(s) /\ OneGotThrough(s) /\ SilenceHolds(s)

SendInv == SendType /\ RowsAreTrue /\ \A s \in Sends : SendHolds(s)

-----------------------------------------------------------------------------
(* What the helpers do to the state of a call and to its rows.             *)

LEMMA CallBecomes ==
  ASSUME SendType, NEW s \in Sends, NEW c \in SendCalls, call' = [call EXCEPT ![s] = c]
  PROVE  call' \in [Sends -> SendCalls] /\ call'[s] = c /\ \A q \in Sends \ {s} : call'[q] = call[q]
BY DEF SendType

LEMMA Went ==
  ASSUME SendType, NEW s \in Sends, NEW op \in SendOps, Then(s, op)
  PROVE  /\ call' \in [Sends -> SendCalls] /\ call'[s].op = op
         /\ call'[s].input = call[s].input /\ call'[s].channel = call[s].channel
         /\ call'[s].attempts = call[s].attempts /\ call'[s].silent = call[s].silent
         /\ \A q \in Sends \ {s} : call'[q] = call[q]
<1>1. PICK c \in SendCalls : c = [call[s] EXCEPT !.op = op]
  BY ZenonT(40) DEF SendType, SendCalls
<1>2. /\ c.op = op /\ c.input = call[s].input /\ c.channel = call[s].channel
      /\ c.attempts = call[s].attempts /\ c.silent = call[s].silent
  BY <1>1 DEF SendType, SendCalls
<1>3. call' = [call EXCEPT ![s] = c]
  BY <1>1 DEF Then
<1> QED
  BY <1>2, <1>3 DEF SendType

\* The attempts are counted, or counted anew.
Counts(s, op, n) == call' = [call EXCEPT ![s].op = op, ![s].attempts = n]

LEMMA Tried ==
  ASSUME SendType, NEW s \in Sends, NEW op \in SendOps, NEW n \in Nat, Counts(s, op, n)
  PROVE  /\ call' \in [Sends -> SendCalls] /\ call'[s].op = op
         /\ call'[s].input = call[s].input /\ call'[s].channel = call[s].channel
         /\ call'[s].attempts = n /\ call'[s].silent = call[s].silent
         /\ \A q \in Sends \ {s} : call'[q] = call[q]
<1>1. PICK c \in SendCalls : c = [call[s] EXCEPT !.op = op, !.attempts = n]
  BY ZenonT(40) DEF SendType, SendCalls
<1>2. /\ c.op = op /\ c.input = call[s].input /\ c.channel = call[s].channel
      /\ c.attempts = n /\ c.silent = call[s].silent
  BY <1>1 DEF SendType, SendCalls
<1>3. call' = [call EXCEPT ![s] = c]
  BY <1>1 DEF SendType, Counts
<1>4. call' \in [Sends -> SendCalls] /\ call'[s] = c /\ \A q \in Sends \ {s} : call'[q] = call[q]
  BY <1>3, CallBecomes
<1> QED
  BY <1>2, <1>4, Zenon

LEMMA Wrote ==
  ASSUME SendType, NEW s \in Sends, NEW r \in Rows, NEW st \in Status, Write(s, r, st)
  PROVE  /\ row' \in [Sends -> [Rows -> Status]] /\ row'[s][r] = st
         /\ \A x \in Rows \ {r} : row'[s][x] = row[s][x]
         /\ \A q \in Sends \ {s} : row'[q] = row[q]
BY DEF SendType, Write

\* A provider takes attempt n of the message of row r.
Takes(s, r, n) == taken' = [taken EXCEPT ![s][r] = @ \cup {n}]

LEMMA Took ==
  ASSUME SendType, NEW s \in Sends, NEW r \in {"main", "spare"}, NEW n \in 1..MaxRetries,
         Takes(s, r, n)
  PROVE  /\ taken' \in [Sends -> [{"main", "spare"} -> SUBSET (1..MaxRetries)]]
         /\ taken'[s][r] = taken[s][r] \cup {n}
         /\ \A x \in {"main", "spare"} \ {r} : taken'[s][x] = taken[s][x]
         /\ \A q \in Sends \ {s} : taken'[q] = taken[q]
BY DEF SendType, Takes

\* Of the call itself only: the rest of SendInv is about others, to whom nothing
\* happens.
LEMMA SendMoves ==
  ASSUME SendInv, NEW s \in Sends, SendType', seller' = seller,
         slipped' \in {slipped, slipped \cup {s}},
         \A q \in Sends \ {s} : /\ call'[q] = call[q] /\ row'[q] = row[q]
                                /\ stored'[q] = stored[q] /\ taken'[q] = taken[q]
                                /\ phone'[q] = phone[q],
         RowIsTrue(s)', SendHolds(s)'
  PROVE  SendInv'
<1>1. ASSUME NEW q \in Sends \ {s} PROVE RowIsTrue(q)' /\ SendHolds(q)'
  <2>1. /\ call'[q] = call[q] /\ row'[q] = row[q] /\ stored'[q] = stored[q]
        /\ taken'[q] = taken[q] /\ phone'[q] = phone[q] /\ (q \in slipped' <=> q \in slipped)
    OBVIOUS
  <2>2. RowIsTrue(q) /\ SendHolds(q)
    BY DEF SendInv, RowsAreTrue
  <2>3. RowIsTrue(q)'
    BY <2>1, <2>2 DEF RowIsTrue
  <2>4. SendHolds(q)'
    BY <2>1, <2>2 DEF SendHolds, AttemptsFit, RowsInOrder, FailureIsOnRecord, OneGotThrough,
       SilenceHolds, SaidNo
  <2> QED
    BY <2>3, <2>4
<1> QED
  BY <1>1 DEF SendInv, RowsAreTrue

LEMMA IdleCall == Idle \in SendCalls /\ Idle.op = "idle" /\ Idle.attempts = 0 /\ ~Idle.silent
BY DEF Idle, SendCalls, SendOps, Early, Inputs

LEMMA SendInit == NotificationInit => SendInv
<1> SUFFICES ASSUME NotificationInit PROVE SendInv
  OBVIOUS
<1>2. SendType
  <2>1. seller \in [phone : BOOLEAN, email : BOOLEAN, emailOnly : BOOLEAN, service : BOOLEAN,
                    marketing : BOOLEAN, sensitive : BOOLEAN]
    BY DEF NotificationInit
  <2>2. row \in [Sends -> [Rows -> Status]]
    BY DEF NotificationInit, Status
  <2> QED
    BY IdleCall, <2>1, <2>2 DEF NotificationInit, SendType
<1>3. ASSUME NEW s \in Sends PROVE RowIsTrue(s) /\ SendHolds(s)
  <2>1. /\ call[s].op = "idle" /\ call[s].attempts = 0 /\ ~call[s].silent
        /\ row[s] = [r \in Rows |-> "none"] /\ taken[s]["main"] = {} /\ taken[s]["spare"] = {}
        /\ phone[s] = "nothing"
    BY IdleCall DEF NotificationInit
  <2>2. /\ row[s]["main"] = "none" /\ row[s]["spare"] = "none"
        /\ row[s] \in [Rows -> Status]
    BY <2>1 DEF Rows, Status
  <2>3. RowIsTrue(s)
    BY <2>1, <2>2 DEF RowIsTrue
  <2>4. AttemptsFit(s) /\ RowsInOrder(s) /\ FailureIsOnRecord(s) /\ OneGotThrough(s) /\ SilenceHolds(s)
    BY <2>1, <2>2 DEF AttemptsFit, RowsInOrder, FailureIsOnRecord, OneGotThrough, SilenceHolds,
       OnMain, OnSpare
  <2> QED
    BY <2>3, <2>4 DEF SendHolds
<1> QED
  BY <1>2, <1>3 DEF SendInv, RowsAreTrue
-----------------------------------------------------------------------------
(* The steps of send.                                                      *)

LEMMA Providers ==
  /\ DOMAIN Sending = {"send", "spareSend"} /\ Sending["send"] = "main" /\ Sending["spareSend"] = "spare"
  /\ Answered["send"] = "record" /\ Answered["spareSend"] = "spareRecord"
  /\ GaveUp["send"] = "failed" /\ GaveUp["spareSend"] = "alert"
<1>0. DOMAIN Sending = {"send", "spareSend"}
  BY DEF Sending
<1>1. Sending["send"] = "main" /\ Sending["spareSend"] = "spare"
  BY DEF Sending
<1>2. Answered["send"] = "record" /\ Answered["spareSend"] = "spareRecord"
  BY DEF Answered
<1>3. GaveUp["send"] = "failed" /\ GaveUp["spareSend"] = "alert"
  BY DEF GaveUp
<1> QED
  BY <1>0, <1>1, <1>2, <1>3

\* The checks, which move the call on and write nothing.
LEMMA CheckStep ==
  ASSUME SendInv, NEW s \in Sends,
         \/ IsSensitiveCaseSeller(s) \/ CheckMarketingConsent(s) \/ ResolveChannel(s)
         \/ CheckDnc(s) \/ NotConfigured(s) \/ Die(s)
  PROVE  SendInv'
<1>1. UNCHANGED <<seller, row, stored, taken, phone, slipped>>
  BY DEF IsSensitiveCaseSeller, CheckMarketingConsent, ResolveChannel, CheckDnc, NotConfigured, Die
<1>2. SendType /\ RowIsTrue(s) /\ SendHolds(s)
  BY DEF SendInv, RowsAreTrue
<1>3. /\ call' \in [Sends -> SendCalls]
      /\ call'[s].input = call[s].input /\ call'[s].attempts = call[s].attempts
      /\ call'[s].silent = call[s].silent
      /\ \A q \in Sends \ {s} : call'[q] = call[q]
  <2>1. ASSUME NEW op \in SendOps, Then(s, op) PROVE <1>3
    BY <1>2, <2>1, Went
  <2>2. CASE ResolveChannel(s)
    <3>1. PICK ch \in {"email", Phone} :
            call' = [call EXCEPT ![s] = [@ EXCEPT !.op = "dnc", !.channel = ch]]
      BY <2>2 DEF ResolveChannel
    <3>2. PICK c \in SendCalls : c = [call[s] EXCEPT !.op = "dnc", !.channel = ch]
      <4>1. call[s] \in SendCalls
        BY <1>2 DEF SendType
      <4>2. "dnc" \in SendOps
        BY DEF SendOps, Early
      <4>3. [call[s] EXCEPT !.op = "dnc", !.channel = ch] \in SendCalls
        BY <4>1, <4>2 DEF SendCalls
      <4> QED
        BY <4>3
    <3>3. c.input = call[s].input /\ c.attempts = call[s].attempts /\ c.silent = call[s].silent
      BY <1>2, <3>2 DEF SendType, SendCalls
    <3>4. call' = [call EXCEPT ![s] = c]
      BY <3>1, <3>2
    <3> QED
      BY <1>2, <3>3, <3>4, CallBecomes
  <2>3. {"returned", "inApp", "channel", "create", "blocked", "failed", "alert", "thrown"} \subseteq SendOps
    BY DEF SendOps, Early, OnMain, OnSpare
  <2>4. CASE IsSensitiveCaseSeller(s)
    BY <2>1, <2>3, <2>4 DEF IsSensitiveCaseSeller
  <2>5. CASE CheckMarketingConsent(s)
    BY <2>1, <2>3, <2>5 DEF CheckMarketingConsent
  <2>6. CASE CheckDnc(s)
    BY <2>1, <2>3, <2>6 DEF CheckDnc
  <2>7. CASE NotConfigured(s)
    <3>0. call[s].op \in {"send", "spareSend"} /\ Then(s, GaveUp[call[s].op])
      BY <2>7, Providers, Zenon DEF NotConfigured
    <3>1. Then(s, "failed") \/ Then(s, "alert")
      BY <3>0, Providers
    <3> QED
      BY <2>1, <2>3, <3>1
  <2>8. CASE Die(s)
    BY <2>1, <2>3, <2>8 DEF Die
  <2> QED
    BY <2>2, <2>4, <2>5, <2>6, <2>7, <2>8
<1>4. \/ call[s].op = "sensitive" /\ call'[s].op \in {"returned", "inApp"}
         /\ (Mute(call[s].input) => call'[s].op = "returned")
      \/ call[s].op = "consent" /\ call'[s].op \in {"returned", "channel"}
      \/ call[s].op = "channel" /\ call'[s].op = "dnc"
      \/ call[s].op = "dnc" /\ call'[s].op \in {"create", "blocked"}
         /\ (~DncAllowed(call[s].input) => call'[s].op = "blocked")
      \/ call[s].op = "send" /\ call'[s].op = "failed"
      \/ call[s].op = "spareSend" /\ call'[s].op = "alert"
      \/ call[s].op \notin Ended /\ call'[s].op = "thrown"
  <2>1. CASE ResolveChannel(s)
    BY <1>2, <2>1 DEF ResolveChannel, SendType, SendCalls
  <2>2. CASE NotConfigured(s)
    <3>1. \/ call[s].op = "send" /\ Then(s, "failed")
          \/ call[s].op = "spareSend" /\ Then(s, "alert")
      <4>1. call[s].op \in {"send", "spareSend"} /\ Then(s, GaveUp[call[s].op])
        BY <2>2, Providers, Zenon DEF NotConfigured
      <4> QED
        BY <4>1, Providers
    <3> QED
      BY <1>2, <3>1 DEF Then, SendType, SendCalls
  <2>3. CASE \/ IsSensitiveCaseSeller(s) \/ CheckMarketingConsent(s) \/ CheckDnc(s) \/ Die(s)
    BY <1>2, <2>3 DEF IsSensitiveCaseSeller, CheckMarketingConsent, CheckDnc, Die, Then,
       SendType, SendCalls
  <2> QED
    BY <2>1, <2>2, <2>3
<1>5. RowIsTrue(s)'
  BY <1>1, <1>2, <1>3, <1>4 DEF RowIsTrue, SendHolds, RowsInOrder, OneGotThrough, Early
<1>6. AttemptsFit(s)' /\ RowsInOrder(s)' /\ FailureIsOnRecord(s)' /\ OneGotThrough(s)'
  <2>1. AttemptsFit(s)'
    BY <1>1, <1>2, <1>3, <1>4 DEF SendHolds, AttemptsFit, Early, OnSpare
  <2>2. RowsInOrder(s)'
    BY <1>1, <1>2, <1>4 DEF SendHolds, RowsInOrder, Early, OnMain, OnSpare, Ended
  <2>3. FailureIsOnRecord(s)'
    BY <1>1, <1>2, <1>4 DEF SendHolds, FailureIsOnRecord, RowsInOrder, Early, OnSpare
  <2>4. OneGotThrough(s)'
    BY <1>1, <1>2, <1>4 DEF SendHolds, OneGotThrough
  <2> QED
    BY <2>1, <2>2, <2>3, <2>4
<1>7. SilenceHolds(s)'
  <2>1. SUFFICES ASSUME call[s].silent PROVE SilenceHolds(s)'
    BY <1>3 DEF SilenceHolds
  <2>2. /\ SaidNo(call[s].input) /\ call[s].op \in Early \cup {"returned", "thrown"}
        /\ taken[s]["main"] = {} /\ taken[s]["spare"] = {}
        /\ call[s].op \in Early \ {"sensitive"} =>
             ~seller.service \/ (call[s].input.marketing /\ ~seller.marketing)
    BY <1>2, <2>1 DEF SendHolds, SilenceHolds
  <2>3. SaidNo(call[s].input)'
    BY <1>1, <1>3, <2>2 DEF SaidNo
  <2>4. call'[s].op # "create"
    BY <1>4, <2>2 DEF DncAllowed, SaidNo, Early
  <2>5. call[s].op = "sensitive" /\ call'[s].op # "thrown" =>
          \/ call'[s].op = "returned"
          \/ ~seller.service \/ (call[s].input.marketing /\ ~seller.marketing)
    BY <1>4, <2>2 DEF Mute, SaidNo
  <2>6. call'[s].op \in Early \cup {"returned", "thrown"}
    BY <1>4, <2>2 DEF Early
  <2>7. call'[s].op \in Early \ {"sensitive"} =>
             ~seller.service \/ (call[s].input.marketing /\ ~seller.marketing)
    BY <1>4, <2>2, <2>5 DEF Early
  <2> QED
    BY <1>1, <1>3, <2>2, <2>3, <2>4, <2>6, <2>7 DEF SilenceHolds, SaidNo
<1> QED
  BY <1>1, <1>2, <1>3, <1>5, <1>6, <1>7, SendMoves DEF SendHolds, SendType

\* Which row each of the writes makes, with what it says, and where the call goes on.
Writes(s, r, st, op) ==
  \/ call[s].op = "inApp" /\ r = "in_app" /\ st = "pending" /\ op = "inAppSent"
  \/ call[s].op = "inAppSent" /\ r = "in_app" /\ st = "sent" /\ op = "consent"
  \/ call[s].op = "blocked" /\ r = "main" /\ st = "pending" /\ op = "returned"
  \/ call[s].op = "create" /\ r = "main" /\ st = "pending" /\ op \in {"send", "noAddress"}
  \/ call[s].op = "noAddress" /\ r = "main" /\ st = "failed" /\ op = "returned"
  \/ call[s].op = "failed" /\ r = "main" /\ st = "failed" /\ op \in {"spare", "returned"}
  \/ call[s].op = "spare" /\ r = "spare" /\ st = "pending" /\ op \in {"spareSend", "spareNoAddress"}
  \/ call[s].op = "spareNoAddress" /\ r = "spare" /\ st = "failed" /\ op = "returned"
  \/ call[s].op = "spareRecord" /\ r = "spare" /\ st = "sent" /\ op = "returned"
  \/ call[s].op = "alert" /\ r = "alert" /\ st = "pending" /\ op = "returned"

LEMMA WriteStep ==
  ASSUME SendInv, NEW s \in Sends, NEW r \in Rows, NEW st \in Status, NEW op \in SendOps,
         Writes(s, r, st, op), Write(s, r, st),
         IF call[s].op = "failed" THEN Counts(s, op, 0)
         ELSE Then(s, op),
         UNCHANGED <<seller, stored, taken, phone, slipped>>
  PROVE  SendInv'
<1>1. SendType /\ RowIsTrue(s) /\ SendHolds(s)
  BY DEF SendInv, RowsAreTrue
<1>2. /\ call' \in [Sends -> SendCalls] /\ call'[s].op = op
      /\ call'[s].input = call[s].input /\ call'[s].silent = call[s].silent
      /\ call'[s].attempts = IF call[s].op = "failed" THEN 0 ELSE call[s].attempts
      /\ \A q \in Sends \ {s} : call'[q] = call[q]
  <2>1. CASE call[s].op = "failed"
    BY <1>1, <2>1, Tried
  <2>2. CASE call[s].op # "failed"
    BY <1>1, <2>2, Went
  <2> QED
    BY <2>1, <2>2
<1>3. /\ row' \in [Sends -> [Rows -> Status]] /\ row'[s][r] = st
      /\ \A x \in Rows \ {r} : row'[s][x] = row[s][x]
      /\ \A q \in Sends \ {s} : row'[q] = row[q]
  BY <1>1, Wrote
<1>4. /\ r # "main" => row'[s]["main"] = row[s]["main"]
      /\ r # "spare" => row'[s]["spare"] = row[s]["spare"]
      /\ r # "in_app" => row'[s]["in_app"] = row[s]["in_app"]
      /\ row'[s] \in [Rows -> Status]
  BY <1>3 DEF Rows
<1>5. RowIsTrue(s)'
  <2>1. /\ row'[s]["main"] = "delivered" => phone[s] \in {"arrived", "opened"}
        /\ row'[s]["main"] = "read" => phone[s] = "opened" \/ call[s].input.to = "seller"
        /\ row'[s]["main"] = "sent" => stored[s] \in taken[s]["main"]
    BY <1>1, <1>3, <1>4 DEF RowIsTrue, Writes
  <2>2. row'[s]["spare"] = "sent" => taken[s]["spare"] # {}
    BY <1>1, <1>3, <1>4 DEF RowIsTrue, Writes, SendHolds, AttemptsFit
  <2>3. op = "returned" /\ row'[s]["main"] = "pending" /\ taken[s]["main"] # {} => s \in slipped
    BY <1>1, <1>3, <1>4 DEF RowIsTrue, Writes, SendHolds, RowsInOrder, FailureIsOnRecord, Early, OnSpare
  <2> QED
    BY <1>1, <1>2, <1>4, <2>1, <2>2, <2>3 DEF RowIsTrue
<1>6. AttemptsFit(s)'
  BY <1>1, <1>2, NotificationAssumption DEF SendHolds, AttemptsFit, Writes, Early, OnSpare
<1>7. RowsInOrder(s)'
  BY <1>1, <1>2, <1>3, <1>4 DEF SendHolds, RowsInOrder, Writes, Early, OnMain, OnSpare
<1>8. FailureIsOnRecord(s)'
  BY <1>1, <1>2, <1>3, <1>4 DEF SendHolds, FailureIsOnRecord, RowsInOrder, Writes, Early, OnSpare
<1>9. OneGotThrough(s)'
  BY <1>1, <1>2 DEF SendHolds, OneGotThrough, Writes
<1>10. SilenceHolds(s)'
  BY <1>1, <1>2 DEF SendHolds, SilenceHolds, SaidNo, Writes, Early
<1> QED
  BY <1>1, <1>2, <1>3, <1>5, <1>6, <1>7, <1>8, <1>9, <1>10, SendMoves DEF SendHolds, SendType

LEMMA WritingStep ==
  ASSUME SendInv, NEW s \in Sends,
         \/ CreateInApp(s) \/ MarkInAppSent(s) \/ CreateBlocked(s) \/ CreateMain(s)
         \/ RecordNoAddress(s) \/ RecordFailed(s) \/ CreateSpare(s)
         \/ RecordSpareNoAddress(s) \/ RecordSpareSent(s) \/ CreateAlert(s)
  PROVE  SendInv'
<1>1. /\ Rows = {"in_app", "main", "spare", "alert"} /\ {"pending", "sent", "failed"} \subseteq Status
      /\ {"inAppSent", "consent", "returned", "send", "noAddress", "spare", "spareSend",
          "spareNoAddress"} \subseteq SendOps
  BY DEF Rows, Status, SendOps, Early, OnMain, OnSpare
<1>2. UNCHANGED <<seller, stored, taken, phone, slipped>>
  BY DEF CreateInApp, MarkInAppSent, CreateBlocked, CreateMain, RecordNoAddress, RecordFailed,
     CreateSpare, RecordSpareNoAddress, RecordSpareSent, CreateAlert
<1>3. PICK r \in Rows, st \in Status, op \in SendOps :
        /\ Writes(s, r, st, op) /\ Write(s, r, st)
        /\ IF call[s].op = "failed" THEN Counts(s, op, 0)
           ELSE Then(s, op)
  <2>1. CASE CreateInApp(s)
    BY <1>1, <2>1 DEF CreateInApp, Writes
  <2>2. CASE MarkInAppSent(s)
    BY <1>1, <2>2 DEF MarkInAppSent, Writes
  <2>3. CASE CreateBlocked(s)
    BY <1>1, <2>3 DEF CreateBlocked, Writes
  <2>4. CASE CreateMain(s)
    <3>1. /\ call[s].op = "create" /\ Write(s, "main", "pending")
          /\ Then(s, "send") \/ Then(s, "noAddress")
      BY <2>4 DEF CreateMain
    <3> QED
      BY <1>1, <3>1 DEF Writes
  <2>5. CASE RecordNoAddress(s)
    BY <1>1, <2>5 DEF RecordNoAddress, Writes
  <2>6. CASE RecordFailed(s)
    <3>1. PICK op \in {"spare", "returned"} :
            /\ call[s].op = "failed" /\ Write(s, "main", "failed")
            /\ Counts(s, op, 0)
      BY <2>6 DEF RecordFailed, AfterFailure, Counts
    <3> QED
      BY <1>1, <3>1 DEF Writes
  <2>7. CASE CreateSpare(s)
    <3>1. /\ call[s].op = "spare" /\ Write(s, "spare", "pending")
          /\ Then(s, "spareSend") \/ Then(s, "spareNoAddress")
      BY <2>7 DEF CreateSpare
    <3> QED
      BY <1>1, <3>1 DEF Writes
  <2>8. CASE RecordSpareNoAddress(s)
    BY <1>1, <2>8 DEF RecordSpareNoAddress, Writes
  <2>9. CASE RecordSpareSent(s)
    BY <1>1, <2>9 DEF RecordSpareSent, Writes
  <2>10. CASE CreateAlert(s)
    BY <1>1, <2>10 DEF CreateAlert, Writes
  <2> QED
    BY <2>1, <2>2, <2>3, <2>4, <2>5, <2>6, <2>7, <2>8, <2>9, <2>10
<1> QED
  BY <1>2, <1>3, WriteStep

LEMMA AcceptStep ==
  ASSUME SendInv, NEW s \in Sends, Accept(s)
  PROVE  SendInv'
<1>1. SendType /\ RowIsTrue(s) /\ SendHolds(s)
  BY DEF SendInv, RowsAreTrue
<1>2. UNCHANGED <<seller, row, stored, phone, slipped>>
  BY DEF Accept
<1>3. PICK n \in 1..MaxRetries, r \in {"main", "spare"}, op \in SendOps :
        /\ \/ call[s].op = "send" /\ r = "main" /\ op = "record"
           \/ call[s].op = "spareSend" /\ r = "spare" /\ op = "spareRecord"
        /\ Takes(s, r, n)
        /\ Counts(s, op, n)
  <2> DEFINE n == call[s].attempts + 1
  <2>1. call[s].op \in {"send", "spareSend"}
    BY Providers DEF Accept
  <2>2. n \in 1..MaxRetries
    BY <1>1, <2>1, NotificationAssumption DEF SendHolds, AttemptsFit
  <2>3. /\ Takes(s, Sending[call[s].op], n)
        /\ Counts(s, Answered[call[s].op], n)
    BY DEF Accept, Counts, Takes
  <2>4. {"record", "spareRecord"} \subseteq SendOps
    BY DEF SendOps, OnMain, OnSpare
  <2> HIDE DEF n
  <2>5. CASE call[s].op = "send"
    <3>1. /\ Takes(s, "main", n)
          /\ Counts(s, "record", n)
      BY <2>3, <2>5, Providers
    <3> QED
      BY <2>2, <2>4, <2>5, <3>1
  <2>6. CASE call[s].op = "spareSend"
    <3>1. /\ Takes(s, "spare", n)
          /\ Counts(s, "spareRecord", n)
      BY <2>3, <2>6, Providers
    <3> QED
      BY <2>2, <2>4, <2>6, <3>1
  <2> QED
    BY <2>1, <2>5, <2>6
<1>4. n \in Nat
  BY NotificationAssumption
<1>5. /\ call' \in [Sends -> SendCalls] /\ call'[s].op = op
      /\ call'[s].input = call[s].input /\ call'[s].silent = call[s].silent
      /\ call'[s].attempts = n
      /\ \A q \in Sends \ {s} : call'[q] = call[q]
  BY <1>1, <1>3, <1>4, Tried
<1>6. /\ taken' \in [Sends -> [{"main", "spare"} -> SUBSET (1..MaxRetries)]]
      /\ taken'[s][r] = taken[s][r] \cup {n}
      /\ \A x \in {"main", "spare"} \ {r} : taken'[s][x] = taken[s][x]
      /\ \A q \in Sends \ {s} : taken'[q] = taken[q]
  BY <1>1, <1>3, Took
<1>7. /\ taken'[s]["main"] = IF r = "main" THEN taken[s]["main"] \cup {n} ELSE taken[s]["main"]
      /\ taken'[s]["spare"] = IF r = "spare" THEN taken[s]["spare"] \cup {n} ELSE taken[s]["spare"]
      /\ taken'[s]["main"] \subseteq 1..MaxRetries /\ taken'[s]["spare"] \subseteq 1..MaxRetries
  BY <1>6
<1>8. RowIsTrue(s)'
  BY <1>1, <1>2, <1>3, <1>5, <1>7 DEF RowIsTrue
<1>9. AttemptsFit(s)' /\ RowsInOrder(s)' /\ FailureIsOnRecord(s)'
  <2>1. AttemptsFit(s)'
    BY <1>3, <1>5, <1>7 DEF AttemptsFit, Early, OnSpare
  <2>2. RowsInOrder(s)'
    BY <1>1, <1>2, <1>3, <1>5, <1>7 DEF SendHolds, RowsInOrder, Early, OnMain, OnSpare
  <2>3. FailureIsOnRecord(s)'
    BY <1>1, <1>2, <1>3, <1>5, <1>7 DEF SendHolds, FailureIsOnRecord, OnSpare
  <2> QED
    BY <2>1, <2>2, <2>3
<1>10. OneGotThrough(s)'
  BY <1>1, <1>2, <1>3, <1>4, <1>5, <1>7 DEF SendHolds, OneGotThrough
<1>11. SilenceHolds(s)'
  BY <1>1, <1>3, <1>5 DEF SendHolds, SilenceHolds, Early
<1> QED
  BY <1>1, <1>2, <1>5, <1>6, <1>8, <1>9, <1>10, <1>11, SendMoves DEF SendHolds, SendType

\* An attempt that fails, whether or not the provider has the message.
LEMMA RefuseStep ==
  ASSUME SendInv, NEW s \in Sends, NEW lost \in BOOLEAN, Refuse(s, lost)
  PROVE  SendInv'
<1>1. SendType /\ RowIsTrue(s) /\ SendHolds(s)
  BY DEF SendInv, RowsAreTrue
<1>2. UNCHANGED <<seller, row, stored, phone>> /\ slipped' \in {slipped, slipped \cup {s}}
  BY DEF Refuse
<1>3. call[s].op \in {"send", "spareSend"} /\ call[s].attempts \in 0..(MaxRetries - 1)
  BY <1>1, Providers DEF Refuse, SendHolds, AttemptsFit
<1>4. PICK r \in {"main", "spare"} : r = Sending[call[s].op] /\ (r = "main" <=> call[s].op = "send")
  BY <1>3, Providers
<1>5. /\ taken' \in [Sends -> [{"main", "spare"} -> SUBSET (1..MaxRetries)]]
      /\ taken[s]["main"] \subseteq taken'[s]["main"] /\ taken[s]["spare"] \subseteq taken'[s]["spare"]
      /\ call[s].op = "spareSend" => taken'[s]["main"] = taken[s]["main"]
      /\ s \notin slipped' => taken'[s] = taken[s] /\ s \notin slipped
      /\ \A q \in Sends \ {s} : taken'[q] = taken[q]
  <2>1. CASE lost
    <3>1. Takes(s, r, call[s].attempts + 1) /\ slipped' = slipped \cup {s}
      BY <1>4, <2>1 DEF Refuse, Takes
    <3>2. call[s].attempts + 1 \in 1..MaxRetries
      BY <1>3, NotificationAssumption
    <3>3. /\ taken' \in [Sends -> [{"main", "spare"} -> SUBSET (1..MaxRetries)]]
          /\ taken'[s][r] = taken[s][r] \cup {call[s].attempts + 1}
          /\ \A x \in {"main", "spare"} \ {r} : taken'[s][x] = taken[s][x]
          /\ \A q \in Sends \ {s} : taken'[q] = taken[q]
      BY <1>1, <3>1, <3>2, Took
    <3> QED
      BY <1>4, <3>1, <3>3
  <2>2. CASE ~lost
    <3>1. taken' = taken /\ slipped' = slipped
      BY <2>2 DEF Refuse
    <3> QED
      BY <1>1, <3>1 DEF SendType
  <2> QED
    BY <2>1, <2>2
<1>6. PICK op \in SendOps, n \in Nat :
        /\ Counts(s, op, n)
        /\ \/ op = call[s].op /\ n \in 0..(MaxRetries - 1)
           \/ call[s].op = "send" /\ op = "failed" /\ n = 0
           \/ call[s].op = "spareSend" /\ op = "alert" /\ n = 0
  <2>1. CASE call[s].attempts + 1 < MaxRetries
    <3>1. call' = [call EXCEPT ![s].attempts = call[s].attempts + 1]
      BY <2>1 DEF Refuse
    <3>2. [call[s] EXCEPT !.attempts = call[s].attempts + 1]
            = [call[s] EXCEPT !.op = call[s].op, !.attempts = call[s].attempts + 1]
      BY <1>1 DEF SendType, SendCalls
    <3>3. Counts(s, call[s].op, call[s].attempts + 1)
      BY <1>1, <3>1, <3>2 DEF SendType, Counts
    <3>4. call[s].op \in SendOps /\ call[s].attempts + 1 \in Nat
          /\ call[s].attempts + 1 \in 0..(MaxRetries - 1)
      BY <1>1, <1>3, <2>1, NotificationAssumption DEF SendType, SendCalls
    <3> QED
      BY <3>3, <3>4
  <2>2. CASE ~(call[s].attempts + 1 < MaxRetries)
    <3>1. call' = [call EXCEPT ![s].attempts = 0, ![s].op = GaveUp[call[s].op]]
      BY <2>2 DEF Refuse
    <3>2. {"failed", "alert"} \subseteq SendOps
      BY DEF SendOps, OnMain, OnSpare
    <3>3. Counts(s, GaveUp[call[s].op], 0)
      BY <1>1, <3>1 DEF SendType, SendCalls, Counts
    <3>4. CASE call[s].op = "send"
      <4>1. Counts(s, "failed", 0)
        BY <3>3, <3>4, Providers
      <4> QED
        BY <3>2, <3>4, <4>1
    <3>5. CASE call[s].op = "spareSend"
      <4>1. Counts(s, "alert", 0)
        BY <3>3, <3>5, Providers
      <4> QED
        BY <3>2, <3>5, <4>1
    <3> QED
      BY <1>3, <3>4, <3>5
  <2> QED
    BY <2>1, <2>2
<1>7. /\ call' \in [Sends -> SendCalls] /\ call'[s].op = op
      /\ call'[s].input = call[s].input /\ call'[s].silent = call[s].silent
      /\ call'[s].attempts = n
      /\ \A q \in Sends \ {s} : call'[q] = call[q]
  BY <1>1, <1>6, Tried
<1>8. RowIsTrue(s)'
  <2>1. taken'[s]["main"] \subseteq 1..MaxRetries /\ taken'[s]["spare"] \subseteq 1..MaxRetries
    BY <1>5
  <2>2. op # "returned"
    BY <1>3, <1>6
  <2> QED
    BY <1>1, <1>2, <1>5, <1>7, <2>1, <2>2 DEF RowIsTrue
<1>9. AttemptsFit(s)' /\ RowsInOrder(s)' /\ FailureIsOnRecord(s)'
  <2>1. AttemptsFit(s)'
    BY <1>3, <1>6, <1>7 DEF AttemptsFit, Early, OnSpare
  <2>2. RowsInOrder(s)'
    BY <1>1, <1>2, <1>3, <1>5, <1>6, <1>7 DEF SendHolds, RowsInOrder, Early, OnMain, OnSpare
  <2>3. FailureIsOnRecord(s)'
    BY <1>1, <1>2, <1>3, <1>5, <1>6, <1>7 DEF SendHolds, FailureIsOnRecord, OnSpare
  <2> QED
    BY <2>1, <2>2, <2>3
<1>10. OneGotThrough(s)'
  BY <1>1, <1>3, <1>5, <1>6, <1>7 DEF SendHolds, OneGotThrough
<1>11. SilenceHolds(s)'
  BY <1>1, <1>3, <1>7 DEF SendHolds, SilenceHolds, Early
<1> QED
  BY <1>1, <1>2, <1>5, <1>7, <1>8, <1>9, <1>10, <1>11, SendMoves DEF SendHolds, SendType

LEMMA RecordSentStep ==
  ASSUME SendInv, NEW s \in Sends, RecordSent(s)
  PROVE  SendInv'
<1>1. SendType /\ RowIsTrue(s) /\ SendHolds(s)
  BY DEF SendInv, RowsAreTrue
<1>2. /\ call[s].op = "record" /\ Write(s, "main", "sent") /\ Then(s, "returned")
      /\ stored' = [stored EXCEPT ![s] = call[s].attempts]
      /\ UNCHANGED <<seller, taken, phone, slipped>>
  BY DEF RecordSent
<1>3. call[s].attempts \in taken[s]["main"] /\ call[s].attempts \in Nat
  BY <1>1, <1>2 DEF SendHolds, AttemptsFit, SendType, SendCalls
<1>4. /\ stored' \in [Sends -> Nat] /\ stored'[s] = call[s].attempts
      /\ \A q \in Sends \ {s} : stored'[q] = stored[q]
  BY <1>1, <1>2, <1>3 DEF SendType
<1>5. "returned" \in SendOps /\ "main" \in Rows /\ "sent" \in Status
  BY DEF SendOps, Rows, Status
<1>6. /\ call' \in [Sends -> SendCalls] /\ call'[s].op = "returned"
      /\ call'[s].input = call[s].input /\ call'[s].silent = call[s].silent
      /\ \A q \in Sends \ {s} : call'[q] = call[q]
  BY <1>1, <1>2, <1>5, Went
<1>7. /\ row' \in [Sends -> [Rows -> Status]] /\ row'[s]["main"] = "sent"
      /\ \A x \in Rows \ {"main"} : row'[s][x] = row[s][x]
      /\ \A q \in Sends \ {s} : row'[q] = row[q]
  BY <1>1, <1>2, <1>5, Wrote
<1>8. /\ row'[s]["spare"] = row[s]["spare"] /\ row'[s]["in_app"] = row[s]["in_app"]
      /\ row'[s] \in [Rows -> Status]
  BY <1>7 DEF Rows
<1>9. RowIsTrue(s)'
  BY <1>1, <1>2, <1>3, <1>4, <1>7, <1>8 DEF RowIsTrue
<1>10. AttemptsFit(s)' /\ FailureIsOnRecord(s)'
  BY <1>6, <1>7 DEF AttemptsFit, FailureIsOnRecord, Early, OnSpare
<1>11. RowsInOrder(s)'
  BY <1>1, <1>2, <1>6, <1>7, <1>8 DEF SendHolds, RowsInOrder, Early, OnMain
<1>12. OneGotThrough(s)'
  BY <1>1, <1>2, <1>6 DEF SendHolds, OneGotThrough
<1>13. SilenceHolds(s)'
  BY <1>1, <1>2, <1>6 DEF SendHolds, SilenceHolds, Early
<1> QED
  BY <1>1, <1>2, <1>4, <1>6, <1>7, <1>9, <1>10, <1>11, <1>12, <1>13, SendMoves DEF SendHolds, SendType

LEMMA DatabaseFailsStep ==
  ASSUME SendInv, NEW s \in Sends, DatabaseFails(s)
  PROVE  SendInv'
<1>1. SendType /\ RowIsTrue(s) /\ SendHolds(s)
  BY DEF SendInv, RowsAreTrue
<1>2. slipped' = slipped \cup {s} /\ UNCHANGED <<seller, row, stored, taken, phone>>
  BY DEF DatabaseFails
<1>3. \/ call[s].op \in {"record", "noAddress"} /\ Then(s, "failed")
      \/ call[s].op \in {"spare", "spareNoAddress", "spareRecord"} /\ Then(s, "alert")
      \/ call[s].op = "failed" /\ (Counts(s, "spare", 0) \/ Counts(s, "returned", 0))
  <2>1. /\ DOMAIN Caught = {"record", "noAddress", "spare", "spareNoAddress", "spareRecord"}
        /\ Caught["record"] = "failed" /\ Caught["noAddress"] = "failed"
        /\ Caught["spare"] = "alert" /\ Caught["spareNoAddress"] = "alert"
        /\ Caught["spareRecord"] = "alert"
    BY DEF Caught
  <2>2. CASE call[s].op \in DOMAIN Caught /\ Then(s, Caught[call[s].op])
    BY <2>1, <2>2
  <2>3. CASE call[s].op = "failed" /\ Counts(s, AfterFailure(s), 0)
    BY <2>3 DEF AfterFailure
  <2> QED
    BY <2>2, <2>3 DEF DatabaseFails, Counts
<1>4. {"failed", "alert", "spare", "returned"} \subseteq SendOps /\ 0 \in Nat
  BY DEF SendOps, OnMain, OnSpare
<1>5. PICK op \in SendOps :
        /\ \/ call[s].op \in {"record", "noAddress"} /\ op = "failed"
           \/ call[s].op \in {"spare", "spareNoAddress", "spareRecord"} /\ op = "alert"
           \/ call[s].op = "failed" /\ op \in {"spare", "returned"} /\ call'[s].attempts = 0
        /\ call' \in [Sends -> SendCalls] /\ call'[s].op = op
        /\ call'[s].input = call[s].input /\ call'[s].silent = call[s].silent
        /\ \A q \in Sends \ {s} : call'[q] = call[q]
  <2>1. CASE call[s].op \in {"record", "noAddress"} /\ Then(s, "failed")
    BY <1>1, <1>4, <2>1, Went
  <2>2. CASE call[s].op \in {"spare", "spareNoAddress", "spareRecord"} /\ Then(s, "alert")
    BY <1>1, <1>4, <2>2, Went
  <2>3. CASE call[s].op = "failed" /\ Counts(s, "spare", 0)
    BY <1>1, <1>4, <2>3, Tried
  <2>4. CASE call[s].op = "failed" /\ Counts(s, "returned", 0)
    BY <1>1, <1>4, <2>4, Tried
  <2> QED
    BY <1>3, <2>1, <2>2, <2>3, <2>4
<1>6. RowIsTrue(s)'
  BY <1>1, <1>2, <1>5 DEF RowIsTrue
<1>7. AttemptsFit(s)'
  BY <1>5 DEF AttemptsFit, Early, OnSpare
<1>8. RowsInOrder(s)'
  BY <1>1, <1>2, <1>5 DEF SendHolds, RowsInOrder, Early, OnMain, OnSpare
<1>9. FailureIsOnRecord(s)' /\ OneGotThrough(s)'
  BY <1>2 DEF FailureIsOnRecord, OneGotThrough
<1>10. SilenceHolds(s)'
  BY <1>1, <1>5 DEF SendHolds, SilenceHolds, Early
<1> QED
  BY <1>1, <1>2, <1>5, <1>6, <1>7, <1>8, <1>9, <1>10, SendMoves DEF SendHolds, SendType

LEMMA SendGoes ==
  ASSUME SendInv, NEW s \in Sends, Send(s)
  PROVE  SendInv'
<1>1. SendType /\ RowIsTrue(s) /\ SendHolds(s)
  BY DEF SendInv, RowsAreTrue
<1>2. /\ call[s].op = "idle" /\ UNCHANGED <<seller, row, stored, taken, phone, slipped>>
  BY DEF Send
<1>3. PICK i \in Inputs : call' = [call EXCEPT ![s] = [Idle EXCEPT !.op = "sensitive", !.input = i,
                                                                 !.silent = SaidNo(i)]]
  BY DEF Send
<1>4. PICK b \in BOOLEAN : b = SaidNo(i)
  BY Zenon DEF SaidNo
<1>5. PICK c \in SendCalls : /\ call' = [call EXCEPT ![s] = c]
                             /\ c.op = "sensitive" /\ c.input = i /\ c.attempts = 0
                             /\ c.silent = SaidNo(i)
  <2>1. call' = [call EXCEPT ![s] = [Idle EXCEPT !.op = "sensitive", !.input = i, !.silent = b]]
    BY <1>3, <1>4
  <2>2. "sensitive" \in SendOps
    BY DEF SendOps, Early
  <2>3. PICK c \in SendCalls : c = [Idle EXCEPT !.op = "sensitive", !.input = i, !.silent = b]
    BY <2>2, IdleCall DEF SendCalls
  <2>4. c.op = "sensitive" /\ c.input = i /\ c.attempts = 0 /\ c.silent = b
    BY <2>3, IdleCall DEF SendCalls
  <2> QED
    BY <1>4, <2>1, <2>3, <2>4
<1>6. call' \in [Sends -> SendCalls] /\ call'[s] = c /\ \A q \in Sends \ {s} : call'[q] = call[q]
  BY <1>1, <1>5, CallBecomes
<1>7. RowIsTrue(s)'
  BY <1>1, <1>2, <1>5, <1>6 DEF RowIsTrue, SendHolds, RowsInOrder, Early
<1>8. AttemptsFit(s)' /\ FailureIsOnRecord(s)'
  BY <1>5, <1>6 DEF AttemptsFit, FailureIsOnRecord, OnSpare
<1>9. RowsInOrder(s)' /\ OneGotThrough(s)'
  BY <1>1, <1>2, <1>5, <1>6 DEF SendHolds, RowsInOrder, OneGotThrough, Early, OnMain, OnSpare
<1>10. SilenceHolds(s)'
  BY <1>1, <1>2, <1>5, <1>6 DEF SendHolds, SilenceHolds, SaidNo, RowsInOrder, Early
<1> QED
  BY <1>1, <1>2, <1>6, <1>7, <1>8, <1>9, <1>10, SendMoves DEF SendHolds, SendType

-----------------------------------------------------------------------------
(* The recipient, the phone and the provider's receipts.                   *)

LEMMA ReceiptsStep ==
  ASSUME SendInv, NEW s \in Sends, ReceiptStep(s)
  PROVE  SendInv'
<1>1. SendType /\ RowIsTrue(s) /\ SendHolds(s)
  BY DEF SendInv, RowsAreTrue
<1>2. UNCHANGED <<seller, stored, call, taken, slipped>>
  BY DEF ReceiptStep, MarkAsRead, Arrive, HandleWhatsAppWebhook
<1>3. ASSUME RowIsTrue(s)', RowsInOrder(s)', FailureIsOnRecord(s)', SendType',
             \A q \in Sends \ {s} : row'[q] = row[q] /\ phone'[q] = phone[q]
      PROVE  SendInv'
  <2>1. AttemptsFit(s)' /\ OneGotThrough(s)' /\ SilenceHolds(s)'
    BY <1>1, <1>2 DEF SendHolds, AttemptsFit, OneGotThrough, SilenceHolds, SaidNo
  <2> QED
    BY <1>2, <1>3, <2>1, SendMoves DEF SendHolds
<1>4. CASE MarkAsRead(s)
  <2>1. PICK st \in Status, b \in BOOLEAN : st = "read" /\ b = (call[s].input.to = "seller")
    BY DEF Status
  <2>2. PICK r \in Rows : row[s][r] # "none" /\ Write(s, r, st) /\ (r = "alert" \/ b)
    BY Zenon, <1>4, <2>1 DEF MarkAsRead
  <2>3. /\ phone' = phone
        /\ row' \in [Sends -> [Rows -> Status]] /\ row'[s][r] = st
        /\ \A x \in Rows \ {r} : row'[s][x] = row[s][x]
        /\ \A q \in Sends \ {s} : row'[q] = row[q]
    <3>1. phone' = phone
      BY <1>4 DEF MarkAsRead
    <3>2. SendType /\ Write(s, r, st)
      BY <1>1, <2>2
    <3> QED
      BY <3>1, <3>2, Wrote
  <2>4. \A x \in Rows : row'[s][x] = IF x = r THEN "read" ELSE row[s][x]
    BY <2>1, <2>3
  <2>5. "main" \in Rows /\ "spare" \in Rows /\ "in_app" \in Rows
    BY DEF Rows
  <2>6. /\ row'[s]["main"] = row[s]["main"]
             \/ (row'[s]["main"] = "read" /\ b /\ row[s]["main"] # "none")
        /\ row'[s]["spare"] = row[s]["spare"]
             \/ (row'[s]["spare"] = "read" /\ row[s]["spare"] # "none")
        /\ row'[s]["in_app"] = row[s]["in_app"] \/ row'[s]["in_app"] = "read"
    BY <2>2, <2>4, <2>5
  <2>7. RowIsTrue(s)'
    BY <1>1, <1>2, <2>1, <2>3, <2>6 DEF RowIsTrue
  <2>8. RowsInOrder(s)' /\ FailureIsOnRecord(s)'
    BY <1>1, <1>2, <2>6 DEF SendHolds, RowsInOrder, FailureIsOnRecord
  <2> QED
    BY <1>1, <1>2, <1>3, <2>3, <2>7, <2>8 DEF SendType
<1>5. CASE Arrive(s)
  <2>1. /\ row' = row /\ phone' \in [Sends -> {"nothing", "arrived", "opened", "bounced"}]
        /\ phone[s] \in {"arrived", "opened"} => phone'[s] \in {"arrived", "opened"}
        /\ phone[s] # "opened"
        /\ \A q \in Sends \ {s} : phone'[q] = phone[q]
    BY <1>1, <1>5 DEF Arrive, SendType
  <2>2. RowIsTrue(s)'
    <3>1. phone'[s] \in {"nothing", "arrived", "opened", "bounced"}
      BY <2>1
    <3> QED
      BY <1>1, <1>2, <2>1, <3>1 DEF RowIsTrue
  <2>3. RowsInOrder(s)' /\ FailureIsOnRecord(s)'
    BY <1>1, <1>2, <2>1 DEF SendHolds, RowsInOrder, FailureIsOnRecord
  <2> QED
    BY <1>1, <1>2, <1>3, <2>1, <2>2, <2>3 DEF SendType
<1>6. CASE HandleWhatsAppWebhook(s)
  <2>1. PICK st \in Receipts(s) : Write(s, "main", st)
    BY <1>6 DEF HandleWhatsAppWebhook
  <2>2. /\ phone' = phone /\ taken[s]["main"] # {}
        /\ st \in {"delivered", "read", "failed"}
        /\ st = "delivered" => phone[s] \in {"arrived", "opened"}
        /\ st = "read" => phone[s] = "opened"
    BY <1>6 DEF HandleWhatsAppWebhook, Receipts
  <2>3. "main" \in Rows /\ st \in Status
    BY <2>2 DEF Rows, Status
  <2>4. /\ row' \in [Sends -> [Rows -> Status]] /\ row'[s]["main"] = st
        /\ \A x \in Rows \ {"main"} : row'[s][x] = row[s][x]
        /\ \A q \in Sends \ {s} : row'[q] = row[q]
    BY <1>1, <2>1, <2>3, Wrote
  <2>5. /\ row'[s]["spare"] = row[s]["spare"] /\ row'[s]["in_app"] = row[s]["in_app"]
        /\ row'[s] \in [Rows -> Status]
    BY <2>4 DEF Rows
  <2>6. RowIsTrue(s)'
    BY <1>1, <1>2, <2>2, <2>4, <2>5 DEF RowIsTrue
  <2>7. RowsInOrder(s)' /\ FailureIsOnRecord(s)'
    BY <1>1, <1>2, <2>2, <2>4, <2>5 DEF SendHolds, RowsInOrder, FailureIsOnRecord
  <2> QED
    BY <1>1, <1>2, <1>3, <2>2, <2>4, <2>6, <2>7 DEF SendType
<1> QED
  BY <1>4, <1>5, <1>6 DEF ReceiptStep

\* What the recipient withdraws, and what the law adds, is for good.
LEMMA SayingNoStep ==
  ASSUME SendInv, WithdrawMarketingConsent \/ WithdrawServiceConsent \/ FlagSensitiveCase
  PROVE  SendInv'
<1>1. UNCHANGED <<row, stored, call, taken, phone, slipped>>
  BY DEF WithdrawMarketingConsent, WithdrawServiceConsent, FlagSensitiveCase
<1>2. /\ seller' \in [phone : BOOLEAN, email : BOOLEAN, emailOnly : BOOLEAN, service : BOOLEAN,
                      marketing : BOOLEAN, sensitive : BOOLEAN]
      /\ ~seller.service => ~seller'.service
      /\ ~seller.marketing => ~seller'.marketing
      /\ seller.sensitive => seller'.sensitive
  BY DEF WithdrawMarketingConsent, WithdrawServiceConsent, FlagSensitiveCase, SendInv, SendType
<1>3. SendType'
  BY <1>1, <1>2 DEF SendInv, SendType
<1>4. ASSUME NEW s \in Sends PROVE RowIsTrue(s)' /\ SendHolds(s)'
  <2>1. RowIsTrue(s) /\ SendHolds(s)
    BY DEF SendInv, RowsAreTrue
  <2>2. RowIsTrue(s)'
    BY <1>1, <2>1 DEF RowIsTrue
  <2>3. AttemptsFit(s)' /\ RowsInOrder(s)' /\ FailureIsOnRecord(s)' /\ OneGotThrough(s)'
    BY <1>1, <2>1 DEF SendHolds, AttemptsFit, RowsInOrder, FailureIsOnRecord, OneGotThrough
  <2>4. SilenceHolds(s)'
    BY <1>1, <1>2, <2>1 DEF SendHolds, SilenceHolds, SaidNo
  <2> QED
    BY <2>2, <2>3, <2>4 DEF SendHolds
<1> QED
  BY <1>3, <1>4 DEF SendInv, RowsAreTrue

LEMMA SendInvStep == SendInv /\ [NotificationNext]_notificationVars => SendInv'
<1> SUFFICES ASSUME SendInv, [NotificationNext]_notificationVars PROVE SendInv'
  OBVIOUS
<1>1. ASSUME NEW s \in Sends, SendStep(s) PROVE SendInv'
  <2>1. TRUE \in BOOLEAN /\ FALSE \in BOOLEAN
    OBVIOUS
  <2> QED
    BY <1>1, <2>1, CheckStep, WritingStep, AcceptStep, RefuseStep, RecordSentStep DEF SendStep
<1>2. ASSUME NEW s \in Sends, Send(s) \/ DatabaseFails(s) \/ Die(s) PROVE SendInv'
  BY <1>2, SendGoes, DatabaseFailsStep, CheckStep
<1>3. CASE UNCHANGED notificationVars
  <2>1. SendType'
    BY <1>3 DEF notificationVars, SendInv, SendType
  <2>2. ASSUME NEW s \in Sends PROVE RowIsTrue(s)'
    BY <1>3 DEF notificationVars, SendInv, RowsAreTrue, RowIsTrue
  <2>3. ASSUME NEW s \in Sends PROVE SendHolds(s)'
    <3>1. SendHolds(s)
      BY DEF SendInv
    <3> QED
      BY <1>3, <3>1 DEF notificationVars, SendHolds, AttemptsFit, RowsInOrder, FailureIsOnRecord,
         OneGotThrough, SilenceHolds, SaidNo
  <2> QED
    BY <2>1, <2>2, <2>3 DEF SendInv, RowsAreTrue
<1>4. ASSUME NEW s \in Sends, ReceiptStep(s) PROVE SendInv'
  BY <1>4, ReceiptsStep
<1>5. ASSUME WithdrawMarketingConsent \/ WithdrawServiceConsent \/ FlagSensitiveCase PROVE SendInv'
  BY <1>5, SayingNoStep
<1> QED
  BY <1>1, <1>2, <1>3, <1>4, <1>5, Zenon DEF NotificationNext

LEMMA SendInvDelivers == SendInv => DeliveryIsSound
<1> SUFFICES ASSUME SendInv PROVE DeliveryIsSound
  OBVIOUS
<1>1. CarriedOnce
  <2> SUFFICES ASSUME NEW s \in Sends \ slipped
               PROVE  Cardinality(taken[s]["main"]) + Cardinality(taken[s]["spare"]) <= 1
    BY DEF CarriedOnce
  <2>1. OneGotThrough(s)
    BY DEF SendInv, SendHolds
  <2>2. Cardinality({}) = 0
    BY FS_EmptySet
  <2>3. ASSUME NEW S, NEW n, S \subseteq {n} PROVE Cardinality(S) = 0 \/ Cardinality(S) = 1
    <3>1. S = {} \/ S = {n}
      BY <2>3
    <3>2. Cardinality({n}) = 1
      BY FS_Singleton
    <3> QED
      BY <2>2, <3>1, <3>2
  <2>4. ASSUME NEW S, NEW T, NEW n, S \subseteq {n}, T = {}
        PROVE  Cardinality(S) + Cardinality(T) <= 1 /\ Cardinality(T) + Cardinality(S) <= 1
    BY <2>2, <2>3, <2>4
  <2>5. \/ \E n \in Nat : taken[s]["main"] \subseteq {n} /\ taken[s]["spare"] = {}
        \/ \E n \in Nat : taken[s]["spare"] \subseteq {n} /\ taken[s]["main"] = {}
    BY <2>1 DEF OneGotThrough
  <2> QED
    BY <2>4, <2>5
<1>2. SilenceIsKept
  BY DEF SendInv, SendHolds, SilenceHolds, RowsInOrder, SilenceIsKept
<1> QED
  BY <1>1, <1>2 DEF SendInv, DeliveryIsSound

\* The rows of a notification say what became of it, the recipient gets it once, and
\* never having said no (notificationService.send, handleWhatsAppWebhook), but where an
\* answer was lost or a write failed after it.
THEOREM DeliveryIsSoundKept == NotificationSpec => []DeliveryIsSound
BY SendInit, SendInvStep, SendInvDelivers, PTL DEF NotificationSpec

-----------------------------------------------------------------------------
(* A job that reminds.                                                     *)

JobOps == {"off", "next", "dedup", "send", "mark", "down"}

Every == J!Period[kind]
First == J!Window[kind].first
Last == J!Window[kind].last

\* The instant the last firing was due.
Base == fired * Every

JobType ==
  /\ kind \in J!Kinds
  /\ event \in [Items -> Int]
  /\ now \in Nat /\ fired \in Nat
  /\ run \in [op : JobOps, todo : SUBSET Items, item : Items \cup {"none"}]
  /\ marked \subseteq Items
  /\ sent \in [Items -> Nat]

\* The firings keep up with the clock, by which every window opens after the start.
OnTime ==
  /\ Base <= now
  /\ run.op # "down" => now <= Base + Every + MaxLate
  /\ \A i \in Items : event[i] >= First + Every

RunFits ==
  /\ run.op \in {"off", "down"} => run.todo = {}
  /\ run.op \in {"dedup", "send", "mark"} => run.item \in Items
  /\ run.op \in {"dedup", "send"} => run.item \notin run.todo
  /\ run.op = "mark" => kind = "followup" /\ sent[run.item] > 0
  /\ run.op = "send" /\ kind = "deadline" => \A i \in Items : sent[i] = 0
  /\ run.op = "down" => Items \subseteq missed

Pending(i) == i \in run.todo \/ (run.op \in {"dedup", "send"} /\ run.item = i)

\* The messages gone out for an item, with the one the run under way may add.
Load(i) == sent[i] + (IF Pending(i) THEN 1 ELSE 0)

\* A message is of a firing since the window opened, the second of a later one.
LoadFits(i) ==
  /\ Load(i) <= 2
  /\ Load(i) >= 1 => Base + MaxLate >= event[i] - Last
  /\ Load(i) >= 2 => Base - Every + MaxLate >= event[i] - Last

FollowupFits(i) ==
  /\ i \in marked => sent[i] > 0
  /\ kind = "followup" /\ i \notin missed =>
       /\ Load(i) <= 1
       /\ sent[i] > 0 => i \in marked \/ (run.op = "mark" /\ run.item = i)

\* A firing on time within the window has the item sent, or still to send.
CaughtByFiring(i) ==
  ~late /\ i \notin missed /\ fired >= 1 /\ Base >= event[i] - Last => sent[i] > 0 \/ Pending(i)

OneDeadline ==
  kind = "deadline" =>
    \A i, j \in Items : sent[i] <= 1 /\ (sent[i] > 0 /\ sent[j] > 0 => i = j)

JobHolds(i) == LoadFits(i) /\ FollowupFits(i) /\ CaughtByFiring(i)

JobInv == JobType /\ OnTime /\ RunFits /\ OneDeadline /\ \A i \in Items : JobHolds(i)

LEMMA Schedule ==
  ASSUME kind \in J!Kinds
  PROVE  /\ Every \in 1..3 /\ First \in Int /\ Last \in Int
         /\ Last - First + 1 >= Every /\ Last - First + MaxLate < 2 * Every
<1>1. CASE kind = "hour"
  BY <1>1, LateAssumption DEF Every, First, Last, J!Period, J!Window
<1>2. CASE kind = "followup"
  BY <1>2, LateAssumption DEF Every, First, Last, J!Period, J!Window
<1>3. CASE kind = "deadline"
  BY <1>3, LateAssumption DEF Every, First, Last, J!Period, J!Window
<1> QED
  BY <1>1, <1>2, <1>3 DEF J!Kinds

LEMMA Bases ==
  ASSUME JobType
  PROVE  /\ Base \in Nat
         /\ (fired + 1) * Every = Base + Every
         /\ fired = 0 => Base = 0
<1> Every \in {1, 2, 3}
  BY Schedule DEF JobType
<1> QED
  BY DEF JobType, Base

\* The schedule is that of the kind, which no step changes.
LEMMA SameSchedule ==
  ASSUME JobType, kind' = kind
  PROVE  /\ Every' = Every /\ First' = First /\ Last' = Last
         /\ fired' = fired => Base' = Base
         /\ fired' = fired + 1 => Base' = Base + Every
<1>1. /\ Every' = Every /\ First' = First /\ Last' = Last
  BY DEF Every, First, Last
<1>2. fired' = fired => Base' = Base
  BY <1>1 DEF Base
<1>3. fired' = fired + 1 => Base' = Base + Every
  BY <1>1, Bases DEF Base
<1> QED
  BY <1>1, <1>2, <1>3

LEMMA Loads ==
  ASSUME JobType, NEW i \in Items
  PROVE  /\ Load(i) \in Nat /\ sent[i] \in Nat
         /\ Pending(i) => Load(i) = sent[i] + 1
         /\ ~Pending(i) => Load(i) = sent[i]
BY DEF JobType, Load

\* The run goes on without a firing, and with no message more to come.
LEMMA RunGoesOn ==
  ASSUME JobInv, JobType', RunFits', OneDeadline',
         kind' = kind, event' = event, now' = now, fired' = fired, late' = late,
         run.op # "down", missed \subseteq missed',
         \A i \in Items : /\ Load(i)' <= Load(i)
                          /\ i \in marked' => sent'[i] > 0
                          /\ sent[i] > 0 \/ Pending(i) => sent'[i] > 0 \/ Pending(i)' \/ i \in missed'
                          /\ i \in marked => i \in marked'
                          /\ kind = "followup" /\ i \notin missed' /\ sent'[i] > 0 =>
                               \/ sent[i] > 0 /\ ~(run.op = "mark" /\ run.item = i)
                               \/ i \in marked' \/ (run'.op = "mark" /\ run'.item = i)
  PROVE  JobInv'
<1>1. /\ Every' = Every /\ First' = First /\ Last' = Last /\ Base' = Base
  BY SameSchedule DEF JobInv
<1>2. /\ Every \in 1..3 /\ First \in Int /\ Last \in Int /\ Base \in Nat
  BY Schedule, Bases DEF JobInv, JobType
<1>3. OnTime'
  BY <1>1 DEF JobInv, OnTime
<1>4. ASSUME NEW i \in Items PROVE JobHolds(i)'
  <2>1. /\ Load(i) \in Nat /\ Load(i)' \in Nat /\ event[i] \in Int /\ event'[i] = event[i] /\ MaxLate \in 0..1
    <3>1. Load(i)' \in Nat
      BY DEF JobType, Load
    <3> QED
      BY <3>1, Loads, LateAssumption DEF JobInv, JobType
  <2>2. LoadFits(i) /\ FollowupFits(i) /\ CaughtByFiring(i)
    BY DEF JobInv, JobHolds
  <2>3. LoadFits(i)'
    BY <1>1, <1>2, <2>1, <2>2 DEF LoadFits
  <2>4. FollowupFits(i)'
    BY <2>1, <2>2 DEF FollowupFits
  <2>5. CaughtByFiring(i)'
    BY <1>1, <2>2, <2>1 DEF CaughtByFiring
  <2> QED
    BY <2>3, <2>4, <2>5 DEF JobHolds
<1> QED
  BY <1>3, <1>4 DEF JobInv

LEMMA JobStarts == J!RemindersInit => JobInv
<1> SUFFICES ASSUME J!RemindersInit PROVE JobInv
  OBVIOUS
<1>1. kind \in J!Kinds
  BY DEF J!RemindersInit
<1>2. /\ Every \in 1..3 /\ First \in Int /\ Last \in Int /\ MaxLate \in 0..1
      /\ Last - First + 1 >= Every
  BY <1>1, Schedule, LateAssumption
<1>3. event \in [Items -> (First + Every)..(Last + 2 * Every)]
  BY DEF J!RemindersInit, First, Last, Every
<1>4. run.op = "off" /\ run.todo = {} /\ run.item = "none" /\ run \in [op : JobOps, todo : SUBSET Items, item : Items \cup {"none"}]
  BY DEF J!RemindersInit, J!Off, JobOps
<1>5. JobType
  BY <1>1, <1>2, <1>3, <1>4 DEF J!RemindersInit, JobType
<1>6. Base = 0
  BY <1>5, Bases DEF J!RemindersInit
<1>7. OnTime
  BY <1>2, <1>3, <1>6 DEF J!RemindersInit, OnTime
<1>8. RunFits
  BY <1>4 DEF RunFits
<1>9. ASSUME NEW i \in Items PROVE sent[i] = 0 /\ JobHolds(i)
  <2>1. sent[i] = 0 /\ ~Pending(i) /\ i \notin marked /\ fired = 0
    BY <1>4 DEF J!RemindersInit, Pending
  <2>2. Load(i) = 0
    BY <2>1 DEF Load
  <2> QED
    BY <2>1, <2>2 DEF JobHolds, LoadFits, FollowupFits, CaughtByFiring
<1> QED
  BY <1>5, <1>7, <1>8, <1>9 DEF JobInv, OneDeadline

LEMMA TickKeeps == JobInv /\ J!Tick => JobInv'
<1> SUFFICES ASSUME JobInv, J!Tick PROVE JobInv'
  OBVIOUS
<1>1. /\ kind' = kind /\ event' = event /\ fired' = fired /\ run' = run /\ marked' = marked
      /\ sent' = sent /\ missed' = missed /\ late' = late /\ now' = now + 1
  BY DEF J!Tick
<1>2. JobType' /\ RunFits' /\ OneDeadline'
  BY <1>1 DEF JobInv, JobType, RunFits, OneDeadline
<1>3. /\ Every' = Every /\ First' = First /\ Last' = Last /\ Base' = Base
  BY <1>1, SameSchedule DEF JobInv
<1>4. /\ Every \in 1..3 /\ Base \in Nat /\ (fired + 1) * Every = Base + Every
  BY Schedule, Bases DEF JobInv, JobType
<1>5. run.op # "down" => now + 1 <= Base + Every + MaxLate
  BY <1>4 DEF J!Tick, Every
<1>6. OnTime'
  BY <1>1, <1>3, <1>4, <1>5 DEF JobInv, JobType, OnTime
<1>7. ASSUME NEW i \in Items PROVE JobHolds(i)'
  <2>1. JobHolds(i) /\ Load(i)' = Load(i) /\ Pending(i)' = Pending(i)
    BY <1>1 DEF JobInv, Load, Pending
  <2> QED
    BY <1>1, <1>3, <2>1 DEF JobHolds, LoadFits, FollowupFits, CaughtByFiring
<1> QED
  BY <1>2, <1>6, <1>7 DEF JobInv

\* What is due is within its window.
LEMMA DueInWindow ==
  ASSUME JobType, NEW i \in Items
  PROVE  J!Due(i) <=> event[i] - Last <= now /\ now <= event[i] - First
<1>1. /\ First \in Int /\ Last \in Int /\ event[i] \in Int /\ now \in Int
  BY Schedule DEF JobType
<1> QED
  BY <1>1 DEF J!Due, First, Last

LEMMA FireKeeps == JobInv /\ J!Fire => JobInv'
<1> SUFFICES ASSUME JobInv, J!Fire PROVE JobInv'
  OBVIOUS
<1> DEFINE listed == J!Listed
<1>1. /\ kind' = kind /\ event' = event /\ fired' = fired + 1 /\ marked' = marked
      /\ sent' = sent /\ now' = now /\ run.op # "down"
  BY DEF J!Fire
<1>2. /\ Every' = Every /\ First' = First /\ Last' = Last /\ Base' = Base + Every
  BY <1>1, SameSchedule DEF JobInv
<1>3. /\ Every \in 1..3 /\ First \in Int /\ Last \in Int /\ Base \in Nat /\ MaxLate \in 0..1
      /\ (fired + 1) * Every = Base + Every /\ (fired = 0 => Base = 0)
      /\ Last - First + 1 >= Every /\ Last - First + MaxLate < 2 * Every
  BY Schedule, Bases, LateAssumption DEF JobInv, JobType
<1>4. now >= Base + Every /\ (~late' => ~late /\ now <= Base + Every)
  <2>1. now >= (fired + 1) * Every /\ (~late' => ~late /\ ~(now > (fired + 1) * Every))
    BY Zenon DEF J!Fire, Every
  <2> QED
    BY <1>3, <2>1 DEF JobInv, JobType
<1>5. \/ run.op = "off" /\ run'.op = "next" /\ run'.todo = listed /\ missed' = missed
         /\ run'.item = "none" /\ run' \in [op : JobOps, todo : SUBSET Items, item : Items \cup {"none"}]
      \/ run.op # "off" /\ run' = run /\ missed' = missed \cup listed
  BY DEF J!Fire, J!Off, J!Listed, JobOps
<1>6. JobType'
  BY <1>1, <1>5 DEF JobInv, JobType
<1>7. RunFits'
  BY <1>1, <1>5 DEF JobInv, RunFits
<1>8. OneDeadline'
  BY <1>1 DEF JobInv, OneDeadline
<1>9. OnTime'
  BY <1>1, <1>2, <1>3, <1>4, <1>5 DEF JobInv, JobType, OnTime
<1>10. ASSUME NEW i \in Items PROVE JobHolds(i)'
  <2>1. JobHolds(i) /\ event[i] \in Int /\ now \in Nat /\ Load(i) \in Nat /\ sent[i] \in Nat
        /\ event[i] >= First + Every /\ fired \in Nat
    BY Loads DEF JobInv, JobType, OnTime
  <2>2. i \in listed <=> /\ event[i] - Last <= now /\ now <= event[i] - First
                         /\ (kind = "followup" => i \notin marked)
    BY DueInWindow DEF J!Listed, JobInv
  <2>3. \/ run.op = "off" /\ ~Pending(i) /\ (Pending(i)' <=> i \in listed)
           /\ (i \in missed' <=> i \in missed)
           /\ Load(i) = sent[i] /\ Load(i)' = sent[i] + (IF i \in listed THEN 1 ELSE 0)
           /\ run'.op = "next"
        \/ run.op # "off" /\ (Pending(i)' <=> Pending(i)) /\ Load(i)' = Load(i)
           /\ (i \in missed' <=> i \in missed \/ i \in listed) /\ run' = run
    BY <1>1, <1>5, <2>1 DEF JobInv, RunFits, Load, Pending
  <2>4. LoadFits(i)'
    BY <1>1, <1>2, <1>3, <1>4, <2>1, <2>2, <2>3 DEF JobHolds, LoadFits, OnTime, JobInv
  <2>5. FollowupFits(i)'
    BY <1>1, <2>1, <2>2, <2>3 DEF JobHolds, FollowupFits
  <2>6. CaughtByFiring(i)'
    BY <1>1, <1>2, <1>3, <1>4, <2>1, <2>2, <2>3 DEF JobHolds, CaughtByFiring, FollowupFits
  <2> QED
    BY <2>4, <2>5, <2>6 DEF JobHolds
<1> QED
  BY <1>6, <1>7, <1>8, <1>9, <1>10 DEF JobInv

LEMMA StopKeeps == JobInv /\ J!Stop => JobInv'
<1> SUFFICES ASSUME JobInv, J!Stop PROVE JobInv'
  OBVIOUS
<1>1. /\ kind' = kind /\ event' = event /\ fired' = fired /\ marked' = marked
      /\ sent' = sent /\ missed' = Items /\ late' = late /\ now' = now
      /\ run'.op = "down" /\ run'.todo = {}
      /\ run' \in [op : JobOps, todo : SUBSET Items, item : Items \cup {"none"}]
  BY DEF J!Stop, J!Off, JobOps
<1>2. JobType' /\ RunFits' /\ OneDeadline'
  BY <1>1 DEF JobInv, JobType, RunFits, OneDeadline
<1>3. /\ Every' = Every /\ First' = First /\ Last' = Last /\ Base' = Base
  BY <1>1, SameSchedule DEF JobInv
<1>4. OnTime'
  BY <1>1, <1>3 DEF JobInv, OnTime
<1>5. ASSUME NEW i \in Items PROVE JobHolds(i)'
  <2>1. /\ JobHolds(i) /\ ~Pending(i)' /\ i \in missed' /\ Load(i)' = sent[i] /\ sent[i] \in Nat
        /\ Load(i) \in Nat /\ Load(i)' <= Load(i)
    BY <1>1, Loads DEF JobInv, Load, Pending
  <2>2. /\ Every \in 1..3 /\ Last \in Int /\ Base \in Nat /\ MaxLate \in 0..1 /\ event[i] \in Int
    BY Schedule, Bases, LateAssumption DEF JobInv, JobType
  <2> QED
    BY <1>1, <1>3, <2>1, <2>2 DEF JobHolds, LoadFits, FollowupFits, CaughtByFiring
<1> QED
  BY <1>2, <1>4, <1>5 DEF JobInv

LEMMA StartKeeps == JobInv /\ J!Start => JobInv'
<1> SUFFICES ASSUME JobInv, J!Start PROVE JobInv'
  OBVIOUS
<1>1. /\ kind' = kind /\ event' = event /\ fired' = now \div Every /\ marked' = marked
      /\ sent' = sent /\ missed' = missed /\ late' = late /\ now' = now
      /\ run'.op = "off" /\ run'.todo = {} /\ Items \subseteq missed
      /\ run' \in [op : JobOps, todo : SUBSET Items, item : Items \cup {"none"}]
  BY DEF J!Start, J!Off, JobOps, Every, JobInv, RunFits
<1>2. /\ Every \in 1..3 /\ First \in Int /\ Last \in Int /\ Base \in Nat /\ MaxLate \in 0..1
      /\ now \in Nat /\ fired \in Nat /\ Base <= now
  BY Schedule, Bases, LateAssumption DEF JobInv, JobType, OnTime
<1>3. /\ Every' = Every /\ First' = First /\ Last' = Last
      /\ fired' \in Nat /\ Base' <= now /\ now < Base' + Every /\ Base' \in Nat
  <2>1. Every' = Every /\ First' = First /\ Last' = Last
    BY <1>1 DEF Every, First, Last
  <2>2. Base' = (now \div Every) * Every
    BY <1>1, <2>1 DEF Base
  <2>3. Every \in {1, 2, 3}
    BY <1>2
  <2>4. (now \div Every) \in Nat /\ (now \div Every) * Every <= now
        /\ now < (now \div Every) * Every + Every /\ (now \div Every) * Every \in Nat
    BY <1>2, <2>3
  <2> QED
    BY <1>1, <2>1, <2>2, <2>4
<1>4. Base <= Base'
  <2>1. CASE Every = 1
    BY <1>1, <1>2, <1>3, <2>1 DEF Base
  <2>2. CASE Every = 2
    BY <1>1, <1>2, <1>3, <2>2 DEF Base
  <2>3. CASE Every = 3
    BY <1>1, <1>2, <1>3, <2>3 DEF Base
  <2> QED
    BY <1>2, <2>1, <2>2, <2>3
<1>5. JobType' /\ RunFits' /\ OneDeadline'
  BY <1>1, <1>3 DEF JobInv, JobType, RunFits, OneDeadline
<1>6. OnTime'
  <2>1. Base' <= now' /\ now' <= Base' + Every' + MaxLate
    <3>1. PICK b \in Nat : b = Base'
      BY <1>3
    <3>2. PICK t \in Nat : t = now /\ t = now'
      BY <1>1, <1>2
    <3>3. PICK e \in 1..3 : e = Every /\ e = Every'
      BY <1>2, <1>3
    <3>4. b <= t /\ t < b + e /\ MaxLate \in 0..1
      BY <1>2, <1>3, <3>1, <3>2, <3>3
    <3>5. b <= t /\ t <= b + e + MaxLate
      BY <3>4
    <3> QED
      BY <3>1, <3>2, <3>3, <3>5
  <2>2. \A i \in Items : event'[i] >= First' + Every'
    BY <1>1, <1>3 DEF JobInv, OnTime
  <2> QED
    BY <2>1, <2>2 DEF OnTime
<1>7. ASSUME NEW i \in Items PROVE JobHolds(i)'
  <2>1. /\ JobHolds(i) /\ ~Pending(i)' /\ i \in missed' /\ Load(i)' = sent[i] /\ sent[i] \in Nat
        /\ Load(i) \in Nat /\ Load(i)' <= Load(i)
    BY <1>1, Loads DEF JobInv, Load, Pending
  <2>2. event[i] \in Int
    BY DEF JobInv, JobType
  <2> QED
    BY <1>1, <1>2, <1>3, <1>4, <2>1, <2>2 DEF JobHolds, LoadFits, FollowupFits, CaughtByFiring
<1> QED
  BY <1>5, <1>6, <1>7 DEF JobInv

\* What TakeNext, Finish, Dedup, MarkFollowupSent and ItemFails leave as it was.
LEMMA TakeKeeps == JobInv /\ J!TakeNext => JobInv'
<1> SUFFICES ASSUME JobInv, J!TakeNext PROVE JobInv'
  OBVIOUS
<1>1. PICK i \in run.todo :
        run' = [op |-> IF kind = "deadline" THEN "dedup" ELSE "send", todo |-> run.todo \ {i}, item |-> i]
  BY DEF J!TakeNext
<1>2. /\ kind' = kind /\ event' = event /\ now' = now /\ fired' = fired /\ late' = late
      /\ marked' = marked /\ sent' = sent /\ missed' = missed /\ run.op = "next"
  BY DEF J!TakeNext
<1>3. /\ i \in Items /\ run'.item = i /\ run'.todo = run.todo \ {i}
      /\ run'.op = (IF kind = "deadline" THEN "dedup" ELSE "send")
      /\ run' \in [op : JobOps, todo : SUBSET Items, item : Items \cup {"none"}]
  BY <1>1 DEF JobInv, JobType, JobOps
<1>4. JobType'
  BY <1>2, <1>3 DEF JobInv, JobType
<1>5. RunFits' /\ OneDeadline'
  BY <1>2, <1>3 DEF JobInv, RunFits, OneDeadline
<1>6. ASSUME NEW j \in Items PROVE (Pending(j)' <=> Pending(j)) /\ Load(j)' = Load(j) /\ JobHolds(j)
  BY <1>2, <1>3 DEF Pending, Load, JobInv
<1> QED
  BY <1>2, <1>3, <1>4, <1>5, <1>6, RunGoesOn, Loads DEF JobInv, JobHolds, FollowupFits

LEMMA FinishKeeps == JobInv /\ J!Finish => JobInv'
<1> SUFFICES ASSUME JobInv, J!Finish PROVE JobInv'
  OBVIOUS
<1>1. /\ kind' = kind /\ event' = event /\ now' = now /\ fired' = fired /\ late' = late
      /\ marked' = marked /\ sent' = sent /\ missed' = missed /\ run.op = "next" /\ run.todo = {}
      /\ run'.op = "off" /\ run'.todo = {}
      /\ run' \in [op : JobOps, todo : SUBSET Items, item : Items \cup {"none"}]
  BY DEF J!Finish, J!Off, JobOps
<1>2. JobType' /\ RunFits' /\ OneDeadline'
  BY <1>1 DEF JobInv, JobType, RunFits, OneDeadline
<1>3. ASSUME NEW j \in Items PROVE (Pending(j)' <=> Pending(j)) /\ Load(j)' = Load(j) /\ JobHolds(j)
  BY <1>1 DEF Pending, Load, JobInv
<1> QED
  BY <1>1, <1>2, <1>3, RunGoesOn, Loads DEF JobInv, JobHolds, FollowupFits

\* The run is at another operation of the same item.
LEMMA RunAt ==
  ASSUME JobType, NEW op \in JobOps, run' = [run EXCEPT !.op = op]
  PROVE  /\ run'.op = op /\ run'.todo = run.todo /\ run'.item = run.item
         /\ run' \in [op : JobOps, todo : SUBSET Items, item : Items \cup {"none"}]
BY DEF JobType

LEMMA DedupKeeps == JobInv /\ J!Dedup => JobInv'
<1> SUFFICES ASSUME JobInv, J!Dedup PROVE JobInv'
  OBVIOUS
<1>1. /\ kind' = kind /\ event' = event /\ now' = now /\ fired' = fired /\ late' = late
      /\ marked' = marked /\ sent' = sent /\ run.op = "dedup" /\ run.item \in Items
  BY DEF J!Dedup, JobInv, RunFits
<1>2. CASE J!ExistingNotification
  <2>1. missed' = missed \cup {run.item} /\ run' = [run EXCEPT !.op = "next"]
    BY <1>2 DEF J!Dedup
  <2>2. /\ run'.op = "next" /\ run'.todo = run.todo
        /\ run' \in [op : JobOps, todo : SUBSET Items, item : Items \cup {"none"}]
    BY <2>1, RunAt DEF JobInv, JobOps
  <2>3. JobType' /\ RunFits' /\ OneDeadline'
    BY <1>1, <2>2 DEF JobInv, JobType, RunFits, OneDeadline
  <2>4. ASSUME NEW j \in Items
        PROVE  (Pending(j) => Pending(j)' \/ j \in missed') /\ Load(j)' <= Load(j) /\ JobHolds(j)
    BY <1>1, <2>1, <2>2, Loads DEF Pending, Load, JobInv
  <2> QED
    BY <1>1, <2>1, <2>2, <2>3, <2>4, RunGoesOn DEF JobInv, JobHolds, FollowupFits
<1>3. CASE ~J!ExistingNotification
  <2>1. missed' = missed /\ run' = [run EXCEPT !.op = "send"]
    BY <1>3 DEF J!Dedup
  <2>2. /\ run'.op = "send" /\ run'.todo = run.todo /\ run'.item = run.item
        /\ run' \in [op : JobOps, todo : SUBSET Items, item : Items \cup {"none"}]
    BY <2>1, RunAt DEF JobInv, JobOps
  <2>3. \A i \in Items : sent[i] = 0
    BY <1>3 DEF J!ExistingNotification, JobInv, JobType
  <2>4. JobType' /\ RunFits' /\ OneDeadline'
    BY <1>1, <2>2, <2>3 DEF JobInv, JobType, RunFits, OneDeadline
  <2>5. ASSUME NEW j \in Items PROVE (Pending(j)' <=> Pending(j)) /\ Load(j)' <= Load(j) /\ JobHolds(j)
    BY <1>1, <2>2, Loads DEF Pending, Load, JobInv
  <2> QED
    BY <1>1, <2>1, <2>2, <2>4, <2>5, RunGoesOn DEF JobInv, JobHolds, FollowupFits
<1> QED
  BY <1>2, <1>3

LEMMA SendKeeps == JobInv /\ J!SendReminder => JobInv'
<1> SUFFICES ASSUME JobInv, J!SendReminder PROVE JobInv'
  OBVIOUS
<1>1. /\ kind' = kind /\ event' = event /\ now' = now /\ fired' = fired /\ late' = late
      /\ marked' = marked /\ missed' = missed /\ run.op = "send" /\ run.item \in Items
      /\ run.item \notin run.todo
      /\ sent' = [sent EXCEPT ![run.item] = @ + 1]
      /\ kind = "deadline" => \A i \in Items : sent[i] = 0
  BY DEF J!SendReminder, JobInv, RunFits
<1>2. /\ run'.op = (IF kind = "followup" THEN "mark" ELSE "next") /\ run'.todo = run.todo
      /\ run'.item = run.item
      /\ run' \in [op : JobOps, todo : SUBSET Items, item : Items \cup {"none"}]
  BY RunAt DEF J!SendReminder, JobInv, JobOps
<1>3. sent' \in [Items -> Nat] /\ sent'[run.item] = sent[run.item] + 1
      /\ \A j \in Items \ {run.item} : sent'[j] = sent[j]
  BY <1>1 DEF JobInv, JobType
<1>4. JobType' /\ OneDeadline'
  BY <1>1, <1>2, <1>3 DEF JobInv, JobType, OneDeadline
<1>5. RunFits'
  BY <1>1, <1>2, <1>3 DEF JobInv, JobType, RunFits
<1>6. ASSUME NEW j \in Items
      PROVE  /\ Load(j)' <= Load(j) /\ JobHolds(j) /\ (sent[j] > 0 => sent'[j] > 0)
             /\ Pending(j) => sent'[j] > 0 \/ Pending(j)'
             /\ sent'[j] > 0 => sent[j] > 0 \/ j = run.item
  <2>1. sent[j] \in Nat
    BY DEF JobInv, JobType
  <2>2. CASE j = run.item
    <3>1. Pending(j) /\ ~Pending(j)' /\ sent'[j] = sent[j] + 1
      BY <1>1, <1>2, <1>3, <2>2 DEF Pending
    <3> QED
      BY <2>1, <2>2, <3>1 DEF Load, JobInv
  <2>3. CASE j # run.item
    <3>1. (Pending(j) <=> Pending(j)') /\ sent'[j] = sent[j]
      BY <1>1, <1>2, <1>3, <2>3 DEF Pending
    <3> QED
      BY <2>1, <2>3, <3>1 DEF Load, JobInv
  <2> QED
    BY <2>2, <2>3
<1> QED
  BY <1>1, <1>2, <1>4, <1>5, <1>6, RunGoesOn DEF JobInv, JobHolds, FollowupFits

LEMMA MarkKeeps == JobInv /\ J!MarkFollowupSent => JobInv'
<1> SUFFICES ASSUME JobInv, J!MarkFollowupSent PROVE JobInv'
  OBVIOUS
<1>1. /\ kind' = kind /\ event' = event /\ now' = now /\ fired' = fired /\ late' = late
      /\ sent' = sent /\ missed' = missed /\ run.op = "mark" /\ run.item \in Items
      /\ sent[run.item] > 0 /\ marked' = marked \cup {run.item}
  BY DEF J!MarkFollowupSent, JobInv, RunFits
<1>2. /\ run'.op = "next" /\ run'.todo = run.todo /\ run'.item = run.item
      /\ run' \in [op : JobOps, todo : SUBSET Items, item : Items \cup {"none"}]
  BY RunAt DEF J!MarkFollowupSent, JobInv, JobOps
<1>3. JobType' /\ OneDeadline' /\ RunFits'
  BY <1>1, <1>2 DEF JobInv, JobType, OneDeadline, RunFits
<1>4. ASSUME NEW j \in Items PROVE (Pending(j)' <=> Pending(j)) /\ Load(j)' <= Load(j) /\ JobHolds(j)
  BY <1>1, <1>2, Loads DEF Pending, Load, JobInv
<1> QED
  BY <1>1, <1>2, <1>3, <1>4, RunGoesOn DEF JobInv, JobHolds, FollowupFits

LEMMA FailKeeps == JobInv /\ J!ItemFails => JobInv'
<1> SUFFICES ASSUME JobInv, J!ItemFails PROVE JobInv'
  OBVIOUS
<1>1. /\ kind' = kind /\ event' = event /\ now' = now /\ fired' = fired /\ late' = late
      /\ sent' = sent /\ missed' = missed \cup {run.item} /\ run.op \in {"dedup", "send", "mark"}
      /\ run.item \in Items /\ marked' = marked
  BY DEF J!ItemFails, JobInv, RunFits
<1>2. /\ run'.op = "next" /\ run'.todo = run.todo /\ run'.item = run.item
      /\ run' \in [op : JobOps, todo : SUBSET Items, item : Items \cup {"none"}]
  BY RunAt DEF J!ItemFails, JobInv, JobOps
<1>3. JobType' /\ OneDeadline' /\ RunFits'
  BY <1>1, <1>2 DEF JobInv, JobType, OneDeadline, RunFits
<1>4. ASSUME NEW j \in Items
      PROVE  (Pending(j) => Pending(j)' \/ j \in missed') /\ Load(j)' <= Load(j) /\ JobHolds(j)
  BY <1>1, <1>2, Loads DEF Pending, Load, JobInv
<1> QED
  BY <1>1, <1>2, <1>3, <1>4, RunGoesOn DEF JobInv, JobHolds, FollowupFits

\* The invariant says what is promised.
LEMMA JobInvImplies == JobInv => RemindersAreSound
<1> SUFFICES ASSUME JobInv PROVE J!RemindedAtMost /\ J!NobodyForgotten
  BY DEF RemindersAreSound, J!RemindersAreSound
<1>1. ASSUME NEW i \in Items
      PROVE  /\ sent[i] <= 2
             /\ kind = "deadline" => \A j \in Items : sent[i] + (IF i = j THEN 0 ELSE sent[j]) <= 1
             /\ kind = "followup" /\ i \notin missed => sent[i] <= 1
  <2>1. Load(i) <= 2 /\ Load(i) \in Nat /\ sent[i] \in Nat /\ sent[i] <= Load(i)
        /\ (kind = "followup" /\ i \notin missed => Load(i) <= 1)
    BY Loads DEF JobInv, JobHolds, LoadFits, FollowupFits
  <2>2. ASSUME kind = "deadline", NEW j \in Items PROVE sent[i] + (IF i = j THEN 0 ELSE sent[j]) <= 1
    BY <2>2 DEF JobInv, JobType, OneDeadline
  <2> QED
    BY <2>1, <2>2
<1>2. ASSUME NEW i \in Items, event[i] - now < J!Window[kind].first, run.op = "off", ~late,
             i \notin missed, now < (fired + 1) * J!Period[kind]
      PROVE  sent[i] > 0
  <2>1. /\ Every \in 1..3 /\ First \in Int /\ Last \in Int /\ Base \in Nat /\ now \in Nat
        /\ (fired + 1) * Every = Base + Every /\ (fired = 0 => Base = 0) /\ fired \in Nat
        /\ Last - First + 1 >= Every /\ event[i] \in Int /\ event[i] >= First + Every
    BY Schedule, Bases DEF JobInv, JobType, OnTime
  <2>2. event[i] - now < First /\ now < Base + Every
    BY <1>2, <2>1 DEF First, Every
  <2>3. fired >= 1 /\ Base >= event[i] - Last
    BY <2>1, <2>2
  <2>4. ~Pending(i)
    BY <1>2 DEF JobInv, RunFits, Pending
  <2> QED
    BY <1>2, <2>3, <2>4 DEF JobInv, JobHolds, CaughtByFiring
<1> QED
  BY <1>1, <1>2 DEF J!RemindedAtMost, J!NobodyForgotten

LEMMA JobInvKept == J!RemindersSpec => []JobInv
<1>1. JobInv /\ [J!RemindersNext]_(J!reminderVars) => JobInv'
  <2> SUFFICES ASSUME JobInv, [J!RemindersNext]_(J!reminderVars) PROVE JobInv'
    OBVIOUS
  <2>1. CASE UNCHANGED J!reminderVars
    BY <2>1 DEF J!reminderVars, JobInv, JobType, OnTime, RunFits, OneDeadline, JobHolds, LoadFits,
       FollowupFits, CaughtByFiring, Load, Pending, Base, Every, First, Last
  <2> QED
    BY <2>1, TickKeeps, FireKeeps, TakeKeeps, FinishKeeps, DedupKeeps, SendKeeps, MarkKeeps,
       FailKeeps, StopKeeps, StartKeeps DEF J!RemindersNext
<1> QED
  BY <1>1, JobStarts, PTL DEF J!RemindersSpec

\* Reminders come, and no more often than their window allows, for every number of
\* items and for as long as the job runs, where a timer is late by at most its unit:
\* the follow-up only once unless something failed, the deadline once whatever does.
THEOREM RemindersAreSoundKept == J!RemindersSpec => []RemindersAreSound
BY JobInvKept, JobInvImplies, PTL
===============================================================================
