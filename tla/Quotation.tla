------------------------------ MODULE Quotation ------------------------------
(***************************************************************************)
(* One quotation from draft to order: quotation.service.ts, the approval   *)
(* of its discounts (approval.service.ts), the negotiation with the        *)
(* customer (negotiation.service.ts, portal.service.ts) and the order it   *)
(* becomes (order.service.ts).                                             *)
(*                                                                         *)
(* Every call runs in one transaction that first locks the quotation row,  *)
(* so a call is one step.  What interleaves is people: whoever clicks has  *)
(* a page loaded at some earlier moment, and names the version it showed.  *)
(* The variable seen holds every offer a page can be showing.              *)
(***************************************************************************)
EXTENDS Integers, Sequences

CONSTANTS Terms,        \* commercial terms: customer, lines, prices, discounts
          NoTerms,      \* a draft that cannot be priced yet (no customer, no lines)
          Staff,
          RoleOf,       \* User.role
          Owner,        \* Quotation.ownerId
          Routes,       \* the reviewer chains an evaluation can require
          NoOrder,
          MaxVersion,   \* bound: no edit or revision above this version
          MaxProposals  \* bound: open customer proposals

Roles == {"SALES_REP", "SALES_MANAGER", "FINANCE", "ADMIN"}

(* What a version number stands for. *)
Offer == [version : Nat, terms : Terms \cup {NoTerms}]

(* ApprovalRequest with its steps: approvals says by whom and on what terms  *)
(* the first ones were approved; the next is pending, the others wait.       *)
Request == [version : Nat, route : Seq(Roles),
            status : {"NONE", "PENDING", "APPROVED", "REJECTED", "RETURNED", "SUPERSEDED"},
            approvals : Seq([by : Staff, terms : Terms \cup {NoTerms}])]

NewRequest(v, route) ==
  [version |-> v, route |-> route, status |-> "PENDING", approvals |-> <<>>]

NoRequest == [version |-> 0, route |-> <<>>, status |-> "NONE", approvals |-> <<>>]

ASSUME QuotationAssumption ==
  /\ NoTerms \notin Terms
  /\ RoleOf \in [Staff -> Roles]
  /\ Owner \in Staff
  /\ Routes \subseteq Seq(Roles)
  /\ NoOrder \notin Offer
  /\ MaxVersion \in Nat
  /\ MaxProposals \in Nat

VARIABLES status,           \* Quotation.status
          version,          \* Quotation.version
          approvedVersion,  \* Quotation.approvedVersion, 0 for null
          terms,            \* the editable terms of the quotation
          validUntil,       \* "none", "ahead" or "past"
          sent,             \* Quotation.sentAt is set; nothing ever clears it
          request,          \* the latest ApprovalRequest with its steps
          accepted,         \* QuoteAcceptance rows, with what the customer saw
          proposals,        \* OPEN proposals of the customer
          order,            \* the order made of the quotation
          snapshots,        \* QuotationVersion rows
          expiring,         \* the nightly job has picked the quotation up
          cleared,          \* history: offers cleared by policy or reviewers
          seen              \* history: offers that pages have shown

quote == <<status, version, approvedVersion, terms, validUntil, sent>>
vars == <<quote, request, accepted, proposals, order, snapshots, expiring, cleared, seen>>

Current == [version |-> version, terms |-> terms]

(* snapshotVersion: the row covers the terms and whether they have an end.  *)
QuotationVersion == [version : Nat, terms : Terms \cup {NoTerms}, dated : BOOLEAN]

Snapshot(v, t, valid) == [version |-> v, terms |-> t, dated |-> valid # "none"]

Init == /\ status = "DRAFT"
        /\ version = 1
        /\ approvedVersion = 0
        /\ terms \in Terms \cup {NoTerms}
        /\ validUntil = "ahead"
        /\ sent = FALSE
        /\ request = NoRequest
        /\ accepted = {}
        /\ proposals = 0
        /\ order = NoOrder
        /\ snapshots = {Snapshot(version, terms, validUntil)}
        /\ expiring = FALSE
        /\ cleared = {}
        /\ seen = {Current}

(* What pages show once a call has committed. *)
Show == seen' = seen \cup {[version |-> version', terms |-> terms']}

(* Mutant of Superseded: the open request is left open. *)
NotSuperseded == request

Editable == status \in {"DRAFT", "REVISION_REQUESTED"}
OnOffer == status \in {"SENT", "UNDER_NEGOTIATION"}

(* The request as every call leaves it that takes the quotation out of review. *)
Superseded == IF request.status = "PENDING" THEN [request EXCEPT !.status = "SUPERSEDED"] ELSE request

-------------------------------------------------------------------------------
(* Drafting *)

(* addLine, updateQuotation, removeLine, repriceFromCatalogue, setCustomer: *)
(* change something, then finishEdit.                                       *)
Edit ==
  /\ Editable
  /\ version < MaxVersion
  /\ terms' \in Terms
  /\ validUntil' \in {"none", "ahead", "past"}
  /\ version' = version + 1
  /\ approvedVersion' = 0
  /\ snapshots' = snapshots \cup {Snapshot(version', terms', validUntil')}
  /\ Show
  /\ UNCHANGED <<status, sent, request, accepted, proposals, order, expiring, cleared>>

(* assertQuoteAccess *)
MaySell(a) == a = Owner \/ RoleOf[a] \in {"SALES_MANAGER", "ADMIN"}

(* createRevision and withdraw; of a pending quotation, only by its owner.  *)
Revise(a) ==
  /\ MaySell(a)
  /\ status \in {"APPROVED", "SENT", "UNDER_NEGOTIATION", "PENDING_APPROVAL",
                 "REJECTED", "REVISION_REQUESTED"}
  /\ status = "PENDING_APPROVAL" => a = Owner
  /\ version < MaxVersion
  /\ request' = Superseded
  /\ status' = "DRAFT"
  /\ approvedVersion' = 0
  /\ version' = version + 1
  /\ snapshots' = snapshots \cup {Snapshot(version', terms, validUntil)}
  /\ UNCHANGED <<terms, validUntil, sent, accepted, proposals, order, expiring, cleared>>
  /\ Show

Cancel ==
  /\ status \notin {"CONFIRMED", "CANCELLED"}
  /\ request' = Superseded
  /\ status' = "CANCELLED"
  /\ approvedVersion' = 0
  /\ version' = version + 1
  /\ UNCHANGED <<terms, validUntil, sent, accepted, proposals, order, snapshots, expiring, cleared>>
  /\ Show

-------------------------------------------------------------------------------
(* Approval *)

(* evaluateAndRoute at version v: the policy clears the terms t, leaving    *)
(* the quotation in status pass, or names the reviewers who must.           *)
EvaluateAndRoute(v, t, pass) ==
  /\ t # NoTerms
  /\ validUntil # "past"
  /\ version' = v + 1
  /\ terms' = t
  /\ Show
  /\ \E route \in Routes :
       \/ /\ route = <<>>
          /\ status' = pass
          /\ approvedVersion' = version'
          /\ request' = Superseded
          /\ cleared' = cleared \cup {[version |-> version', terms |-> t]}
       \/ /\ route # <<>>
          /\ status' = "PENDING_APPROVAL"
          /\ approvedVersion' = 0
          /\ request' = NewRequest(version', route)
          /\ cleared' = cleared
  /\ UNCHANGED <<validUntil, accepted, order, expiring>>

SubmitForApproval ==
  /\ Editable
  /\ version < MaxVersion
  /\ EvaluateAndRoute(version, terms, "APPROVED")
  /\ snapshots' = snapshots \cup {Snapshot(version', terms, validUntil)}
  /\ UNCHANGED <<sent, proposals>>

(* createOrderFromQuotation, called with the quotation in status s. *)
CreateOrder(s) ==
  /\ approvedVersion' = version
  /\ s \in {"APPROVED", "SENT", "UNDER_NEGOTIATION"}
  /\ \E f \in accepted' : f.version = version
  /\ order = NoOrder
  /\ order' = Current
  /\ status' = "CONFIRMED"

PendingStep == Len(request.approvals) + 1

(* Mutant of MayDecide: the version on the reviewer's page is not compared. *)
MayDecideStale(a, f) ==
  /\ request.version = version
  /\ status = "PENDING_APPROVAL"
  /\ request.status = "PENDING"
  /\ RoleOf[a] \in {request.route[PendingStep], "ADMIN"}

(* A reviewer decides on offer f, as it was on the page.                    *)
MayDecide(a, f) ==
  /\ f.version = version
  /\ request.version = version
  /\ status = "PENDING_APPROVAL"
  /\ request.status = "PENDING"
  /\ RoleOf[a] \in {request.route[PendingStep], "ADMIN"}

WithApproval(a, f) ==
  [request EXCEPT !.approvals = Append(@, [by |-> a, terms |-> f.terms])]

(* The customer has accepted this version, ahead of the reviewers. *)
AcceptanceWaits == \E f \in accepted : f.version = version

LastStep == PendingStep = Len(request.route)

ApproveStep(a, f) ==
  /\ MayDecide(a, f)
  /\ ~LastStep
  /\ request' = WithApproval(a, f)
  /\ UNCHANGED <<quote, accepted, proposals, order, snapshots, expiring, cleared, seen>>

(* The last approval: an acceptance that was waiting becomes an order, an   *)
(* offer the customer has had before goes out again.                        *)
ApproveLast(a, f) ==
  /\ MayDecide(a, f)
  /\ LastStep
  /\ request' = [WithApproval(a, f) EXCEPT !.status = "APPROVED"]
  /\ approvedVersion' = version
  /\ cleared' = cleared \cup {Current}
  /\ UNCHANGED <<version, terms, validUntil, sent, accepted, proposals, snapshots, expiring, seen>>
  /\ IF AcceptanceWaits THEN CreateOrder("APPROVED")
     ELSE /\ status' = IF sent THEN "SENT" ELSE "APPROVED"
          /\ UNCHANGED order

RejectOrReturn(a, f) ==
  /\ MayDecide(a, f)
  /\ \/ status' = "REJECTED" /\ request' = [request EXCEPT !.status = "REJECTED"]
     \/ status' = "REVISION_REQUESTED" /\ request' = [request EXCEPT !.status = "RETURNED"]
  /\ approvedVersion' = 0
  /\ UNCHANGED <<version, terms, validUntil, sent, accepted, proposals, order, snapshots,
                 expiring, cleared, seen>>

-------------------------------------------------------------------------------
(* The customer *)

(* sendToCustomer gives an offer without an end the default validity.       *)
Send ==
  /\ status = "APPROVED"
  /\ approvedVersion = version
  /\ validUntil # "past"
  /\ status' = "SENT"
  /\ sent' = TRUE
  /\ validUntil' = "ahead"
  /\ UNCHANGED <<version, approvedVersion, terms, request, accepted, proposals, order,
                 snapshots, expiring, cleared, seen>>

(* Mutant of Negotiable: an offer that was sent once counts as on offer. *)
NegotiableOnceSent == sent /\ validUntil # "past"

(* requireCurrentOffer, for a negotiation. *)
Negotiable == sent /\ OnOffer /\ validUntil # "past"

SubmitProposals ==
  /\ Negotiable
  /\ proposals < MaxProposals
  /\ status' = "UNDER_NEGOTIATION"
  /\ proposals' = proposals + 1
  /\ UNCHANGED <<version, approvedVersion, terms, validUntil, sent, request, accepted, order,
                 snapshots, expiring, cleared, seen>>

(* Proposed terms take effect as a revision that is evaluated at once.      *)
TakeEffect ==
  /\ version + 1 < MaxVersion
  /\ \E t \in Terms :
       /\ EvaluateAndRoute(version + 1, t, "SENT")
       /\ snapshots' = snapshots \cup {Snapshot(version + 1, terms, validUntil),
                                       Snapshot(version + 2, t, validUntil)}
  /\ UNCHANGED sent

(* submitProposals under a portal policy that applies proposals by itself.  *)
AutoApplyProposals == Negotiable /\ TakeEffect /\ UNCHANGED proposals

(* respondToProposal: APPLY needs a current offer, DECLINE does not.        *)
ApplyProposal ==
  /\ OnOffer /\ validUntil # "past"
  /\ proposals > 0
  /\ TakeEffect
  /\ proposals' = proposals - 1

(* declined by the owner or withdrawn by the customer *)
DropProposal ==
  /\ proposals > 0
  /\ proposals' = proposals - 1
  /\ UNCHANGED <<quote, request, accepted, order, snapshots, expiring, cleared, seen>>

(* Mutants of MayAccept: the version on the customer's page is not compared, *)
(* or the customer's open proposals are not counted.                        *)
MayAcceptStale(f) ==
  /\ sent
  /\ status \in {"SENT", "UNDER_NEGOTIATION", "PENDING_APPROVAL"}
  /\ ~AcceptanceWaits
  /\ validUntil # "past"
  /\ proposals = 0

MayAcceptNegotiating(f) ==
  /\ sent
  /\ f.version = version
  /\ status \in {"SENT", "UNDER_NEGOTIATION", "PENDING_APPROVAL"}
  /\ ~AcceptanceWaits
  /\ validUntil # "past"

(* The customer's page shows the offer f. *)
MayAccept(f) ==
  /\ sent
  /\ f.version = version
  /\ status \in {"SENT", "UNDER_NEGOTIATION", "PENDING_APPROVAL"}
  /\ ~AcceptanceWaits
  /\ validUntil # "past"
  /\ proposals = 0

(* acceptQuotation records the quotation's version; terms is what was seen.  *)
Accept(f) ==
  /\ MayAccept(f)
  /\ accepted' = accepted \cup {[version |-> version, terms |-> f.terms]}
  /\ UNCHANGED <<version, approvedVersion, terms, validUntil, sent, request, proposals,
                 snapshots, expiring, cleared, seen>>
  /\ IF approvedVersion # version THEN UNCHANGED <<status, order>>
     ELSE CreateOrder(status)

-------------------------------------------------------------------------------
(* Time *)

(* The validity date passes. *)
Lapse ==
  /\ validUntil = "ahead"
  /\ validUntil' = "past"
  /\ UNCHANGED <<status, version, approvedVersion, terms, sent, request, accepted, proposals,
                 order, snapshots, expiring, cleared, seen>>

(* expireQuotations selects without a lock,                                 *)
PickExpired ==
  /\ OnOffer /\ validUntil = "past"
  /\ ~expiring
  /\ expiring' = TRUE
  /\ UNCHANGED <<quote, request, accepted, proposals, order, snapshots, cleared, seen>>

(* Mutant of Expire: whatever was selected expires. *)
ExpireSelected ==
  /\ expiring
  /\ expiring' = FALSE
  /\ status' = "EXPIRED"
  /\ UNCHANGED <<version, approvedVersion, terms, validUntil, sent, request, accepted,
                 proposals, order, snapshots, cleared, seen>>

(* then locks and checks again.                                             *)
Expire ==
  /\ expiring
  /\ expiring' = FALSE
  /\ status' = IF OnOffer /\ validUntil = "past" THEN "EXPIRED" ELSE status
  /\ UNCHANGED <<version, approvedVersion, terms, validUntil, sent, request, accepted,
                 proposals, order, snapshots, cleared, seen>>

-------------------------------------------------------------------------------
Decide == \E a \in Staff, f \in seen : ApproveStep(a, f) \/ ApproveLast(a, f) \/ RejectOrReturn(a, f)

Next == \/ Edit \/ Cancel \/ SubmitForApproval \/ Send
        \/ \E a \in Staff : Revise(a)
        \/ Decide
        \/ SubmitProposals \/ AutoApplyProposals \/ ApplyProposal \/ DropProposal
        \/ \E f \in seen : Accept(f)
        \/ Lapse \/ PickExpired \/ Expire

Spec == Init /\ [][Next]_vars

-------------------------------------------------------------------------------
(* Properties *)

Statuses == {"DRAFT", "PENDING_APPROVAL", "REVISION_REQUESTED", "REJECTED", "APPROVED", "SENT",
             "UNDER_NEGOTIATION", "CONFIRMED", "EXPIRED", "CANCELLED"}

TypeOK == /\ status \in Statuses
          /\ version \in Nat
          /\ approvedVersion \in Nat
          /\ terms \in Terms \cup {NoTerms}
          /\ validUntil \in {"none", "ahead", "past"}
          /\ sent \in BOOLEAN
          /\ request \in Request
          /\ accepted \subseteq Offer
          /\ proposals \in Nat
          /\ order \in Offer \cup {NoOrder}
          /\ snapshots \subseteq QuotationVersion
          /\ expiring \in BOOLEAN
          /\ cleared \subseteq Offer
          /\ seen \subseteq Offer

(* A version number never stands for two different terms, neither on pages   *)
(* nor in the immutable snapshots: every path that changes the terms counts  *)
(* the version up (finishEdit, reviseInTx, evaluateAndRoute).                *)
VersionNamesTerms ==
  \A x \in seen, y \in seen \cup snapshots : x.version = y.version => x.terms = y.terms

(* What a customer may be shown as an offer has been cleared, as it stands,  *)
(* by the policy or by its reviewers.                                        *)
OfferIsCleared ==
  status \in {"APPROVED", "SENT", "UNDER_NEGOTIATION", "CONFIRMED"} =>
    approvedVersion = version /\ Current \in cleared

(* The approvals list shows a request exactly while the quotation waits for  *)
(* it, and for the version under review (reviseInTx, cancelQuotation and     *)
(* evaluateAndRoute supersede it).                                           *)
PendingRequestIsCurrent ==
  request.status = "PENDING" <=> (status = "PENDING_APPROVAL" /\ request.version = version)

(* Terms that reviewers cleared were in front of each reviewer of the route, *)
(* in its order, when they approved.                                         *)
ReviewersSawTheTerms ==
  request.status = "APPROVED" =>
    /\ Len(request.approvals) = Len(request.route)
    /\ \A i \in DOMAIN request.route :
         /\ RoleOf[request.approvals[i].by] \in {request.route[i], "ADMIN"}
         /\ [version |-> request.version, terms |-> request.approvals[i].terms] \in cleared

(* An order carries the version and the terms the customer accepted and the  *)
(* company cleared, whichever of the two came last (createOrderFromQuotation).*)
OrderIsAgreed == order # NoOrder => order \in accepted /\ order \in cleared

(* No acceptance is left behind: for the current version it is an order, or  *)
(* waits for reviewers, or was answered by a rejection or a return.          *)
AcceptanceIsAnswered ==
  (\E f \in accepted : f.version = version) =>
    status \in {"CONFIRMED", "PENDING_APPROVAL", "REJECTED", "REVISION_REQUESTED"}

(* Whichever of the seller, the reviewers and the customer moves next, no    *)
(* review and no acceptance is left open behind the quotation's back         *)
(* (evaluateAndRoute, reviseInTx and cancelQuotation supersede the request,  *)
(* acceptQuotation and decideStep turn the acceptance into an order).        *)
NothingLeftOpen == PendingRequestIsCurrent /\ AcceptanceIsAnswered

(* No order is made over an unanswered request of the customer. *)
NoOpenProposalOrdered == status = "CONFIRMED" => proposals = 0

(* Once ordered, neither the expiry job, which selected the offer before it  *)
(* was accepted, nor a stale page changes the quotation (expireQuotations    *)
(* checks again under the lock, and so does every call from a page).         *)
ConfirmedIsFinal ==
  [][status = "CONFIRMED" => status' = "CONFIRMED" /\ order' = order /\ terms' = terms]_vars

(* The two sides' consents and the order behave as the agreement promises.   *)
Agreed == INSTANCE Agreement WITH Offers <- Offer
ImplementsAgreement == Agreed!Spec
===============================================================================
