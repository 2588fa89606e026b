--------------------------- MODULE Quotation_proofs ---------------------------
(***************************************************************************)
(* Proofs about Quotation, for every set of terms, every staff, every set  *)
(* of reviewer chains and any number of versions.                          *)
(***************************************************************************)
EXTENDS Quotation, SequenceTheorems, TLAPS

(* Both only group variables or what is done to one: always expanded.        *)
USE DEF quote, Show

-------------------------------------------------------------------------------
(* A snapshot is a row of the version table. *)
LEMMA SnapshotType ==
  ASSUME NEW v \in Nat, NEW t \in Terms \cup {NoTerms}, NEW valid
  PROVE  Snapshot(v, t, valid) \in QuotationVersion
BY DEF Snapshot, QuotationVersion

(* A superseded request differs from the request in its status only.         *)
LEMMA SupersededType ==
  ASSUME request \in Request
  PROVE  /\ Superseded \in Request
         /\ Superseded.status # "PENDING"
         /\ Superseded.status = "APPROVED" => Superseded = request
BY DEF Superseded, Request

(* An approval is recorded beside the earlier ones.                          *)
LEMMA WithApprovalType ==
  ASSUME request \in Request, NEW a \in Staff, NEW f \in Offer
  PROVE  WithApproval(a, f) \in Request
<1>1. [by |-> a, terms |-> f.terms] \in [by : Staff, terms : Terms \cup {NoTerms}]
  BY DEF Offer
<1>2. request.approvals \in Seq([by : Staff, terms : Terms \cup {NoTerms}])
  BY DEF Request
<1>3. Append(request.approvals, [by |-> a, terms |-> f.terms])
        \in Seq([by : Staff, terms : Terms \cup {NoTerms}])
  BY <1>1, <1>2, AppendProperties
<1> QED BY <1>3 DEF WithApproval, Request

(* What the evaluation of a submission leaves, whichever way it goes.        *)
LEMMA EvaluationType ==
  ASSUME request \in Request, cleared \subseteq Offer, seen \subseteq Offer,
         NEW v \in Nat, NEW t \in Terms \cup {NoTerms}, NEW pass,
         EvaluateAndRoute(v, t, pass)
  PROVE  /\ status' \in {pass, "PENDING_APPROVAL"}
         /\ version' = v + 1
         /\ terms' = t
         /\ approvedVersion' \in Nat
         /\ request' \in Request
         /\ cleared' \subseteq Offer
         /\ cleared \subseteq cleared'
         /\ seen' \subseteq Offer
<1>1. PICK route \in Routes :
        \/ /\ route = <<>>
           /\ status' = pass
           /\ approvedVersion' = version'
           /\ request' = Superseded
           /\ cleared' = cleared \cup {[version |-> version', terms |-> t]}
        \/ /\ route # <<>>
           /\ status' = "PENDING_APPROVAL"
           /\ approvedVersion' = 0
           /\ request' = NewRequest(version', route)
           /\ cleared' = cleared
  BY DEF EvaluateAndRoute
<1>2. version' = v + 1 /\ terms' = t
  BY DEF EvaluateAndRoute
<1>3. NewRequest(version', route) \in Request
  BY <1>2, QuotationAssumption DEF NewRequest, Request
<1>4. Superseded \in Request
  BY SupersededType
<1>5. seen' \subseteq Offer
  BY <1>2 DEF EvaluateAndRoute, Offer
<1> QED BY <1>1, <1>2, <1>3, <1>4, <1>5 DEF Offer

-------------------------------------------------------------------------------
(* Every variable keeps its type. *)
THEOREM TypeCorrect == Spec => []TypeOK
<1>1. Init => TypeOK
  <2> SUFFICES ASSUME Init PROVE TypeOK
    OBVIOUS
  <2>1. NoRequest \in Request
    BY DEF NoRequest, Request, Roles
  <2>2. version \in Nat /\ terms \in Terms \cup {NoTerms}
    BY DEF Init
  <2>3. snapshots \subseteq QuotationVersion
    BY <2>2, SnapshotType DEF Init
  <2>4. seen \subseteq Offer
    BY <2>2 DEF Init, Current, Offer
  <2> QED BY <2>1, <2>2, <2>3, <2>4 DEF Init, TypeOK, Statuses
<1>2. TypeOK /\ [Next]_vars => TypeOK'
  <2> SUFFICES ASSUME TypeOK, [Next]_vars
               PROVE  TypeOK'
    OBVIOUS
  <2> USE DEF TypeOK, Statuses, Offer, Request, Roles
  <2>1. CASE Edit
    <3>1. seen' \subseteq Offer
      BY <2>1 DEF Edit
    <3>2. snapshots' \subseteq QuotationVersion
      BY <2>1, SnapshotType DEF Edit
    <3> QED BY <2>1, <3>1, <3>2 DEF Edit
  <2>2. CASE Cancel
    BY <2>2, SupersededType DEF Cancel, Offer
  <2>3. CASE SubmitForApproval
    <3>1. EvaluateAndRoute(version, terms, "APPROVED")
      BY <2>3 DEF SubmitForApproval
    <3>2. /\ status' \in {"APPROVED", "PENDING_APPROVAL"}
          /\ version' = version + 1
          /\ terms' = terms
          /\ approvedVersion' \in Nat
          /\ request' \in Request
          /\ cleared' \subseteq Offer
          /\ seen' \subseteq Offer
      BY <3>1, EvaluationType
    <3>3. UNCHANGED <<validUntil, accepted, order, expiring>>
      BY <3>1 DEF EvaluateAndRoute
    <3>4. snapshots' \subseteq QuotationVersion
      BY <2>3, <3>2, SnapshotType DEF SubmitForApproval
    <3> QED BY <2>3, <3>2, <3>3, <3>4 DEF SubmitForApproval
  <2>4. CASE Send
    BY <2>4 DEF Send
  <2>5. ASSUME NEW a \in Staff, Revise(a) PROVE TypeOK'
    <3>1. snapshots' \subseteq QuotationVersion
      BY <2>5, SnapshotType DEF Revise
    <3> QED BY <2>5, <3>1, SupersededType DEF Revise
  <2>6. ASSUME NEW a \in Staff, NEW f \in seen, ApproveStep(a, f) PROVE TypeOK'
    <3>1. request \in Request /\ f \in Offer
      BY <2>6 DEF ApproveStep, MayDecide
    <3>2. WithApproval(a, f) \in Request
      BY <3>1, WithApprovalType
    <3>3. request' \in Request
      BY <2>6, <3>1, <3>2 DEF ApproveStep, Request
    <3> QED BY <2>6, <3>3 DEF ApproveStep
  <2>7. ASSUME NEW a \in Staff, NEW f \in seen, ApproveLast(a, f) PROVE TypeOK'
    <3>1. request \in Request /\ f \in Offer
      BY <2>7 DEF ApproveLast, MayDecide
    <3>2. WithApproval(a, f) \in Request
      BY <3>1, WithApprovalType
    <3>3. request' \in Request
      BY <2>7, <3>1, <3>2 DEF ApproveLast, Request
    <3>4. Current \in Offer
      BY DEF Current, Offer
    <3>5. status' \in Statuses /\ order' \in Offer \cup {NoOrder}
      BY <2>7, <3>4 DEF ApproveLast, CreateOrder
    <3> QED BY <2>7, <3>3, <3>4, <3>5 DEF ApproveLast
  <2>8. ASSUME NEW a \in Staff, NEW f \in seen, RejectOrReturn(a, f) PROVE TypeOK'
    <3>1. request \in Request
      BY <2>8 DEF RejectOrReturn, MayDecide
    <3>2. request' \in Request
      BY <2>8, <3>1 DEF RejectOrReturn, Request
    <3> QED BY <2>8, <3>2 DEF RejectOrReturn
  <2>9. CASE SubmitProposals
    BY <2>9 DEF SubmitProposals
  <2>10. ASSUME TakeEffect, proposals' \in Nat PROVE TypeOK'
    <3>1. PICK t \in Terms :
            /\ EvaluateAndRoute(version + 1, t, "SENT")
            /\ snapshots' = snapshots \cup {Snapshot(version + 1, terms, validUntil),
                                            Snapshot(version + 2, t, validUntil)}
      BY <2>10 DEF TakeEffect
    <3>3. UNCHANGED <<validUntil, accepted, order, expiring, sent>>
      BY <2>10, <3>1 DEF EvaluateAndRoute, TakeEffect
    <3>4. snapshots' \subseteq QuotationVersion
      BY <3>1, SnapshotType
    <3>5. version + 1 \in Nat
      OBVIOUS
    <3>6. /\ status' \in {"SENT", "PENDING_APPROVAL"}
          /\ version' = version + 1 + 1
          /\ terms' = t
          /\ approvedVersion' \in Nat
          /\ request' \in Request
          /\ cleared' \subseteq Offer
          /\ seen' \subseteq Offer
      BY <3>1, <3>5, EvaluationType
    <3> QED BY <2>10, <3>3, <3>4, <3>6
  <2>11. CASE AutoApplyProposals
    BY <2>10, <2>11 DEF AutoApplyProposals
  <2>12. CASE ApplyProposal
    BY <2>10, <2>12 DEF ApplyProposal
  <2>13. CASE DropProposal
    BY <2>13 DEF DropProposal
  <2>14. ASSUME NEW f \in seen, Accept(f) PROVE TypeOK'
    <3>1. Current \in Offer
      BY DEF Current, Offer
    <3> QED BY <2>14, <3>1 DEF Accept, CreateOrder
  <2>15. CASE Lapse
    BY <2>15 DEF Lapse
  <2>16. CASE PickExpired
    BY <2>16 DEF PickExpired
  <2>17. CASE Expire
    BY <2>17 DEF Expire
  <2>18. CASE UNCHANGED vars
    BY <2>18 DEF vars
  <2> QED
    BY <2>1, <2>2, <2>3, <2>4, <2>5, <2>6, <2>7, <2>8, <2>9, <2>11, <2>12, <2>13, <2>14,
       <2>15, <2>16, <2>17, <2>18 DEF Next, Decide
<1> QED BY <1>1, <1>2, PTL DEF Spec

-------------------------------------------------------------------------------
(* The calls that evaluate the terms: a submission, and a proposal that takes *)
(* effect.  The policy clears the offer they make, or reviewers have to.      *)
Evaluation == SubmitForApproval \/ AutoApplyProposals \/ ApplyProposal

Routed(pass) ==
  /\ seen' = seen \cup {[version |-> version', terms |-> terms']}
  /\ UNCHANGED <<accepted, order>>
  /\ \/ /\ status' = pass
        /\ approvedVersion' = version'
        /\ request' = Superseded
        /\ cleared' = cleared \cup {[version |-> version', terms |-> terms']}
     \/ /\ status' = "PENDING_APPROVAL"
        /\ \E route \in Routes : route # <<>> /\ request' = NewRequest(version', route)
        /\ cleared' = cleared

(* What an evaluation does, whichever call asked for it and however it went.  *)
LEMMA EvaluationFacts ==
  ASSUME TypeOK, Evaluation
  PROVE  /\ status \in {"DRAFT", "REVISION_REQUESTED", "SENT", "UNDER_NEGOTIATION"}
         /\ version' \in Nat /\ version' > version
         /\ \A y \in snapshots' :
              \/ y \in snapshots
              \/ /\ y.version > version /\ y.version <= version'
                 /\ y.version = version' => y.terms = terms'
         /\ \E pass \in {"APPROVED", "SENT"} : Routed(pass)
         /\ proposals' \in Nat /\ proposals' <= proposals
<1>1. ASSUME NEW v \in Nat, NEW t, NEW pass, EvaluateAndRoute(v, t, pass)
      PROVE  version' = v + 1 /\ terms' = t /\ Routed(pass)
  BY <1>1 DEF EvaluateAndRoute, Routed
<1>2. version \in Nat /\ proposals \in Nat
  BY DEF TypeOK
<1>3. CASE SubmitForApproval
  <2>1. EvaluateAndRoute(version, terms, "APPROVED")
    BY <1>3 DEF SubmitForApproval
  <2>2. version' = version + 1 /\ terms' = terms /\ Routed("APPROVED")
    BY <1>1, <1>2, <2>1
  <2>3. /\ snapshots' = snapshots \cup {Snapshot(version', terms, validUntil)}
        /\ proposals' = proposals
        /\ status \in {"DRAFT", "REVISION_REQUESTED"}
    BY <1>3 DEF SubmitForApproval, Editable
  <2>4. /\ Snapshot(version', terms, validUntil).version = version'
        /\ Snapshot(version', terms, validUntil).terms = terms
    BY DEF Snapshot
  <2> QED BY <1>2, <2>2, <2>3, <2>4
<1>4. CASE AutoApplyProposals \/ ApplyProposal
  <2>1. /\ TakeEffect
        /\ status \in {"SENT", "UNDER_NEGOTIATION"}
        /\ proposals' \in Nat /\ proposals' <= proposals
    BY <1>2, <1>4 DEF AutoApplyProposals, ApplyProposal, Negotiable, OnOffer
  <2>2. PICK t \in Terms :
          /\ EvaluateAndRoute(version + 1, t, "SENT")
          /\ snapshots' = snapshots \cup {Snapshot(version + 1, terms, validUntil),
                                          Snapshot(version + 2, t, validUntil)}
    BY <2>1 DEF TakeEffect
  <2>3. version' = version + 2 /\ terms' = t /\ Routed("SENT")
    <3>1. version + 1 \in Nat
      BY <1>2
    <3>2. version' = version + 1 + 1 /\ terms' = t /\ Routed("SENT")
      BY <1>1, <2>2, <3>1
    <3> QED BY <1>2, <3>2
  <2>4. /\ Snapshot(version + 1, terms, validUntil).version = version + 1
        /\ Snapshot(version + 2, t, validUntil).version = version + 2
        /\ Snapshot(version + 2, t, validUntil).terms = t
    BY DEF Snapshot
  <2> QED BY <1>2, <2>1, <2>2, <2>3, <2>4
<1> QED BY <1>3, <1>4 DEF Evaluation

-------------------------------------------------------------------------------
(* The versions on pages and in snapshots never run ahead of the quotation,   *)
(* and what carries its present version carries its present terms.            *)
TermsInv == /\ \A x \in seen \cup snapshots : x.version <= version
            /\ \A x \in seen \cup snapshots : x.version = version => x.terms = terms
            /\ VersionNamesTerms
            /\ accepted \subseteq seen

(* Versions and terms stay tied to each other in this way. *)
THEOREM TermsInvariant == Spec => []TermsInv
<1>1. Init => TermsInv
  BY DEF Init, TermsInv, VersionNamesTerms, Current, Snapshot
<1>2. TypeOK /\ TermsInv /\ [Next]_vars => TermsInv'
  <2> SUFFICES ASSUME TypeOK, TermsInv, [Next]_vars
               PROVE  TermsInv'
    OBVIOUS
  <2> USE DEF TermsInv, VersionNamesTerms
  <2>1. /\ version \in Nat
        /\ seen \subseteq Offer /\ snapshots \subseteq QuotationVersion
        /\ \A x \in seen \cup snapshots : x.version \in Nat
    BY DEF TypeOK, Offer, QuotationVersion
  <2>2. ASSUME version' \in Nat, version' > version,
               seen' = seen \cup {[version |-> version', terms |-> terms']},
               \A y \in snapshots' :
                 \/ y \in snapshots
                 \/ /\ y.version > version /\ y.version <= version'
                    /\ y.version = version' => y.terms = terms',
               accepted' = accepted
        PROVE  TermsInv'
    BY <2>1, <2>2
  <2>3. CASE Edit
    <3>1. /\ version' = version + 1
          /\ snapshots' = snapshots \cup {Snapshot(version', terms', validUntil')}
          /\ seen' = seen \cup {[version |-> version', terms |-> terms']}
          /\ accepted' = accepted
      BY <2>3 DEF Edit
    <3> QED BY <2>1, <2>2, <3>1 DEF Snapshot
  <2>4. ASSUME NEW a \in Staff, Revise(a) PROVE TermsInv'
    <3>1. /\ version' = version + 1 /\ terms' = terms
          /\ snapshots' = snapshots \cup {Snapshot(version', terms, validUntil)}
          /\ seen' = seen \cup {[version |-> version', terms |-> terms']}
          /\ accepted' = accepted
      BY <2>4 DEF Revise
    <3> QED BY <2>1, <2>2, <3>1 DEF Snapshot
  <2>5. CASE Cancel
    BY <2>1, <2>2, <2>5 DEF Cancel
  <2>6. CASE Evaluation
    BY <2>2, <2>6, EvaluationFacts DEF Routed
  <2>7. ASSUME UNCHANGED <<version, terms, snapshots, accepted, seen>> PROVE TermsInv'
    BY <2>7
  <2>8. CASE Send \/ SubmitProposals \/ DropProposal \/ Lapse \/ PickExpired \/ Expire
    BY <2>7, <2>8 DEF Send, SubmitProposals, DropProposal, Lapse, PickExpired, Expire
  <2>9. CASE Decide
    BY <2>7, <2>9 DEF Decide, ApproveStep, ApproveLast, RejectOrReturn
  <2>10. ASSUME NEW f \in seen, Accept(f) PROVE TermsInv'
    <3>1. f.version = version /\ f \in Offer
      BY <2>1, <2>10 DEF Accept, MayAccept
    <3>2. [version |-> version, terms |-> f.terms] = f
      BY <3>1 DEF Offer
    <3> QED BY <2>10, <3>2 DEF Accept
  <2>11. CASE UNCHANGED vars
    BY <2>7, <2>11 DEF vars
  <2> QED
    BY <2>3, <2>4, <2>5, <2>6, <2>8, <2>9, <2>10, <2>11 DEF Next, Evaluation
<1> QED BY <1>1, <1>2, TypeCorrect, PTL DEF Spec

(* A version number never stands for two different terms. *)
THEOREM VersionsNameTerms == Spec => []VersionNamesTerms
<1>1. TermsInv => VersionNamesTerms
  BY DEF TermsInv
<1> QED BY <1>1, TermsInvariant, PTL

-------------------------------------------------------------------------------
(* What can be on offer, or has been ordered, is cleared as it stands.        *)
THEOREM OffersAreCleared == Spec => []OfferIsCleared
<1>1. Init => OfferIsCleared
  BY DEF Init, OfferIsCleared
<1>2. TypeOK /\ OfferIsCleared /\ [Next]_vars => OfferIsCleared'
  <2> SUFFICES ASSUME TypeOK, OfferIsCleared, [Next]_vars
               PROVE  OfferIsCleared'
    OBVIOUS
  <2> USE DEF OfferIsCleared, Current
  <2>1. CASE Edit
    BY <2>1 DEF Edit, Editable
  <2>2. ASSUME NEW a \in Staff, Revise(a) PROVE OfferIsCleared'
    BY <2>2 DEF Revise
  <2>3. CASE Cancel
    BY <2>3 DEF Cancel
  <2>4. CASE Evaluation
    BY <2>4, EvaluationFacts DEF Routed
  <2>5. ASSUME NEW a \in Staff, NEW f \in seen, ApproveLast(a, f) PROVE OfferIsCleared'
    BY <2>5 DEF ApproveLast
  <2>6. ASSUME NEW a \in Staff, NEW f \in seen, RejectOrReturn(a, f) PROVE OfferIsCleared'
    BY <2>6 DEF RejectOrReturn
  <2>7. ASSUME NEW a \in Staff, NEW f \in seen, ApproveStep(a, f) PROVE OfferIsCleared'
    BY <2>7 DEF ApproveStep
  <2>8. CASE Send
    BY <2>8 DEF Send
  <2>9. CASE SubmitProposals
    BY <2>9 DEF SubmitProposals, Negotiable, OnOffer
  <2>10. ASSUME NEW f \in seen, Accept(f) PROVE OfferIsCleared'
    BY <2>10 DEF Accept, CreateOrder
  <2>11. CASE DropProposal \/ Lapse \/ PickExpired \/ Expire
    BY <2>11 DEF DropProposal, Lapse, PickExpired, Expire
  <2>12. CASE UNCHANGED vars
    BY <2>12 DEF vars
  <2> QED
    BY <2>1, <2>2, <2>3, <2>4, <2>5, <2>6, <2>7, <2>8, <2>9, <2>10, <2>11, <2>12
    DEF Next, Decide, Evaluation
<1> QED BY <1>1, <1>2, TypeCorrect, PTL DEF Spec

-------------------------------------------------------------------------------
(* An order is made in one of two places, and of the current offer: an        *)
(* acceptance of a cleared offer, or the last approval of an accepted one.    *)
LEMMA OrderStep ==
  ASSUME TypeOK, TermsInv, OfferIsCleared, [Next]_vars
  PROVE  \/ order' = order
         \/ /\ order = NoOrder
            /\ order' \in cleared' \cap accepted'
            /\ order' # NoOrder
<1>1. CASE order' = order
  BY <1>1
<1>2. Current \in Offer /\ Current # NoOrder
  BY QuotationAssumption DEF TypeOK, Current, Offer
<1>3. ASSUME NEW f \in seen, f.version = version PROVE f = Current
  BY <1>3 DEF TermsInv, TypeOK, Offer, Current
<1>4. ASSUME NEW a \in Staff, NEW f \in seen, ApproveLast(a, f), order' # order
      PROVE  order = NoOrder /\ order' = Current /\ Current \in cleared' \cap accepted'
  <2>1. CreateOrder("APPROVED") /\ accepted' = accepted /\ cleared' = cleared \cup {Current}
    BY <1>4 DEF ApproveLast
  <2>2. PICK g \in accepted : g.version = version
    BY <2>1 DEF CreateOrder
  <2>3. g = Current
    BY <1>3, <2>2 DEF TermsInv
  <2> QED BY <2>1, <2>2, <2>3 DEF CreateOrder
<1>5. ASSUME NEW f \in seen, Accept(f), order' # order
      PROVE  order = NoOrder /\ order' = Current /\ Current \in cleared' \cap accepted'
  <2>1. /\ CreateOrder(status)
        /\ f.version = version
        /\ accepted' = accepted \cup {[version |-> version, terms |-> f.terms]}
        /\ cleared' = cleared
    BY <1>5 DEF Accept, MayAccept
  <2>2. Current \in cleared
    BY <2>1 DEF CreateOrder, OfferIsCleared
  <2>3. f = Current
    BY <1>3, <2>1
  <2> QED BY <2>1, <2>2, <2>3 DEF CreateOrder, Current
<1>6. CASE Evaluation
  BY <1>6, EvaluationFacts DEF Routed
<1>7. CASE UNCHANGED order
  BY <1>7
<1> QED
  BY <1>1, <1>2, <1>4, <1>5, <1>6, <1>7
  DEF Next, Decide, Evaluation, Edit, Revise, Cancel, ApproveStep, RejectOrReturn, Send,
      SubmitProposals, DropProposal, Lapse, PickExpired, Expire, vars

(* Neither side's consent is ever taken back. *)
LEMMA ConsentStep ==
  ASSUME TypeOK, [Next]_vars
  PROVE  cleared \subseteq cleared' /\ accepted \subseteq accepted'
<1>1. CASE Evaluation
  BY <1>1, EvaluationFacts DEF Routed
<1>2. CASE Decide
  BY <1>2 DEF Decide, ApproveStep, ApproveLast, RejectOrReturn
<1>3. ASSUME NEW f \in seen, Accept(f)
      PROVE  cleared \subseteq cleared' /\ accepted \subseteq accepted'
  BY <1>3 DEF Accept
<1> QED
  BY <1>1, <1>2, <1>3 DEF Next, Evaluation, Edit, Revise, Cancel, Send, SubmitProposals,
                          DropProposal, Lapse, PickExpired, Expire, vars

(* An order carries what the customer accepted and the company cleared.       *)
THEOREM OrdersAreAgreed == Spec => []OrderIsAgreed
<1>1. Init => OrderIsAgreed
  BY DEF Init, OrderIsAgreed
<1>2. TypeOK /\ TermsInv /\ OfferIsCleared /\ OrderIsAgreed /\ [Next]_vars => OrderIsAgreed'
  <2> SUFFICES ASSUME TypeOK, TermsInv, OfferIsCleared, OrderIsAgreed, [Next]_vars
               PROVE  OrderIsAgreed'
    OBVIOUS
  <2>1. cleared \subseteq cleared' /\ accepted \subseteq accepted'
    BY ConsentStep
  <2>2. \/ order' = order
        \/ order' \in cleared' \cap accepted'
    BY OrderStep
  <2> QED BY <2>1, <2>2 DEF OrderIsAgreed
<1> QED BY <1>1, <1>2, TypeCorrect, TermsInvariant, OffersAreCleared, PTL DEF Spec

(* The quotation implements the agreement: consents accumulate, and one order *)
(* at most is made, of an offer both sides consent to.                        *)
THEOREM QuotationImplementsAgreement == Spec => ImplementsAgreement
<1>1. Init => Agreed!Init
  BY DEF Init, Agreed!Init
<1>2. TypeOK /\ TypeOK' /\ TermsInv /\ OfferIsCleared /\ [Next]_vars => [Agreed!Next]_Agreed!vars
  <2> SUFFICES ASSUME TypeOK, TypeOK', TermsInv, OfferIsCleared, [Next]_vars
               PROVE  Agreed!Next
    OBVIOUS
  <2>1. Agreed!Consent
    BY ConsentStep DEF Agreed!Consent, TypeOK, Offer
  <2>2. Agreed!Place \/ order' = order
    BY OrderStep DEF Agreed!Place
  <2> QED BY <2>1, <2>2 DEF Agreed!Next
<1> QED
  BY <1>1, <1>2, TypeCorrect, TermsInvariant, OffersAreCleared, PTL
  DEF Spec, ImplementsAgreement, Agreed!Spec

-------------------------------------------------------------------------------
(* After the order, late jobs and stale pages leave the quotation alone: every *)
(* call that would change it checks the status under the lock.                *)
THEOREM ConfirmedStays == Spec => ConfirmedIsFinal
<1>1. TypeOK /\ [Next]_vars =>
        [status = "CONFIRMED" => status' = "CONFIRMED" /\ order' = order /\ terms' = terms]_vars
  <2> SUFFICES ASSUME TypeOK, [Next]_vars, status = "CONFIRMED"
               PROVE  status' = "CONFIRMED" /\ order' = order /\ terms' = terms
    OBVIOUS
  <2>1. ~Evaluation
    BY EvaluationFacts
  <2>2. ~Decide
    BY DEF Decide, ApproveStep, ApproveLast, RejectOrReturn, MayDecide
  <2>3. \A f \in seen : ~Accept(f)
    BY DEF Accept, MayAccept
  <2>4. ~(Edit \/ Cancel \/ Send \/ SubmitProposals) /\ \A a \in Staff : ~Revise(a)
    BY DEF Edit, Editable, Cancel, Send, SubmitProposals, Negotiable, OnOffer, Revise
  <2>5. CASE DropProposal \/ Lapse \/ PickExpired \/ Expire
    BY <2>5 DEF DropProposal, Lapse, PickExpired, Expire, OnOffer
  <2>6. CASE UNCHANGED vars
    BY <2>6 DEF vars
  <2> QED BY <2>1, <2>2, <2>3, <2>4, <2>5, <2>6 DEF Next, Evaluation
<1> QED BY <1>1, TypeCorrect, PTL DEF Spec, ConfirmedIsFinal

-------------------------------------------------------------------------------
(* The status of a request after each way it can change. *)
LEMMA RequestStatus ==
  ASSUME request \in Request
  PROVE  /\ \A a \in Staff, f \in Offer : /\ WithApproval(a, f).status = request.status
                                          /\ WithApproval(a, f).version = request.version
                                          /\ WithApproval(a, f).route = request.route
         /\ \A r \in Request, s \in {"APPROVED", "REJECTED", "RETURNED"} :
              [r EXCEPT !.status = s].status = s
BY DEF WithApproval, Request

(* A request is pending exactly while its version waits for approval. *)
THEOREM PendingRequestsAreCurrent == Spec => []PendingRequestIsCurrent
<1>1. Init => PendingRequestIsCurrent
  BY DEF Init, PendingRequestIsCurrent, NoRequest
<1>2. TypeOK /\ PendingRequestIsCurrent /\ [Next]_vars => PendingRequestIsCurrent'
  <2> SUFFICES ASSUME TypeOK, PendingRequestIsCurrent, [Next]_vars
               PROVE  PendingRequestIsCurrent'
    OBVIOUS
  <2> USE DEF PendingRequestIsCurrent
  <2>1. request \in Request /\ Superseded.status # "PENDING"
    BY SupersededType DEF TypeOK
  <2>2. \A f \in seen : f \in Offer
    BY DEF TypeOK
  <2>3. CASE Edit
    BY <2>3 DEF Edit, Editable
  <2>4. CASE Cancel \/ \E a \in Staff : Revise(a)
    BY <2>1, <2>4 DEF Cancel, Revise
  <2>5. CASE Evaluation
    BY <2>1, <2>5, EvaluationFacts DEF Routed, NewRequest
  <2>6. ASSUME NEW a \in Staff, NEW f \in seen, ApproveStep(a, f)
        PROVE  PendingRequestIsCurrent'
    BY <2>1, <2>2, <2>6, RequestStatus DEF ApproveStep
  <2>7. ASSUME NEW a \in Staff, NEW f \in seen, ApproveLast(a, f)
        PROVE  PendingRequestIsCurrent'
    <3>1. request'.status = "APPROVED"
      BY <2>1, <2>2, <2>7, RequestStatus, WithApprovalType DEF ApproveLast
    <3>2. status' # "PENDING_APPROVAL"
      BY <2>7 DEF ApproveLast, CreateOrder
    <3> QED BY <3>1, <3>2
  <2>8. ASSUME NEW a \in Staff, NEW f \in seen, RejectOrReturn(a, f)
        PROVE  PendingRequestIsCurrent'
    <3>1. request'.status # "PENDING"
      BY <2>1, <2>8, RequestStatus DEF RejectOrReturn
    <3>2. status' # "PENDING_APPROVAL"
      BY <2>8 DEF RejectOrReturn
    <3> QED BY <3>1, <3>2
  <2>9. ASSUME NEW f \in seen, Accept(f) PROVE PendingRequestIsCurrent'
    BY <2>9 DEF Accept, CreateOrder
  <2>10. CASE Send \/ SubmitProposals
    BY <2>10 DEF Send, SubmitProposals, Negotiable, OnOffer
  <2>11. CASE DropProposal \/ Lapse \/ PickExpired \/ Expire
    BY <2>11 DEF DropProposal, Lapse, PickExpired, Expire, OnOffer
  <2>12. CASE UNCHANGED vars
    BY <2>12 DEF vars
  <2> QED
    BY <2>3, <2>4, <2>5, <2>6, <2>7, <2>8, <2>9, <2>10, <2>11, <2>12 DEF Next, Decide, Evaluation
<1> QED BY <1>1, <1>2, TypeCorrect, PTL DEF Spec

-------------------------------------------------------------------------------
(* An accepted version has no request of the customer left open: Accept       *)
(* refuses while there is one, and none can be opened afterwards.             *)
AcceptedCurrent == \E f \in accepted : f.version = version
AnswerInv == AcceptanceIsAnswered /\ NoOpenProposalOrdered /\ (AcceptedCurrent => proposals = 0)

(* Acceptances get their answer, and no order leaves a proposal unanswered.   *)
THEOREM AcceptancesAreAnswered == Spec => [](AcceptanceIsAnswered /\ NoOpenProposalOrdered)
<1>1. Init => AnswerInv
  BY DEF Init, AnswerInv, AcceptanceIsAnswered, NoOpenProposalOrdered, AcceptedCurrent
<1>2. TypeOK /\ TermsInv /\ OfferIsCleared /\ AnswerInv /\ [Next]_vars => AnswerInv'
  <2> SUFFICES ASSUME TypeOK, TermsInv, OfferIsCleared, AnswerInv, [Next]_vars
               PROVE  AnswerInv'
    OBVIOUS
  <2> USE DEF AnswerInv, AcceptanceIsAnswered, NoOpenProposalOrdered, AcceptedCurrent
  <2>1. /\ version \in Nat /\ proposals \in Nat
        /\ \A f \in accepted : f.version \in Nat /\ f.version <= version
    BY DEF TypeOK, TermsInv, Offer
  <2>2. ASSUME version' \in Nat, version' > version, accepted' = accepted,
               status' # "CONFIRMED"
        PROVE  AnswerInv'
    BY <2>1, <2>2
  <2>3. CASE Edit
    BY <2>1, <2>2, <2>3 DEF Edit, Editable
  <2>4. CASE Cancel \/ \E a \in Staff : Revise(a)
    BY <2>1, <2>2, <2>4 DEF Cancel, Revise
  <2>5. CASE Evaluation
    BY <2>2, <2>5, EvaluationFacts DEF Routed
  <2>6. ASSUME NEW a \in Staff, NEW f \in seen, ApproveLast(a, f) PROVE AnswerInv'
    BY <2>6 DEF ApproveLast, CreateOrder, AcceptanceWaits
  <2>7. ASSUME NEW a \in Staff, NEW f \in seen, ApproveStep(a, f) \/ RejectOrReturn(a, f)
        PROVE  AnswerInv'
    BY <2>7 DEF ApproveStep, RejectOrReturn
  <2>8. ASSUME NEW f \in seen, Accept(f) PROVE AnswerInv'
    <3>1. proposals' = 0
      BY <2>8 DEF Accept, MayAccept
    <3>2. status' \in {"CONFIRMED", "PENDING_APPROVAL"}
      BY <2>8 DEF Accept, MayAccept, CreateOrder, OfferIsCleared
    <3> QED BY <3>1, <3>2
  <2>9. CASE Send \/ SubmitProposals
    BY <2>9 DEF Send, SubmitProposals, Negotiable, OnOffer
  <2>10. CASE DropProposal
    BY <2>1, <2>10 DEF DropProposal
  <2>11. CASE Lapse \/ PickExpired \/ Expire
    BY <2>11 DEF Lapse, PickExpired, Expire, OnOffer
  <2>12. CASE UNCHANGED vars
    BY <2>12 DEF vars
  <2> QED
    BY <2>3, <2>4, <2>5, <2>6, <2>7, <2>8, <2>9, <2>10, <2>11, <2>12 DEF Next, Decide, Evaluation
<1>3. AnswerInv => AcceptanceIsAnswered /\ NoOpenProposalOrdered
  BY DEF AnswerInv
<1> QED BY <1>1, <1>2, <1>3, TypeCorrect, TermsInvariant, OffersAreCleared, PTL DEF Spec

(* No order is made over a request the customer has not had an answer to.     *)
THEOREM OrdersAnswerProposals == Spec => []NoOpenProposalOrdered
<1>1. AcceptanceIsAnswered /\ NoOpenProposalOrdered => NoOpenProposalOrdered
  OBVIOUS
<1> QED BY <1>1, AcceptancesAreAnswered, PTL

(* Neither a review nor an acceptance is left open behind the quotation.      *)
THEOREM NothingIsLeftOpen == Spec => []NothingLeftOpen
<1>1. PendingRequestIsCurrent /\ AcceptanceIsAnswered /\ NoOpenProposalOrdered => NothingLeftOpen
  BY DEF NothingLeftOpen
<1> QED BY <1>1, PendingRequestsAreCurrent, AcceptancesAreAnswered, PTL

-------------------------------------------------------------------------------
(* While reviewers work through a route, each approval so far is by the       *)
(* reviewer the route names and on the terms the quotation still has.         *)
ApprovedSoFar(r, t) ==
  \A i \in 1..Len(r.approvals) : /\ RoleOf[r.approvals[i].by] \in {r.route[i], "ADMIN"}
                                 /\ r.approvals[i].terms = t

ReviewInv == /\ request.status = "PENDING" =>
                  Len(request.approvals) < Len(request.route) /\ ApprovedSoFar(request, terms)
             /\ ReviewersSawTheTerms

(* What one more approval of the present terms adds to the earlier ones.      *)
LEMMA OneMoreApproval ==
  ASSUME request \in Request, NEW a \in Staff, NEW f \in Offer, f.terms = terms,
         RoleOf[a] \in {request.route[PendingStep], "ADMIN"}, ApprovedSoFar(request, terms)
  PROVE  /\ ApprovedSoFar(WithApproval(a, f), terms)
         /\ Len(WithApproval(a, f).approvals) = PendingStep
<1> DEFINE row == [by |-> a, terms |-> f.terms]
           rows == request.approvals
<1>1. rows \in Seq([by : Staff, terms : Terms \cup {NoTerms}])
  BY DEF Request
<1>2. row \in [by : Staff, terms : Terms \cup {NoTerms}]
  BY DEF Offer
<1>3. WithApproval(a, f).approvals = Append(rows, row) /\ WithApproval(a, f).route = request.route
  BY DEF WithApproval, Request
<1>4. /\ Len(Append(rows, row)) = Len(rows) + 1
      /\ \A i \in 1..Len(rows) : Append(rows, row)[i] = rows[i]
      /\ Append(rows, row)[Len(rows) + 1] = row
      /\ Len(rows) \in Nat
  <2> HIDE DEF row, rows
  <2> QED BY <1>1, <1>2, AppendProperties, LenProperties
<1>5. \A i \in 1..(Len(rows) + 1) : /\ RoleOf[Append(rows, row)[i].by] \in {request.route[i], "ADMIN"}
                                    /\ Append(rows, row)[i].terms = terms
  <2> SUFFICES ASSUME NEW i \in 1..(Len(rows) + 1)
               PROVE  /\ RoleOf[Append(rows, row)[i].by] \in {request.route[i], "ADMIN"}
                      /\ Append(rows, row)[i].terms = terms
    OBVIOUS
  <2>1. CASE i \in 1..Len(rows)
    <3>1. Append(rows, row)[i] = rows[i]
      BY <1>4, <2>1
    <3> QED BY <2>1, <3>1 DEF ApprovedSoFar
  <2>2. CASE i = Len(rows) + 1
    <3>1. Append(rows, row)[i] = row
      BY <1>4, <2>2
    <3> QED BY <2>2, <3>1 DEF PendingStep
  <2> QED BY <1>4, <2>1, <2>2
<1> QED BY <1>3, <1>4, <1>5 DEF ApprovedSoFar, PendingStep

(* What reviewers cleared, each of them had in front of them.                 *)
THEOREM ReviewersSeeTheTerms == Spec => []ReviewersSawTheTerms
<1>1. Init => ReviewInv
  BY DEF Init, ReviewInv, ReviewersSawTheTerms, NoRequest
<1>2. TypeOK /\ TermsInv /\ PendingRequestIsCurrent /\ ReviewInv /\ [Next]_vars => ReviewInv'
  <2> SUFFICES ASSUME TypeOK, TermsInv, PendingRequestIsCurrent, ReviewInv, [Next]_vars
               PROVE  ReviewInv'
    OBVIOUS
  <2>1. request \in Request /\ cleared \subseteq cleared'
    BY ConsentStep DEF TypeOK
  <2>2. ASSUME request' = request \/ request' = Superseded,
               request' = request /\ request.status = "PENDING" => terms' = terms
        PROVE  ReviewInv'
    <3>1. CASE request' = request
      BY <2>1, <2>2, <3>1 DEF ReviewInv, ReviewersSawTheTerms
    <3>2. CASE request' = Superseded
      <4>1. request'.status # "PENDING" /\ (request'.status = "APPROVED" => request' = request)
        BY <2>1, <3>2, SupersededType
      <4> QED BY <2>1, <4>1 DEF ReviewInv, ReviewersSawTheTerms
    <3> QED BY <2>2, <3>1, <3>2
  <2>3. CASE Edit
    BY <2>2, <2>3 DEF Edit, Editable, PendingRequestIsCurrent
  <2>4. CASE Cancel \/ \E a \in Staff : Revise(a)
    BY <2>2, <2>4 DEF Cancel, Revise
  <2>5. CASE Evaluation
    <3>1. CASE request' = Superseded
      <4>1. request.status # "PENDING"
        BY <2>5, EvaluationFacts DEF PendingRequestIsCurrent
      <4> QED BY <2>2, <3>1, <4>1
    <3>2. ASSUME NEW route \in Routes, route # <<>>, request' = NewRequest(version', route)
          PROVE  ReviewInv'
      <4>1. /\ request'.status = "PENDING"
            /\ request'.approvals = <<>>
            /\ request'.route = route
        BY <3>2 DEF NewRequest
      <4>2. Len(route) > 0
        BY <3>2, QuotationAssumption, EmptySeq
      <4> QED BY <4>1, <4>2 DEF ReviewInv, ReviewersSawTheTerms, ApprovedSoFar
    <3> QED BY <2>5, <3>1, <3>2, EvaluationFacts DEF Routed
  <2>6. ASSUME NEW a \in Staff, NEW f \in seen, MayDecide(a, f)
        PROVE  /\ f \in Offer /\ f.terms = terms
               /\ RoleOf[a] \in {request.route[PendingStep], "ADMIN"}
               /\ ApprovedSoFar(request, terms)
               /\ Len(request.approvals) < Len(request.route)
    BY <2>6 DEF MayDecide, TypeOK, TermsInv, ReviewInv
  <2>7. ASSUME NEW a \in Staff, NEW f \in seen, ApproveStep(a, f)
        PROVE  ReviewInv'
    <3>1. /\ request' = WithApproval(a, f) /\ terms' = terms
          /\ MayDecide(a, f) /\ PendingStep # Len(request.route)
          /\ request.status = "PENDING"
      BY <2>7 DEF ApproveStep, LastStep, MayDecide
    <3>2. /\ ApprovedSoFar(request', terms)
          /\ Len(request'.approvals) = PendingStep
      BY <2>1, <2>6, <3>1, OneMoreApproval
    <3>3. request'.route = request.route /\ request'.status = "PENDING"
      BY <2>1, <2>6, <3>1, RequestStatus
    <3>4. PendingStep < Len(request.route)
      BY <2>1, <2>6, <3>1, LenProperties DEF PendingStep, Request
    <3> QED BY <3>1, <3>2, <3>3, <3>4 DEF ReviewInv, ReviewersSawTheTerms
  <2>8. ASSUME NEW a \in Staff, NEW f \in seen, ApproveLast(a, f)
        PROVE  ReviewInv'
    <3>1. /\ request' = [WithApproval(a, f) EXCEPT !.status = "APPROVED"]
          /\ cleared' = cleared \cup {Current}
          /\ MayDecide(a, f) /\ PendingStep = Len(request.route)
          /\ request.status = "PENDING"
      BY <2>8 DEF ApproveLast, LastStep, MayDecide
    <3>2. WithApproval(a, f) \in Request
      BY <2>1, <2>6, <3>1, WithApprovalType
    <3>3. /\ request'.status = "APPROVED"
          /\ request'.approvals = WithApproval(a, f).approvals
          /\ request'.route = WithApproval(a, f).route
          /\ request'.version = WithApproval(a, f).version
      BY <3>1, <3>2 DEF Request
    <3>4. /\ WithApproval(a, f).route = request.route
          /\ WithApproval(a, f).version = version
      BY <2>1, <2>6, <3>1, RequestStatus DEF MayDecide
    <3>5. /\ ApprovedSoFar(WithApproval(a, f), terms)
          /\ Len(WithApproval(a, f).approvals) = Len(request.route)
      BY <2>1, <2>6, <3>1, OneMoreApproval
    <3>6. DOMAIN request.route = 1..Len(request.route)
      BY <2>1, LenProperties DEF Request
    <3> QED BY <3>1, <3>3, <3>4, <3>5, <3>6
            DEF ReviewInv, ReviewersSawTheTerms, ApprovedSoFar, Current
  <2>9. ASSUME NEW a \in Staff, NEW f \in seen, RejectOrReturn(a, f)
        PROVE  ReviewInv'
    <3>1. request'.status \in {"REJECTED", "RETURNED"}
      BY <2>1, <2>9, RequestStatus DEF RejectOrReturn
    <3> QED BY <3>1 DEF ReviewInv, ReviewersSawTheTerms
  <2>10. ASSUME UNCHANGED <<request, terms>> PROVE ReviewInv'
    BY <2>2, <2>10
  <2>11. ASSUME NEW f \in seen, Accept(f) PROVE ReviewInv'
    BY <2>10, <2>11 DEF Accept
  <2>12. CASE Send \/ SubmitProposals \/ DropProposal \/ Lapse \/ PickExpired \/ Expire
    BY <2>10, <2>12 DEF Send, SubmitProposals, DropProposal, Lapse, PickExpired, Expire
  <2>13. CASE UNCHANGED vars
    BY <2>10, <2>13 DEF vars
  <2> QED
    BY <2>3, <2>4, <2>5, <2>7, <2>8, <2>9, <2>11, <2>12, <2>13 DEF Next, Decide, Evaluation
<1>3. ReviewInv => ReviewersSawTheTerms
  BY DEF ReviewInv
<1> QED BY <1>1, <1>2, <1>3, TypeCorrect, TermsInvariant, PendingRequestsAreCurrent, PTL DEF Spec
===============================================================================
