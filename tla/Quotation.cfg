CONSTANTS
  Terms = {T1, T2}
  NoTerms = NoTerms
  Staff = {"mia", "fin", "ada"}
  RoleOf <- MCRoleOf
  Owner = "mia"
  Routes <- MCRoutes
  NoOrder = NoOrder
  MaxVersion = 6
  MaxProposals = 1
SPECIFICATION Spec
INVARIANTS OfferIsCleared NothingLeftOpen ReviewersSawTheTerms NoOpenProposalOrdered
PROPERTIES ImplementsAgreement ConfirmedIsFinal
CHECK_DEADLOCK FALSE
