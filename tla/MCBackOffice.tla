------------------------------ MODULE MCBackOffice ------------------------------
(* Instances for TLC of the small components.  They share no state, so     *)
(* each is explored by itself: part, chosen at the start, names it.        *)
EXTENDS EmailOutbox, PortalSignIn, PolicyCenter, StaffAccess, Catalogue, DealHealth, Calendar

CONSTANT Parts

VARIABLE part

vars == <<part, outboxVars, signInVars, policyVars, staffVars, catalogueVars, healthVars,
          calendarVars>>

MCAnchors == {30, 59, 365} \* 31 January, 29 February, 31 December

(* The parts that are not explored stay in an initial state.               *)
Init ==
  /\ part \in Parts
  /\ MailInit /\ SignInInit /\ PolicyInit /\ StaffInit /\ CatalogueInit /\ HealthInit
  /\ CalendarInit /\ (part # "dates" => anchor = 30 /\ interval = "MONTHLY")

MailMoves ==
  /\ part = "mail" /\ MailNext
  /\ UNCHANGED <<part, signInVars, policyVars, staffVars, catalogueVars, healthVars, calendarVars>>
LinksMove ==
  /\ part = "links" /\ SignInNext
  /\ UNCHANGED <<part, outboxVars, policyVars, staffVars, catalogueVars, healthVars, calendarVars>>
PoliciesMove ==
  /\ part = "policies" /\ PolicyNext
  /\ UNCHANGED <<part, outboxVars, signInVars, staffVars, catalogueVars, healthVars, calendarVars>>
StaffMoves ==
  /\ part = "staff" /\ StaffNext
  /\ UNCHANGED <<part, outboxVars, signInVars, policyVars, catalogueVars, healthVars, calendarVars>>
PlansMove ==
  /\ part = "plans" /\ CatalogueNext
  /\ UNCHANGED <<part, outboxVars, signInVars, policyVars, staffVars, healthVars, calendarVars>>
AlertsMove ==
  /\ part = "health" /\ HealthNext
  /\ UNCHANGED <<part, outboxVars, signInVars, policyVars, staffVars, catalogueVars, calendarVars>>
DatesMove ==
  /\ part = "dates" /\ CalendarNext
  /\ UNCHANGED <<part, outboxVars, signInVars, policyVars, staffVars, catalogueVars, healthVars>>

Next ==
  MailMoves \/ LinksMove \/ PoliciesMove \/ StaffMoves \/ PlansMove \/ AlertsMove \/ DatesMove

(* Where nothing is ever queued the fairness of the mail says nothing.     *)
Spec == Init /\ [][Next]_vars /\ MailFairness
================================================================================
