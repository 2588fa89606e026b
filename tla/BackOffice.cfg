CONSTANTS
  Parts = {"mail", "links", "policies", "staff", "plans", "health", "dates"}
  Messages = {"m1", "m2"}
  SignIns = {"m1"}
  Senders = {"s1", "s2"}
  MaxAttempts = 2
  Limit = 2
  MaxFaults = 1
  Requests = {"q1", "q2"}
  Visits = {"v1", "v2"}
  Lifetime = 2
  Window = 2
  MaxPerWindow = 1
  MaxTime = 3
  Editors = {"e1", "e2"}
  Payloads = {"p1"}
  MaxVersions = 3
  Users = {"u1", "u2", "u3"}
  Roles = {"ADMIN", "SALES_REP"}
  Bootstrap = {"u3"}
  Definitions = {"d1", "d2"}
  Tiers = {"t1"}
  Cycles = {"MONTHLY", "YEARLY"}
  Values = {"low", "high"}
  Unset = "unset"
  AllCycles = "ALL"
  Holders = {"h1"}
  NoPlan = NoPlan
  MaxEdits = 3
  Quotes = {"q1"}
  Orders = {"o1"}
  Scanners = {"j1"}
  Listeners = {"l1"}
  Intervals = {"WEEKLY", "MONTHLY", "QUARTERLY", "YEARLY"}
  Anchors <- MCAnchors
  Waits = {1, 40}
  LastMonth = 38
SPECIFICATION Spec
INVARIANTS TriesAreBounded LinksOpenOneSession PublicationsInOrder PeriodsKeepTheAnchor
PROPERTIES MailSettles HoldersAreTold AlertsFollowFindings
CHECK_DEADLOCK FALSE
