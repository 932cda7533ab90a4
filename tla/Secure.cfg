SPECIFICATION MCSpec
CONSTANTS
  Conns = {1, 2} IDs = {1, 2} Flaws = {"none", "bad"} Freshness = 1 Slack = 1 MaxTime = 1
  Offers <- MCOffers Accepts <- MCAccepts
INVARIANTS OneName EndsAgree OnlyLateRefused KeysCurrent AssociatedAlike StreamIntact
PROPERTIES AcceptedOnce
CHECK_DEADLOCK FALSE
