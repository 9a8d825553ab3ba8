\* Two reports and a ticket about a user, two requests about the ticket.
SPECIFICATION CaseFairSpec
CONSTANTS
  Reports = {r1, r2}
  Tickets = {t1}
  Reviewers = {h1, h2}
  NoCase = NoCase
CHECK_DEADLOCK FALSE
INVARIANTS LockKeepsDecisions
PROPERTIES DecisionsStay TempLockEnds
