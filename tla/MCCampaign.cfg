CONSTANTS
  t1 = t1
  t2 = t2
  t3 = t3
  m1 = m1
  m2 = m2
  NoModel = NoModel
  Nobody = Nobody
  Trials <- MCTrials
  Order <- MCOrder
  Model <- MCModel
  Turns <- MCTurns
  Workers = 2
  Cap = 6
  Bound = 1
  Supplements = {1}
  Bills <- MCBills
  MaxLives = 2
  MaxFaults = 1
SPECIFICATION FairSpec
INVARIANTS NoTrialIsPlayedTwice SpendIsOnTheJournal RowsAreTrue
PROPERTIES CampaignKeepsTheCap InvocationEnds
\* nobody has to resume a campaign
CHECK_DEADLOCK FALSE
