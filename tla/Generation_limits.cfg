SPECIFICATION Spec
CONSTANTS
  Tabs = {t1, t2}
  Requests = {r1, r2}
  DailyLimit = 2
  MonthlyBudget = 2
  Costs <- MCCosts
  MaxDrafts = 2
  MaxFaults = 1
  Scenes = {"limits", "drafts"}
SYMMETRY Symmetric
INVARIANTS DailyBounded MonthlyBounded OneSaveOnePlan
PROPERTIES DraftKept
CHECK_DEADLOCK FALSE
