\* The pages of the browser client that save, each on its own.
SPECIFICATION Spec
CONSTANTS
  Store = {"A", "B"}
  None = None
  MaxCalls = 2
  MaxClicks = 5
  Form <- MCForm
  Profile <- MCProfile
  Home = "A"
  TxStore <- MCTxStore
  ItemStore <- MCItemStore
  MaxPlan = 2
  MatchingClicks = 6
  BankRow <- MCBankRow
  Approval <- MCApproval
  OpeningClicks = 8
  Key = {"k1", "k2"}
  Job = {"j1"}
  JobsClicks = 3
  Channel = {"c1", "c2", "c3"}
  Known = {"c1", "c2"}
  Day = {1}
  RevenueClicks = 4
  Route <- MCRoute
  StartPage = "/"
  Rights <- MCRights
  MaxTabs = 2
  TabsClicks = 3
INVARIANTS
  TypeOK SavedOnce InputKept PlanIsOwn NoBlindOverwrite UsedOnce
  DuplicatesAsked EndReloads GridIsOwn TabsFit
PROPERTIES
  ProgressEnds
\* The user may stop.
CHECK_DEADLOCK FALSE
