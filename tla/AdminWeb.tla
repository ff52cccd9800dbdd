------------------------------ MODULE AdminWeb ------------------------------
(***************************************************************************)
(* The pages of the browser client that change what the API keeps.  The    *)
(* tab shows one page, with the rows of the API that page works on.  A     *)
(* page is left by mounting another, which starts from its own initial     *)
(* state.                                                                  *)
(***************************************************************************)
EXTENDS Browser

CONSTANTS
  Form, Profile,                  \* the forms and row buttons; MaxClicks is theirs and Bank's
  Home, TxStore, ItemStore,       \* the reconciliation page
  MaxPlan, MatchingClicks,
  BankRow, Approval,              \* the pre-opening page
  OpeningClicks,
  Key,                            \* the bank page
  Job, JobsClicks,                \* the synchronization page
  Channel, Known, Day,            \* the revenue page
  RevenueClicks,
  Route, StartPage, Rights,       \* the row of open pages
  MaxTabs, TabsClicks

\* The channels that exist when the page is opened are some of those there may be; the days
\* of the period are numbered.
ASSUME ChannelsAssumption == Known \subseteq Channel
ASSUME DaysAssumption == Day \subseteq Nat

\* The client has the page "/", and there is room for a tab.
ASSUME PagesAssumption == StartPage \in DOMAIN Route /\ None \notin DOMAIN Route \cup {"login"}
ASSUME TabsAssumption == MaxTabs \in Nat \ {0}

\* The reconciliation page is opened with a store or none; bank rows belong to stores.
ASSUME StoresAssumption == Home \in Store \cup {None} /\ TxStore \in [DOMAIN TxStore -> Store]
ASSUME PlansAssumption == MaxPlan \in Nat /\ IsFiniteSet(DOMAIN ItemStore)

ASSUME JobsAssumption == IsFiniteSet(Job)
ASSUME TotalsAssumption == \A a \in DOMAIN Approval : Approval[a] \in Nat

\* None is told from whatever it stands for the absence of.
ASSUME KeysAssumption == None \notin Key

Submits == INSTANCE FormPages
Matching == INSTANCE ReconciliationPage WITH MaxClicks <- MatchingClicks
Opening == INSTANCE PreopeningPage WITH Bank <- BankRow, MaxClicks <- OpeningClicks
Bank == INSTANCE BankPage
Jobs == INSTANCE JobPolling WITH MaxClicks <- JobsClicks
Revenue == INSTANCE RevenueEntry WITH MaxClicks <- RevenueClicks
Tabs == INSTANCE PageTabs WITH Home <- StartPage, MaxClicks <- TabsClicks

ASSUME FormsAssumption == None \notin Bank!EntryForm

On(page) == ui.page = page

Init == \/ Submits!Init \/ Matching!Init \/ Opening!Init
        \/ Bank!Init \/ Jobs!Init \/ Revenue!Init \/ Tabs!Init

Next == \/ On("form") /\ Submits!Next
        \/ On("reconciliation") /\ Matching!Next
        \/ On("preopening") /\ Opening!Next
        \/ On("bank") /\ Bank!Next
        \/ On("jobs") /\ Jobs!Next
        \/ On("revenue") /\ Revenue!Next
        \/ On("tabs") /\ Tabs!Next

\* The jobs of the API end, and the calls about them.
Ends ==
  On("jobs") /\ \/ Jobs!ServeStart \/ Jobs!EndJob \/ Jobs!DoneStart
                \/ Jobs!ServeRead("tab") \/ Jobs!DoneTab
                \/ Jobs!ServeRead("list") \/ Jobs!DoneList

\* The timer of the page runs, answers in the cache grow old, and not every poll fails.
Fairness ==
  /\ WF_vars(Ends)
  /\ WF_vars(On("jobs") /\ Jobs!Expire)
  /\ WF_vars(On("jobs") /\ Jobs!Timer)
  /\ SF_vars(On("jobs") /\ Jobs!ServeRead("poll"))
  /\ SF_vars(On("jobs") /\ Jobs!PollAnswered)

Spec == Init /\ [][Next]_vars /\ Fairness
-----------------------------------------------------------------------------
\* Every page keeps the types of its state.
TypeOK ==
  /\ On("form") => Submits!TypeOK
  /\ On("reconciliation") => Matching!TypeOK
  /\ On("preopening") => Opening!TypeOK
  /\ On("bank") => Bank!TypeOK
  /\ On("jobs") => Jobs!TypeOK
  /\ On("revenue") => Revenue!TypeOK
  /\ On("tabs") => Tabs!TypeOK

\* A form saves a filling twice only after it has shown that the first time failed.
SavedOnce == On("form") => Submits!SavedOnce

\* A dialog that is locked while it saves loses nothing the user has entered since.
InputKept == On("form") => Submits!InputKept

\* The plan shown and saved with a match is the plan of its approval.
PlanIsOwn == On("reconciliation") => Matching!PlanIsOwn

\* Nobody overwrites an accounting plan without having seen it.
NoBlindOverwrite == On("reconciliation") => Matching!NoBlindOverwrite

\* Pre-opening matches never use a bank row twice or an approval beyond its total.
UsedOnce == On("preopening") => Opening!UsedOnce

\* The form for one bank row leaves no duplicate the user was not asked about.
DuplicatesAsked == On("bank") => Bank!DuplicatesAsked

\* The end of a job the page has noticed reaches the approval list it shows, unless the list
\* comes from the answers apiClient keeps for five seconds.
EndReloads == On("jobs") => Jobs!EndReloads

\* No job is shown as running for ever.
ProgressEnds == Jobs!ProgressEnds

\* The grid shows the selected channel, or an error, or what a late save brought back.
GridIsOwn == On("revenue") => Revenue!GridIsOwn

\* The row of open pages holds the page on the screen and no page the user may not see.
TabsFit == On("tabs") => Tabs!TabsFit
=============================================================================
