------------------------------- MODULE Views -------------------------------
(***************************************************************************)
(* The profile of every view of ListPages: what its load function, its     *)
(* effects and the ends of its saves do about answers that overtake each   *)
(* other.  The words are those of ListPages.                               *)
(***************************************************************************)

Numbered == {"guarded", "gated"}

(* Money: bank rows, revenue, reconciliation. *)
BankList == Numbered \cup {"refreshes", "captures"}  \* saves reload initialFilters
BankSummary == {"refreshes", "captures", "quiet"}
BalanceHistory == {"fixed", "quiet"}
RevenueRecords == Numbered \cup {"captures"}
RevenueBaseData == {"fixed", "quiet"}
RevenueChannelsOfStore == {"quiet", "captures"}
RevenueWorkspace == Numbered \cup {"drops", "refreshes", "captures"}
ReconciliationRecords == Numbered \cup {"clears", "captures", "refreshes"}
KuailvPurchases == {"captures"}
MajorExpenseVouchers == {"captures"}
DetailExpenseItems == {"guarded", "drops", "quiet"}
ApprovalItemsInTable == {"fixed", "locked", "refreshes"}
ExpenseAttachments == {"fixed"}  \* a failure leaves an empty list, which counts as loaded
BankDetails == Numbered
BusinessDetail == {}
MatchingData == {"fixed", "refreshes", "drops", "saves"}
MatchingV2Data == {"fixed", "drops", "saves", "refreshes"}
SettlementSummary == {"guarded", "quiet", "captures", "modal"}
SettlementList == Numbered \cup {"clears", "captures", "modal", "refreshes", "dismissed"}
SettlementDetail == Numbered \cup {"clears", "captures", "modal", "dismissed"}
PartialApprovals == Numbered \cup {"refreshes"}

(* Approvals and their synchronization. *)
ApprovalTemplates == Numbered
Approvals == Numbered \cup {"clears", "saves"}
ApprovalDetail == Numbered
ChangeNotices == {"guarded", "quiet", "refreshes", "captures", "modal"}
DingTalkPage == {"fixed", "refreshes"}
DingTalkInstances == Numbered \cup {"clears", "saves", "dismissed"}
DingTalkMappings == {"captures"}
DingTalkInstanceDetail == Numbered
SyncTasks == {"refreshes", "saves"}
TemplatesTab == {"fixed", "refreshes", "saves"}
DepartmentPreview == {"fixed", "refreshes", "saves"}
ParseErrors == {"locked", "clears"}
DiagnoseApprovals == {"locked"}

(* Reports, dividends, the workspaces of a store. *)
FinancialReport == Numbered \cup {"clears"}
SpecialTransactions == Numbered \cup {"clears"}
ReportVouchers == Numbered \cup {"clears"}
CategoryDetail == {}
ExpenseVouchers == {}
DetailVouchers == {"clears", "quiet"}
Dividends == Numbered \cup {"clears", "bare"}
DividendOpening == Numbered \cup {"clears", "dismissed", "locked"}
OpeningHistory == Numbered \cup {"clears", "dismissed", "locked"}
DividendAudit == {"fixed", "refreshes"}
Accruals == Numbered \cup {"captures", "modal"}
AccrualApprovals == {"guarded", "quiet"}
AccrualCoverage == Numbered \cup {"fixed", "refreshes", "dismissed"}
PreopeningWorkspace == Numbered \cup {"captures", "modal"}
PreopeningCandidates == Numbered \cup {"clears", "dismissed"}
PreopeningVoucher == Numbered \cup {"fixed"}
StoreWorkspace == Numbered \cup {"bare"}
StoreLedgers == Numbered \cup {"fixed"}
WorkspaceNav == Numbered
Home == {"guarded", "gated", "fixed"}
ReportsHome == {"guarded", "gated", "fixed"}
StoreReport == {"guarded", "gated"}

(* Master data: one isLoading for the list and every save of the page. *)
LockedList == {"fixed", "locked", "saves"}
Stores == LockedList
Categories == LockedList
Suppliers == LockedList
RevenueChannels == LockedList
Ledgers == LockedList
ShareholderGrants == LockedList
PreopeningCategories == LockedList
Settings == {"fixed", "refreshes", "saves"}  \* its refresh button has no disabled
Users == {"fixed", "saves"}  \* the saves have flags of their own
Expenses == {"captures", "refreshes"}
ItemAttachments == {"captures"}
ExpensesV2 == {"fixed"}
AuditLogs == {"refreshes"}

(* The mini program. *)
ReportPeriods == {"guarded", "clears", "quiet"}
ShareholderReport == Numbered \cup {"clears", "refreshes", "dismissed"}
ReportExpenses == {"guarded", "clears", "quiet"}
ShareholderBankDetail == {"refreshes"}
ShareholderStores == {"fixed", "refreshes"}

FeaturesOf == [bankList |-> BankList, bankSummary |-> BankSummary,
  balanceHistory |-> BalanceHistory, revenueRecords |-> RevenueRecords,
  revenueChannels |-> RevenueChannelsOfStore, revenueWorkspace |-> RevenueWorkspace,
  reconciliationRecords |-> ReconciliationRecords, kuailvPurchases |-> KuailvPurchases,
  majorExpenseVouchers |-> MajorExpenseVouchers, detailItems |-> DetailExpenseItems,
  bankDetails |-> BankDetails, businessDetail |-> BusinessDetail,
  matching |-> MatchingData, matchingV2 |-> MatchingV2Data,
  settlementSummary |-> SettlementSummary, settlementList |-> SettlementList,
  settlementDetail |-> SettlementDetail, partialApprovals |-> PartialApprovals,
  templates |-> ApprovalTemplates, approvals |-> Approvals,
  approvalDetail |-> ApprovalDetail, notices |-> ChangeNotices,
  dingtalk |-> DingTalkPage, instances |-> DingTalkInstances,
  mappings |-> DingTalkMappings, instanceDetail |-> DingTalkInstanceDetail,
  tasks |-> SyncTasks, templatesTab |-> TemplatesTab,
  departments |-> DepartmentPreview, parseErrors |-> ParseErrors,
  diagnosis |-> DiagnoseApprovals, report |-> FinancialReport, special |-> SpecialTransactions,
  reportVouchers |-> ReportVouchers, categoryDetail |-> CategoryDetail,
  vouchers |-> ExpenseVouchers, dividends |-> Dividends, opening |-> DividendOpening,
  openingHistory |-> OpeningHistory, dividendAudit |-> DividendAudit,
  accrualCoverage |-> AccrualCoverage, detailVouchers |-> DetailVouchers,
  preopeningVoucher |-> PreopeningVoucher, itemAttachments |-> ItemAttachments,
  revenueBase |-> RevenueBaseData, approvalItems |-> ApprovalItemsInTable,
  expenseAttachments |-> ExpenseAttachments,
  accruals |-> Accruals, accrualApprovals |-> AccrualApprovals,
  preopening |-> PreopeningWorkspace, preopeningCandidates |-> PreopeningCandidates,
  storeWorkspace |-> StoreWorkspace, storeLedgers |-> StoreLedgers,
  nav |-> WorkspaceNav, home |-> Home, reports |-> ReportsHome,
  storeReport |-> StoreReport, stores |-> Stores, categories |-> Categories,
  suppliers |-> Suppliers, channels |-> RevenueChannels, ledgers |-> Ledgers,
  grants |-> ShareholderGrants, preopeningCategories |-> PreopeningCategories,
  settings |-> Settings, users |-> Users, expenses |-> Expenses,
  expensesV2 |-> ExpensesV2, audit |-> AuditLogs, periods |-> ReportPeriods,
  shareholderReport |-> ShareholderReport, reportExpenses |-> ReportExpenses,
  shareholderBank |-> ShareholderBankDetail, shareholderStores |-> ShareholderStores]
=============================================================================
