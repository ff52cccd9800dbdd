------------------------------- MODULE Forms -------------------------------
(***************************************************************************)
(* The profile of every form of FormPages: what its handler does and, when *)
(* it has one, what its dialog adds.  The words are those of FormPages.    *)
(***************************************************************************)

(* Master data: the page's isLoading is the busy flag, names are unique. *)
MasterSave == {"unique", "reloads"}
EditorDialog == {"closable"}
SaveStore == {"reloads"}
StoreDialog == EditorDialog
SaveGroup == MasterSave
GroupDialogs == EditorDialog
DeleteGroup == {"direct", "unique", "reloads"}
ToggleStore == {"direct", "unique", "reloads"}
AssignGroup == MasterSave
AssignDialog == EditorDialog
SaveCategory == MasterSave
CategoryDialog == EditorDialog
ToggleCategory == {"direct", "unique", "reloads"}
SaveSupplier == MasterSave
SupplierDialog == EditorDialog
ToggleSupplier == {"direct", "unique", "reloads"}
SaveRevenueChannel == MasterSave
RevenueChannelDialog == EditorDialog
ToggleRevenueChannel == {"direct", "unique", "reloads"}
DeleteRevenueChannel == {"direct", "unique", "reloads"}
CreateLedger == MasterSave
LedgerDialogs == EditorDialog
ReopenLedger == {"direct", "unique", "reloads"}
CloseLedger == MasterSave
SaveGrant == MasterSave
GrantDialog == EditorDialog
ToggleGrant == {"direct", "unique", "reloads"}
LogIn == {"inline", "unique"}
SavePreopeningCategory == {"late", "unique", "reloads"}
PreopeningCategoryDialog == EditorDialog
DeletePreopeningCategory == {"unique", "reloads"}
ChangePassword == {"late", "unique"}
PasswordDialog == EditorDialog
DownloadBackup == {"direct", "unique", "reloads"}

(* Accounts: flags of their own, the user name and the role key are unique. *)
SaveRolePermissions == {"direct", "unique", "reloads"}
SaveRole == MasterSave
RoleDialog == EditorDialog
DeleteRole == {"direct", "unique", "reloads"}
SaveUser == MasterSave
UserDialog == EditorDialog

(* The balance of the bank: the password field saves on Enter, without a look at the flag. *)
SaveBalanceCorrection == {"enter", "reloads"}
BalanceDialogs == EditorDialog

(* Expenses and matching. *)
SaveExpenseItem == {"reloads"}
ExpenseItemDialog == EditorDialog
UploadAttachment == {"reloads"}
AttachmentDialog == {"inline"}
CreateCandidate == MasterSave
CandidateDialog == EditorDialog
AutoSuggest == {"direct", "unique", "reloads"}
ConfirmMatch == {"direct", "unique", "reloads"}
RejectMatch == {"direct", "unique", "reloads"}
CreateRevenueCandidate == MasterSave
RevenueCandidateDialog == EditorDialog
DecideRevenueMatch == {"direct", "unique", "reloads"}
ConfirmSuggestion == {"direct", "unique", "second", "reloads"}
RejectSuggestion == {"direct", "unique", "second", "reloads"}
SaveRevenueMatch == MasterSave
RevenueMatchDialog == EditorDialog
UnmatchRevenue == {"direct", "unique", "reloads"}
SaveKuailvPurchase == {"second", "background", "reloads"}
KuailvForm == {"inline"}
SaveMajorVoucher == {"second", "background", "reloads"}
MajorVoucherForm == {"inline"}
EditMajorVoucher == {"unique", "second", "reloads"}
DeleteKuailv == {"direct", "background", "unique", "reloads"}
DeleteMajorVoucher == DeleteKuailv
AutoSuggestV2 == {"direct", "unique", "reloads"}
CategoryOfItem == {"direct", "unique"}
AddChannel == {"unique"}
AddChannelDialog == EditorDialog

(* Settlement of unpaid registrations, accruals, notices. *)
ChangeSettlement == {"direct", "unique", "reloads"}
CompleteSettlement == {"late", "unique", "reloads"}
CreateTargetLedger == {"direct", "unique", "reloads"}
SaveAccrual == {"late", "unique", "reloads"}
DeleteAccrual == {"unique", "reloads"}
RevokeCover == {"unique", "reloads"}
ReviewNotice == {"unique", "reloads"}
CloseStoreLedger == MasterSave
StoreLedgerCloseDialog == EditorDialog

(* Approvals. *)
SyncStoreApprovals == {"unique", "reloads"}
SyncApprovalsDialog == EditorDialog
MarkApproval == {"unique", "reloads"}

(* Reports and dividends. *)
SaveReportBalance == {"unique"}
SaveReportTarget == {"unique"}
SaveManualMonth == MasterSave
SaveEntries == MasterSave
SaveArchive == {"unique", "second", "reloads"}
DividendDialogs == EditorDialog
MarkNoEntry == {"direct", "unique", "reloads"}
MarkNoEntryBoth == {"direct", "unique"}
LockMonth == {"direct", "unique", "reloads"}
SaveOpening == {"unique"}

(* DingTalk: a job that ends runs a load that clears the shared isLoading. *)
OfDingTalk == {"background", "unique"}
SaveConfig == OfDingTalk
ConfigDialog == EditorDialog
TestConnection == OfDingTalk \cup {"direct", "reloads"}
SyncTemplates == OfDingTalk \cup {"direct", "reloads"}
SaveAutoSync == OfDingTalk
AutoSyncForm == {"inline"}
PauseAutoSync == OfDingTalk \cup {"direct"}
RunAutoSync == OfDingTalk \cup {"direct", "reloads"}
PullDepartments == OfDingTalk \cup {"direct", "second"}
SyncDepartments == OfDingTalk \cup {"direct", "second"}
StartModifiedResync == OfDingTalk \cup {"reloads"}
ModifiedResyncDialog == EditorDialog
ReparseApprovals == {"direct", "unique", "reloads"}
CreateTemplate == OfDingTalk \cup {"reloads"}
TemplateDialog == EditorDialog
EnableTemplate == OfDingTalk \cup {"direct", "second"}
ScopeOfTemplate == OfDingTalk
SaveMapping == OfDingTalk \cup {"direct", "reloads"}
DeleteMapping == OfDingTalk \cup {"direct", "reloads"}
SaveNode == OfDingTalk \cup {"reloads"}
NodeForm == {"inline"}
PullSample == OfDingTalk \cup {"direct"}
UseAsSample == OfDingTalk \cup {"direct", "second"}
RenameNode == OfDingTalk \cup {"direct"}
DeleteNode == OfDingTalk \cup {"direct"}
CorrectStore == {"late", "unique"}

(* The mini program. *)
SaveProfile == {"unique"}

ProfileOf == [
  store |-> SaveStore \cup StoreDialog, group |-> SaveGroup \cup GroupDialogs,
  deleteGroup |-> DeleteGroup, toggleStore |-> ToggleStore,
  assignGroup |-> AssignGroup \cup AssignDialog,
  category |-> SaveCategory \cup CategoryDialog, toggleCategory |-> ToggleCategory,
  supplier |-> SaveSupplier \cup SupplierDialog, toggleSupplier |-> ToggleSupplier,
  channel |-> SaveRevenueChannel \cup RevenueChannelDialog,
  toggleChannel |-> ToggleRevenueChannel, deleteChannel |-> DeleteRevenueChannel,
  ledger |-> CreateLedger \cup LedgerDialogs, reopenLedger |-> ReopenLedger,
  closeLedger |-> CloseLedger \cup LedgerDialogs,
  grant |-> SaveGrant \cup GrantDialog, toggleGrant |-> ToggleGrant,
  preopeningCategory |-> SavePreopeningCategory \cup PreopeningCategoryDialog,
  deletePreopeningCategory |-> DeletePreopeningCategory,
  password |-> ChangePassword \cup PasswordDialog, backup |-> DownloadBackup,
  permissions |-> SaveRolePermissions, role |-> SaveRole \cup RoleDialog,
  deleteRole |-> DeleteRole, user |-> SaveUser \cup UserDialog,
  expense |-> SaveExpenseItem \cup ExpenseItemDialog,
  attachment |-> UploadAttachment \cup AttachmentDialog,
  candidate |-> CreateCandidate \cup CandidateDialog, autoSuggest |-> AutoSuggest,
  confirmMatch |-> ConfirmMatch, rejectMatch |-> RejectMatch,
  revenueCandidate |-> CreateRevenueCandidate \cup RevenueCandidateDialog,
  decideRevenue |-> DecideRevenueMatch, confirmSuggestion |-> ConfirmSuggestion,
  rejectSuggestion |-> RejectSuggestion,
  revenueMatch |-> SaveRevenueMatch \cup RevenueMatchDialog,
  unmatchRevenue |-> UnmatchRevenue, kuailv |-> SaveKuailvPurchase \cup KuailvForm,
  majorVoucher |-> SaveMajorVoucher \cup MajorVoucherForm,
  editMajorVoucher |-> EditMajorVoucher, deleteKuailv |-> DeleteKuailv,
  deleteMajorVoucher |-> DeleteMajorVoucher, autoSuggestV2 |-> AutoSuggestV2,
  pullSample |-> PullSample, useAsSample |-> UseAsSample,
  logIn |-> LogIn, categoryOfItem |-> CategoryOfItem,
  addChannel |-> AddChannel \cup AddChannelDialog,
  settlement |-> ChangeSettlement, completeSettlement |-> CompleteSettlement,
  targetLedger |-> CreateTargetLedger, accrual |-> SaveAccrual,
  deleteAccrual |-> DeleteAccrual, revokeCover |-> RevokeCover,
  notice |-> ReviewNotice, storeLedger |-> CloseStoreLedger \cup StoreLedgerCloseDialog,
  syncApprovals |-> SyncStoreApprovals \cup SyncApprovalsDialog, mark |-> MarkApproval,
  balance |-> SaveReportBalance, target |-> SaveReportTarget,
  manualMonth |-> SaveManualMonth \cup DividendDialogs,
  entries |-> SaveEntries \cup DividendDialogs,
  archive |-> SaveArchive \cup DividendDialogs, noEntry |-> MarkNoEntry,
  noEntryBoth |-> MarkNoEntryBoth, lockMonth |-> LockMonth, opening |-> SaveOpening,
  config |-> SaveConfig \cup ConfigDialog, testConnection |-> TestConnection,
  templates |-> SyncTemplates, autoSync |-> SaveAutoSync \cup AutoSyncForm,
  pause |-> PauseAutoSync, runSync |-> RunAutoSync, pull |-> PullDepartments,
  departments |-> SyncDepartments,
  resync |-> StartModifiedResync \cup ModifiedResyncDialog, reparse |-> ReparseApprovals,
  template |-> CreateTemplate \cup TemplateDialog, enable |-> EnableTemplate,
  scope |-> ScopeOfTemplate, mapping |-> SaveMapping, deleteMapping |-> DeleteMapping,
  node |-> SaveNode \cup NodeForm, renameNode |-> RenameNode, deleteNode |-> DeleteNode,
  correctStore |-> CorrectStore, profile |-> SaveProfile]
=============================================================================
