\* The list of announcements is opened just after a sign-out.
CONSTANTS
  ann = ann  bob = bob  anna = anna  rex = rex
  NoUser = NoUser  NoName = NoName  NotHeard = NotHeard
  Accounts <- TwoAccounts
  Names <- TwoNames
  Requests <- TwoRequests
SPECIFICATION Spec
INVARIANTS SomebodyToUnwrap
