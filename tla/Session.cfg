\* Sign-ins, sign-ups, sign-outs and restarts overtake each other; no symmetry
\* under fairness.
CONSTANTS
  ann = ann  bob = bob  anna = anna  rex = rex
  NoUser = NoUser  NoName = NoName  NotHeard = NotHeard
  Accounts <- TwoAccounts
  Names <- TwoNames
  Requests <- TwoRequests
SPECIFICATION FairSpec
INVARIANTS TypeOK WindowFollowsUser ProfileAsRegistered
PROPERTIES WindowCatchesUp
