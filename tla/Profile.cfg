\* Overlapping saves of one device, failures and restarts; another device reads.
CONSTANTS
  phone = phone  tablet = tablet  anna = anna  rex = rex  home = home  work = work
  Blank = Blank  NoDoc = NoDoc  Closed = Closed
  Devices <- TwoDevices
  Names <- OneName
  Emails <- TwoEmails
  EditingOn <- OneDevice
  MaxSaves = 3
SYMMETRY Symmetry

SPECIFICATION Spec
INVARIANTS TypeOK EmailsAgree
