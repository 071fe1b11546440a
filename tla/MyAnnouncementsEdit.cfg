\* An edit that was announced as made is given up.
CONSTANTS
  ann = ann  bob = bob  phone = phone  tablet = tablet  desk = desk
  old = old  new = new
  NoDoc = NoDoc  Closed = Closed
  Devices <- AllThree
  Users <- AnnAndBob
  Account <- SignedIn
  Ids <- TwoIds
  Owner <- OneEach
  Texts <- TwoTexts
  MaxWrites = 2
SYMMETRY Symmetry
SPECIFICATION Spec
CONSTRAINT DeskOnlyPublishes
INVARIANTS AnnouncedEditsAreSaved
CHECK_DEADLOCK FALSE
