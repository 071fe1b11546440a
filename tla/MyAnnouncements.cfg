\* Two devices of one account publish, edit and delete its announcement; a third, of
\* another account, only publishes.
CONSTANTS
  ann = ann  bob = bob  phone = phone  tablet = tablet  desk = desk
  old = old  new = new
  NoDoc = NoDoc  Closed = Closed
  Devices <- AllThree
  Users <- AnnAndBob
  Account <- SignedIn
  Ids <- TwoIds
  Owner <- OneEach
  Texts <- OneText
  MaxWrites = 2
SYMMETRY Symmetry
SPECIFICATION Spec
CONSTRAINT DeskOnlyPublishes
INVARIANTS TypeOK DeletedMeansGone
PROPERTIES OnlyRepeatsRevive ImplementsLives
CHECK_DEADLOCK FALSE
