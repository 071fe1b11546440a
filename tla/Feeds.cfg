\* Two announcements, overlapping refreshes, sign-outs and restarts.
CONSTANTS
  first = first  edited = edited
  NoDoc = NoDoc  Closed = Closed
  Ids <- TwoIds
  Texts <- TwoTexts
  MaxMoments = 3
  MaxAsks = 2
SYMMETRY Symmetry

SPECIFICATION Spec
INVARIANTS TypeOK LatestOfEach
PROPERTIES ImplementsReader
