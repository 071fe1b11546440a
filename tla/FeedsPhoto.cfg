\* A photo of a found pet does not arrive.
CONSTANTS
  first = first  edited = edited
  NoDoc = NoDoc  Closed = Closed
  Ids <- TwoIds
  Texts <- TwoTexts
  MaxMoments = 2
  MaxAsks = 2
SYMMETRY Symmetry

SPECIFICATION Spec
INVARIANTS PhotoToUnwrap
