\* Two accounts on one device, two taps: who owns what, and what the user is told.
CONSTANTS
  ann = ann  bob = bob  form = form  pic = pic
  s1 = s1  s2 = s2  t1 = t1  t2 = t2
  NoUser = NoUser  Blank = Blank  AddPhotoImage = AddPhotoImage
  NoPhoto = NoPhoto  NoScreen = NoScreen
  Contents <- Forms
  Taps <- TwoTaps
  Users <- Two
  Photos <- Placeholder
  Screens <- TwoScreens
SYMMETRY Symmetry
SPECIFICATION Spec
INVARIANTS TypeOK LiveScreens PostedAsSubmitted AtMostOnePost AlertsTellTheTruth StatusAsSeen
\* The user may stop when every tap is used up.
CHECK_DEADLOCK FALSE
