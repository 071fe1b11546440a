\* One account, two taps, both photos, restarts and sign-outs; no symmetry under fairness.
CONSTANTS
  ann = ann  bob = bob  form = form  pic = pic
  s1 = s1  s2 = s2  t1 = t1  t2 = t2
  NoUser = NoUser  Blank = Blank  AddPhotoImage = AddPhotoImage
  NoPhoto = NoPhoto  NoScreen = NoScreen
  Contents <- Forms
  Taps <- TwoTaps
  Users <- One
  Photos <- Pictures
  Screens <- OneScreen
SPECIFICATION FairSpec
PROPERTIES ImplementsBoard UploadSettles QueuedWriteSettles
\* The user may stop when every tap is used up.
CHECK_DEADLOCK FALSE
