\* Three clinics, two requests each; every order of Settings, tabs and callbacks.
CONSTANTS
  vetdoc = vetdoc  polyvet = polyvet  trivet = trivet
  NoClinic = NoClinic
  Clinics <- ThreeClinics
  MaxRequests = 2

SPECIFICATION FairSpec
INVARIANTS TypeOK NoOldRoutes
PROPERTIES PermissionIsUsed
