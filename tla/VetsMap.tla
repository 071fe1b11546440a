------------------------------ MODULE VetsMap ------------------------------
(***************************************************************************)
(* MapVC, the map of the clinics: its dialogue with the location services, *)
(* which answer by callbacks and are changed in the Settings behind its    *)
(* back, and the routes it draws, which arrive some time after the tap     *)
(* that asks for them.                                                     *)
(*                                                                         *)
(* The permission "always" cannot be given to this application: Info.plist *)
(* only describes the use of the location while it is in use.              *)
(***************************************************************************)
EXTENDS Naturals

CONSTANTS
  Clinics,
  NoClinic,     \* no route has been asked for
  MaxRequests   \* bound: the route requests of one clinic under way

ASSUME MapAssumption ==
  /\ NoClinic \notin Clinics
  /\ MaxRequests \in Nat

VARIABLES
  services,     \* location services are switched on
  permission,   \* what the user has decided for this application
  delegate,     \* MapVC is the delegate of its manager
  due,          \* the manager has a change of authorization to tell its delegate
  front,        \* the map is on the screen
  alert,        \* the alert on top of it
  prompt,       \* the system asks for permission
  tracking,     \* showsUserLocation is set and startUpdatingLocation called
  requests,     \* MKDirections requests under way, per clinic
  overlays,     \* the clinics whose routes are drawn
  target,       \* the clinic of the last request (history)
  overtaken     \* the clinics still asked for at that time (history)

locationVars == <<services, permission, delegate, due, front, alert, prompt, tracking>>
routeVars == <<requests, overlays, target, overtaken>>
vars == <<locationVars, routeVars>>

-----------------------------------------------------------------------------
Permissions == {"notDetermined", "whenInUse", "denied", "restricted"}

\* authorizationStatus.
Status == IF services THEN permission ELSE "denied"

Init ==
  /\ services \in BOOLEAN
  /\ permission \in Permissions
  /\ delegate = FALSE
  /\ due = TRUE
  /\ front = FALSE
  /\ alert = "none"
  /\ prompt = FALSE
  /\ tracking = FALSE
  /\ requests = [c \in Clinics |-> 0]
  /\ overlays = {}
  /\ target = NoClinic
  /\ overtaken = {}

-----------------------------------------------------------------------------
(***************************************************************************)
(* Location.                                                               *)
(***************************************************************************)
\* Fault: an alert is taken for shown wherever its controller is.
BlindShowAlert(title, onScreen) == alert' = IF alert = "none" THEN title ELSE alert

\* present does nothing off the screen or when an alert is up.
ShowAlertLocation(title, onScreen) ==
  alert' = IF onScreen /\ alert = "none" THEN title ELSE alert

CheckAuthorization(onScreen) ==
  /\ tracking' = (tracking \/ Status = "whenInUse")
  /\ prompt' = (prompt \/ Status = "notDetermined")
  /\ IF Status = "denied" THEN ShowAlertLocation("denied", onScreen) ELSE UNCHANGED alert

\* viewDidAppear: checkLocationEnabled.
ViewDidAppear ==
  /\ ~front
  /\ ~prompt
  /\ front' = TRUE
  /\ IF services THEN delegate' = TRUE /\ CheckAuthorization(TRUE)
     ELSE ShowAlertLocation("services", TRUE) /\ UNCHANGED <<delegate, tracking, prompt>>
  /\ UNCHANGED <<services, permission, due>>
  /\ UNCHANGED routeVars

\* Another tab is selected.
Leave ==
  /\ front
  /\ alert = "none"
  /\ ~prompt
  /\ front' = FALSE
  /\ UNCHANGED <<services, permission, delegate, due, alert, prompt, tracking>>
  /\ UNCHANGED routeVars

\* Fault: the delegate only hears.
IdleDidChangeAuthorization ==
  /\ delegate /\ due
  /\ due' = FALSE
  /\ UNCHANGED <<services, permission, delegate, front, alert, prompt, tracking>>
  /\ UNCHANGED routeVars

\* locationManagerDidChangeAuthorization: once for a new manager, and after
\* every change.
DidChangeAuthorization ==
  /\ delegate /\ due
  /\ due' = FALSE
  /\ CheckAuthorization(front)
  /\ UNCHANGED <<services, permission, delegate, front>>
  /\ UNCHANGED routeVars

\* "Отмена", or "Настройки", which opens the Settings: the map stays on the screen.
DismissAlert ==
  /\ alert # "none"
  /\ alert' = "none"
  /\ UNCHANGED <<services, permission, delegate, due, front, prompt, tracking>>
  /\ UNCHANGED routeVars

\* The system's dialogue is answered.
AnswerPrompt(p) ==
  /\ prompt
  /\ prompt' = FALSE
  /\ permission' = p
  /\ due' = TRUE
  /\ UNCHANGED <<services, delegate, front, alert, tracking>>
  /\ UNCHANGED routeVars

\* In the Settings; a dialogue that is up is withdrawn.
ChangeSettings ==
  /\ services' \in BOOLEAN
  /\ permission' \in Permissions
  /\ <<services', permission'>> # <<services, permission>>
  /\ due' = TRUE
  /\ prompt' = FALSE
  /\ UNCHANGED <<delegate, front, alert, tracking>>
  /\ UNCHANGED routeVars

-----------------------------------------------------------------------------
(***************************************************************************)
(* Routes.                                                                 *)
(***************************************************************************)
UnderWay == {c \in Clinics : requests[c] > 0}

\* location: the manager keeps the last one it has found, also when the permission
\* is gone.
Located == Status = "whenInUse" \/ tracking

Route(c) ==
  /\ front /\ alert = "none" /\ ~prompt
  /\ Located
  /\ requests[c] < MaxRequests
  /\ requests' = [requests EXCEPT ![c] = @ + 1]
  /\ target' = c
  /\ overtaken' = UnderWay
  /\ UNCHANGED locationVars

\* Fault: the routes stay until the next ones arrive.
LateTapClinic(c) == Route(c) /\ UNCHANGED overlays

\* calloutAccessoryControlTapped: a location is all it asks for.
TapClinic(c) == Route(c) /\ overlays' = {}

\* calculate's completion adds to whatever is drawn by then.
Answered(c, drawn) ==
  /\ requests[c] > 0
  /\ requests' = [requests EXCEPT ![c] = @ - 1]
  /\ overlays' = drawn
  /\ UNCHANGED <<target, overtaken>>
  /\ UNCHANGED locationVars

RouteFound(c) == Answered(c, overlays \cup {c})

NoRoute(c) == Answered(c, overlays)

-----------------------------------------------------------------------------
LocationStep ==
  \/ ViewDidAppear \/ Leave \/ DismissAlert
  \/ DidChangeAuthorization \/ ChangeSettings
  \/ \E p \in {"whenInUse", "denied"} : AnswerPrompt(p)

RouteStep == \E c \in Clinics : TapClinic(c) \/ RouteFound(c) \/ NoRoute(c)

Next == LocationStep \/ RouteStep

Spec == Init /\ [][Next]_vars

\* The main queue delivers what the manager has to tell.
FairSpec == Spec /\ WF_vars(DidChangeAuthorization)

-----------------------------------------------------------------------------
\* Every variable has its type.  An alert is only up while the map is on the screen
\* (showAlertLocation), and nothing is started without a delegate (setupManager).
TypeOK ==
  /\ services \in BOOLEAN
  /\ permission \in Permissions
  /\ delegate \in BOOLEAN
  /\ due \in BOOLEAN
  /\ front \in BOOLEAN
  /\ alert \in {"none", "services", "denied"}
  /\ prompt \in BOOLEAN
  /\ tracking \in BOOLEAN
  /\ requests \in [Clinics -> 0..MaxRequests]
  /\ overlays \subseteq Clinics
  /\ target \in Clinics \cup {NoClinic}
  /\ overtaken \subseteq Clinics
  /\ alert # "none" => front
  /\ tracking => delegate

\* A route on the map leads to the clinic tapped last, or was still being computed
\* at that tap (calloutAccessoryControlTapped): what was drawn before is gone.
NoOldRoutes == overlays \subseteq {target} \cup overtaken

\* Once the map has been shown with location services on, a permission that is
\* given and kept is used, wherever it is given (locationManagerDidChangeAuthorization).
PermissionIsUsed ==
  delegate /\ Status = "whenInUse" ~> tracking \/ Status # "whenInUse"
=============================================================================
