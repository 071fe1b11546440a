--------------------------- MODULE VetsMapProofs ---------------------------
(***************************************************************************)
(* Proofs about VetsMap, for any clinics and any number of requests.       *)
(***************************************************************************)
EXTENDS VetsMap, TLAPS

\* What can still be drawn was asked for last, or under way at the last tap.
PendingKnown == UnderWay \subseteq {target} \cup overtaken

Inv == TypeOK /\ NoOldRoutes /\ PendingKnown

LEMMA InitInv == Init => Inv
<1> SUFFICES ASSUME Init PROVE Inv
  OBVIOUS
<1>1. requests \in [Clinics -> 0..MaxRequests]
  BY MapAssumption DEF Init
<1>2. TypeOK
  BY <1>1 DEF Init, TypeOK, Permissions
<1>3. NoOldRoutes /\ PendingKnown
  BY DEF Init, NoOldRoutes, PendingKnown, UnderWay
<1>4. QED
  BY <1>2, <1>3 DEF Inv

\* A step that leaves the routes alone.
LEMMA RoutesKept == ASSUME Inv, UNCHANGED routeVars PROVE NoOldRoutes' /\ PendingKnown'
  BY DEF Inv, NoOldRoutes, PendingKnown, UnderWay, routeVars

LEMMA LocationTypes == ASSUME Inv, LocationStep PROVE TypeOK' /\ UNCHANGED routeVars
<1> USE DEF Inv, TypeOK
<1>1. CASE ViewDidAppear
  BY <1>1 DEF ViewDidAppear, CheckAuthorization, ShowAlertLocation, routeVars
<1>2. CASE Leave
  BY <1>2 DEF Leave, routeVars
<1>3. CASE DismissAlert
  BY <1>3 DEF DismissAlert, routeVars
<1>4. CASE DidChangeAuthorization
  BY <1>4 DEF DidChangeAuthorization, CheckAuthorization, ShowAlertLocation, routeVars
<1>5. CASE ChangeSettings
  BY <1>5 DEF ChangeSettings, routeVars
<1>6. ASSUME NEW p \in {"whenInUse", "denied"}, AnswerPrompt(p)
      PROVE  TypeOK' /\ UNCHANGED routeVars
  BY <1>6 DEF AnswerPrompt, routeVars, Permissions
<1>7. QED
  BY <1>1, <1>2, <1>3, <1>4, <1>5, <1>6 DEF LocationStep

LEMMA RouteTypes == ASSUME Inv, RouteStep PROVE TypeOK'
<1> USE MapAssumption DEF Inv, TypeOK
<1>1. PICK c \in Clinics : TapClinic(c) \/ RouteFound(c) \/ NoRoute(c)
  BY DEF RouteStep
<1>2. CASE TapClinic(c)
  <2>1. requests[c] + 1 \in 0..MaxRequests
    BY <1>2 DEF TapClinic, Route
  <2>2. requests' \in [Clinics -> 0..MaxRequests]
    BY <1>2, <2>1 DEF TapClinic, Route
  <2>3. QED
    BY <1>2, <2>2 DEF TapClinic, Route, UnderWay, locationVars
<1>3. CASE RouteFound(c) \/ NoRoute(c)
  <2>1. requests[c] - 1 \in 0..MaxRequests
    BY <1>3 DEF RouteFound, NoRoute, Answered
  <2>2. requests' \in [Clinics -> 0..MaxRequests]
    BY <1>3, <2>1 DEF RouteFound, NoRoute, Answered
  <2>3. QED
    BY <1>3, <2>2 DEF RouteFound, NoRoute, Answered, locationVars
<1>4. QED
  BY <1>1, <1>2, <1>3

LEMMA RouteKnown == ASSUME Inv, RouteStep PROVE NoOldRoutes' /\ PendingKnown'
<1> USE MapAssumption DEF Inv, TypeOK, NoOldRoutes, PendingKnown, UnderWay
<1>1. PICK c \in Clinics : TapClinic(c) \/ RouteFound(c) \/ NoRoute(c)
  BY DEF RouteStep
<1>2. CASE TapClinic(c)
  BY <1>2 DEF TapClinic, Route
<1>3. CASE RouteFound(c) \/ NoRoute(c)
  <2>1. UnderWay' \subseteq UnderWay /\ c \in UnderWay
    BY <1>3 DEF RouteFound, NoRoute, Answered
  <2>2. UNCHANGED <<target, overtaken>> /\ overlays' \subseteq overlays \cup {c}
    BY <1>3 DEF RouteFound, NoRoute, Answered
  <2>3. QED
    BY <2>1, <2>2
<1>4. QED
  BY <1>1, <1>2, <1>3

LEMMA NextInv == Inv /\ [Next]_vars => Inv'
<1> SUFFICES ASSUME Inv, [Next]_vars PROVE Inv'
  OBVIOUS
<1>1. CASE LocationStep
  BY <1>1, LocationTypes, RoutesKept DEF Inv
<1>2. CASE RouteStep
  BY <1>2, RouteTypes, RouteKnown DEF Inv
<1>3. CASE UNCHANGED vars
  BY <1>3 DEF vars, locationVars, routeVars, Inv, TypeOK, NoOldRoutes, PendingKnown, UnderWay
<1>4. QED
  BY <1>1, <1>2, <1>3 DEF Next

\* Every variable of the map keeps its type, alerts are only up on the screen and
\* nothing is tracked without a delegate.
THEOREM TypesHold == Spec => []TypeOK
<1>1. Inv => TypeOK
  BY DEF Inv
<1>2. QED
  BY InitInv, NextInv, <1>1, PTL DEF Spec

\* Whatever the number of clinics, and of routes being computed at once, a tap leaves
\* nothing on the map of what was drawn before it (calloutAccessoryControlTapped).
THEOREM NoOldRoutesHolds == Spec => []NoOldRoutes
<1>1. Inv => NoOldRoutes
  BY DEF Inv
<1>2. QED
  BY InitInv, NextInv, <1>1, PTL DEF Spec

-----------------------------------------------------------------------------
\* With nothing left to tell its delegate, the manager is used if it may be.
UsedOnceTold == delegate /\ ~due /\ Status = "whenInUse" => tracking

LEMMA UsedStep == TypeOK /\ UsedOnceTold /\ [Next]_vars => UsedOnceTold'
<1> SUFFICES ASSUME TypeOK, UsedOnceTold, [Next]_vars PROVE UsedOnceTold'
  OBVIOUS
<1> USE DEF UsedOnceTold, Status
<1>1. CASE ViewDidAppear
  BY <1>1 DEF ViewDidAppear, CheckAuthorization
<1>2. CASE Leave \/ DismissAlert
  <2>1. UNCHANGED <<services, permission, delegate, due, tracking>>
    BY <1>2 DEF Leave, DismissAlert
  <2> QED
    BY <2>1 DEF TypeOK
<1>3. CASE DidChangeAuthorization
  BY <1>3 DEF DidChangeAuthorization, CheckAuthorization
<1>4. CASE ChangeSettings \/ \E p \in {"whenInUse", "denied"} : AnswerPrompt(p)
  BY <1>4 DEF ChangeSettings, AnswerPrompt
<1>5. CASE RouteStep \/ UNCHANGED vars
  <2>1. UNCHANGED <<services, permission, delegate, due, tracking>>
    BY <1>5 DEF RouteStep, TapClinic, Route, RouteFound, NoRoute, Answered, locationVars, vars
  <2> QED
    BY <2>1 DEF TypeOK
<1> QED
  BY <1>1, <1>2, <1>3, <1>4, <1>5 DEF Next, LocationStep

\* A permission that is given is used as soon as the delegate has been told of
\* everything, whether it was given before or after the map was shown, in the dialogue
\* or in the Settings (checkLocationEnabled, locationManagerDidChangeAuthorization).
THEOREM UsedOnceToldHolds == Spec => []UsedOnceTold
<1>1. Init => UsedOnceTold
  BY DEF Init, UsedOnceTold
<1>2. Inv => TypeOK
  BY DEF Inv
<1> QED
  BY <1>1, <1>2, InitInv, NextInv, UsedStep, PTL DEF Spec
=============================================================================
