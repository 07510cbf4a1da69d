----------------------------- MODULE MCSession -----------------------------
(***************************************************************************)
(* One browser with two tabs, from the moment a parent has signed in: the  *)
(* first pair p1 is in the jar and both tabs show the session.  Its        *)
(* cookies may have taken a tick to arrive, and then outlive it by one.    *)
(***************************************************************************)
EXTENDS SessionAgreement, TLC

CONSTANTS a, b, c1, c2, c3, p1, p2, p3

TwoAndOne == (c1 :> a @@ c2 :> a @@ c3 :> b)
OneCall == (c1 :> a)

SignedIn ==
  /\ clock \in {0, 1}
  /\ row = [p \in Tokens |-> IF p = p1
              THEN [state |-> "live", family |-> p1, expires |-> RefreshTTL,
                    signed |-> AccessTTL, heir |-> None, by |-> c1]
              ELSE NoToken]
  /\ lock = [p \in Tokens |-> None]
  /\ denied = [p \in Tokens |-> 0]
  /\ req = [r \in Slots |-> NoRequest]
  /\ jar = [access |-> p1, accessEnd |-> clock + AccessTTL, refresh |-> p1, refreshEnd |-> clock + RefreshTTL]
  /\ reached = {p1}
  /\ screen = [tab \in Tabs |-> "in"]
  /\ call = [c \in Calls |-> NoCall]
  /\ started = 0

SignedInSpec == SignedIn /\ [][Next]_vars
FairSignedInSpec == SignedInSpec /\ Fairness
=============================================================================
