--------------------------- MODULE RequestChecks ---------------------------
(***************************************************************************)
(* The checks a request passes that keep no state of their own: where it   *)
(* comes from and who sends it (auth/middleware.go), and whether a form    *)
(* was filled in by a person (httpx/botcheck.go), which is the one check   *)
(* that may have to ask somebody else.                                     *)
(***************************************************************************)
CONSTANTS
  AllowedOrigins,   \* what the service serves its client from
  RequireCaptcha,   \* BotCheckSettings.RequireCaptcha
  Nobody            \* the missing header, the missing identity

ASSUME ChecksAssumption == Nobody \notin AllowedOrigins /\ RequireCaptcha \in BOOLEAN

Roles == {"parent", "admin"}

isSafeMethod(method) == method = "read"

OriginIsAllowed(origin) == origin \in AllowedOrigins

(* A read changes nothing and may come from anywhere.                      *)
CheckOrigin(method, origin) == isSafeMethod(method) \/ OriginIsAllowed(origin)

RequireRole(role, identity) == identity # Nobody /\ identity = role

(* What a form reports of itself; every part of it may be left out.        *)
Signals == [honeypot : BOOLEAN,
            fill : {"unmeasured", "tooFast", "believable"},
            token : {"none", "pass", "fail", "unavailable"}]

(* The cheap checks, and the question that is only asked after them.       *)
CaughtEarly(signals) == signals.honeypot \/ signals.fill = "tooFast"
AsksVerifier(signals) == ~CaughtEarly(signals) /\ signals.token # "none"

(* The challenge provider: it passes one token, refuses the others, and    *)
(* may be out of reach.                                                    *)
Verify(token) ==
  CASE token = "pass"        -> "accepted"
    [] token = "unavailable" -> "unavailable"
    [] OTHER                 -> "refused"

(* An outage of the provider is not held against the caller.               *)
Inspect(signals) ==
  /\ ~CaughtEarly(signals)
  /\ signals.token = "none" => ~RequireCaptcha
  /\ AsksVerifier(signals) => Verify(signals.token) # "refused"
=============================================================================
