-------------------------------- MODULE Feed --------------------------------
(***************************************************************************)
(* What the application is promised of the client of a feed that comes     *)
(* back by itself: it opens or does not, and once open is stopped or is    *)
(* lost for good.  It is lost only after a run in which every attempt, one *)
(* after the other, has failed, and only while its context is alive.       *)
(***************************************************************************)
EXTENDS Naturals

CONSTANT MaxAttempts

VARIABLES
  service, \* what the application has
  run,     \* where the reconnect run is, "none" for no run
  attempt, \* its attempt
  alive    \* the context the client was made with

feedVars == <<service, run, attempt, alive>>

Init ==
  /\ service = "opening"
  /\ run = "none"
  /\ attempt = 0
  /\ alive = TRUE

Opens ==
  /\ service = "opening"
  /\ service' \in {"open", "failed"}
  /\ UNCHANGED <<run, attempt, alive>>

Stops ==
  /\ service = "open"
  /\ service' = "stopped"
  /\ UNCHANGED <<run, attempt, alive>>

\* The context outlives the service.
Expires ==
  /\ service \notin {"opening", "open"}
  /\ alive
  /\ alive' = FALSE
  /\ UNCHANGED <<service, run, attempt>>

Goes(at, n) == run' = at /\ attempt' = n /\ UNCHANGED <<service, alive>>

Begins == run = "none" /\ Goes("trying", 1)

Fails ==
  /\ run = "trying"
  /\ IF attempt < MaxAttempts THEN Goes("trying", attempt + 1) ELSE Goes("exhausted", 0)

Succeeds == run = "trying" /\ Goes("clear", 0)

StandsDown == run \in {"trying", "exhausted"} /\ ~alive /\ Goes("clear", 0)

GivesUp == run = "exhausted" /\ alive /\ Goes("fatal", 0)

\* It takes its turn behind whoever is opening it, and tells of what was in service only.
Tells ==
  /\ run = "fatal"
  /\ service # "opening"
  /\ service' = IF service = "open" THEN "lost" ELSE service
  /\ run' = "clear"
  /\ UNCHANGED <<attempt, alive>>

Ends == run = "clear" /\ Goes("none", 0)

Next ==
  \/ Opens \/ Stops \/ Expires
  \/ Begins \/ Fails \/ Succeeds \/ StandsDown \/ GivesUp \/ Tells \/ Ends

Spec == Init /\ [][Next]_feedVars
=============================================================================
