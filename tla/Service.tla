------------------------------ MODULE Service -------------------------------
(***************************************************************************)
(* The command and its API: cmd/pegasus/main.go, kernel/api, and the token *)
(* verification of platform/auth in front of every handler.                *)
(*                                                                         *)
(* Every request runs on a goroutine of its own, and main shuts the server *)
(* down, then the kernel.  A token names the key that signed it, and the   *)
(* session service, outside this code, changes its keys as it likes.  Of   *)
(* the kernel there is its lock and whether the runtime runs: module       *)
(* Kernel has the rest, a request on a process is one operation of it.     *)
(* Reads go through the same checks and change nothing.                    *)
(***************************************************************************)
EXTENDS FiniteSets

CONSTANTS
  Requests, \* requests at once
  Kids,     \* names of keys, published or not
  None

ASSUME ServiceAssumption == None \notin Requests \cup {"main"} /\ "main" \notin Requests

VARIABLES
  published, \* keys the session service publishes
  ever,      \* history: the keys it ever has
  keys,      \* Verifier.keys
  fresh,     \* Verifier.lastFetch is less than minWait ago
  req,       \* per request: where it is, its key, the document it fetched, and what it asks
  lock,      \* who holds Kernel.mu
  running,   \* Kernel.running
  main,      \* where main is
  late       \* history: Shutdown gave up on a request

authVars == <<published, ever, keys, fresh>>
kernelVars == <<lock, running>>
mainVars == <<main, late>>
vars == <<authVars, req, kernelVars, mainVars>>

\* What a request asks: to start, stop or restart the runtime, or an operation on a process
\* of the caller's own or of another user.
Asks == [admin : BOOLEAN, what : {"runtime"}, whose : {"own"}]
        \cup [admin : BOOLEAN, what : {"process"}, whose : {"own", "other"}]
Nothing == [admin |-> FALSE, what |-> "process", whose |-> "own"]

Places == {"idle", "lookup", "refresh", "fetch", "store", "again", "known", "waiting", "acting"}
States == [at : Places, kid : Kids \cup {None}, got : SUBSET Kids, ask : Asks]

At(step, kid) == [at |-> step, kid |-> kid, got |-> {}, ask |-> Nothing]
Idle == At("idle", None)

Init ==
  /\ published \in (SUBSET Kids) \ {{}}
  /\ ever = published
  /\ keys = {}
  /\ fresh = FALSE
  /\ req = [r \in Requests |-> Idle]
  /\ lock = None
  /\ running = FALSE
  /\ main = "serving"
  /\ late = FALSE

\* The session service changes the keys it publishes.
Rotate ==
  /\ published' \in (SUBSET Kids) \ {{}}
  /\ ever' = ever \cup published'
  /\ UNCHANGED <<keys, fresh, req, kernelVars, mainVars>>

-----------------------------------------------------------------------------
(* Verifier *)

Moves(r, step) == req' = [req EXCEPT ![r].at = step]
Refused(r) == req' = [req EXCEPT ![r] = Idle]

\* A request comes in with a token.
Arrive(r, kid) ==
  /\ main = "serving"
  /\ req[r] = Idle
  /\ req' = [req EXCEPT ![r] = At("lookup", kid)]
  /\ UNCHANGED <<authVars, kernelVars, mainVars>>

\* keyFor, which looks once, and again after the refresh.
Lookup(r) ==
  /\ req[r].at = "lookup"
  /\ Moves(r, IF req[r].kid \in keys THEN "known" ELSE "refresh")
  /\ UNCHANGED <<authVars, kernelVars, mainVars>>

LookupAgain(r) ==
  /\ req[r].at = "again"
  /\ IF req[r].kid \in keys THEN Moves(r, "known") ELSE Refused(r)
  /\ UNCHANGED <<authVars, kernelVars, mainVars>>

\* Mutant of TooSoon: the wait has no end.
TooSoonAlways == keys # {}

TooSoon == fresh /\ keys # {}

\* refresh, which asks and later stores the answer without the lock in between.
Refresh(r) ==
  /\ req[r].at = "refresh"
  /\ Moves(r, IF TooSoon THEN "again" ELSE "fetch")
  /\ UNCHANGED <<authVars, kernelVars, mainVars>>

Fetched(r) ==
  /\ req[r].at = "fetch"
  /\ req' = [req EXCEPT ![r].at = "store", ![r].got = published]
  /\ UNCHANGED <<authVars, kernelVars, mainVars>>

\* No answer, or one without a usable key.
FetchFails(r) ==
  /\ req[r].at = "fetch"
  /\ Refused(r)
  /\ UNCHANGED <<authVars, kernelVars, mainVars>>

Store(r) ==
  /\ req[r].at = "store"
  /\ keys' = req[r].got
  /\ fresh' = TRUE
  /\ req' = [req EXCEPT ![r] = At("again", req[r].kid)]
  /\ UNCHANGED <<published, ever, kernelVars, mainVars>>

\* minWait passes.
Ages ==
  /\ fresh
  /\ fresh' = FALSE
  /\ UNCHANGED <<published, ever, keys, req, kernelVars, mainVars>>

-----------------------------------------------------------------------------
(* Handlers *)

\* Mutant of Allowed: anybody may name another user.
AllowedAnyUser(ask) == ask.admin \/ ask.what = "process"

\* RequireRole for the runtime, appUser for another user's process.
Allowed(ask) == ask.admin \/ (ask.what = "process" /\ ask.whose = "own")

\* The key is found: the token is good and what it asks is allowed, or one of the checks
\* on the way refuses - signature, issuer, role, application, user and process id.
Verify(r) ==
  /\ req[r].at = "known"
  /\ \/ Refused(r)
     \/ \E ask \in Asks : Allowed(ask) /\ req' = [req EXCEPT ![r].at = "waiting", ![r].ask = ask]
  /\ UNCHANGED <<authVars, kernelVars, mainVars>>

Lock(r) ==
  /\ req[r].at = "waiting"
  /\ lock = None
  /\ lock' = r
  /\ Moves(r, "acting")
  /\ UNCHANGED <<authVars, running, mainVars>>

\* The operation ends, done or failed, and so does the request.  After one on the runtime
\* it may be up or down.
Act(r) ==
  /\ req[r].at = "acting"
  /\ running' \in IF req[r].ask.what = "runtime" THEN BOOLEAN ELSE {running}
  /\ lock' = None
  /\ Refused(r)
  /\ UNCHANGED <<authVars, mainVars>>

-----------------------------------------------------------------------------
(* main *)

\* A signal, or the server has failed.
Signal ==
  /\ main = "serving"
  /\ main' = "draining"
  /\ UNCHANGED <<authVars, req, kernelVars, late>>

\* Mutant of Drained: it does not wait.
DrainedAtOnce ==
  /\ main = "draining"
  /\ main' = "drained"
  /\ UNCHANGED <<authVars, req, kernelVars, late>>

\* Shutdown waits for the requests that have come in.
Drained ==
  /\ main = "draining"
  /\ \A r \in Requests : req[r] = Idle
  /\ main' = "drained"
  /\ UNCHANGED <<authVars, req, kernelVars, late>>

\* But for no longer than its context lives.
GivesUp ==
  /\ main = "draining"
  /\ \E r \in Requests : req[r] # Idle
  /\ main' = "drained"
  /\ late' = TRUE
  /\ UNCHANGED <<authVars, req, kernelVars>>

\* The deferred Kernel.Stop.
KernelStops ==
  /\ main = "drained"
  /\ lock = None
  /\ lock' = "main"
  /\ main' = "stopping"
  /\ UNCHANGED <<authVars, req, running, late>>

KernelStopped ==
  /\ main = "stopping"
  /\ lock' = None
  /\ running' = FALSE
  /\ main' = "stopped"
  /\ UNCHANGED <<authVars, req, late>>

\* And the deferred logger.Stop, after which the process is gone.
Exit ==
  /\ main = "stopped"
  /\ main' = "exited"
  /\ UNCHANGED <<authVars, req, kernelVars, late>>

Checks(r) ==
  Lookup(r) \/ Refresh(r) \/ Fetched(r) \/ FetchFails(r) \/ Store(r) \/ LookupAgain(r) \/ Verify(r)

Main == Signal \/ Drained \/ GivesUp \/ KernelStops \/ KernelStopped \/ Exit

Next ==
  /\ main # "exited"
  /\ \/ Rotate \/ Ages \/ Main
     \/ \E r \in Requests : Checks(r) \/ Lock(r) \/ Act(r) \/ \E kid \in Kids : Arrive(r, kid)

\* Every goroutine runs, an operation ends, a lock is handed on, and the session service
\* does not fail for ever.  Nothing makes a request come or main stop.
Fairness ==
  /\ WF_vars(Ages /\ main # "exited")
  /\ \A r \in Requests :
       /\ WF_vars(Checks(r) /\ main # "exited")
       /\ SF_vars(Fetched(r) /\ main # "exited")
       /\ SF_vars(Lock(r) /\ main # "exited")
       /\ WF_vars(Act(r) /\ main # "exited")
  /\ WF_vars(Drained) /\ WF_vars(KernelStopped) /\ WF_vars(Exit) /\ SF_vars(KernelStops)

Spec == Init /\ [][Next]_vars /\ Fairness

-----------------------------------------------------------------------------
(* Properties *)

\* Types; the lock has one holder, and the holder has it.
TypeOK ==
  /\ published \in SUBSET Kids /\ ever \in SUBSET Kids /\ keys \in SUBSET Kids
  /\ fresh \in BOOLEAN /\ running \in BOOLEAN /\ late \in BOOLEAN
  /\ req \in [Requests -> States]
  /\ main \in {"serving", "draining", "drained", "stopping", "stopped", "exited"}
  /\ lock \in Requests \cup {None, "main"}
  /\ \A r \in Requests : req[r].at = "acting" <=> lock = r
  /\ main = "stopping" <=> lock = "main"

\* Whoever acts on the runtime is an admin, whoever acts on a process is its user or an
\* admin, and the key of the token was published at some time, whatever other requests
\* fetch and store meanwhile (server.go, routes and appUser; jwks.go, refresh).
ActsAllowed ==
  \A r \in Requests : req[r].at = "acting" =>
    /\ req[r].kid \in ever
    /\ req[r].ask.what = "runtime" => req[r].ask.admin
    /\ req[r].ask.whose = "other" => req[r].ask.admin

\* The process exits with its runtime down, sessions let go, unless a request outlasted
\* the shutdown: no request that was let in starts it again behind main's back (main.go,
\* the order of Shutdown and the deferred Stop).
LeftDown == main = "exited" => ~running \/ late

\* "A miss triggers a refresh": of a key that stays published, as long as tokens of it
\* come in, the cache has it in the end for good, though an older answer may be stored
\* over a newer one and the gate then turn the next refresh away (jwks.go, keyFor).
RotationHeard ==
  \A k \in Kids :
    <>[](k \in published) /\ []<>(main = "serving" /\ \E r \in Requests : req[r] = At("lookup", k))
      => <>[](k \in keys)
=============================================================================
