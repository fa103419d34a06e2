------------------------------- MODULE Kernel -------------------------------
(***************************************************************************)
(* The runtime and process registry of kernel/kernel.go, kernel/process.go *)
(* and kernel/settings.go, over the document store and the session pool.   *)
(*                                                                         *)
(* Every exported operation runs under Kernel.mu, so it is one action.     *)
(* The exceptions are Start, which restores processes one at a time, and   *)
(* Restart, which stops and starts: they hold the lock across several      *)
(* actions, and the process may crash between any two of them.             *)
(*                                                                         *)
(* want, dirty, unsure and missed are history variables: no action's guard *)
(* reads them.                                                             *)
(***************************************************************************)
EXTENDS Engine

CONSTANTS
  Apps,   \* the registered applications
  AppOf   \* the application of a process identity

ASSUME KernelAssumption == AppOf \in [Keys -> Apps]

VARIABLES
  docs,        \* store: the settings document of a process
  state,       \* store: its state document
  running,     \* Kernel.running
  up,          \* Kernel.up: the applications that started
  procs,       \* Kernel.procs: absent, or loaded and stopped or running
  built,       \* the document a loaded process was built from
  pool,        \* Kernel.eng
  restoring,   \* Start: listed processes not yet restored
  restarting,  \* Restart: stopped, not yet started
  want,        \* what the last operation on the process asked for
  dirty,       \* processes whose last state write was reported failed
  unsure,      \* processes whose last settings write was reported failed
  missed       \* processes whose last load failed in this runtime

store  == <<docs, state>>
memory == <<running, up, procs, built, pool, restoring, restarting>>
history == <<want, dirty, unsure, missed>>
vars   == <<store, memory, history>>

States == {"none", "stopped", "running"}

Init ==
  /\ docs  = [k \in Keys |-> NoDoc]
  /\ state = [k \in Keys |-> "none"]
  /\ running = FALSE
  /\ up = {}
  /\ procs = [k \in Keys |-> "none"]
  /\ built = [k \in Keys |-> NoDoc]
  /\ pool = New
  /\ restoring = {}
  /\ restarting = FALSE
  /\ want = [k \in Keys |-> "none"]
  /\ dirty = {}
  /\ unsure = {}
  /\ missed = {}

\* Kernel.mu is free.
Unlocked == restoring = {} /\ ~restarting

Loaded(k) == procs[k] # "none"

\* getAppByProcessKey finds the application running.
Up(k) == running /\ AppOf[k] \in up

\* What ListProcesses says of a process that has settings, and ProcessRunning of one
\* that is loaded.
Answer(s) ==
  CASE s = "none"    -> "not-added"
    [] s = "stopped" -> "stopped"
    [] s = "running" -> "active"

Shown(k) == IF Up(k) THEN Answer(procs[k]) ELSE "offline"

(***************************************************************************)
(* The store.  A write is done, or reported failed; a failed one may have  *)
(* landed all the same, because doc.Store gives up after opTimeout.        *)
(***************************************************************************)
Write == {"done", "failed", "landed"}

\* SetState (s is "stopped" or "running") and Forget (s is "none").
PutState(k, s, w) ==
  /\ state' = IF w = "failed" THEN state ELSE [state EXCEPT ![k] = s]
  /\ dirty' = IF w = "done" THEN dirty \ {k} ELSE dirty \cup {k}
  /\ want'  = [want EXCEPT ![k] = s]

(***************************************************************************)
(* addLocked.  A load succeeds or stops at one of its steps: reading the   *)
(* document, the checks of NewProcess, or opening the sessions, some of    *)
(* which are refused.  NewProcess failing releases what was claimed.       *)
(***************************************************************************)
Load == [fault : {"none"}, refused : SUBSET Sessions]
          \cup [fault : {"unreadable", "invalid"}, refused : {{}}]

Loads(k, d, p, l) ==
  /\ Up(k)
  /\ d # NoDoc
  /\ l.fault = "none"
  /\ AccountOpens(p, d, l.refused)

PoolAfterLoad(k, d, p, l) ==
  IF d = NoDoc \/ l.fault = "unreadable" THEN p
  ELSE IF Loads(k, d, p, l) THEN Account(p, k, d, l.refused)
  ELSE Release(IF l.fault = "none" THEN Account(p, k, d, l.refused) ELSE p, k)

\* The registry after a load of k from document d with pool p; s is the status
\* of the new process if it is built.
AddLocked(k, d, p, l, s) ==
  /\ pool'   = PoolAfterLoad(k, d, p, l)
  /\ procs'  = [procs EXCEPT ![k] = IF Loads(k, d, p, l) THEN s ELSE "none"]
  /\ built'  = [built EXCEPT ![k] = IF Loads(k, d, p, l) THEN d ELSE NoDoc]
  /\ missed' = IF Loads(k, d, p, l) THEN missed \ {k} ELSE missed \cup {k}
  /\ unsure' = unsure \ {k}

\* Stop, Close, delete from the registry, release the sessions.
Unload(k) ==
  /\ procs'  = [procs EXCEPT ![k] = "none"]
  /\ built'  = [built EXCEPT ![k] = NoDoc]
  /\ pool'   = Release(pool, k)
  /\ missed' = missed \ {k}

-----------------------------------------------------------------------------
(* The runtime *)

\* Processes: what the store lists for an application, read in one go or not at all.
Saved(app) == {k \in Keys : state[k] # "none" /\ AppOf[k] = app}

\* startLocked: ok are the applications that start, unlisted the ones whose
\* state documents the store fails to list.
StartLocked(ok, unlisted) ==
  /\ up' = up \cup ok
  /\ running' = (up \cup ok # {})
  /\ pool' = New
  /\ restoring' = UNION {Saved(app) : app \in (up \cup ok) \ unlisted}
  /\ missed' = UNION {Saved(app) : app \in (up \cup ok) \cap unlisted}
  /\ UNCHANGED <<store, procs, built, want, dirty, unsure>>

StopLocked ==
  /\ running
  /\ running' = FALSE
  /\ procs' = [k \in Keys |-> "none"]
  /\ built' = [k \in Keys |-> NoDoc]
  /\ up' = {}
  /\ pool' = Close
  /\ missed' = {}
  /\ UNCHANGED <<store, restoring, want, dirty, unsure>>

Start(ok, unlisted) ==
  /\ Unlocked
  /\ ~running
  /\ StartLocked(ok, unlisted)
  /\ UNCHANGED restarting

Stop ==
  /\ Unlocked
  /\ StopLocked
  /\ UNCHANGED restarting

\* Restart of a runtime that is down is Start.
RestartStops ==
  /\ Unlocked
  /\ StopLocked
  /\ restarting' = TRUE

RestartStarts(ok, unlisted) ==
  /\ restarting
  /\ StartLocked(ok, unlisted)
  /\ restarting' = FALSE

\* Mutant of Restore: whatever was saved is started.
RestoreStartsAll(k, l) ==
  /\ k \in restoring
  /\ ~Loaded(k)
  /\ restoring' = restoring \ {k}
  /\ AddLocked(k, docs[k], pool, l, "running")
  /\ UNCHANGED <<store, running, up, restarting, want, dirty>>

\* One turn of restoreProcessesLocked; a process that does not load is skipped
\* and its state document left as it is.
Restore(k, l) ==
  /\ k \in restoring
  /\ ~Loaded(k)
  /\ restoring' = restoring \ {k}
  /\ AddLocked(k, docs[k], pool, l, state[k])
  /\ UNCHANGED <<store, running, up, restarting, want, dirty>>

\* The container dies: the store is all that is left.
Crash ==
  /\ running' = FALSE
  /\ up' = {}
  /\ procs' = [k \in Keys |-> "none"]
  /\ built' = [k \in Keys |-> NoDoc]
  /\ pool' = New
  /\ restoring' = {}
  /\ restarting' = FALSE
  /\ missed' = {}
  /\ UNCHANGED <<store, want, dirty, unsure>>

-----------------------------------------------------------------------------
(* Process operations *)

Quiet == UNCHANGED <<running, up, restoring, restarting>>

\* A load that fails leaves the process as it was: absent.
AddProcess(k, l, w) ==
  /\ Unlocked
  /\ Up(k)
  /\ ~Loaded(k)
  /\ AddLocked(k, docs[k], pool, l, "stopped")
  /\ IF Loads(k, docs[k], pool, l)
     THEN PutState(k, "stopped", w)
     ELSE UNCHANGED <<state, want, dirty>>
  /\ Quiet
  /\ UNCHANGED docs

\* StartProcess and StopProcess: s is the status asked for.
SetRunning(k, s, w) ==
  /\ Unlocked
  /\ running
  /\ Loaded(k)
  /\ procs' = [procs EXCEPT ![k] = s]
  /\ PutState(k, s, w)
  /\ Quiet
  /\ UNCHANGED <<docs, built, pool, unsure, missed>>

StartProcess(k, w) == SetRunning(k, "running", w)
StopProcess(k, w)  == SetRunning(k, "stopped", w)

\* Mutants of Rebuild: the new process joins the sessions of the old one, or is
\* built from the document read before the save.
RebuildJoins(k, l, s) == AddLocked(k, docs'[k], pool, l, s)
RebuildStale(k, l, s) == AddLocked(k, docs[k], Release(pool, k), l, s)

\* rebuildLocked: release first, so an account nobody else holds is dialled
\* again with the new credentials.
Rebuild(k, l, s) == AddLocked(k, docs'[k], Release(pool, k), l, s)
Rebuilds(k, l) == Loads(k, docs'[k], Release(pool, k), l)

RestartProcess(k, l, w) ==
  /\ Unlocked
  /\ running
  /\ Loaded(k)
  /\ UNCHANGED docs
  /\ Rebuild(k, l, "running")
  /\ PutState(k, IF Rebuilds(k, l) THEN "running" ELSE "stopped", w)
  /\ Quiet

\* A failed Forget is only logged.
DeleteProcess(k, w) ==
  /\ Unlocked
  /\ running
  /\ Loaded(k)
  /\ Unload(k)
  /\ PutState(k, "none", w)
  /\ Quiet
  /\ UNCHANGED <<docs, unsure>>

\* PutProcess reports a failure: the handler returns it and does nothing else,
\* though the document may be in the store.
SaveFails(k, d) ==
  /\ Unlocked
  /\ docs' = [docs EXCEPT ![k] = d]
  /\ unsure' = unsure \cup {k}
  /\ UNCHANGED <<state, memory, want, dirty, missed>>

\* The process is not loaded: the document is all that changes.
SaveUnloaded(k, d) ==
  /\ Unlocked
  /\ ~(running /\ Loaded(k))
  /\ docs' = [docs EXCEPT ![k] = d]
  /\ UNCHANGED <<state, memory, history>>

\* The process is loaded: rebuilt at once, and started again if it ran.  The
\* state document is written unless a stopped process was rebuilt.
SaveReloads(k, d, l, w) ==
  /\ Unlocked
  /\ running
  /\ Loaded(k)
  /\ docs' = [docs EXCEPT ![k] = d]
  /\ Rebuild(k, l, procs[k])
  /\ IF Rebuilds(k, l) /\ procs[k] = "stopped"
     THEN UNCHANGED <<state, want, dirty>>
     ELSE PutState(k, IF Rebuilds(k, l) THEN "running" ELSE "stopped", w)
  /\ Quiet

\* Mutant of DeleteProcessSettings: the settings go without waiting for the state.
DeleteSettingsAnyway(k, f, g) ==
  /\ Unlocked
  /\ IF running /\ Loaded(k)
     THEN Unload(k)
     ELSE missed' = missed \ {k} /\ UNCHANGED <<procs, built, pool>>
  /\ PutState(k, "none", f)
  /\ docs' = IF g # "failed" THEN [docs EXCEPT ![k] = NoDoc] ELSE docs
  /\ Quiet
  /\ UNCHANGED unsure

\* Unloads whatever the store then does; the settings go only once the state
\* document has gone.  f and g are the outcomes of the two deletes.
DeleteProcessSettings(k, f, g) ==
  /\ Unlocked
  /\ IF running /\ Loaded(k)
     THEN Unload(k)
     ELSE missed' = missed \ {k} /\ UNCHANGED <<procs, built, pool>>
  /\ PutState(k, "none", f)
  /\ docs' = IF f = "done" /\ g # "failed" THEN [docs EXCEPT ![k] = NoDoc] ELSE docs
  /\ Quiet
  /\ UNCHANGED unsure

-----------------------------------------------------------------------------
Next ==
  \/ \E ok \in SUBSET Apps, unlisted \in SUBSET Apps :
       Start(ok, unlisted) \/ RestartStarts(ok, unlisted)
  \/ Stop
  \/ RestartStops
  \/ Crash
  \/ \E k \in Keys :
       \/ \E l \in Load : Restore(k, l)
       \/ \E l \in Load, w \in Write : AddProcess(k, l, w) \/ RestartProcess(k, l, w)
       \/ \E w \in Write : StartProcess(k, w) \/ StopProcess(k, w) \/ DeleteProcess(k, w)
       \/ \E d \in Docs : SaveFails(k, d) \/ SaveUnloaded(k, d)
       \/ \E d \in Docs, l \in Load, w \in Write : SaveReloads(k, d, l, w)
       \/ \E f, g \in Write : DeleteProcessSettings(k, f, g)

Spec == Init /\ [][Next]_vars

-----------------------------------------------------------------------------
(* Properties *)

\* Types, and a process is in the registry exactly when it was built from a
\* document (kernel/process.go: addLocked).
TypeOK ==
  /\ docs \in [Keys -> Docs \cup {NoDoc}]
  /\ state \in [Keys -> States]
  /\ running \in BOOLEAN
  /\ up \in SUBSET Apps
  /\ procs \in [Keys -> States]
  /\ built \in [Keys -> Docs \cup {NoDoc}]
  /\ pool \in Pool
  /\ restoring \in SUBSET Keys
  /\ restarting \in BOOLEAN
  /\ want \in [Keys -> States]
  /\ dirty \in SUBSET Keys
  /\ unsure \in SUBSET Keys
  /\ missed \in SUBSET Keys
  /\ \A k \in Keys : Loaded(k) <=> built[k] # NoDoc

\* Whatever starts, fails, stops or is rebuilt, a loaded process belongs to an
\* application that is up in a runtime that is running, and a runtime that is
\* down has no application up (kernel.go: startLocked, stopLocked).
Registry ==
  /\ \A k \in Keys : Loaded(k) => AppOf[k] \in up
  /\ running <=> up # {}

Need == [k \in Keys |-> IF Loaded(k) THEN Accounts(built[k]) ELSE {}]

\* Every session is held by exactly the loaded processes whose document names
\* its account, none outlives its last holder, and the client a process bets
\* through is never one that was logged out under it: "Deleting one of two
\* processes on the same Betmatic email does not log the other out".
SessionsExact == Exact(pool, Need)

\* A loaded process runs on the settings in the store: saving rebuilds it under
\* the lock the write holds (settings.go: SaveProcessSettings), unless the
\* write was reported failed and landed.
SettingsCurrent ==
  \A k \in Keys : Loaded(k) /\ k \notin unsure => built[k] = docs[k]

\* No state document is left for a process whose settings are gone, at whatever
\* write a delete stops, so no start ever tries to restore one
\* (DeleteProcessSettings forgets first).
StateHasSettings ==
  \A k \in Keys : state[k] # "none" => docs[k] # NoDoc

\* "Starting the runtime after a container restart restores the set that was
\* running": through any stops, crashes and restarts, once a process has had its
\* turn the list says of it what the last operation on it asked for, unless a write
\* of its state failed or it would not load.
IntentKept ==
  \A k \in Keys : Up(k) /\ k \notin restoring \cup dirty \cup missed => Shown(k) = Answer(want[k])

\* A save never changes whether a process runs: "A saved process that is loaded
\* is rebuilt at once and left running if it was" - or, failing to load, is gone.
ReloadKeepsStatus ==
  [][\A k \in Keys :
       docs'[k] # docs[k] => procs'[k] \in {procs[k], "none"}]_vars

\* New credentials take effect at once when nobody else holds the account: the
\* rebuild closes the session and dials it again from the new document
\* (rebuildLocked releases before it adds).
SoleHolderRedials ==
  [][\A k \in Keys :
       Loaded(k) /\ built'[k] \notin {NoDoc, built[k]} =>
         \A s \in Accounts(built'[k]) :
           pool.holders[s] \subseteq {k} => pool'.dialled[s] = built'[k]]_vars
=============================================================================
