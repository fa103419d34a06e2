------------------------------ MODULE Pegasus -------------------------------
(***************************************************************************)
(* The Pegasus application: apps/pegasus/app.go under the kernel's Start,  *)
(* Stop and process operations.                                            *)
(*                                                                         *)
(* Every Start makes a generation with clients of its own.  Start and Stop *)
(* hold App.mu, and a client that is lost waits for it in onFeedFatal; its *)
(* turn may come long after its generation has ended.  A client that is    *)
(* closed reports too, as long as its context is alive: the TPD reader     *)
(* takes the closed socket for an error, and a reconnect run of Triple-S   *)
(* goes on.  What such a run dials, and a dial that was given up, may come *)
(* up with nobody to close it: the client goes astray.  Of the kernel's    *)
(* other applications there is none, so a Start that fails ends the        *)
(* runtime.                                                                *)
(***************************************************************************)
EXTENDS Settings

CONSTANTS
  Procs,   \* process keys
  Docs,    \* the documents they may have
  MaxGen   \* bound: how often the application is started

ASSUME PegasusAssumption == MaxGen \in Nat /\ Docs \subseteq Documents

VARIABLES
  kernel,   \* where the kernel is with its lock
  ctx,      \* the context of the last generation is alive
  docs,     \* the stored feed documents
  gen,      \* App.gen
  opening,  \* where Start is, the documents it read and the status it has of Triple-S
  enabled,  \* App.enabled
  client,   \* per generation and feed: what has become of its client
  report,   \* per generation and feed: its call of onFatal, which is made once
  held,     \* App.triples and App.tpd: the generation of the client, 0 for none
  feeds,    \* App.feeds, "none" for no list
  exchange, \* per generation: the admin account's session
  betfair,  \* App.betfair: its generation, 0 for none
  procs,    \* App.procs, keys with their documents
  loaded,   \* Kernel.procs, likewise
  building  \* the one NewProcess has validated and not yet added

feedVars == <<opening, enabled, client, report, held, feeds>>
procVars == <<procs, loaded, building>>
vars == <<kernel, ctx, docs, gen, feedVars, exchange, betfair, procVars>>

Gens == 1..MaxGen

\* Nobody holds App.mu.
Closed == [at |-> "done", read |-> Defaults, tripleS |-> "none"]
Unlocked == opening.at = "done"

Init ==
  /\ kernel = "stopped"
  /\ ctx = FALSE
  /\ docs = Defaults
  /\ gen = 0
  /\ opening = Closed
  /\ enabled = {}
  /\ client = [g \in Gens |-> [f \in Feeds |-> "none"]]
  /\ report = [g \in Gens |-> [f \in Feeds |-> "none"]]
  /\ held = [f \in Feeds |-> 0]
  /\ feeds = [f \in Feeds |-> "none"]
  /\ exchange = [g \in Gens |-> "out"]
  /\ betfair = 0
  /\ procs = {}
  /\ loaded = {}
  /\ building = {}

\* SaveAppSettings: a document that passes; the application reads it when it starts.
SaveFeed(f, doc) ==
  /\ kernel \in {"stopped", "running"}
  /\ ValidFeed(doc)
  /\ docs' = [docs EXCEPT ![f] = doc]
  /\ UNCHANGED <<kernel, ctx, gen, feedVars, exchange, betfair, procVars>>

-----------------------------------------------------------------------------
(* Start *)

KernelStart ==
  /\ kernel = "stopped"
  /\ gen < MaxGen
  /\ kernel' = "starting"
  /\ UNCHANGED <<ctx, docs, gen, feedVars, exchange, betfair, procVars>>

Starting(step) ==
  /\ kernel = "starting"
  /\ opening.at = step

\* App.Start returns an error.
StartFails ==
  /\ kernel' = "stopped"
  /\ ctx' = FALSE
  /\ opening' = Closed
  /\ UNCHANGED <<docs, enabled, client, report, held, feeds, exchange, betfair, procVars>>

\* The lock is taken and the feeds' documents are read, or cannot be.
StartReads ==
  /\ Starting("done")
  /\ Unlocked
  /\ gen' = gen + 1
  /\ \/ StartFails
     \/ /\ opening' = [at |-> "betfair", read |-> docs, tripleS |-> "none"]
        /\ ctx' = TRUE
        /\ UNCHANGED <<kernel, docs, enabled, client, report, held, feeds, exchange, betfair, procVars>>

\* setupBetfair, "the one hard failure".
StartBetfairFails ==
  /\ Starting("betfair")
  /\ StartFails
  /\ UNCHANGED gen

StartBetfair ==
  /\ Starting("betfair")
  /\ exchange' = [exchange EXCEPT ![gen] = "in"]
  /\ betfair' = gen
  /\ enabled' = {f \in Feeds : opening.read[f] # "off"}
  /\ opening' = [opening EXCEPT !.at = "tripleS"]
  /\ UNCHANGED <<kernel, ctx, docs, gen, client, report, held, feeds, procVars>>

\* setupTriples and setupTPD: what they leave of a feed.
Opened(f) ==
  IF opening.read[f] = "off" THEN {"disabled"}
  ELSE IF ~ValidFeed(opening.read[f]) THEN {"down"}
  ELSE {"running", "down"}

\* A Triple-S client that fails to open may have left a dial or a reconnect run.
Opens(f, st) ==
  /\ client' = [client EXCEPT ![gen][f] =
       IF st = "running" THEN "up"
       ELSE IF f = "tripleS" /\ ValidFeed(opening.read[f]) /\ st = "down" THEN "closed" ELSE @]
  /\ UNCHANGED report
  /\ held' = [held EXCEPT ![f] = IF st = "running" THEN gen ELSE @]

StartTripleS ==
  /\ Starting("tripleS")
  /\ \E st \in Opened("tripleS") :
       /\ Opens("tripleS", st)
       /\ opening' = [opening EXCEPT !.at = "tpd", !.tripleS = st]
  /\ UNCHANGED <<kernel, ctx, docs, gen, enabled, feeds, exchange, betfair, procVars>>

\* And the status of both is stored.
StartTPD ==
  /\ Starting("tpd")
  /\ \E st \in Opened("tpd") :
       /\ Opens("tpd", st)
       /\ feeds' = [f \in Feeds |-> IF f = "tpd" THEN st ELSE opening.tripleS]
  /\ opening' = Closed
  /\ kernel' = "running"
  /\ UNCHANGED <<ctx, docs, gen, enabled, exchange, betfair, procVars>>

-----------------------------------------------------------------------------
(* Stop *)

KernelStop ==
  /\ kernel = "running"
  /\ building = {}
  /\ kernel' = "stopping"
  /\ UNCHANGED <<ctx, docs, gen, feedVars, exchange, betfair, procVars>>

\* Process.Close calls back into remove.
Removed(p) ==
  /\ procs' = {q \in procs : q.key # p}
  /\ loaded' = {q \in loaded : q.key # p}

StopProcess(p) ==
  /\ kernel = "stopping"
  /\ \E q \in loaded : q.key = p
  /\ Removed(p)
  /\ UNCHANGED <<kernel, ctx, docs, gen, feedVars, exchange, betfair, building>>

\* Mutant of LetGo: one feed after the other, and the second is forgotten.
LetGoFirst(fs) ==
  /\ client' = [g \in Gens |-> [f \in Feeds |->
       IF f \in fs \cap {"tripleS"} /\ held[f] = g /\ client[g][f] = "up" THEN "closed" ELSE client[g][f]]]
  /\ held' = [f \in Feeds |-> IF f \in fs THEN 0 ELSE held[f]]

\* Disconnect or Close what is held of these feeds.
LetGo(fs) ==
  /\ client' = [g \in Gens |-> [f \in Feeds |->
       IF f \in fs /\ held[f] = g /\ client[g][f] = "up" THEN "closed" ELSE client[g][f]]]
  /\ held' = [f \in Feeds |-> IF f \in fs THEN 0 ELSE held[f]]

\* App.Stop.
StopApp ==
  /\ kernel = "stopping"
  /\ loaded = {}
  /\ Unlocked
  /\ LetGo(Feeds)
  /\ exchange' = [g \in Gens |-> IF g = betfair THEN "out" ELSE exchange[g]]
  /\ betfair' = 0
  /\ feeds' = [f \in Feeds |-> "none"]
  /\ procs' = {}
  /\ kernel' = "cancelling"
  /\ UNCHANGED <<ctx, docs, gen, opening, enabled, report, loaded, building>>

Cancel ==
  /\ kernel = "cancelling"
  /\ ctx' = FALSE
  /\ kernel' = "stopped"
  /\ UNCHANGED <<docs, gen, feedVars, exchange, betfair, procVars>>

-----------------------------------------------------------------------------
(* The clients of the feeds *)

Alive(g) == ctx /\ g = gen
Kernel == UNCHANGED <<kernel, ctx, docs, gen, opening, enabled, exchange, betfair, procVars>>

\* For good: it calls onFatal.  What is closed or astray may do so as well.
Lost(g, f) ==
  /\ client[g][f] \in {"up", "closed", "astray"}
  /\ report[g][f] = "none"
  /\ Alive(g)
  /\ report' = [report EXCEPT ![g][f] = "waiting"]
  /\ Kernel
  /\ UNCHANGED <<client, held, feeds>>

\* Closed and done.  The TPD reader returns only over a dead context or once it has reported.
Ends(g, f) ==
  /\ client[g][f] = "closed"
  /\ report[g][f] # "waiting"
  /\ f = "tripleS" \/ ~Alive(g) \/ report[g][f] = "told"
  /\ client' = [client EXCEPT ![g][f] = "gone"]
  /\ Kernel
  /\ UNCHANGED <<report, held, feeds>>

\* A dial of a Triple-S client that is closed comes up: one that was given up, or one of a
\* reconnect run, which installs it after Disconnect has read the one before.  Both are
\* made without the context.
Connects(g) ==
  /\ client[g]["tripleS"] = "closed"
  /\ client' = [client EXCEPT ![g]["tripleS"] = "astray"]
  /\ Kernel
  /\ UNCHANGED <<report, held, feeds>>

Breaks(g) ==
  /\ client[g]["tripleS"] = "astray"
  /\ client' = [client EXCEPT ![g]["tripleS"] = "closed"]
  /\ Kernel
  /\ UNCHANGED <<report, held, feeds>>

\* Mutant of Heeded: whichever generation it is of.
HeededAlways(g) == g \in Gens

\* The report of an old generation stands down.
Heeded(g) == g = gen

Reports(g, f) ==
  /\ report[g][f] = "waiting"
  /\ report' = [report EXCEPT ![g][f] = "told"]
  /\ Kernel

\* The client that is held is closed, which is the reporter if there is one.
TakeDown(f) ==
  /\ LetGo({f})
  /\ feeds' = [feeds EXCEPT ![f] = IF @ = "none" THEN "none" ELSE "down"]

\* Mutant of OnFeedFatal: it gives up where it would have to wait.
OnFeedFatalTries(g, f) ==
  /\ Reports(g, f)
  /\ IF Heeded(g) /\ Unlocked THEN TakeDown(f) ELSE UNCHANGED <<client, held, feeds>>

OnFeedFatal(g, f) ==
  /\ Unlocked
  /\ Reports(g, f)
  /\ IF Heeded(g) THEN TakeDown(f) ELSE UNCHANGED <<client, held, feeds>>

-----------------------------------------------------------------------------
(* Processes *)

\* Mutant of ValidateScopes: that a feed covers the country is enough.
ValidateScopesAnyFeed(d) == d.stakes["nowhere"] = {}

\* validateScopes: a feed covers the country, and is switched on.
ValidateScopes(d) == \A g \in Regions : d.stakes[g] # {} => g \in enabled

\* NewProcess, up to the account: the sessions open, or there is no process.
NewProcess(p, d) ==
  /\ kernel = "running"
  /\ building = {}
  /\ \A q \in loaded : q.key # p
  /\ Validate(d)
  /\ ValidateScopes(d)
  /\ building' = {[key |-> p, doc |-> d, sessions |-> Credentials(d)]}
  /\ UNCHANGED <<kernel, ctx, docs, gen, feedVars, exchange, betfair, procs, loaded>>

\* And from there: into App.procs under its lock, and back to the kernel.
Added ==
  /\ building # {}
  /\ Unlocked
  /\ procs' = procs \cup building
  /\ loaded' = loaded \cup building
  /\ building' = {}
  /\ UNCHANGED <<kernel, ctx, docs, gen, feedVars, exchange, betfair>>

RemoveProcess(p) ==
  /\ kernel = "running"
  /\ building = {}
  /\ \E q \in loaded : q.key = p
  /\ Removed(p)
  /\ UNCHANGED <<kernel, ctx, docs, gen, feedVars, exchange, betfair, building>>

Start == StartReads \/ StartBetfairFails \/ StartBetfair \/ StartTripleS \/ StartTPD
Stop == StopApp \/ Cancel \/ \E p \in Procs : StopProcess(p)

Next ==
  \/ \E f \in Feeds, doc \in FeedDocs : SaveFeed(f, doc)
  \/ KernelStart \/ Start
  \/ KernelStop \/ Stop
  \/ \E g \in Gens, f \in Feeds : Lost(g, f) \/ Ends(g, f) \/ OnFeedFatal(g, f)
  \/ \E g \in Gens : Connects(g) \/ Breaks(g)
  \/ \E p \in Procs, d \in Docs : NewProcess(p, d)
  \/ Added
  \/ \E p \in Procs : RemoveProcess(p)

\* Start and Stop come to their end, and whoever waits for the lock gets it.
Spec ==
  /\ Init
  /\ [][Next]_vars
  /\ WF_vars(Start)
  /\ WF_vars(Stop)
  /\ WF_vars(Added)
  /\ \A g \in Gens, f \in Feeds : WF_vars(OnFeedFatal(g, f))

-----------------------------------------------------------------------------
(* Properties *)

Processes == [key : Procs, doc : Docs, sessions : SUBSET Providers]

\* Types; registries have a process per key, and generations do not come from the future.
TypeOK ==
  /\ kernel \in {"stopped", "starting", "running", "stopping", "cancelling"}
  /\ ctx \in BOOLEAN
  /\ docs \in [Feeds -> FeedDocs]
  /\ gen \in 0..MaxGen
  /\ opening \in [at : {"done", "betfair", "tripleS", "tpd"}, read : [Feeds -> FeedDocs],
                   tripleS : {"none", "disabled", "running", "down"}]
  /\ enabled \in SUBSET Feeds
  /\ client \in [Gens -> [Feeds -> {"none", "up", "closed", "astray", "gone"}]]
  /\ report \in [Gens -> [Feeds -> {"none", "waiting", "told"}]]
  /\ held \in [Feeds -> 0..gen]
  /\ feeds \in [Feeds -> {"none", "disabled", "running", "down"}]
  /\ exchange \in [Gens -> {"in", "out"}]
  /\ betfair \in 0..gen
  /\ procs \in SUBSET Processes
  /\ loaded \in SUBSET Processes
  /\ building \in SUBSET Processes
  /\ \A q, r \in loaded \cup building : q.key = r.key => q = r

\* "Status says which one is down": whenever the lock is free, what Status says of a feed
\* is what the application has, of this generation and no other.
StatusTrue ==
  Unlocked /\ kernel = "running" => \A f \in Feeds :
    /\ feeds[f] = "running" <=> held[f] # 0
    /\ feeds[f] = "disabled" <=> f \notin enabled
    /\ held[f] \in {0, gen}

\* A client that was opened and not closed, and a session that is logged in, is one the
\* application has and Stop will reach: no start, stop or late report leaves one behind.  It
\* says nothing of a Triple-S client that comes up after it was closed or given up ("astray"):
\* nothing reaches that one, as FatalKept of TripleSFeed shows.
InReach ==
  \A g \in Gens :
    /\ \A f \in Feeds : client[g][f] = "up" => held[f] = g
    /\ exchange[g] = "in" => betfair = g

\* "gen tells a late feed callback from a previous generation to stand down": a running
\* application loses a client only to that client's own report.
NewFeedSpared ==
  [][\A f \in Feeds : held[f] # 0 /\ held'[f] # held[f] =>
       kernel = "stopping" \/ report[held[f]][f] = "waiting"]_vars

\* A client that is lost for good is taken out of service, and by StatusTrue reported,
\* though its report may have to wait for a Start.
LossReported ==
  \A g \in Gens, f \in Feeds : held[f] = g /\ report[g][f] = "waiting" ~> held[f] # g

\* Every bet a loaded process stakes has a session to be placed with: what Validate asks
\* for is what Credentials opens.
SessionForStake == \A q \in loaded : Staked(q.doc) \subseteq q.sessions

\* "A scope is only bettable if a feed covers its country" and is switched on, by what
\* Status says too.
ScopeServed ==
  \A q \in loaded : \A g \in Regions : q.doc.stakes[g] # {} =>
    g \in Feeds /\ (kernel = "running" => feeds[g] \in {"running", "down"})
=============================================================================
