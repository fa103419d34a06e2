---------------------------- MODULE TripleSFeed -----------------------------
(***************************************************************************)
(* The Triple-S client of apps/pegasus/triples: NewClient, the callbacks   *)
(* the MQTT library makes, and the loop that reconnects.  The library's    *)
(* own reconnect is off, because a signed URL expires, so every connection *)
(* is another client of the library and Client.mqtt points to the last one *)
(* that was installed.                                                     *)
(*                                                                         *)
(* Of the library and the broker: a dial ends or outlasts its timeout, and *)
(* then may still connect; a connection is lost at any time; each makes    *)
(* its callbacks on a goroutine of its own.                                *)
(***************************************************************************)
EXTENDS Naturals, FiniteSets

CONSTANTS
  Conns,       \* connections; one that is gone is used again
  Loops,       \* goroutines of reconnectLoop; a finished one is used again
  MaxAttempts, \* maxReconnectAttempts
  NoConn

ASSUME TripleSFeedAssumption ==
  /\ NoConn \notin Conns
  /\ MaxAttempts \in Nat \ {0}
  /\ IsFiniteSet(Loops)

VARIABLES
  conn,         \* what has become of each connection
  greeting,     \* connections whose onConnect has not returned
  subscribed,   \* connections the broker has the subscriptions of
  opening,      \* where NewClient is, and the connection it dials
  mqtt,         \* Client.mqtt
  reconnecting, \* Client.reconnecting
  loop,         \* per goroutine: where it is, its attempt and the connection it dials
  ctx,          \* Client.ctx is alive
  stopped,      \* Disconnect was called
  fatal,        \* onFatal was called
  dropped,      \* history: a loss was turned away, and nothing came up since
  strayed       \* history: a dial given up came up after all, "late", or was installed in a
                \* client that is not in service, "behind"

connections == <<conn, greeting, subscribed>>
vars == <<connections, opening, mqtt, reconnecting, loop, ctx, stopped, fatal, dropped, strayed>>

\* A loop that dials nothing.
Standing(at, n) == [at |-> at, attempt |-> n, conn |-> NoConn]
Idle == Standing("free", 0)

\* App.Start has called NewClient.
Init ==
  \E c \in Conns :
    /\ conn = [d \in Conns |-> IF d = c THEN "dialling" ELSE "none"]
    /\ greeting = {}
    /\ subscribed = {}
    /\ opening = [at |-> "dial", conn |-> c]
    /\ mqtt = NoConn
    /\ reconnecting = FALSE
    /\ loop = [l \in Loops |-> Idle]
    /\ ctx = TRUE
    /\ stopped = FALSE
    /\ fatal = FALSE
    /\ dropped = FALSE
    /\ strayed = {}

\* The application has the client: opened, not given up, not disconnected.
InService == opening.at = "open" /\ ~fatal /\ ~stopped

-----------------------------------------------------------------------------
(* The library and the broker *)

Awaited(c) ==
  \/ opening = [at |-> "dial", conn |-> c]
  \/ \E l \in Loops : loop[l].at = "dial" /\ loop[l].conn = c
Held(c) == c = mqtt \/ opening.conn = c \/ \E l \in Loops : loop[l].conn = c

Library == UNCHANGED <<opening, mqtt, reconnecting, ctx, stopped, fatal>>

\* A connection comes up, the one of a dial that timed out too; onConnect is called.
Connects(c) ==
  /\ conn[c] = "dialling"
  /\ conn' = [conn EXCEPT ![c] = "up"]
  /\ greeting' = greeting \cup {c}
  /\ strayed' = IF Awaited(c) THEN strayed ELSE strayed \cup {"late"}
  /\ Library
  /\ UNCHANGED <<subscribed, loop, dropped>>

\* A dial nobody waits for any more fails.
Abandoned(c) ==
  /\ conn[c] = "dialling"
  /\ ~Awaited(c)
  /\ conn' = [conn EXCEPT ![c] = "gone"]
  /\ Library
  /\ UNCHANGED <<greeting, subscribed, loop, dropped, strayed>>

\* onConnect subscribes; what fails is logged.
OnConnect(c) ==
  /\ c \in greeting
  /\ greeting' = greeting \ {c}
  /\ \/ conn[c] = "up" /\ subscribed' = subscribed \cup {c}
     \/ UNCHANGED subscribed
  /\ Library
  /\ UNCHANGED <<conn, loop, dropped, strayed>>

Breaks(c) ==
  /\ conn[c] = "up"
  /\ conn' = [conn EXCEPT ![c] = "lost"]
  /\ subscribed' = subscribed \ {c}
  /\ Library
  /\ UNCHANGED <<greeting, loop, dropped, strayed>>

\* Mutant of OnConnectionLost: a line in the log.
OnConnectionLostLogs(c, l) ==
  /\ conn[c] = "lost"
  /\ loop[l].at = "free"
  /\ conn' = [conn EXCEPT ![c] = "gone"]
  /\ Library
  /\ UNCHANGED <<greeting, subscribed, loop, dropped, strayed>>

\* onConnectionLost starts a loop.
OnConnectionLost(c, l) ==
  /\ conn[c] = "lost"
  /\ loop[l].at = "free"
  /\ conn' = [conn EXCEPT ![c] = "gone"]
  /\ loop' = [loop EXCEPT ![l].at = "start"]
  /\ Library
  /\ UNCHANGED <<greeting, subscribed, dropped, strayed>>

\* A connection nothing points to is forgotten.
Collected(c) ==
  /\ conn[c] = "gone"
  /\ c \notin greeting
  /\ ~Held(c)
  /\ conn' = [conn EXCEPT ![c] = "none"]
  /\ Library
  /\ UNCHANGED <<greeting, subscribed, loop, dropped, strayed>>

\* mqtt.Client.Disconnect: no callback.
Closed(c) == [d \in Conns |-> IF d = c /\ conn[d] = "up" THEN "gone" ELSE conn[d]]

-----------------------------------------------------------------------------
(* NewClient *)

Opening == UNCHANGED <<reconnecting, loop, ctx, stopped, fatal, dropped, strayed>>

\* The dial fails, or outlasts its timeout and is left to itself.
NewFails ==
  /\ opening.at = "dial"
  /\ conn[opening.conn] = "dialling"
  /\ opening' = [at |-> "failed", conn |-> NoConn]
  /\ conn' \in {conn, [conn EXCEPT ![opening.conn] = "gone"]}
  /\ Opening
  /\ UNCHANGED <<greeting, subscribed, mqtt>>

NewInstalls ==
  /\ opening.at = "dial"
  /\ conn[opening.conn] # "dialling"
  /\ opening' = [opening EXCEPT !.at = "subscribe"]
  /\ mqtt' = opening.conn
  /\ Opening
  /\ UNCHANGED connections

NewSubscribes ==
  /\ opening.at = "subscribe"
  /\ conn[opening.conn] = "up"
  /\ subscribed' = subscribed \cup {opening.conn}
  /\ opening' = [at |-> "open", conn |-> NoConn]
  /\ Opening
  /\ UNCHANGED <<conn, greeting, mqtt>>

\* Mutant of NewSubscribeFails: the connection is left as it is.
NewSubscribeFailsOnly ==
  /\ opening.at = "subscribe"
  /\ opening' = [at |-> "failed", conn |-> NoConn]
  /\ Opening
  /\ UNCHANGED <<connections, mqtt>>

\* The caller gets an error; a loop that a loss has started meanwhile goes on.
NewSubscribeFails ==
  /\ opening.at = "subscribe"
  /\ conn' = Closed(opening.conn)
  /\ subscribed' = subscribed \ {opening.conn}
  /\ opening' = [at |-> "failed", conn |-> NoConn]
  /\ Opening
  /\ UNCHANGED <<greeting, mqtt>>

-----------------------------------------------------------------------------
(* reconnectLoop *)

Loop == UNCHANGED <<opening, ctx, stopped>>

\* Only one reconnect run at a time: another returns.
Begin(l) ==
  /\ loop[l].at = "start"
  /\ reconnecting' = TRUE
  /\ loop' = [loop EXCEPT ![l] = IF reconnecting THEN Idle
                                 ELSE Standing("wait", 1)]
  /\ dropped' = reconnecting
  /\ Loop
  /\ UNCHANGED <<connections, mqtt, fatal, strayed>>

\* The backoff has passed: dial.
Dial(l, c) ==
  /\ loop[l].at = "wait"
  /\ conn[c] = "none"
  /\ conn' = [conn EXCEPT ![c] = "dialling"]
  /\ loop' = [loop EXCEPT ![l].at = "dial", ![l].conn = c]
  /\ Loop
  /\ UNCHANGED <<greeting, subscribed, mqtt, reconnecting, fatal, dropped, strayed>>

\* Mutant of AfterFailure: one attempt short.
AfterFailureShort(l) ==
  IF loop[l].attempt + 1 < MaxAttempts
  THEN Standing("wait", loop[l].attempt + 1)
  ELSE Standing("exhausted", 0)

\* Failed: another attempt, or none is left.
AfterFailure(l) ==
  IF loop[l].attempt < MaxAttempts
  THEN Standing("wait", loop[l].attempt + 1)
  ELSE Standing("exhausted", 0)

\* Or there is no signed URL to dial.
SignFails(l) ==
  /\ loop[l].at = "wait"
  /\ loop' = [loop EXCEPT ![l] = AfterFailure(l)]
  /\ Loop
  /\ UNCHANGED <<connections, mqtt, reconnecting, fatal, dropped, strayed>>

\* Or the context is done: leave, by way of the deferred clear.
StandDown(l) ==
  /\ loop[l].at \in {"wait", "exhausted"}
  /\ ~ctx
  /\ loop' = [loop EXCEPT ![l] = Standing("clear", 0)]
  /\ Loop
  /\ UNCHANGED <<connections, mqtt, reconnecting, fatal, dropped, strayed>>

\* The dial fails, or outlasts its timeout and is left to itself.
DialFails(l) ==
  /\ loop[l].at = "dial"
  /\ conn[loop[l].conn] = "dialling"
  /\ conn' \in {conn, [conn EXCEPT ![loop[l].conn] = "gone"]}
  /\ loop' = [loop EXCEPT ![l] = AfterFailure(l)]
  /\ Loop
  /\ UNCHANGED <<greeting, subscribed, mqtt, reconnecting, fatal, dropped, strayed>>

\* Installed: up, or what has become of it.
Installed(l) ==
  /\ loop[l].at = "dial"
  /\ conn[loop[l].conn] # "dialling"
  /\ mqtt' = loop[l].conn
  /\ dropped' = (dropped /\ conn[loop[l].conn] # "up")
  /\ strayed' = IF InService THEN strayed ELSE strayed \cup {"behind"}
  /\ Loop
  /\ UNCHANGED <<connections, reconnecting, fatal>>

\* Mutants of Install: no deferred clear, and no return.
InstallReturns(l) == Installed(l) /\ loop' = [loop EXCEPT ![l] = Idle]
InstallGoesOn(l) == Installed(l) /\ loop' = [loop EXCEPT ![l] = AfterFailure(l)]

\* The dial is through: the loop leaves, by way of the deferred clear.
Install(l) == Installed(l) /\ loop' = [loop EXCEPT ![l] = Standing("clear", 0)]

\* All attempts have failed and the context is alive: to onFatal.
GiveUp(l) ==
  /\ loop[l].at = "exhausted"
  /\ ctx
  /\ loop' = [loop EXCEPT ![l].at = "fatal"]
  /\ Loop
  /\ UNCHANGED <<connections, mqtt, reconnecting, fatal, dropped, strayed>>

\* onFatal, once: the application, which App.Start and Stop keep waiting, closes the
\* client it has.
OnFatal(l) ==
  /\ loop[l].at = "fatal"
  /\ fatal \/ opening.at \in {"open", "failed"}
  /\ fatal' = TRUE
  /\ IF InService
     THEN conn' = Closed(mqtt) /\ subscribed' = subscribed \ {mqtt}
     ELSE UNCHANGED <<conn, subscribed>>
  /\ loop' = [loop EXCEPT ![l] = Standing("clear", 0)]
  /\ Loop
  /\ UNCHANGED <<greeting, mqtt, reconnecting, dropped, strayed>>

Clear(l) ==
  /\ loop[l].at = "clear"
  /\ reconnecting' = FALSE
  /\ loop' = [loop EXCEPT ![l] = Idle]
  /\ Loop
  /\ UNCHANGED <<connections, mqtt, fatal, dropped, strayed>>

-----------------------------------------------------------------------------
(* The application *)

\* App.Stop, of a client it still has: the connection that is installed now.
Disconnect ==
  /\ InService
  /\ stopped' = TRUE
  /\ conn' = Closed(mqtt)
  /\ subscribed' = subscribed \ {mqtt}
  /\ UNCHANGED <<greeting, opening, mqtt, reconnecting, loop, ctx, fatal, dropped, strayed>>

\* The runtime's context, once its applications are stopped.
Cancel ==
  /\ ctx
  /\ opening.at \in {"open", "failed"}
  /\ ~InService
  /\ ctx' = FALSE
  /\ UNCHANGED <<connections, opening, mqtt, reconnecting, loop, stopped, fatal, dropped, strayed>>

Run(l) ==
  \/ Begin(l) \/ SignFails(l) \/ StandDown(l) \/ DialFails(l) \/ Install(l)
  \/ GiveUp(l) \/ OnFatal(l) \/ Clear(l)
  \/ \E c \in Conns : Dial(l, c)

Next ==
  \/ \E c \in Conns : Connects(c) \/ Abandoned(c) \/ OnConnect(c) \/ Breaks(c) \/ Collected(c)
  \/ \E c \in Conns, l \in Loops : OnConnectionLost(c, l)
  \/ NewFails \/ NewInstalls \/ NewSubscribes \/ NewSubscribeFails
  \/ \E l \in Loops : Run(l)
  \/ Disconnect
  \/ Cancel

\* Goroutines that can run do and a dial ends or times out; App.Start comes back, so
\* that its lock is free.
Spec ==
  /\ Init
  /\ [][Next]_vars
  /\ \A l \in Loops : WF_vars(Run(l))
  /\ WF_vars(NewFails \/ NewInstalls)
  /\ WF_vars(NewSubscribes \/ NewSubscribeFails)

-----------------------------------------------------------------------------
(* Properties *)

\* Types; no run dials more than MaxAttempts times.
TypeOK ==
  /\ conn \in [Conns -> {"none", "dialling", "up", "lost", "gone"}]
  /\ greeting \in SUBSET Conns
  /\ subscribed \in SUBSET Conns
  /\ opening \in [at : {"dial", "subscribe", "open", "failed"}, conn : Conns \cup {NoConn}]
  /\ mqtt \in Conns \cup {NoConn}
  /\ reconnecting \in BOOLEAN
  /\ loop \in [Loops -> [at : {"free", "start", "wait", "dial", "exhausted", "fatal", "clear"},
                         attempt : 0..MaxAttempts, conn : Conns \cup {NoConn}]]
  /\ ctx \in BOOLEAN
  /\ stopped \in BOOLEAN
  /\ fatal \in BOOLEAN
  /\ dropped \in BOOLEAN
  /\ strayed \in SUBSET {"late", "behind"}

Reconnects(l) == loop[l].at \notin {"free", "start"}

\* "Only one reconnect run at a time": however connections flap, no two loops dial in
\* parallel, and the flag is set exactly while one runs.
OneRun ==
  /\ \A l, m \in Loops : Reconnects(l) /\ Reconnects(m) => l = m
  /\ reconnecting <=> \E l \in Loops : Reconnects(l)

\* What the application has of the client, and the one run there is.
ServiceNow ==
  IF opening.at \in {"dial", "subscribe"} THEN "opening"
  ELSE IF opening.at = "failed" THEN "failed"
  ELSE IF stopped THEN "stopped"
  ELSE IF fatal THEN "lost"
  ELSE "open"
Runner == CHOOSE l \in Loops : Reconnects(l)
RunNow ==
  IF ~reconnecting THEN "none"
  ELSE IF loop[Runner].at \in {"wait", "dial"} THEN "trying" ELSE loop[Runner].at
AttemptNow == IF reconnecting THEN loop[Runner].attempt ELSE 0

Promise == INSTANCE Feed WITH
  service <- ServiceNow,
  run <- RunNow,
  attempt <- AttemptNow,
  alive <- ctx

\* "Permanently lost" is what maxReconnectAttempts says: however many goroutines the
\* losses start, together they are one run after the other, which dials at most so often,
\* ends at the first success, gives up only when all have failed and its context is
\* alive, and reports to an application that has opened the client.
FeedKept == Promise!Spec

\* A connection is there, or somebody is about to see that it is not.
Tended ==
  \/ \E c \in Conns : conn[c] \in {"up", "lost"}
  \/ \E l \in Loops : loop[l].at # "free"

\* A feed in service is never dark with nobody working on it, as long as no loss was
\* turned away by the guard of the run before it.
LossTended == InService /\ ~dropped => Tended

\* Without that proviso: a feed that is lost for good is reported.
LossHandled == InService => Tended

\* A feed that was reported lost for good has no connection with subscriptions.
DownIsDown ==
  fatal /\ opening.at = "open" /\ ~stopped => \A c \in Conns : ~(conn[c] = "up" /\ c \in subscribed)

\* onFeedFatal takes "one permanently lost feed out of service": "its client is closed and Status
\* reports it down with the reason" (app.go:240-242).  At least one of the two is kept, for as long
\* as a client lives: that it is reported, or that it is closed.  A behaviour against this breaks
\* one and later the other.
FatalKept == []LossHandled \/ []DownIsDown

\* The feed is out of service: it never started, was given up, or was stopped with the
\* runtime and has no loop left.
OutOfService ==
  \/ opening.at = "failed"
  \/ fatal /\ opening.at = "open"
  \/ stopped /\ ~ctx /\ \A l \in Loops : loop[l].at = "free"

\* "Without this each spawns a loop that dials in parallel": unless a dial that was given up
\* comes up after all, there is one connection that is up or whose loss is to be told, one
\* dial, or one loop at work, and never two; no race is heard of twice.
AtWork(l) ==
  \/ loop[l].at \in {"start", "wait", "exhausted", "fatal"}
  \/ loop[l].at = "dial" /\ conn[loop[l].conn] = "dialling"
NewDials == opening.at = "dial" /\ conn[opening.conn] = "dialling"
Live(c) == conn[c] \in {"up", "lost"}
OneFeed ==
  "late" \notin strayed =>
    /\ \A c, d \in Conns : Live(c) /\ Live(d) => c = d
    /\ \A l, m \in Loops : AtWork(l) /\ AtWork(m) => l = m
    /\ (\E c \in Conns : Live(c)) => ~NewDials /\ \A l \in Loops : ~AtWork(l)
    /\ NewDials => \A l \in Loops : ~AtWork(l)

\* "triple-s did not start; nothing will bet off it until a restart", "permanently lost; it will
\* not bet again until a restart", "this client is obsolete" (app.go:139 and 281, client.go:150):
\* with nothing strayed, what is up in a feed out of service is a dial that is still to be
\* installed.  What strays breaks all three; of the second FatalKept shows it.
DownClosed == OutOfService /\ strayed = {} => \A c \in Conns : conn[c] = "up" => Awaited(c)

\* Every reconnect run ends: connected, given up, or stood down.
RunEnds == reconnecting ~> ~reconnecting
=============================================================================
