--------------------------- MODULE PegasusProofs ----------------------------
(***************************************************************************)
(* The application and its feeds: whatever the documents, the number of    *)
(* starts and the order of the clients' reports, Status is true, nothing   *)
(* live is out of reach, and every loaded process can be served.           *)
(***************************************************************************)
EXTENDS Pegasus, TLAPS

\* What each stage of the kernel has; only Start holds the application's lock across steps.
Stages ==
  /\ opening.at # "done" => kernel = "starting"
  /\ kernel \in {"stopped", "starting", "cancelling"} => loaded = {}
  /\ building # {} => kernel = "running"
  /\ kernel = "starting" /\ opening.at = "done" => gen < MaxGen
  /\ opening.at # "done" \/ kernel = "running" => gen \in Gens

\* This start has not opened the session, or the feed, yet.
Early == kernel \in {"stopped", "cancelling"} \/ (kernel = "starting" /\ opening.at \in {"done", "betfair"})
Unopened(f) ==
  Early \/ (kernel = "starting" /\ (opening.at = "tripleS" \/ (opening.at = "tpd" /\ f = "tpd")))

\* What is held is of the generation there is, and what lives is held.
Reach ==
  /\ InReach
  /\ Early => betfair = 0
  /\ \A f \in Feeds : held[f] \in {0, gen} /\ (Unopened(f) => held[f] = 0)

\* The status of a feed once Start has come past it.
Reported(f, st) ==
  /\ st # "none"
  /\ st = "running" <=> held[f] # 0
  /\ st = "disabled" <=> f \notin enabled
  /\ client[gen][f] # "none" => f \in enabled

Known ==
  /\ \A g \in Gens, f \in Feeds :
       /\ g > gen => client[g][f] = "none"
       /\ report[g][f] # "none" => client[g][f] # "none"
  /\ \A f \in Feeds : opening.at # "done" /\ Unopened(f) => client[gen][f] = "none"
  /\ opening.at \in {"tripleS", "tpd"} => enabled = {f \in Feeds : opening.read[f] # "off"}
  /\ opening.at = "tpd" => Reported("tripleS", opening.tripleS)
  /\ kernel = "running" => \A f \in Feeds : Reported(f, feeds[f])

\* What NewProcess has made sure of, for as long as the feeds stay as they are switched.
Served ==
  \A q \in loaded \cup building :
    /\ Validate(q.doc)
    /\ ValidateScopes(q.doc)
    /\ q.sessions = Credentials(q.doc)

IInv == TypeOK /\ Stages /\ Reach /\ Known /\ Served

\* Types.
LEMMA TypeStep == TypeOK /\ Stages /\ [Next]_vars => TypeOK'
<1> SUFFICES ASSUME TypeOK, Stages, [Next]_vars PROVE TypeOK'
  OBVIOUS
<1> DEFINE Openings == [at : {"done", "betfair", "tripleS", "tpd"}, read : [Feeds -> FeedDocs],
                        tripleS : {"none", "disabled", "running", "down"}]
<1>a. Closed \in Openings
  BY DEF Closed, Defaults, Feeds, FeedDocs
<1>b. opening \in Openings /\ docs \in [Feeds -> FeedDocs]
  BY DEF TypeOK
<1>c. \A a \in {"betfair", "tripleS", "tpd"}, st \in {"none", "disabled", "running", "down"} :
        /\ [opening EXCEPT !.at = a] \in Openings
        /\ [opening EXCEPT !.at = a, !.tripleS = st] \in Openings
        /\ [at |-> a, read |-> docs, tripleS |-> st] \in Openings
  BY <1>b
<1>d. \A f \in Feeds : Opened(f) \subseteq {"disabled", "running", "down"}
  BY DEF Opened
<1>e. gen \in Nat /\ gen <= MaxGen /\ MaxGen \in Nat
  BY PegasusAssumption DEF TypeOK
<1>f. gen \in 0..gen /\ 0 \in 0..gen
  BY <1>e
<1>g. opening.at # "done" => gen \in Gens
  BY DEF Stages
<1> DEFINE Clients == [Gens -> [Feeds -> {"none", "up", "closed", "astray", "gone"}]]
<1>h. ASSUME NEW f \in Feeds, NEW st, gen \in Gens, Opens(f, st) PROVE client' \in Clients
  <2>1. client \in Clients /\ client[gen][f] \in {"none", "up", "closed", "astray", "gone"}
    BY <1>h DEF TypeOK
  <2> DEFINE c == IF st = "running" THEN "up"
                  ELSE IF f = "tripleS" /\ ValidFeed(opening.read[f]) /\ st = "down" THEN "closed"
                  ELSE client[gen][f]
  <2>2. client' = [client EXCEPT ![gen] = [client[gen] EXCEPT ![f] = c]]
    BY <1>h DEF Opens
  <2>3. c \in {"none", "up", "closed", "astray", "gone"}
    BY <2>1
  <2> QED BY <2>1, <2>2, <2>3, <1>h
<1> HIDE DEF Openings
<1>1. ASSUME NEW f \in Feeds, NEW doc \in FeedDocs, SaveFeed(f, doc) PROVE TypeOK'
  BY <1>1 DEF SaveFeed, feedVars, procVars, TypeOK
<1>2. CASE KernelStart
  BY <1>2 DEF KernelStart, feedVars, procVars, TypeOK
<1>3. CASE StartReads
  <2>1. gen' = gen + 1 /\ gen' \in 0..MaxGen
    BY <1>3, <1>e DEF StartReads, Starting, Stages
  <2>2. opening' \in Openings /\ kernel' \in {"starting", "stopped"} /\ ctx' \in BOOLEAN
    <3>1. CASE StartFails
      BY <1>3, <3>1, <1>a DEF StartFails
    <3>2. CASE ~StartFails
      BY <1>3, <3>2, <1>c DEF StartReads, Starting, TypeOK
    <3> QED BY <3>1, <3>2
  <2>3. UNCHANGED <<docs, enabled, client, report, held, feeds, exchange, betfair, procs, loaded, building>>
    BY <1>3 DEF StartReads, StartFails, procVars
  <2> QED BY <2>1, <2>2, <2>3, <1>e DEF TypeOK, Openings
<1>4. CASE StartBetfairFails
  <2>1. opening' \in Openings
    BY <1>4, <1>a DEF StartBetfairFails, StartFails
  <2> QED BY <1>4, <2>1 DEF StartBetfairFails, Starting, StartFails, procVars, TypeOK, Openings
<1>5. CASE StartBetfair
  <2>1. opening' \in Openings
    BY <1>5, <1>b, <1>c DEF StartBetfair
  <2>2. exchange' \in [Gens -> {"in", "out"}]
    BY <1>5 DEF StartBetfair, TypeOK
  <2>3. gen' = gen /\ betfair' \in 0..gen
    BY <1>5, <1>f DEF StartBetfair
  <2> QED BY <1>5, <2>1, <2>2, <2>3 DEF StartBetfair, Starting, procVars, TypeOK, Openings
<1>6. CASE StartTripleS
  <2>1. PICK st \in {"disabled", "running", "down"} :
          Opens("tripleS", st) /\ opening' = [opening EXCEPT !.at = "tpd", !.tripleS = st]
    BY <1>6, <1>d DEF StartTripleS, Feeds
  <2>2. opening' \in Openings
    BY <2>1, <1>c
  <2>3. client' \in Clients
    BY <1>6, <2>1, <1>g, <1>h DEF StartTripleS, Starting, Feeds
  <2>4. held' \in [Feeds -> 0..gen]
    BY <2>1, <1>f DEF Opens, TypeOK
  <2> QED BY <1>6, <2>1, <2>2, <2>3, <2>4 DEF StartTripleS, Opens, procVars, TypeOK, Openings
<1>7. CASE StartTPD
  <2>1. PICK st \in {"disabled", "running", "down"} :
          /\ Opens("tpd", st)
          /\ feeds' = [f \in Feeds |-> IF f = "tpd" THEN st ELSE opening.tripleS]
    BY <1>7, <1>d DEF StartTPD, Feeds
  <2>2. opening' \in Openings /\ opening.tripleS \in {"none", "disabled", "running", "down"}
    BY <1>7, <1>a, <1>b DEF StartTPD, Openings
  <2>3. client' \in Clients
    BY <1>7, <2>1, <1>g, <1>h DEF StartTPD, Starting, Feeds
  <2>4. held' \in [Feeds -> 0..gen]
    BY <2>1, <1>f DEF Opens, TypeOK
  <2> QED BY <1>7, <2>1, <2>2, <2>3, <2>4 DEF StartTPD, Opens, procVars, TypeOK, Openings
<1>8. CASE KernelStop
  BY <1>8 DEF KernelStop, feedVars, procVars, TypeOK
<1>9. ASSUME NEW p \in Procs, StopProcess(p) PROVE TypeOK'
  BY <1>9 DEF StopProcess, Removed, feedVars, TypeOK
<1>10. CASE StopApp
  BY <1>10 DEF StopApp, LetGo, TypeOK
<1>11. CASE Cancel
  BY <1>11 DEF Cancel, feedVars, procVars, TypeOK
<1>12. ASSUME NEW g \in Gens, NEW f \in Feeds, Lost(g, f) PROVE TypeOK'
  BY <1>12 DEF Lost, Kernel, procVars, TypeOK
<1>13. ASSUME NEW g \in Gens, NEW f \in Feeds, Ends(g, f) PROVE TypeOK'
  BY <1>13 DEF Ends, Kernel, procVars, TypeOK
<1>14. ASSUME NEW g \in Gens, NEW f \in Feeds, OnFeedFatal(g, f) PROVE TypeOK'
  BY <1>14, SMTT(30) DEF OnFeedFatal, Reports, TakeDown, LetGo, Kernel, Heeded, procVars, TypeOK, Unlocked
<1>15. ASSUME NEW p \in Procs, NEW d \in Docs, NewProcess(p, d) PROVE TypeOK'
  <2>1. building' \in SUBSET Processes
    BY <1>15 DEF NewProcess, Processes, Credentials
  <2> QED BY <1>15, <2>1 DEF NewProcess, feedVars, TypeOK
<1>16. CASE Added
  BY <1>16 DEF Added, feedVars, TypeOK
<1>17. ASSUME NEW p \in Procs, RemoveProcess(p) PROVE TypeOK'
  BY <1>17 DEF RemoveProcess, Removed, feedVars, TypeOK
<1>18. ASSUME NEW g \in Gens, Connects(g) PROVE TypeOK'
  BY <1>18 DEF Connects, Kernel, Feeds, procVars, TypeOK
<1>19. ASSUME NEW g \in Gens, Breaks(g) PROVE TypeOK'
  BY <1>19 DEF Breaks, Kernel, Feeds, procVars, TypeOK
<1>20. CASE UNCHANGED vars
  BY <1>20 DEF vars, feedVars, procVars, TypeOK
<1> QED BY <1>1, <1>2, <1>3, <1>4, <1>5, <1>6, <1>7, <1>8, <1>9, <1>10, <1>11, <1>12, <1>13,
           <1>14, <1>15, <1>16, <1>17, <1>18, <1>19, <1>20 DEF Next, Start, Stop

\* Stages: processes are loaded only between a Start and the Stop after it.
LEMMA StageStep == TypeOK /\ Stages /\ [Next]_vars => Stages'
<1> SUFFICES ASSUME TypeOK, Stages, [Next]_vars PROVE Stages'
  OBVIOUS
<1> USE DEF feedVars, procVars, TypeOK, Stages, Unlocked, Closed
<1>1. ASSUME NEW f \in Feeds, NEW doc \in FeedDocs, SaveFeed(f, doc) PROVE Stages'
  BY <1>1 DEF SaveFeed
<1>2. CASE KernelStart
  BY <1>2 DEF KernelStart
<1>3. CASE StartReads
  <2>1. gen < MaxGen /\ gen' = gen + 1 /\ gen' \in Gens
    BY <1>3, PegasusAssumption DEF StartReads, Starting, Stages, TypeOK, Gens
  <2> QED BY <1>3, <2>1 DEF StartReads, Starting, StartFails, procVars, Stages, Unlocked, Closed
<1>4. CASE StartBetfairFails
  BY <1>4 DEF StartBetfairFails, Starting, StartFails
<1>5. CASE StartBetfair
  BY <1>5 DEF StartBetfair, Starting
<1>6. CASE StartTripleS
  BY <1>6 DEF StartTripleS, Starting, Opens, Opened
<1>7. CASE StartTPD
  BY <1>7 DEF StartTPD, Starting, Opens, Opened
<1>8. CASE KernelStop
  BY <1>8 DEF KernelStop
<1>9. ASSUME NEW p \in Procs, StopProcess(p) PROVE Stages'
  BY <1>9 DEF StopProcess, Removed
<1>10. CASE StopApp
  BY <1>10 DEF StopApp, LetGo
<1>11. CASE Cancel
  BY <1>11 DEF Cancel
<1>12. ASSUME NEW g \in Gens, NEW f \in Feeds, Lost(g, f) PROVE Stages'
  BY <1>12 DEF Lost, Kernel
<1>13. ASSUME NEW g \in Gens, NEW f \in Feeds, Ends(g, f) PROVE Stages'
  BY <1>13 DEF Ends, Kernel
<1>14. ASSUME NEW g \in Gens, NEW f \in Feeds, OnFeedFatal(g, f) PROVE Stages'
  BY <1>14 DEF OnFeedFatal, Reports, TakeDown, LetGo, Kernel, Heeded
<1>15. ASSUME NEW p \in Procs, NEW d \in Docs, NewProcess(p, d) PROVE Stages'
  BY <1>15 DEF NewProcess
<1>16. CASE Added
  BY <1>16 DEF Added
<1>17. ASSUME NEW p \in Procs, RemoveProcess(p) PROVE Stages'
  BY <1>17 DEF RemoveProcess, Removed
<1>18. ASSUME NEW g \in Gens, Connects(g) PROVE Stages'
  BY <1>18 DEF Connects, Kernel
<1>19. ASSUME NEW g \in Gens, Breaks(g) PROVE Stages'
  BY <1>19 DEF Breaks, Kernel
<1>20. CASE UNCHANGED vars
  BY <1>20 DEF vars
<1> HIDE DEF feedVars, procVars, TypeOK, Stages, Unlocked, Closed
<1> QED BY <1>1, <1>2, <1>3, <1>4, <1>5, <1>6, <1>7, <1>8, <1>9, <1>10, <1>11, <1>12, <1>13,
           <1>14, <1>15, <1>16, <1>17, <1>18, <1>19, <1>20 DEF Next, Start, Stop

\* What a report does: the reporter has reported, and if it is heeded the client that is held
\* is closed and down.
LEMMA ReportDoes ==
  ASSUME TypeOK, NEW g \in Gens, NEW f \in Feeds, OnFeedFatal(g, f)
  PROVE  /\ UNCHANGED <<kernel, ctx, docs, gen, opening, enabled, exchange, betfair, procVars>>
         /\ opening.at = "done"
         /\ report[g][f] = "waiting"
         /\ \A k \in Gens, e \in Feeds :
              /\ report'[k][e] # "none" => report[k][e] # "none"
              /\ client'[k][e] = "none" <=> client[k][e] = "none"
              /\ client'[k][e] = "up" => client[k][e] = "up"
         /\ \/ UNCHANGED <<held, feeds>> /\ client' = client
            \/ /\ g = gen
               /\ \A e \in Feeds :
                    /\ held'[e] = IF e = f THEN 0 ELSE held[e]
                    /\ feeds'[e] = IF e = f /\ feeds[e] # "none" THEN "down" ELSE feeds[e]
               /\ \A k \in Gens : held[f] = k => client'[k][f] # "up"
<1>1. report' = [report EXCEPT ![g][f] = "told"] /\ report[g][f] = "waiting"
  BY DEF OnFeedFatal, Reports
<1>2. \A k \in Gens, e \in Feeds : report'[k][e] # "none" => report[k][e] # "none"
  BY <1>1 DEF TypeOK
<1>3. UNCHANGED <<kernel, ctx, docs, gen, opening, enabled, exchange, betfair, procVars>> /\ opening.at = "done"
  BY DEF OnFeedFatal, Reports, Kernel, Unlocked
<1>4. CASE UNCHANGED <<client, held, feeds>>
  BY <1>1, <1>2, <1>3, <1>4
<1>5. CASE Heeded(g) /\ TakeDown(f)
  <2>1. /\ client' = [k \in Gens |-> [e \in Feeds |->
              IF e \in {f} /\ held[e] = k /\ client[k][e] = "up" THEN "closed" ELSE client[k][e]]]
        /\ held' = [e \in Feeds |-> IF e \in {f} THEN 0 ELSE held[e]]
        /\ feeds' = [feeds EXCEPT ![f] = IF @ = "none" THEN "none" ELSE "down"] /\ g = gen
    BY <1>5 DEF TakeDown, LetGo, Heeded
  <2>2. \A k \in Gens, e \in Feeds :
          /\ client'[k][e] = "none" <=> client[k][e] = "none"
          /\ client'[k][e] = "up" => client[k][e] = "up"
    BY <2>1
  <2>3. \A e \in Feeds :
          /\ held'[e] = IF e = f THEN 0 ELSE held[e]
          /\ feeds'[e] = IF e = f /\ feeds[e] # "none" THEN "down" ELSE feeds[e]
    BY <2>1 DEF TypeOK
  <2>4. \A k \in Gens : held[f] = k => client'[k][f] # "up"
    BY <2>1
  <2> QED BY <1>1, <1>2, <1>3, <2>1, <2>2, <2>3, <2>4
<1> QED BY <1>4, <1>5 DEF OnFeedFatal

\* Reach: a generation opens what it holds, and App.Stop lets go of all of it.
LEMMA ReachStep == TypeOK /\ Stages /\ Reach /\ [Next]_vars => Reach'
<1> SUFFICES ASSUME TypeOK, Stages, Reach, [Next]_vars PROVE Reach'
  OBVIOUS
<1> USE DEF feedVars, procVars, TypeOK, Stages, Reach, InReach, Early, Unopened,
            Unlocked, Closed, Feeds, Gens
<1>1. ASSUME NEW f \in Feeds, NEW doc \in FeedDocs, SaveFeed(f, doc) PROVE Reach'
  BY <1>1 DEF SaveFeed
<1>2. CASE KernelStart
  BY <1>2 DEF KernelStart
<1>3. CASE StartReads
  BY <1>3 DEF StartReads, Starting, StartFails
<1>4. CASE StartBetfairFails
  BY <1>4 DEF StartBetfairFails, Starting, StartFails
<1>5. CASE StartBetfair
  BY <1>5 DEF StartBetfair, Starting
<1>6. CASE StartTripleS
  BY <1>6 DEF StartTripleS, Starting, Opens, Opened
<1>7. CASE StartTPD
  BY <1>7 DEF StartTPD, Starting, Opens, Opened
<1>8. CASE KernelStop
  BY <1>8 DEF KernelStop
<1>9. ASSUME NEW p \in Procs, StopProcess(p) PROVE Reach'
  BY <1>9 DEF StopProcess, Removed
<1>10. CASE StopApp
  BY <1>10 DEF StopApp, LetGo
<1>11. CASE Cancel
  BY <1>11 DEF Cancel
<1>12. ASSUME NEW g \in Gens, NEW f \in Feeds, Lost(g, f) PROVE Reach'
  BY <1>12 DEF Lost, Kernel
<1>13. ASSUME NEW g \in Gens, NEW f \in Feeds, Ends(g, f) PROVE Reach'
  BY <1>13 DEF Ends, Kernel
<1>14. ASSUME NEW g \in Gens, NEW f \in Feeds, OnFeedFatal(g, f) PROVE Reach'
  <2>1. UNCHANGED <<kernel, gen, opening, exchange, betfair>>
    BY <1>14, ReportDoes
  <2>2. \A e \in Feeds : held'[e] = held[e] \/ held'[e] = 0
    BY <1>14, ReportDoes
  <2>3. ASSUME NEW k \in Gens, NEW e \in Feeds, client'[k][e] = "up" PROVE held'[e] = k
    <3>1. client[k][e] = "up" /\ held[e] = k
      BY <1>14, <2>3, ReportDoes
    <3>2. held'[e] = held[e] \/ (e = f /\ client'[k][e] # "up")
      BY <1>14, <3>1, ReportDoes
    <3> QED BY <2>3, <3>1, <3>2
  <2> QED BY <2>1, <2>2, <2>3
<1>15. ASSUME NEW p \in Procs, NEW d \in Docs, NewProcess(p, d) PROVE Reach'
  BY <1>15 DEF NewProcess
<1>16. CASE Added
  BY <1>16 DEF Added
<1>17. ASSUME NEW p \in Procs, RemoveProcess(p) PROVE Reach'
  BY <1>17 DEF RemoveProcess, Removed
<1>18. ASSUME NEW g \in Gens, Connects(g) PROVE Reach'
  BY <1>18 DEF Connects, Kernel
<1>19. ASSUME NEW g \in Gens, Breaks(g) PROVE Reach'
  BY <1>19 DEF Breaks, Kernel
<1>20. CASE UNCHANGED vars
  BY <1>20 DEF vars
<1> HIDE DEF feedVars, procVars, TypeOK, Stages, Reach, InReach, Early, Unopened,
             Unlocked, Closed, Feeds, Gens
<1> QED BY <1>1, <1>2, <1>3, <1>4, <1>5, <1>6, <1>7, <1>8, <1>9, <1>10, <1>11, <1>12, <1>13,
           <1>14, <1>15, <1>16, <1>17, <1>18, <1>19, <1>20 DEF Next, Start, Stop

\* Known: the report of a lost client changes the status with what is held.
LEMMA KnownStep == TypeOK /\ Stages /\ Reach /\ Known /\ [Next]_vars => Known'
<1> SUFFICES ASSUME TypeOK, Stages, Reach, Known, [Next]_vars PROVE Known'
  OBVIOUS
<1> USE DEF feedVars, procVars, TypeOK, Stages, Reach, InReach, Early, Unopened, Known,
            Reported, Unlocked, Closed, Feeds, Gens
<1>1. ASSUME NEW f \in Feeds, NEW doc \in FeedDocs, SaveFeed(f, doc) PROVE Known'
  BY <1>1 DEF SaveFeed
<1>2. CASE KernelStart
  BY <1>2 DEF KernelStart
<1>3. CASE StartReads
    BY <1>3, PegasusAssumption DEF StartReads, Starting, StartFails, feedVars, procVars, TypeOK,
         Stages, Reach, InReach, Early, Unopened, Known, Reported, Unlocked, Closed, Feeds, Gens
<1>4. CASE StartBetfairFails
  BY <1>4 DEF StartBetfairFails, Starting, StartFails
<1>5. CASE StartBetfair
  BY <1>5 DEF StartBetfair, Starting
<1>6. CASE StartTripleS
  BY <1>6 DEF StartTripleS, Starting, Opens, Opened
<1>7. CASE StartTPD
  BY <1>7 DEF StartTPD, Starting, Opens, Opened
<1>8. CASE KernelStop
  BY <1>8 DEF KernelStop
<1>9. ASSUME NEW p \in Procs, StopProcess(p) PROVE Known'
  BY <1>9 DEF StopProcess, Removed
<1>10. CASE StopApp
  BY <1>10 DEF StopApp, LetGo
<1>11. CASE Cancel
  BY <1>11 DEF Cancel
<1>12. ASSUME NEW g \in Gens, NEW f \in Feeds, Lost(g, f) PROVE Known'
  BY <1>12 DEF Lost, Kernel
<1>13. ASSUME NEW g \in Gens, NEW f \in Feeds, Ends(g, f) PROVE Known'
  BY <1>13 DEF Ends, Kernel
<1>14. ASSUME NEW g \in Gens, NEW f \in Feeds, OnFeedFatal(g, f) PROVE Known'
  BY <1>14, ReportDoes
<1>15. ASSUME NEW p \in Procs, NEW d \in Docs, NewProcess(p, d) PROVE Known'
  BY <1>15 DEF NewProcess
<1>16. CASE Added
  BY <1>16 DEF Added
<1>17. ASSUME NEW p \in Procs, RemoveProcess(p) PROVE Known'
  BY <1>17 DEF RemoveProcess, Removed
<1>18. ASSUME NEW g \in Gens, Connects(g) PROVE Known'
  BY <1>18 DEF Connects, Kernel
<1>19. ASSUME NEW g \in Gens, Breaks(g) PROVE Known'
  BY <1>19 DEF Breaks, Kernel
<1>20. CASE UNCHANGED vars
  BY <1>20 DEF vars
<1> HIDE DEF feedVars, procVars, TypeOK, Stages, Reach, InReach, Early, Unopened, Known,
             Reported, Unlocked, Closed, Feeds, Gens
<1> QED BY <1>1, <1>2, <1>3, <1>4, <1>5, <1>6, <1>7, <1>8, <1>9, <1>10, <1>11, <1>12, <1>13,
           <1>14, <1>15, <1>16, <1>17, <1>18, <1>19, <1>20 DEF Next, Start, Stop

\* Served: the feeds are switched by a Start, when no process is loaded.
LEMMA ServedStep == TypeOK /\ Stages /\ Served /\ [Next]_vars => Served'
<1> SUFFICES ASSUME TypeOK, Stages, Served, [Next]_vars PROVE Served'
  OBVIOUS
<1> USE DEF feedVars, procVars, TypeOK, Stages, Served, ValidateScopes, Unlocked
<1>1. ASSUME NEW f \in Feeds, NEW doc \in FeedDocs, SaveFeed(f, doc) PROVE Served'
  BY <1>1 DEF SaveFeed
<1>2. CASE KernelStart
  BY <1>2 DEF KernelStart
<1>3. CASE StartReads
  BY <1>3 DEF StartReads, Starting, StartFails
<1>4. CASE StartBetfairFails
  BY <1>4 DEF StartBetfairFails, Starting, StartFails
<1>5. CASE StartBetfair
  BY <1>5 DEF StartBetfair, Starting
<1>6. CASE StartTripleS
  BY <1>6 DEF StartTripleS, Starting, Opens, Opened
<1>7. CASE StartTPD
  BY <1>7 DEF StartTPD, Starting, Opens, Opened, Closed
<1>8. CASE KernelStop
  BY <1>8 DEF KernelStop
<1>9. ASSUME NEW p \in Procs, StopProcess(p) PROVE Served'
  BY <1>9 DEF StopProcess, Removed
<1>10. CASE StopApp
  BY <1>10 DEF StopApp, LetGo
<1>11. CASE Cancel
  BY <1>11 DEF Cancel
<1>12. ASSUME NEW g \in Gens, NEW f \in Feeds, Lost(g, f) PROVE Served'
  BY <1>12 DEF Lost, Kernel
<1>13. ASSUME NEW g \in Gens, NEW f \in Feeds, Ends(g, f) PROVE Served'
  BY <1>13 DEF Ends, Kernel
<1>14. ASSUME NEW g \in Gens, NEW f \in Feeds, OnFeedFatal(g, f) PROVE Served'
  BY <1>14 DEF OnFeedFatal, Reports, TakeDown, LetGo, Kernel, Heeded
<1>15. ASSUME NEW p \in Procs, NEW d \in Docs, NewProcess(p, d) PROVE Served'
  BY <1>15 DEF NewProcess
<1>16. CASE Added
  BY <1>16 DEF Added
<1>17. ASSUME NEW p \in Procs, RemoveProcess(p) PROVE Served'
  BY <1>17 DEF RemoveProcess, Removed
<1>18. ASSUME NEW g \in Gens, Connects(g) PROVE Served'
  BY <1>18 DEF Connects, Kernel
<1>19. ASSUME NEW g \in Gens, Breaks(g) PROVE Served'
  BY <1>19 DEF Breaks, Kernel
<1>20. CASE UNCHANGED vars
  BY <1>20 DEF vars
<1> HIDE DEF feedVars, procVars, TypeOK, Stages, Served, ValidateScopes, Unlocked
<1> QED BY <1>1, <1>2, <1>3, <1>4, <1>5, <1>6, <1>7, <1>8, <1>9, <1>10, <1>11, <1>12, <1>13,
           <1>14, <1>15, <1>16, <1>17, <1>18, <1>19, <1>20 DEF Next, Start, Stop

LEMMA Invariance == Spec => []IInv
<1>1. Init => IInv
  <2> SUFFICES ASSUME Init PROVE IInv
    OBVIOUS
  <2>1. opening.at = "done" /\ kernel = "stopped" /\ loaded = {} /\ building = {}
    BY DEF Init, Closed
  <2>2. TypeOK
    <3>1. docs \in [Feeds -> FeedDocs]
      BY DEF Init, Defaults, Feeds, FeedDocs
    <3>2. opening \in [at : {"done", "betfair", "tripleS", "tpd"}, read : [Feeds -> FeedDocs],
                       tripleS : {"none", "disabled", "running", "down"}]
      BY DEF Init, Closed, Defaults, Feeds, FeedDocs
    <3>3. gen = 0 /\ gen \in 0..MaxGen /\ 0 \in 0..gen
      BY PegasusAssumption DEF Init
    <3> QED BY <3>1, <3>2, <3>3 DEF Init, TypeOK
  <2>3. Stages /\ Served
    BY <2>1 DEF Stages, Served
  <2>4. Reach
    BY <2>1 DEF Init, Reach, InReach, Early, Unopened
  <2>5. Known
    BY <2>1 DEF Init, Known, Unopened
  <2> QED BY <2>2, <2>3, <2>4, <2>5 DEF IInv
<1>2. IInv /\ [Next]_vars => IInv'
  BY TypeStep, StageStep, ReachStep, KnownStep, ServedStep DEF IInv
<1> QED BY <1>1, <1>2, PTL DEF Spec

LEMMA Consequences == IInv => TypeOK /\ StatusTrue /\ InReach /\ SessionForStake /\ ScopeServed
<1> SUFFICES ASSUME IInv PROVE StatusTrue /\ InReach /\ SessionForStake /\ ScopeServed
  BY DEF IInv
<1>1. StatusTrue
  BY DEF IInv, StatusTrue, Reach, Known, Reported
<1>2. InReach
  BY DEF IInv, Reach
<1>3. SessionForStake
  BY DEF IInv, Served, SessionForStake, Validate, Configured, Credentials
<1>4. ScopeServed
  BY DEF IInv, TypeOK, Served, ScopeServed, ValidateScopes, Known, Reported
<1> QED BY <1>1, <1>2, <1>3, <1>4

\* A step takes a client away only where the property lets it: Start takes none, because it
\* has not opened the feed before, and a report that is heeded is that of the client held.
LEMMA SparedStep ==
  ASSUME IInv, [Next]_vars, NEW f \in Feeds, held[f] # 0, held'[f] # held[f]
  PROVE  kernel = "stopping" \/ report[held[f]][f] = "waiting"
<1>1. held[f] = gen /\ held \in [Feeds -> 0..gen]
  BY DEF IInv, Reach, TypeOK
<1>2. CASE Start
  <2>1. CASE StartReads \/ StartBetfairFails \/ StartBetfair
    BY <2>1 DEF StartReads, StartBetfairFails, StartBetfair, StartFails
  <2>2. CASE StartTripleS
    <3>1. held[f] # held'[f] => f = "tripleS"
      BY <1>1, <2>2 DEF StartTripleS, Opens
    <3>2. held["tripleS"] = 0
      BY <2>2 DEF StartTripleS, Starting, IInv, Reach, Unopened, Feeds
    <3> QED BY <3>1, <3>2
  <2>3. CASE StartTPD
    <3>1. held[f] # held'[f] => f = "tpd"
      BY <1>1, <2>3 DEF StartTPD, Opens
    <3>2. held["tpd"] = 0
      BY <2>3 DEF StartTPD, Starting, IInv, Reach, Unopened, Feeds
    <3> QED BY <3>1, <3>2
  <2> QED BY <1>2, <2>1, <2>2, <2>3 DEF Start
<1>3. CASE Stop
  BY <1>3 DEF Stop, StopApp, Cancel, StopProcess, feedVars
<1>4. ASSUME NEW g \in Gens, NEW h \in Feeds, Lost(g, h) \/ Ends(g, h) \/ OnFeedFatal(g, h)
      PROVE  report[held[f]][f] = "waiting"
  <2>1. OnFeedFatal(g, h)
    BY <1>4 DEF Lost, Ends
  <2>2. g = gen /\ f = h /\ report[g][h] = "waiting"
    BY <1>4, <2>1, ReportDoes DEF IInv
  <2> QED BY <1>1, <2>2
<1>5. CASE UNCHANGED held
  BY <1>5
<1>6. Start \/ Stop \/ UNCHANGED held
      \/ \E g \in Gens, h \in Feeds : Lost(g, h) \/ Ends(g, h) \/ OnFeedFatal(g, h)
  BY DEF Next, SaveFeed, KernelStart, KernelStop, NewProcess, Added, RemoveProcess, Connects, Breaks,
         vars, feedVars
<1> QED BY <1>2, <1>3, <1>4, <1>5, <1>6

-----------------------------------------------------------------------------
(* Types, for any documents and any number of starts; a registry has a process per key. *)
THEOREM TypeCorrect == Spec => []TypeOK
  BY Invariance, Consequences, PTL

(* What Status says of a feed is what the application has of it, whichever feeds fail,  *)
(* are lost or report late (app.go, Start and onFeedFatal).                             *)
THEOREM StatusTrueInv == Spec => []StatusTrue
  BY Invariance, Consequences, PTL

(* No client that was opened and not closed, and no session that is logged in, is ever  *)
(* out of reach of Stop; what comes up after it was closed or given up is not meant.    *)
THEOREM InReachInv == Spec => []InReach
  BY Invariance, Consequences, PTL

(* Every bet a loaded process stakes has a session, for every document that validates.  *)
THEOREM SessionForStakeInv == Spec => []SessionForStake
  BY Invariance, Consequences, PTL

(* Every scope a loaded process bets is of a feed that is switched on (validateScopes), *)
(* though documents are saved and the feeds are lost while it is loaded.                *)
THEOREM ScopeServedInv == Spec => []ScopeServed
  BY Invariance, Consequences, PTL

(* A running application loses a client only to that client's own report: one of an old  *)
(* generation stands down, however late it comes (app.go, onFeedFatal).                  *)
THEOREM NewFeedSparedHolds == Spec => NewFeedSpared
<1>1. IInv /\ [Next]_vars =>
        [\A f \in Feeds : held[f] # 0 /\ held'[f] # held[f] =>
           kernel = "stopping" \/ report[held[f]][f] = "waiting"]_vars
  BY SparedStep
<1> QED BY <1>1, Invariance, PTL DEF Spec, NewFeedSpared
=============================================================================
