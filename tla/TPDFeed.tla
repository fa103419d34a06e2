------------------------------ MODULE TPDFeed -------------------------------
(***************************************************************************)
(* The TPD client of apps/pegasus/tpd once App.Start has called NewClient: *)
(* the race list GmaxClient caches and fetches by date, and the tracker    *)
(* that gives every progress packet its race and status.                   *)
(*                                                                         *)
(* A race sends a script of snapshots.  UDP loses, repeats and reorders    *)
(* them, a parallel feed does too: any snapshot sent may come in at any    *)
(* time, as long as it is not out of date.  A packet is handled at once:   *)
(* one goroutine reads the socket, and Ref holds the tracker's lock.       *)
(* Init, Next, Spec and TypeOK say TPD: FeedProofs extends both feeds.     *)
(***************************************************************************)
EXTENDS Naturals, Sequences, FiniteSets

CONSTANTS
  Races,        \* races with a sharecode
  DateOf,       \* the date in the sharecode
  Course,       \* races whose course is in CourseCodes
  Length,       \* the length the list gives, 0 for none
  Script,       \* per race: the snapshots it sends, in order of their timestamps
  Withdrawn,    \* bound: races the server may take off its list
  QueueSize,    \* capacity of GmaxClient.wanted
  PrefetchDays, \* prefetchDays
  RetainDays,   \* retainDays
  FirstDay, LastDay \* bound: the days the model sees

\* Distances count in a unit longer than offMargin; "clock" is a running time above 0.
Snapshots == [progress : Nat, clock : BOOLEAN]

ASSUME TPDFeedAssumption ==
  /\ DateOf \in [Races -> Nat]
  /\ Course \subseteq Races
  /\ Length \in [Races -> Nat]
  /\ Script \in [Races -> Seq(Snapshots)]
  /\ QueueSize \in Nat
  /\ PrefetchDays \in Nat /\ RetainDays \in Nat
  /\ FirstDay \in Nat /\ LastDay \in Nat /\ FirstDay <= LastDay

\* Progress is set to the official distance "before the off and it only falls once
\* running" (raceState), and a clock that runs is not turned back.
ASSUME ScriptAssumption ==
  \A r \in Races : \A i, j \in 1..Len(Script[r]) :
    i <= j => /\ Script[r][j].progress <= Script[r][i].progress
              /\ Script[r][i].clock => Script[r][j].clock

VARIABLES
  today,   \* the date
  listing, \* races the server lists
  races,   \* GmaxClient.races
  loaded,  \* GmaxClient.loaded
  wanted,  \* GmaxClient.wanted
  refresh, \* what refreshLoop, or before it run, is doing
  tracked, \* Tracker.races
  sent,    \* per race: how many snapshots it has sent
  stale,   \* per race: snapshots up to this one are too old to come in any more
  handed   \* history: per race, the last snapshot that went to the handler

list == <<races, loaded, refresh>>
tpdVars == <<today, listing, list, wanted, tracked, sent, stale, handed>>

Dates == 0..(LastDay + PrefetchDays)
Around(d) == {e \in Dates : e <= d + PrefetchDays /\ d <= e + PrefetchDays}

\* Of raceState: the newest timestamp, officialDistance and finished; and, as history, the
\* snapshot the race was joined at.
Tracking(on, first, at, distance, finished) ==
  [on |-> on, first |-> first, at |-> at, distance |-> distance, finished |-> finished]
Untracked == Tracking(FALSE, 0, 0, 0, FALSE)

\* "again" when the handler had this snapshot or a newer one.
Handing(at, status, distance, again) ==
  [at |-> at, status |-> status, distance |-> distance, again |-> again]
Nothing == Handing(0, "none", 0, FALSE)

\* refreshAll over these dates; "open" is the one run waits for.
Refreshing(at, todo, oldest, ok) == [at |-> at, todo |-> todo, oldest |-> oldest, ok |-> ok]
Resting == Refreshing("idle", {}, 0, FALSE)
Oldest == IF today > RetainDays THEN today - RetainDays ELSE 0

TPDInit ==
  /\ today = FirstDay
  /\ listing \in SUBSET Races
  /\ races = {}
  /\ loaded = {}
  /\ wanted = <<>>
  /\ refresh = Refreshing("open", Around(FirstDay), Oldest, FALSE)
  /\ tracked = [r \in Races |-> Untracked]
  /\ sent = [r \in Races |-> 0]
  /\ stale = [r \in Races |-> 0]
  /\ handed = [r \in Races |-> Nothing]

-----------------------------------------------------------------------------
(* The race list *)

World == UNCHANGED <<today, listing, sent, stale>>

\* What follows the last date: the client is there or is not, or the loop waits again.
Then(todo, ok) ==
  IF todo # {} THEN Refreshing(refresh.at, todo, refresh.oldest, ok)
  ELSE IF refresh.at = "open" /\ ~ok THEN Refreshing("failed", {}, 0, FALSE)
  ELSE Resting

\* load and fetch: the answer is merged in, and what it lacks is kept.
Load(d) ==
  /\ d \in refresh.todo
  /\ refresh.at = "one" \/ d >= refresh.oldest
  /\ races' = races \cup {r \in listing : DateOf[r] = d}
  /\ loaded' = loaded \cup {d}
  /\ refresh' = Then(refresh.todo \ {d}, TRUE)
  /\ World
  /\ UNCHANGED <<wanted, tracked, handed>>

LoadFails(d) ==
  /\ d \in refresh.todo
  /\ refresh.at = "one" \/ d >= refresh.oldest
  /\ refresh' = Then(refresh.todo \ {d}, refresh.ok)
  /\ World
  /\ UNCHANGED <<races, loaded, wanted, tracked, handed>>

Drop(d) ==
  /\ d \in refresh.todo
  /\ refresh.at # "one" /\ d < refresh.oldest
  /\ loaded' = loaded \ {d}
  /\ races' = {r \in races : DateOf[r] # d}
  /\ refresh' = Then(refresh.todo \ {d}, refresh.ok)
  /\ World
  /\ UNCHANGED <<wanted, tracked, handed>>

\* refreshLoop: a date somebody asked for, or the ticker.
Take ==
  /\ refresh.at = "idle"
  /\ wanted # <<>>
  /\ wanted' = Tail(wanted)
  /\ refresh' = Refreshing("one", {Head(wanted)}, 0, FALSE)
  /\ World
  /\ UNCHANGED <<races, loaded, tracked, handed>>

RefreshAll ==
  /\ refresh.at = "idle"
  /\ refresh' = Refreshing("all", Around(today) \cup loaded, Oldest, FALSE)
  /\ World
  /\ UNCHANGED <<races, loaded, wanted, tracked, handed>>

-----------------------------------------------------------------------------
(* The tracker *)

Listening == refresh.at \notin {"open", "failed"}

\* A packet comes in, for the first time or again.
Arrives(r, t) == Listening /\ stale[r] < t /\ t <= sent[r]

\* Mutant of Miss: a miss, and nothing more.
MissOnly(r) == r \notin races /\ UNCHANGED tpdVars

\* Lookup misses: the date is queued if there is room.
Miss(r) ==
  /\ \E t \in 1..Len(Script[r]) : Arrives(r, t)
  /\ r \in Course
  /\ ~tracked[r].on /\ r \notin races
  /\ Len(wanted) < QueueSize
  /\ wanted' = Append(wanted, DateOf[r])
  /\ World
  /\ UNCHANGED <<list, tracked, handed>>

Larger(a, b) == IF a < b THEN b ELSE a
RefDistance(r, largest) == IF Length[r] # 0 THEN Length[r] ELSE largest

\* Mutant of Status: the clock alone tells a race that is off.
StatusByClock(finished, distance, p) ==
  IF finished THEN "finished" ELSE IF p.clock THEN "running" ELSE "pre"

Status(finished, distance, p) ==
  IF finished THEN "finished"
  ELSE IF p.clock \/ p.progress < distance THEN "running"
  ELSE "pre"

\* Mutant of Fresh: a packet that comes again is acted on again.
FreshOrAgain(r, t) == tracked[r].at <= t

\* Newer than what was acted on; a race not tracked yet has acted on nothing.
Fresh(r, t) == tracked[r].at < t

\* Ref and the handler it lets through.
Ref(r, t) ==
  LET p == Script[r][t]
      largest == Larger(tracked[r].distance, p.progress)
      finished == tracked[r].finished \/ p.progress = 0
      distance == RefDistance(r, largest)
      first == IF tracked[r].on THEN tracked[r].first ELSE t
  IN /\ Arrives(r, t)
     /\ tracked[r].on \/ r \in Course \cap races
     /\ Fresh(r, t)
     /\ tracked' = [tracked EXCEPT ![r] = Tracking(TRUE, first, t, largest, finished)]
     /\ handed' = [handed EXCEPT ![r] = Handing(t, Status(finished, distance, p), distance,
                                               handed[r].again \/ t <= handed[r].at)]
     /\ World
     /\ UNCHANGED <<list, wanted>>

Official(r) == Script[r][1].progress
AtPost(r, t) == t = 0 \/ (Script[r][t].progress = Official(r) /\ ~Script[r][t].clock)

\* Mutant of Sweep: without the wait.
SweepAtOnce(r) ==
  /\ tracked[r].on
  /\ tracked' = [tracked EXCEPT ![r] = Untracked]
  /\ UNCHANGED <<today, listing, list, wanted, sent, stale, handed>>

\* SweepExpired drops a race not heard of for raceExpiry.  No race runs that long, so a
\* race whose running was seen is over; and no packet is on its way that long.
Sweep(r) ==
  /\ tracked[r].on
  /\ AtPost(r, tracked[r].at) \/ sent[r] = Len(Script[r])
  /\ tracked' = [tracked EXCEPT ![r] = Untracked]
  /\ stale' = [stale EXCEPT ![r] = IF AtPost(r, tracked[r].at) THEN tracked[r].at ELSE sent[r]]
  /\ UNCHANGED <<today, listing, list, wanted, sent, handed>>

-----------------------------------------------------------------------------
(* The world *)

Client == UNCHANGED <<list, wanted, tracked, handed>>

\* A race sends its next snapshot, on its day or the one before or after elsewhere.
Send(r) ==
  /\ DateOf[r] \in Around(today)
  /\ sent[r] < Len(Script[r])
  /\ sent' = [sent EXCEPT ![r] = @ + 1]
  /\ UNCHANGED <<today, listing, stale>>
  /\ Client

\* The server comes to list a race.
Publish(r) ==
  /\ r \notin listing
  /\ listing' = listing \cup {r}
  /\ UNCHANGED <<today, sent, stale>>
  /\ Client

\* The server takes a race off its list.
Withdraw(r) ==
  /\ r \in listing \cap Withdrawn
  /\ listing' = listing \ {r}
  /\ UNCHANGED <<today, sent, stale>>
  /\ Client

NextDay ==
  /\ today < LastDay
  /\ today' = today + 1
  /\ UNCHANGED <<listing, sent, stale>>
  /\ Client

TPDNext ==
  \/ \E d \in Dates : Load(d) \/ LoadFails(d) \/ Drop(d)
  \/ Take
  \/ RefreshAll
  \/ \E r \in Races : Miss(r) \/ Sweep(r) \/ Send(r) \/ Publish(r) \/ Withdraw(r)
  \/ \E r \in Races : \E t \in 1..Len(Script[r]) : Ref(r, t)
  \/ NextDay

\* refreshLoop goes on, its select takes a date that waits in spite of the ticker, and
\* a fetch that is repeated succeeds.  Packets come twice a second: one is read, and one
\* of every race finds the queue with room.
TPDSpec ==
  /\ TPDInit
  /\ [][TPDNext]_tpdVars
  /\ WF_tpdVars(\E d \in Dates : Load(d) \/ LoadFails(d) \/ Drop(d))
  /\ SF_tpdVars(Take)
  /\ \A d \in Dates : SF_tpdVars(Load(d))
  /\ \A r \in Races : SF_tpdVars(Miss(r)) /\ WF_tpdVars(\E t \in 1..Len(Script[r]) : Ref(r, t))

-----------------------------------------------------------------------------
(* Properties *)

\* Types; the queue keeps its capacity.
TPDTypeOK ==
  /\ today \in FirstDay..LastDay
  /\ listing \in SUBSET Races
  /\ races \in SUBSET Races
  /\ loaded \in SUBSET Dates
  /\ wanted \in Seq(Dates)
  /\ Len(wanted) <= QueueSize
  /\ refresh \in [at : {"open", "failed", "idle", "one", "all"}, todo : SUBSET Dates,
                   oldest : Nat, ok : BOOLEAN]
  /\ tracked \in [Races -> [on : BOOLEAN, first : Nat, at : Nat, distance : Nat, finished : BOOLEAN]]
  /\ sent \in [Races -> Nat]
  /\ stale \in [Races -> Nat]
  /\ handed \in [Races -> [at : Nat, status : {"none", "pre", "running", "finished"},
                           distance : Nat, again : BOOLEAN]]

\* A snapshot older than one already acted on, or acted on already, is not actionable,
\* which makes a parallel feed safe: across sweeps and out of any order, the handler
\* gets the snapshots of a race in order and each at most once.
NewestOnly == \A r \in Races : ~handed[r].again

Rank == [none |-> 0, pre |-> 1, running |-> 2, finished |-> 3]

\* A race never goes back: not to the post once it ran, not to running once finished.
StatusForward == [][\A r \in Races : Rank[handed[r].status] <= Rank[handed'[r].status]]_tpdVars

\* The list gives a race's length as it is, or none.
Measured(r) == Length[r] = Official(r)

\* What Ref takes for the distance can be relied on.
Sure(r) == Measured(r) \/ (Length[r] = 0 /\ AtPost(r, tracked[r].first))

\* With no length from the list, the distance handed on is the official one, if the race was
\* joined at the post; with a length, it is that one.  "The maximum is correct even when the feed
\* is joined mid-race" (update.go:49-50) is more, and is not so: Progress falls on the run, and
\* the largest seen is that of the first packet.
DistanceTrue == \A r \in Races : tracked[r].on /\ Sure(r) => handed[r].distance = Official(r)

Truth(r, t) ==
  IF Script[r][t].progress = 0 THEN "finished" ELSE IF AtPost(r, t) THEN "pre" ELSE "running"

\* "The independent check": the status handed on is true, where the start was detected
\* and where it was not, unless there is no clock and the distance is not to be relied on:
\* a race with no length that is joined on the run, its start not detected, is said to be at
\* the post until it has run offMargin more.
StatusTrue ==
  \A r \in Races : tracked[r].on /\ (Sure(r) \/ Script[r][tracked[r].at].clock)
    => handed[r].status = Truth(r, handed[r].at)

\* "Retried on the next packet, so a cold cache costs a tick rather than a race": a race
\* that is listed and on the air reaches the handler, unless its date comes to be past or
\* the server takes it off its list.
Resolved ==
  \A r \in Course :
    r \in listing /\ Listening /\ stale[r] < sent[r]
      ~> handed[r] # Nothing \/ DateOf[r] < Oldest \/ r \notin listing
=============================================================================
