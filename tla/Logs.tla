-------------------------------- MODULE Logs --------------------------------
(***************************************************************************)
(* The logger of logger/logger.go with its ring and the Telegram sink: any *)
(* goroutine emits, one goroutine of the sink drains its queue and sends,  *)
(* and main installs the logger and stops it.                              *)
(*                                                                         *)
(* A line is what dispatch compares: level, message and process.  Time     *)
(* counts in the time a channel takes to earn one token; ages, not a       *)
(* clock, are kept, up to the one that still matters.  The sweep's ticker  *)
(* may ring at any time.                                                   *)
(***************************************************************************)
EXTENDS Ring, FiniteSets

CONSTANTS
  Emitters,   \* goroutines that log
  SinkLevel,  \* telegram.Config.Level
  ChannelOf,  \* "bet" and "log": the channel each kind of line goes to, None if there is none
  None,
  QueueSize,  \* capacity of Sink.queue
  Window,     \* Config.DedupeWindow, 0 when lines are not compared
  Burst,      \* channelBurst
  Horizon,    \* bound: how long calls are remembered
  MaxNotes    \* bound: lines logged

ASSUME LogsAssumption ==
  /\ None \notin Lines
  /\ SinkLevel \in Int
  /\ DOMAIN ChannelOf = {"bet", "log"}
  /\ QueueSize \in Nat \ {0} /\ Window \in Nat /\ Burst \in Nat \ {0}
  /\ Horizon \in Nat /\ MaxNotes \in Nat

Channels == {ChannelOf["bet"], ChannelOf["log"]} \ {None}
channelFor(l) == ChannelOf[IF Level[l] = LevelBet THEN "bet" ELSE "log"]
Enabled(l) == channelFor(l) # None /\ (Level[l] = LevelBet \/ Level[l] >= SinkLevel)

VARIABLES
  std,     \* the logger installed: "bootstrap" has no ring and no sink
  stop,    \* how far Stop has got: "no", "swapped", "closed"
  emits,   \* per goroutine: what emit is doing
  queue,   \* Sink.queue
  muted,   \* Sink.suppressed
  pace,    \* Sink.pace
  sink,    \* what the goroutine of the sink is doing
  notes,   \* history: per line logged, what has become of it
  calls,   \* history: per channel, how long ago the last calls were, newest first, up to Horizon
  alone    \* history: how long ago each line last went out by itself, up to a window

logVars == <<std, stop, emits, queue, muted, pace, sink, notes, calls, alone>>
vars == <<ringVars, logVars>>

Least(a, b) == IF a < b THEN a ELSE b

Out == [at |-> "out", note |-> 0, late |-> FALSE]
Quiet == [on |-> FALSE, age |-> 0, count |-> 0]
Free == [at |-> "free", line |-> None, more |-> FALSE, attempt |-> 0, due |-> {}, forced |-> FALSE]

Panicked == \E e \in Emitters : emits[e].at = "panicked"

\* All that has become f: of the lines like l it counted, or of the line it is sending.
Become(l, from, f) ==
  [i \in DOMAIN notes |->
    IF notes[i].line = l /\ notes[i].fate = from THEN [notes[i] EXCEPT !.fate = f] ELSE notes[i]]

Init ==
  /\ newRing
  /\ std = "bootstrap" /\ stop = "no"
  /\ emits = [e \in Emitters |-> Out]
  /\ queue = <<>>
  /\ muted = [l \in Lines |-> Quiet]
  /\ pace = [c \in Channels |-> [tokens |-> Burst, since |-> 0]]
  /\ sink = Free
  /\ notes = <<>>
  /\ calls = [c \in Channels |-> <<>>]
  /\ alone = [l \in Lines |-> Window]

\* logger.Init, once, from main.
Install ==
  /\ std = "bootstrap" /\ stop = "no"
  /\ std' = "logger"
  /\ UNCHANGED <<ringVars, stop, emits, queue, muted, pace, sink, notes, calls, alone>>

\* emit, up to the sinks: it takes the logger that is installed, goes on with that one, and adds
\* the line to its ring.  A line that only goes to stderr changes nothing.
Emit(e, l) ==
  /\ emits[e].at = "out" /\ std = "logger" /\ Len(notes) < MaxNotes
  /\ l \in Kept \/ Enabled(l)
  /\ IF l \in Kept THEN add(l) ELSE UNCHANGED ringVars
  /\ notes' = Append(notes, [line |-> l, fate |-> IF Enabled(l) THEN "emitted" ELSE "kept"])
  /\ emits' = IF Enabled(l)
               THEN [emits EXCEPT ![e] = [at |-> "sink", note |-> Len(notes) + 1, late |-> stop # "no"]]
               ELSE emits
  /\ UNCHANGED <<std, stop, queue, muted, pace, sink, calls, alone>>

\* Enqueue: dropped when the queue is full, and a panic when Stop has closed it.
Enqueue(e) ==
  LET i == emits[e].note
      room == Len(queue) < QueueSize
  IN
  /\ emits[e].at = "sink"
  /\ IF stop = "closed"
     THEN /\ emits' = [emits EXCEPT ![e].at = "panicked"]
          /\ UNCHANGED <<queue, notes>>
     ELSE /\ emits' = [emits EXCEPT ![e] = Out]
          /\ notes' = [notes EXCEPT ![i].fate = IF room THEN "queued" ELSE "dropped"]
          /\ queue' = IF room THEN Append(queue, i) ELSE queue
  /\ UNCHANGED <<ringVars, std, stop, muted, pace, sink, calls, alone>>

\* Mutant: the sinks are stopped before the bootstrap logger is put in.
StopClosesFirst ==
  /\ std = "logger" /\ stop = "no"
  /\ stop' = "swapped"
  /\ UNCHANGED <<ringVars, std, emits, queue, muted, pace, sink, notes, calls, alone>>

\* logger.Stop: the bootstrap logger is put in first, then the sink's queue is closed.
Stop ==
  /\ std = "logger" /\ stop = "no"
  /\ std' = "bootstrap" /\ stop' = "swapped"
  /\ UNCHANGED <<ringVars, emits, queue, muted, pace, sink, notes, calls, alone>>
Close ==
  /\ stop = "swapped"
  /\ stop' = "closed"
  /\ UNCHANGED <<ringVars, std, emits, queue, muted, pace, sink, notes, calls, alone>>

\* The select of run, when no sweep is under way.
Selecting == sink = Free

\* dispatch: a line inside the window of one like it is only counted.  What is left of an older
\* window, that no sweep has closed yet, is forgotten, its count with it.
Dispatch ==
  LET i == Head(queue)
      l == notes[i].line
      muting == muted[l].on /\ muted[l].age < Window
  IN
  /\ Selecting /\ queue # <<>>
  /\ queue' = Tail(queue)
  /\ IF muting
     THEN /\ muted' = [muted EXCEPT ![l].count = @ + 1]
          /\ notes' = [notes EXCEPT ![i].fate = "counted"]
          /\ UNCHANGED <<sink, alone>>
     ELSE /\ muted' = IF Window > 0 THEN [muted EXCEPT ![l] = [Quiet EXCEPT !.on = TRUE]] ELSE muted
          /\ notes' = [Become(l, "counted", "lost") EXCEPT ![i].fate = "sending"]
          /\ sink' = [Free EXCEPT !.at = "turn", !.line = l]
          /\ alone' = [alone EXCEPT ![l] = 0]
  /\ UNCHANGED <<ringVars, std, stop, emits, pace, calls>>

\* sweep: of the windows that have closed, all of them at Stop, the ones with a count send their
\* summary one after the other and are then forgotten; the others are forgotten at once.
SweepOf(closed, forced) ==
  /\ muted' = [l \in Lines |-> IF l \in closed /\ muted[l].count = 0 THEN Quiet ELSE muted[l]]
  /\ sink' = [Free EXCEPT !.due = {l \in closed : muted[l].count > 0}, !.forced = forced]
  /\ UNCHANGED <<ringVars, std, stop, emits, queue, pace, notes, calls, alone>>

Sweep ==
  LET closed == {l \in Lines : muted[l].on /\ muted[l].age >= Window}
  IN Selecting /\ closed # {} /\ SweepOf(closed, FALSE)

\* Mutant: the goroutine ends with the queue.
LastSweepNone ==
  /\ Selecting /\ stop = "closed" /\ queue = <<>>
  /\ SweepOf({}, TRUE)

\* The queue is closed and drained.
LastSweep ==
  /\ Selecting /\ stop = "closed" /\ queue = <<>>
  /\ SweepOf({l \in Lines : muted[l].on}, TRUE)

Summarise ==
  \E l \in sink.due :
    /\ sink.at = "free"
    /\ sink' = [sink EXCEPT !.at = "turn", !.line = l, !.more = TRUE, !.attempt = 0, !.due = @ \ {l}]
    /\ UNCHANGED <<ringVars, std, stop, emits, queue, muted, pace, notes, calls, alone>>

Done ==
  /\ sink.at = "free" /\ sink.forced /\ sink.due = {}
  /\ sink' = [Free EXCEPT !.at = "done"]
  /\ UNCHANGED <<ringVars, std, stop, emits, queue, muted, pace, notes, calls, alone>>

\* Mutant: the time the bucket was last brought up to date at is not kept.
WaitTurnAgain ==
  LET c == channelFor(sink.line)
      tokens == Least(Burst, pace[c].tokens + pace[c].since)
  IN
  /\ sink.at = "turn" /\ tokens >= 1
  /\ pace' = [pace EXCEPT ![c].tokens = tokens - 1]
  /\ sink' = [sink EXCEPT !.at = "call"]
  /\ calls' = [calls EXCEPT ![c] = SubSeq(<<0>> \o @, 1, Least(Burst + Horizon, Len(@) + 1))]
  /\ UNCHANGED <<ringVars, std, stop, emits, queue, muted, notes, alone>>

\* waitTurn: the bucket is brought up to date, and the call made once there is a token in it.
WaitTurn ==
  LET c == channelFor(sink.line)
      tokens == Least(Burst, pace[c].tokens + pace[c].since)
  IN
  /\ sink.at = "turn" /\ tokens >= 1
  /\ pace' = [pace EXCEPT ![c] = [tokens |-> tokens - 1, since |-> 0]]
  /\ sink' = [sink EXCEPT !.at = "call"]
  /\ calls' = [calls EXCEPT ![c] = SubSeq(<<0>> \o @, 1, Least(Burst + Horizon, Len(@) + 1))]
  /\ UNCHANGED <<ringVars, std, stop, emits, queue, muted, notes, alone>>

\* Mutant: a window whose summary was sent stays as it is.
SentKept(fate) ==
  /\ notes' = Become(sink.line, IF sink.more THEN "counted" ELSE "sending", fate)
  /\ sink' = [Free EXCEPT !.due = sink.due, !.forced = sink.forced]
  /\ UNCHANGED <<muted, pace>>

\* The send is over: a summary, sent or not, is the end of its window.
Sent(fate) ==
  LET l == sink.line IN
  /\ notes' = Become(l, IF sink.more THEN "counted" ELSE "sending", fate)
  /\ muted' = IF sink.more THEN [muted EXCEPT ![l] = Quiet] ELSE muted
  /\ sink' = [Free EXCEPT !.due = sink.due, !.forced = sink.forced]
  /\ UNCHANGED pace

\* Mutant: every 429 is waited out, not only the first.
AnswerPatient ==
  /\ sink.at = "call"
  /\ \/ Sent("told")
     \/ Sent("failed")
     \/ /\ pace' = [pace EXCEPT ![channelFor(sink.line)].tokens = 0]
        /\ sink' = [sink EXCEPT !.at = "again", !.attempt = 1]
        /\ UNCHANGED <<muted, notes>>
  /\ UNCHANGED <<ringVars, std, stop, emits, queue, calls, alone>>

\* The answer of Telegram.  The first 429 empties the bucket and is waited out; after any other
\* error, or a second one, the text is given up.
Answer ==
  /\ sink.at = "call"
  /\ \/ Sent("told")
     \/ Sent("failed")
     \/ /\ sink.attempt = 0
        /\ pace' = [pace EXCEPT ![channelFor(sink.line)].tokens = 0]
        /\ sink' = [sink EXCEPT !.at = "again", !.attempt = 1]
        /\ UNCHANGED <<muted, notes>>
  /\ UNCHANGED <<ringVars, std, stop, emits, queue, calls, alone>>

Again ==
  /\ sink.at = "again"
  /\ sink' = [sink EXCEPT !.at = "turn"]
  /\ UNCHANGED <<ringVars, std, stop, emits, queue, muted, pace, notes, calls, alone>>

\* Time passes; an age is kept up to the point where more of it changes nothing.
Tick ==
  /\ muted' = [l \in Lines |->
       IF muted[l].on THEN [muted[l] EXCEPT !.age = Least(Window, @ + 1)] ELSE muted[l]]
  /\ pace' = [c \in Channels |-> [pace[c] EXCEPT !.since = Least(Burst, @ + 1)]]
  /\ calls' = [c \in Channels |-> [i \in DOMAIN calls[c] |-> Least(Horizon, calls[c][i] + 1)]]
  /\ alone' = [l \in Lines |-> Least(Window, alone[l] + 1)]
  /\ UNCHANGED <<ringVars, std, stop, emits, queue, sink, notes>>

Working ==
  \/ Dispatch \/ Summarise \/ Done \/ LastSweep \/ WaitTurn \/ Answer \/ Again

Next ==
  /\ ~Panicked
  /\ \/ Install \/ Stop \/ Close
     \/ \E e \in Emitters : (\E l \in Lines : Emit(e, l)) \/ Enqueue(e)
     \/ Working \/ Sweep \/ Tick

\* The sink's goroutine runs, its calls answer within sendTimeout, time passes and the ticker
\* rings; a Stop that was begun goes on.  Nothing makes anybody log, or main stop.
Fairness ==
  /\ WF_vars(Working /\ ~Panicked)
  /\ WF_vars(Sweep /\ ~Panicked)
  /\ WF_vars(Tick /\ ~Panicked)
  /\ WF_vars(Close /\ ~Panicked)

Spec == Init /\ [][Next]_vars /\ Fairness

-----------------------------------------------------------------------------
Fates == {"kept", "emitted", "dropped", "queued", "sending", "counted", "told", "failed", "lost"}
Notes == [line : Lines, fate : Fates]
Unsettled(i) == i \in DOMAIN notes /\ notes[i].fate \in {"queued", "sending", "counted"}

TypeOK ==
  /\ RingTypeOK
  /\ std \in {"bootstrap", "logger"} /\ stop \in {"no", "swapped", "closed"}
  /\ emits \in [Emitters -> [at : {"out", "sink", "panicked"}, note : 0..MaxNotes, late : BOOLEAN]]
  /\ notes \in Seq(Notes) /\ Len(notes) <= MaxNotes
  /\ queue \in Seq(1..MaxNotes) /\ Len(queue) <= QueueSize
  /\ muted \in [Lines -> [on : BOOLEAN, age : 0..Window, count : Nat]]
  /\ pace \in [Channels -> [tokens : 0..Burst, since : 0..Burst]]
  /\ alone \in [Lines -> 0..Window]
  /\ sink \in [at : {"free", "turn", "call", "again", "done"}, line : Lines \cup {None}, more : BOOLEAN,
               attempt : 0..1, due : SUBSET Lines, forced : BOOLEAN]

\* The N of a "+N more" is true: what a window will announce is the number of lines that were
\* held back in it and are announced nowhere else, through failed sends, retries and the sweep
\* of Stop.  Of a window that was overwritten this says nothing: HeaderKept does.
CountTrue ==
  \A l \in Lines :
    muted[l].count = Cardinality({i \in DOMAIN notes : notes[i].line = l /\ notes[i].fate = "counted"})

\* "Identical lines within DedupeWindow go out once, followed by a "+N more" summary when the
\* window closes" (telegram.go:11-12): no count is lost.
AllSummarised == \A i \in DOMAIN notes : notes[i].fate # "lost"

\* Stop returns with nothing left behind: each line handed to the sink has been sent, alone or in
\* a summary, or its sending has failed, or its count was overwritten (telegram.go, Stop and run).
StopFlushes == sink.at = "done" => \A i \in DOMAIN notes : ~Unsettled(i)

\* A goroutine that starts to log once Stop has begun never meets the closed queue: Stop takes the
\* logger away before it closes it.  One that had it already can, and takes the process down
\* (logger.go, Stop and emit; telegram.go, Enqueue).
OnlyEarlyPanics == \A e \in Emitters : emits[e].at = "panicked" => ~emits[e].late

\* A line goes out by itself only when no line like it did less than a window ago, whichever
\* sweeps, failures and retries came between (telegram.go, dispatch and sweep).
OncePerWindow ==
  [][\A l \in Lines : (sink = Free /\ sink'.at = "turn" /\ sink'.line = l) => alone[l] >= Window]_vars

\* Over any time a channel gets no more calls than a full bucket and what it earned meanwhile,
\* however they are made up of lines, summaries and retries: the (Burst + n)-th last call was
\* at least n ago (telegram.go, waitTurn and send).
RateKept == \A c \in Channels : \A i \in DOMAIN calls[c] : i <= Burst + calls[c][i]

\* "At most 18 messages a minute into a channel (bursts of 18)" (telegram.go:9): channelRate earns
\* channelBurst tokens in a minute, so that a minute is Burst units.
Minute == Burst
MinuteKept == \A c \in Channels : \A i \in DOMAIN calls[c] : i > Burst => calls[c][i] >= Minute

\* Of the two promises in the header of telegram.go one at least is kept.  A state against this has
\* a count that was lost, and a minute with more calls than a bucket holds.
HeaderKept == MinuteKept \/ AllSummarised

\* Every line handed to the sink comes to an end while the process lives, at the latest after the
\* window it was counted in (telegram.go, run).
Settled == \A i \in 1..MaxNotes : Unsettled(i) ~> (Panicked \/ ~Unsettled(i))
=============================================================================
