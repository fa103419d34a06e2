----------------------------- MODULE FeedProofs -----------------------------
(***************************************************************************)
(* What is proved of the two feeds of raw sockets and brokers: TripleSFeed *)
(* first, TPDFeed after it.                                                *)
(*                                                                         *)
(* Triple-S: OneRun and LossTended for any number of connections,          *)
(* goroutines and attempts.  The flag alone makes OneRun inductive.        *)
(* LossTended is not: a loop about to clear the flag tends to nothing, so  *)
(* the invariant says who does: a connection that is up or whose loss is   *)
(* still to be told, a loop that has not asked for the flag, or one with   *)
(* an attempt before it.  FeedKept is the refinement of Feed, by cases on  *)
(* the goroutine that moves; OneFeed and DownClosed follow the one thing   *)
(* there is, a connection, a dial or a loop, from hand to hand (Chain,     *)
(* Placed).                                                                *)
(*                                                                         *)
(* TPD: what the handler was told is a function of two snapshots of the    *)
(* race, the last and the one it was joined at (Accurate), and across a    *)
(* sweep what is out of date covers what was handled (Ordered).            *)
(***************************************************************************)
EXTENDS TripleSFeed, TPDFeed, TLAPS

-----------------------------------------------------------------------------
(* Triple-S *)

\* A dial has a connection.
DialHasConn ==
  /\ opening.at \in {"dial", "subscribe"} => opening.conn \in Conns
  /\ \A l \in Loops : loop[l].at = "dial" => loop[l].conn \in Conns

\* The runtime outlives the client.
AliveInService == ctx \/ (opening.at \in {"open", "failed"} /\ ~InService)

\* A loop that will see to it: not begun, before an attempt, in one, or past the last.
Attends(l) ==
  \/ loop[l].at \in {"start", "wait", "exhausted", "fatal"}
  \/ loop[l].at = "dial" /\ conn[loop[l].conn] = "dialling"

LossAttended ==
  InService /\ ~dropped =>
    \/ \E c \in Conns : conn[c] \in {"up", "lost"}
    \/ \E l \in Loops : Attends(l)

IInv == TypeOK /\ OneRun /\ DialHasConn /\ AliveInService /\ LossAttended

LEMMA IdleType == Idle \in [at : {"free"}, attempt : 0..MaxAttempts, conn : {NoConn}]
<1>1. 0 \in 0..MaxAttempts
  BY TripleSFeedAssumption
<1> QED BY <1>1 DEF Idle, Standing

LEMMA InitIInv == Init => IInv
<1> SUFFICES ASSUME Init PROVE IInv
  OBVIOUS
<1> USE DEF Init
<1>1. TypeOK
  <2>1. loop \in [Loops -> [at : {"free", "start", "wait", "dial", "exhausted", "fatal", "clear"},
                            attempt : 0..MaxAttempts, conn : Conns \cup {NoConn}]]
    BY IdleType
  <2>2. PICK c \in Conns :
          /\ conn = [d \in Conns |-> IF d = c THEN "dialling" ELSE "none"]
          /\ opening = [at |-> "dial", conn |-> c]
    OBVIOUS
  <2> QED BY <2>1, <2>2 DEF TypeOK
<1> USE DEF Idle, Standing
<1>2. OneRun
  BY DEF OneRun, Reconnects
<1>3. DialHasConn /\ AliveInService /\ LossAttended
  BY DEF DialHasConn, AliveInService, LossAttended, InService
<1> QED BY <1>1, <1>2, <1>3 DEF IInv

\* The library and the broker move connections only; a loss told has its loop.
LEMMA LibraryKeeps ==
  ASSUME IInv, NEW c \in Conns,
         \/ Connects(c) \/ Abandoned(c) \/ OnConnect(c) \/ Breaks(c) \/ Collected(c)
         \/ \E l \in Loops : OnConnectionLost(c, l)
  PROVE  IInv'
<1> USE DEF IInv, TypeOK, Library
<1>1. CASE Connects(c)
  BY <1>1 DEF Connects, OneRun, Reconnects, DialHasConn, AliveInService, LossAttended, Attends,
     InService
<1>2. CASE Abandoned(c)
  BY <1>2 DEF Abandoned, Awaited, OneRun, Reconnects, DialHasConn, AliveInService, LossAttended,
     Attends, InService
<1>3. CASE OnConnect(c)
  BY <1>3 DEF OnConnect, OneRun, Reconnects, DialHasConn, AliveInService, LossAttended, Attends,
     InService
<1>4. CASE Breaks(c)
  BY <1>4 DEF Breaks, OneRun, Reconnects, DialHasConn, AliveInService, LossAttended, Attends,
     InService
<1>5. CASE Collected(c)
  BY <1>5 DEF Collected, OneRun, Reconnects, DialHasConn, AliveInService, LossAttended, Attends,
     InService
<1>6. ASSUME NEW l \in Loops, OnConnectionLost(c, l) PROVE IInv'
  <2> USE <1>6 DEF OnConnectionLost
  <2>1. loop'[l].at = "start" /\ \A m \in Loops \ {l} : loop'[m] = loop[m]
    OBVIOUS
  <2>2. TypeOK' /\ DialHasConn' /\ AliveInService'
    BY DEF DialHasConn, AliveInService, InService
  <2>3. OneRun'
    BY <2>1 DEF OneRun, Reconnects
  <2>4. LossAttended'
    BY <2>1 DEF LossAttended, Attends
  <2> QED BY <2>2, <2>3, <2>4
<1> QED BY <1>1, <1>2, <1>3, <1>4, <1>5, <1>6

LEMMA OpeningKeeps ==
  ASSUME IInv, NewFails \/ NewInstalls \/ NewSubscribes \/ NewSubscribeFails
  PROVE  IInv'
<1> USE DEF IInv, TypeOK, Opening
<1>1. CASE NewFails
  BY <1>1 DEF NewFails, OneRun, Reconnects, DialHasConn, AliveInService, LossAttended, InService
<1>2. CASE NewInstalls
  BY <1>2 DEF NewInstalls, connections, OneRun, Reconnects, DialHasConn, AliveInService,
     LossAttended, InService
<1>3. CASE NewSubscribes
  BY <1>3 DEF NewSubscribes, OneRun, Reconnects, DialHasConn, AliveInService, LossAttended,
     InService
<1>4. CASE NewSubscribeFails
  BY <1>4 DEF NewSubscribeFails, Closed, OneRun, Reconnects, DialHasConn, AliveInService,
     LossAttended, InService
<1> QED BY <1>1, <1>2, <1>3, <1>4

LEMMA AfterFailureType ==
  ASSUME TypeOK, NEW l \in Loops
  PROVE  AfterFailure(l) \in [at : {"wait", "exhausted"}, attempt : 0..MaxAttempts, conn : {NoConn}]
<1>1. loop[l].attempt \in 0..MaxAttempts
  BY DEF TypeOK
<1>2. CASE loop[l].attempt < MaxAttempts
  BY <1>1, <1>2, TripleSFeedAssumption DEF AfterFailure, Idle, Standing
<1>3. CASE ~(loop[l].attempt < MaxAttempts)
  BY <1>1, <1>3, TripleSFeedAssumption DEF AfterFailure, Idle, Standing
<1> QED BY <1>2, <1>3

LEMMA RunKeeps ==
  ASSUME IInv, NEW l \in Loops, Run(l)
  PROVE  IInv'
<1> USE DEF IInv, TypeOK, Loop, Idle, Standing
<1>1. CASE Begin(l)
  <2> USE <1>1 DEF Begin, connections
  <2>1. TypeOK'
    BY TripleSFeedAssumption
  <2>2. OneRun'
    BY DEF OneRun, Reconnects
  <2>3. DialHasConn' /\ AliveInService'
    BY DEF DialHasConn, AliveInService, InService
  <2>4. LossAttended'
    BY DEF LossAttended, Attends
  <2> QED BY <2>1, <2>2, <2>3, <2>4
<1>2. CASE SignFails(l)
  <2> USE <1>2, AfterFailureType DEF SignFails, connections
  <2>1. TypeOK'
    OBVIOUS
  <2>2. OneRun'
    BY DEF OneRun, Reconnects
  <2>3. DialHasConn' /\ AliveInService'
    BY DEF DialHasConn, AliveInService, InService
  <2>4. LossAttended'
    BY DEF LossAttended, Attends
  <2> QED BY <2>1, <2>2, <2>3, <2>4
<1>3. CASE StandDown(l)
  <2> USE <1>3 DEF StandDown, connections
  <2>1. TypeOK'
    BY TripleSFeedAssumption
  <2>2. OneRun'
    BY DEF OneRun, Reconnects
  <2>3. DialHasConn' /\ AliveInService'
    BY DEF DialHasConn, AliveInService, InService
  <2>4. LossAttended'
    BY DEF LossAttended, AliveInService, InService
  <2> QED BY <2>1, <2>2, <2>3, <2>4
<1>4. CASE DialFails(l)
  <2> USE <1>4, AfterFailureType DEF DialFails
  <2>1. TypeOK'
    OBVIOUS
  <2>2. OneRun'
    BY DEF OneRun, Reconnects
  <2>3. DialHasConn' /\ AliveInService'
    BY DEF DialHasConn, AliveInService, InService
  <2>4. LossAttended'
    BY DEF LossAttended, Attends
  <2> QED BY <2>1, <2>2, <2>3, <2>4
<1>5. CASE Install(l)
  <2> USE <1>5 DEF Install, Installed, connections
  <2>1. TypeOK'
    BY TripleSFeedAssumption
  <2>2. OneRun'
    BY DEF OneRun, Reconnects
  <2>3. DialHasConn' /\ AliveInService'
    BY DEF DialHasConn, AliveInService, InService
  <2>4. LossAttended'
    BY DEF LossAttended, Attends, DialHasConn, InService
  <2> QED BY <2>1, <2>2, <2>3, <2>4
<1>6. CASE GiveUp(l)
  <2> USE <1>6 DEF GiveUp, connections
  <2>1. TypeOK'
    OBVIOUS
  <2>2. OneRun'
    BY DEF OneRun, Reconnects
  <2>3. DialHasConn' /\ AliveInService'
    BY DEF DialHasConn, AliveInService, InService
  <2>4. LossAttended'
    BY DEF LossAttended, Attends
  <2> QED BY <2>1, <2>2, <2>3, <2>4
<1>7. CASE OnFatal(l)
  <2> USE <1>7 DEF OnFatal, Closed
  <2>1. TypeOK'
    BY TripleSFeedAssumption
  <2>2. OneRun'
    BY DEF OneRun, Reconnects
  <2>3. DialHasConn' /\ AliveInService'
    BY DEF DialHasConn, AliveInService, InService
  <2>4. LossAttended'
    BY DEF LossAttended, InService
  <2> QED BY <2>1, <2>2, <2>3, <2>4
<1>8. CASE Clear(l)
  <2> USE <1>8 DEF Clear, connections
  <2>1. TypeOK'
    <3>1. loop' \in [Loops -> [at : {"free", "start", "wait", "dial", "exhausted", "fatal", "clear"},
                               attempt : 0..MaxAttempts, conn : Conns \cup {NoConn}]]
      BY IdleType
    <3> QED BY <3>1
  <2>2. OneRun'
    BY DEF OneRun, Reconnects
  <2>3. DialHasConn' /\ AliveInService'
    BY DEF DialHasConn, AliveInService, InService
  <2>4. LossAttended'
    BY DEF LossAttended, Attends, InService
  <2> QED BY <2>1, <2>2, <2>3, <2>4
<1>9. ASSUME NEW c \in Conns, Dial(l, c) PROVE IInv'
  <2> USE <1>9 DEF Dial
  <2>1. TypeOK'
    <3>1. loop[l] \in [at : {"free", "start", "wait", "dial", "exhausted", "fatal", "clear"},
                       attempt : 0..MaxAttempts, conn : Conns \cup {NoConn}]
      OBVIOUS
    <3>2. loop'[l] = [loop[l] EXCEPT !.at = "dial", !.conn = c]
      OBVIOUS
    <3>3. loop' = [loop EXCEPT ![l] = loop'[l]]
      OBVIOUS
    <3>4. loop' \in [Loops -> [at : {"free", "start", "wait", "dial", "exhausted", "fatal", "clear"},
                               attempt : 0..MaxAttempts, conn : Conns \cup {NoConn}]]
      BY <3>1, <3>2, <3>3
    <3> QED BY <3>4
  <2>2. OneRun'
    BY DEF OneRun, Reconnects
  <2>3. DialHasConn' /\ AliveInService'
    BY DEF DialHasConn, AliveInService, InService
  <2>4. LossAttended'
    BY DEF LossAttended, Attends
  <2> QED BY <2>1, <2>2, <2>3, <2>4
<1> QED BY <1>1, <1>2, <1>3, <1>4, <1>5, <1>6, <1>7, <1>8, <1>9 DEF Run

LEMMA ApplicationKeeps ==
  ASSUME IInv, Disconnect \/ Cancel
  PROVE  IInv'
<1> USE DEF IInv, TypeOK
<1>1. CASE Disconnect
  BY <1>1 DEF Disconnect, Closed, OneRun, Reconnects, DialHasConn, AliveInService, LossAttended,
     InService
<1>2. CASE Cancel
  BY <1>2 DEF Cancel, connections, OneRun, Reconnects, DialHasConn, AliveInService, LossAttended,
     InService
<1> QED BY <1>1, <1>2

LEMMA NextIInv == IInv /\ [Next]_vars => IInv'
<1> SUFFICES ASSUME IInv, [Next]_vars PROVE IInv'
  OBVIOUS
<1>1. CASE Next
  BY <1>1, LibraryKeeps, OpeningKeeps, RunKeeps, ApplicationKeeps DEF Next
<1>2. CASE UNCHANGED vars
  BY <1>2 DEF vars, connections, IInv, TypeOK, OneRun, Reconnects, DialHasConn,
     AliveInService, LossAttended, Attends, InService
<1> QED BY <1>1, <1>2

LEMMA Inductive == Spec => []IInv
  BY InitIInv, NextIInv, PTL DEF Spec

\* The client's variables keep their types, and no run counts past MaxAttempts.
THEOREM TypeCorrect == Spec => []TypeOK
  BY Inductive, PTL DEF IInv

\* However many connections flap, one loop reconnects and the flag says so.
THEOREM OneRunInv == Spec => []OneRun
  BY Inductive, PTL DEF IInv

\* A feed in service that is dark has somebody working on it, unless the guard turned
\* the news of it away.
THEOREM LossTendedInv == Spec => []LossTended
<1>1. IInv => LossTended
  BY DEF IInv, LossAttended, Attends, LossTended, Tended
<1> QED BY Inductive, <1>1, PTL

-----------------------------------------------------------------------------
(* Triple-S: the feed it implements *)

\* What the refinement needs: nothing is reported or stopped while the client is opened,
\* and only a run with attempts left counts them.
AfterOpening ==
  /\ fatal => opening.at \in {"open", "failed"}
  /\ stopped => opening.at = "open"
  /\ \A l \in Loops : loop[l].at \in {"exhausted", "fatal", "clear"} => loop[l].attempt = 0

LEMMA InitAfterOpening == Init => AfterOpening
BY DEF Init, AfterOpening, Idle, Standing

LEMMA NextAfterOpening == TypeOK /\ AfterOpening /\ [Next]_vars => AfterOpening'
<1> SUFFICES ASSUME TypeOK, AfterOpening, [Next]_vars PROVE AfterOpening'
  OBVIOUS
<1> USE DEF TypeOK, AfterOpening
<1>1. ASSUME NEW c \in Conns,
             Connects(c) \/ Abandoned(c) \/ OnConnect(c) \/ Breaks(c) \/ Collected(c)
      PROVE  AfterOpening'
  BY <1>1 DEF Connects, Abandoned, OnConnect, Breaks, Collected, Library
<1>2. ASSUME NEW c \in Conns, NEW l \in Loops, OnConnectionLost(c, l) PROVE AfterOpening'
  BY <1>2 DEF OnConnectionLost, Library
<1>3. CASE NewFails \/ NewInstalls \/ NewSubscribes \/ NewSubscribeFails
  BY <1>3 DEF NewFails, NewInstalls, NewSubscribes, NewSubscribeFails, Opening
<1>4. CASE Disconnect \/ Cancel
  BY <1>4 DEF Disconnect, Cancel, InService
<1>5. ASSUME NEW l \in Loops, Begin(l) \/ StandDown(l) \/ Install(l) \/ Clear(l) PROVE AfterOpening'
  BY <1>5 DEF Begin, StandDown, Install, Installed, Clear, Loop, Idle, Standing
<1>6. ASSUME NEW l \in Loops, SignFails(l) \/ DialFails(l) PROVE AfterOpening'
  BY <1>6 DEF SignFails, DialFails, Loop, AfterFailure, Standing
<1>7. ASSUME NEW l \in Loops, GiveUp(l) \/ OnFatal(l) PROVE AfterOpening'
  BY <1>7 DEF GiveUp, OnFatal, Loop, Standing
<1>8. ASSUME NEW l \in Loops, NEW c \in Conns, Dial(l, c) PROVE AfterOpening'
  BY <1>8 DEF Dial, Loop
<1>9. CASE UNCHANGED vars
  BY <1>9 DEF vars
<1> QED
  BY <1>1, <1>2, <1>3, <1>4, <1>5, <1>6, <1>7, <1>8, <1>9 DEF Next, Run

LEMMA OneIsChosen ==
  ASSUME NEW f, NEW l \in Loops, f[l].at \notin {"free", "start"},
         \A m \in Loops : f[m].at \notin {"free", "start"} => m = l
  PROVE  (CHOOSE k \in Loops : f[k].at \notin {"free", "start"}) = l
OBVIOUS

LEMMA RunnerIs ==
  ASSUME NEW l \in Loops
  PROVE  /\ OneRun /\ Reconnects(l) => reconnecting /\ Runner = l
         /\ OneRun' /\ Reconnects(l)' => reconnecting' /\ Runner' = l
<1>1. ASSUME OneRun, Reconnects(l) PROVE reconnecting /\ Runner = l
  <2>1. loop[l].at \notin {"free", "start"}
        /\ \A m \in Loops : loop[m].at \notin {"free", "start"} => m = l
    BY <1>1 DEF OneRun, Reconnects
  <2>2. (CHOOSE k \in Loops : loop[k].at \notin {"free", "start"}) = l
    BY <2>1, OneIsChosen
  <2> QED
    BY <1>1, <2>2 DEF OneRun, Runner, Reconnects
<1>2. ASSUME OneRun', Reconnects(l)' PROVE reconnecting' /\ Runner' = l
  <2>1. loop'[l].at \notin {"free", "start"}
        /\ \A m \in Loops : loop'[m].at \notin {"free", "start"} => m = l
    BY <1>2 DEF OneRun, Reconnects
  <2>2. (CHOOSE k \in Loops : loop'[k].at \notin {"free", "start"}) = l
    BY <2>1, OneIsChosen
  <2> QED
    BY <1>2, <2>2 DEF OneRun, Runner, Reconnects
<1> QED BY <1>1, <1>2

\* The run stays where it is if its goroutine does.
LEMMA RunStays ==
  ASSUME OneRun, OneRun', reconnecting' = reconnecting,
         \A l \in Loops : Reconnects(l) => loop'[l] = loop[l]
  PROVE  RunNow' = RunNow /\ AttemptNow' = AttemptNow
<1>1. CASE ~reconnecting
  BY <1>1 DEF RunNow, AttemptNow
<1>2. CASE reconnecting
  <2>1. PICK l \in Loops : Reconnects(l)
    BY <1>2 DEF OneRun
  <2>2. loop'[l] = loop[l] /\ Reconnects(l)'
    BY <2>1 DEF Reconnects
  <2>3. Runner = l /\ Runner' = l
    BY <2>1, <2>2, RunnerIs
  <2> QED
    BY <1>2, <2>2, <2>3 DEF RunNow, AttemptNow
<1> QED BY <1>1, <1>2

\* And goes where that one goes.
LEMMA RunMoves ==
  ASSUME OneRun, OneRun', NEW l \in Loops, Reconnects(l), Reconnects(l)'
  PROVE  /\ RunNow = IF loop[l].at \in {"wait", "dial"} THEN "trying" ELSE loop[l].at
         /\ RunNow' = IF loop'[l].at \in {"wait", "dial"} THEN "trying" ELSE loop'[l].at
         /\ AttemptNow = loop[l].attempt /\ AttemptNow' = loop'[l].attempt
<1>1. reconnecting /\ Runner = l /\ reconnecting' /\ Runner' = l
  BY RunnerIs
<1> QED BY <1>1 DEF RunNow, AttemptNow

LEMMA InitPromise == Init => Promise!Init
BY DEF Init, Promise!Init, ServiceNow, RunNow, AttemptNow

\* The application, the library and NewClient move the service, or nothing.
LEMMA ServiceStep ==
  ASSUME IInv, IInv', AfterOpening,
         \/ \E c \in Conns : \/ Connects(c) \/ Abandoned(c) \/ OnConnect(c) \/ Breaks(c)
                             \/ Collected(c) \/ \E l \in Loops : OnConnectionLost(c, l)
         \/ NewFails \/ NewInstalls \/ NewSubscribes \/ NewSubscribeFails
         \/ Disconnect \/ Cancel
  PROVE  [Promise!Next]_Promise!feedVars
<1>1. RunNow' = RunNow /\ AttemptNow' = AttemptNow
  <2>1. reconnecting' = reconnecting
    BY DEF Connects, Abandoned, OnConnect, Breaks, Collected, OnConnectionLost, NewFails,
       NewInstalls, NewSubscribes, NewSubscribeFails, Disconnect, Cancel, Library, Opening
  <2>2. \A l \in Loops : Reconnects(l) => loop'[l] = loop[l]
    BY DEF Connects, Abandoned, OnConnect, Breaks, Collected, OnConnectionLost, NewFails,
       NewInstalls, NewSubscribes, NewSubscribeFails, Disconnect, Cancel, Library, Opening,
       Reconnects, IInv, TypeOK
  <2> QED
    BY <2>1, <2>2, RunStays DEF IInv
<1>2. CASE \E c \in Conns : \/ Connects(c) \/ Abandoned(c) \/ OnConnect(c) \/ Breaks(c)
                            \/ Collected(c) \/ \E l \in Loops : OnConnectionLost(c, l)
  <2>1. UNCHANGED <<opening, ctx, stopped, fatal>>
    BY <1>2 DEF Connects, Abandoned, OnConnect, Breaks, Collected, OnConnectionLost, Library
  <2> QED
    BY <1>1, <2>1 DEF Promise!feedVars, ServiceNow, RunNow, AttemptNow
<1>3. CASE NewInstalls
  <2>1. UNCHANGED <<ctx, stopped, fatal>> /\ opening.at = "dial" /\ opening'.at = "subscribe"
    BY <1>3 DEF NewInstalls, Opening, IInv, TypeOK
  <2> QED
    BY <1>1, <2>1 DEF Promise!feedVars, ServiceNow, RunNow, AttemptNow
<1>4. CASE NewFails \/ NewSubscribes \/ NewSubscribeFails
  <2>1. UNCHANGED <<ctx, stopped, fatal>> /\ opening.at \in {"dial", "subscribe"}
        /\ opening'.at \in {"open", "failed"} /\ ~fatal /\ ~stopped
    BY <1>4 DEF NewFails, NewSubscribes, NewSubscribeFails, Opening, IInv, TypeOK, AfterOpening
  <2> QED
    BY <1>1, <2>1 DEF Promise!Next, Promise!Opens, ServiceNow, RunNow, AttemptNow
<1>5. CASE Disconnect
  <2>1. InService /\ stopped' /\ UNCHANGED <<opening, ctx, fatal>>
    BY <1>5 DEF Disconnect
  <2> QED
    BY <1>1, <2>1 DEF Promise!Next, Promise!Stops, ServiceNow, InService, RunNow, AttemptNow
<1>6. CASE Cancel
  <2>1. ctx /\ ctx' = FALSE /\ opening.at \in {"open", "failed"} /\ ~InService
        /\ UNCHANGED <<opening, stopped, fatal>>
    BY <1>6 DEF Cancel
  <2> QED
    BY <1>1, <2>1 DEF Promise!Next, Promise!Expires, ServiceNow, InService, RunNow, AttemptNow
<1> QED BY <1>2, <1>3, <1>4, <1>5, <1>6

\* A goroutine moves the run, or is turned away.
LEMMA RunStep ==
  ASSUME IInv, IInv', AfterOpening, NEW l \in Loops, Run(l)
  PROVE  [Promise!Next]_Promise!feedVars
<1> USE DEF IInv
<1>1. l \in DOMAIN loop /\ \A m \in Loops \ {l} : loop'[m] = loop[m]
  BY DEF Run, Begin, SignFails, StandDown, DialFails, Install, Installed, GiveUp, OnFatal, Clear, Dial, TypeOK
<1>2. opening' = opening /\ ctx' = ctx /\ stopped' = stopped /\ ctx \in BOOLEAN
      /\ loop[l].attempt \in 0..MaxAttempts
  BY DEF Run, Begin, SignFails, StandDown, DialFails, Install, Installed, GiveUp, OnFatal, Clear, Dial, Loop,
     TypeOK
<1>3. CASE Begin(l)
  <2>1. loop[l].at = "start" /\ reconnecting' /\ fatal' = fatal
        /\ loop'[l] = IF reconnecting THEN Idle ELSE Standing("wait", 1)
    BY <1>1, <1>3 DEF Begin, TypeOK
  <2>2. CASE reconnecting
    <3>1. RunNow' = RunNow /\ AttemptNow' = AttemptNow
      BY <1>1, <2>1, <2>2, RunStays DEF Reconnects
    <3> QED
      BY <1>2, <2>1, <3>1 DEF Promise!feedVars, ServiceNow, RunNow, AttemptNow
  <2>3. CASE ~reconnecting
    <3>1. loop'[l].at = "wait" /\ loop'[l].attempt = 1 /\ Reconnects(l)'
      BY <2>1, <2>3 DEF Standing, Reconnects
    <3>2. RunNow = "none" /\ RunNow' = "trying" /\ AttemptNow' = 1
      BY <2>3, <3>1, RunnerIs DEF RunNow, AttemptNow
    <3> QED
      BY <1>2, <2>1, <3>2 DEF Promise!Next, Promise!Begins, Promise!Goes, ServiceNow, RunNow,
         AttemptNow
  <2> QED BY <2>2, <2>3
<1>4. ASSUME NEW c \in Conns, Dial(l, c) PROVE [Promise!Next]_Promise!feedVars
  <2>1. loop[l].at = "wait" /\ loop'[l].at = "dial" /\ loop'[l].attempt = loop[l].attempt
        /\ fatal' = fatal
    BY <1>1, <1>4 DEF Dial, TypeOK
  <2>2. RunNow' = RunNow /\ AttemptNow' = AttemptNow
    BY <2>1, RunMoves DEF Reconnects
  <2> QED
    BY <1>2, <2>1, <2>2 DEF Promise!feedVars, ServiceNow, RunNow, AttemptNow
<1>5. CASE SignFails(l) \/ DialFails(l)
  <2>1. loop[l].at \in {"wait", "dial"} /\ loop'[l] = AfterFailure(l) /\ fatal' = fatal
    BY <1>1, <1>5 DEF SignFails, DialFails, TypeOK
  <2>2. Reconnects(l) /\ Reconnects(l)'
    BY <2>1 DEF Reconnects, AfterFailure, Standing
  <2>3. RunNow = "trying" /\ AttemptNow = loop[l].attempt
    BY <2>1, <2>2, RunMoves
  <2>4. CASE loop[l].attempt < MaxAttempts
    <3>1. RunNow' = "trying" /\ AttemptNow' = AttemptNow + 1
      BY <2>1, <2>2, <2>3, <2>4, RunMoves DEF AfterFailure, Standing
    <3> QED
      BY <1>2, <2>1, <2>3, <2>4, <3>1 DEF Promise!Next, Promise!Fails, Promise!Goes, ServiceNow,
         RunNow, AttemptNow
  <2>5. CASE ~(loop[l].attempt < MaxAttempts)
    <3>1. RunNow' = "exhausted" /\ AttemptNow' = 0
      BY <2>1, <2>2, <2>3, <2>5, RunMoves DEF AfterFailure, Standing
    <3> QED
      BY <1>2, <2>1, <2>3, <2>5, <3>1 DEF Promise!Next, Promise!Fails, Promise!Goes, ServiceNow,
         RunNow, AttemptNow
  <2> QED BY <2>4, <2>5
<1>6. CASE Install(l) \/ StandDown(l)
  <2>1. loop[l].at \in {"wait", "dial", "exhausted"} /\ loop'[l] = Standing("clear", 0)
        /\ fatal' = fatal
    BY <1>1, <1>6 DEF Install, Installed, StandDown, TypeOK
  <2>2. RunNow' = "clear" /\ AttemptNow' = 0
        /\ RunNow = IF loop[l].at = "exhausted" THEN "exhausted" ELSE "trying"
    BY <2>1, RunMoves DEF Reconnects, Standing
  <2>3. CASE Install(l)
    <3>1. loop[l].at = "dial"
      BY <2>3 DEF Install, Installed
    <3> QED
      BY <1>2, <2>1, <2>2, <3>1 DEF Promise!Next, Promise!Succeeds, Promise!Goes, ServiceNow,
         RunNow, AttemptNow
  <2>4. CASE StandDown(l)
    <3>1. ~ctx
      BY <2>4 DEF StandDown
    <3> QED
      BY <1>2, <2>1, <2>2, <3>1 DEF Promise!Next, Promise!StandsDown, Promise!Goes, ServiceNow,
         RunNow, AttemptNow
  <2> QED BY <1>6, <2>3, <2>4
<1>7. CASE GiveUp(l)
  <2>1. loop[l].at = "exhausted" /\ loop'[l].at = "fatal" /\ loop'[l].attempt = loop[l].attempt
        /\ loop[l].attempt = 0 /\ fatal' = fatal /\ ctx
    BY <1>1, <1>7 DEF GiveUp, TypeOK, AfterOpening
  <2>2. RunNow = "exhausted" /\ RunNow' = "fatal" /\ AttemptNow' = 0
    BY <2>1, RunMoves DEF Reconnects
  <2> QED
    BY <1>2, <2>1, <2>2 DEF Promise!Next, Promise!GivesUp, Promise!Goes, ServiceNow, RunNow,
       AttemptNow
<1>8. CASE OnFatal(l)
  <2>1. loop[l].at = "fatal" /\ loop'[l] = Standing("clear", 0) /\ fatal' = TRUE
        /\ loop[l].attempt = 0 /\ opening.at \in {"open", "failed"}
    BY <1>1, <1>8 DEF OnFatal, TypeOK, AfterOpening
  <2>2. RunNow = "fatal" /\ RunNow' = "clear" /\ AttemptNow' = AttemptNow
    BY <2>1, RunMoves DEF Reconnects, Standing
  <2>3. /\ ServiceNow # "opening"
        /\ ServiceNow' = IF ServiceNow = "open" THEN "lost" ELSE ServiceNow
    BY <1>2, <2>1 DEF ServiceNow
  <2> QED
    BY <1>2, <2>2, <2>3 DEF Promise!Next, Promise!Tells, RunNow, AttemptNow
<1>9. CASE Clear(l)
  <2>1. loop[l].at = "clear" /\ reconnecting' = FALSE /\ fatal' = fatal /\ Reconnects(l)
    BY <1>9 DEF Clear, Reconnects
  <2>2. RunNow = "clear" /\ RunNow' = "none" /\ AttemptNow' = 0
    BY <2>1, RunnerIs DEF RunNow, AttemptNow
  <2> QED
    BY <1>2, <2>1, <2>2 DEF Promise!Next, Promise!Ends, Promise!Goes, ServiceNow, RunNow,
       AttemptNow
<1> QED BY <1>3, <1>4, <1>5, <1>6, <1>7, <1>8, <1>9 DEF Run

\* The client implements the feed it is taken for: what its goroutines do together is one
\* run after the other, that gives up only when every attempt has failed.
THEOREM FeedKeptHolds == Spec => FeedKept
<1>1. Init => Promise!Init
  BY InitPromise
<1>2. Init => AfterOpening
  BY InitAfterOpening
<1>3. TypeOK /\ AfterOpening /\ [Next]_vars => AfterOpening'
  BY NextAfterOpening
<1>4. IInv /\ IInv' /\ AfterOpening /\ [Next]_vars => [Promise!Next]_Promise!feedVars
  <2> SUFFICES ASSUME IInv, IInv', AfterOpening, [Next]_vars PROVE [Promise!Next]_Promise!feedVars
    OBVIOUS
  <2>1. CASE UNCHANGED vars
    BY <2>1 DEF vars, Promise!feedVars, ServiceNow, RunNow, AttemptNow, Runner, Reconnects
  <2>2. CASE Next
    BY <2>2, ServiceStep, RunStep DEF Next
  <2> QED BY <2>1, <2>2
<1>5. IInv => TypeOK
  BY DEF IInv
<1> QED BY Inductive, <1>1, <1>2, <1>3, <1>4, <1>5, PTL DEF Spec, FeedKept, Promise!Spec

-----------------------------------------------------------------------------
(* Triple-S: one feed, and none where there should be none *)

\* One live connection, dial or loop at work at a time.  What is being installed is the
\* live one, or has been lost and told of; nothing runs before the first dial is through,
\* and its connection is its own.
Chain ==
  /\ OneFeed
  /\ opening.at = "dial" => opening.conn \in Conns /\ conn[opening.conn] # "none"
  /\ "late" \notin strayed =>
       /\ NewDials => \A l \in Loops : ~Reconnects(l)
       /\ \A l \in Loops : loop[l].at = "dial" => \A c \in Conns : Live(c) => c = loop[l].conn

LEMMA InitChain == Init => Chain
BY DEF Init, Chain, OneFeed, NewDials, Live, AtWork, Reconnects, Idle, Standing

LEMMA NextChain == IInv /\ IInv' /\ Chain /\ [Next]_vars => Chain'
<1> SUFFICES ASSUME IInv, IInv', Chain, [Next]_vars PROVE Chain'
  OBVIOUS
<1> USE DEF IInv, TypeOK, Chain, OneFeed, NewDials, Live, AtWork
<1>1. ASSUME NEW c \in Conns, Connects(c) PROVE Chain'
  BY <1>1 DEF Connects, Library, Awaited, Reconnects, OneRun
<1>2. ASSUME NEW c \in Conns, Abandoned(c) PROVE Chain'
  BY <1>2 DEF Abandoned, Library, Awaited, Reconnects
<1>3. ASSUME NEW c \in Conns, OnConnect(c) PROVE Chain'
  BY <1>3 DEF OnConnect, Library, Reconnects
<1>4. ASSUME NEW c \in Conns, Breaks(c) PROVE Chain'
  BY <1>4 DEF Breaks, Library, Reconnects
<1>5. ASSUME NEW c \in Conns, Collected(c) PROVE Chain'
  BY <1>5 DEF Collected, Held, Library, Reconnects
<1>6. ASSUME NEW c \in Conns, NEW l \in Loops, OnConnectionLost(c, l) PROVE Chain'
  BY <1>6 DEF OnConnectionLost, Library, Reconnects
<1>7. CASE NewFails
  BY <1>7 DEF NewFails, Opening, Reconnects
<1>8. CASE NewInstalls
  BY <1>8 DEF NewInstalls, Opening, Reconnects, connections
<1>9. CASE NewSubscribes
  BY <1>9 DEF NewSubscribes, Opening, Reconnects
<1>10. CASE NewSubscribeFails
  BY <1>10 DEF NewSubscribeFails, Closed, Opening, Reconnects
<1>11. ASSUME NEW l \in Loops, Begin(l) PROVE Chain'
  BY <1>11 DEF Begin, Loop, Idle, Standing, Reconnects, connections
<1>12. ASSUME NEW l \in Loops, SignFails(l) PROVE Chain'
  BY <1>12, AfterFailureType DEF SignFails, Loop, Reconnects, connections
<1>13. ASSUME NEW l \in Loops, DialFails(l) PROVE Chain'
  <2>1. /\ loop[l].at = "dial" /\ loop[l].conn \in Conns /\ conn[loop[l].conn] = "dialling"
        /\ loop'[l].at \in {"wait", "exhausted"} /\ \A m \in Loops \ {l} : loop'[m] = loop[m]
        /\ UNCHANGED <<opening, strayed>>
    BY <1>13, AfterFailureType DEF DialFails, Loop, DialHasConn
  <2>2. /\ conn'[loop[l].conn] \in {"dialling", "gone"}
        /\ \A c \in Conns \ {loop[l].conn} : conn'[c] = conn[c]
    BY <1>13, <2>1 DEF DialFails
  <2>3. \A c \in Conns : Live(c)' => Live(c)
    BY <2>2
  <2>4. \A m \in Loops : AtWork(m)' => AtWork(m)
    BY <2>1, <2>2 DEF DialHasConn
  <2>5. NewDials' => NewDials
    BY <2>1, <2>2
  <2>6. OneFeed'
    BY <2>1, <2>3, <2>4, <2>5
  <2>7. \A m \in Loops : Reconnects(m)' => Reconnects(m)
    BY <2>1 DEF Reconnects
  <2>8. opening'.at = "dial" => opening'.conn \in Conns /\ conn'[opening'.conn] # "none"
    BY <2>1, <2>2
  <2> QED
    BY <2>1, <2>3, <2>5, <2>6, <2>7, <2>8
<1>14. ASSUME NEW l \in Loops, StandDown(l) \/ GiveUp(l) \/ Clear(l) PROVE Chain'
  BY <1>14 DEF StandDown, GiveUp, Clear, Loop, Idle, Standing, Reconnects, connections
<1>15. ASSUME NEW l \in Loops, Install(l) PROVE Chain'
  BY <1>15 DEF Install, Installed, Loop, Standing, Reconnects, connections
<1>16. ASSUME NEW l \in Loops, OnFatal(l) PROVE Chain'
  BY <1>16 DEF OnFatal, Closed, Loop, Standing, Reconnects
<1>17. ASSUME NEW l \in Loops, NEW c \in Conns, Dial(l, c) PROVE Chain'
  BY <1>17 DEF Dial, Loop, Reconnects, OneRun
<1>18. CASE Disconnect
  BY <1>18 DEF Disconnect, Closed, Reconnects
<1>19. CASE Cancel
  BY <1>19 DEF Cancel, Reconnects, connections
<1>20. CASE UNCHANGED vars
  BY <1>20 DEF vars, connections, Reconnects
<1> QED
  BY <1>1, <1>2, <1>3, <1>4, <1>5, <1>6, <1>7, <1>8, <1>9, <1>10, <1>11, <1>12, <1>13, <1>14,
     <1>15, <1>16, <1>17, <1>18, <1>19, <1>20 DEF Next, Run

\* What is up is being installed, or is what the application has.
Placed ==
  strayed = {} => \A c \in Conns : conn[c] = "up" =>
    \/ Awaited(c)
    \/ c = mqtt /\ (InService \/ opening = [at |-> "subscribe", conn |-> c])

LEMMA InitPlaced == Init => Placed
BY DEF Init, Placed

LEMMA NextPlaced == IInv /\ Chain /\ AfterOpening /\ Placed /\ [Next]_vars => Placed'
<1> SUFFICES ASSUME IInv, Chain, AfterOpening, Placed, [Next]_vars PROVE Placed'
  OBVIOUS
<1> USE DEF IInv, TypeOK, Placed, Awaited, InService
<1>1. ASSUME NEW c \in Conns, Connects(c) PROVE Placed'
  BY <1>1 DEF Connects, Library
<1>2. ASSUME NEW c \in Conns, Abandoned(c) \/ OnConnect(c) \/ Breaks(c) \/ Collected(c) PROVE Placed'
  BY <1>2 DEF Abandoned, OnConnect, Breaks, Collected, Library
<1>3. ASSUME NEW c \in Conns, NEW l \in Loops, OnConnectionLost(c, l) PROVE Placed'
  BY <1>3 DEF OnConnectionLost, Library
<1>4. CASE NewFails
  BY <1>4 DEF NewFails, Opening
<1>5. CASE NewInstalls
  BY <1>5 DEF NewInstalls, Opening, connections
<1>6. CASE NewSubscribes
  BY <1>6 DEF NewSubscribes, Opening, AfterOpening
<1>7. CASE NewSubscribeFails
  BY <1>7 DEF NewSubscribeFails, Closed, Opening
<1>8. ASSUME NEW l \in Loops, Begin(l) \/ SignFails(l) \/ StandDown(l) \/ GiveUp(l) \/ Clear(l)
      PROVE  Placed'
  BY <1>8, AfterFailureType DEF Begin, SignFails, StandDown, GiveUp, Clear, Loop, Idle, Standing,
     connections
<1>9. ASSUME NEW l \in Loops, DialFails(l) PROVE Placed'
  BY <1>9, AfterFailureType DEF DialFails, Loop
<1>10. ASSUME NEW l \in Loops, Install(l) PROVE Placed'
  BY <1>10 DEF Install, Installed, Loop, Standing, connections, Chain, Live, OneRun, Reconnects
<1>11. ASSUME NEW l \in Loops, OnFatal(l) PROVE Placed'
  BY <1>11 DEF OnFatal, Closed, Loop, Standing
<1>12. ASSUME NEW l \in Loops, NEW c \in Conns, Dial(l, c) PROVE Placed'
  BY <1>12 DEF Dial, Loop
<1>13. CASE Disconnect
  BY <1>13 DEF Disconnect, Closed
<1>14. CASE Cancel
  BY <1>14 DEF Cancel, connections
<1>15. CASE UNCHANGED vars
  BY <1>15 DEF vars, connections
<1> QED
  BY <1>1, <1>2, <1>3, <1>4, <1>5, <1>6, <1>7, <1>8, <1>9, <1>10, <1>11, <1>12, <1>13, <1>14,
     <1>15 DEF Next, Run

\* What the goroutines do between them keeps one connection, dial or loop at work, however
\* the losses fall, until a dial that was given up comes up after all.
THEOREM OneFeedInv == Spec => []OneFeed
<1>1. Chain => OneFeed
  BY DEF Chain
<1> QED BY <1>1, Inductive, InitChain, NextChain, PTL DEF Spec

\* A feed out of service is dark: what is up is a dial still to be installed, unless one came
\* up late or was installed behind the application's back.
THEOREM DownClosedInv == Spec => []DownClosed
<1>1. AfterOpening /\ Placed => DownClosed
  BY DEF AfterOpening, Placed, DownClosed, OutOfService, InService
<1>2. IInv => TypeOK
  BY DEF IInv
<1> QED
  BY <1>1, <1>2, Inductive, InitChain, NextChain, InitAfterOpening, NextAfterOpening, InitPlaced,
     NextPlaced, PTL DEF Spec

-----------------------------------------------------------------------------
(* TPD *)

\* Per race: what was sent and what is out of date, and that the handler is where the
\* tracker is, or where the sweep left it.
Ordered(r) ==
  /\ stale[r] <= sent[r] /\ sent[r] <= Len(Script[r])
  /\ sent[r] > 0 => DateOf[r] \in Dates
  /\ ~handed[r].again
  /\ IF tracked[r].on
     THEN /\ handed[r].at = tracked[r].at
          /\ tracked[r].first \in 1..tracked[r].at
          /\ tracked[r].at <= sent[r]
     ELSE tracked[r] = Untracked /\ handed[r].at <= stale[r]

Progress(r, t) == Script[r][t].progress

\* What the handler was told last is what the race looks like, joined at this snapshot.
Told(r, first) ==
  LET at == handed[r].at
  IN /\ handed[r].distance = RefDistance(r, Progress(r, first))
     /\ handed[r].status = Status(Progress(r, at) = 0, handed[r].distance, Script[r][at])

\* A race is told of as it was joined; one that was swept is over, or was at the post.
Accurate(r) ==
  IF tracked[r].on
  THEN /\ tracked[r].finished <=> Progress(r, tracked[r].at) = 0
       /\ tracked[r].distance = Progress(r, tracked[r].first)
       /\ Told(r, tracked[r].first)
  ELSE \/ handed[r] = Nothing
       \/ handed[r].at > 0 /\ stale[r] = Len(Script[r])
       \/ handed[r].at > 0 /\ AtPost(r, handed[r].at) /\ Told(r, 1)

TPDInv == TPDTypeOK /\ \A r \in Races : Ordered(r) /\ Accurate(r)

\* A race's snapshots have their types, and the race runs forward.
LEMMA Scripts ==
  ASSUME NEW r \in Races, NEW t \in 1..Len(Script[r])
  PROVE  /\ Len(Script[r]) \in Nat
         /\ Script[r][t] \in Snapshots /\ Progress(r, t) \in Nat /\ Script[r][t].clock \in BOOLEAN
         /\ \A i \in 1..t : /\ Progress(r, t) <= Progress(r, i)
                            /\ Script[r][i].clock => Script[r][t].clock
<1>1. Script[r] \in Seq(Snapshots)
  BY TPDFeedAssumption
<1>2. Len(Script[r]) \in Nat /\ Script[r][t] \in Snapshots
  BY <1>1
<1>3. Progress(r, t) \in Nat /\ Script[r][t].clock \in BOOLEAN
  BY <1>2 DEF Snapshots, Progress
<1>4. \A i \in 1..t : i \in 1..Len(Script[r]) /\ i <= t
  BY <1>2
<1> QED BY <1>2, <1>3, <1>4, ScriptAssumption DEF Progress

LEMMA DatesType ==
  /\ Dates \subseteq Nat /\ \A d \in Nat : Around(d) \subseteq Dates
  /\ today \in Nat => Oldest \in Nat
BY TPDFeedAssumption DEF Dates, Around, Oldest

RefreshType == [at : {"open", "failed", "idle", "one", "all"}, todo : SUBSET Dates,
                oldest : Nat, ok : BOOLEAN]

LEMMA ThenType ==
  ASSUME refresh \in RefreshType, NEW todo \in SUBSET Dates, NEW ok \in BOOLEAN
  PROVE  Then(todo, ok) \in RefreshType
BY DEF Then, Refreshing, Resting, RefreshType

LEMMA TPDInitInv == TPDInit => TPDInv
<1> SUFFICES ASSUME TPDInit PROVE TPDInv
  OBVIOUS
<1>1. refresh \in RefreshType
  BY DatesType, TPDFeedAssumption DEF TPDInit, Refreshing, RefreshType
<1>2. today \in FirstDay..LastDay
  BY TPDFeedAssumption DEF TPDInit
<1>3. wanted \in Seq(Dates) /\ Len(wanted) <= QueueSize
  BY TPDFeedAssumption DEF TPDInit
<1>4. TPDTypeOK
  BY <1>1, <1>2, <1>3 DEF TPDInit, TPDTypeOK, RefreshType, Untracked, Tracking, Nothing, Handing
<1>5. ASSUME NEW r \in Races PROVE Ordered(r) /\ Accurate(r)
  <2>1. Len(Script[r]) \in Nat
    BY TPDFeedAssumption
  <2> QED
    BY <2>1 DEF TPDInit, Ordered, Accurate, Untracked, Tracking, Nothing, Handing
<1> QED BY <1>4, <1>5 DEF TPDInv

\* What the list does, the days and the queue leave the tracker and its packets alone.
LEMMA ListKeeps ==
  ASSUME TPDInv,
         \/ \E d \in Dates : Load(d) \/ LoadFails(d) \/ Drop(d)
         \/ Take \/ RefreshAll \/ NextDay
         \/ \E r \in Races : Miss(r) \/ Publish(r) \/ Withdraw(r)
  PROVE  TPDInv'
<1> USE DEF TPDInv
<1>1. UNCHANGED <<sent, stale, tracked, handed>>
  BY DEF Load, LoadFails, Drop, Take, RefreshAll, NextDay, Miss, Publish, Withdraw, World, Client
<1>2. \A r \in Races : (Ordered(r) /\ Accurate(r))'
  BY <1>1 DEF Ordered, Accurate, Told
<1>3. refresh \in RefreshType /\ races \in SUBSET Races /\ loaded \in SUBSET Dates
      /\ listing \in SUBSET Races /\ today \in Nat /\ wanted \in Seq(Dates)
  BY TPDFeedAssumption DEF TPDTypeOK, RefreshType
<1>4. ASSUME NEW d \in Dates, Load(d) \/ LoadFails(d) \/ Drop(d) PROVE TPDTypeOK'
  <2>1. refresh.todo \ {d} \in SUBSET Dates /\ refresh.ok \in BOOLEAN
    BY <1>3 DEF RefreshType
  <2>2. refresh' \in RefreshType
    BY <1>3, <1>4, <2>1, ThenType DEF Load, LoadFails, Drop
  <2>3. races' \in SUBSET Races /\ loaded' \in SUBSET Dates
    BY <1>3, <1>4 DEF Load, LoadFails, Drop
  <2>4. UNCHANGED <<today, listing, wanted>>
    BY <1>4 DEF Load, LoadFails, Drop, World
  <2> QED
    BY <1>1, <2>2, <2>3, <2>4 DEF TPDTypeOK, RefreshType
<1>5. CASE Take
  <2>1. Head(wanted) \in Dates /\ Tail(wanted) \in Seq(Dates) /\ Len(Tail(wanted)) <= Len(wanted)
    BY <1>3, <1>5 DEF Take
  <2>2. refresh' \in RefreshType
    BY <1>5, <2>1 DEF Take, Refreshing, RefreshType
  <2>3. Len(wanted') <= QueueSize
    BY <1>3, <1>5, <2>1, TPDFeedAssumption DEF Take, TPDTypeOK
  <2>4. UNCHANGED <<today, listing, races, loaded>> /\ wanted' = Tail(wanted)
    BY <1>5 DEF Take, World
  <2> QED
    BY <1>1, <1>2, <2>1, <2>2, <2>3, <2>4 DEF TPDTypeOK, RefreshType
<1>6. CASE RefreshAll
  <2>1. refresh' \in RefreshType
    BY <1>3, <1>6, DatesType DEF RefreshAll, Refreshing, RefreshType
  <2>2. UNCHANGED <<today, listing, races, loaded, wanted>>
    BY <1>6 DEF RefreshAll, World
  <2> QED
    BY <1>1, <1>2, <2>1, <2>2 DEF TPDTypeOK, RefreshType
<1>7. CASE NextDay
  <2>1. today' \in FirstDay..LastDay
    BY <1>7, TPDFeedAssumption DEF NextDay, TPDTypeOK
  <2>2. UNCHANGED <<listing, races, loaded, refresh, wanted>>
    BY <1>7 DEF NextDay, Client, list
  <2> QED
    BY <1>1, <1>2, <2>1, <2>2 DEF TPDTypeOK
<1>8. ASSUME NEW r \in Races, Miss(r) PROVE TPDTypeOK'
  <2>1. DateOf[r] \in Dates
    BY <1>8, TPDFeedAssumption DEF Miss, Arrives, Ordered, TPDTypeOK
  <2>2. wanted' = Append(wanted, DateOf[r]) /\ Len(wanted) < QueueSize
    BY <1>8 DEF Miss
  <2>3. wanted' \in Seq(Dates) /\ Len(wanted') <= QueueSize
    BY <1>3, <2>1, <2>2, TPDFeedAssumption
  <2>4. UNCHANGED <<today, listing, races, loaded, refresh>>
    BY <1>8 DEF Miss, World, list
  <2> QED
    BY <1>1, <2>3, <2>4 DEF TPDTypeOK
<1>9. ASSUME NEW r \in Races, Publish(r) \/ Withdraw(r) PROVE TPDTypeOK'
  <2>1. listing' \in SUBSET Races
    BY <1>3, <1>9 DEF Publish, Withdraw
  <2>2. UNCHANGED <<today, races, loaded, refresh, wanted>>
    BY <1>9 DEF Publish, Withdraw, Client, list
  <2> QED
    BY <1>1, <2>1, <2>2 DEF TPDTypeOK
<1> QED
  BY <1>2, <1>4, <1>5, <1>6, <1>7, <1>8, <1>9

LEMMA SendKeeps ==
  ASSUME TPDInv, NEW r \in Races, Send(r)
  PROVE  TPDInv'
<1> USE DEF TPDInv
<1>1. /\ sent' = [sent EXCEPT ![r] = sent[r] + 1] /\ sent[r] < Len(Script[r])
      /\ UNCHANGED <<today, listing, races, loaded, refresh, wanted, tracked, stale, handed>>
  BY DEF Send, Client, list
<1>2. TPDTypeOK'
  <2>1. sent[r] + 1 \in Nat /\ sent \in [Races -> Nat]
    BY DEF TPDTypeOK
  <2>2. sent' \in [Races -> Nat]
    BY <1>1, <2>1
  <2> QED
    BY <1>1, <2>2 DEF TPDTypeOK
<1>3. ASSUME NEW q \in Races PROVE Ordered(q)' /\ Accurate(q)'
  <2>1. Accurate(q)'
    BY <1>1 DEF Accurate, Told
  <2>2. sent[q] \in Nat /\ sent[r] \in Nat /\ Len(Script[q]) \in Nat /\ stale[q] \in Nat
        /\ tracked[q].at \in Nat /\ DateOf[r] \in Dates
    <3>1. Script[q] \in Seq(Snapshots)
      BY TPDFeedAssumption
    <3>2. DateOf[r] \in Dates
      BY DEF Send, Around
    <3>3. Len(Script[q]) \in Nat
      BY <3>1
    <3>4. sent[q] \in Nat /\ sent[r] \in Nat /\ stale[q] \in Nat /\ tracked[q].at \in Nat
      BY DEF TPDTypeOK
    <3> QED
      BY <3>2, <3>3, <3>4
  <2>3. sent'[q] = IF q = r THEN sent[q] + 1 ELSE sent[q]
    BY <1>1 DEF TPDTypeOK
  <2>4. sent[q] <= sent'[q] /\ sent'[q] <= Len(Script[q]) /\ sent'[q] \in Nat
        /\ (sent'[q] > 0 => DateOf[q] \in Dates)
    BY <1>1, <2>2, <2>3 DEF Ordered
  <2>5. stale[q] <= sent'[q] /\ (tracked[q].on => tracked[q].at <= sent'[q])
    BY <2>2, <2>4 DEF Ordered
  <2> QED
    BY <1>1, <2>1, <2>4, <2>5 DEF Ordered
<1> QED BY <1>2, <1>3

\* A race that is swept has nothing newer on its way, unless it still was at the post.
LEMMA SweepKeeps ==
  ASSUME TPDInv, NEW r \in Races, Sweep(r)
  PROVE  TPDInv'
<1> USE DEF TPDInv
<1> DEFINE at == tracked[r].at
           end == IF AtPost(r, at) THEN at ELSE sent[r]
<1>1. /\ tracked[r].on /\ (AtPost(r, at) \/ sent[r] = Len(Script[r]))
      /\ tracked' = [tracked EXCEPT ![r] = Untracked]
      /\ stale' = [stale EXCEPT ![r] = end]
      /\ UNCHANGED <<today, listing, races, loaded, refresh, wanted, sent, handed>>
  BY DEF Sweep, list
<1>2. /\ sent[r] \in Nat /\ stale[r] \in Nat /\ at \in Nat /\ Len(Script[r]) \in Nat
      /\ handed[r].at = at /\ tracked[r].first \in 1..at /\ at <= sent[r]
      /\ sent[r] <= Len(Script[r])
  BY <1>1, TPDFeedAssumption DEF TPDTypeOK, Ordered
<1>3. end \in Nat /\ at <= end /\ end <= sent[r]
  BY <1>2
<1>4. TPDTypeOK'
  <2>1. Untracked \in [on : BOOLEAN, first : Nat, at : Nat, distance : Nat, finished : BOOLEAN]
    BY DEF Untracked, Tracking
  <2> QED
    BY <1>1, <1>3, <2>1 DEF TPDTypeOK
<1>5. /\ tracked'[r] = Untracked /\ stale'[r] = end /\ ~Untracked.on
      /\ \A q \in Races \ {r} : tracked'[q] = tracked[q] /\ stale'[q] = stale[q]
  BY <1>1 DEF TPDTypeOK, Untracked, Tracking
<1>6. Ordered(r)'
  BY <1>1, <1>2, <1>3, <1>5 DEF Ordered
<1>7. Accurate(r)'
  <2>1. at > 0 /\ handed'[r] = handed[r]
    BY <1>1, <1>2
  <2>2. CASE ~AtPost(r, at)
    BY <1>1, <1>2, <1>5, <2>1, <2>2 DEF Accurate
  <2>3. CASE AtPost(r, at)
    <3>1. Progress(r, at) = Progress(r, 1)
      BY <2>1, <2>3 DEF AtPost, Official, Progress
    <3>2. at \in 1..Len(Script[r]) /\ tracked[r].first \in 1..Len(Script[r]) /\ 1 \in 1..tracked[r].first
      BY <1>2
    <3>3. /\ Progress(r, at) <= Progress(r, tracked[r].first)
          /\ Progress(r, tracked[r].first) <= Progress(r, 1)
          /\ Progress(r, at) \in Nat /\ Progress(r, tracked[r].first) \in Nat
      BY <1>2, <3>2, Scripts
    <3>4. Progress(r, tracked[r].first) = Progress(r, 1)
      BY <3>1, <3>3
    <3>5. Told(r, 1)
      BY <1>1, <3>4 DEF Accurate, Told
    <3>6. Told(r, 1)'
      BY <1>1, <3>5 DEF Told
    <3>7. AtPost(r, handed'[r].at)
      BY <1>2, <2>1, <2>3
    <3> QED
      BY <1>2, <1>5, <2>1, <3>6, <3>7 DEF Accurate
  <2> QED BY <2>2, <2>3
<1>8. ASSUME NEW q \in Races, q # r PROVE (Ordered(q) /\ Accurate(q))'
  BY <1>1, <1>5, <1>8 DEF Ordered, Accurate, Told
<1> QED BY <1>4, <1>6, <1>7, <1>8

\* With one distance to measure by, a later snapshot is as far into the race.
LEMMA StatusRises ==
  ASSUME NEW r \in Races, NEW t \in 1..Len(Script[r]), NEW i \in 1..t, NEW d \in Nat
  PROVE  Rank[Status(Progress(r, i) = 0, d, Script[r][i])]
           <= Rank[Status(Progress(r, t) = 0, d, Script[r][t])]
<1>1. i \in 1..Len(Script[r])
  BY Scripts
<1>2. /\ Progress(r, i) \in Nat /\ Progress(r, t) \in Nat /\ Progress(r, t) <= Progress(r, i)
      /\ Script[r][i].clock => Script[r][t].clock
  BY <1>1, Scripts
<1>3. Script[r][i].progress = Progress(r, i) /\ Script[r][t].progress = Progress(r, t)
  BY DEF Progress
<1>4. /\ Rank["pre"] = 1 /\ Rank["running"] = 2 /\ Rank["finished"] = 3
  BY DEF Rank
<1> QED BY <1>2, <1>3, <1>4 DEF Status

\* Larger of what was seen and what comes is what the race was joined with.
LEMMA RefKeeps ==
  ASSUME TPDInv, NEW r \in Races, NEW t \in 1..Len(Script[r]), Ref(r, t)
  PROVE  TPDInv' /\ Rank[handed[r].status] <= Rank[handed'[r].status]
<1> USE DEF TPDInv
<1> DEFINE p == Script[r][t]
           first == IF tracked[r].on THEN tracked[r].first ELSE t
           largest == Larger(tracked[r].distance, p.progress)
           finished == tracked[r].finished \/ p.progress = 0
           distance == RefDistance(r, largest)
           status == Status(finished, distance, p)
           again == handed[r].again \/ t <= handed[r].at
           now == Tracking(TRUE, first, t, largest, finished)
           told == Handing(t, status, distance, again)
<1>1. /\ stale[r] < t /\ t <= sent[r] /\ tracked[r].at < t
      /\ tracked' = [tracked EXCEPT ![r] = now] /\ handed' = [handed EXCEPT ![r] = told]
      /\ UNCHANGED <<today, listing, races, loaded, refresh, wanted, sent, stale>>
  BY DEF Ref, Arrives, Fresh, World, list
<1>2. /\ Len(Script[r]) \in Nat /\ t \in Nat /\ p.progress = Progress(r, t)
      /\ Progress(r, t) \in Nat /\ p.clock \in BOOLEAN
  BY Scripts DEF Progress
<1>3. /\ tracked[r].on \in BOOLEAN /\ tracked[r].first \in Nat /\ tracked[r].at \in Nat
      /\ tracked[r].distance \in Nat /\ tracked[r].finished \in BOOLEAN
      /\ handed[r].at \in Nat /\ handed[r].distance \in Nat
      /\ sent[r] \in Nat /\ stale[r] \in Nat /\ sent[r] <= Len(Script[r])
      /\ handed[r].status \in {"none", "pre", "running", "finished"}
  BY DEF TPDTypeOK, Ordered
<1>4. first \in 1..t /\ handed[r].at < t /\ again = FALSE
  BY <1>1, <1>2, <1>3 DEF Ordered
<1>5. first \in 1..Len(Script[r]) /\ t \in 1..Len(Script[r])
  BY <1>2, <1>4
<1>6. /\ Progress(r, first) \in Nat /\ Progress(r, t) <= Progress(r, first)
  BY <1>4, <1>5, Scripts
<1>7. largest = Progress(r, first) /\ (finished <=> Progress(r, t) = 0)
  <2>1. CASE tracked[r].on
    <3>1. /\ tracked[r].distance = Progress(r, first)
          /\ tracked[r].finished <=> Progress(r, tracked[r].at) = 0
          /\ tracked[r].at \in 1..t
      BY <1>1, <1>2, <1>3, <2>1 DEF Accurate, Ordered
    <3>2. Progress(r, t) <= Progress(r, tracked[r].at) /\ Progress(r, tracked[r].at) \in Nat
      BY <1>2, <3>1, Scripts
    <3> QED
      BY <1>2, <1>6, <3>1, <3>2 DEF Larger
  <2>2. CASE ~tracked[r].on
    <3>1. tracked[r].distance = 0 /\ ~tracked[r].finished /\ first = t
      BY <2>2 DEF Ordered, Untracked, Tracking
    <3> QED
      BY <1>2, <3>1 DEF Larger
  <2> QED BY <2>1, <2>2
<1>8. Length[r] \in Nat /\ distance = RefDistance(r, Progress(r, first)) /\ distance \in Nat
  BY <1>6, <1>7, TPDFeedAssumption DEF RefDistance
<1>9. /\ status = Status(Progress(r, t) = 0, distance, p)
      /\ status \in {"pre", "running", "finished"}
  BY <1>2, <1>7 DEF Status
<1> HIDE DEF p, first, largest, finished, distance, status, again
<1>10. /\ tracked'[r] = now /\ handed'[r] = told
       /\ \A q \in Races \ {r} : tracked'[q] = tracked[q] /\ handed'[q] = handed[q]
  BY <1>1 DEF TPDTypeOK
<1>11. /\ now.on /\ now.first = first /\ now.at = t /\ now.distance = largest
       /\ now.finished = finished
       /\ told.at = t /\ told.status = status /\ told.distance = distance /\ told.again = again
  BY DEF Tracking, Handing
<1>12. TPDTypeOK'
  <2>1. finished \in BOOLEAN
    BY <1>3 DEF finished
  <2>2. now \in [on : BOOLEAN, first : Nat, at : Nat, distance : Nat, finished : BOOLEAN]
    BY <1>2, <1>4, <1>6, <1>7, <2>1 DEF Tracking
  <2>3. told \in [at : Nat, status : {"none", "pre", "running", "finished"},
                  distance : Nat, again : BOOLEAN]
    BY <1>2, <1>4, <1>8, <1>9 DEF Handing
  <2> HIDE DEF now, told
  <2> QED
    BY <1>1, <2>2, <2>3 DEF TPDTypeOK
<1>13. Ordered(r)'
  <2> HIDE DEF now, told
  <2> QED
    BY <1>1, <1>3, <1>4, <1>10, <1>11 DEF Ordered
<1>14. Accurate(r)'
  <2> HIDE DEF now, told
  <2>1. handed'[r].at = t /\ handed'[r].distance = distance /\ handed'[r].status = status
    BY <1>10, <1>11
  <2>2. tracked'[r].on /\ tracked'[r].at = t /\ tracked'[r].first = first
        /\ tracked'[r].distance = largest /\ tracked'[r].finished = finished
    BY <1>10, <1>11
  <2>3. handed'[r].status = Status(Progress(r, t) = 0, distance, Script[r][t])
    BY <1>9, <2>1 DEF p
  <2>4. Told(r, tracked[r].first)'
    BY <1>8, <2>1, <2>2, <2>3 DEF Told
  <2> QED
    BY <1>7, <2>2, <2>4 DEF Accurate
<1>15. ASSUME NEW q \in Races, q # r PROVE (Ordered(q) /\ Accurate(q))'
  BY <1>1, <1>10, <1>15 DEF Ordered, Accurate, Told
<1>16. Rank[handed[r].status] <= Rank[status]
  <2>1. /\ Rank["none"] = 0 /\ Rank["pre"] = 1 /\ Rank["running"] = 2 /\ Rank["finished"] = 3
    BY DEF Rank
  <2>2. CASE handed[r] = Nothing
    BY <1>9, <2>1, <2>2 DEF Nothing, Handing
  <2>3. CASE ~tracked[r].on /\ stale[r] = Len(Script[r])
    BY <1>1, <1>2, <1>3, <2>3
  <2>4. ASSUME handed[r].at > 0, NEW f, Told(r, f), RefDistance(r, Progress(r, f)) = distance
        PROVE  Rank[handed[r].status] <= Rank[status]
    <3>1. handed[r].at \in 1..t
      BY <1>2, <1>3, <1>4, <2>4
    <3>2. handed[r].status = Status(Progress(r, handed[r].at) = 0, distance, Script[r][handed[r].at])
      BY <2>4 DEF Told
    <3>3. status = Status(Progress(r, t) = 0, distance, Script[r][t])
      BY <1>9 DEF p
    <3> QED
      BY <1>8, <3>1, <3>2, <3>3, StatusRises
  <2>5. CASE tracked[r].on
    <3>1. handed[r].at > 0 /\ Told(r, tracked[r].first) /\ first = tracked[r].first
      BY <1>3, <2>5 DEF Ordered, Accurate, first
    <3> QED
      BY <1>8, <2>4, <3>1
  <2>6. CASE ~tracked[r].on /\ handed[r].at > 0 /\ AtPost(r, handed[r].at) /\ Told(r, 1)
    <3>1. CASE Length[r] # 0
      BY <1>8, <2>4, <2>6, <3>1 DEF RefDistance
    <3>2. CASE Length[r] = 0
      <4> DEFINE at == handed[r].at
      <4>1. at \in 1..t /\ at \in 1..Len(Script[r])
        BY <1>2, <1>3, <1>4, <2>6
      <4>2. Progress(r, at) = Progress(r, 1) /\ ~Script[r][at].clock
        BY <2>6 DEF AtPost, Official, Progress
      <4>3. handed[r].status = Status(Progress(r, at) = 0, Progress(r, at), Script[r][at])
        BY <2>6, <3>2, <4>2 DEF Told, RefDistance
      <4>4. Progress(r, at) \in Nat /\ Script[r][at].progress = Progress(r, at)
        BY <4>1, Scripts DEF Progress
      <4>5. CASE Progress(r, at) # 0
        <5>1. handed[r].status = "pre"
          BY <4>2, <4>3, <4>4, <4>5 DEF Status
        <5> QED
          BY <1>9, <2>1, <5>1
      <4>6. CASE Progress(r, at) = 0
        <5>1. Progress(r, t) = 0
          BY <1>2, <4>1, <4>6, Scripts
        <5>2. status = "finished"
          BY <1>9, <5>1 DEF Status
        <5> QED
          BY <1>3, <2>1, <5>2
      <4> QED BY <4>5, <4>6
    <3> QED BY <3>1, <3>2
  <2> QED BY <2>2, <2>3, <2>5, <2>6 DEF Accurate
<1> QED BY <1>10, <1>11, <1>12, <1>13, <1>14, <1>15, <1>16

LEMMA TPDNextKeeps ==
  ASSUME TPDInv, [TPDNext]_tpdVars
  PROVE  TPDInv' /\ [\A r \in Races : Rank[handed[r].status] <= Rank[handed'[r].status]]_tpdVars
<1>1. \A r \in Races : Rank[handed[r].status] \in Nat
  <2>1. \A r \in Races : handed[r].status \in {"none", "pre", "running", "finished"}
    BY DEF TPDInv, TPDTypeOK
  <2> QED
    BY <2>1 DEF Rank
<1>2. CASE UNCHANGED tpdVars
  <2>1. TPDTypeOK'
    BY <1>2 DEF TPDInv, TPDTypeOK, tpdVars, list
  <2>2. \A r \in Races : (Ordered(r) /\ Accurate(r))'
    BY <1>2 DEF TPDInv, Ordered, Accurate, Told, tpdVars
  <2> QED
    BY <1>2, <2>1, <2>2 DEF TPDInv
<1>3. ASSUME TPDInv', UNCHANGED handed
      PROVE  TPDInv' /\ \A r \in Races : Rank[handed[r].status] <= Rank[handed'[r].status]
  BY <1>1, <1>3
<1>4. CASE \/ \E d \in Dates : Load(d) \/ LoadFails(d) \/ Drop(d)
           \/ Take \/ RefreshAll \/ NextDay
           \/ \E r \in Races : Miss(r) \/ Publish(r) \/ Withdraw(r)
  <2>1. TPDInv'
    BY <1>4, ListKeeps
  <2>2. UNCHANGED handed
    BY <1>4 DEF Load, LoadFails, Drop, Take, RefreshAll, NextDay, Miss, Publish, Withdraw, Client
  <2> QED
    BY <1>3, <2>1, <2>2
<1>5. ASSUME NEW r \in Races, Send(r) \/ Sweep(r)
      PROVE  TPDInv' /\ \A q \in Races : Rank[handed[q].status] <= Rank[handed'[q].status]
  <2>1. TPDInv'
    BY <1>5, SendKeeps, SweepKeeps
  <2>2. UNCHANGED handed
    BY <1>5 DEF Send, Sweep, Client
  <2> QED
    BY <1>3, <2>1, <2>2
<1>6. ASSUME NEW r \in Races, NEW t \in 1..Len(Script[r]), Ref(r, t)
      PROVE  TPDInv' /\ \A q \in Races : Rank[handed[q].status] <= Rank[handed'[q].status]
  <2>1. TPDInv' /\ Rank[handed[r].status] <= Rank[handed'[r].status]
    BY <1>6, RefKeeps
  <2>2. \A q \in Races \ {r} : handed'[q] = handed[q]
    BY <1>6 DEF Ref, TPDInv, TPDTypeOK
  <2> QED
    BY <1>1, <2>1, <2>2
<1>7. CASE TPDNext
  BY <1>4, <1>5, <1>6, <1>7 DEF TPDNext
<1> QED BY <1>2, <1>7

LEMMA TPDInvariant == TPDSpec => []TPDInv
<1>1. TPDInit => TPDInv
  BY TPDInitInv
<1>2. TPDInv /\ [TPDNext]_tpdVars => TPDInv'
  BY TPDNextKeeps
<1> QED BY <1>1, <1>2, PTL DEF TPDSpec

\* The race list and the tracker keep their types, and the queue of dates that were asked
\* for its capacity.
THEOREM TPDTypeCorrect == TPDSpec => []TPDTypeOK
<1>1. TPDInv => TPDTypeOK
  BY DEF TPDInv
<1> QED BY <1>1, TPDInvariant, PTL

\* Ref lets no snapshot of a race through twice, nor one older than the last, across the
\* sweeps that forget how far the race was.
THEOREM TPDNewestOnly == TPDSpec => []NewestOnly
<1>1. TPDInv => NewestOnly
  BY DEF TPDInv, Ordered, NewestOnly
<1> QED BY <1>1, TPDInvariant, PTL

\* The largest progress seen since the race was joined is its official distance, if it was
\* joined at the post.
LEMMA SureDistance ==
  ASSUME TPDInv, NEW r \in Races, tracked[r].on
  PROVE  /\ handed[r].at \in 1..Len(Script[r]) /\ tracked[r].at = handed[r].at
         /\ handed[r].status = Status(Progress(r, handed[r].at) = 0, handed[r].distance,
                                      Script[r][handed[r].at])
         /\ handed[r].distance \in Nat
         /\ Sure(r) => handed[r].distance = Official(r)
<1> USE DEF TPDInv
<1>1. Len(Script[r]) \in Nat /\ handed[r].at \in Nat /\ sent[r] \in Nat /\ handed[r].distance \in Nat
      /\ tracked[r].first \in Nat
  BY TPDFeedAssumption DEF TPDTypeOK
<1>2. handed[r].at \in 1..Len(Script[r]) /\ tracked[r].at = handed[r].at /\ tracked[r].first # 0
  BY <1>1 DEF Ordered
<1>3. /\ handed[r].distance = RefDistance(r, Progress(r, tracked[r].first))
      /\ handed[r].status = Status(Progress(r, handed[r].at) = 0, handed[r].distance,
                                   Script[r][handed[r].at])
  BY DEF Accurate, Told
<1>4. ASSUME Measured(r), Length[r] = 0 PROVE handed[r].distance = Official(r)
  <2>1. 1 \in 1..Len(Script[r]) /\ 1 \in 1..tracked[r].first /\ tracked[r].first \in 1..Len(Script[r])
    BY <1>1, <1>2 DEF Ordered
  <2>2. /\ Progress(r, tracked[r].first) \in Nat /\ Progress(r, 1) \in Nat
        /\ Progress(r, tracked[r].first) <= Progress(r, 1)
    BY <2>1, Scripts
  <2> QED
    BY <1>3, <1>4, <2>2 DEF Measured, Official, Progress, RefDistance
<1>5. ASSUME Length[r] = 0, AtPost(r, tracked[r].first) PROVE handed[r].distance = Official(r)
  BY <1>2, <1>3, <1>5 DEF AtPost, Progress, RefDistance
<1>6. ASSUME Measured(r), Length[r] # 0 PROVE handed[r].distance = Official(r)
  BY <1>3, <1>6 DEF Measured, RefDistance
<1> QED BY <1>1, <1>2, <1>3, <1>4, <1>5, <1>6 DEF Sure

\* With no length in the race list the largest progress seen is the official distance, for
\* a race joined at the post, whatever was lost or repeated since.
THEOREM TPDDistanceTrue == TPDSpec => []DistanceTrue
<1>1. TPDInv => DistanceTrue
  BY SureDistance DEF DistanceTrue
<1> QED BY <1>1, TPDInvariant, PTL

\* The status Ref hands on is the race's own, the clock or the distance telling that it is
\* off, wherever the distance can be relied on or there is a clock.
THEOREM TPDStatusTrue == TPDSpec => []StatusTrue
<1>1. ASSUME TPDInv, NEW r \in Races, tracked[r].on,
             Sure(r) \/ Script[r][tracked[r].at].clock
      PROVE  handed[r].status = Truth(r, handed[r].at)
  <2> DEFINE t == handed[r].at
  <2>1. /\ t \in 1..Len(Script[r]) /\ tracked[r].at = t
        /\ handed[r].status = Status(Progress(r, t) = 0, handed[r].distance, Script[r][t])
        /\ Sure(r) => handed[r].distance = Official(r)
    BY <1>1, SureDistance
  <2>2. 1 \in 1..t /\ 1 \in 1..Len(Script[r]) /\ Len(Script[r]) \in Nat
    BY <2>1, TPDFeedAssumption
  <2>3. /\ Progress(r, t) \in Nat /\ Progress(r, 1) \in Nat /\ Progress(r, t) <= Progress(r, 1)
    BY <2>1, <2>2, Scripts
  <2>4. Script[r][t].progress = Progress(r, t) /\ Official(r) = Progress(r, 1) /\ t # 0
    BY <2>1 DEF Progress, Official
  <2> HIDE DEF t
  <2>5. CASE Script[r][t].clock
    <3>1. handed[r].status = Truth(r, t)
      BY <2>1, <2>3, <2>4, <2>5 DEF Status, Truth, AtPost
    <3> QED BY <3>1 DEF t
  <2>6. CASE Sure(r) /\ ~Script[r][t].clock
    <3>1. handed[r].status = Truth(r, t)
      BY <2>1, <2>3, <2>4, <2>6 DEF Status, Truth, AtPost
    <3> QED BY <3>1 DEF t
  <2> QED BY <1>1, <2>1, <2>5, <2>6
<1>2. TPDInv => StatusTrue
  BY <1>1 DEF StatusTrue
<1> QED BY <1>2, TPDInvariant, PTL

\* No packet that is late, repeated or comes after a sweep takes the status of a race back.
THEOREM TPDStatusForward == TPDSpec => StatusForward
<1>1. TPDInv /\ [TPDNext]_tpdVars
        => [\A r \in Races : Rank[handed[r].status] <= Rank[handed'[r].status]]_tpdVars
  BY TPDNextKeeps
<1> QED BY <1>1, TPDInvariant, PTL DEF TPDSpec, StatusForward

=============================================================================
