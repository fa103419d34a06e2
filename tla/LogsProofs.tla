----------------------------- MODULE LogsProofs -----------------------------
(* The logger keeps the last records, in order, and its ring is the promise  *)
(* of RecentLog, for every size; only a goroutine that logged before Stop    *)
(* can meet the closed queue; and Stop leaves nothing behind.                *)
EXTENDS Logs, SequenceTheorems, FiniteSetTheorems, TLAPS

LEMMA RingInit == newRing => RingTypeOK
<1> SUFFICES ASSUME newRing PROVE RingTypeOK
  OBVIOUS
<1>1. 0 \in 0..Size-1
  BY RingAssumption
<1>2. buf \in [0..Size-1 -> Kept \cup {Empty}]
  BY DEF newRing
<1>3. \A i \in 0..Size-1 : ~(full \/ i < next)
  BY RingAssumption DEF newRing
<1> QED
  BY <1>1, <1>2, <1>3 DEF newRing, RingTypeOK

LEMMA RingStep ==
  ASSUME RingTypeOK, NEW r \in Kept, add(r)
  PROVE  RingTypeOK'
BY RingAssumption DEF add, RingTypeOK

Copied == Snapshot \in Seq(Kept) /\ Len(Snapshot) = IF full THEN Size ELSE next

LEMMA SnapshotType == RingTypeOK => Copied
BY RingAssumption DEF RingTypeOK, Snapshot, Copied

LEMMA SnapshotTypeNext == RingTypeOK' => Copied'
BY SnapshotType, PTL

\* One add moves the copy as RecentLog says, wrapped or not.
LEMMA AddKeeps ==
  ASSUME RingTypeOK, NEW r \in Kept, add(r)
  PROVE  Snapshot' = Held!Newest(Size, Append(Snapshot, r))
<1> DEFINE was == Snapshot
           a == Append(was, r)
           new == Held!Newest(Size, a)
<1>1. was \in Seq(Kept) /\ Len(was) = IF full THEN Size ELSE next
  BY SnapshotType DEF Copied
<1>2. /\ next \in Nat /\ next < Size /\ Size \in Nat \ {0} /\ full \in BOOLEAN
      /\ buf' = [buf EXCEPT ![next] = r] /\ DOMAIN buf = 0..Size-1
      /\ next' = (IF next + 1 = Size THEN 0 ELSE next + 1)
      /\ full' = (full \/ next + 1 = Size)
  BY RingAssumption DEF RingTypeOK, add
<1>3. Snapshot' \in Seq(Kept) /\ Len(Snapshot') = IF full' THEN Size ELSE next'
  <2>1. RingTypeOK'
    BY RingStep
  <2> QED
    BY <2>1, SnapshotTypeNext DEF Copied
<1>4. /\ a \in Seq(Kept) /\ Len(a) = Len(was) + 1
      /\ \A i \in 1..Len(was) : a[i] = was[i]
      /\ a[Len(was) + 1] = r
  BY <1>1
<1>5. CASE ~full
  <2>1. new = a
    <3>1. Len(a) <= Size
      BY <1>1, <1>2, <1>4, <1>5
    <3> HIDE DEF a
    <3> QED
      BY <3>1 DEF Held!Newest
  <2>2. Len(a) = next + 1 /\ Len(Snapshot') = next + 1
    BY <1>1, <1>2, <1>3, <1>4, <1>5
  <2>3. ASSUME NEW i \in 1..next + 1
        PROVE  Snapshot'[i] = a[i]
    <3>1. Snapshot'[i] = buf'[i - 1]
      <4>1. CASE next + 1 = Size
        <5>1. Snapshot' = [j \in 1..Size |-> IF j <= Size - next' THEN buf'[next' + j - 1]
                                             ELSE buf'[j - (Size - next') - 1]]
          BY <1>2, <4>1 DEF Snapshot
        <5> QED
          BY <1>2, <4>1, <5>1
      <4>2. CASE next + 1 # Size
        <5>1. Snapshot' = [j \in 1..next' |-> buf'[j - 1]]
          BY <1>2, <1>5, <4>2 DEF Snapshot
        <5> QED
          BY <1>2, <4>2, <5>1
      <4> QED
        BY <4>1, <4>2
    <3>2. i <= next => a[i] = buf[i - 1]
      BY <1>1, <1>2, <1>4, <1>5 DEF Snapshot
    <3> QED
      BY <1>1, <1>2, <1>4, <1>5, <3>1, <3>2
  <2> HIDE DEF a, new
  <2>4. \A i \in 1..Len(a) : Snapshot'[i] = a[i]
    BY <2>2, <2>3
  <2> QED
    BY <1>3, <1>4, <2>1, <2>2, <2>4, SeqEqual DEF new, a
<1>6. CASE full
  <2>1. Len(a) = Size + 1
    BY <1>1, <1>2, <1>4, <1>6
  <2>2. new = SubSeq(a, 2, Size + 1)
    <3> HIDE DEF a
    <3>1. ~(Len(a) <= Size) /\ Len(a) - Size + 1 = 2
      BY <1>2, <2>1
    <3> QED
      BY <2>1, <3>1 DEF Held!Newest
  <2>3. \A i \in 2..Size + 1 : a[i] \in Kept
    BY <1>2, <1>4, <2>1, ElementOfSeq
  <2>4. /\ new \in Seq(Kept) /\ Len(new) = Size
        /\ \A i \in 1..Size : new[i] = a[i + 1]
    <3> HIDE DEF a
    <3>1. /\ SubSeq(a, 2, Size + 1) \in Seq(Kept)
          /\ Len(SubSeq(a, 2, Size + 1)) = Size
          /\ \A i \in 1..Size : SubSeq(a, 2, Size + 1)[i] = a[2 + i - 1]
      BY <1>2, <2>3, SubSeqProperties
    <3> HIDE DEF new
    <3> QED
      BY <1>2, <2>2, <3>1
  <2>5. ASSUME NEW i \in 1..Size
        PROVE  Snapshot'[i] = a[i + 1]
    <3>1. Snapshot'[i] = IF i <= Size - next' THEN buf'[next' + i - 1] ELSE buf'[i - (Size - next') - 1]
      BY <1>2, <1>6 DEF Snapshot
    <3>2. CASE i = Size
      BY <1>1, <1>2, <1>4, <1>6, <3>1, <3>2
    <3>3. CASE i # Size
      <4>1. a[i + 1] = was[i + 1]
        BY <1>1, <1>2, <1>4, <1>6, <3>3
      <4>2. was[i + 1] = IF i + 1 <= Size - next THEN buf[next + i] ELSE buf[i - (Size - next)]
        BY <1>2, <1>6, <3>3 DEF Snapshot
      <4> HIDE DEF was, a
      <4> QED
        BY <1>2, <3>1, <3>3, <4>1, <4>2
    <3> QED
      BY <3>2, <3>3
  <2>6. Len(Snapshot') = Size
    BY <1>2, <1>3, <1>6
  <2> HIDE DEF new, a
  <2>7. \A i \in 1..Len(new) : Snapshot'[i] = new[i]
    BY <2>4, <2>5
  <2> QED
    BY <1>3, <2>4, <2>6, <2>7, SeqEqual DEF new, a
<1> QED
  BY <1>2, <1>5, <1>6

-----------------------------------------------------------------------------
\* A line the sink deals with has a channel.
Routed ==
  /\ \A e \in Emitters : emits[e].at = "sink" =>
       emits[e].note \in DOMAIN notes /\ Enabled(notes[emits[e].note].line)
  /\ \A j \in DOMAIN queue : queue[j] \in DOMAIN notes /\ Enabled(notes[queue[j]].line)
  /\ \A l \in Lines : muted[l].on => Enabled(l)
  /\ sink.due \subseteq {l \in Lines : Enabled(l)}
  /\ sink.at \in {"turn", "call", "again"} => sink.line \in Lines /\ Enabled(sink.line)

LEMMA Channelled == \A l \in Lines : Enabled(l) => channelFor(l) \in Channels
BY DEF Enabled, channelFor, Channels

LEMMA BecomeKeeps ==
  ASSUME notes \in Seq(Notes), NEW l, NEW from, NEW f \in Fates
  PROVE  /\ Become(l, from, f) \in Seq(Notes)
         /\ Len(Become(l, from, f)) = Len(notes) /\ DOMAIN Become(l, from, f) = DOMAIN notes
         /\ \A i \in DOMAIN notes :
              /\ Become(l, from, f)[i].line = notes[i].line
              /\ Become(l, from, f)[i].fate = IF notes[i].line = l /\ notes[i].fate = from THEN f ELSE notes[i].fate
<1> DEFINE b == Become(l, from, f)
<1>1. \A i \in 1..Len(notes) : notes[i] \in Notes
  BY ElementOfSeq
<1>2. b = [i \in 1..Len(notes) |-> IF notes[i].line = l /\ notes[i].fate = from
                                   THEN [notes[i] EXCEPT !.fate = f] ELSE notes[i]]
  BY DEF Become
<1>3. \A i \in 1..Len(notes) : b[i] \in Notes
  BY <1>1, <1>2 DEF Notes
<1>4. Len(notes) \in Nat /\ DOMAIN notes = 1..Len(notes)
  OBVIOUS
<1>5. \A i \in DOMAIN notes :
        b[i].line = notes[i].line /\ b[i].fate = IF notes[i].line = l /\ notes[i].fate = from THEN f ELSE notes[i].fate
  BY <1>1, <1>2, <1>4 DEF Notes
<1>6. b \in Seq(Notes) /\ Len(b) = Len(notes) /\ DOMAIN b = DOMAIN notes
  BY <1>2, <1>3, <1>4
<1> QED
  BY <1>5, <1>6

LEMMA TypeInit == Init => TypeOK /\ Routed
<1> SUFFICES ASSUME Init PROVE TypeOK /\ Routed
  OBVIOUS
<1>1. 0 \in 0..MaxNotes /\ 0 \in 0..Window /\ Window \in 0..Window /\ 0 \in 0..Burst /\ Burst \in 0..Burst /\ 0 \in 0..1
  BY LogsAssumption
<1>2. RingTypeOK
  BY RingInit DEF Init
<1>3. \A l \in Lines : muted[l].on = FALSE
  BY DEF Init, Quiet
<1>4. notes = <<>> /\ queue = <<>> /\ Len(notes) = 0 /\ Len(queue) = 0 /\ notes \in Seq(Notes) /\ queue \in Seq(1..MaxNotes)
  BY DEF Init
<1>5. Routed
  BY <1>3, <1>4 DEF Init, Routed, Out, Free
<1>6. TypeOK
  BY <1>1, <1>2, <1>4, LogsAssumption DEF Init, TypeOK, Out, Free, Quiet
<1> QED
  BY <1>5, <1>6

\* The steps of main and of the goroutines that log.
LEMMA TypeEmit ==
  ASSUME TypeOK, Routed, Install \/ Stop \/ Close \/ (\E e \in Emitters : (\E l \in Lines : Emit(e, l)) \/ Enqueue(e))
  PROVE  TypeOK' /\ Routed'
<1> USE LogsAssumption
<1>1. CASE Install
  BY <1>1 DEF Install, TypeOK, Routed, ringVars, RingTypeOK
<1>2. CASE Stop
  BY <1>2 DEF Stop, TypeOK, Routed, ringVars, RingTypeOK
<1>3. CASE Close
  BY <1>3 DEF Close, TypeOK, Routed, ringVars, RingTypeOK
<1>4. ASSUME NEW e \in Emitters, NEW l \in Lines, Emit(e, l)
      PROVE  TypeOK' /\ Routed'
  <2>1. RingTypeOK'
    <3>1. CASE l \in Kept
      BY <1>4, <3>1, RingStep DEF Emit, TypeOK
    <3>2. CASE l \notin Kept
      BY <1>4, <3>2 DEF Emit, TypeOK, ringVars, RingTypeOK
    <3> QED
      BY <3>1, <3>2
  <2>2. PICK n \in Notes : n.line = l /\ notes' = Append(notes, n)
    <3>1. [line |-> l, fate |-> IF Enabled(l) THEN "emitted" ELSE "kept"] \in Notes
      BY DEF Notes, Fates
    <3> QED
      BY <1>4, <3>1 DEF Emit
  <2>3. /\ notes' \in Seq(Notes) /\ Len(notes') = Len(notes) + 1 /\ Len(notes) \in Nat
        /\ DOMAIN notes' = 1..Len(notes) + 1 /\ DOMAIN notes = 1..Len(notes)
        /\ \A i \in DOMAIN notes : notes'[i] = notes[i]
        /\ notes'[Len(notes) + 1] = n
    <3>1. notes \in Seq(Notes)
      BY DEF TypeOK
    <3> QED
      BY <2>2, <3>1, AppendProperties
  <2>4. Len(notes') <= MaxNotes /\ Len(notes) + 1 \in 0..MaxNotes
    BY <1>4, <2>3 DEF Emit, TypeOK
  <2>5. TypeOK'
    BY <1>4, <2>1, <2>3, <2>4 DEF Emit, TypeOK
  <2>6. Routed'
    <3>1. \A d \in Emitters : emits'[d].at = "sink" =>
            emits'[d].note \in DOMAIN notes' /\ Enabled(notes'[emits'[d].note].line)
      <4>1. \A d \in Emitters : d # e \/ ~Enabled(l) => emits'[d] = emits[d]
        BY <1>4 DEF Emit, TypeOK
      <4>2. Enabled(l) => emits'[e].note = Len(notes) + 1
        BY <1>4 DEF Emit, TypeOK
      <4>3. ASSUME NEW d \in Emitters, emits'[d].at = "sink"
            PROVE  emits'[d].note \in DOMAIN notes' /\ Enabled(notes'[emits'[d].note].line)
        <5>1. CASE d # e \/ ~Enabled(l)
          BY <2>3, <4>1, <4>3, <5>1 DEF Routed
        <5>2. CASE d = e /\ Enabled(l)
          BY <2>2, <2>3, <4>2, <5>2
        <5> QED
          BY <5>1, <5>2
      <4> QED
        BY <4>3
    <3> QED
      BY <1>4, <2>3, <3>1 DEF Emit, Routed
  <2> QED
    BY <2>5, <2>6
<1>5. ASSUME NEW e \in Emitters, Enqueue(e)
      PROVE  TypeOK' /\ Routed'
  <2> DEFINE i == emits[e].note
  <2>0. /\ emits' \in [Emitters -> [at : {"out", "sink", "panicked"}, note : 0..MaxNotes, late : BOOLEAN]]
        /\ \A d \in Emitters : emits'[d].at = "sink" => emits'[d] = emits[d]
        /\ UNCHANGED <<buf, next, full, std, stop, muted, pace, sink, calls, alone>>
    <3>1. Out \in [at : {"out"}, note : 0..MaxNotes, late : BOOLEAN]
      BY DEF Out
    <3>2. emits[e] \in [at : {"out", "sink", "panicked"}, note : 0..MaxNotes, late : BOOLEAN]
      BY DEF TypeOK
    <3> QED
      <4>1. UNCHANGED <<buf, next, full, std, stop, muted, pace, sink, calls, alone>>
        BY <1>5 DEF Enqueue, ringVars
      <4>2. emits' = [emits EXCEPT ![e].at = "panicked"] \/ emits' = [emits EXCEPT ![e] = Out]
        BY <1>5 DEF Enqueue
      <4>3. DOMAIN emits = Emitters /\ emits \in [Emitters -> [at : {"out", "sink", "panicked"}, note : 0..MaxNotes, late : BOOLEAN]]
        BY DEF TypeOK
      <4>4. CASE emits' = [emits EXCEPT ![e].at = "panicked"]
        <5>1. emits'[e].at = "panicked"
          BY <3>2, <4>3, <4>4
        <5> QED
          BY <3>2, <4>1, <4>3, <4>4, <5>1
      <4>5. CASE emits' = [emits EXCEPT ![e] = Out]
        BY <3>1, <4>1, <4>3, <4>5 DEF Out
      <4> QED
        BY <4>2, <4>4, <4>5
  <2>1. CASE stop = "closed"
    <3>1. notes' = notes /\ queue' = queue
      BY <1>5, <2>1 DEF Enqueue
    <3>2. TypeOK'
      BY <2>0, <3>1 DEF TypeOK, RingTypeOK
    <3>3. Routed'
      BY <2>0, <3>1 DEF Routed
    <3> QED
      BY <3>2, <3>3
  <2>2. CASE stop # "closed"
    <3>1. i \in DOMAIN notes /\ Enabled(notes[i].line)
      BY <1>5 DEF Enqueue, Routed
    <3>2. PICK f \in Fates : notes' = [notes EXCEPT ![i].fate = f]
      <4>1. "queued" \in Fates /\ "dropped" \in Fates
        BY DEF Fates
      <4> QED
        BY <1>5, <2>2, <4>1 DEF Enqueue
    <3>3. notes[i] \in Notes /\ [notes[i] EXCEPT !.fate = f] \in Notes /\ [notes[i] EXCEPT !.fate = f].line = notes[i].line
      <4>1. notes[i] \in Notes
        BY <3>1, ElementOfSeq DEF TypeOK
      <4> QED
        BY <4>1 DEF Notes
    <3>4. /\ notes' \in Seq(Notes) /\ Len(notes') = Len(notes) /\ DOMAIN notes' = DOMAIN notes
          /\ \A k \in DOMAIN notes : notes'[k].line = notes[k].line
      BY <3>1, <3>2, <3>3, ExceptSeq, SMTT(30) DEF TypeOK
    <3>5. i \in 1..MaxNotes
      BY <3>1 DEF TypeOK
    <3>6. CASE Len(queue) < QueueSize
      <4>1. queue' = Append(queue, i)
        BY <1>5, <2>2, <3>6 DEF Enqueue
      <4>2. /\ queue' \in Seq(1..MaxNotes) /\ Len(queue') <= QueueSize
            /\ \A j \in DOMAIN queue' : queue'[j] = i \/ (j \in DOMAIN queue /\ queue'[j] = queue[j])
        <5>1. queue \in Seq(1..MaxNotes) /\ Len(queue) \in Nat /\ QueueSize \in Nat
          BY LogsAssumption DEF TypeOK
        <5>2. /\ queue' \in Seq(1..MaxNotes) /\ Len(queue') = Len(queue) + 1
              /\ \A j \in 1..Len(queue) : queue'[j] = queue[j]
              /\ queue'[Len(queue) + 1] = i
          BY <3>5, <4>1, <5>1, AppendProperties
        <5>3. DOMAIN queue' = 1..Len(queue) + 1 /\ DOMAIN queue = 1..Len(queue)
          BY <5>1, <5>2
        <5>4. \A j \in DOMAIN queue' : j = Len(queue) + 1 \/ j \in DOMAIN queue
          BY <5>1, <5>3
        <5>5. Len(queue') <= QueueSize
          BY <3>6, <5>1, <5>2
        <5> QED
          BY <5>2, <5>3, <5>4, <5>5
      <4>3. TypeOK'
        BY <2>0, <3>4, <4>2 DEF TypeOK, RingTypeOK
      <4>4. Routed'
        BY <2>0, <3>1, <3>4, <4>2, ZenonT(30) DEF Routed
      <4> QED
        BY <4>3, <4>4
    <3>7. CASE ~(Len(queue) < QueueSize)
      <4>1. queue' = queue
        BY <1>5, <2>2, <3>7 DEF Enqueue
      <4>2. TypeOK'
        BY <2>0, <3>4, <4>1 DEF TypeOK, RingTypeOK
      <4>3. Routed'
        BY <2>0, <3>1, <3>4, <4>1 DEF Routed
      <4> QED
        BY <4>2, <4>3
    <3> QED
      BY <3>6, <3>7
  <2> QED
    BY <2>1, <2>2
<1> QED
  BY <1>1, <1>2, <1>3, <1>4, <1>5

\* The steps of the sink, and of time.
SinkType == [at : {"free", "turn", "call", "again", "done"}, line : Lines \cup {None}, more : BOOLEAN,
             attempt : 0..1, due : SUBSET Lines, forced : BOOLEAN]
MutedType == [on : BOOLEAN, age : 0..Window, count : Nat]

LEMMA FreeType == Free \in SinkType /\ Quiet \in MutedType
BY LogsAssumption DEF Free, SinkType, Quiet, MutedType

LEMMA TypeDispatch ==
  ASSUME TypeOK, Routed, Dispatch
  PROVE  TypeOK' /\ Routed'
<1> DEFINE i == Head(queue)
           l == notes[i].line
<1>1. /\ queue \in Seq(1..MaxNotes) /\ queue # <<>> /\ queue' = Tail(queue)
      /\ notes \in Seq(Notes) /\ sink = Free
      /\ UNCHANGED <<buf, next, full, std, stop, emits, pace, calls>>
  BY DEF Dispatch, TypeOK, ringVars, Selecting
<1>2. /\ i = queue[1] /\ 1 \in DOMAIN queue /\ queue' \in Seq(1..MaxNotes) /\ Len(queue') <= QueueSize
      /\ \A j \in DOMAIN queue' : j + 1 \in DOMAIN queue /\ queue'[j] = queue[j + 1]
  BY <1>1, LogsAssumption DEF TypeOK
<1>3. i \in DOMAIN notes /\ notes[i] \in Notes /\ l \in Lines /\ Enabled(l)
  <2>1. i \in DOMAIN notes /\ Enabled(l)
    BY <1>2 DEF Routed
  <2>2. notes[i] \in Notes
    BY <1>1, <2>1, ElementOfSeq
  <2> QED
    BY <2>1, <2>2 DEF Notes
<1>4. muted[l] \in MutedType /\ DOMAIN muted = Lines /\ DOMAIN alone = Lines
  BY <1>3 DEF TypeOK, MutedType
<1>5. /\ notes' \in Seq(Notes) /\ Len(notes') = Len(notes) /\ DOMAIN notes' = DOMAIN notes
      /\ \A k \in DOMAIN notes : notes'[k].line = notes[k].line
  <2>1. CASE notes' = [notes EXCEPT ![i].fate = "counted"]
    <3>1. [notes[i] EXCEPT !.fate = "counted"] \in Notes /\ [notes[i] EXCEPT !.fate = "counted"].line = l
      BY <1>3 DEF Notes, Fates
    <3> QED
      BY <1>1, <1>3, <2>1, <3>1, ExceptSeq
  <2>2. CASE notes' = [Become(l, "counted", "lost") EXCEPT ![i].fate = "sending"]
    <3> DEFINE b == Become(l, "counted", "lost")
    <3>1. /\ b \in Seq(Notes) /\ Len(b) = Len(notes) /\ DOMAIN b = DOMAIN notes
          /\ \A k \in DOMAIN notes : b[k].line = notes[k].line
      <4>1. "lost" \in Fates
        BY DEF Fates
      <4> QED
        BY <1>1, <4>1, BecomeKeeps
    <3>2. b[i] \in Notes
      BY <1>3, <3>1, ElementOfSeq
    <3>3. [b[i] EXCEPT !.fate = "sending"] \in Notes /\ [b[i] EXCEPT !.fate = "sending"].line = b[i].line
      BY <3>2 DEF Notes, Fates
    <3>4. notes' = [b EXCEPT ![i] = [b[i] EXCEPT !.fate = "sending"]]
      BY <2>2
    <3> HIDE DEF b
    <3> QED
      BY <1>3, <3>1, <3>3, <3>4, ExceptSeq
  <2> QED
    BY <2>1, <2>2 DEF Dispatch
<1>6. /\ muted' \in [Lines -> MutedType] /\ alone' \in [Lines -> 0..Window] /\ sink' \in SinkType
      /\ \A k \in Lines : muted'[k].on => muted[k].on \/ k = l
      /\ sink'.due = {} /\ (sink'.at # "free" => sink'.line = l)
  <2>1. muted \in [Lines -> MutedType] /\ alone \in [Lines -> 0..Window] /\ 0 \in 0..Window
    BY LogsAssumption DEF TypeOK, MutedType
  <2>2. CASE muted[l].on /\ muted[l].age < Window
    <3>1. muted' = [muted EXCEPT ![l].count = @ + 1] /\ sink' = Free /\ alone' = alone
      BY <1>1, <2>2 DEF Dispatch
    <3>2. [muted[l] EXCEPT !.count = @ + 1] \in MutedType
      BY <1>4 DEF MutedType
    <3> QED
      BY <1>4, <2>1, <2>2, <3>1, <3>2, FreeType DEF Free
  <2>3. CASE ~(muted[l].on /\ muted[l].age < Window)
    <3>1. /\ muted' = IF Window > 0 THEN [muted EXCEPT ![l] = [Quiet EXCEPT !.on = TRUE]] ELSE muted
          /\ sink' = [Free EXCEPT !.at = "turn", !.line = l]
          /\ alone' = [alone EXCEPT ![l] = 0]
      BY <2>3 DEF Dispatch
    <3>2. [Quiet EXCEPT !.on = TRUE] \in MutedType
      BY FreeType DEF MutedType, Quiet
    <3>3. sink' \in SinkType /\ sink'.due = {} /\ sink'.line = l
      BY <1>3, <3>1, FreeType DEF Free, SinkType
    <3> QED
      BY <1>3, <2>1, <3>1, <3>2, <3>3
  <2> QED
    BY <2>2, <2>3
<1>7. TypeOK'
  BY <1>1, <1>2, <1>5, <1>6 DEF TypeOK, RingTypeOK, MutedType, SinkType
<1>8. Routed'
  <2>1. \A e \in Emitters : emits'[e] = emits[e]
    BY <1>1
  <2>2. \A j \in DOMAIN queue' : queue'[j] \in DOMAIN notes' /\ Enabled(notes'[queue'[j]].line)
    BY <1>2, <1>5 DEF Routed
  <2>3. \A k \in Lines : muted'[k].on => Enabled(k)
    BY <1>3, <1>6 DEF Routed
  <2>4. sink'.at \in {"turn", "call", "again"} => sink'.line \in Lines /\ Enabled(sink'.line)
    BY <1>3, <1>6
  <2> QED
    BY <1>5, <1>6, <2>1, <2>2, <2>3, <2>4, SMTT(30) DEF Routed
<1> QED
  BY <1>7, <1>8

LEMMA TypeSweep ==
  ASSUME TypeOK, Routed, Sweep \/ LastSweep \/ Summarise \/ Done
  PROVE  TypeOK' /\ Routed'
<1>0. muted \in [Lines -> MutedType] /\ sink \in SinkType
  BY DEF TypeOK, MutedType, SinkType
<1>1. ASSUME NEW closed \in SUBSET {l \in Lines : muted[l].on}, NEW forced \in BOOLEAN, SweepOf(closed, forced)
      PROVE  TypeOK' /\ Routed'
  <2>1. /\ muted' \in [Lines -> MutedType] /\ \A l \in Lines : muted'[l].on => muted[l].on
        /\ UNCHANGED <<buf, next, full, std, stop, emits, queue, pace, notes, calls, alone>>
    BY <1>0, <1>1, FreeType DEF SweepOf, Quiet, ringVars
  <2>2. sink' \in SinkType /\ sink'.due \subseteq closed /\ sink'.at = "free"
    BY <1>1, FreeType DEF SweepOf, SinkType, Free
  <2>3. TypeOK'
    BY <2>1, <2>2 DEF TypeOK, RingTypeOK, MutedType, SinkType
  <2>4. Routed'
    BY <2>1, <2>2 DEF Routed
  <2> QED
    BY <2>3, <2>4
<1>2. CASE Sweep
  BY <1>1, <1>2 DEF Sweep
<1>3. CASE LastSweep
  BY <1>1, <1>3 DEF LastSweep
<1>4. ASSUME NEW l \in sink.due,
             sink' = [sink EXCEPT !.at = "turn", !.line = l, !.more = TRUE, !.attempt = 0, !.due = @ \ {l}],
             UNCHANGED <<ringVars, std, stop, emits, queue, muted, pace, notes, calls, alone>>
      PROVE  TypeOK' /\ Routed'
  <2>1. sink' \in SinkType /\ sink'.due \subseteq sink.due /\ (sink'.at = "turn" => sink'.line = l)
    <3>1. l \in Lines
      BY <1>0 DEF SinkType
    <3> QED
      <4>1. sink' = [at |-> "turn", line |-> l, more |-> TRUE, attempt |-> 0, due |-> sink.due \ {l},
                     forced |-> sink.forced]
        BY <1>0, <1>4 DEF SinkType
      <4>2. sink.due \ {l} \subseteq Lines /\ sink.forced \in BOOLEAN
        BY <1>0 DEF SinkType
      <4> QED
        BY <3>1, <4>1, <4>2 DEF SinkType
  <2>2. TypeOK' /\ Routed'
    BY <1>4, <2>1 DEF TypeOK, RingTypeOK, SinkType, Routed, ringVars
  <2> QED
    BY <2>2
<1>5. CASE Summarise
  BY <1>4, <1>5 DEF Summarise
<1>6. CASE Done
  <2>1. sink' \in SinkType /\ sink'.due = {} /\ sink'.at = "done"
    BY <1>6, FreeType DEF Done, SinkType, Free
  <2> QED
    BY <1>6, <2>1 DEF Done, TypeOK, RingTypeOK, SinkType, Routed, ringVars
<1> QED
  BY <1>2, <1>3, <1>5, <1>6

LEMMA TypeTurn ==
  ASSUME TypeOK, Routed, WaitTurn \/ Answer \/ Again \/ Tick
  PROVE  TypeOK' /\ Routed'
<1>0. /\ muted \in [Lines -> MutedType] /\ sink \in SinkType /\ notes \in Seq(Notes)
      /\ pace \in [Channels -> [tokens : 0..Burst, since : 0..Burst]]
      /\ Burst \in Nat \ {0} /\ Window \in Nat
  BY LogsAssumption DEF TypeOK, MutedType, SinkType
<1>1. CASE WaitTurn
  <2> DEFINE c == channelFor(sink.line)
             tokens == Least(Burst, pace[c].tokens + pace[c].since)
  <2>1. c \in Channels
    BY <1>1, Channelled DEF WaitTurn, Routed
  <2>2. tokens - 1 \in 0..Burst /\ 0 \in 0..Burst
    BY <1>0, <1>1, <2>1 DEF WaitTurn, Least
  <2> HIDE DEF tokens, c
  <2>3. [tokens |-> tokens - 1, since |-> 0] \in [tokens : 0..Burst, since : 0..Burst]
    BY <2>2
  <2>4. pace' \in [Channels -> [tokens : 0..Burst, since : 0..Burst]]
    BY <1>0, <1>1, <2>1, <2>3 DEF WaitTurn, c, tokens
  <2>5. sink' \in SinkType /\ sink'.due = sink.due /\ sink'.line = sink.line
    BY <1>0, <1>1 DEF WaitTurn, SinkType
  <2>6. UNCHANGED <<buf, next, full, std, stop, emits, queue, muted, notes, alone>>
    BY <1>1 DEF WaitTurn, ringVars
  <2>7. TypeOK'
    BY <2>4, <2>5, <2>6 DEF TypeOK, RingTypeOK, SinkType
  <2>8. Routed'
    BY <1>1, <2>5, <2>6 DEF WaitTurn, Routed
  <2> QED
    BY <2>7, <2>8
<1>2. CASE Answer
  <2>0. UNCHANGED <<buf, next, full, std, stop, emits, queue, calls, alone>> /\ sink.at = "call"
    BY <1>2 DEF Answer, ringVars
  <2>1. ASSUME NEW f \in {"told", "failed"}, Sent(f)
        PROVE  TypeOK' /\ Routed'
    <3> DEFINE from == IF sink.more THEN "counted" ELSE "sending"
    <3>1. /\ notes' \in Seq(Notes) /\ Len(notes') = Len(notes) /\ DOMAIN notes' = DOMAIN notes
          /\ \A k \in DOMAIN notes : notes'[k].line = notes[k].line
      <4>1. f \in Fates /\ notes' = Become(sink.line, from, f)
        BY <2>1 DEF Sent, Fates
      <4> HIDE DEF from
      <4> QED
        BY <1>0, <4>1, BecomeKeeps
    <3>2. muted' \in [Lines -> MutedType] /\ \A l \in Lines : muted'[l].on => muted[l].on
      BY <1>0, <2>1, FreeType DEF Sent, Quiet
    <3>3. sink' \in SinkType /\ sink'.due = sink.due /\ sink'.at = "free" /\ pace' = pace
      BY <1>0, <2>1, FreeType DEF Sent, Free, SinkType
    <3>4. TypeOK'
      BY <2>0, <3>1, <3>2, <3>3 DEF TypeOK, RingTypeOK, SinkType, MutedType
    <3>5. Routed'
      BY <2>0, <3>1, <3>2, <3>3 DEF Routed
    <3> QED
      BY <3>4, <3>5
  <2>2. ASSUME pace' = [pace EXCEPT ![channelFor(sink.line)].tokens = 0],
               sink' = [sink EXCEPT !.at = "again", !.attempt = 1],
               UNCHANGED <<muted, notes>>
        PROVE  TypeOK' /\ Routed'
    <3>1. sink' \in SinkType /\ sink'.due = sink.due /\ sink'.line = sink.line
      <4>1. sink' = [at |-> "again", line |-> sink.line, more |-> sink.more, attempt |-> 1, due |-> sink.due,
                     forced |-> sink.forced]
        BY <1>0, <2>2 DEF SinkType
      <4> QED
        BY <1>0, <4>1 DEF SinkType
    <3>2. pace' \in [Channels -> [tokens : 0..Burst, since : 0..Burst]]
      <4>1. channelFor(sink.line) \in Channels
        BY <2>0, Channelled DEF Routed
      <4>2. [pace[channelFor(sink.line)] EXCEPT !.tokens = 0] \in [tokens : 0..Burst, since : 0..Burst]
        BY <1>0, <4>1
      <4> QED
        BY <1>0, <2>2, <4>1, <4>2
    <3>3. TypeOK'
      BY <2>0, <2>2, <3>1, <3>2 DEF TypeOK, RingTypeOK, SinkType
    <3>4. Routed'
      BY <2>0, <2>2, <3>1 DEF Routed
    <3> QED
      BY <3>3, <3>4
  <2> QED
    BY <1>2, <2>1, <2>2 DEF Answer
<1>3. CASE Again
  <2>1. /\ sink' \in SinkType /\ sink'.due = sink.due /\ sink'.line = sink.line /\ sink.at = "again"
        /\ UNCHANGED <<buf, next, full, std, stop, emits, queue, muted, pace, notes, calls, alone>>
    BY <1>0, <1>3 DEF Again, SinkType, ringVars
  <2> QED
    BY <2>1 DEF TypeOK, RingTypeOK, SinkType, Routed
<1>4. CASE Tick
  <2>1. UNCHANGED <<buf, next, full, std, stop, emits, queue, sink, notes>>
    BY <1>4 DEF Tick, ringVars
  <2>2. muted' \in [Lines -> MutedType] /\ \A l \in Lines : muted'[l].on => muted[l].on
    <3>1. ASSUME NEW l \in Lines
          PROVE  [muted[l] EXCEPT !.age = Least(Window, @ + 1)] \in MutedType
      <4>1. muted[l] \in MutedType /\ Least(Window, muted[l].age + 1) \in 0..Window
        BY <1>0 DEF MutedType, Least
      <4> QED
        BY <4>1 DEF MutedType
    <3> QED
      BY <1>0, <1>4, <3>1 DEF Tick, MutedType
  <2>3. pace' \in [Channels -> [tokens : 0..Burst, since : 0..Burst]]
    <3>1. ASSUME NEW c \in Channels
          PROVE  [pace[c] EXCEPT !.since = Least(Burst, @ + 1)] \in [tokens : 0..Burst, since : 0..Burst]
      BY <1>0 DEF Least
    <3> QED
      BY <1>4, <3>1 DEF Tick
  <2>4. alone' \in [Lines -> 0..Window]
    BY <1>0, <1>4 DEF Tick, Least, TypeOK
  <2>5. TypeOK'
    BY <2>1, <2>2, <2>3, <2>4 DEF TypeOK, RingTypeOK, MutedType
  <2>6. Routed'
    BY <2>1, <2>2 DEF Routed
  <2> QED
    BY <2>5, <2>6
<1> QED
  BY <1>1, <1>2, <1>3, <1>4

LEMMA TypeStep == TypeOK /\ Routed /\ [Next]_vars => TypeOK' /\ Routed'
<1> SUFFICES ASSUME TypeOK, Routed, [Next]_vars
             PROVE  TypeOK' /\ Routed'
  OBVIOUS
<1>1. CASE UNCHANGED vars
  BY <1>1 DEF vars, ringVars, logVars, TypeOK, RingTypeOK, Routed
<1>2. CASE Next
  BY <1>2, TypeEmit, TypeDispatch, TypeSweep, TypeTurn DEF Next, Working
<1> QED
  BY <1>1, <1>2

\* Type correctness, with lines, channels and queues of any number and size.
THEOREM TypesHold == Spec => []TypeOK
<1>1. Init => TypeOK /\ Routed
  BY TypeInit
<1> QED
  BY <1>1, TypeStep, PTL DEF Spec

\* The ring is RecentLog, whatever its size and whoever logs: it holds the last records kept, in
\* order, at every moment of the logger's life (ring.go, add and recent; logger.go, emit).
THEOREM RingIsRecent == Spec => Recency
<1>1. Init => Held!Init
  <2>1. newRing => Snapshot = <<>>
    BY DEF newRing, Snapshot
  <2> QED
    BY <2>1 DEF Init, Held!Init
<1>2. TypeOK /\ [Next]_vars => [Held!Keep]_Snapshot
  <2> SUFFICES ASSUME TypeOK, [Next]_vars
               PROVE  [Held!Keep]_Snapshot
    OBVIOUS
  <2>1. ASSUME NEW r \in Kept, add(r)
        PROVE  Held!Keep
    <3>1. RingTypeOK
      BY DEF TypeOK
    <3> QED
      BY <2>1, <3>1, AddKeeps DEF Held!Keep
  <2>2. (\E r \in Kept : add(r)) \/ UNCHANGED <<buf, next, full>>
    BY DEF Next, Working, Install, Stop, Close, Emit, Enqueue, Dispatch, Summarise, Done,
       LastSweep, WaitTurn,
           Answer, Again, Sweep, SweepOf, Tick, vars, ringVars
  <2>3. UNCHANGED <<buf, next, full>> => UNCHANGED Snapshot
    BY DEF Snapshot
  <2> QED
    BY <2>1, <2>2, <2>3
<1> QED
  BY <1>1, <1>2, TypesHold, PTL DEF Spec, Recency, Held!Spec

-----------------------------------------------------------------------------
\* Nobody who begins to log finds the logger once Stop has begun.
Parted == (std = "logger" => stop = "no") /\ \A e \in Emitters : ~emits[e].late

\* A goroutine that began to log after Stop had never meets the closed queue, however many of
\* them there are (logger.go, Stop and emit).
THEOREM LatePanicsNot == Spec => []OnlyEarlyPanics
<1>1. Init => Parted
  BY DEF Init, Parted, Out
<1>2. TypeOK /\ Parted /\ [Next]_vars => Parted'
  <2> SUFFICES ASSUME TypeOK, Parted, [Next]_vars
               PROVE  Parted'
    OBVIOUS
  <2>1. ASSUME NEW e \in Emitters, NEW l \in Lines, Emit(e, l)
        PROVE  Parted'
    BY <2>1 DEF Emit, Parted, TypeOK
  <2>2. ASSUME NEW e \in Emitters, Enqueue(e)
        PROVE  Parted'
    <3>1. std' = std /\ stop' = stop
      BY <2>2 DEF Enqueue
    <3>2. \A d \in Emitters : ~emits'[d].late
      <4>1. CASE emits' = [emits EXCEPT ![e].at = "panicked"]
        BY <4>1 DEF Parted, TypeOK
      <4>2. CASE emits' = [emits EXCEPT ![e] = Out]
        BY <4>2 DEF Parted, TypeOK, Out
      <4> QED
        BY <2>2, <4>1, <4>2 DEF Enqueue
    <3> QED
      BY <3>1, <3>2 DEF Parted
  <2>3. CASE Install \/ Stop \/ Close
    BY <2>3 DEF Install, Stop, Close, Parted
  <2>4. CASE Working \/ Sweep \/ Tick \/ UNCHANGED vars
    BY <2>4 DEF Parted, Working, Dispatch, Summarise, Done, LastSweep, WaitTurn, Answer, Again,
       Sweep, SweepOf,
                Tick, vars, logVars
  <2> QED
    BY <2>1, <2>2, <2>3, <2>4 DEF Next
<1>3. Parted => OnlyEarlyPanics
  BY DEF Parted, OnlyEarlyPanics
<1> QED
  BY <1>1, <1>2, <1>3, TypesHold, PTL DEF Spec

-----------------------------------------------------------------------------
Busy == sink.at \in {"turn", "call", "again"}
Ended == sink.forced \/ sink.at = "done"

\* After the last sweep has begun there is nothing more to come.
Drained == (Ended => queue = <<>> /\ stop = "closed") /\ (sink.at = "done" => sink.due = {})

\* Until then a line that went out by itself is muted for a window, and a sweep works on windows
\* that have closed.
Muted ==
  ~Ended =>
    /\ \A l \in Lines : alone[l] >= Window \/ (muted[l].on /\ muted[l].age <= alone[l])
    /\ \A l \in sink.due : muted[l].age >= Window
    /\ Busy /\ sink.more => muted[sink.line].age >= Window /\ sink.line \notin sink.due

WInv == Drained /\ Muted

LEMMA WindowStep == TypeOK /\ Routed /\ WInv /\ [Next]_vars => WInv'
<1> SUFFICES ASSUME TypeOK, Routed, WInv, [Next]_vars
             PROVE  WInv'
  OBVIOUS
<1> USE LogsAssumption
<1>0. /\ muted \in [Lines -> MutedType] /\ sink \in SinkType /\ alone \in [Lines -> 0..Window]
      /\ Window \in Nat
  BY DEF TypeOK, MutedType, SinkType
<1>1. CASE Install \/ Stop \/ Close \/ (\E e \in Emitters : \E l \in Lines : Emit(e, l)) \/ UNCHANGED vars
  BY <1>1 DEF Install, Stop, Close, Emit, vars, logVars, WInv, Drained, Muted, Ended, Busy
<1>2. ASSUME NEW e \in Emitters, Enqueue(e)
      PROVE  WInv'
  BY <1>2 DEF Enqueue, WInv, Drained, Muted, Ended, Busy
<1>3. CASE Dispatch
  <2> DEFINE l == notes[Head(queue)].line
  <2>1. l \in Lines
    <3>1. queue # <<>> /\ queue \in Seq(1..MaxNotes) /\ notes \in Seq(Notes)
      BY <1>3 DEF Dispatch, TypeOK
    <3>2. Head(queue) \in DOMAIN notes
      BY <3>1 DEF Routed
    <3>3. notes[Head(queue)] \in Notes
      BY <3>1, <3>2, ElementOfSeq
    <3> QED
      BY <3>3 DEF Notes
  <2>2. sink = Free /\ ~Ended /\ sink'.due = {} /\ sink'.forced = FALSE /\ sink'.at # "done" /\ sink'.more = FALSE
    <3>1. sink = Free /\ ~Ended
      BY <1>3 DEF Dispatch, Selecting, Free, Ended
    <3>2. sink' = Free \/ sink' = [Free EXCEPT !.at = "turn", !.line = l]
      BY <1>3, <3>1 DEF Dispatch
    <3>3. CASE sink' = Free
      BY <3>1, <3>3 DEF Free
    <3>4. CASE sink' = [Free EXCEPT !.at = "turn", !.line = l]
      BY <3>1, <3>4 DEF Free
    <3> QED
      BY <3>2, <3>3, <3>4
  <2> HIDE DEF l
  <2>3. CASE muted[l].on /\ muted[l].age < Window
    <3>1. muted' = [muted EXCEPT ![l].count = @ + 1] /\ alone' = alone
      BY <1>3, <2>3 DEF Dispatch, l
    <3>2. \A k \in Lines : muted'[k].on = muted[k].on /\ muted'[k].age = muted[k].age
      BY <1>0, <3>1 DEF MutedType
    <3> QED
      BY <2>2, <3>1, <3>2 DEF WInv, Drained, Muted, Ended, Busy
  <2>4. CASE ~(muted[l].on /\ muted[l].age < Window)
    <3>1. /\ muted' = IF Window > 0 THEN [muted EXCEPT ![l] = [Quiet EXCEPT !.on = TRUE]] ELSE muted
          /\ alone' = [alone EXCEPT ![l] = 0]
      BY <1>3, <2>4 DEF Dispatch, l
    <3>2. \A k \in Lines : alone'[k] >= Window \/ (muted'[k].on /\ muted'[k].age <= alone'[k])
      BY <1>0, <2>1, <2>2, <3>1 DEF WInv, Muted, Quiet
    <3> QED
      BY <2>2, <3>2 DEF WInv, Drained, Muted, Ended, Busy
  <2> QED
    BY <2>3, <2>4
<1>4. CASE Sweep
  <2> DEFINE closed == {l \in Lines : muted[l].on /\ muted[l].age >= Window}
  <2>1. /\ sink = Free /\ ~Ended /\ alone' = alone
        /\ sink' = [Free EXCEPT !.due = {l \in closed : muted[l].count > 0}, !.forced = FALSE]
        /\ muted' = [l \in Lines |-> IF l \in closed /\ muted[l].count = 0 THEN Quiet ELSE muted[l]]
    BY <1>4 DEF Sweep, SweepOf, Selecting, Free, Ended
  <2>2. sink'.due = {l \in closed : muted[l].count > 0} /\ sink'.forced = FALSE /\ sink'.at = "free"
    BY <2>1 DEF Free
  <2>3. \A l \in Lines : alone[l] >= Window \/ (muted[l].on /\ muted[l].age <= alone[l])
    BY <2>1 DEF WInv, Muted
  <2>4. \A l \in Lines : alone'[l] >= Window \/ (muted'[l].on /\ muted'[l].age <= alone'[l])
    BY <1>0, <2>1, <2>3 DEF MutedType
  <2>5. \A l \in sink'.due : muted'[l].age >= Window
    BY <1>0, <2>1, <2>2 DEF MutedType
  <2> QED
    BY <2>2, <2>4, <2>5 DEF WInv, Drained, Muted, Ended, Busy
<1>5. CASE LastSweep
  <2>1. sink' = [Free EXCEPT !.due = {l \in {k \in Lines : muted[k].on} : muted[l].count > 0}, !.forced = TRUE]
        /\ queue' = <<>> /\ stop' = "closed"
    BY <1>5 DEF LastSweep, SweepOf
  <2>2. sink'.forced = TRUE /\ sink'.at = "free"
    BY <2>1 DEF Free
  <2> QED
    BY <2>1, <2>2 DEF WInv, Drained, Muted, Ended
<1>6. CASE Summarise
  <2>1. PICK l \in sink.due :
          sink' = [sink EXCEPT !.at = "turn", !.line = l, !.more = TRUE, !.attempt = 0, !.due = @ \ {l}]
    BY <1>6 DEF Summarise
  <2>2. sink'.due \subseteq sink.due \ {l} /\ sink'.line = l /\ sink'.forced = sink.forced /\ sink'.at = "turn" /\ sink.at = "free"
    BY <1>0, <1>6, <2>1 DEF SinkType, Summarise
  <2> QED
    BY <1>6, <2>1, <2>2 DEF Summarise, WInv, Drained, Muted, Ended, Busy
<1>7. CASE Done
  <2>1. sink.forced /\ sink'.at = "done" /\ sink'.due = {} /\ queue' = queue /\ stop' = stop
    BY <1>7 DEF Done, Free
  <2> QED
    BY <2>1 DEF WInv, Drained, Muted, Ended
<1>8. CASE WaitTurn \/ Again
  <2>1. /\ Busy /\ Busy' /\ sink'.more = sink.more /\ sink'.line = sink.line /\ sink'.due = sink.due
        /\ sink'.forced = sink.forced /\ UNCHANGED <<queue, stop, muted, alone>>
    BY <1>0, <1>8 DEF WaitTurn, Again, SinkType, Busy
  <2> QED
    BY <2>1 DEF WInv, Drained, Muted, Ended, Busy
<1>9. CASE Answer
  <2>0. sink.at = "call" /\ UNCHANGED <<queue, stop, alone>>
    BY <1>9 DEF Answer
  <2>1. ASSUME NEW f \in {"told", "failed"}, Sent(f)
        PROVE  WInv'
    <3>1. /\ muted' = IF sink.more THEN [muted EXCEPT ![sink.line] = Quiet] ELSE muted
          /\ sink'.due = sink.due /\ sink'.forced = sink.forced /\ sink'.at = "free"
      BY <2>1 DEF Sent, Free
    <3>2. CASE Ended
      BY <2>0, <3>1, <3>2 DEF WInv, Drained, Muted, Ended
    <3>3. CASE ~Ended
      <4>1. /\ \A l \in Lines : alone[l] >= Window \/ (muted[l].on /\ muted[l].age <= alone[l])
            /\ \A l \in sink.due : muted[l].age >= Window
            /\ sink.more => muted[sink.line].age >= Window /\ sink.line \notin sink.due
        BY <2>0, <3>3 DEF WInv, Muted, Busy
      <4>2. sink.line \in Lines /\ sink.due \subseteq Lines
        BY <1>0, <2>0 DEF Routed, SinkType
      <4>3. \A l \in Lines : alone'[l] >= Window \/ (muted'[l].on /\ muted'[l].age <= alone'[l])
        BY <1>0, <2>0, <3>1, <4>1, <4>2 DEF MutedType
      <4>4. \A l \in sink.due : muted'[l].age >= Window
        BY <1>0, <3>1, <4>1, <4>2
      <4> QED
        BY <2>0, <3>1, <3>3, <4>3, <4>4 DEF WInv, Drained, Muted, Ended, Busy
    <3> QED
      BY <3>2, <3>3
  <2>2. ASSUME sink' = [sink EXCEPT !.at = "again", !.attempt = 1], UNCHANGED muted
        PROVE  WInv'
    <3>1. /\ Busy /\ Busy' /\ sink'.more = sink.more /\ sink'.line = sink.line /\ sink'.due = sink.due
          /\ sink'.forced = sink.forced /\ UNCHANGED <<queue, stop, muted, alone>>
      BY <1>0, <2>0, <2>2 DEF SinkType, Busy
    <3> QED
      BY <3>1 DEF WInv, Drained, Muted, Ended, Busy
  <2> QED
    BY <1>9, <2>1, <2>2 DEF Answer
<1>10. CASE Tick
  <2>1. UNCHANGED <<queue, stop, sink>>
    BY <1>10 DEF Tick
  <2>2. \A l \in Lines : alone[l] >= Window => alone'[l] >= Window
    BY <1>0, <1>10 DEF Tick, Least
  <2>3. \A l \in Lines : muted[l].age >= Window => muted'[l].age >= Window
    BY <1>0, <1>10 DEF Tick, Least, MutedType
  <2>4. \A l \in Lines : muted[l].on /\ muted[l].age <= alone[l] => muted'[l].on /\ muted'[l].age <= alone'[l]
    BY <1>0, <1>10 DEF Tick, Least, MutedType
  <2> QED
    BY <1>0, <2>1, <2>2, <2>3, <2>4 DEF WInv, Drained, Muted, Ended, Busy, SinkType, Routed
<1> QED
  BY <1>1, <1>2, <1>3, <1>4, <1>5, <1>6, <1>7, <1>8, <1>9, <1>10 DEF Next, Working

LEMMA WindowHolds == Spec => []WInv
<1>1. Init => WInv
  <2> SUFFICES ASSUME Init PROVE WInv
    OBVIOUS
  <2>1. sink.at = "free" /\ sink.due = {} /\ sink.forced = FALSE /\ \A l \in Lines : alone[l] = Window
    BY DEF Init, Free
  <2> QED
    BY <2>1, LogsAssumption DEF WInv, Drained, Muted, Ended, Busy
<1>2. Init => TypeOK /\ Routed
  BY TypeInit
<1> QED
  BY <1>1, <1>2, TypeStep, WindowStep, PTL DEF Spec

\* No line goes out by itself twice in a window, for any window, rate and answers of Telegram
\* (telegram.go, dispatch and sweep).
THEOREM WindowKept == Spec => OncePerWindow
<1>1. TypeOK /\ WInv /\ [Next]_vars =>
        [\A l \in Lines : (sink = Free /\ sink'.at = "turn" /\ sink'.line = l) => alone[l] >= Window]_vars
  <2> SUFFICES ASSUME TypeOK, WInv, Next, NEW l \in Lines, sink = Free, sink'.at = "turn", sink'.line = l
               PROVE  alone[l] >= Window
    OBVIOUS
  <2>1. sink.at = "free" /\ sink.due = {} /\ ~Ended
    BY DEF Free, Ended
  <2>2. Dispatch
    BY <2>1 DEF Next, Working, Install, Stop, Close, Emit, Enqueue, Summarise, Done, LastSweep,
       WaitTurn, Answer,
                Again, Sweep, SweepOf, Tick, Free
  <2>3. l = notes[Head(queue)].line /\ ~(muted[l].on /\ muted[l].age < Window)
    <3>1. CASE sink' = Free
      BY <2>1, <3>1 DEF Free
    <3>2. CASE sink' # Free
      BY <2>2, <3>2 DEF Dispatch, Free
    <3> QED
      BY <3>1, <3>2
  <2>4. alone[l] >= Window \/ (muted[l].on /\ muted[l].age <= alone[l])
    BY <2>1 DEF WInv, Muted
  <2> QED
    BY <2>3, <2>4, LogsAssumption DEF TypeOK
<1> QED
  BY <1>1, TypesHold, WindowHolds, PTL DEF Spec, OncePerWindow

-----------------------------------------------------------------------------
\* Who will settle a note: the queue, the send under way, or the window that counted it, and once
\* the last sweep has begun, that sweep.
Tended ==
  /\ \A i \in DOMAIN notes :
       LET l == notes[i].line
       IN /\ notes[i].fate = "queued" => \E j \in DOMAIN queue : queue[j] = i
          /\ notes[i].fate = "sending" => Busy /\ ~sink.more /\ l = sink.line
          /\ notes[i].fate = "counted" =>
               muted[l].count > 0 /\ (Ended => l \in sink.due \/ (Busy /\ sink.more /\ l = sink.line))
  /\ \A l \in Lines : muted[l].count > 0 => muted[l].on

LEMMA TendedStep == TypeOK /\ Routed /\ WInv /\ Tended /\ [Next]_vars => Tended'
<1> SUFFICES ASSUME TypeOK, Routed, WInv, Tended, [Next]_vars
             PROVE  Tended'
  OBVIOUS
<1> USE LogsAssumption
<1>0. /\ muted \in [Lines -> MutedType] /\ sink \in SinkType /\ notes \in Seq(Notes)
      /\ Len(notes) \in Nat /\ DOMAIN notes = 1..Len(notes) /\ queue \in Seq(1..MaxNotes)
      /\ \A i \in DOMAIN notes : notes[i] \in Notes /\ notes[i].line \in Lines
  <2>1. notes \in Seq(Notes)
    BY DEF TypeOK
  <2>2. \A i \in DOMAIN notes : notes[i] \in Notes
    BY <2>1, ElementOfSeq
  <2> QED
    BY <2>1, <2>2 DEF TypeOK, MutedType, SinkType, Notes
<1>1. CASE Install \/ Stop \/ Close \/ UNCHANGED vars
  BY <1>1 DEF Install, Stop, Close, vars, logVars, Tended, Ended, Busy
<1>2. ASSUME NEW e \in Emitters, NEW l \in Lines, Emit(e, l)
      PROVE  Tended'
  <2>1. PICK n \in Notes : n.fate \in {"emitted", "kept"} /\ notes' = Append(notes, n)
    <3>1. [line |-> l, fate |-> IF Enabled(l) THEN "emitted" ELSE "kept"] \in Notes
      BY DEF Notes, Fates
    <3> QED
      BY <1>2, <3>1 DEF Emit
  <2>2. \A i \in DOMAIN notes' : notes'[i] = n \/ (i \in DOMAIN notes /\ notes'[i] = notes[i])
    BY <1>0, <2>1, AppendProperties
  <2>3. UNCHANGED <<queue, muted, sink>>
    BY <1>2 DEF Emit
  <2> QED
    BY <2>1, <2>2, <2>3 DEF Tended, Ended, Busy
<1>3. ASSUME NEW e \in Emitters, Enqueue(e)
      PROVE  Tended'
  <2> DEFINE i == emits[e].note
  <2>1. UNCHANGED <<muted, sink>>
    BY <1>3 DEF Enqueue
  <2>2. CASE stop = "closed"
    BY <1>3, <2>1, <2>2 DEF Enqueue, Tended, Ended, Busy
  <2>3. CASE stop # "closed"
    <3>1. i \in DOMAIN notes
      BY <1>3 DEF Enqueue, Routed
    <3>2. PICK f \in {"queued", "dropped"} :
            /\ notes' = [notes EXCEPT ![i].fate = f]
            /\ queue' = (IF f = "queued" THEN Append(queue, i) ELSE queue)
      BY <1>3, <2>3 DEF Enqueue
    <3> HIDE DEF i
    <3>3. /\ DOMAIN notes' = DOMAIN notes /\ \A k \in DOMAIN notes : k # i => notes'[k] = notes[k]
          /\ notes'[i].fate = f
      BY <1>0, <3>1, <3>2 DEF Notes
    <3>4. /\ \A j \in DOMAIN queue : j \in DOMAIN queue' /\ queue'[j] = queue[j]
          /\ f = "queued" => \E j \in DOMAIN queue' : queue'[j] = i
      <4>1. i \in 1..MaxNotes
        BY <1>0, <3>1 DEF TypeOK
      <4>2. CASE f = "queued"
        <5>1. /\ DOMAIN queue' = 1..Len(queue) + 1 /\ queue'[Len(queue) + 1] = i /\ Len(queue) \in Nat
              /\ DOMAIN queue = 1..Len(queue) /\ \A j \in 1..Len(queue) : queue'[j] = queue[j]
          BY <1>0, <3>2, <4>1, <4>2
        <5>2. Len(queue) + 1 \in DOMAIN queue'
          BY <5>1
        <5> QED
          BY <5>1, <5>2
      <4>3. CASE f # "queued"
        BY <3>2, <4>3
      <4> QED
        BY <4>2, <4>3
    <3> QED
      BY <2>1, <3>1, <3>2, <3>3, <3>4 DEF Tended, Ended, Busy
  <2> QED
    BY <2>2, <2>3
<1>4. CASE Dispatch
  <2> DEFINE i == Head(queue)
             l == notes[i].line
  <2>1. /\ queue # <<>> /\ queue' = Tail(queue) /\ sink.at = "free" /\ sink.due = {} /\ ~Ended
        /\ i = queue[1] /\ i \in DOMAIN notes /\ l \in Lines
    <3>1. queue # <<>> /\ queue' = Tail(queue) /\ sink.at = "free" /\ sink.due = {} /\ ~Ended
      BY <1>4 DEF Dispatch, Selecting, Free, Ended
    <3>2. i = queue[1] /\ i \in DOMAIN notes
      BY <1>0, <3>1 DEF Routed
    <3> QED
      BY <1>0, <3>1, <3>2
  <2>2. \A j \in DOMAIN queue : j = 1 \/ (j - 1 \in DOMAIN queue' /\ queue'[j - 1] = queue[j])
    BY <1>0, <2>1
  <2>3. \A k \in DOMAIN notes : notes[k].fate # "sending"
    BY <2>1 DEF Tended, Busy
  <2>4. CASE muted[l].on /\ muted[l].age < Window
    <3>1. /\ muted' = [muted EXCEPT ![l].count = @ + 1] /\ sink' = sink
          /\ notes' = [notes EXCEPT ![i].fate = "counted"]
      BY <1>4, <2>4 DEF Dispatch
    <3>2. muted[l].count \in Nat /\ muted'[l].count = muted[l].count + 1 /\ muted'[l].on = muted[l].on
      BY <1>0, <2>1, <3>1 DEF MutedType
    <3>3. \A k \in Lines : k # l => muted'[k] = muted[k]
      BY <1>0, <3>1
    <3>4. /\ DOMAIN notes' = DOMAIN notes /\ \A k \in DOMAIN notes : k # i => notes'[k] = notes[k]
          /\ notes'[i].fate = "counted" /\ notes'[i].line = l
      BY <1>0, <2>1, <3>1 DEF Notes
    <3> HIDE DEF i, l
    <3>5. ASSUME NEW k \in DOMAIN notes', notes'[k].fate = "queued"
          PROVE  \E j \in DOMAIN queue' : queue'[j] = k
      <4>1. k \in DOMAIN notes /\ k # i /\ notes[k].fate = "queued"
        BY <3>4, <3>5
      <4>2. PICK j \in DOMAIN queue : queue[j] = k
        BY <4>1 DEF Tended
      <4>3. j # 1
        BY <2>1, <4>1, <4>2
      <4> QED
        BY <2>2, <4>2, <4>3
    <3>6. \A k \in DOMAIN notes' : notes'[k].fate = "sending" => FALSE
      BY <2>3, <3>4
    <3>7. ASSUME NEW k \in DOMAIN notes', notes'[k].fate = "counted"
          PROVE  muted'[notes'[k].line].count > 0
      <4>1. CASE notes'[k].line = l
        BY <3>2, <4>1
      <4>2. CASE notes'[k].line # l
        <5>1. k \in DOMAIN notes /\ notes'[k] = notes[k]
          BY <3>4, <4>2
        <5>2. muted[notes[k].line].count > 0 /\ notes[k].line \in Lines
          BY <1>0, <3>7, <5>1 DEF Tended
        <5> QED
          BY <3>3, <4>2, <5>1, <5>2
      <4> QED
        BY <4>1, <4>2
    <3>8. \A k \in Lines : muted'[k].count > 0 => muted'[k].on
      BY <2>4, <3>2, <3>3 DEF Tended
    <3> QED
      BY <2>1, <3>1, <3>5, <3>6, <3>7, <3>8 DEF Tended, Ended, Busy
  <2>5. CASE ~(muted[l].on /\ muted[l].age < Window)
    <3> DEFINE b == Become(l, "counted", "lost")
    <3>1. /\ muted' = IF Window > 0 THEN [muted EXCEPT ![l] = [Quiet EXCEPT !.on = TRUE]] ELSE muted
          /\ sink' = [Free EXCEPT !.at = "turn", !.line = l]
          /\ notes' = [b EXCEPT ![i].fate = "sending"]
      BY <1>4, <2>5 DEF Dispatch
    <3>2. sink'.at = "turn" /\ sink'.line = l /\ sink'.more = FALSE /\ sink'.forced = FALSE
      BY <3>1 DEF Free
    <3>3. /\ b \in Seq(Notes) /\ Len(b) = Len(notes) /\ DOMAIN b = DOMAIN notes
          /\ \A k \in DOMAIN notes :
               /\ b[k].line = notes[k].line
               /\ b[k].fate = IF notes[k].line = l /\ notes[k].fate = "counted" THEN "lost" ELSE notes[k].fate
      <4>1. "lost" \in Fates
        BY DEF Fates
      <4> HIDE DEF l
      <4> QED
        BY <1>0, <4>1, BecomeKeeps
    <3>4. b[i] \in Notes
      BY <2>1, <3>3, ElementOfSeq
    <3> HIDE DEF b, l, i
    <3>5. /\ DOMAIN notes' = DOMAIN notes /\ \A k \in DOMAIN notes : k # i => notes'[k] = b[k]
          /\ notes'[i].fate = "sending" /\ notes'[i].line = b[i].line
      BY <2>1, <3>1, <3>3, <3>4 DEF Notes
    <3>6. \A k \in Lines : k # l => muted'[k] = muted[k]
      BY <1>0, <3>1
    <3>7. \A k \in Lines : muted'[k].count > 0 => muted'[k].on
      <4>1. [Quiet EXCEPT !.on = TRUE].on = TRUE
        BY DEF Quiet
      <4> QED
        BY <1>0, <3>1, <4>1 DEF Tended
    <3>8. ASSUME NEW k \in DOMAIN notes', notes'[k].fate = "queued"
          PROVE  \E j \in DOMAIN queue' : queue'[j] = k
      <4>1. k \in DOMAIN notes /\ k # i /\ notes[k].fate = "queued"
        BY <3>3, <3>5, <3>8
      <4>2. PICK j \in DOMAIN queue : queue[j] = k
        BY <4>1 DEF Tended
      <4>3. j # 1
        BY <2>1, <4>1, <4>2
      <4> QED
        BY <2>2, <4>2, <4>3
    <3>9. \A k \in DOMAIN notes' : notes'[k].fate = "sending" => notes'[k].line = l
      BY <2>3, <3>3, <3>5 DEF l
    <3>10. \A k \in DOMAIN notes' : notes'[k].fate = "counted" => muted'[notes'[k].line].count > 0
      <4> SUFFICES ASSUME NEW k \in DOMAIN notes', notes'[k].fate = "counted"
                   PROVE  muted'[notes'[k].line].count > 0
        OBVIOUS
      <4>1. k \in DOMAIN notes /\ k # i /\ notes'[k] = b[k]
        BY <3>3, <3>5
      <4>2. b[k].line = notes[k].line /\ notes[k].fate = "counted" /\ notes[k].line # l
        BY <3>3, <4>1
      <4>3. notes[k].line \in Lines
        BY <1>0, <4>1, ElementOfSeq DEF Notes
      <4>4. muted[notes[k].line].count > 0
        BY <4>1, <4>2 DEF Tended
      <4> QED
        BY <3>6, <4>1, <4>2, <4>3, <4>4
    <3> QED
      BY <3>2, <3>7, <3>8, <3>9, <3>10 DEF Tended, Ended, Busy
  <2> QED
    BY <2>4, <2>5
<1>5. ASSUME NEW closed \in SUBSET {l \in Lines : muted[l].on}, NEW forced \in BOOLEAN, SweepOf(closed, forced),
             forced => closed = {l \in Lines : muted[l].on}, sink = Free
      PROVE  Tended'
  <2>1. /\ muted' = [l \in Lines |-> IF l \in closed /\ muted[l].count = 0 THEN Quiet ELSE muted[l]]
        /\ sink' = [Free EXCEPT !.due = {l \in closed : muted[l].count > 0}, !.forced = forced]
        /\ UNCHANGED <<queue, notes>>
    BY <1>5 DEF SweepOf
  <2>2. /\ sink'.due = {l \in closed : muted[l].count > 0} /\ sink'.forced = forced /\ sink'.at = "free"
        /\ sink.at = "free"
    BY <1>5, <2>1 DEF Free
  <2>3. \A l \in Lines : muted[l].count > 0 => muted'[l] = muted[l]
    BY <2>1
  <2>4. \A l \in Lines : muted'[l].count > 0 => muted'[l].on
    BY <1>0, <2>1 DEF Tended, Quiet
  <2> QED
    BY <1>0, <1>5, <2>1, <2>2, <2>3, <2>4 DEF Tended, Ended, Busy
<1>6. CASE Sweep
  BY <1>5, <1>6 DEF Sweep, Selecting
<1>7. CASE LastSweep
  BY <1>5, <1>7 DEF LastSweep, Selecting
<1>8. CASE Summarise
  <2>1. PICK l \in sink.due :
          sink' = [sink EXCEPT !.at = "turn", !.line = l, !.more = TRUE, !.attempt = 0, !.due = @ \ {l}]
    BY <1>8 DEF Summarise
  <2>2. /\ sink'.due = sink.due \ {l} /\ sink'.line = l /\ sink'.forced = sink.forced /\ sink'.at = "turn"
        /\ sink'.more = TRUE /\ sink.at = "free"
    BY <1>0, <1>8, <2>1 DEF SinkType, Summarise
  <2>3. UNCHANGED <<queue, notes, muted>>
    BY <1>8 DEF Summarise
  <2> QED
    BY <2>2, <2>3 DEF Tended, Ended, Busy
<1>9. CASE Done
  <2>1. /\ sink.forced /\ sink.due = {} /\ sink.at = "free" /\ sink'.at = "done"
        /\ UNCHANGED <<queue, notes, muted>>
    BY <1>9 DEF Done, Free
  <2> QED
    BY <2>1 DEF Tended, Ended, Busy
<1>10. CASE WaitTurn \/ Again
  <2>1. /\ Busy /\ Busy' /\ sink'.more = sink.more /\ sink'.line = sink.line /\ sink'.due = sink.due
        /\ sink'.forced = sink.forced /\ sink'.at # "done" /\ UNCHANGED <<queue, notes, muted>>
    BY <1>0, <1>10 DEF WaitTurn, Again, SinkType, Busy
  <2> QED
    BY <2>1 DEF Tended, Ended, Busy
<1>11. CASE Answer
  <2>0. sink.at = "call" /\ UNCHANGED queue
    BY <1>11 DEF Answer
  <2>1. ASSUME NEW f \in {"told", "failed"}, Sent(f)
        PROVE  Tended'
    <3> DEFINE from == IF sink.more THEN "counted" ELSE "sending"
    <3>1. /\ notes' = Become(sink.line, from, f)
          /\ muted' = IF sink.more THEN [muted EXCEPT ![sink.line] = Quiet] ELSE muted
      BY <2>1 DEF Sent
    <3>2. sink'.due = sink.due /\ sink'.forced = sink.forced /\ sink'.at = "free"
      BY <2>1 DEF Sent, Free
    <3> HIDE DEF from
    <3>3. /\ DOMAIN notes' = DOMAIN notes
          /\ \A k \in DOMAIN notes :
               /\ notes'[k].line = notes[k].line
               /\ notes'[k].fate = IF notes[k].line = sink.line /\ notes[k].fate = from THEN f ELSE notes[k].fate
      <4>1. f \in Fates
        BY DEF Fates
      <4> QED
        BY <1>0, <3>1, <4>1, BecomeKeeps
    <3>4. \A l \in Lines : l # sink.line => muted'[l] = muted[l]
      BY <1>0, <3>1
    <3>5. \A l \in Lines : muted'[l].count > 0 => muted'[l].on
      BY <1>0, <3>1, <3>4 DEF Tended, Quiet
    <3>6. \A k \in DOMAIN notes' : notes'[k].fate = "queued" => \E j \in DOMAIN queue' : queue'[j] = k
      BY <2>0, <3>3 DEF Tended
    <3>7. \A k \in DOMAIN notes' : notes'[k].fate # "sending"
      BY <3>3 DEF Tended, from
    <3>8. \A k \in DOMAIN notes' : notes'[k].fate = "counted" =>
            muted'[notes'[k].line].count > 0 /\ (Ended => notes'[k].line \in sink.due)
      BY <1>0, <2>0, <3>1, <3>3, <3>4, SMTT(30) DEF Tended, from, Busy
    <3> QED
      BY <2>0, <3>2, <3>5, <3>6, <3>7, <3>8 DEF Tended, Ended, Busy
  <2>2. ASSUME sink' = [sink EXCEPT !.at = "again", !.attempt = 1], UNCHANGED <<muted, notes>>
        PROVE  Tended'
    <3>1. /\ Busy /\ Busy' /\ sink'.more = sink.more /\ sink'.line = sink.line /\ sink'.due = sink.due
          /\ sink'.forced = sink.forced /\ sink'.at # "done" /\ UNCHANGED queue
      BY <1>0, <2>0, <2>2 DEF SinkType, Busy
    <3> QED
      BY <2>2, <3>1 DEF Tended, Ended, Busy
  <2> QED
    BY <1>11, <2>1, <2>2 DEF Answer
<1>12. CASE Tick
  <2>1. UNCHANGED <<queue, sink, notes>>
    BY <1>12 DEF Tick
  <2>2. \A l \in Lines : muted'[l].count = muted[l].count /\ muted'[l].on = muted[l].on
    BY <1>0, <1>12 DEF Tick, MutedType
  <2> QED
    BY <1>0, <2>1, <2>2, ZenonT(30) DEF Tended, Ended, Busy
<1> QED
  BY <1>1, <1>2, <1>3, <1>4, <1>6, <1>7, <1>8, <1>9, <1>10, <1>11, <1>12 DEF Next, Working

\* Stop returns with nothing queued, on its way or counted, for any number of goroutines, lines and
\* places in the queue (telegram.go, Stop, run and sweep).
THEOREM StopLeavesNothing == Spec => []StopFlushes
<1>1. Init => TypeOK /\ Routed
  BY TypeInit
<1>2. Init => Tended
  <2> SUFFICES ASSUME Init PROVE Tended
    OBVIOUS
  <2>1. DOMAIN notes = {} /\ \A l \in Lines : muted[l].count = 0
    BY DEF Init, Quiet
  <2> QED
    BY <2>1 DEF Tended
<1>3. WInv /\ Tended => StopFlushes
  <2> SUFFICES ASSUME WInv, Tended, sink.at = "done", NEW i \in DOMAIN notes
               PROVE  ~Unsettled(i)
    BY DEF StopFlushes
  <2>1. queue = <<>> /\ ~Busy /\ Ended /\ sink.due = {}
    BY DEF WInv, Drained, Ended, Busy
  <2> QED
    BY <2>1 DEF Tended, Unsettled
<1> QED
  BY <1>1, <1>2, <1>3, TypeStep, TendedStep, WindowHolds, PTL DEF Spec

-----------------------------------------------------------------------------
\* A note that waits for the queue, or in it, does so once, and is not counted; without a
\* window nothing is.
Fated ==
  /\ \A j \in DOMAIN queue : notes[queue[j]].fate = "queued"
  /\ \A j, k \in DOMAIN queue : queue[j] = queue[k] => j = k
  /\ \A e \in Emitters : emits[e].at = "sink" => notes[emits[e].note].fate = "emitted"
  /\ \A e, g \in Emitters :
       emits[e].at = "sink" /\ emits[g].at = "sink" /\ emits[e].note = emits[g].note => e = g
  /\ Window = 0 => \A l \in Lines : muted[l].count = 0

Counted(ns, l) == {i \in DOMAIN ns : ns[i].line = l /\ ns[i].fate = "counted"}

LEMMA NoteTypes ==
  ASSUME TypeOK
  PROVE  /\ notes \in Seq(Notes) /\ DOMAIN notes = 1..Len(notes) /\ Len(notes) \in Nat
         /\ \A i \in DOMAIN notes : notes[i] \in Notes /\ notes[i].line \in Lines
         /\ \A l \in Lines : IsFiniteSet(Counted(notes, l))
<1>1. notes \in Seq(Notes)
  BY DEF TypeOK
<1>2. \A i \in DOMAIN notes : notes[i] \in Notes
  BY <1>1, ElementOfSeq
<1>3. DOMAIN notes = 1..Len(notes) /\ Len(notes) \in Nat
  BY <1>1
<1>4. IsFiniteSet(1..Len(notes))
  BY <1>3, FS_Interval
<1>5. \A l \in Lines : Counted(notes, l) \subseteq 1..Len(notes)
  BY <1>3 DEF Counted
<1> QED
  BY <1>1, <1>2, <1>3, <1>4, <1>5, FS_Subset DEF Notes

\* What Emit and Enqueue do to a sequence of notes.
LEMMA NoteAdded ==
  ASSUME TypeOK, NEW e \in Emitters, NEW l \in Lines, Emit(e, l)
  PROVE  /\ DOMAIN notes \subseteq DOMAIN notes' /\ Len(notes) + 1 \notin DOMAIN notes
         /\ \A i \in DOMAIN notes : notes'[i] = notes[i]
         /\ \A i \in DOMAIN notes' : i \in DOMAIN notes \/ notes'[i].fate \in {"emitted", "kept"}
         /\ Enabled(l) => notes'[Len(notes) + 1].fate = "emitted"
<1> DEFINE n == [line |-> l, fate |-> IF Enabled(l) THEN "emitted" ELSE "kept"]
<1>1. notes' = Append(notes, n)
  BY DEF Emit
<1>2. n.fate \in {"emitted", "kept"} /\ (Enabled(l) => n.fate = "emitted")
  OBVIOUS
<1> HIDE DEF n
<1> QED
  BY <1>1, <1>2, NoteTypes

LEMMA NoteQueued ==
  ASSUME TypeOK, Routed, NEW e \in Emitters, Enqueue(e), stop # "closed"
  PROVE  /\ emits[e].note \in DOMAIN notes /\ DOMAIN notes' = DOMAIN notes
         /\ \A k \in DOMAIN notes : k # emits[e].note => notes'[k] = notes[k]
         /\ notes'[emits[e].note].line = notes[emits[e].note].line
         /\ \/ /\ notes'[emits[e].note].fate = "queued"
               /\ queue' = Append(queue, emits[e].note)
            \/ /\ notes'[emits[e].note].fate = "dropped"
               /\ queue' = queue
<1>1. emits[e].note \in DOMAIN notes
  BY DEF Enqueue, Routed
<1>2. PICK f \in {"queued", "dropped"} :
        /\ notes' = [notes EXCEPT ![emits[e].note].fate = f]
        /\ queue' = (IF f = "queued" THEN Append(queue, emits[e].note) ELSE queue)
  BY DEF Enqueue
<1>3. notes[emits[e].note] \in Notes
  BY <1>1, NoteTypes
<1> QED
  BY <1>1, <1>2, <1>3 DEF Notes

\* What Dispatch does to them: the head is counted, or sent while what was counted is lost.
LEMMA NoteDispatched ==
  ASSUME TypeOK, Routed, Dispatch
  PROVE  LET i == queue[1]
             l == notes[i].line
         IN /\ 1 \in DOMAIN queue /\ i \in DOMAIN notes /\ l \in Lines
            /\ DOMAIN notes' = DOMAIN notes /\ \A k \in DOMAIN notes : notes'[k].line = notes[k].line
            /\ \/ /\ muted[l].on /\ muted[l].age < Window
                  /\ muted' = [muted EXCEPT ![l].count = @ + 1]
                  /\ notes'[i].fate = "counted"
                  /\ \A k \in DOMAIN notes : k # i => notes'[k] = notes[k]
               \/ /\ ~(muted[l].on /\ muted[l].age < Window)
                  /\ muted' = IF Window > 0 THEN [muted EXCEPT ![l] = [Quiet EXCEPT !.on = TRUE]] ELSE muted
                  /\ notes'[i].fate = "sending"
                  /\ \A k \in DOMAIN notes : k # i =>
                       notes'[k].fate = IF notes[k].line = l /\ notes[k].fate = "counted" THEN "lost"
                                        ELSE notes[k].fate
<1> DEFINE i == queue[1]
           l == notes[i].line
           b == Become(l, "counted", "lost")
<1>1. queue \in Seq(1..MaxNotes) /\ queue # <<>> /\ Head(queue) = i /\ 1 \in DOMAIN queue
  BY DEF Dispatch, TypeOK
<1>2. i \in DOMAIN notes /\ l \in Lines /\ notes[i] \in Notes
  BY <1>1, NoteTypes DEF Routed
<1>3. CASE muted[l].on /\ muted[l].age < Window
  <2>1. notes' = [notes EXCEPT ![i].fate = "counted"] /\ muted' = [muted EXCEPT ![l].count = @ + 1]
    BY <1>1, <1>3 DEF Dispatch
  <2> QED
    BY <1>1, <1>2, <1>3, <2>1 DEF Notes
<1>4. CASE ~(muted[l].on /\ muted[l].age < Window)
  <2>1. /\ notes' = [b EXCEPT ![i].fate = "sending"]
        /\ muted' = IF Window > 0 THEN [muted EXCEPT ![l] = [Quiet EXCEPT !.on = TRUE]] ELSE muted
    BY <1>1, <1>4 DEF Dispatch
  <2>2. /\ b \in Seq(Notes) /\ DOMAIN b = DOMAIN notes
        /\ \A k \in DOMAIN notes :
             /\ b[k].line = notes[k].line
             /\ b[k].fate = IF notes[k].line = l /\ notes[k].fate = "counted" THEN "lost" ELSE notes[k].fate
    <3>1. "lost" \in Fates /\ notes \in Seq(Notes)
      BY NoteTypes DEF Fates
    <3> HIDE DEF l
    <3> QED
      BY <3>1, BecomeKeeps
  <2>3. b[i] \in Notes
    BY <1>2, <2>2, ElementOfSeq
  <2> HIDE DEF b
  <2>4. DOMAIN notes' = DOMAIN notes /\ notes'[i].fate = "sending" /\ notes'[i].line = b[i].line
        /\ \A k \in DOMAIN notes : k # i => notes'[k] = b[k]
    BY <1>2, <2>1, <2>2, <2>3 DEF Notes
  <2> QED
    BY <1>1, <1>2, <1>4, <2>1, <2>2, <2>4
<1> QED
  BY <1>3, <1>4

\* What the end of a send does to them.
LEMMA NoteSent ==
  ASSUME TypeOK, NEW f \in {"told", "failed"}, Sent(f)
  PROVE  LET from == IF sink.more THEN "counted" ELSE "sending"
         IN /\ DOMAIN notes' = DOMAIN notes
            /\ \A k \in DOMAIN notes :
                 /\ notes'[k].line = notes[k].line
                 /\ notes'[k].fate = IF notes[k].line = sink.line /\ notes[k].fate = from THEN f
                                     ELSE notes[k].fate
<1>1. f \in Fates /\ notes \in Seq(Notes)
  BY NoteTypes DEF Fates
<1> QED
  BY <1>1, BecomeKeeps DEF Sent

\* Steps that leave the notes as they are, and no window with another count.
Still == UNCHANGED <<notes, queue, emits>> /\ \A l \in Lines : muted'[l].count = muted[l].count

LEMMA StillSteps ==
  ASSUME TypeOK,
         \/ Install \/ Stop \/ Close \/ UNCHANGED vars
         \/ Sweep \/ LastSweep \/ Summarise \/ Done \/ WaitTurn \/ Again \/ Tick
  PROVE  Still
<1>1. muted \in [Lines -> MutedType]
  BY DEF TypeOK, MutedType
<1>2. ASSUME NEW closed \in SUBSET Lines, NEW forced, SweepOf(closed, forced)
      PROVE  Still
  BY <1>1, <1>2 DEF SweepOf, Still, Quiet
<1>3. CASE Sweep \/ LastSweep
  BY <1>2, <1>3 DEF Sweep, LastSweep
<1>4. CASE Tick
  <2>1. \A l \in Lines : muted'[l].count = muted[l].count
    BY <1>1, <1>4 DEF Tick, MutedType
  <2> QED
    BY <1>4, <2>1 DEF Tick, Still
<1>5. CASE Install \/ Stop \/ Close \/ UNCHANGED vars
  BY <1>5 DEF Install, Stop, Close, vars, logVars, Still
<1>6. CASE Summarise \/ Done \/ WaitTurn \/ Again
  <2>1. UNCHANGED <<notes, queue, emits, muted>>
    BY <1>6 DEF Summarise, Done, WaitTurn, Again
  <2> QED
    BY <2>1 DEF Still
<1> QED
  BY <1>3, <1>4, <1>5, <1>6

LEMMA FatedStep == TypeOK /\ Routed /\ Fated /\ [Next]_vars => Fated'
<1> SUFFICES ASSUME TypeOK, Routed, Fated, [Next]_vars
             PROVE  Fated'
  OBVIOUS
<1>0. /\ queue \in Seq(1..MaxNotes) /\ DOMAIN queue = 1..Len(queue) /\ Len(queue) \in Nat
      /\ \A j \in DOMAIN queue : queue[j] \in DOMAIN notes
      /\ emits \in [Emitters -> [at : {"out", "sink", "panicked"}, note : 0..MaxNotes, late : BOOLEAN]]
      /\ \A e \in Emitters : emits[e].at = "sink" => emits[e].note \in DOMAIN notes
  BY DEF TypeOK, Routed
<1>1. CASE Still
  BY <1>1 DEF Still, Fated
<1>2. ASSUME NEW e \in Emitters, NEW l \in Lines, Emit(e, l)
      PROVE  Fated'
  <2>1. UNCHANGED <<queue, muted>>
    BY <1>2 DEF Emit
  <2>2. \A g \in Emitters : g # e \/ ~Enabled(l) => emits'[g] = emits[g]
    BY <1>0, <1>2 DEF Emit
  <2>3. Enabled(l) => emits'[e].note = Len(notes) + 1
    BY <1>0, <1>2 DEF Emit
  <2>4. emits[e].at = "out"
    BY <1>2 DEF Emit
  <2> QED
    BY <1>0, <1>2, <2>1, <2>2, <2>3, <2>4, NoteAdded DEF Fated
<1>3. ASSUME NEW e \in Emitters, Enqueue(e)
      PROVE  Fated'
  <2>1. \A g \in Emitters : g # e => emits'[g] = emits[g]
    BY <1>0, <1>3 DEF Enqueue
  <2>2. emits'[e].at # "sink" /\ emits[e].at = "sink"
    BY <1>0, <1>3 DEF Enqueue, Out
  <2>3. CASE stop = "closed"
    <3>1. UNCHANGED <<notes, queue, muted>>
      BY <1>3, <2>3 DEF Enqueue
    <3> QED
      BY <2>1, <2>2, <3>1 DEF Fated
  <2>4. CASE stop # "closed"
    <3> DEFINE i == emits[e].note
    <3>1. /\ i \in DOMAIN notes /\ notes[i].fate = "emitted"
          /\ \A k \in DOMAIN notes : k # i => notes'[k] = notes[k]
          /\ \/ notes'[i].fate = "queued" /\ queue' = Append(queue, i)
             \/ notes'[i].fate = "dropped" /\ queue' = queue
      BY <1>3, <2>2, <2>4, NoteQueued DEF Fated
    <3>2. \A j \in DOMAIN queue : queue[j] # i
      BY <3>1 DEF Fated
    <3>3. \A g \in Emitters : emits'[g].at = "sink" => emits'[g] = emits[g] /\ emits[g].note # i
      BY <2>1, <2>2 DEF Fated
    <3>4. i \in 1..MaxNotes
      BY <3>1, NoteTypes DEF TypeOK
    <3>m. UNCHANGED muted
      BY <1>3 DEF Enqueue
    <3>e. /\ \A g \in Emitters : emits'[g].at = "sink" => notes'[emits'[g].note].fate = "emitted"
          /\ \A g, h \in Emitters :
               emits'[g].at = "sink" /\ emits'[h].at = "sink" /\ emits'[g].note = emits'[h].note
                 => g = h
      BY <1>0, <3>1, <3>3 DEF Fated
    <3>q. \A j \in DOMAIN queue : notes'[queue[j]].fate = "queued"
      BY <1>0, <3>1, <3>2 DEF Fated
    <3> HIDE DEF i
    <3>5. CASE queue' = queue
      BY <3>m, <3>e, <3>q, <3>5 DEF Fated
    <3>6. CASE notes'[i].fate = "queued" /\ queue' = Append(queue, i)
      <4>1. /\ DOMAIN queue' = 1..Len(queue) + 1 /\ queue'[Len(queue) + 1] = i
            /\ \A j \in DOMAIN queue : queue'[j] = queue[j]
        BY <1>0, <3>4, <3>6
      <4>2. \A j \in DOMAIN queue' : j \in DOMAIN queue \/ j = Len(queue) + 1
        BY <1>0, <4>1
      <4> QED
        BY <3>2, <3>6, <3>m, <3>e, <3>q, <4>1, <4>2 DEF Fated
    <3> QED
      BY <3>1, <3>5, <3>6
  <2> QED
    BY <2>3, <2>4
<1>4. CASE Dispatch
  <2>1. UNCHANGED emits /\ queue' = Tail(queue) /\ queue # <<>>
    BY <1>4 DEF Dispatch
  <2>2. \A j \in DOMAIN queue' : j + 1 \in DOMAIN queue /\ j + 1 # 1 /\ queue'[j] = queue[j + 1]
    BY <1>0, <2>1
  <2>3. \A k \in DOMAIN notes :
          k # queue[1] /\ notes[k].fate # "counted" => notes'[k].fate = notes[k].fate
    BY <1>4, NoteDispatched
  <2>4. 1 \in DOMAIN queue /\ DOMAIN queue' \subseteq Int
    BY <1>0, <2>1
  <2>5. \A j \in DOMAIN queue' : notes'[queue'[j]].fate = "queued"
    BY <1>0, <2>2, <2>3, <2>4 DEF Fated
  <2>6. \A j, k \in DOMAIN queue' : queue'[j] = queue'[k] => j = k
    <3> SUFFICES ASSUME NEW j \in DOMAIN queue', NEW k \in DOMAIN queue', queue'[j] = queue'[k]
                 PROVE  j = k
      OBVIOUS
    <3>1. j + 1 = k + 1
      BY <2>2 DEF Fated
    <3> QED
      BY <2>4, <3>1
  <2>7. \A e \in Emitters : emits[e].at = "sink" => notes'[emits[e].note].fate = "emitted"
    BY <1>0, <2>3, <2>4 DEF Fated
  <2>8. Window = 0 => muted' = muted
    <3>1. \A l \in Lines : muted[l].age \in 0..Window
      BY DEF TypeOK
    <3>2. Window = 0 => ~(muted[notes[queue[1]].line].age < Window)
      BY <1>4, <3>1, NoteDispatched
    <3> QED
      BY <1>4, <3>2, NoteDispatched
  <2> QED
    BY <2>1, <2>5, <2>6, <2>7, <2>8 DEF Fated
<1>5. CASE Answer
  <2>1. UNCHANGED <<queue, emits>>
    BY <1>5 DEF Answer
  <2>2. \A k \in DOMAIN notes :
          notes[k].fate \in {"queued", "emitted"} => notes'[k].fate = notes[k].fate
    BY <1>5, NoteSent DEF Answer
  <2>3. \A l \in Lines : muted[l].count = 0 => muted'[l].count = 0
    BY <1>5 DEF Answer, Sent, Quiet, TypeOK
  <2> QED
    BY <1>0, <2>1, <2>2, <2>3 DEF Fated
<1> QED
  BY <1>1, <1>2, <1>3, <1>4, <1>5, StillSteps DEF Next, Working

LEMMA CountStep == TypeOK /\ Routed /\ Fated /\ CountTrue /\ [Next]_vars => CountTrue'
<1> SUFFICES ASSUME TypeOK, Routed, Fated, CountTrue, [Next]_vars, NEW l \in Lines
             PROVE  muted'[l].count = Cardinality(Counted(notes', l))
  BY DEF CountTrue, Counted
<1>0. /\ muted[l].count = Cardinality(Counted(notes, l)) /\ muted[l].count \in Nat
      /\ IsFiniteSet(Counted(notes, l)) /\ muted \in [Lines -> MutedType]
  BY NoteTypes DEF CountTrue, Counted, TypeOK, MutedType
<1>1. CASE Still
  BY <1>0, <1>1 DEF Still
<1>2. ASSUME NEW e \in Emitters, NEW k \in Lines, Emit(e, k)
      PROVE  muted'[l].count = Cardinality(Counted(notes', l))
  <2>1. UNCHANGED muted
    BY <1>2 DEF Emit
  <2>2. Counted(notes', l) = Counted(notes, l)
    BY <1>2, NoteAdded DEF Counted
  <2> QED
    BY <1>0, <2>1, <2>2
<1>3. ASSUME NEW e \in Emitters, Enqueue(e)
      PROVE  muted'[l].count = Cardinality(Counted(notes', l))
  <2>1. UNCHANGED muted
    BY <1>3 DEF Enqueue
  <2>2. CASE stop = "closed"
    BY <1>0, <1>3, <2>1, <2>2 DEF Enqueue
  <2>3. CASE stop # "closed"
    <3>1. notes[emits[e].note].fate = "emitted"
      BY <1>3 DEF Enqueue, Fated
    <3>2. Counted(notes', l) = Counted(notes, l)
      BY <1>3, <2>3, <3>1, NoteQueued DEF Counted
    <3> QED
      BY <1>0, <2>1, <3>2
  <2> QED
    BY <2>2, <2>3
<1>4. CASE Dispatch
  <2> DEFINE i == queue[1]
             m == notes[i].line
  <2>1. /\ i \in DOMAIN notes /\ m \in Lines /\ notes[i].fate = "queued"
        /\ DOMAIN notes' = DOMAIN notes /\ \A k \in DOMAIN notes : notes'[k].line = notes[k].line
    BY <1>4, NoteDispatched DEF Fated
  <2>2. CASE muted[m].on /\ muted[m].age < Window
    <3>1. /\ muted' = [muted EXCEPT ![m].count = @ + 1] /\ notes'[i].fate = "counted"
          /\ \A k \in DOMAIN notes : k # i => notes'[k] = notes[k]
      BY <1>4, <2>2, NoteDispatched
    <3> HIDE DEF m, i
    <3>2. CASE l = m
      <4>1. Counted(notes', l) = Counted(notes, l) \cup {i} /\ i \notin Counted(notes, l)
        BY <2>1, <3>1, <3>2 DEF Counted, m
      <4>2. muted'[l].count = muted[l].count + 1
        BY <1>0, <3>1, <3>2 DEF MutedType
      <4> QED
        BY <1>0, <4>1, <4>2, FS_AddElement
    <3>3. CASE l # m
      <4>1. Counted(notes', l) = Counted(notes, l)
        BY <2>1, <3>1, <3>3 DEF Counted, m
      <4>2. muted'[l] = muted[l]
        BY <1>0, <3>1, <3>3
      <4> QED
        BY <1>0, <4>1, <4>2
    <3> QED
      BY <3>2, <3>3
  <2>3. CASE ~(muted[m].on /\ muted[m].age < Window)
    <3>1. /\ muted' = IF Window > 0 THEN [muted EXCEPT ![m] = [Quiet EXCEPT !.on = TRUE]] ELSE muted
          /\ notes'[i].fate = "sending"
          /\ \A k \in DOMAIN notes : k # i =>
               notes'[k].fate = IF notes[k].line = m /\ notes[k].fate = "counted" THEN "lost"
                                ELSE notes[k].fate
      BY <1>4, <2>3, NoteDispatched
    <3> HIDE DEF m, i
    <3>2. CASE l = m
      <4>1. Counted(notes', l) = {}
        BY <2>1, <3>1, <3>2 DEF Counted
      <4>2. CASE Window > 0
        <5>1. muted'[l].count = 0
          BY <1>0, <3>1, <3>2, <4>2 DEF Quiet
        <5> QED
          BY <4>1, <5>1, FS_EmptySet
      <4>3. CASE Window = 0
        <5>1. muted'[l].count = 0
          BY <3>1, <4>3 DEF Fated
        <5> QED
          BY <4>1, <5>1, FS_EmptySet
      <4> QED
        BY <4>2, <4>3, LogsAssumption
    <3>3. CASE l # m
      <4>1. Counted(notes', l) = Counted(notes, l)
        BY <2>1, <3>1, <3>3 DEF Counted, m
      <4>2. muted'[l] = muted[l]
        BY <1>0, <3>1, <3>3
      <4> QED
        BY <1>0, <4>1, <4>2
    <3> QED
      BY <3>2, <3>3
  <2> QED
    BY <2>2, <2>3
<1>5. ASSUME NEW f \in {"told", "failed"}, Sent(f)
      PROVE  muted'[l].count = Cardinality(Counted(notes', l))
  <2>1. muted' = IF sink.more THEN [muted EXCEPT ![sink.line] = Quiet] ELSE muted
    BY <1>5 DEF Sent
  <2>2. CASE sink.more /\ l = sink.line
    <3>1. Counted(notes', l) = {}
      BY <1>5, <2>2, NoteSent DEF Counted
    <3>2. muted'[l].count = 0
      BY <1>0, <2>1, <2>2 DEF Quiet
    <3> QED
      BY <3>1, <3>2, FS_EmptySet
  <2>3. CASE ~sink.more \/ l # sink.line
    <3>1. Counted(notes', l) = Counted(notes, l)
      BY <1>5, <2>3, NoteSent DEF Counted
    <3>2. muted'[l] = muted[l]
      BY <1>0, <2>1, <2>3
    <3> QED
      BY <1>0, <3>1, <3>2
  <2> QED
    BY <2>2, <2>3
<1>6. CASE Answer
  <2>1. CASE UNCHANGED <<muted, notes>>
    BY <1>0, <2>1
  <2> QED
    BY <1>5, <1>6, <2>1 DEF Answer
<1> QED
  BY <1>1, <1>2, <1>3, <1>4, <1>6, StillSteps DEF Next, Working

\* What a window is about to announce is what it has held back, through sends that fail, windows
\* that are overwritten and the sweep at Stop (telegram.go, dispatch and sweep).
THEOREM CountTrueInv == Spec => []CountTrue
<1>1. Init => TypeOK /\ Routed
  BY TypeInit
<1>2. Init => Fated /\ CountTrue
  <2> SUFFICES ASSUME Init PROVE Fated /\ CountTrue
    OBVIOUS
  <2>1. notes = <<>> /\ queue = <<>> /\ \A e \in Emitters : emits[e].at = "out"
    BY DEF Init, Out
  <2>2. \A l \in Lines : muted[l].count = 0
    BY DEF Init, Quiet
  <2>3. DOMAIN notes = {} /\ DOMAIN queue = {}
    BY <2>1
  <2>4. \A l \in Lines : {i \in DOMAIN notes : notes[i].line = l /\ notes[i].fate = "counted"} = {}
    BY <2>3
  <2> QED
    BY <2>1, <2>2, <2>3, <2>4, FS_EmptySet DEF Fated, CountTrue
<1> QED
  BY <1>1, <1>2, TypeStep, FatedStep, CountStep, PTL DEF Spec

-----------------------------------------------------------------------------
\* The calls since any time that is remembered and the tokens there are make no more than a
\* bucket and what was earned since.
Tokens(c) == Least(Burst, pace[c].tokens + pace[c].since)

Paced ==
  /\ calls \in [Channels -> Seq(0..Horizon)]
  /\ \A c \in Channels :
       /\ Len(calls[c]) <= Burst + Horizon
       /\ \A i \in 1..Len(calls[c]) :
            calls[c][i] = Horizon \/ i + Tokens(c) <= Burst + calls[c][i]

LEMMA PrefixKeeps ==
  ASSUME NEW S, NEW s \in Seq(S), NEW n \in 0..Len(s)
  PROVE  /\ SubSeq(s, 1, n) \in Seq(S) /\ Len(SubSeq(s, 1, n)) = n
         /\ \A i \in 1..n : i \in 1..Len(s) /\ SubSeq(s, 1, n)[i] = s[i]
OBVIOUS

\* A sequence with an element put in front, and cut.
LEMMA PushKeeps ==
  ASSUME NEW S, NEW x \in S, NEW s \in Seq(S), NEW n \in 0..Len(s) + 1
  PROVE  /\ SubSeq(<<x>> \o s, 1, n) \in Seq(S) /\ Len(SubSeq(<<x>> \o s, 1, n)) = n
         /\ \A i \in 1..n : SubSeq(<<x>> \o s, 1, n)[i] = IF i = 1 THEN x ELSE s[i - 1]
<1> DEFINE long == <<x>> \o s
<1>1. /\ long \in Seq(S) /\ Len(long) = Len(s) + 1 /\ Len(s) \in Nat
      /\ \A i \in 1..Len(long) : long[i] = IF i = 1 THEN x ELSE s[i - 1]
  OBVIOUS
<1> HIDE DEF long
<1>2. n \in 0..Len(long)
  BY <1>1
<1>3. /\ SubSeq(long, 1, n) \in Seq(S) /\ Len(SubSeq(long, 1, n)) = n
      /\ \A i \in 1..n : i \in 1..Len(long) /\ SubSeq(long, 1, n)[i] = long[i]
  BY <1>1, <1>2, PrefixKeeps
<1>4. \A i \in 1..n : SubSeq(long, 1, n)[i] = IF i = 1 THEN x ELSE s[i - 1]
  BY <1>1, <1>3
<1> QED
  BY <1>3, <1>4 DEF long

LEMMA FunctionSeq ==
  ASSUME NEW S, NEW n \in Nat, NEW f \in [1..n -> S]
  PROVE  f \in Seq(S) /\ Len(f) = n
OBVIOUS

LEMMA PacedStep == TypeOK /\ Routed /\ Paced /\ [Next]_vars => Paced'
<1> SUFFICES ASSUME TypeOK, Routed, Paced, [Next]_vars
             PROVE  Paced'
  OBVIOUS
<1>0. /\ pace \in [Channels -> [tokens : 0..Burst, since : 0..Burst]]
      /\ calls \in [Channels -> Seq(0..Horizon)] /\ Burst \in Nat \ {0} /\ Horizon \in Nat
  BY LogsAssumption DEF TypeOK, Paced
<1>1. CASE UNCHANGED <<pace, calls>>
  BY <1>1 DEF Paced, Tokens
<1>2. CASE WaitTurn
  <2>0. channelFor(sink.line) \in Channels
    BY <1>2, Channelled DEF WaitTurn, Routed
  <2> PICK c \in Channels : c = channelFor(sink.line)
    BY <2>0
  <2> DEFINE tokens == Least(Burst, pace[c].tokens + pace[c].since)
             new == SubSeq(<<0>> \o calls[c], 1, Least(Burst + Horizon, Len(calls[c]) + 1))
  <2>1. /\ pace' = [pace EXCEPT ![c] = [tokens |-> tokens - 1, since |-> 0]]
        /\ calls' = [calls EXCEPT ![c] = new] /\ tokens >= 1
    BY <1>2 DEF WaitTurn
  <2>3. tokens \in 0..Burst /\ tokens = Tokens(c)
    BY <1>0 DEF Tokens, Least
  <2>4. calls[c] \in Seq(0..Horizon) /\ Len(calls[c]) \in Nat
    BY <1>0
  <2>5. /\ new \in Seq(0..Horizon) /\ Len(new) <= Burst + Horizon /\ Len(new) <= Len(calls[c]) + 1
        /\ Len(new) \in Nat
        /\ \A i \in 1..Len(new) : new[i] = IF i = 1 THEN 0 ELSE calls[c][i - 1]
    <3> DEFINE Ages == 0..Horizon
               n == Least(Burst + Horizon, Len(calls[c]) + 1)
    <3>1. 0 \in Ages /\ calls[c] \in Seq(Ages)
      BY <1>0, <2>4
    <3>2. /\ n \in 0..Len(calls[c]) + 1 /\ n \in Nat
          /\ n <= Burst + Horizon /\ n <= Len(calls[c]) + 1
      BY <1>0, <2>4 DEF Least
    <3> HIDE DEF Ages, n
    <3>3. /\ SubSeq(<<0>> \o calls[c], 1, n) \in Seq(Ages)
          /\ Len(SubSeq(<<0>> \o calls[c], 1, n)) = n
          /\ \A i \in 1..n : SubSeq(<<0>> \o calls[c], 1, n)[i] =
                             IF i = 1 THEN 0 ELSE calls[c][i - 1]
      BY <3>1, <3>2, PushKeeps
    <3>4. new = SubSeq(<<0>> \o calls[c], 1, n)
      BY DEF n
    <3> HIDE DEF new
    <3> QED
      BY <3>2, <3>3, <3>4 DEF Ages
  <2> HIDE DEF new, tokens
  <2>6. calls' \in [Channels -> Seq(0..Horizon)]
    BY <1>0, <2>1, <2>5
  <2>7. ASSUME NEW d \in Channels, d # c
        PROVE  calls'[d] = calls[d] /\ Tokens(d)' = Tokens(d)
    BY <1>0, <2>1, <2>7 DEF Tokens
  <2>8. calls'[c] = new /\ Tokens(c)' = tokens - 1
    <3>1. pace'[c].tokens = tokens - 1 /\ pace'[c].since = 0
      BY <1>0, <2>1
    <3>2. Tokens(c)' = tokens - 1
      BY <1>0, <2>1, <2>3, <3>1 DEF Tokens, Least
    <3> QED
      BY <1>0, <2>1, <3>2
  <2>9. \A i \in 1..Len(new) : new[i] = Horizon \/ i + (tokens - 1) <= Burst + new[i]
    <3> SUFFICES ASSUME NEW i \in 1..Len(new), new[i] # Horizon
                 PROVE  i + (tokens - 1) <= Burst + new[i]
      OBVIOUS
    <3>1. CASE i = 1
      BY <1>0, <2>3, <2>5, <3>1
    <3>2. CASE i # 1
      <4>1. i \in Nat /\ i - 1 \in 1..Len(calls[c]) /\ new[i] = calls[c][i - 1]
        BY <2>4, <2>5, <3>2
      <4>2. (i - 1) + Tokens(c) <= Burst + calls[c][i - 1]
        BY <4>1 DEF Paced
      <4>3. calls[c][i - 1] \in 0..Horizon
        BY <2>4, <4>1, ElementOfSeq
      <4> QED
        BY <1>0, <2>3, <4>1, <4>2, <4>3
    <3> QED
      BY <3>1, <3>2
  <2>10. ASSUME NEW d \in Channels
         PROVE  /\ Len(calls'[d]) <= Burst + Horizon
                /\ \A i \in 1..Len(calls'[d]) :
                     calls'[d][i] = Horizon \/ i + Tokens(d)' <= Burst + calls'[d][i]
    <3>1. CASE d # c
      <4>1. calls'[d] = calls[d] /\ Tokens(d)' = Tokens(d)
        BY <2>7, <3>1
      <4> QED
        BY <4>1 DEF Paced
    <3>2. CASE d = c
      BY <2>5, <2>8, <2>9, <3>2
    <3> QED
      BY <3>1, <3>2
  <2> QED
    BY <2>6, <2>10 DEF Paced
<1>3. CASE Answer
  <2>1. UNCHANGED calls
    BY <1>3 DEF Answer
  <2>2. ASSUME NEW c \in Channels
        PROVE  Tokens(c)' <= Tokens(c) /\ Tokens(c) \in Nat /\ Tokens(c)' \in Nat
    <3>0. UNCHANGED pace \/ pace' = [pace EXCEPT ![channelFor(sink.line)].tokens = 0]
      BY <1>3 DEF Answer, Sent
    <3> DEFINE k == channelFor(sink.line)
    <3> HIDE DEF k
    <3>1. CASE UNCHANGED pace
      BY <1>0, <3>1 DEF Tokens, Least
    <3>2. CASE pace' = [pace EXCEPT ![k].tokens = 0]
      <4>1. pace[c] \in [tokens : 0..Burst, since : 0..Burst]
        BY <1>0
      <4>2. pace'[c] = IF c = k THEN [pace[c] EXCEPT !.tokens = 0] ELSE pace[c]
        BY <1>0, <3>2
      <4>3. pace'[c].tokens \in {0, pace[c].tokens} /\ pace'[c].since = pace[c].since
        BY <4>1, <4>2
      <4> HIDE <3>2
      <4> QED
        BY <1>0, <4>1, <4>3 DEF Tokens, Least
    <3> QED
      BY <3>0, <3>1, <3>2 DEF k
  <2>3. ASSUME NEW c \in Channels, NEW i \in 1..Len(calls[c])
        PROVE  calls[c][i] \in 0..Horizon /\ i \in Nat
    BY <1>0, <2>3
  <2> QED
    <3>1. ASSUME NEW c \in Channels, NEW i \in 1..Len(calls'[c])
          PROVE  calls'[c][i] = Horizon \/ i + Tokens(c)' <= Burst + calls'[c][i]
      <4>1. calls'[c] = calls[c] /\ i \in 1..Len(calls[c])
        BY <2>1, <3>1
      <4>2. calls[c][i] = Horizon \/ i + Tokens(c) <= Burst + calls[c][i]
        BY <4>1 DEF Paced
      <4>3. calls[c][i] \in Nat /\ i \in Nat
        BY <1>0, <2>3, <4>1
      <4> DEFINE now == Tokens(c)
                 then == Tokens(c)'
                 age == calls[c][i]
      <4>4. then <= now /\ now \in Nat /\ then \in Nat /\ age \in Nat
            /\ (age = Horizon \/ i + now <= Burst + age)
        BY <2>2, <4>2, <4>3
      <4> HIDE DEF now, then, age
      <4>5. age = Horizon \/ i + then <= Burst + age
        BY <1>0, <4>3, <4>4
      <4> QED
        BY <4>1, <4>5 DEF then, age
    <3> QED
      BY <2>1, <3>1 DEF Paced
<1>4. CASE Tick
  <2>1. /\ calls' = [c \in Channels |-> [i \in DOMAIN calls[c] |-> Least(Horizon, calls[c][i] + 1)]]
        /\ pace' = [c \in Channels |-> [pace[c] EXCEPT !.since = Least(Burst, @ + 1)]]
    BY <1>4 DEF Tick
  <2>2. ASSUME NEW c \in Channels
        PROVE  /\ calls'[c] \in Seq(0..Horizon) /\ Len(calls'[c]) = Len(calls[c])
               /\ \A i \in 1..Len(calls[c]) : /\ calls[c][i] \in 0..Horizon
                                               /\ calls'[c][i] = Least(Horizon, calls[c][i] + 1)
    <3>1. DOMAIN calls[c] = 1..Len(calls[c]) /\ Len(calls[c]) \in Nat
      BY <1>0
    <3>2. calls'[c] = [i \in 1..Len(calls[c]) |-> Least(Horizon, calls[c][i] + 1)]
      BY <2>1, <3>1
    <3>3. \A i \in 1..Len(calls[c]) : calls[c][i] \in 0..Horizon
      BY <1>0
    <3>4. \A i \in 1..Len(calls[c]) : Least(Horizon, calls[c][i] + 1) \in 0..Horizon
      BY <1>0, <3>3 DEF Least
    <3>5. calls'[c] \in [1..Len(calls[c]) -> 0..Horizon]
      BY <3>2, <3>4
    <3>6. calls'[c] \in Seq(0..Horizon) /\ Len(calls'[c]) = Len(calls[c])
      BY <3>1, <3>5, FunctionSeq
    <3> QED
      BY <3>2, <3>3, <3>6
  <2>3. calls' \in [Channels -> Seq(0..Horizon)]
    BY <2>1, <2>2
  <2>4. ASSUME NEW c \in Channels
        PROVE  Tokens(c) \in Nat /\ Tokens(c)' \in Nat /\ Tokens(c)' <= Tokens(c) + 1
    <3>1. pace[c] \in [tokens : 0..Burst, since : 0..Burst]
      BY <1>0
    <3>2. pace'[c].tokens = pace[c].tokens /\ pace'[c].since = Least(Burst, pace[c].since + 1)
      BY <2>1, <3>1
    <3> QED
      BY <1>0, <3>1, <3>2 DEF Tokens, Least
  <2>5. ASSUME NEW c \in Channels, NEW i \in 1..Len(calls[c]), calls'[c][i] # Horizon
        PROVE  i + Tokens(c)' <= Burst + calls'[c][i]
    <3>1. calls[c][i] # Horizon /\ calls'[c][i] = calls[c][i] + 1
      <4>1. /\ calls[c][i] \in 0..Horizon /\ calls'[c][i] # Horizon
            /\ calls'[c][i] = Least(Horizon, calls[c][i] + 1)
        BY <2>2, <2>5
      <4> DEFINE age == calls[c][i]
      <4> HIDE DEF age
      <4>2. age \in 0..Horizon /\ Least(Horizon, age + 1) # Horizon => age # Horizon /\ Least(Horizon, age + 1) = age + 1
        BY <1>0 DEF Least
      <4> QED
        BY <4>1, <4>2 DEF age
    <3>2. i + Tokens(c) <= Burst + calls[c][i]
      BY <3>1 DEF Paced
    <3>3. i \in Nat /\ calls[c][i] \in Nat /\ Tokens(c) \in Nat /\ Tokens(c)' \in Nat
      BY <1>0, <2>2, <2>4
    <3> DEFINE now == Tokens(c)
               then == Tokens(c)'
               age == calls[c][i]
    <3>4. /\ then <= now + 1 /\ i + now <= Burst + age
          /\ i \in Nat /\ now \in Nat /\ then \in Nat /\ age \in Nat /\ Burst \in Nat
      BY <1>0, <2>4, <3>2, <3>3
    <3> HIDE DEF now, then, age
    <3>5. i + then <= Burst + (age + 1)
      BY <3>4
    <3> QED
      BY <3>1, <3>5 DEF then, age
  <2> QED
    BY <2>2, <2>3, <2>5 DEF Paced
<1>5. \/ UNCHANGED <<pace, calls>> \/ WaitTurn \/ Answer \/ Tick
  <2>1. ASSUME NEW closed, NEW forced, SweepOf(closed, forced)
        PROVE  UNCHANGED <<pace, calls>>
    BY <2>1 DEF SweepOf
  <2> QED
    BY <2>1 DEF Next, Working, Install, Stop, Close, Emit, Enqueue, Dispatch, Sweep, LastSweep,
                Summarise, Done, Again, vars, logVars
<1> QED
  BY <1>1, <1>2, <1>3, <1>4, <1>5

\* Over any time no channel gets more calls than a full bucket and what it earned meanwhile,
\* retries and summaries counted, for any bucket (telegram.go, waitTurn and send).
THEOREM RateKeptHolds == Spec => []RateKept
<1>1. Init => TypeOK /\ Routed
  BY TypeInit
<1>2. Init => Paced
  BY LogsAssumption DEF Init, Paced
<1>3. TypeOK /\ Paced => RateKept
  <2> SUFFICES ASSUME TypeOK, Paced, NEW c \in Channels, NEW i \in DOMAIN calls[c]
               PROVE  i <= Burst + calls[c][i]
    BY DEF RateKept
  <2>1. calls[c] \in Seq(0..Horizon) /\ i \in 1..Len(calls[c]) /\ Len(calls[c]) <= Burst + Horizon
    BY DEF Paced
  <2>2. Burst \in Nat /\ Horizon \in Nat /\ Len(calls[c]) \in Nat /\ calls[c][i] \in 0..Horizon
    BY <2>1, LogsAssumption
  <2>3. Tokens(c) \in Nat
    BY <2>2 DEF TypeOK, Tokens, Least
  <2>4. calls[c][i] = Horizon \/ i + Tokens(c) <= Burst + calls[c][i]
    BY <2>1 DEF Paced
  <2> QED
    BY <2>1, <2>2, <2>3, <2>4
<1> QED
  BY <1>1, <1>2, <1>3, TypeStep, PacedStep, PTL DEF Spec
=============================================================================
