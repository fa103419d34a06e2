----------------------------- MODULE MCTPDFeed ------------------------------
(* r1 has no length in the list and its start is not detected; it sends a    *)
(* snapshot from the post, one of the run and one of the finish.  r2 runs    *)
(* the next day and is joined on the run, with a length and a clock.  One    *)
(* place in the queue, so that the two compete for it.  A date is dropped    *)
(* the day after here, so that two days are enough.  The server takes r2 off *)
(* its list and back on, and r1 never.                                       *)
EXTENDS TPDFeed

CONSTANTS r1, r2

MCDateOf == [r \in Races |-> IF r = r1 THEN 1 ELSE 2]
MCLength == [r \in Races |-> IF r = r1 THEN 0 ELSE 2]

Snap(p, c) == [progress |-> p, clock |-> c]
MCScript == [r \in Races |->
  IF r = r1 THEN <<Snap(2, FALSE), Snap(1, FALSE), Snap(0, FALSE)>>
  ELSE <<Snap(2, TRUE)>>]
=============================================================================
