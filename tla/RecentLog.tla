----------------------------- MODULE RecentLog ------------------------------
(***************************************************************************)
(* What GET /api/logs is promised of the logger: the last Size records it  *)
(* kept, in the order they were kept.                                      *)
(***************************************************************************)
EXTENDS Naturals, Sequences

CONSTANTS Kept, \* records the ring takes
          Size  \* how many are held

VARIABLE held   \* the records, oldest first

Newest(n, s) == IF Len(s) <= n THEN s ELSE SubSeq(s, Len(s) - n + 1, Len(s))

Init == held = <<>>
Keep == \E r \in Kept : held' = Newest(Size, Append(held, r))
Spec == Init /\ [][Keep]_held
=============================================================================
