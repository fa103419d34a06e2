--------------------------- MODULE MCTripleSFeed ----------------------------
(* Two loops, one that runs and one that is turned away.  Two connections:   *)
(* the one installed and one that is dialled, and may come up too late; the  *)
(* run that looks for a violation has a third.                               *)
EXTENDS TripleSFeed
=============================================================================
