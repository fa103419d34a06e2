----------------------------- MODULE MCPegasus ------------------------------
(* Two generations and a process.  Of its documents one bets with an account *)
(* that is complete beside one that is not, one stakes what it has no        *)
(* account for, and one a country without a feed.                            *)
EXTENDS Pegasus

CONSTANT p1

Doc(bm, bf, region, stake) ==
  [credentials |-> [p \in Providers |-> IF p = "betmatic" THEN bm ELSE bf],
   stakes |-> [g \in Regions |-> IF g = region THEN {stake} ELSE {}],
   delays |-> TRUE,
   floor |-> TRUE]

MCDocs == {Doc("full", "named", "tripleS", "betmatic"),
           Doc("full", "none", "tpd", "betfair"),
           Doc("none", "full", "tpd", "betfair"),
           Doc("full", "none", "nowhere", "betmatic")}
=============================================================================
