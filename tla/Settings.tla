------------------------------ MODULE Settings ------------------------------
(***************************************************************************)
(* The documents of apps/pegasus/settings: what a process document must    *)
(* have before it is saved or built, and what a feed document says.        *)
(*                                                                         *)
(* Credentials are there in full, named but incomplete, or not there.  A   *)
(* document stakes, for the scopes of each feed, bets on some providers;   *)
(* a scope of a country with no feed is one of "nowhere".  All scopes of a *)
(* document have their delays long enough, and Betfair's least odds set,   *)
(* or one of them has not.                                                 *)
(***************************************************************************)
EXTENDS Naturals

Feeds == {"tripleS", "tpd"}
Regions == Feeds \cup {"nowhere"}
Providers == {"betmatic", "betfair"}

Documents ==
  [credentials : [Providers -> {"full", "named", "none"}],
   stakes : [Regions -> SUBSET Providers],
   delays : BOOLEAN,
   floor : BOOLEAN]

Staked(d) == UNION {d.stakes[g] : g \in Regions}
Configured(d) == {p \in Providers : d.credentials[p] = "full"}

\* Mutant of Validate: one account that works is enough.
ValidateEither(d) ==
  /\ Configured(d) # {}
  /\ Staked(d) # {}
  /\ d.delays
  /\ "betfair" \in Staked(d) => d.floor

\* ParseProcess, and the kernel before it saves.
Validate(d) ==
  /\ Configured(d) # {}
  /\ Staked(d) # {}
  /\ Staked(d) \subseteq Configured(d)
  /\ d.delays
  /\ "betfair" \in Staked(d) => d.floor

\* Credentials: the accounts whose sessions are opened.
Credentials(d) == {p \in Providers : d.credentials[p] # "none"}

\* A feed document; a missing one is the defaults, Triple-S on without credentials and
\* TPD off.
FeedDocs == {"off", "incomplete", "complete"}
Defaults == [f \in Feeds |-> IF f = "tripleS" THEN "incomplete" ELSE "off"]

\* TripleS.Validate and TPD.Validate.
ValidFeed(doc) == doc # "incomplete"
=============================================================================
