------------------------------- MODULE Engine -------------------------------
(***************************************************************************)
(* The betting session pool of engine/engine.go and engine/account.go.     *)
(* A session is named by its provider and normalised username, is opened   *)
(* by the first process that claims it and closed when its last holder     *)
(* lets go.  The pool is a value: Kernel holds it in a variable and every  *)
(* operator below maps a pool to the pool the Go function leaves behind.   *)
(*                                                                         *)
(* A settings document is known only by the two accounts it names.  Two    *)
(* documents with the same accounts differ in the rest (password, stakes). *)
(***************************************************************************)
CONSTANTS
  Keys,             \* process identities: application, user, process id
  Docs,             \* process settings documents that pass Validate
  BetmaticAccounts, \* normalised Betmatic usernames
  BetfairAccounts,  \* normalised Betfair usernames
  NoAccount,        \* a document with no account at a provider
  NoDoc,            \* no document
  BetmaticOf,       \* the Betmatic account a document names
  BetfairOf         \* the Betfair account a document names

ASSUME EngineAssumption ==
  /\ BetmaticAccounts \cap BetfairAccounts = {}
  /\ NoAccount \notin BetmaticAccounts \cup BetfairAccounts
  /\ NoDoc \notin Docs
  /\ BetmaticOf \in [Docs -> BetmaticAccounts \cup {NoAccount}]
  /\ BetfairOf \in [Docs -> BetfairAccounts \cup {NoAccount}]

Sessions == BetmaticAccounts \cup BetfairAccounts

\* The sessions a process built from document d bets through.
Accounts(d) == {BetmaticOf[d], BetfairOf[d]} \ {NoAccount}

(***************************************************************************)
(* open:    the sessions in the engine's maps                              *)
(* holders: the processes that hold a session                              *)
(* dialled: the document whose credentials opened a session                *)
(* clients: the open sessions whose client the Account of a process        *)
(*          points to; a client leaves the set when it is closed, because  *)
(*          the pointer the Account keeps is then to a logged-out client   *)
(***************************************************************************)
Pool == [open    : SUBSET Sessions,
         holders : [Sessions -> SUBSET Keys],
         dialled : [Sessions -> Docs \cup {NoDoc}],
         clients : [Keys -> SUBSET Sessions]]

New == [open    |-> {},
        holders |-> [s \in Sessions |-> {}],
        dialled |-> [s \in Sessions |-> NoDoc],
        clients |-> [k \in Keys |-> {}]]

\* Close logs every session out and empties both maps.
Close == New

\* claim with a dial that succeeds: join the session, or open it.
Claim(p, k, s, d) ==
  [open    |-> p.open \cup {s},
   holders |-> [p.holders EXCEPT ![s] = IF s \in p.open THEN @ \cup {k} ELSE {k}],
   dialled |-> [p.dialled EXCEPT ![s] = IF s \in p.open THEN @ ELSE d],
   clients |-> [p.clients EXCEPT ![k] = @ \cup {s}]]

\* release over the sessions S of one provider: drop k's holds, and close what
\* k was the last to hold.
ReleaseFrom(p, k, S) ==
  LET held   == {s \in p.open \cap S : k \in p.holders[s]}
      closed == {s \in held : p.holders[s] \ {k} = {}}
  IN [open    |-> p.open \ closed,
      holders |-> [s \in Sessions |-> IF s \in held THEN p.holders[s] \ {k} ELSE p.holders[s]],
      dialled |-> [s \in Sessions |-> IF s \in closed THEN NoDoc ELSE p.dialled[s]],
      clients |-> [j \in Keys |-> IF j = k THEN p.clients[j] \ S ELSE p.clients[j] \ closed]]

Release(p, k) == ReleaseFrom(ReleaseFrom(p, k, BetmaticAccounts), k, BetfairAccounts)

\* One provider's part of Account: a is the account the document names there,
\* refused the sessions whose dial fails.  An open session is joined undialled.
Refused(p, a, refused) == a # NoAccount /\ a \notin p.open /\ a \in refused
ClaimNamed(p, k, a, d) == IF a = NoAccount THEN p ELSE Claim(p, k, a, d)

AccountOpens(p, d, refused) ==
  /\ ~Refused(p, BetmaticOf[d], refused)
  /\ ~Refused(p, BetfairOf[d], refused)

\* Account: Betmatic first, then Betfair; a Betfair session that will not open
\* gives the Betmatic one back.
Account(p, k, d, refused) ==
  IF Refused(p, BetmaticOf[d], refused)
  THEN p
  ELSE LET q == ClaimNamed(p, k, BetmaticOf[d], d)
       IN IF Refused(q, BetfairOf[d], refused)
          THEN ReleaseFrom(q, k, BetmaticAccounts)
          ELSE ClaimNamed(q, k, BetfairOf[d], d)

(***************************************************************************)
(* The pool is exact for need when the processes that hold a session, and  *)
(* whose Account has its live client, are the ones that need it, and the   *)
(* sessions open are the ones somebody holds.                              *)
(***************************************************************************)
Exact(p, need) ==
  /\ \A s \in Sessions : p.holders[s] = {k \in Keys : s \in need[k]}
  /\ p.open = {s \in Sessions : p.holders[s] # {}}
  /\ \A k \in Keys : p.clients[k] = need[k]
=============================================================================
