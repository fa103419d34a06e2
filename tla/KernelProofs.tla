---------------------------- MODULE KernelProofs ----------------------------
(***************************************************************************)
(* The invariants of Kernel for any set of processes, documents, accounts  *)
(* and applications.                                                       *)
(***************************************************************************)
EXTENDS Kernel, TLAPS

Needs == [Keys -> SUBSET Sessions]

(***************************************************************************)
(* The pool operators keep a pool exact (engine/account.go).               *)
(***************************************************************************)

\* An engine just built, or closed, serves nobody.
LEMMA NewExact == New \in Pool /\ Exact(New, [k \in Keys |-> {}])
<1>1. New \in Pool
  BY DEF New, Pool
<1>2. Exact(New, [k \in Keys |-> {}])
  BY DEF New, Exact
<1> QED
  BY <1>1, <1>2

\* claim adds one session to what its caller needs, joined or opened.
LEMMA ClaimExact ==
  ASSUME NEW p \in Pool, NEW k \in Keys, NEW s \in Sessions, NEW d \in Docs,
         NEW need \in Needs, Exact(p, need)
  PROVE  /\ Claim(p, k, s, d) \in Pool
         /\ Exact(Claim(p, k, s, d), [need EXCEPT ![k] = @ \cup {s}])
<1> DEFINE q == Claim(p, k, s, d)
           more == [need EXCEPT ![k] = @ \cup {s}]
<1>1. q \in Pool
  BY DEF Claim, Pool
<1>2. \A t \in Sessions : q.holders[t] = {j \in Keys : t \in more[j]}
  BY DEF Claim, Pool, Exact, Needs
<1>3. q.open = {t \in Sessions : q.holders[t] # {}}
  BY DEF Claim, Pool, Exact, Needs
<1>4. \A j \in Keys : q.clients[j] = more[j]
  BY DEF Claim, Pool, Exact, Needs
<1> QED
  BY <1>1, <1>2, <1>3, <1>4 DEF Exact

\* release takes from its caller the sessions of one provider and nothing from
\* anybody else: what it closes, nobody else held.
LEMMA ReleaseFromExact ==
  ASSUME NEW p \in Pool, NEW k \in Keys, NEW S \in SUBSET Sessions,
         NEW need \in Needs, Exact(p, need)
  PROVE  /\ ReleaseFrom(p, k, S) \in Pool
         /\ Exact(ReleaseFrom(p, k, S), [need EXCEPT ![k] = @ \ S])
<1> DEFINE held   == {s \in p.open \cap S : k \in p.holders[s]}
           closed == {s \in held : p.holders[s] \ {k} = {}}
           q      == ReleaseFrom(p, k, S)
           less   == [need EXCEPT ![k] = @ \ S]
<1>1. q = [open    |-> p.open \ closed,
           holders |-> [s \in Sessions |-> IF s \in held THEN p.holders[s] \ {k} ELSE p.holders[s]],
           dialled |-> [s \in Sessions |-> IF s \in closed THEN NoDoc ELSE p.dialled[s]],
           clients |-> [j \in Keys |-> IF j = k THEN p.clients[j] \ S ELSE p.clients[j] \ closed]]
  BY DEF ReleaseFrom
<1>2. q \in Pool
  BY <1>1 DEF Pool
<1>3. \A s \in Sessions : s \in held <=> s \in S /\ s \in need[k]
  BY DEF Pool, Exact, Needs
<1>4. ASSUME NEW s \in Sessions
      PROVE  q.holders[s] = {j \in Keys : s \in less[j]}
  <2>1. CASE s \in held
    <3>1. q.holders[s] = {j \in Keys : s \in need[j]} \ {k}
      BY <1>1, <2>1 DEF Exact
    <3>2. \A j \in Keys : s \in less[j] <=> s \in need[j] /\ j # k
      BY <1>3, <2>1 DEF Needs
    <3> QED
      BY <3>1, <3>2
  <2>2. CASE s \notin held
    <3>1. q.holders[s] = {j \in Keys : s \in need[j]}
      BY <1>1, <2>2 DEF Exact
    <3>2. \A j \in Keys : s \in less[j] <=> s \in need[j]
      BY <1>3, <2>2 DEF Needs
    <3> QED
      BY <3>1, <3>2
  <2> QED
    BY <2>1, <2>2
<1>5. q.open = {s \in Sessions : q.holders[s] # {}}
  <2>1. p.open = {s \in Sessions : p.holders[s] # {}}
    BY DEF Exact
  <2>2. q.open = p.open \ closed
    BY <1>1
  <2>3. ASSUME NEW s \in Sessions
        PROVE  s \in q.open <=> q.holders[s] # {}
    BY <1>1, <2>1, <2>2 DEF Pool
  <2> QED
    BY <2>1, <2>2, <2>3
<1>6. ASSUME NEW j \in Keys PROVE q.clients[j] = less[j]
  <2>1. p.clients[j] = need[j]
    BY DEF Exact
  <2>2. CASE j = k
    BY <1>1, <2>1, <2>2 DEF Needs
  <2>3. CASE j # k
    <3>1. \A s \in closed : j \notin p.holders[s]
      BY <2>3
    <3>2. \A s \in closed : s \in Sessions /\ s \notin need[j]
      BY <3>1 DEF Exact, Pool
    <3>3. q.clients[j] = need[j] \ closed
      BY <1>1, <2>1, <2>3
    <3> QED
      BY <3>2, <3>3, <2>3 DEF Needs
  <2> QED
    BY <2>2, <2>3
<1> QED
  BY <1>2, <1>4, <1>5, <1>6 DEF Exact

LEMMA ReleaseExact ==
  ASSUME NEW p \in Pool, NEW k \in Keys, NEW need \in Needs, Exact(p, need)
  PROVE  /\ Release(p, k) \in Pool
         /\ Exact(Release(p, k), [need EXCEPT ![k] = {}])
<1> DEFINE q    == ReleaseFrom(p, k, BetmaticAccounts)
           less == [need EXCEPT ![k] = @ \ BetmaticAccounts]
<1>1. q \in Pool /\ Exact(q, less)
  BY ReleaseFromExact DEF Sessions
<1>2. less \in Needs
  BY DEF Needs
<1>3. /\ ReleaseFrom(q, k, BetfairAccounts) \in Pool
      /\ Exact(ReleaseFrom(q, k, BetfairAccounts), [less EXCEPT ![k] = @ \ BetfairAccounts])
  BY <1>1, <1>2, ReleaseFromExact DEF Sessions
<1>4. [less EXCEPT ![k] = @ \ BetfairAccounts] = [need EXCEPT ![k] = {}]
  BY DEF Needs, Sessions
<1> QED
  BY <1>3, <1>4 DEF Release

\* One provider's claim, or none when the document names no account there.
LEMMA ClaimNamedExact ==
  ASSUME NEW p \in Pool, NEW k \in Keys, NEW a \in Sessions \cup {NoAccount},
         NEW d \in Docs, NEW need \in Needs, Exact(p, need)
  PROVE  /\ ClaimNamed(p, k, a, d) \in Pool
         /\ Exact(ClaimNamed(p, k, a, d), [need EXCEPT ![k] = @ \cup ({a} \ {NoAccount})])
<1>1. CASE a = NoAccount
  <2>1. [need EXCEPT ![k] = @ \cup ({a} \ {NoAccount})] = need
    BY <1>1 DEF Needs
  <2> QED
    BY <1>1, <2>1 DEF ClaimNamed
<1>2. CASE a # NoAccount
  <2>1. [need EXCEPT ![k] = @ \cup ({a} \ {NoAccount})] = [need EXCEPT ![k] = @ \cup {a}]
    BY <1>2 DEF Needs
  <2> QED
    BY <1>2, <2>1, ClaimExact DEF ClaimNamed
<1> QED
  BY <1>1, <1>2

\* Account leaves its caller with every session its document names, or with
\* none: a refused Betfair session gives the Betmatic one back.
LEMMA AccountExact ==
  ASSUME NEW p \in Pool, NEW k \in Keys, NEW d \in Docs,
         NEW refused \in SUBSET Sessions,
         NEW need \in Needs, Exact(p, need), need[k] = {}
  PROVE  /\ Account(p, k, d, refused) \in Pool
         /\ Exact(Account(p, k, d, refused),
                  [need EXCEPT ![k] = IF AccountOpens(p, d, refused) THEN Accounts(d) ELSE {}])
<1> DEFINE bm == BetmaticOf[d]
           bf == BetfairOf[d]
           q  == ClaimNamed(p, k, bm, d)
           mid == [need EXCEPT ![k] = @ \cup ({bm} \ {NoAccount})]
<1>1. /\ bm \in BetmaticAccounts \cup {NoAccount}
      /\ bf \in BetfairAccounts \cup {NoAccount}
      /\ bm \in Sessions \cup {NoAccount}
      /\ bf \in Sessions \cup {NoAccount}
      /\ bf \notin BetmaticAccounts
  BY EngineAssumption DEF Sessions
<1>2. q \in Pool /\ Exact(q, mid) /\ mid \in Needs
  BY <1>1, ClaimNamedExact DEF Needs
<1>3. Refused(q, bf, refused) <=> Refused(p, bf, refused)
  BY <1>1 DEF Refused, ClaimNamed, Claim
<1>4. CASE Refused(p, bm, refused)
  <2>1. [need EXCEPT ![k] = {}] = need
    BY DEF Needs
  <2> QED
    BY <1>4, <2>1 DEF Account, AccountOpens
<1>5. CASE ~Refused(p, bm, refused) /\ Refused(p, bf, refused)
  <2>1. Account(p, k, d, refused) = ReleaseFrom(q, k, BetmaticAccounts)
    BY <1>3, <1>5 DEF Account
  <2>2. [mid EXCEPT ![k] = @ \ BetmaticAccounts] = [need EXCEPT ![k] = {}]
    BY <1>1 DEF Needs
  <2>3. ~AccountOpens(p, d, refused)
    BY <1>5 DEF AccountOpens
  <2> HIDE DEF q, mid
  <2>4. /\ ReleaseFrom(q, k, BetmaticAccounts) \in Pool
        /\ Exact(ReleaseFrom(q, k, BetmaticAccounts), [mid EXCEPT ![k] = @ \ BetmaticAccounts])
    BY <1>2, ReleaseFromExact DEF Sessions
  <2> QED
    BY <2>1, <2>2, <2>3, <2>4
<1>6. CASE ~Refused(p, bm, refused) /\ ~Refused(p, bf, refused)
  <2>1. Account(p, k, d, refused) = ClaimNamed(q, k, bf, d)
    BY <1>3, <1>6 DEF Account
  <2>2. [mid EXCEPT ![k] = @ \cup ({bf} \ {NoAccount})] = [need EXCEPT ![k] = Accounts(d)]
    BY DEF Needs, Accounts
  <2>3. AccountOpens(p, d, refused)
    BY <1>6 DEF AccountOpens
  <2> HIDE DEF q, mid
  <2>4. /\ ClaimNamed(q, k, bf, d) \in Pool
        /\ Exact(ClaimNamed(q, k, bf, d), [mid EXCEPT ![k] = @ \cup ({bf} \ {NoAccount})])
    BY <1>1, <1>2, ClaimNamedExact
  <2> QED
    BY <2>1, <2>2, <2>3, <2>4
<1> QED
  BY <1>4, <1>5, <1>6

(***************************************************************************)
(* The inductive invariant.  The properties of Kernel are not inductive by *)
(* themselves; Support adds what their preservation rests on: the phases   *)
(* of the lock, that a loaded process has settings and was not missed, and *)
(* that a state document, unless its write failed, says what was asked.    *)
(***************************************************************************)
Support ==
  /\ restarting => ~running
  /\ restoring # {} => running
  /\ \A k \in restoring : ~Loaded(k) /\ state[k] # "none"
  /\ \A k \in Keys : Loaded(k) => docs[k] # NoDoc /\ k \notin missed
  /\ \A k \in Keys : k \notin dirty => state[k] = want[k]

\* IntentKept in terms of the registry.
Intent ==
  running => \A k \in Keys :
    /\ AppOf[k] \in up
    /\ k \notin restoring
    /\ k \notin dirty
    /\ k \notin missed
    => procs[k] = want[k]

Safe == Registry /\ SettingsCurrent /\ StateHasSettings /\ Intent

IInv == TypeOK /\ SessionsExact /\ Safe /\ Support

\* Need is a function of the right type, and changes with one process.
LEMMA NeedType == TypeOK => Need \in Needs
BY EngineAssumption DEF TypeOK, Need, Needs, Accounts, Sessions, Loaded

(***************************************************************************)
(* addLocked leaves the pool exact for the process loaded or refused.      *)
(***************************************************************************)
LEMMA LoadExact ==
  ASSUME NEW p \in Pool, NEW k \in Keys, NEW d \in Docs \cup {NoDoc}, NEW l \in Load,
         NEW need \in Needs, Exact(p, need), need[k] = {}
  PROVE  /\ PoolAfterLoad(k, d, p, l) \in Pool
         /\ Exact(PoolAfterLoad(k, d, p, l),
                  [need EXCEPT ![k] = IF Loads(k, d, p, l) THEN Accounts(d) ELSE {}])
<1> DEFINE q == Account(p, k, d, l.refused)
<1>1. [need EXCEPT ![k] = {}] = need
  BY DEF Needs
<1>2. l.refused \in SUBSET Sessions
  BY DEF Load
<1>3. CASE d = NoDoc \/ l.fault = "unreadable"
  BY <1>1, <1>3 DEF PoolAfterLoad, Loads, Up
<1>4. CASE d # NoDoc /\ l.fault # "unreadable" /\ Loads(k, d, p, l)
  <2>1. AccountOpens(p, d, l.refused)
    BY <1>4 DEF Loads, Up
  <2>2. d \in Docs
    BY <1>4
  <2>3. PoolAfterLoad(k, d, p, l) = q
    BY <1>4 DEF PoolAfterLoad
  <2>4. q \in Pool /\ Exact(q, [need EXCEPT ![k] = Accounts(d)])
    BY <1>2, <2>1, <2>2, AccountExact
  <2> QED
    BY <1>4, <2>3, <2>4
<1>5. CASE d # NoDoc /\ l.fault # "unreadable" /\ ~Loads(k, d, p, l)
  <2> DEFINE r == IF l.fault = "none" THEN q ELSE p
             mid == [need EXCEPT ![k] = IF AccountOpens(p, d, l.refused) THEN Accounts(d) ELSE {}]
  <2>1. d \in Docs
    BY <1>5
  <2>2. q \in Pool /\ Exact(q, mid)
    BY <1>2, <2>1, AccountExact
  <2>3. mid \in Needs
    BY <2>1, EngineAssumption DEF Needs, Accounts, Sessions
  <2>4. PICK n \in Needs : Exact(r, n) /\ r \in Pool /\ [n EXCEPT ![k] = {}] = need
    <3>1. [mid EXCEPT ![k] = {}] = need
      BY DEF Needs
    <3> QED
      BY <1>1, <2>2, <2>3, <3>1
  <2>5. Release(r, k) \in Pool /\ Exact(Release(r, k), [n EXCEPT ![k] = {}])
    <3> HIDE DEF r
    <3> QED
      BY <2>4, ReleaseExact
  <2>6. PoolAfterLoad(k, d, p, l) = Release(r, k)
    BY <1>5 DEF PoolAfterLoad
  <2> QED
    BY <1>1, <1>5, <2>4, <2>5, <2>6
<1> QED
  BY <1>3, <1>4, <1>5

\* What a load does to types and sessions, from a pool p that serves everybody
\* but k.
LEMMA AddLockedTypes ==
  ASSUME TypeOK, NEW k \in Keys, NEW d \in Docs \cup {NoDoc}, NEW p \in Pool,
         NEW l \in Load, NEW s \in {"stopped", "running"},
         Exact(p, [Need EXCEPT ![k] = {}]),
         AddLocked(k, d, p, l, s)
  PROVE  /\ pool' \in Pool
         /\ SessionsExact'
         /\ procs' \in [Keys -> States]
         /\ built' \in [Keys -> Docs \cup {NoDoc}]
         /\ missed' \in SUBSET Keys
         /\ unsure' \in SUBSET Keys
         /\ \A j \in Keys : Loaded(j)' <=> built'[j] # NoDoc
<1> DEFINE need == [Need EXCEPT ![k] = {}]
           opens == Loads(k, d, p, l)
<1>1. need \in Needs /\ need[k] = {}
  BY NeedType DEF Needs
<1>2. /\ pool' \in Pool
      /\ Exact(pool', [need EXCEPT ![k] = IF opens THEN Accounts(d) ELSE {}])
  BY <1>1, LoadExact DEF AddLocked
<1>3. opens => d # NoDoc
  BY DEF Loads, Up
<1>4. /\ procs' = [procs EXCEPT ![k] = IF opens THEN s ELSE "none"]
      /\ built' = [built EXCEPT ![k] = IF opens THEN d ELSE NoDoc]
      /\ missed' = IF opens THEN missed \ {k} ELSE missed \cup {k}
      /\ unsure' = unsure \ {k}
  BY DEF AddLocked
<1> HIDE DEF opens
<1>5. procs' \in [Keys -> States] /\ built' \in [Keys -> Docs \cup {NoDoc}]
  BY <1>4 DEF TypeOK, States
<1>6. \A j \in Keys : Loaded(j)' <=> built'[j] # NoDoc
  BY <1>3, <1>4 DEF TypeOK, Loaded
<1>7. Need' = [need EXCEPT ![k] = IF opens THEN Accounts(d) ELSE {}]
  BY <1>4 DEF TypeOK, Need, Loaded
<1> QED
  BY <1>2, <1>4, <1>5, <1>6, <1>7 DEF SessionsExact, TypeOK

LEMMA UnloadTypes ==
  ASSUME TypeOK, SessionsExact, NEW k \in Keys, Unload(k)
  PROVE  /\ pool' \in Pool
         /\ SessionsExact'
         /\ procs' \in [Keys -> States]
         /\ built' \in [Keys -> Docs \cup {NoDoc}]
         /\ missed' \in SUBSET Keys
         /\ \A j \in Keys : Loaded(j)' <=> built'[j] # NoDoc
<1>1. /\ Release(pool, k) \in Pool
      /\ Exact(Release(pool, k), [Need EXCEPT ![k] = {}])
  BY NeedType, ReleaseExact DEF SessionsExact, TypeOK
<1>2. Need' = [Need EXCEPT ![k] = {}]
  BY DEF Need, Unload, TypeOK, Loaded
<1> QED
  BY <1>1, <1>2 DEF Unload, SessionsExact, TypeOK, States, Loaded

\* Rebuilding first gives everything k held back.
LEMMA ReleasedExact ==
  ASSUME TypeOK, SessionsExact, NEW k \in Keys
  PROVE  /\ Release(pool, k) \in Pool
         /\ Exact(Release(pool, k), [Need EXCEPT ![k] = {}])
BY NeedType, ReleaseExact DEF SessionsExact, TypeOK

\* An absent process holds nothing.
LEMMA AbsentExact ==
  ASSUME TypeOK, SessionsExact, NEW k \in Keys, ~Loaded(k)
  PROVE  pool \in Pool /\ Exact(pool, [Need EXCEPT ![k] = {}])
<1>1. [Need EXCEPT ![k] = {}] = Need
  BY DEF Need
<1> QED
  BY <1>1 DEF SessionsExact, TypeOK

(***************************************************************************)
(* One lemma per action of Next.                                           *)
(***************************************************************************)
LEMMA InitInv == Init => IInv
<1> SUFFICES ASSUME Init PROVE IInv
  OBVIOUS
<1>1. Need = [k \in Keys |-> {}]
  BY DEF Init, Need, Loaded
<1>2. TypeOK
  BY NewExact DEF Init, TypeOK, States, Loaded
<1>3. SessionsExact
  BY <1>1, NewExact DEF Init, SessionsExact
<1>4. Safe /\ Support
  BY DEF Init, Loaded, Safe, Support, Registry, SettingsCurrent, StateHasSettings, Intent
<1> QED
  BY <1>2, <1>3, <1>4 DEF IInv

\* The runtime is down when it is started: nothing is loaded and no
\* application is up.
LEMMA StartLockedInv ==
  ASSUME IInv, ~running, NEW ok \in SUBSET Apps, NEW unlisted \in SUBSET Apps,
         StartLocked(ok, unlisted), restarting' = FALSE
  PROVE  IInv'
<1> USE DEF IInv
<1>1. up = {} /\ \A k \in Keys : ~Loaded(k)
  BY DEF Safe, Registry
<1>8. /\ restoring' = {k \in Keys : state[k] # "none" /\ AppOf[k] \in up' \ unlisted}
      /\ missed' = {k \in Keys : state[k] # "none" /\ AppOf[k] \in up' \cap unlisted}
  BY DEF StartLocked, Saved
<1>2. TypeOK'
  BY <1>8, NewExact DEF StartLocked, TypeOK, store, Loaded
<1>3. Need' = [k \in Keys |-> {}]
  BY <1>1 DEF StartLocked, Need, Loaded
<1>4. SessionsExact'
  BY <1>3, NewExact DEF StartLocked, SessionsExact
<1>5. Registry' /\ SettingsCurrent' /\ StateHasSettings'
  BY <1>1 DEF StartLocked, store, Loaded, Safe, Registry, SettingsCurrent, StateHasSettings
<1>6. Support'
  <2>1. restarting' => ~running'
    OBVIOUS
  <2>2. restoring' # {} => running'
    BY <1>8 DEF StartLocked
  <2>3. \A k \in restoring' : ~Loaded(k)' /\ state'[k] # "none"
    BY <1>1, <1>8 DEF StartLocked, store, Loaded
  <2>4. \A k \in Keys : Loaded(k)' => docs'[k] # NoDoc /\ k \notin missed'
    BY <1>1 DEF StartLocked, Loaded
  <2>5. \A k \in Keys : k \notin dirty' => state'[k] = want'[k]
    BY DEF StartLocked, store, Support
  <2> QED
    BY <2>1, <2>2, <2>3, <2>4, <2>5 DEF Support
<1>7. Intent'
  <2> SUFFICES ASSUME running', NEW k \in Keys, AppOf[k] \in up', k \notin restoring',
                      k \notin dirty', k \notin missed'
               PROVE  procs'[k] = want'[k]
    BY DEF Intent
  <2>1. state[k] = "none"
    BY <1>8
  <2>2. want[k] = "none"
    BY <2>1 DEF StartLocked, Support
  <2> QED
    BY <1>1, <2>2 DEF StartLocked, Loaded
<1> QED
  BY <1>2, <1>4, <1>5, <1>6, <1>7 DEF Safe

\* Stop and Crash both empty the memory and leave the store alone.
LEMMA DownInv ==
  ASSUME IInv, running' = FALSE, up' = {}, restoring' = {}, restarting' \in BOOLEAN,
         procs' = [k \in Keys |-> "none"], built' = [k \in Keys |-> NoDoc],
         pool' = New, missed' = {}, UNCHANGED <<store, want, dirty, unsure>>
  PROVE  IInv'
<1> USE DEF IInv
<1>1. TypeOK'
  BY NewExact DEF TypeOK, States, store, Loaded
<1>2. Need' = [k \in Keys |-> {}]
  BY DEF Need, Loaded
<1>3. SessionsExact'
  BY <1>2, NewExact DEF SessionsExact
<1>4. Safe' /\ Support'
  BY DEF Loaded, store, Safe, Support, Registry, SettingsCurrent, StateHasSettings, Intent
<1> QED
  BY <1>1, <1>3, <1>4

LEMMA RestoreInv ==
  ASSUME IInv, NEW k \in Keys, NEW l \in Load, Restore(k, l)
  PROVE  IInv'
<1> USE DEF IInv
<1> DEFINE opens == Loads(k, docs[k], pool, l)
<1>1. ~Loaded(k) /\ k \in restoring /\ state[k] \in {"stopped", "running"} /\ ~restarting
  BY DEF Restore, Support, TypeOK, States
<1>2. AddLocked(k, docs[k], pool, l, state[k]) /\ docs[k] \in Docs \cup {NoDoc}
  BY DEF Restore, TypeOK
<1>3. /\ pool' \in Pool
      /\ SessionsExact'
      /\ procs' \in [Keys -> States]
      /\ built' \in [Keys -> Docs \cup {NoDoc}]
      /\ missed' \in SUBSET Keys
      /\ unsure' \in SUBSET Keys
      /\ \A j \in Keys : Loaded(j)' <=> built'[j] # NoDoc
  BY <1>1, <1>2, AbsentExact, AddLockedTypes
<1>4. TypeOK'
  BY <1>3 DEF TypeOK, Restore, store
<1>5. opens => docs[k] # NoDoc /\ AppOf[k] \in up
  BY DEF Loads, Up
<1>6. /\ procs' = [procs EXCEPT ![k] = IF opens THEN state[k] ELSE "none"]
      /\ built' = [built EXCEPT ![k] = IF opens THEN docs[k] ELSE NoDoc]
      /\ missed' = IF opens THEN missed \ {k} ELSE missed \cup {k}
      /\ unsure' = unsure \ {k}
  BY <1>2 DEF AddLocked
<1>7. UNCHANGED <<docs, state, running, up, restarting, want, dirty>> /\ restoring' = restoring \ {k}
  BY DEF Restore, store
<1> HIDE DEF opens
<1>8. Safe' /\ Support'
  BY <1>1, <1>5, <1>6, <1>7 DEF Loaded, TypeOK, Safe, Support, Registry, SettingsCurrent,
     StateHasSettings, Intent
<1> QED
  BY <1>3, <1>4, <1>8

LEMMA AddProcessInv ==
  ASSUME IInv, NEW k \in Keys, NEW l \in Load, NEW w \in Write, AddProcess(k, l, w)
  PROVE  IInv'
<1> USE DEF IInv
<1> DEFINE opens == Loads(k, docs[k], pool, l)
<1>1. ~Loaded(k) /\ docs[k] \in Docs \cup {NoDoc} /\ AddLocked(k, docs[k], pool, l, "stopped")
  BY DEF AddProcess, TypeOK
<1>2. /\ pool' \in Pool
      /\ SessionsExact'
      /\ procs' \in [Keys -> States]
      /\ built' \in [Keys -> Docs \cup {NoDoc}]
      /\ missed' \in SUBSET Keys
      /\ unsure' \in SUBSET Keys
      /\ \A j \in Keys : Loaded(j)' <=> built'[j] # NoDoc
  BY <1>1, AbsentExact, AddLockedTypes
<1>3. opens => docs[k] # NoDoc /\ AppOf[k] \in up
  BY DEF Loads, Up
<1>4. /\ procs' = [procs EXCEPT ![k] = IF opens THEN "stopped" ELSE "none"]
      /\ built' = [built EXCEPT ![k] = IF opens THEN docs[k] ELSE NoDoc]
      /\ missed' = IF opens THEN missed \ {k} ELSE missed \cup {k}
      /\ unsure' = unsure \ {k}
  BY <1>1 DEF AddLocked
<1>5. /\ UNCHANGED <<docs, running, up, restoring, restarting>>
      /\ IF opens THEN PutState(k, "stopped", w) ELSE UNCHANGED <<state, want, dirty>>
      /\ restoring = {}
  BY DEF AddProcess, Quiet, Unlocked
<1> HIDE DEF opens
<1>6. TypeOK'
  BY <1>2, <1>5 DEF TypeOK, PutState, States
<1>7. Safe' /\ Support'
  BY <1>1, <1>3, <1>4, <1>5 DEF PutState, Loaded, TypeOK, Safe, Support, Registry,
     SettingsCurrent, StateHasSettings, Intent
<1> QED
  BY <1>2, <1>6, <1>7

LEMMA SetRunningInv ==
  ASSUME IInv, NEW k \in Keys, NEW s \in {"stopped", "running"}, NEW w \in Write,
         SetRunning(k, s, w)
  PROVE  IInv'
<1> USE DEF IInv
<1>1. TypeOK'
  BY DEF SetRunning, PutState, Quiet, TypeOK, States, Loaded
<1>2. Need' = Need
  BY DEF SetRunning, Need, Loaded, TypeOK
<1>3. SessionsExact'
  BY <1>2 DEF SetRunning, SessionsExact
<1>4. Safe' /\ Support'
  BY DEF SetRunning, PutState, Quiet, Unlocked, Loaded, TypeOK, Safe, Support, Registry,
     SettingsCurrent, StateHasSettings, Intent
<1> QED
  BY <1>1, <1>3, <1>4

\* Either way a rebuild ends: the process is back, on the settings in the store
\* and with the status asked for, or it is gone and its state document says so.
LEMMA RebuildInv ==
  ASSUME IInv, NEW k \in Keys, NEW l \in Load, NEW w \in Write,
         NEW s \in {"stopped", "running"}, Unlocked, Loaded(k),
         docs' \in [Keys -> Docs \cup {NoDoc}], docs'[k] # NoDoc,
         \A j \in Keys \ {k} : docs'[j] = docs[j],
         Rebuild(k, l, s),
         \/ Rebuilds(k, l) /\ procs[k] = s /\ UNCHANGED <<state, want, dirty>>
         \/ PutState(k, IF Rebuilds(k, l) THEN s ELSE "stopped", w),
         Quiet
  PROVE  IInv'
<1> USE DEF IInv
<1> DEFINE opens == Loads(k, docs'[k], Release(pool, k), l)
<1>1. docs'[k] \in Docs \cup {NoDoc} /\ AddLocked(k, docs'[k], Release(pool, k), l, s)
  BY DEF Rebuild
<1>2. Release(pool, k) \in Pool /\ Exact(Release(pool, k), [Need EXCEPT ![k] = {}])
  BY ReleasedExact
<1>3. /\ pool' \in Pool
      /\ SessionsExact'
      /\ procs' \in [Keys -> States]
      /\ built' \in [Keys -> Docs \cup {NoDoc}]
      /\ missed' \in SUBSET Keys
      /\ unsure' \in SUBSET Keys
      /\ \A j \in Keys : Loaded(j)' <=> built'[j] # NoDoc
  BY <1>1, <1>2, AddLockedTypes
<1>4. opens => AppOf[k] \in up
  BY DEF Loads, Up
<1>5. /\ procs' = [procs EXCEPT ![k] = IF opens THEN s ELSE "none"]
      /\ built' = [built EXCEPT ![k] = IF opens THEN docs'[k] ELSE NoDoc]
      /\ missed' = IF opens THEN missed \ {k} ELSE missed \cup {k}
      /\ unsure' = unsure \ {k}
  BY <1>1 DEF AddLocked
<1>6. /\ UNCHANGED <<running, up, restoring, restarting>>
      /\ restoring = {}
      /\ \/ opens /\ procs[k] = s /\ UNCHANGED <<state, want, dirty>>
         \/ PutState(k, IF opens THEN s ELSE "stopped", w)
  BY DEF Quiet, Unlocked, Rebuilds
<1> HIDE DEF opens
<1>7. TypeOK'
  BY <1>3, <1>6 DEF TypeOK, PutState, States
<1>8. Safe' /\ Support'
  <2>1. Registry' /\ SettingsCurrent'
    BY <1>4, <1>5, <1>6 DEF Loaded, TypeOK, Safe, Registry, SettingsCurrent
  <2>2. StateHasSettings'
    BY <1>6 DEF PutState, TypeOK, Safe, StateHasSettings
  <2>3. Support'
    BY <1>5, <1>6 DEF PutState, Loaded, TypeOK, Support
  <2>4. Intent'
    <3>1. k \notin dirty => procs[k] = want[k]
      BY DEF Safe, Registry, Intent, Support, Loaded, Unlocked
    <3> QED
      BY <1>5, <1>6, <3>1 DEF PutState, TypeOK, Safe, Intent
  <2> QED
    BY <2>1, <2>2, <2>3, <2>4 DEF Safe
<1> QED
  BY <1>3, <1>7, <1>8

LEMMA RestartProcessInv ==
  ASSUME IInv, NEW k \in Keys, NEW l \in Load, NEW w \in Write, RestartProcess(k, l, w)
  PROVE  IInv'
<1>1. docs'[k] # NoDoc /\ docs' \in [Keys -> Docs \cup {NoDoc}] /\ docs' = docs
  BY DEF RestartProcess, IInv, Support, TypeOK
<1> QED
  BY <1>1, RebuildInv DEF RestartProcess

LEMMA SaveReloadsInv ==
  ASSUME IInv, NEW k \in Keys, NEW d \in Docs, NEW l \in Load, NEW w \in Write,
         SaveReloads(k, d, l, w)
  PROVE  IInv'
<1>1. /\ docs' \in [Keys -> Docs \cup {NoDoc}]
      /\ docs'[k] # NoDoc
      /\ \A j \in Keys \ {k} : docs'[j] = docs[j]
  BY EngineAssumption DEF SaveReloads, IInv, TypeOK
<1>2. procs[k] \in {"stopped", "running"}
  BY DEF SaveReloads, IInv, TypeOK, States, Loaded
<1>3. running /\ Loaded(k) /\ Unlocked /\ Quiet /\ Rebuild(k, l, procs[k])
  BY DEF SaveReloads
<1>4. CASE Rebuilds(k, l) /\ procs[k] = "stopped"
  <2>1. UNCHANGED <<state, want, dirty>>
    BY <1>4 DEF SaveReloads
  <2> QED
    BY <1>1, <1>2, <1>3, <1>4, <2>1, RebuildInv
<1>5. CASE ~(Rebuilds(k, l) /\ procs[k] = "stopped")
  <2>1. PutState(k, IF Rebuilds(k, l) THEN procs[k] ELSE "stopped", w)
    BY <1>2, <1>5 DEF SaveReloads
  <2> QED
    BY <1>1, <1>2, <1>3, <2>1, RebuildInv
<1> QED
  BY <1>4, <1>5

LEMMA DeleteProcessInv ==
  ASSUME IInv, NEW k \in Keys, NEW w \in Write, DeleteProcess(k, w)
  PROVE  IInv'
<1> USE DEF IInv
<1>1. Unload(k)
  BY DEF DeleteProcess
<1>2. TypeOK' /\ SessionsExact'
  BY <1>1, UnloadTypes DEF DeleteProcess, PutState, Quiet, TypeOK, States
<1>3. Safe' /\ Support'
  BY <1>1 DEF DeleteProcess, Unload, PutState, Quiet, Unlocked, Loaded, TypeOK, Safe, Support,
     Registry, SettingsCurrent, StateHasSettings, Intent
<1> QED
  BY <1>2, <1>3

LEMMA SaveFailsInv ==
  ASSUME IInv, NEW k \in Keys, NEW d \in Docs, SaveFails(k, d)
  PROVE  IInv'
<1> USE DEF IInv
<1>1. TypeOK' /\ Need' = Need
  BY DEF SaveFails, memory, TypeOK, Need, Loaded
<1>2. SessionsExact'
  BY <1>1 DEF SaveFails, memory, SessionsExact
<1>3. Safe' /\ Support'
  BY EngineAssumption DEF SaveFails, memory, Loaded, TypeOK, Safe, Support, Registry,
     SettingsCurrent, StateHasSettings, Intent
<1> QED
  BY <1>1, <1>2, <1>3

LEMMA SaveUnloadedInv ==
  ASSUME IInv, NEW k \in Keys, NEW d \in Docs, SaveUnloaded(k, d)
  PROVE  IInv'
<1> USE DEF IInv
<1>1. TypeOK' /\ Need' = Need
  BY DEF SaveUnloaded, memory, history, TypeOK, Need, Loaded
<1>2. SessionsExact'
  BY <1>1 DEF SaveUnloaded, memory, SessionsExact
<1>3. Safe' /\ Support'
  BY EngineAssumption DEF SaveUnloaded, memory, history, Loaded, TypeOK, Safe, Support,
     Registry, SettingsCurrent, StateHasSettings, Intent
<1> QED
  BY <1>1, <1>2, <1>3

LEMMA DeleteProcessSettingsInv ==
  ASSUME IInv, NEW k \in Keys, NEW f \in Write, NEW g \in Write,
         DeleteProcessSettings(k, f, g)
  PROVE  IInv'
<1> USE DEF IInv
<1>1. /\ PutState(k, "none", f)
      /\ docs' = IF f = "done" /\ g # "failed" THEN [docs EXCEPT ![k] = NoDoc] ELSE docs
      /\ Quiet /\ Unlocked
      /\ UNCHANGED unsure
  BY DEF DeleteProcessSettings
<1>2. CASE running /\ Loaded(k)
  <2>1. Unload(k)
    BY <1>2 DEF DeleteProcessSettings
  <2>2. TypeOK' /\ SessionsExact'
    BY <1>1, <2>1, UnloadTypes DEF PutState, Quiet, TypeOK, States
  <2>3. Safe' /\ Support'
    BY <1>1, <2>1 DEF Unload, PutState, Quiet, Unlocked, Loaded, TypeOK, Safe, Support,
       Registry, SettingsCurrent, StateHasSettings, Intent
  <2> QED
    BY <2>2, <2>3
<1>3. CASE ~(running /\ Loaded(k))
  <2>1. missed' = missed \ {k} /\ UNCHANGED <<procs, built, pool>> /\ ~Loaded(k)
    BY <1>3 DEF DeleteProcessSettings, Safe, Registry, TypeOK
  <2>2. TypeOK' /\ Need' = Need
    BY <1>1, <2>1 DEF PutState, Quiet, TypeOK, States, Need, Loaded
  <2>3. SessionsExact'
    BY <2>1, <2>2 DEF SessionsExact
  <2>4. Safe' /\ Support'
    BY <1>1, <2>1 DEF PutState, Quiet, Unlocked, Loaded, TypeOK, Safe, Support, Registry,
       SettingsCurrent, StateHasSettings, Intent
  <2> QED
    BY <2>2, <2>3, <2>4
<1> QED
  BY <1>2, <1>3

(***************************************************************************)
(* The theorems.                                                           *)
(***************************************************************************)

\* IInv holds in every state of every behaviour.
THEOREM Invariance == Spec => []IInv
<1>1. IInv /\ [Next]_vars => IInv'
  <2> SUFFICES ASSUME IInv, [Next]_vars PROVE IInv'
    OBVIOUS
  <2>1. CASE UNCHANGED vars
    <3>1. Need' = Need
      BY <2>1 DEF Need, Loaded, vars, memory
    <3> QED
      BY <2>1, <3>1 DEF IInv, TypeOK, SessionsExact, Loaded, vars, store, memory, history,
         Unlocked, Safe, Support, Registry, SettingsCurrent, StateHasSettings, Intent
  <2>2. ASSUME NEW ok \in SUBSET Apps, NEW unlisted \in SUBSET Apps, Start(ok, unlisted)
        PROVE  IInv'
    <3>1. restarting' = FALSE
      BY <2>2 DEF Start, Unlocked, IInv, TypeOK
    <3> QED
      BY <2>2, <3>1, StartLockedInv DEF Start
  <2>3. ASSUME NEW ok \in SUBSET Apps, NEW unlisted \in SUBSET Apps, RestartStarts(ok, unlisted)
        PROVE  IInv'
    BY <2>3, StartLockedInv DEF RestartStarts, IInv, Support
  <2>4. CASE Stop
    BY <2>4, DownInv DEF Stop, StopLocked, Close, Unlocked, IInv, TypeOK, store
  <2>5. CASE RestartStops
    BY <2>5, DownInv DEF RestartStops, StopLocked, Close, Unlocked, store
  <2>6. CASE Crash
    BY <2>6, DownInv DEF Crash, store
  <2>7. ASSUME NEW k \in Keys, NEW l \in Load, Restore(k, l) PROVE IInv'
    BY <2>7, RestoreInv
  <2>8. ASSUME NEW k \in Keys, NEW l \in Load, NEW w \in Write,
               AddProcess(k, l, w) \/ RestartProcess(k, l, w)
        PROVE  IInv'
    BY <2>8, AddProcessInv, RestartProcessInv
  <2>9. ASSUME NEW k \in Keys, NEW w \in Write,
               StartProcess(k, w) \/ StopProcess(k, w) \/ DeleteProcess(k, w)
        PROVE  IInv'
    BY <2>9, SetRunningInv, DeleteProcessInv DEF StartProcess, StopProcess
  <2>10. ASSUME NEW k \in Keys, NEW d \in Docs, SaveFails(k, d) \/ SaveUnloaded(k, d)
         PROVE  IInv'
    BY <2>10, SaveFailsInv, SaveUnloadedInv
  <2>11. ASSUME NEW k \in Keys, NEW d \in Docs, NEW l \in Load, NEW w \in Write,
                SaveReloads(k, d, l, w)
         PROVE  IInv'
    BY <2>11, SaveReloadsInv
  <2>12. ASSUME NEW k \in Keys, NEW f \in Write, NEW g \in Write, DeleteProcessSettings(k, f, g)
         PROVE  IInv'
    BY <2>12, DeleteProcessSettingsInv
  <2> QED
    BY <2>1, <2>2, <2>3, <2>4, <2>5, <2>6, <2>7, <2>8, <2>9, <2>10, <2>11, <2>12 DEF Next
<1> QED
  BY <1>1, InitInv, PTL DEF Spec

\* Types, and the registry's agreement with what its processes were built from.
THEOREM TypeCorrect == Spec => []TypeOK
<1>1. IInv => TypeOK
  BY DEF IInv
<1> QED
  BY <1>1, Invariance, PTL

\* No loaded process outside an application that is up, none in a runtime that
\* is down.
THEOREM RegistryInv == Spec => []Registry
<1>1. IInv => Registry
  BY DEF IInv, Safe
<1> QED
  BY <1>1, Invariance, PTL

\* Sessions are held by exactly the loaded processes that need them, and nobody
\* is logged out by another's delete, rebuild or failed load.
THEOREM SessionsExactInv == Spec => []SessionsExact
<1>1. IInv => SessionsExact
  BY DEF IInv
<1> QED
  BY <1>1, Invariance, PTL

\* A loaded process runs on the settings in the store.
THEOREM SettingsCurrentInv == Spec => []SettingsCurrent
<1>1. IInv => SettingsCurrent
  BY DEF IInv, Safe
<1> QED
  BY <1>1, Invariance, PTL

\* A state document never outlives the settings it is about.
THEOREM StateHasSettingsInv == Spec => []StateHasSettings
<1>1. IInv => StateHasSettings
  BY DEF IInv, Safe
<1> QED
  BY <1>1, Invariance, PTL

\* A start brings back what the operators last asked for.
THEOREM IntentKeptInv == Spec => []IntentKept
<1>1. IInv => IntentKept
  BY DEF IInv, Safe, Intent, IntentKept, Shown, Up
<1> QED
  BY <1>1, Invariance, PTL

\* A save never starts a stopped process nor stops a running one that it
\* manages to rebuild; only DeleteProcessSettings and the saves write docs.
THEOREM ReloadKeepsStatusHolds == Spec => ReloadKeepsStatus
<1> DEFINE A == \A k \in Keys : docs'[k] # docs[k] => procs'[k] \in {procs[k], "none"}
<1>1. IInv /\ [Next]_vars => [A]_vars
  <2> SUFFICES ASSUME IInv, Next, NEW j \in Keys, docs'[j] # docs[j]
               PROVE  procs'[j] \in {procs[j], "none"}
    OBVIOUS
  <2>1. ASSUME NEW k \in Keys, NEW d \in Docs, SaveFails(k, d) \/ SaveUnloaded(k, d)
        PROVE  procs' = procs
    BY <2>1 DEF SaveFails, SaveUnloaded, memory
  <2>2. ASSUME NEW k \in Keys, NEW d \in Docs, NEW l \in Load, NEW w \in Write,
               SaveReloads(k, d, l, w)
        PROVE  procs'[j] \in {procs[j], "none"}
    <3>1. k = j
      BY <2>2 DEF SaveReloads, IInv, TypeOK
    <3> QED
      BY <2>2, <3>1 DEF SaveReloads, Rebuild, AddLocked, IInv, TypeOK
  <2>3. ASSUME NEW k \in Keys, NEW f \in Write, NEW g \in Write, DeleteProcessSettings(k, f, g)
        PROVE  procs'[j] \in {procs[j], "none"}
    BY <2>3 DEF DeleteProcessSettings, Unload, IInv, TypeOK
  <2> QED
    BY <2>1, <2>2, <2>3
    DEF Next, Start, RestartStarts, StartLocked, Stop, RestartStops, StopLocked, Crash, Restore,
        AddProcess, RestartProcess, StartProcess, StopProcess, SetRunning, DeleteProcess, store
<1> QED
  BY <1>1, Invariance, PTL DEF ReloadKeepsStatus, Spec

\* What Account opens itself, it dials with the document it was given.
LEMMA AccountDials ==
  ASSUME NEW p \in Pool, NEW k \in Keys, NEW d \in Docs, NEW refused \in SUBSET Sessions,
         AccountOpens(p, d, refused), NEW s \in Accounts(d), s \notin p.open
  PROVE  Account(p, k, d, refused).dialled[s] = d
<1> DEFINE bm == BetmaticOf[d]
           bf == BetfairOf[d]
           q  == ClaimNamed(p, k, bm, d)
           r  == ClaimNamed(q, k, bf, d)
<1>1. /\ bm \in BetmaticAccounts \cup {NoAccount}
      /\ bf \in BetfairAccounts \cup {NoAccount}
      /\ bm = bf => bm = NoAccount
      /\ s \in Sessions /\ s # NoAccount
  BY EngineAssumption DEF Accounts, Sessions
<1>2. Account(p, k, d, refused) = r
  <2>1. ~Refused(p, bm, refused) /\ ~Refused(p, bf, refused)
    BY DEF AccountOpens
  <2>2. ~Refused(q, bf, refused)
    BY <1>1, <2>1 DEF Refused, ClaimNamed, Claim
  <2> QED
    BY <2>1, <2>2 DEF Account
<1>3. CASE s = bm
  <2>1. q.dialled[s] = d
    BY <1>1, <1>3 DEF ClaimNamed, Claim, Pool
  <2>2. bf # s
    BY <1>1, <1>3
  <2>3. s \in DOMAIN q.dialled
    BY <1>1 DEF ClaimNamed, Claim, Pool
  <2> HIDE DEF q
  <2>4. r.dialled[s] = q.dialled[s]
    BY <2>2, <2>3 DEF ClaimNamed, Claim
  <2> QED
    BY <1>2, <2>1, <2>4
<1>4. CASE s = bf
  <2>1. bm # s
    BY <1>1, <1>4
  <2>2. s \notin q.open /\ s \in DOMAIN q.dialled
    BY <1>1, <2>1 DEF ClaimNamed, Claim, Pool
  <2>3. r.dialled[s] = d
    BY <1>1, <1>4, <2>2 DEF ClaimNamed, Claim
  <2> QED
    BY <1>2, <2>3
<1> QED
  BY <1>3, <1>4 DEF Accounts

\* A rebuild has closed what only its process held before it opens anything.
LEMMA RebuildDials ==
  ASSUME IInv, NEW k \in Keys, NEW l \in Load, NEW t, Rebuild(k, l, t),
         docs'[k] \in Docs \cup {NoDoc}, built'[k] # NoDoc,
         NEW s \in Accounts(built'[k]), pool.holders[s] \subseteq {k}
  PROVE  pool'.dialled[s] = built'[k]
<1> DEFINE d == docs'[k]
           p == Release(pool, k)
<1>1. AddLocked(k, d, p, l, t)
  BY DEF Rebuild
<1>2. Loads(k, d, p, l) /\ built'[k] = d /\ d \in Docs
  BY <1>1 DEF AddLocked, IInv, TypeOK
<1>3. s \in Sessions
  BY <1>2, EngineAssumption DEF Accounts, Sessions
<1>4. p \in Pool /\ Exact(p, [Need EXCEPT ![k] = {}])
  BY ReleasedExact DEF IInv
<1>5. s \notin p.open
  <2>1. \A j \in Keys : s \in Need[j] => j = k
    BY <1>3 DEF IInv, SessionsExact, Exact
  <2>2. \A j \in Keys : s \notin [Need EXCEPT ![k] = {}][j]
    BY <2>1, NeedType DEF IInv, Needs
  <2>3. p.holders[s] = {j \in Keys : s \in [Need EXCEPT ![k] = {}][j]}
    BY <1>3, <1>4 DEF Exact
  <2> QED
    BY <1>4, <2>2, <2>3 DEF Exact
<1>6. pool' = Account(p, k, d, l.refused) /\ AccountOpens(p, d, l.refused)
  BY <1>1, <1>2 DEF AddLocked, PoolAfterLoad, Loads, Up
<1>7. l.refused \in SUBSET Sessions
  BY DEF Load
<1> HIDE DEF p, d
<1> QED
  BY <1>2, <1>4, <1>5, <1>6, <1>7, AccountDials

\* New credentials take effect when the process was the only one to hold the
\* account: no other action changes what a loaded process is built from.
THEOREM SoleHolderRedialsHolds == Spec => SoleHolderRedials
<1> DEFINE A == \A k \in Keys :
                  Loaded(k) /\ built'[k] \notin {NoDoc, built[k]} =>
                    \A s \in Accounts(built'[k]) :
                      pool.holders[s] \subseteq {k} => pool'.dialled[s] = built'[k]
<1>1. IInv /\ [Next]_vars => [A]_vars
  <2> SUFFICES ASSUME IInv, Next, NEW j \in Keys, Loaded(j), built'[j] \notin {NoDoc, built[j]},
                      NEW s \in Accounts(built'[j]), pool.holders[s] \subseteq {j}
               PROVE  pool'.dialled[s] = built'[j]
    OBVIOUS
  <2>1. built \in [Keys -> Docs \cup {NoDoc}] /\ docs \in [Keys -> Docs \cup {NoDoc}]
    BY DEF IInv, TypeOK
  <2>2. ASSUME NEW k \in Keys, NEW d, NEW p, NEW l, NEW t, ~Loaded(k), AddLocked(k, d, p, l, t)
        PROVE  FALSE
    BY <2>1, <2>2 DEF AddLocked
  <2>3. ASSUME NEW k \in Keys, NEW l \in Load, NEW t, Rebuild(k, l, t),
               docs'[k] \in Docs \cup {NoDoc}
        PROVE  pool'.dialled[s] = built'[j]
    <3>1. k = j
      BY <2>1, <2>3 DEF Rebuild, AddLocked
    <3> QED
      BY <2>3, <3>1, RebuildDials
  <2>4. ASSUME NEW k \in Keys, NEW l \in Load, NEW w \in Write, RestartProcess(k, l, w)
        PROVE  pool'.dialled[s] = built'[j]
    BY <2>1, <2>3, <2>4 DEF RestartProcess
  <2>5. ASSUME NEW k \in Keys, NEW d \in Docs, NEW l \in Load, NEW w \in Write,
               SaveReloads(k, d, l, w)
        PROVE  pool'.dialled[s] = built'[j]
    BY <2>1, <2>3, <2>5 DEF SaveReloads
  <2>6. ASSUME NEW k \in Keys, NEW l \in Load,
               Restore(k, l) \/ \E w \in Write : AddProcess(k, l, w)
        PROVE  FALSE
    BY <2>2, <2>6 DEF Restore, AddProcess
  <2>7. ASSUME NEW k \in Keys, Unload(k) PROVE FALSE
    BY <2>1, <2>7 DEF Unload
  <2>8. built' # built /\ ~\A i \in Keys : built'[i] = NoDoc
    OBVIOUS
  <2>9. ASSUME NEW ok \in SUBSET Apps, NEW unlisted \in SUBSET Apps,
               Start(ok, unlisted) \/ RestartStarts(ok, unlisted)
        PROVE  FALSE
    BY <2>8, <2>9 DEF Start, RestartStarts, StartLocked
  <2>10. CASE Stop \/ RestartStops \/ Crash
    BY <2>8, <2>10 DEF Stop, RestartStops, StopLocked, Crash
  <2>11. ASSUME NEW k \in Keys, NEW w \in Write,
                StartProcess(k, w) \/ StopProcess(k, w) \/ DeleteProcess(k, w)
         PROVE  FALSE
    BY <2>7, <2>8, <2>11 DEF StartProcess, StopProcess, SetRunning, DeleteProcess
  <2>12. ASSUME NEW k \in Keys, NEW d \in Docs, SaveFails(k, d) \/ SaveUnloaded(k, d)
         PROVE  FALSE
    BY <2>8, <2>12 DEF SaveFails, SaveUnloaded, memory
  <2>13. ASSUME NEW k \in Keys, NEW f \in Write, NEW g \in Write, DeleteProcessSettings(k, f, g)
         PROVE  FALSE
    BY <2>7, <2>8, <2>13 DEF DeleteProcessSettings
  <2> QED
    BY <2>4, <2>5, <2>6, <2>9, <2>10, <2>11, <2>12, <2>13 DEF Next
<1> QED
  BY <1>1, Invariance, PTL DEF SoleHolderRedials, Spec
=============================================================================
