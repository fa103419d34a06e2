--------------------------- MODULE ServiceProofs ----------------------------
(***************************************************************************)
(* Proofs about the command and its API (Service), for any number of       *)
(* requests and keys.                                                      *)
(***************************************************************************)
EXTENDS Service, TLAPS

-----------------------------------------------------------------------------
(* Types *)

\* A request that waits for nothing, and any request that looks up a key.
LEMMA AtTypes ==
  ASSUME NEW kid \in Kids \cup {None}, NEW step \in Places
  PROVE  At(step, kid) \in States /\ At(step, kid).at = step
<1>1. Nothing \in Asks BY DEF Nothing, Asks
<1> QED BY <1>1 DEF At, States

LEMMA IdleType == Idle \in States /\ Idle.at = "idle"
BY AtTypes DEF Idle, Places

LEMMA InitTypes == Init => TypeOK
BY IdleType, ServiceAssumption DEF Init, TypeOK

\* The verifier and the handlers: a request moves, and takes or gives back the lock.
LEMMA RequestTypes ==
  ASSUME TypeOK, NEW r \in Requests,
         Checks(r) \/ Lock(r) \/ Act(r) \/ \E kid \in Kids : Arrive(r, kid)
  PROVE  TypeOK'
<1> USE ServiceAssumption, IdleType
<1>1. CASE \E kid \in Kids : Arrive(r, kid)
  <2> PICK kid \in Kids : Arrive(r, kid) BY <1>1
  <2>1. At("lookup", kid) \in States /\ At("lookup", kid).at = "lookup" BY AtTypes DEF Places
  <2> QED BY <2>1 DEF TypeOK, Arrive, authVars, kernelVars, mainVars
<1>2. CASE Lookup(r)
  BY <1>2 DEF TypeOK, Lookup, Moves, States, Places, authVars, kernelVars, mainVars
<1>3. CASE LookupAgain(r)
  <2>1. CASE req[r].kid \in keys
    BY <1>3, <2>1 DEF TypeOK, LookupAgain, Moves, States, Places, authVars, kernelVars, mainVars
  <2>2. CASE req[r].kid \notin keys
    BY <1>3, <2>2 DEF TypeOK, LookupAgain, Refused, authVars, kernelVars, mainVars
  <2> QED BY <2>1, <2>2
<1>4. CASE Refresh(r)
  BY <1>4 DEF TypeOK, Refresh, Moves, States, Places, authVars, kernelVars, mainVars
<1>5. CASE Fetched(r)
  BY <1>5 DEF TypeOK, Fetched, States, Places, authVars, kernelVars, mainVars
<1>6. CASE FetchFails(r)
  BY <1>6 DEF TypeOK, FetchFails, Refused, authVars, kernelVars, mainVars
<1>7. CASE Store(r)
  <2>1. /\ req[r] \in States /\ req[r].got \in SUBSET Kids /\ req[r].kid \in Kids \cup {None}
    BY DEF TypeOK, States
  <2>2. At("again", req[r].kid) \in States /\ At("again", req[r].kid).at = "again"
    BY <2>1, AtTypes DEF Places
  <2> QED BY <1>7, <2>1, <2>2 DEF TypeOK, Store, kernelVars, mainVars
<1>8. CASE Verify(r)
  <2>1. CASE Refused(r) BY <1>8, <2>1 DEF TypeOK, Verify, Refused, authVars, kernelVars, mainVars
  <2>2. ASSUME NEW ask \in Asks, req' = [req EXCEPT ![r].at = "waiting", ![r].ask = ask] PROVE TypeOK'
    BY <1>8, <2>2 DEF TypeOK, Verify, States, Places, authVars, kernelVars, mainVars
  <2> QED BY <1>8, <2>1, <2>2 DEF Verify
<1>9. CASE Lock(r)
  BY <1>9 DEF TypeOK, Lock, Moves, States, Places, authVars, mainVars
<1>10. CASE Act(r)
  BY <1>10 DEF TypeOK, Act, Refused, authVars, mainVars
<1> QED BY <1>1, <1>2, <1>3, <1>4, <1>5, <1>6, <1>7, <1>8, <1>9, <1>10 DEF Checks

LEMMA OtherTypes ==
  ASSUME TypeOK, Rotate \/ Ages \/ Main \/ UNCHANGED vars
  PROVE  TypeOK'
<1> USE ServiceAssumption
<1>1. CASE Rotate BY <1>1 DEF TypeOK, Rotate, kernelVars, mainVars
<1>2. CASE Ages BY <1>2 DEF TypeOK, Ages, kernelVars, mainVars
<1>3. CASE Signal BY <1>3 DEF TypeOK, Signal, authVars, kernelVars
<1>4. CASE Drained BY <1>4 DEF TypeOK, Drained, authVars, kernelVars
<1>5. CASE GivesUp BY <1>5 DEF TypeOK, GivesUp, authVars, kernelVars
<1>6. CASE KernelStops BY <1>6 DEF TypeOK, KernelStops, authVars
<1>7. CASE KernelStopped BY <1>7 DEF TypeOK, KernelStopped, authVars
<1>8. CASE Exit BY <1>8 DEF TypeOK, Exit, authVars, kernelVars
<1>9. CASE UNCHANGED vars BY <1>9 DEF TypeOK, vars, authVars, kernelVars, mainVars
<1> QED BY <1>1, <1>2, <1>3, <1>4, <1>5, <1>6, <1>7, <1>8, <1>9 DEF Main

LEMMA NextTypes == TypeOK /\ [Next]_vars => TypeOK'
BY RequestTypes, OtherTypes DEF Next

\* The variables of the command and its API keep their types, and the kernel's lock has one
\* holder, who has it (main.go, server.go, jwks.go).
THEOREM TypeCorrect == Spec => []TypeOK
<1>1. Init => TypeOK BY InitTypes
<1>2. TypeOK /\ [Next]_vars => TypeOK' BY NextTypes
<1> QED BY <1>1, <1>2, PTL DEF Spec

-----------------------------------------------------------------------------
(* What a request that acts may do *)

\* No key is known that was never published, wherever it is: in the cache, in an answer on
\* its way to the cache, or in a request that has passed.
Published(q) ==
  /\ q.got \subseteq ever
  /\ q.at \in {"known", "waiting", "acting"} => q.kid \in ever
  /\ q.at \in {"waiting", "acting"} => Allowed(q.ask)

KeysPublished ==
  /\ published \subseteq ever
  /\ keys \subseteq ever
  /\ \A r \in Requests : Published(req[r])

LEMMA InitPublished == Init => KeysPublished
BY DEF Init, KeysPublished, Published, Idle, At

LEMMA RequestPublished ==
  ASSUME TypeOK, KeysPublished, NEW r \in Requests,
         Checks(r) \/ Lock(r) \/ Act(r) \/ \E kid \in Kids : Arrive(r, kid)
  PROVE  KeysPublished'
<1>1. published' = published /\ ever' = ever
  BY DEF Checks, Lock, Act, Arrive, Lookup, LookupAgain, Refresh, Fetched, FetchFails, Store,
     Verify, authVars
<1>2. \A s \in Requests \ {r} : req'[s] = req[s]
  BY DEF Checks, Lock, Act, Arrive, Lookup, LookupAgain, Refresh, Fetched, FetchFails, Store,
     Verify,
         Moves, Refused, TypeOK, States
<1>3. keys' \subseteq ever
  <2>1. CASE Store(r) BY <2>1 DEF Store, KeysPublished, Published
  <2>2. CASE ~Store(r)
    BY <2>2 DEF Checks, Lock, Act, Arrive, Lookup, LookupAgain, Refresh, Fetched, FetchFails,
       Verify,
                authVars, KeysPublished
  <2> QED BY <2>1, <2>2
<1>4. Published(req[r]) BY DEF KeysPublished
<1>5. Published(req[r])'
  <2>1. CASE \E kid \in Kids : Arrive(r, kid)
    BY <2>1, <1>1 DEF Arrive, Published, At, TypeOK, States
  <2>2. CASE Lookup(r)
    BY <2>2, <1>1, <1>4 DEF Lookup, Moves, Published, KeysPublished, TypeOK, States
  <2>3. CASE LookupAgain(r)
    BY <2>3, <1>1, <1>4 DEF LookupAgain, Moves, Refused, Idle, At, Published, KeysPublished,
       TypeOK, States
  <2>4. CASE Refresh(r)
    BY <2>4, <1>1, <1>4 DEF Refresh, Moves, Published, TypeOK, States
  <2>5. CASE Fetched(r)
    BY <2>5, <1>1, <1>4 DEF Fetched, Published, KeysPublished, TypeOK, States
  <2>6. CASE FetchFails(r) \/ Act(r)
    BY <2>6, <1>1 DEF FetchFails, Act, Refused, Idle, At, Published, TypeOK, States
  <2>7. CASE Store(r)
    BY <2>7, <1>1 DEF Store, At, Published, TypeOK, States
  <2>8. CASE Verify(r)
    BY <2>8, <1>1, <1>4 DEF Verify, Refused, Idle, At, Published, Allowed, TypeOK, States
  <2>9. CASE Lock(r)
    BY <2>9, <1>1, <1>4 DEF Lock, Moves, Published, Allowed, TypeOK, States
  <2> QED BY <2>1, <2>2, <2>3, <2>4, <2>5, <2>6, <2>7, <2>8, <2>9 DEF Checks
<1> QED BY <1>1, <1>2, <1>3, <1>5 DEF KeysPublished, Published

LEMMA OtherPublished ==
  ASSUME KeysPublished, Rotate \/ Ages \/ Main \/ UNCHANGED vars
  PROVE  KeysPublished'
<1>1. req' = req /\ keys' = keys
  BY DEF Rotate, Ages, Main, Signal, Drained, GivesUp, KernelStops, KernelStopped, Exit, vars,
     authVars
<1>2. ever \subseteq ever' /\ published' \subseteq ever'
  BY DEF Rotate, Ages, Main, Signal, Drained, GivesUp, KernelStops, KernelStopped, Exit, vars,
     authVars,
         KeysPublished
<1> QED BY <1>1, <1>2 DEF KeysPublished, Published

\* Whoever acts on the runtime is an admin, whoever acts on a process is its user or an admin,
\* and the key of the token was published at some time (server.go, routes, appUser; jwks.go).
THEOREM ActsAllowedInv == Spec => []ActsAllowed
<1>1. Init => TypeOK /\ KeysPublished BY InitTypes, InitPublished
<1>2. TypeOK /\ KeysPublished /\ [Next]_vars => (TypeOK /\ KeysPublished)'
  BY NextTypes, RequestPublished, OtherPublished DEF Next
<1>3. TypeOK /\ KeysPublished => ActsAllowed
  <2> SUFFICES ASSUME TypeOK, KeysPublished, NEW r \in Requests, req[r].at = "acting"
               PROVE  /\ req[r].kid \in ever
                      /\ req[r].ask.what = "runtime" => req[r].ask.admin
                      /\ req[r].ask.whose = "other" => req[r].ask.admin
    BY DEF ActsAllowed
  <2>1. Published(req[r]) BY DEF KeysPublished
  <2> QED BY <2>1 DEF Published, Allowed
<1> QED BY <1>1, <1>2, <1>3, PTL DEF Spec

-----------------------------------------------------------------------------
(* The end *)

\* Once Shutdown has returned in time no request is left, so nothing follows the kernel's stop.
Quiet ==
  ~late /\ main \in {"drained", "stopping", "stopped", "exited"} =>
    /\ \A r \in Requests : req[r] = Idle
    /\ main \in {"stopped", "exited"} => ~running

LEMMA RequestQuiet ==
  ASSUME Quiet, NEW r \in Requests,
         Checks(r) \/ Lock(r) \/ Act(r) \/ \E kid \in Kids : Arrive(r, kid)
  PROVE  Quiet'
<1>1. main' = main /\ late' = late
  BY DEF Checks, Lock, Act, Arrive, Lookup, LookupAgain, Refresh, Fetched, FetchFails, Store,
     Verify, mainVars
<1>2. main = "serving" \/ req[r].at # "idle"
  BY DEF Checks, Lock, Act, Arrive, Lookup, LookupAgain, Refresh, Fetched, FetchFails, Store, Verify
<1> QED BY <1>1, <1>2 DEF Quiet, Idle, At

LEMMA OtherQuiet ==
  ASSUME Quiet, Rotate \/ Ages \/ Main \/ UNCHANGED vars
  PROVE  Quiet'
<1>1. req' = req
  BY DEF Rotate, Ages, Main, Signal, Drained, GivesUp, KernelStops, KernelStopped, Exit, vars
<1>2. CASE Rotate \/ Ages \/ Signal \/ Exit \/ UNCHANGED vars
  BY <1>1, <1>2 DEF Rotate, Ages, Signal, Exit, vars, kernelVars, mainVars, Quiet
<1>3. CASE Drained \/ GivesUp
  BY <1>1, <1>3 DEF Drained, GivesUp, kernelVars, Quiet
<1>4. CASE KernelStops \/ KernelStopped
  BY <1>1, <1>4 DEF KernelStops, KernelStopped, Quiet
<1> QED BY <1>2, <1>3, <1>4 DEF Main

\* The process exits with its runtime down, unless a request outlasted the shutdown (main.go).
THEOREM LeftDownInv == Spec => []LeftDown
<1>1. Init => Quiet BY DEF Init, Quiet
<1>2. Quiet /\ [Next]_vars => Quiet' BY RequestQuiet, OtherQuiet DEF Next
<1>3. Quiet => LeftDown BY DEF Quiet, LeftDown
<1> QED BY <1>1, <1>2, <1>3, PTL DEF Spec
=============================================================================
