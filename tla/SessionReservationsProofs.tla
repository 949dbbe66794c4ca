---------------------- MODULE SessionReservationsProofs ----------------------
(***************************************************************************)
(* Proofs about SessionReservations, for any set of Users, Profiles,       *)
(* Workers and Sessions, any limits and any number of generations.         *)
(***************************************************************************)
EXTENDS SessionReservations, FiniteSetTheorems, TLAPS

-----------------------------------------------------------------------------
(* Types.                                                                  *)

\* Closing any Sessions keeps the types of the rows it writes.
LEMMA QueueCloseType ==
  ASSUME TypeOK, NEW S \in SUBSET Sessions, QueueClose(S)
  PROVE  /\ status' \in [Sessions -> Statuses]
         /\ reservation' \in [Sessions -> ReservationStatuses]
         /\ closeRequested' \subseteq Sessions
         /\ closeOutbox' \subseteq Sessions
  BY DEF TypeOK, QueueClose, AfterClose, ReservationAfterClose, Statuses, Pending, Live, Terminal,
         ReservationStatuses

LEMMA PersistType ==
  ASSUME TypeOK, NEW p \in Profiles, PersistStart(p) \/ PersistStop(p)
  PROVE  /\ runtimeState' \in [Profiles -> RuntimeStates]
         /\ desired' \in [Profiles -> {"RUNNING", "STOPPED"}]
         /\ generation' \in [Profiles -> Nat]
         /\ attached' \subseteq Profiles
         /\ operation' \in [Profiles -> {"NONE", "START", "STOP"}]
  BY DEF TypeOK, PersistStart, PersistStop, RuntimeStates

LEMMA SessionStepType ==
  ASSUME TypeOK, ConstantsAssumption, NEW s \in Sessions, SessionStep(s)
  PROVE  TypeOK'
<1> USE DEF sessionVars, reservationVars, runtimeVars, accessVars
<1>1. CASE Reserve(s)
  <2> DEFINE p == ProfileOf[s]
             replaced == IF IsMaintenance(s)
                         THEN {t \in SessionsOf(p) : Open(t) /\ ~ IsMaintenance(t)} ELSE {}
  <2>1. p \in Profiles /\ replaced \subseteq Sessions
    BY DEF ConstantsAssumption, SessionsOf
  <2>2. /\ runtimeState' \in [Profiles -> RuntimeStates]
        /\ desired' \in [Profiles -> {"RUNNING", "STOPPED"}]
        /\ generation' \in [Profiles -> Nat]
        /\ attached' \subseteq Profiles
        /\ operation' \in [Profiles -> {"NONE", "START", "STOP"}]
    <3>1. CASE PersistStart(p)
      BY <2>1, <3>1, PersistType
    <3>2. CASE UNCHANGED <<runtimeState, desired, generation, attached, operation>>
      BY <3>2 DEF TypeOK
    <3> QED BY <1>1, <3>1, <3>2 DEF Reserve
  <2>3. status' \in [Sessions -> Statuses] /\ reservation' \in [Sessions -> ReservationStatuses]
    BY <1>1 DEF Reserve, TypeOK, AfterClose, ReservationAfterClose, Statuses, Pending, Live,
                Terminal, ReservationStatuses
  <2>4. closeRequested' \subseteq Sessions /\ closeOutbox' \subseteq Sessions
    BY <1>1, <2>1 DEF Reserve, TypeOK
  <2>5. createOutbox' \in [Sessions -> Nat]
    BY <1>1, <2>1, <2>2 DEF Reserve, TypeOK
  <2> QED BY <1>1, <2>2, <2>3, <2>4, <2>5 DEF Reserve, TypeOK
<1>2. CASE Close(s)
  BY <1>2, QueueCloseType DEF Close, TypeOK
<1>3. CASE Lapse(s)
  BY <1>3 DEF Lapse, TypeOK
<1>4. CASE \E cleared \in BOOLEAN : DeliverRead(s, cleared)
  BY <1>4 DEF DeliverRead, ReadStep, Goto, OnlyDelivery, TypeOK, DeliverySteps
<1>5. CASE Begin(s)
  BY <1>5 DEF Begin, BeginCommits, StepAfterBegin, Goto, TypeOK, DeliverySteps, ConstantsAssumption,
              Statuses, Pending, RuntimeStates
<1>6. CASE BeginRefused(s) \/ DeliverFailed(s) \/ DeliverUnavailable(s)
  BY <1>6 DEF BeginRefused, DeliverFailed, DeliverUnavailable, Goto, OnlyDelivery, TypeOK,
              DeliverySteps
<1>7. CASE Accept(s) \/ Fail(s)
  BY <1>7 DEF Accept, Fail, Goto, TypeOK, DeliverySteps, Statuses, Live, Terminal,
              ReservationStatuses
<1>8. CASE Remove(s)
  BY <1>8 DEF Remove, TypeOK
<1>9. CASE \E succeeded \in BOOLEAN : CloseDelivered(s, succeeded)
  BY <1>9 DEF CloseDelivered, TypeOK, Statuses, Terminal, ReservationStatuses
<1> QED
  BY <1>1, <1>2, <1>3, <1>4, <1>5, <1>6, <1>7, <1>8, <1>9 DEF SessionStep, Deliver

LEMMA ProfileStepType ==
  ASSUME TypeOK, ConstantsAssumption, NEW p \in Profiles, ProfileStep(p)
  PROVE  TypeOK'
<1> USE DEF sessionVars, reservationVars, runtimeVars, accessVars
<1>1. CASE StartRuntime(p)
  BY <1>1, PersistType DEF StartRuntime, TypeOK
<1>2. CASE StopRuntime(p)
  BY <1>2, PersistType DEF StopRuntime, TypeOK
<1>3. CASE RecoverRuntime(p)
  <2>1. {s \in SessionsOf(p) : Open(s)} \in SUBSET Sessions
    BY DEF SessionsOf
  <2>2. mode' \in [Profiles -> Modes]
    BY <1>3 DEF RecoverRuntime, TypeOK, Modes
  <2> QED BY <1>3, <2>1, <2>2, PersistType, QueueCloseType DEF RecoverRuntime, TypeOK
<1>4. CASE ModeOperation(p)
  <2>1. PersistStart(p) \/ PersistStop(p)
    BY <1>4 DEF ModeOperation
  <2> QED BY <1>4, <2>1, PersistType DEF ModeOperation, TypeOK
<1>5. CASE \E succeeded, superseded \in BOOLEAN : OperationResult(p, succeeded, superseded)
  BY <1>5 DEF OperationResult, TypeOK, RuntimeStates
<1>6. CASE EnableProfile(p)
  BY <1>6 DEF EnableProfile, TypeOK
<1>7. CASE DisableProfile(p)
  <2>1. {s \in SessionsOf(p) : Open(s)} \in SUBSET Sessions
    BY DEF SessionsOf
  <2> QED BY <1>7, <2>1, QueueCloseType DEF DisableProfile, TypeOK
<1>8. CASE \E m \in RunModes : SetRunMode(p, m)
  BY <1>8 DEF SetRunMode, TypeOK, ConstantsAssumption
<1> QED BY <1>1, <1>2, <1>3, <1>4, <1>5, <1>6, <1>7, <1>8 DEF ProfileStep

\* What a snapshot stores is a status and a Runtime state again.
LEMMA SnapshotType ==
  ASSUME TypeOK, ConstantsAssumption, NEW w \in Workers, Snapshot(w)
  PROVE  TypeOK'
<1>1. PICK seen \in [ProfilesOn(w) -> RuntimeFacts \union {"NONE", "OTHER", "KEPT"}],
           fact \in [Reportable(w) -> SessionFacts],
           late \in SUBSET lapsed :
        Reconcile(w, seen, fact, late)
  BY DEF Snapshot
<1>2. Reportable(w) \subseteq Sessions /\ ProfilesOn(w) \subseteq Profiles
  BY DEF Reportable, SessionsOn, ProfilesOn
<1>3. \A s \in Sessions : \A f \in SessionFacts : StatusSeen(s, f) \in Statuses
  BY DEF StatusSeen, TypeOK, Statuses, SessionFacts, WorkerStates, Pending, Live, Terminal
<1>4. \A p \in Profiles : \A f \in RuntimeFacts \union {"NONE", "OTHER", "KEPT"} :
        RuntimeSeen(p, f) \in RuntimeStates
  BY DEF RuntimeSeen, ActiveProfileStates, TypeOK, RuntimeStates, RuntimeFacts
<1>5. \A s \in Sessions : \A x : ReservationSeen(s, x) \in ReservationStatuses
  BY DEF ReservationSeen, TypeOK, ReservationStatuses
<1>6. status' \in [Sessions -> Statuses]
  <2>1. \A s \in DOMAIN fact : StatusSeen(s, fact[s]) \in Statuses
    BY <1>2, <1>3
  <2> QED BY <1>1, <2>1 DEF Reconcile, TypeOK
<1>7. reservation' \in [Sessions -> ReservationStatuses]
  BY <1>1, <1>5 DEF Reconcile, TypeOK
<1>8. runtimeState' \in [Profiles -> RuntimeStates]
  <2>1. \A p \in ProfilesOn(w) : RuntimeSeen(p, seen[p]) \in RuntimeStates
    BY <1>2, <1>4
  <2> QED BY <1>1, <2>1 DEF Reconcile, TypeOK, RuntimeStates
<1>9. released' \subseteq Sessions
  BY <1>1, <1>2 DEF Reconcile, ReleasedBy, TypeOK
<1> QED BY <1>1, <1>6, <1>7, <1>8, <1>9 DEF Reconcile, TypeOK, accessVars

LEMMA EnvironmentStepType ==
  ASSUME TypeOK, ConstantsAssumption,
         \/ \E w \in Workers : WorkerRestart(w) \/ DisableWorker(w)
         \/ \E u \in Users : ResetPassword(u)
         \/ \E lost \in SUBSET grants : RevokeGrants(lost)
         \/ \E g \in Revocable : GrantAccess(g)
         \/ ExpirePass
         \/ Restart
  PROVE  TypeOK'
<1> USE DEF sessionVars, reservationVars, runtimeVars, accessVars
<1>1. CASE \E w \in Workers : WorkerRestart(w)
  BY <1>1 DEF WorkerRestart, TypeOK
<1>2. CASE (\E u \in Users : ResetPassword(u)) \/ (\E w \in Workers : DisableWorker(w))
  BY <1>2, QueueCloseType DEF ResetPassword, DisableWorker, SessionsOn, TypeOK
<1>3. CASE \E lost \in SUBSET grants : RevokeGrants(lost)
  <2>1. \A lost : Losing(lost) \in SUBSET Sessions
    BY DEF Losing
  <2> QED BY <1>3, <2>1, QueueCloseType DEF RevokeGrants, TypeOK
<1>4. CASE \E g \in Revocable : GrantAccess(g)
  BY <1>4 DEF GrantAccess, TypeOK, ConstantsAssumption
<1>5. CASE ExpirePass
  BY <1>5 DEF ExpirePass, Expire, TypeOK, Statuses, Terminal, ReservationStatuses
<1>6. CASE Restart
  BY <1>6 DEF Restart, TypeOK, DeliverySteps
<1> QED BY <1>1, <1>2, <1>3, <1>4, <1>5, <1>6

LEMMA InitType == ASSUME ConstantsAssumption, Init PROVE TypeOK
<1>1. grants \subseteq Grants
  BY DEF ConstantsAssumption, Init, Needed, Grants
<1>2. mode \in [Profiles -> Modes]
  BY DEF ConstantsAssumption, Init
<1> QED BY <1>1, <1>2 DEF Init, TypeOK, Statuses, ReservationStatuses, DeliverySteps, RuntimeStates

LEMMA NextType == ASSUME TypeOK, ConstantsAssumption, [Next]_vars PROVE TypeOK'
<1>1. CASE UNCHANGED vars
  BY <1>1 DEF vars, sessionVars, reservationVars, runtimeVars, accessVars, TypeOK
<1>2. CASE Next
  BY <1>2, SessionStepType, ProfileStepType, SnapshotType, EnvironmentStepType DEF Next
<1> QED BY <1>1, <1>2

\* Every row of the model keeps its type.
THEOREM TypeInvariance == Spec => []TypeOK
<1>1. Init => TypeOK
  BY InitType, ConstantsAssumption
<1>2. TypeOK /\ [Next]_vars => TypeOK'
  BY NextType, ConstantsAssumption
<1> QED BY <1>1, <1>2, PTL DEF Spec

-----------------------------------------------------------------------------
(* What a step does to the status of a Session: it reserves one Session,   *)
(* begins one, or only lets Sessions go on towards their end.              *)

Ending(x, y) ==
  \/ y = x
  \/ x = "RESERVED" /\ y \in Terminal
  \/ x \in {"CREATING"} \union Live /\ y \in Live \union {"CLOSING"} \union Terminal
  \/ x = "CLOSING" /\ y \in Terminal

\* Maintenance is only released when it has ended, and leaves no Profile MAINTAINING.
Releasing ==
  /\ released \subseteq released'
  /\ \A m \in released' \ released :
       /\ IsMaintenance(m)
       /\ status'[m] \in Terminal
       /\ runtimeState'[ProfileOf[m]] # "MAINTAINING"
  /\ \A p \in Profiles : runtimeState'[p] = "MAINTAINING" => runtimeState[p] = "MAINTAINING"

EndingStep ==
  /\ \A s \in Sessions : Ending(status[s], status'[s])
  /\ bound' = bound
  /\ Releasing

LEMMA QueueCloseEnds ==
  ASSUME TypeOK, NEW S \in SUBSET Sessions, \A s \in S : Open(s), QueueClose(S)
  PROVE  \A s \in Sessions : Ending(status[s], status'[s])
  BY DEF QueueClose, AfterClose, Open, Ending, Pending, Live, Terminal

LEMMA PersistNotMaintaining ==
  ASSUME TypeOK, NEW p \in Profiles, PersistStart(p) \/ PersistStop(p)
  PROVE  \A q \in Profiles : runtimeState'[q] = "MAINTAINING" => runtimeState[q] = "MAINTAINING"
  BY DEF TypeOK, PersistStart, PersistStop

LEMMA SessionStepEnds ==
  ASSUME TypeOK, ConstantsAssumption, NEW s \in Sessions, SessionStep(s), ~ Reserve(s), ~ Begin(s)
  PROVE  EndingStep
<1> USE DEF sessionVars, reservationVars, runtimeVars, accessVars, EndingStep, Releasing
<1>1. CASE Close(s)
  BY <1>1, QueueCloseEnds DEF Close
<1>2. CASE Lapse(s) \/ Remove(s)
  BY <1>2 DEF Lapse, Remove, Ending
<1>3. CASE (\E cleared \in BOOLEAN : DeliverRead(s, cleared)) \/ BeginRefused(s) \/ DeliverFailed(s)
           \/ DeliverUnavailable(s)
  BY <1>3 DEF DeliverRead, BeginRefused, DeliverFailed, DeliverUnavailable, OnlyDelivery, Ending
<1>4. CASE Accept(s) \/ Fail(s)
  BY <1>4 DEF Accept, AcceptsResult, Fail, IsPending, TypeOK, Ending, Pending, Live, Terminal
<1>5. CASE \E succeeded \in BOOLEAN : CloseDelivered(s, succeeded)
  BY <1>5 DEF CloseDelivered, TypeOK, Ending, Terminal
<1> QED BY <1>1, <1>2, <1>3, <1>4, <1>5 DEF SessionStep, Deliver

LEMMA ProfileStepEnds ==
  ASSUME TypeOK, ConstantsAssumption, NEW p \in Profiles, ProfileStep(p)
  PROVE  EndingStep
<1> USE DEF sessionVars, reservationVars, runtimeVars, accessVars, EndingStep, Releasing
<1> DEFINE S == {s \in SessionsOf(p) : Open(s)}
<1>1. S \in SUBSET Sessions /\ \A s \in S : Open(s)
  BY DEF SessionsOf
<1>2. CASE StartRuntime(p) \/ StopRuntime(p) \/ ModeOperation(p)
  <2>1. PersistStart(p) \/ PersistStop(p)
    BY <1>2 DEF StartRuntime, StopRuntime, ModeOperation
  <2> QED BY <1>2, <2>1, PersistNotMaintaining DEF StartRuntime, StopRuntime, ModeOperation, Ending
<1>3. CASE RecoverRuntime(p)
  BY <1>1, <1>3, QueueCloseEnds, PersistNotMaintaining DEF RecoverRuntime
<1>4. CASE \E succeeded, superseded \in BOOLEAN : OperationResult(p, succeeded, superseded)
  BY <1>4 DEF OperationResult, TypeOK, Ending
<1>5. CASE EnableProfile(p)
  BY <1>5 DEF EnableProfile, Ending
<1>6. CASE DisableProfile(p)
  BY <1>1, <1>6, QueueCloseEnds DEF DisableProfile
<1>7. CASE \E m \in RunModes : SetRunMode(p, m)
  BY <1>7 DEF SetRunMode, Ending
<1> QED BY <1>2, <1>3, <1>4, <1>5, <1>6, <1>7 DEF ProfileStep

\* A snapshot never brings back a Session that is CLOSING or has ended.
LEMMA SnapshotEnds ==
  ASSUME TypeOK, ConstantsAssumption, NEW w \in Workers, Snapshot(w)
  PROVE  EndingStep
<1>1. PICK seen \in [ProfilesOn(w) -> RuntimeFacts \union {"NONE", "OTHER", "KEPT"}],
           fact \in [Reportable(w) -> SessionFacts],
           late \in SUBSET lapsed :
        /\ \A s \in DOMAIN fact :
             FactPossible(s, fact[s], RuntimeSeen(ProfileOf[s], seen[ProfileOf[s]]))
        /\ Reconcile(w, seen, fact, late)
  BY DEF Snapshot
<1> DEFINE stored == [s \in Sessions |-> IF s \in DOMAIN fact THEN StatusSeen(s, fact[s]) ELSE status[s]]
           freed == ReleasedBy(stored, fact, late)
<1>2. DOMAIN fact \subseteq Sessions /\ ProfilesOn(w) \subseteq Profiles
  BY DEF Reportable, SessionsOn, ProfilesOn
<1>3. \A s \in Sessions : \A f \in SessionFacts : \A x :
        FactPossible(s, f, x) => Ending(status[s], StatusSeen(s, f))
  BY DEF FactPossible, TabAccepted, Reconcilable, StatusSeen, SessionFacts, Ending, WorkerStates,
         Live, Terminal
<1>4. \A s \in Sessions : Ending(status[s], status'[s])
  <2>1. \A s \in DOMAIN fact : Ending(status[s], StatusSeen(s, fact[s]))
    BY <1>1, <1>2, <1>3
  <2> QED BY <1>1, <2>1 DEF Reconcile, Ending
<1>5. status' = stored /\ released' = released \union freed /\ bound' = bound
  BY <1>1 DEF Reconcile, sessionVars
<1>6. \A p \in Profiles : \A f : RuntimeSeen(p, f) = "MAINTAINING" =>
        runtimeState[p] = "MAINTAINING" \/ f = "MAINTAINING"
  BY DEF RuntimeSeen
<1>7. \A p \in ProfilesOn(w) : seen[p] # "MAINTAINING"
  BY DEF RuntimeFacts
<1>8. \A p \in Profiles : runtimeState'[p] = "MAINTAINING" =>
        runtimeState[p] = "MAINTAINING" /\ freed \intersect SessionsOf(p) = {}
  BY <1>1, <1>2, <1>6, <1>7 DEF Reconcile
<1>9. \A m \in freed : m \in Sessions /\ IsMaintenance(m) /\ stored[m] \in Terminal
  BY <1>2 DEF ReleasedBy, Unreleased
<1> QED BY <1>4, <1>5, <1>8, <1>9 DEF EndingStep, Releasing, SessionsOf, ConstantsAssumption

LEMMA StepKinds ==
  ASSUME TypeOK, ConstantsAssumption, [Next]_vars
  PROVE  (\E s \in Sessions : Reserve(s)) \/ (\E s \in Sessions : Begin(s)) \/ EndingStep
<1> USE DEF sessionVars, reservationVars, runtimeVars, accessVars
<1>1. CASE UNCHANGED vars
  BY <1>1 DEF vars, EndingStep, Releasing, Ending
<1>2. CASE \E s \in Sessions : SessionStep(s)
  BY <1>2, SessionStepEnds
<1>3. CASE (\E p \in Profiles : ProfileStep(p)) \/ (\E w \in Workers : Snapshot(w))
  BY <1>3, ProfileStepEnds, SnapshotEnds
<1>4. CASE (\E w \in Workers : WorkerRestart(w)) \/ (\E g \in Revocable : GrantAccess(g)) \/ Restart
  BY <1>4 DEF WorkerRestart, GrantAccess, Restart, EndingStep, Releasing, Ending
<1>5. CASE \E u \in Users : ResetPassword(u)
  <2>1. PICK u \in Users : ResetPassword(u)
    BY <1>5
  <2> DEFINE S == {s \in Sessions : UserOf[s] = u /\ Open(s)}
  <2> QED BY <2>1, QueueCloseEnds DEF ResetPassword, EndingStep, Releasing
<1>8. CASE \E w \in Workers : DisableWorker(w)
  <2>1. PICK w \in Workers : DisableWorker(w)
    BY <1>8
  <2> DEFINE S == {s \in SessionsOn(w) : Open(s)}
  <2>2. S \in SUBSET Sessions
    BY DEF SessionsOn
  <2> QED BY <2>1, <2>2, QueueCloseEnds DEF DisableWorker, EndingStep, Releasing
<1>6. CASE \E lost \in SUBSET grants : RevokeGrants(lost)
  <2>1. \A lost : Losing(lost) \in SUBSET Sessions /\ \A s \in Losing(lost) : Open(s)
    BY DEF Losing
  <2> QED BY <1>6, <2>1, QueueCloseEnds DEF RevokeGrants, EndingStep, Releasing
<1>7. CASE ExpirePass
  BY <1>7 DEF ExpirePass, Expire, Expirable, EndingStep, Releasing, Ending, Pending, Terminal
<1> QED BY <1>1, <1>2, <1>3, <1>4, <1>5, <1>6, <1>7, <1>8 DEF Next

\* What reserving and beginning a Session does to statuses.
LEMMA ReserveStatus ==
  ASSUME TypeOK, ConstantsAssumption, NEW s \in Sessions, Reserve(s)
  PROVE  /\ status[s] = "ABSENT" /\ status'[s] = "RESERVED"
         /\ \A t \in Sessions \ {s} : Ending(status[t], status'[t])
         /\ \A t \in Sessions \ {s} : (IsMaintenance(s) /\ ~ IsMaintenance(t)) \/ status'[t] = status[t]
         /\ IsMaintenance(s) =>
              \A t \in SessionsOf(ProfileOf[s]) : ~ IsMaintenance(t) => ~ Open(t)'
         /\ Maintainers(ProfileOf[s]) = {}
         /\ UNCHANGED <<bound, released>>
         /\ \A p \in Profiles : runtimeState'[p] = "MAINTAINING" => runtimeState[p] = "MAINTAINING"
<1>1. /\ status[s] = "ABSENT" /\ status'[s] = "RESERVED"
      /\ Maintainers(ProfileOf[s]) = {} /\ UNCHANGED <<bound, released>>
  BY DEF Reserve, TypeOK, AfterClose
<1>2. \A t \in Sessions \ {s} : Ending(status[t], status'[t])
  BY DEF Reserve, TypeOK, AfterClose, Ending, Open, Pending, Live, Terminal
<1>6. \A t \in Sessions \ {s} : (IsMaintenance(s) /\ ~ IsMaintenance(t)) \/ status'[t] = status[t]
  BY DEF Reserve, TypeOK, AfterClose
<1>3. ASSUME IsMaintenance(s), NEW t \in SessionsOf(ProfileOf[s]), ~ IsMaintenance(t)
      PROVE  ~ Open(t)'
  BY <1>3 DEF Reserve, TypeOK, AfterClose, Open, Pending, Live, SessionsOf
<1>4. ProfileOf[s] \in Profiles
  BY DEF ConstantsAssumption
<1>5. \A p \in Profiles : runtimeState'[p] = "MAINTAINING" => runtimeState[p] = "MAINTAINING"
  BY <1>4, PersistNotMaintaining DEF Reserve
<1> QED BY <1>1, <1>2, <1>3, <1>5, <1>6

LEMMA BeginStatus ==
  ASSUME TypeOK, ConstantsAssumption, NEW s \in Sessions, Begin(s)
  PROVE  /\ status[s] \in Pending /\ status'[s] = "CREATING" /\ bound'[s] # 0
         /\ \A t \in Sessions \ {s} : status'[t] = status[t] /\ bound'[t] = bound[t]
         /\ IsMaintenance(s) => Active(ProfileOf[s]) \subseteq {s}
         /\ UNCHANGED released
         /\ \A p \in Profiles : runtimeState'[p] = "MAINTAINING" =>
              runtimeState[p] = "MAINTAINING" \/ (IsMaintenance(s) /\ p = ProfileOf[s])
<1>1. /\ status[s] \in Pending /\ status'[s] = "CREATING"
      /\ \A t \in Sessions \ {s} : status'[t] = status[t] /\ bound'[t] = bound[t]
  BY DEF Begin, BeginCommits, BeginAdmits, IsPending, TypeOK, Pending
<1>2. bound'[s] # 0
  BY DEF Begin, BeginCommits, BeginAdmits, RuntimeBegins, IsPending, TypeOK, Pending,
         ConstantsAssumption
<1>3. IsMaintenance(s) => Active(ProfileOf[s]) \subseteq {s}
  BY DEF Begin, BeginCommits, Draining, OthersActive
<1>4. UNCHANGED released
  BY DEF Begin
<1>5. \A p \in Profiles : runtimeState'[p] = "MAINTAINING" =>
        runtimeState[p] = "MAINTAINING" \/ (IsMaintenance(s) /\ p = ProfileOf[s])
  BY DEF Begin, TypeOK
<1> QED BY <1>1, <1>2, <1>3, <1>4, <1>5

-----------------------------------------------------------------------------
(* Theorems about statuses.                                                *)

\* No late result, snapshot or delivery revives a Session that is CLOSING or has ended.
THEOREM NoRevivalTheorem == Spec => NoRevival
<1> DEFINE Step == \A s \in Sessions :
                     /\ status[s] \in Terminal => status'[s] = status[s]
                     /\ status[s] = "CLOSING" => status'[s] \in {"CLOSING"} \union Terminal
<1>1. TypeOK /\ [Next]_vars => [Step]_vars
  <2> SUFFICES ASSUME TypeOK, [Next]_vars, NEW s \in Sessions
               PROVE  /\ status[s] \in Terminal => status'[s] = status[s]
                      /\ status[s] = "CLOSING" => status'[s] \in {"CLOSING"} \union Terminal
    OBVIOUS
  <2> USE DEF Ending, Pending, Live, Terminal
  <2>1. CASE \E t \in Sessions : Reserve(t)
    BY <2>1, ReserveStatus, ConstantsAssumption
  <2>2. CASE \E t \in Sessions : Begin(t)
    BY <2>2, BeginStatus, ConstantsAssumption
  <2>3. CASE EndingStep
    BY <2>3 DEF EndingStep
  <2> QED BY <2>1, <2>2, <2>3, StepKinds, ConstantsAssumption
<1> QED BY <1>1, TypeInvariance, PTL DEF Spec, NoRevival

\* Maintenance is released only after it has ended.
ReleasedHasEnded == \A m \in released : m \in Sessions /\ IsMaintenance(m) /\ status[m] \in Terminal

\* Who is in a Profile with maintenance, as an inductive invariant.
ExclusionInv == TypeOK /\ ReleasedHasEnded /\ MaintenanceExclusive /\ MaintainingHasOwner

LEMMA ReleasedStep ==
  ASSUME TypeOK, ReleasedHasEnded, ConstantsAssumption, [Next]_vars
  PROVE  ReleasedHasEnded'
<1> USE DEF ReleasedHasEnded, IsMaintenance
<1>1. CASE \E s \in Sessions : Reserve(s)
  BY <1>1, ReserveStatus DEF Ending, Live, Terminal
<1>2. CASE \E s \in Sessions : Begin(s)
  BY <1>2, BeginStatus DEF Pending, Terminal
<1>3. CASE EndingStep
  BY <1>3, NextType DEF EndingStep, Releasing, Ending, Live, Terminal, TypeOK
<1> QED BY <1>1, <1>2, <1>3, StepKinds

\* A step that only lets Sessions end opens no Session, begins none and reserves none.
LEMMA EndingStepShrinks ==
  ASSUME TypeOK, ReleasedHasEnded, EndingStep
  PROVE  /\ \A s \in Sessions : NonTerminal(s)' => NonTerminal(s)
         /\ \A s \in Sessions : Open(s)' => Open(s)
         /\ \A s \in Sessions : Unreleased(s)' => Unreleased(s)
         /\ \A s \in Sessions : status'[s] = "RESERVED" => status[s] = "RESERVED"
         /\ \A s \in Sessions : NonTerminal(s)' /\ status'[s] # "RESERVED" => status[s] # "RESERVED"
  BY DEF EndingStep, Releasing, Ending, NonTerminal, Open, Unreleased, IsMaintenance, Pending, Live,
         Terminal, TypeOK, Statuses

\* MaintenanceExclusive for one maintenance Session.
ExclusiveFor(m) ==
  /\ m \in Begun(Sessions) => Active(ProfileOf[m]) = {m}
  /\ Unreleased(m) =>
       /\ Maintainers(ProfileOf[m]) = {m}
       /\ \A s \in Active(ProfileOf[m]) \ {m} : status[s] = "CLOSING"

LEMMA ExclusiveForAll ==
  MaintenanceExclusive <=> \A m \in Sessions : IsMaintenance(m) => ExclusiveFor(m)
  BY DEF MaintenanceExclusive, ExclusiveFor, Unreleased

LEMMA ExclusiveReserve ==
  ASSUME ExclusionInv, ConstantsAssumption, NEW s \in Sessions, Reserve(s)
  PROVE  MaintenanceExclusive'
<1> USE DEF ExclusionInv
<1> SUFFICES ASSUME NEW m \in Sessions, IsMaintenance(m)
             PROVE  ExclusiveFor(m)'
  BY DEF MaintenanceExclusive, ExclusiveFor, Unreleased, IsMaintenance
<1> DEFINE p == ProfileOf[m]
<1>0. TypeOK'
  BY NextType, ConstantsAssumption DEF Next, SessionStep
<1>1. s \notin released
  BY ReserveStatus DEF ReleasedHasEnded, Terminal
<1>2. CASE m = s
  <2>1. status'[m] = "RESERVED" /\ Maintainers(p) = {} /\ released' = released
    BY <1>2, ReserveStatus
  <2>2. ASSUME NEW t \in SessionsOf(p), t # m, Unreleased(t)'
        PROVE  FALSE
    BY <1>2, <2>1, <2>2, ReserveStatus DEF Maintainers, Unreleased, Ending, IsMaintenance, SessionsOf, Terminal, Live
  <2>3. Maintainers(p)' = {m}
    BY <1>1, <1>2, <2>1, <2>2 DEF Maintainers, Unreleased, IsMaintenance, SessionsOf
  <2>4. ASSUME NEW t \in Active(p)', t # m
        PROVE  status'[t] = "CLOSING"
    <3>1. t \in SessionsOf(p) /\ NonTerminal(t)'
      BY <2>4 DEF Active, SessionsOf
    <3>2. ~ IsMaintenance(t)
      <4>1. ASSUME IsMaintenance(t) PROVE Unreleased(t)'
        BY <1>0, <3>1, <4>1, <2>1, ReserveStatus DEF Unreleased, NonTerminal, ReleasedHasEnded, Ending, Terminal,
           SessionsOf, IsMaintenance, Live
      <4> QED BY <2>2, <2>4, <3>1, <4>1
    <3>3. ~ Open(t)'
      BY <1>2, <3>1, <3>2, ReserveStatus
    <3> QED BY <1>0, <3>1, <3>3 DEF Open, NonTerminal, TypeOK, Statuses, SessionsOf
  <2> QED BY <2>1, <2>3, <2>4 DEF ExclusiveFor, Begun
<1>3. CASE m # s
  <2>1. ExclusiveFor(m)
    BY ExclusiveForAll
  <2>2. Unreleased(m)' => Unreleased(m)
    BY <1>3, ReserveStatus DEF Unreleased, IsMaintenance, Ending, Terminal, Live
  <2>3. Unreleased(m)' => ProfileOf[s] # p
    BY <2>2, ReserveStatus DEF Maintainers, SessionsOf
  <2>4. m \in Begun(Sessions)' => Unreleased(m)'
    BY <1>3, ReserveStatus DEF Begun, NonTerminal, Unreleased, ReleasedHasEnded, Ending, Terminal, Live, IsMaintenance
  <2>5. ASSUME NEW t \in Sessions, t # s
        PROVE  /\ NonTerminal(t)' => NonTerminal(t)
               /\ Unreleased(t)' => Unreleased(t)
               /\ (NonTerminal(t)' /\ status[t] = "CLOSING") => status'[t] = "CLOSING"
    BY <2>5, ReserveStatus DEF NonTerminal, Unreleased, Ending, Terminal, Live, IsMaintenance
  <2>6. m \in Begun(Sessions)' => m \in Begun(Sessions)
    BY <1>3, <2>5, ReserveStatus DEF Begun, NonTerminal, Ending, Terminal, Live
  <2>7. ASSUME Unreleased(m)'
        PROVE  /\ Active(p)' \subseteq Active(p)
               /\ Maintainers(p)' \subseteq Maintainers(p)
    <3>1. \A t \in SessionsOf(p) : t \in Sessions /\ t # s
      BY <2>3, <2>7 DEF SessionsOf
    <3>2. SessionsOf(p)' = SessionsOf(p)
      BY DEF SessionsOf
    <3>3. Active(p)' \subseteq Active(p)
      BY <2>5, <3>1, <3>2 DEF Active
    <3>4. Maintainers(p)' \subseteq Maintainers(p)
      BY <2>5, <3>1, <3>2 DEF Maintainers
    <3> QED BY <3>3, <3>4
  <2>8. m \in Begun(Sessions)' => Active(p)' = {m}
    <3>1. m \in Begun(Sessions)' => m \in Active(p)'
      BY DEF Begun, Active, SessionsOf
    <3> QED BY <2>1, <2>4, <2>6, <2>7, <3>1 DEF ExclusiveFor
  <2>9. Unreleased(m)' => Maintainers(p)' = {m}
    <3>1. Unreleased(m)' => m \in Maintainers(p)'
      BY DEF Maintainers, SessionsOf
    <3> QED BY <2>1, <2>2, <2>7, <3>1 DEF ExclusiveFor
  <2>10. ASSUME Unreleased(m)', NEW t \in Active(p)' \ {m}
         PROVE  status'[t] = "CLOSING"
    <3>1. t \in Active(p) /\ t \in Sessions /\ t # s /\ NonTerminal(t)'
      BY <2>3, <2>7, <2>10 DEF Active, SessionsOf
    <3>2. status[t] = "CLOSING"
      BY <2>1, <2>2, <2>10, <3>1 DEF ExclusiveFor
    <3> QED BY <2>5, <3>1, <3>2
  <2> QED BY <2>8, <2>9, <2>10 DEF ExclusiveFor
<1> QED BY <1>2, <1>3

LEMMA ExclusiveBegin ==
  ASSUME ExclusionInv, ConstantsAssumption, NEW s \in Sessions, Begin(s)
  PROVE  MaintenanceExclusive'
<1> USE DEF ExclusionInv
<1> SUFFICES ASSUME NEW m \in Sessions, IsMaintenance(m)
             PROVE  ExclusiveFor(m)'
  BY DEF MaintenanceExclusive, ExclusiveFor, Unreleased, IsMaintenance
<1> DEFINE p == ProfileOf[m]
<1>1. ExclusiveFor(m)
  BY ExclusiveForAll
<1>2. \A t \in Sessions :
        /\ NonTerminal(t)' <=> NonTerminal(t)
        /\ Unreleased(t)' <=> Unreleased(t)
  BY BeginStatus DEF NonTerminal, Unreleased, IsMaintenance, Pending, Terminal
<1>3. Active(p)' = Active(p) /\ Maintainers(p)' = Maintainers(p)
  BY <1>2 DEF Active, Maintainers, SessionsOf
<1>4. m \in Begun(Sessions)' => Active(p)' = {m}
  BY <1>1, <1>2, <1>3, BeginStatus DEF Begun, ExclusiveFor, NonTerminal, Pending, Terminal, Active, SessionsOf
<1>5. ASSUME Unreleased(m)', NEW t \in Active(p)' \ {m}
      PROVE  status'[t] = "CLOSING"
  <2>1. status[t] = "CLOSING"
    BY <1>1, <1>2, <1>3, <1>5 DEF ExclusiveFor
  <2> QED BY <1>5, <2>1, BeginStatus DEF Active, SessionsOf, Pending
<1> QED BY <1>1, <1>2, <1>3, <1>4, <1>5 DEF ExclusiveFor

LEMMA ExclusiveEnding ==
  ASSUME ExclusionInv, ReleasedHasEnded', EndingStep
  PROVE  MaintenanceExclusive'
<1> USE DEF ExclusionInv
<1> SUFFICES ASSUME NEW m \in Sessions, IsMaintenance(m)
             PROVE  ExclusiveFor(m)'
  BY DEF MaintenanceExclusive, ExclusiveFor, Unreleased, IsMaintenance
<1> DEFINE p == ProfileOf[m]
<1>1. ExclusiveFor(m)
  BY ExclusiveForAll
<1>2. m \in Begun(Sessions)' => Active(p)' = {m}
  BY <1>1, EndingStepShrinks DEF ExclusiveFor, Begun, Active, SessionsOf
<1>3. Unreleased(m)' => Maintainers(p)' = {m}
  BY <1>1, EndingStepShrinks DEF ExclusiveFor, Maintainers, SessionsOf
<1>4. ASSUME Unreleased(m)', NEW t \in Active(p)' \ {m}
      PROVE  status'[t] = "CLOSING"
  <2>1. status[t] = "CLOSING" /\ t \in Sessions /\ NonTerminal(t)'
    BY <1>1, <1>4, EndingStepShrinks DEF ExclusiveFor, Active, SessionsOf
  <2> QED BY <2>1 DEF EndingStep, Ending, NonTerminal, Live, Terminal
<1> QED BY <1>2, <1>3, <1>4 DEF ExclusiveFor

\* The owner of a MAINTAINING Profile stays until the Profile is given back.
LEMMA OwnerStep ==
  ASSUME ExclusionInv, ConstantsAssumption, [Next]_vars
  PROVE  MaintainingHasOwner'
<1> USE DEF ExclusionInv
<1>1. CASE \E s \in Sessions : Reserve(s)
  <2>1. PICK s \in Sessions : Reserve(s)
    BY <1>1
  <2>2. \A m \in Sessions : Unreleased(m) => Unreleased(m)'
    BY <2>1, ReserveStatus DEF Unreleased, IsMaintenance, Ending, Live, Terminal
  <2> QED BY <2>1, <2>2, ReserveStatus DEF MaintainingHasOwner, Maintainers, SessionsOf
<1>2. CASE \E s \in Sessions : Begin(s)
  <2>1. PICK s \in Sessions : Begin(s)
    BY <1>2
  <2>2. \A m \in Sessions : Unreleased(m) => Unreleased(m)' /\ (bound[m] # 0 => bound'[m] # 0)
    BY <2>1, BeginStatus DEF Unreleased, IsMaintenance, Pending
  <2>3. IsMaintenance(s) => s \in Maintainers(ProfileOf[s])' /\ bound'[s] # 0
    BY <2>1, BeginStatus DEF Maintainers, Unreleased, ReleasedHasEnded, SessionsOf, IsMaintenance,
       Pending, Terminal
  <2> QED BY <2>1, <2>2, <2>3, BeginStatus DEF MaintainingHasOwner, Maintainers, SessionsOf
<1>3. CASE EndingStep
  <2> SUFFICES ASSUME NEW p \in Profiles, runtimeState'[p] = "MAINTAINING"
               PROVE  \E m \in Maintainers(p)' : bound'[m] # 0
    BY DEF MaintainingHasOwner
  <2>1. PICK m \in Maintainers(p) : bound[m] # 0
    BY <1>3 DEF MaintainingHasOwner, EndingStep, Releasing
  <2>2. m \notin released' /\ m \in Sessions
    BY <1>3, <2>1 DEF EndingStep, Releasing, Maintainers, SessionsOf, Unreleased
  <2> QED BY <1>3, <2>1, <2>2 DEF EndingStep, Maintainers, SessionsOf, Unreleased, IsMaintenance, Ending,
             Live, Terminal
<1> QED BY <1>1, <1>2, <1>3, StepKinds

LEMMA ExclusionStep == ExclusionInv /\ [Next]_vars => ExclusionInv'
<1> SUFFICES ASSUME ExclusionInv, [Next]_vars
             PROVE  ExclusionInv'
  OBVIOUS
<1>1. TypeOK' /\ ReleasedHasEnded'
  BY NextType, ReleasedStep, ConstantsAssumption DEF ExclusionInv
<1>2. MaintenanceExclusive'
  BY <1>1, ExclusiveReserve, ExclusiveBegin, ExclusiveEnding, StepKinds, ConstantsAssumption
     DEF ExclusionInv
<1>3. MaintainingHasOwner'
  BY OwnerStep, ConstantsAssumption
<1> QED BY <1>1, <1>2, <1>3 DEF ExclusionInv

LEMMA ExclusionInit == Init => ExclusionInv
<1> SUFFICES ASSUME Init
             PROVE  ExclusionInv
  OBVIOUS
<1>1. TypeOK
  BY InitType, ConstantsAssumption
<1> QED BY <1>1 DEF Init, ExclusionInv, ReleasedHasEnded, MaintenanceExclusive, MaintainingHasOwner, Begun,
           NonTerminal

LEMMA ExclusionInvariance == Spec => []ExclusionInv
  BY ExclusionInit, ExclusionStep, PTL DEF Spec

\* docs/design/09-testing-and-acceptance.md:60: maintenance and the other Sessions of a Profile
\* exclude each other, whatever the interleaving of deliveries, closes and snapshots.
THEOREM MaintenanceExclusiveTheorem == Spec => []MaintenanceExclusive
  BY ExclusionInvariance, PTL DEF ExclusionInv

\* A Profile is MAINTAINING only for the maintenance Session that began there and holds it.
THEOREM MaintainingHasOwnerTheorem == Spec => []MaintainingHasOwner
  BY ExclusionInvariance, PTL DEF ExclusionInv

\* Maintenance has its Profile for itself from begin to release, and a locked Profile has its owner.
THEOREM MaintenanceOwnsProfileTheorem == Spec => []MaintenanceOwnsProfile
BY MaintenanceExclusiveTheorem, MaintainingHasOwnerTheorem, PTL DEF MaintenanceOwnsProfile

-----------------------------------------------------------------------------
(* Refinement.                                                             *)

LEMMA OwnershipInit == Init => Ownership!Init
  BY DEF Init, Ownership!Init, Sharing, Claims, Owning, NonTerminal, Unreleased, Begun

LEMMA OwnershipStep ==
  ASSUME ExclusionInv, ExclusionInv', ConstantsAssumption, [Next]_vars
  PROVE  [Ownership!Next]_(Ownership!ownershipVars)
<1> USE DEF ExclusionInv, Ownership!ownershipVars
<1>1. CASE \E s \in Sessions : Reserve(s)
  <2>1. PICK s \in Sessions : Reserve(s)
    BY <1>1
  <2>2. \A t \in Sessions : t # s =>
          /\ NonTerminal(t)' => NonTerminal(t)
          /\ Unreleased(t)' <=> Unreleased(t)
    BY <2>1, ReserveStatus DEF NonTerminal, Unreleased, IsMaintenance, Ending, Live, Terminal
  <2>3. \A t \in Sessions : t # s /\ (IsMaintenance(t) \/ ~ IsMaintenance(s)) =>
          (NonTerminal(t)' <=> NonTerminal(t)) /\ (status'[t] = "RESERVED" <=> status[t] = "RESERVED")
    BY <2>1, ReserveStatus DEF NonTerminal
  <2>4. ~ NonTerminal(s) /\ NonTerminal(s)' /\ status'[s] = "RESERVED" /\ ~ Unreleased(s)
    BY <2>1, ReserveStatus DEF NonTerminal, Unreleased, Terminal
  <2>5. Owning' = Owning
    BY <2>3, <2>4 DEF Owning, Begun, IsMaintenance
  <2>6. Ownership!SameProfile(Claims, s) = {}
    BY <2>1, ReserveStatus DEF Ownership!SameProfile, Claims, Maintainers, SessionsOf
  <2>7. CASE IsMaintenance(s)
    <3>1. Sharing' \subseteq Sharing
      BY <2>2, <2>7 DEF Sharing, IsMaintenance
    <3>2. Unreleased(s)'
      BY <2>1, <2>7, ReserveStatus DEF Unreleased, ReleasedHasEnded, IsMaintenance, Terminal
    <3>3. Claims' = Claims \union {s}
      BY <2>2, <3>2 DEF Claims
    <3>4. Ownership!Claim(s)
      BY <2>5, <2>6, <2>7, <3>1, <3>3 DEF Ownership!Claim
    <3> QED BY <3>4 DEF Ownership!Next
  <2>8. CASE ~ IsMaintenance(s)
    <3>1. Sharing' = Sharing \union {s}
      BY <2>3, <2>4, <2>8 DEF Sharing, IsMaintenance
    <3>2. ~ Unreleased(s)'
      BY <2>8 DEF Unreleased, IsMaintenance
    <3>3. Claims' = Claims
      BY <2>2, <2>4, <3>2 DEF Claims
    <3>4. Ownership!Share(s)
      BY <2>5, <2>6, <2>8, <3>1, <3>3 DEF Ownership!Share
    <3> QED BY <3>4 DEF Ownership!Next
  <2> QED BY <2>7, <2>8
<1>2. CASE \E s \in Sessions : Begin(s)
  <2>1. PICK s \in Sessions : Begin(s)
    BY <1>2
  <2>2. \A t \in Sessions : (NonTerminal(t)' <=> NonTerminal(t)) /\ (Unreleased(t)' <=> Unreleased(t))
    BY <2>1, BeginStatus DEF NonTerminal, Unreleased, IsMaintenance, Pending, Terminal
  <2>3. Sharing' = Sharing /\ Claims' = Claims
    BY <2>2 DEF Sharing, Claims, IsMaintenance
  <2>4. NonTerminal(s) /\ status'[s] # "RESERVED"
    BY <2>1, BeginStatus DEF NonTerminal, Pending, Terminal
  <2>5. \A t \in Sessions : t # s => status'[t] = status[t]
    BY <2>1, BeginStatus
  <2>6. CASE IsMaintenance(s)
    <3>1. s \in Claims
      BY <2>4, <2>6 DEF Claims, Unreleased, NonTerminal, ReleasedHasEnded
    <3>2. Ownership!SameProfile(Sharing, s) = {}
      BY <2>1, <2>6, BeginStatus DEF Ownership!SameProfile, Sharing, Active, SessionsOf
    <3>3. Owning' = Owning \union {s}
      BY <2>2, <2>4, <2>5, <2>6 DEF Owning, Begun, IsMaintenance
    <3>4. Ownership!Own(s)
      BY <2>3, <3>1, <3>2, <3>3 DEF Ownership!Own
    <3> QED BY <3>4 DEF Ownership!Next
  <2>7. CASE ~ IsMaintenance(s)
    <3>1. Owning' = Owning
      BY <2>2, <2>5, <2>7 DEF Owning, Begun, IsMaintenance
    <3> QED BY <2>3, <3>1
  <2> QED BY <2>6, <2>7
<1>3. CASE EndingStep
  <2>1. Sharing' \subseteq Sharing /\ Claims' \subseteq Claims
    BY <1>3, EndingStepShrinks DEF Sharing, Claims, IsMaintenance
  <2>2. Owning' \subseteq Owning
    BY <1>3, EndingStepShrinks DEF Owning, Begun, IsMaintenance
  <2>3. Owning' \subseteq Claims'
    BY DEF Owning, Claims, Begun, NonTerminal, Unreleased, ReleasedHasEnded, IsMaintenance
  <2>4. Ownership!Leave
    BY <2>1, <2>2, <2>3 DEF Ownership!Leave
  <2> QED BY <2>4 DEF Ownership!Next
<1> QED BY <1>1, <1>2, <1>3, StepKinds

\* The transactions on Session rows implement ProfileOwnership.
THEOREM ImplementsOwnershipTheorem == Spec => ImplementsOwnership
<1>1. ExclusionInv /\ ExclusionInv' /\ [Next]_vars => [Ownership!Next]_(Ownership!ownershipVars)
  BY OwnershipStep, ConstantsAssumption
<1> QED BY <1>1, OwnershipInit, ExclusionInvariance, PTL
        DEF Spec, ImplementsOwnership, Ownership!Spec

-----------------------------------------------------------------------------
(* Capacity.  Maintenance that drains its Profile is reserved next to the  *)
(* Sessions it replaces, so the Sessions of a Worker that are not terminal *)
(* can be more than its limit.  What never is: a set of them in which no   *)
(* reserved maintenance shares its Profile.                                *)

Undisputed(T) ==
  \A m \in T : IsMaintenance(m) /\ status[m] = "RESERVED" => T \intersect SessionsOf(ProfileOf[m]) = {m}

CapacityInv ==
  \A w \in Workers : WorkerLimit[w] # NoLimit =>
    \A T \in SUBSET WorkerLoad(w) : Undisputed(T) => Cardinality(T) <= WorkerLimit[w]

LEMMA FiniteSessions ==
  ASSUME NEW T \in SUBSET Sessions
  PROVE  IsFiniteSet(T) /\ Cardinality(T) \in Nat
  BY FiniteSessionsAssumption, FS_Subset, FS_CardinalityType

\* One more Session still fits when all but that one are among those that were counted.
LEMMA OneMore ==
  ASSUME NEW T \in SUBSET Sessions, NEW s \in T, NEW L \in SUBSET Sessions, T \ {s} \subseteq L,
         NEW limit \in Nat, Cardinality(L) < limit
  PROVE  Cardinality(T) <= limit
<1>1. Cardinality(T \ {s}) = Cardinality(T) - 1
  BY FiniteSessions, FS_RemoveElement
<1>2. Cardinality(T \ {s}) <= Cardinality(L)
  BY FiniteSessions, FS_Subset
<1> QED BY <1>1, <1>2, FiniteSessions

LEMMA CapacityReserve ==
  ASSUME TypeOK, CapacityInv, ConstantsAssumption, NEW s \in Sessions, Reserve(s)
  PROVE  CapacityInv'
<1> SUFFICES ASSUME NEW w \in Workers, WorkerLimit[w] # NoLimit,
                    NEW T \in SUBSET WorkerLoad(w)', Undisputed(T)'
             PROVE  Cardinality(T) <= WorkerLimit[w]
  BY DEF CapacityInv
<1>1. WorkerLimit[w] \in Nat
  BY DEF ConstantsAssumption, Limits
<1>2. T \in SUBSET Sessions /\ T \in SUBSET SessionsOn(w)
  BY DEF WorkerLoad, SessionsOn
<1>3. \A t \in T : t # s => t \in WorkerLoad(w)
  BY <1>2, ReserveStatus DEF WorkerLoad, NonTerminal, Ending, Live, Terminal
<1>4. CASE s \notin T
  <2>1. T \in SUBSET WorkerLoad(w)
    BY <1>3, <1>4
  <2>2. Undisputed(T)
    <3> SUFFICES ASSUME NEW m \in T, IsMaintenance(m), status[m] = "RESERVED"
                 PROVE  T \intersect SessionsOf(ProfileOf[m]) = {m}
      BY DEF Undisputed
    <3>1. status'[m] = "RESERVED"
      BY <1>2, <1>4, ReserveStatus
    <3> QED BY <3>1 DEF Undisputed, IsMaintenance, SessionsOf
  <2> QED BY <2>1, <2>2 DEF CapacityInv
<1>5. CASE s \in T
  <2>1. WorkerOf[ProfileOf[s]] = w
    BY <1>2, <1>5 DEF SessionsOn
  <2>2. WorkerLoad(w) \in SUBSET Sessions
    BY DEF WorkerLoad, SessionsOn
  <2>3. CASE IsMaintenance(s)
    <3>1. T \ {s} \subseteq WorkerLoad(w) \ SessionsOf(ProfileOf[s])
      <4>1. T \intersect SessionsOf(ProfileOf[s]) = {s}
        BY <1>5, <2>3, ReserveStatus DEF Undisputed, IsMaintenance, SessionsOf
      <4> QED BY <1>3, <4>1
    <3>2. Cardinality(WorkerLoad(w) \ SessionsOf(ProfileOf[s])) < WorkerLimit[w]
      BY <2>1, <2>3 DEF Reserve, HasCapacity, Below
    <3> QED BY <1>1, <1>2, <1>5, <2>2, <3>1, <3>2, OneMore
  <2>4. CASE ~ IsMaintenance(s)
    <3>1. T \ {s} \subseteq WorkerLoad(w)
      BY <1>3
    <3>2. Cardinality(WorkerLoad(w)) < WorkerLimit[w]
      BY <2>1, <2>4 DEF Reserve, HasCapacity, Below
    <3> QED BY <1>1, <1>2, <1>5, <2>2, <3>1, <3>2, OneMore
  <2> QED BY <2>3, <2>4
<1> QED BY <1>4, <1>5

\* No other step lets a Session in, and maintenance begins alone.
LEMMA CapacityOther ==
  ASSUME TypeOK, ReleasedHasEnded, CapacityInv, ConstantsAssumption,
         (\E s \in Sessions : Begin(s)) \/ EndingStep
  PROVE  CapacityInv'
<1> SUFFICES ASSUME NEW w \in Workers, WorkerLimit[w] # NoLimit,
                    NEW T \in SUBSET WorkerLoad(w)', Undisputed(T)'
             PROVE  T \in SUBSET WorkerLoad(w) /\ Undisputed(T)
  BY DEF CapacityInv
<1>1. T \in SUBSET Sessions /\ \A t \in T : NonTerminal(t)'
  BY DEF WorkerLoad, SessionsOn
<1>2. CASE \E s \in Sessions : Begin(s)
  <2>1. PICK s \in Sessions : Begin(s)
    BY <1>2
  <2>2. T \in SUBSET WorkerLoad(w)
    BY <2>1, BeginStatus DEF WorkerLoad, SessionsOn, NonTerminal, Pending, Terminal
  <2> SUFFICES ASSUME NEW m \in T, IsMaintenance(m), status[m] = "RESERVED"
               PROVE  T \intersect SessionsOf(ProfileOf[m]) = {m}
    BY <2>2 DEF Undisputed
  <2>3. CASE m = s
    BY <1>1, <2>1, <2>2, <2>3, BeginStatus DEF Active, SessionsOf, WorkerLoad
  <2>4. CASE m # s
    BY <1>1, <2>1, <2>4, BeginStatus DEF Undisputed, IsMaintenance, SessionsOf
  <2> QED BY <2>3, <2>4
<1>3. CASE EndingStep
  <2>1. T \in SUBSET WorkerLoad(w)
    BY <1>3, EndingStepShrinks DEF WorkerLoad, SessionsOn
  <2> SUFFICES ASSUME NEW m \in T, IsMaintenance(m), status[m] = "RESERVED"
               PROVE  T \intersect SessionsOf(ProfileOf[m]) = {m}
    BY <2>1 DEF Undisputed
  <2>2. status'[m] = "RESERVED"
    BY <1>1, <1>3 DEF EndingStep, Ending, NonTerminal, Live, Terminal
  <2> QED BY <2>2 DEF Undisputed, IsMaintenance, SessionsOf
<1> QED BY <1>2, <1>3

LEMMA CapacityInit == Init => CapacityInv
<1> SUFFICES ASSUME Init, NEW w \in Workers, WorkerLimit[w] # NoLimit, NEW T \in SUBSET WorkerLoad(w)
             PROVE  Cardinality(T) <= WorkerLimit[w]
  BY DEF CapacityInv
<1>1. T = {}
  BY DEF Init, WorkerLoad, NonTerminal, SessionsOn
<1>2. WorkerLimit[w] \in Nat
  BY ConstantsAssumption DEF ConstantsAssumption, Limits
<1> QED BY <1>1, <1>2, FS_EmptySet

LEMMA CapacityInvImplies == CapacityInv => WorkerCapacity
<1> SUFFICES ASSUME CapacityInv, NEW w \in Workers, WorkerLimit[w] # NoLimit
             PROVE  Cardinality(Begun(SessionsOn(w))) <= WorkerLimit[w]
  BY DEF WorkerCapacity
<1>1. Begun(SessionsOn(w)) \in SUBSET WorkerLoad(w) /\ Undisputed(Begun(SessionsOn(w)))
  BY DEF Begun, WorkerLoad, Undisputed
<1> QED BY <1>1 DEF CapacityInv

\* maxActiveTabs holds for the Sessions begun on a Worker although maintenance is not counted
\* against the Sessions it replaces.
THEOREM WorkerCapacityTheorem == Spec => []WorkerCapacity
<1>1. ExclusionInv /\ CapacityInv /\ [Next]_vars => CapacityInv'
  BY StepKinds, CapacityReserve, CapacityOther, ConstantsAssumption DEF ExclusionInv
<1> QED BY <1>1, CapacityInit, CapacityInvImplies, ExclusionInvariance, PTL DEF Spec

-----------------------------------------------------------------------------
(* Session rows and reservation rows.                                      *)

\* ReservationAgrees for one Session with status x and reservation r.
Agree(x, r) ==
  /\ x = "ABSENT" <=> r = "NONE"
  /\ x \in Pending => r = "ACTIVE"
  /\ x \in Live => r = "CONSUMED"
  /\ x = "CLOSING" => r \in {"ACTIVE", "CONSUMED"}
  /\ x \in Terminal => r \in {"RELEASED", "EXPIRED"}

LEMMA AgreeForAll == ReservationAgrees <=> \A s \in Sessions : Agree(status[s], reservation[s])
  BY DEF ReservationAgrees, Agree

LEMMA QueueCloseAgrees ==
  ASSUME ReservationAgrees, NEW S \in SUBSET Sessions, \A s \in S : Open(s), QueueClose(S)
  PROVE  ReservationAgrees'
  BY DEF ReservationAgrees, QueueClose, AfterClose, ReservationAfterClose, Open, Pending, Live,
         Terminal

LEMMA SessionStepAgrees ==
  ASSUME TypeOK, ReservationAgrees, NEW s \in Sessions, SessionStep(s)
  PROVE  ReservationAgrees'
<1> USE DEF sessionVars, reservationVars
<1>1. CASE Reserve(s)
  BY <1>1 DEF Reserve, ReservationAgrees, TypeOK, AfterClose, ReservationAfterClose, Open, Pending,
              Live, Terminal
<1>2. CASE Close(s)
  BY <1>2, QueueCloseAgrees DEF Close
<1>3. CASE Lapse(s) \/ Remove(s)
  BY <1>3 DEF Lapse, Remove, ReservationAgrees
<1>4. CASE \/ \E cleared \in BOOLEAN : DeliverRead(s, cleared)
           \/ BeginRefused(s) \/ DeliverFailed(s) \/ DeliverUnavailable(s)
  BY <1>4 DEF DeliverRead, BeginRefused, DeliverFailed, DeliverUnavailable, OnlyDelivery,
              ReservationAgrees
<1>5. CASE Begin(s)
  BY <1>5 DEF Begin, ReservationAgrees, TypeOK, Pending, Live, Terminal
<1>6. CASE Accept(s)
  BY <1>6 DEF Accept, AcceptsResult, ReservationAgrees, TypeOK, Pending, Live, Terminal
<1>7. CASE Fail(s)
  BY <1>7 DEF Fail, IsPending, ReservationAgrees, TypeOK, Pending, Live, Terminal
<1>8. CASE \E succeeded \in BOOLEAN : CloseDelivered(s, succeeded)
  BY <1>8 DEF CloseDelivered, ReservationAgrees, TypeOK, Pending, Live, Terminal
<1> QED
  BY <1>1, <1>2, <1>3, <1>4, <1>5, <1>6, <1>7, <1>8 DEF SessionStep, Deliver

LEMMA SnapshotAgrees ==
  ASSUME TypeOK, ReservationAgrees, ConstantsAssumption, NEW w \in Workers, Snapshot(w)
  PROVE  ReservationAgrees'
<1>1. PICK seen \in [ProfilesOn(w) -> RuntimeFacts \union {"NONE", "OTHER", "KEPT"}],
           fact \in [Reportable(w) -> SessionFacts],
           late \in SUBSET lapsed :
        /\ \A s \in DOMAIN fact :
             FactPossible(s, fact[s], RuntimeSeen(ProfileOf[s], seen[ProfileOf[s]]))
        /\ Reconcile(w, seen, fact, late)
  BY DEF Snapshot
<1> SUFFICES ASSUME NEW s \in Sessions
             PROVE  Agree(status'[s], reservation'[s])
  BY DEF Agree, ReservationAgrees
<1>2. Agree(status[s], reservation[s])
  BY AgreeForAll
<1>3. CASE s \in DOMAIN fact
  <2>1. fact[s] \in SessionFacts
    BY <1>3
  <2>2. FactPossible(s, fact[s], RuntimeSeen(ProfileOf[s], seen[ProfileOf[s]]))
    BY <1>1, <1>3
  <2>3. Agree(StatusSeen(s, fact[s]), ReservationSeen(s, StatusSeen(s, fact[s])))
    BY <1>2, <2>1, <2>2 DEF FactPossible, TabAccepted, Reconcilable, StatusSeen, ReservationSeen, Agree,
       SessionFacts, WorkerStates, Pending, Live, Terminal, TypeOK, Statuses
  <2>4. /\ status'[s] = StatusSeen(s, fact[s])
        /\ reservation'[s] = ReservationSeen(s, StatusSeen(s, fact[s]))
    BY <1>1, <1>3 DEF Reconcile
  <2> QED BY <2>3, <2>4
<1>4. CASE s \notin DOMAIN fact
  BY <1>1, <1>2, <1>4 DEF Reconcile
<1> QED BY <1>3, <1>4

LEMMA ProfileStepAgrees ==
  ASSUME TypeOK, ReservationAgrees, NEW p \in Profiles, ProfileStep(p)
  PROVE  ReservationAgrees'
<1> DEFINE S == {s \in SessionsOf(p) : Open(s)}
<1>1. S \in SUBSET Sessions /\ \A s \in S : Open(s)
  BY DEF SessionsOf
<1>2. CASE RecoverRuntime(p) \/ DisableProfile(p)
  BY <1>1, <1>2, QueueCloseAgrees DEF RecoverRuntime, DisableProfile
<1>3. CASE ~ (RecoverRuntime(p) \/ DisableProfile(p))
  BY <1>3 DEF ProfileStep, StartRuntime, StopRuntime, ModeOperation, OperationResult, EnableProfile,
              SetRunMode, ReservationAgrees, sessionVars, reservationVars
<1> QED BY <1>2, <1>3

LEMMA AgreesStep ==
  ASSUME TypeOK, ReservationAgrees, ConstantsAssumption, [Next]_vars
  PROVE  ReservationAgrees'
<1> USE DEF sessionVars, reservationVars
<1>1. CASE UNCHANGED vars
  BY <1>1 DEF vars, ReservationAgrees
<1>2. CASE (\E s \in Sessions : SessionStep(s)) \/ (\E p \in Profiles : ProfileStep(p))
  BY <1>2, SessionStepAgrees, ProfileStepAgrees
<1>3. CASE \E w \in Workers : Snapshot(w)
  BY <1>3, SnapshotAgrees
<1>4. CASE (\E w \in Workers : WorkerRestart(w)) \/ (\E g \in Revocable : GrantAccess(g)) \/ Restart
  BY <1>4 DEF WorkerRestart, GrantAccess, Restart, ReservationAgrees
<1>5. CASE \E u \in Users : ResetPassword(u)
  BY <1>5, QueueCloseAgrees DEF ResetPassword
<1>6. CASE \E w \in Workers : DisableWorker(w)
  BY <1>6, QueueCloseAgrees DEF DisableWorker, SessionsOn
<1>7. CASE \E lost \in SUBSET grants : RevokeGrants(lost)
  BY <1>7, QueueCloseAgrees DEF RevokeGrants, Losing
<1>8. CASE ExpirePass
  BY <1>8 DEF ExpirePass, Expire, Expirable, ReservationAgrees, Pending, Live, Terminal
<1> QED BY <1>1, <1>2, <1>3, <1>4, <1>5, <1>6, <1>7, <1>8 DEF Next

\* The two rows of a Session agree after every transaction, for any Sessions and any limits.
THEOREM ReservationAgreesTheorem == Spec => []ReservationAgrees
<1>1. Init => ReservationAgrees
  BY DEF Init, ReservationAgrees, Pending, Live, Terminal
<1>2. TypeOK /\ ReservationAgrees /\ [Next]_vars => ReservationAgrees'
  BY AgreesStep, ConstantsAssumption
<1> QED BY <1>1, <1>2, TypeInvariance, PTL DEF Spec

-----------------------------------------------------------------------------
(* Who is let in: access and quotas.                                       *)

\* Only a reservation opens a Session.
LEMMA OpenStep ==
  ASSUME TypeOK, ConstantsAssumption, [Next]_vars
  PROVE  \A s \in Sessions : Open(s)' => Open(s) \/ Reserve(s)
<1> USE DEF Open, Ending, Pending, Live, Terminal
<1>1. CASE \E s \in Sessions : Reserve(s)
  BY <1>1, ReserveStatus
<1>2. CASE \E s \in Sessions : Begin(s)
  BY <1>2, BeginStatus
<1>3. CASE EndingStep
  BY <1>3 DEF EndingStep
<1> QED BY <1>1, <1>2, <1>3, StepKinds

\* Access is lost in two transactions only.
LEMMA AccessStep ==
  ASSUME [Next]_vars
  PROVE  \/ enabled \subseteq enabled' /\ grants \subseteq grants'
         \/ \E lost \in SUBSET grants : RevokeGrants(lost)
         \/ \E p \in Profiles : DisableProfile(p)
<1> USE DEF accessVars
<1>1. CASE UNCHANGED vars
  BY <1>1 DEF vars
<1>2. CASE \E s \in Sessions : SessionStep(s)
  BY <1>2 DEF SessionStep, Deliver, Reserve, Close, Lapse, DeliverRead, Begin, BeginRefused, Accept,
              DeliverFailed, DeliverUnavailable, Fail, Remove, CloseDelivered, OnlyDelivery
<1>3. CASE \E p \in Profiles : ProfileStep(p)
  BY <1>3 DEF ProfileStep, StartRuntime, StopRuntime, RecoverRuntime, ModeOperation, OperationResult,
              EnableProfile, SetRunMode
<1>4. CASE \E w \in Workers : Snapshot(w) \/ WorkerRestart(w) \/ DisableWorker(w)
  BY <1>4 DEF Snapshot, Reconcile, WorkerRestart, DisableWorker
<1>5. CASE (\E u \in Users : ResetPassword(u)) \/ ExpirePass \/ Restart
           \/ \E g \in Revocable : GrantAccess(g)
  BY <1>5 DEF ResetPassword, ExpirePass, Expire, Restart, GrantAccess
<1> QED BY <1>1, <1>2, <1>3, <1>4, <1>5 DEF Next

LEMMA AuthorizedStep ==
  ASSUME TypeOK, OpenIsAuthorized, ConstantsAssumption, [Next]_vars
  PROVE  OpenIsAuthorized'
<1> SUFFICES ASSUME NEW s \in Sessions, Open(s)'
             PROVE  Authorized(s)'
  BY DEF OpenIsAuthorized
<1>1. CASE Reserve(s)
  BY <1>1 DEF Reserve, Authorized, Needed, accessVars
<1>2. CASE Open(s)
  <2>1. Authorized(s)
    BY <1>2 DEF OpenIsAuthorized
  <2>2. CASE enabled \subseteq enabled' /\ grants \subseteq grants'
    BY <2>1, <2>2 DEF Authorized, Needed
  <2>3. CASE \E lost \in SUBSET grants : RevokeGrants(lost)
    BY <1>2, <2>1, <2>3 DEF RevokeGrants, QueueClose, AfterClose, Losing, Authorized, Needed, Open, Pending,
       Live
  <2>4. CASE \E p \in Profiles : DisableProfile(p)
    BY <1>2, <2>1, <2>4 DEF DisableProfile, QueueClose, AfterClose, SessionsOf, Authorized, Needed, Open,
       Pending, Live
  <2> QED BY <2>2, <2>3, <2>4, AccessStep
<1> QED BY <1>1, <1>2, OpenStep

\* No Session stays open for a user who may not use its Profile, whatever the order of
\* revocations, deliveries and snapshots.
THEOREM OpenIsAuthorizedTheorem == Spec => []OpenIsAuthorized
<1>1. Init => OpenIsAuthorized
  BY DEF Init, OpenIsAuthorized, Open, Pending, Live
<1>2. TypeOK /\ OpenIsAuthorized /\ [Next]_vars => OpenIsAuthorized'
  BY AuthorizedStep, ConstantsAssumption
<1> QED BY <1>1, <1>2, TypeInvariance, PTL DEF Spec

\* What is counted against a quota only grows by the Session that is reserved.
LEMMA LoadStep ==
  ASSUME TypeOK, ReleasedHasEnded, ConstantsAssumption, [Next]_vars
  PROVE  \/ \A s \in Sessions : NonTerminal(s)' => NonTerminal(s)
         \/ \E s \in Sessions : Reserve(s) /\ \A t \in Sessions \ {s} : NonTerminal(t)' => NonTerminal(t)
<1>1. CASE \E s \in Sessions : Reserve(s)
  BY <1>1, ReserveStatus DEF NonTerminal, Ending, Live, Terminal
<1>2. CASE \E s \in Sessions : Begin(s)
  BY <1>2, BeginStatus DEF NonTerminal, Pending, Terminal
<1>3. CASE EndingStep
  BY <1>3, EndingStepShrinks
<1> QED BY <1>1, <1>2, <1>3, StepKinds

\* A limit that held for L holds for M, which has at most one new Session that was checked.
LEMMA LimitKept ==
  ASSUME NEW L \in SUBSET Sessions, NEW M \in SUBSET Sessions, NEW limit \in Nat,
         Cardinality(L) <= limit,
         M \subseteq L \/ \E s \in M : M \ {s} \subseteq L /\ Cardinality(L) < limit
  PROVE  Cardinality(M) <= limit
<1>1. CASE M \subseteq L
  BY <1>1, FiniteSessions, FS_Subset
<1>2. CASE \E s \in M : M \ {s} \subseteq L /\ Cardinality(L) < limit
  BY <1>2, OneMore
<1> QED BY <1>1, <1>2

LEMMA QuotaStep ==
  ASSUME TypeOK, ReleasedHasEnded, NormalQuotas, ConstantsAssumption, [Next]_vars
  PROVE  NormalQuotas'
<1>1. ASSUME NEW u \in Users, UserLimit[u] # NoLimit
      PROVE  Cardinality(UserLoad(u)') <= UserLimit[u]
  <2>1. UserLoad(u) \in SUBSET Sessions /\ UserLoad(u)' \in SUBSET Sessions
    BY DEF UserLoad
  <2>2. Cardinality(UserLoad(u)) <= UserLimit[u] /\ UserLimit[u] \in Nat
    BY <1>1 DEF NormalQuotas, ConstantsAssumption, Limits
  <2>3. \/ UserLoad(u)' \subseteq UserLoad(u)
        \/ \E s \in UserLoad(u)' : /\ UserLoad(u)' \ {s} \subseteq UserLoad(u)
                                   /\ Reserve(s) /\ UserOf[s] = u /\ ~ IsMaintenance(s)
    BY LoadStep DEF UserLoad, IsMaintenance
  <2>4. \A s : Reserve(s) /\ UserOf[s] = u /\ ~ IsMaintenance(s) =>
          Cardinality(UserLoad(u)) < UserLimit[u]
    BY <1>1 DEF Reserve, HasCapacity, Below
  <2> QED BY <2>1, <2>2, <2>3, <2>4, LimitKept
<1>2. ASSUME NEW p \in Profiles, ProfileLimit[p] # NoLimit
      PROVE  Cardinality(ProfileLoad(p)') <= ProfileLimit[p]
  <2>1. ProfileLoad(p) \in SUBSET Sessions /\ ProfileLoad(p)' \in SUBSET Sessions
    BY DEF ProfileLoad, Active, SessionsOf
  <2>2. Cardinality(ProfileLoad(p)) <= ProfileLimit[p] /\ ProfileLimit[p] \in Nat
    BY <1>2 DEF NormalQuotas, ConstantsAssumption, Limits
  <2>3. \/ ProfileLoad(p)' \subseteq ProfileLoad(p)
        \/ \E s \in ProfileLoad(p)' : /\ ProfileLoad(p)' \ {s} \subseteq ProfileLoad(p)
                                      /\ Reserve(s) /\ ProfileOf[s] = p /\ ~ IsMaintenance(s)
    BY LoadStep DEF ProfileLoad, Active, SessionsOf, IsMaintenance
  <2>4. \A s : Reserve(s) /\ ProfileOf[s] = p /\ ~ IsMaintenance(s) =>
          Cardinality(ProfileLoad(p)) < ProfileLimit[p]
    BY <1>2 DEF Reserve, HasCapacity, Below
  <2> QED BY <2>1, <2>2, <2>3, <2>4, LimitKept
<1> QED BY <1>1, <1>2 DEF NormalQuotas

\* maxActiveSessions and maxNormalSessions hold, although they are only looked at when a Session
\* is reserved.
THEOREM NormalQuotasTheorem == Spec => []NormalQuotas
<1>1. Init => NormalQuotas
  <2> SUFFICES ASSUME Init
               PROVE  NormalQuotas
    OBVIOUS
  <2>1. (\A u \in Users : UserLoad(u) = {}) /\ (\A p \in Profiles : ProfileLoad(p) = {})
    BY DEF Init, UserLoad, ProfileLoad, Active, SessionsOf, NonTerminal
  <2>2. Cardinality({}) = 0
    BY FS_EmptySet
  <2>3. /\ \A u \in Users : UserLimit[u] # NoLimit => UserLimit[u] \in Nat
        /\ \A p \in Profiles : ProfileLimit[p] # NoLimit => ProfileLimit[p] \in Nat
    BY ConstantsAssumption DEF ConstantsAssumption, Limits
  <2> QED BY <2>1, <2>2, <2>3 DEF NormalQuotas
<1>2. ExclusionInv /\ NormalQuotas /\ [Next]_vars => NormalQuotas'
  BY QuotaStep, ConstantsAssumption DEF ExclusionInv
<1> QED BY <1>1, <1>2, ExclusionInvariance, PTL DEF Spec

-----------------------------------------------------------------------------
(* Sessions and the Runtime of their Profile.                              *)

\* Whatever asks a Runtime to stop leaves no Session open, and nothing is reserved on it.
LEMMA StopStep ==
  ASSUME TypeOK, [Next]_vars, NEW p \in Profiles, desired'[p] = "STOPPED"
  PROVE  /\ \A s \in SessionsOf(p) : ~ Reserve(s)
         /\ desired[p] = "STOPPED" \/ \A s \in SessionsOf(p) : ~ Open(s) \/ ~ Open(s)'
<1> USE DEF runtimeVars
<1>1. ASSUME NEW s \in SessionsOf(p), Reserve(s)
      PROVE  FALSE
  BY <1>1 DEF Reserve, RuntimeAdmits, PersistStart, SessionsOf, TypeOK
<1>2. ASSUME desired[p] # "STOPPED"
      PROVE  \A s \in SessionsOf(p) : ~ Open(s) \/ ~ Open(s)'
  <2>1. CASE UNCHANGED desired
    BY <1>2, <2>1
  <2>2. CASE \E s \in Sessions : SessionStep(s)
    BY <1>2, <2>2 DEF SessionStep, Deliver, Reserve, Close, Lapse, DeliverRead, Begin, BeginRefused,
       Accept, DeliverFailed, DeliverUnavailable, Fail, Remove, CloseDelivered, OnlyDelivery, PersistStart,
       TypeOK
  <2>3. CASE \E q \in Profiles : StartRuntime(q) \/ StopRuntime(q) \/ ModeOperation(q)
    <3>1. PICK q \in Profiles : Active(q) = {} /\ (PersistStart(q) \/ PersistStop(q))
      BY <2>3 DEF StartRuntime, StopRuntime, ModeOperation
    <3>2. q = p
      BY <1>2, <3>1 DEF PersistStart, PersistStop, TypeOK
    <3> QED BY <3>1, <3>2 DEF Active, SessionsOf, Open, NonTerminal, Pending, Live, Terminal
  <2>4. CASE \E q \in Profiles : RecoverRuntime(q)
    <3>1. PICK q \in Profiles : RecoverRuntime(q)
      BY <2>4
    <3>2. q = p
      BY <1>2, <3>1 DEF RecoverRuntime, PersistStop, TypeOK
    <3> QED BY <3>1, <3>2 DEF RecoverRuntime, QueueClose, AfterClose, SessionsOf, Open, Pending, Live
  <2>5. CASE \E q \in Profiles : ProfileStep(q)
    <3>1. CASE UNCHANGED desired
      BY <2>1, <3>1
    <3> QED BY <2>3, <2>4, <2>5, <3>1 DEF ProfileStep, OperationResult, EnableProfile, DisableProfile,
            SetRunMode
  <2>6. CASE [Next]_vars /\ ~ (\E s \in Sessions : SessionStep(s)) /\ ~ (\E q \in Profiles : ProfileStep(q))
    <3>1. UNCHANGED desired
      BY <2>6 DEF Next, vars, Snapshot, Reconcile, WorkerRestart, DisableWorker, ResetPassword, RevokeGrants,
         GrantAccess, ExpirePass, Expire, Restart
    <3> QED BY <2>1, <3>1
  <2> QED BY <2>2, <2>5, <2>6
<1> QED BY <1>1, <1>2

\* A Runtime that is meant to stop has no open Session, whoever asked for the stop.
THEOREM StoppingHasNoOpenSessionTheorem == Spec => []StoppingHasNoOpenSession
<1>1. Init => StoppingHasNoOpenSession
  BY DEF Init, StoppingHasNoOpenSession, SessionsOf, Open, Pending, Live
<1>2. TypeOK /\ StoppingHasNoOpenSession /\ [Next]_vars => StoppingHasNoOpenSession'
  <2> SUFFICES ASSUME TypeOK, StoppingHasNoOpenSession, [Next]_vars,
                      NEW p \in Profiles, desired'[p] = "STOPPED", NEW s \in SessionsOf(p), Open(s)'
               PROVE  FALSE
    BY DEF StoppingHasNoOpenSession, SessionsOf
  <2>1. s \in Sessions /\ Open(s)
    BY OpenStep, StopStep, ConstantsAssumption DEF SessionsOf
  <2> QED BY <2>1, StopStep DEF StoppingHasNoOpenSession
<1> QED BY <1>1, <1>2, TypeInvariance, PTL DEF Spec

-----------------------------------------------------------------------------
(* The create command of a Session.                                        *)

\* A Runtime is only known to exist once it has an identity.
StartedOnce ==
  \A p \in Profiles : generation[p] = 0 =>
    runtimeState[p] = "STOPPED" /\ desired[p] = "STOPPED" /\ operation[p] = "NONE"

LEMMA PersistStarted ==
  ASSUME TypeOK, StartedOnce, NEW p \in Profiles,
         \/ PersistStart(p)
         \/ PersistStop(p) /\ runtimeState[p] # "STOPPED"
  PROVE  StartedOnce' /\ (PersistStart(p) => generation'[p] # 0)
  BY DEF TypeOK, StartedOnce, PersistStart, PersistStop

LEMMA StartedStep ==
  ASSUME TypeOK, StartedOnce, ConstantsAssumption, [Next]_vars
  PROVE  StartedOnce'
<1> USE DEF runtimeVars
<1>1. CASE UNCHANGED runtimeVars
  BY <1>1 DEF StartedOnce
<1>2. ASSUME NEW s \in Sessions, SessionStep(s)
      PROVE  StartedOnce'
  <2>1. CASE Reserve(s)
    BY <2>1, <1>1, PersistStarted DEF Reserve, ConstantsAssumption, StartedOnce
  <2>2. CASE Begin(s)
    BY <2>2 DEF Begin, BeginCommits, BeginAdmits, RuntimeBegins, StartedOnce, TypeOK
  <2>3. CASE ~ Reserve(s) /\ ~ Begin(s)
    BY <1>1, <1>2, <2>3 DEF SessionStep, Deliver, Close, Lapse, DeliverRead, BeginRefused, Accept,
       DeliverFailed, DeliverUnavailable, Fail, Remove, CloseDelivered, OnlyDelivery
  <2> QED BY <2>1, <2>2, <2>3
<1>3. ASSUME NEW p \in Profiles, ProfileStep(p)
      PROVE  StartedOnce'
  <2>1. CASE StartRuntime(p) \/ StopRuntime(p) \/ RecoverRuntime(p) \/ ModeOperation(p)
    BY <2>1, PersistStarted DEF StartRuntime, StopRuntime, RecoverRuntime, ModeOperation
  <2>2. CASE \E succeeded, superseded \in BOOLEAN : OperationResult(p, succeeded, superseded)
    BY <2>2 DEF OperationResult, StartedOnce, TypeOK
  <2>3. CASE EnableProfile(p) \/ DisableProfile(p) \/ \E m \in RunModes : SetRunMode(p, m)
    BY <2>3 DEF EnableProfile, DisableProfile, SetRunMode, StartedOnce
  <2> QED BY <1>3, <2>1, <2>2, <2>3 DEF ProfileStep
<1>4. ASSUME NEW w \in Workers, Snapshot(w)
      PROVE  StartedOnce'
  <2>1. PICK seen, fact, late : Reconcile(w, seen, fact, late)
    BY <1>4 DEF Snapshot
  <2>2. \A p \in Profiles : \A f : generation[p] = 0 => RuntimeSeen(p, f) = "STOPPED"
    BY DEF StartedOnce, RuntimeSeen
  <2> QED BY <2>1, <2>2 DEF Reconcile, StartedOnce
<1>5. CASE \/ UNCHANGED vars
           \/ \E w \in Workers : WorkerRestart(w) \/ DisableWorker(w)
           \/ \E u \in Users : ResetPassword(u)
           \/ \E lost \in SUBSET grants : RevokeGrants(lost)
           \/ \E g \in Revocable : GrantAccess(g)
           \/ ExpirePass
           \/ Restart
  BY <1>5 DEF vars, WorkerRestart, DisableWorker, ResetPassword, RevokeGrants, GrantAccess, ExpirePass,
     Expire, Restart, StartedOnce
<1> QED BY <1>2, <1>3, <1>4, <1>5 DEF Next

\* A command is stored by the reservation and deleted once nothing is pending any more.
LEMMA CommandStep ==
  ASSUME TypeOK, ReservationAgrees, StartedOnce, PendingHasCommand, ConstantsAssumption, [Next]_vars
  PROVE  PendingHasCommand'
<1> SUFFICES ASSUME NEW s \in Sessions, status'[s] \in Pending
             PROVE  createOutbox'[s] # 0
  BY DEF PendingHasCommand
<1>1. CASE Reserve(s)
  <2>1. generation'[ProfileOf[s]] # 0
    BY <1>1, PersistStarted DEF Reserve, RuntimeAdmits, StartedOnce, ConstantsAssumption, TypeOK
  <2> QED BY <1>1, <2>1 DEF Reserve, TypeOK
<1>2. CASE ~ Reserve(s)
  <2>1. status[s] \in Pending
    <3> USE DEF Pending, Live, Terminal, Ending
    <3>1. CASE \E t \in Sessions : Reserve(t)
      BY <1>2, <3>1, ReserveStatus
    <3>2. CASE \E t \in Sessions : Begin(t)
      BY <3>2, BeginStatus
    <3>3. CASE EndingStep
      BY <3>3 DEF EndingStep
    <3> QED BY <3>1, <3>2, <3>3, StepKinds
  <2>2. reservation[s] = "ACTIVE" /\ createOutbox[s] # 0
    BY <2>1 DEF ReservationAgrees, PendingHasCommand
  <2>3. ~ Remove(s)
    BY <2>1, <2>2 DEF Remove, IsPending
  <2>4. createOutbox'[s] = createOutbox[s]
    <3> USE DEF reservationVars
    <3>1. ASSUME NEW t \in Sessions, SessionStep(t), t # s
          PROVE  createOutbox'[s] = createOutbox[s]
      BY <3>1 DEF SessionStep, Deliver, Reserve, Close, Lapse, DeliverRead, Begin, BeginRefused, Accept,
         DeliverFailed, DeliverUnavailable, Fail, Remove, CloseDelivered, OnlyDelivery, TypeOK
    <3>2. CASE SessionStep(s)
      BY <1>2, <2>3, <3>2 DEF SessionStep, Deliver, Close, Lapse, DeliverRead, Begin, BeginRefused,
         Accept, DeliverFailed, DeliverUnavailable, Fail, CloseDelivered, OnlyDelivery, TypeOK
    <3>3. CASE \E p \in Profiles : ProfileStep(p)
      BY <3>3 DEF ProfileStep, StartRuntime, StopRuntime, RecoverRuntime, ModeOperation, OperationResult,
         EnableProfile, DisableProfile, SetRunMode
    <3>4. CASE ~ (\E t \in Sessions : SessionStep(t)) /\ ~ (\E p \in Profiles : ProfileStep(p))
      BY <3>4 DEF Next, vars, Snapshot, Reconcile, WorkerRestart, DisableWorker, ResetPassword,
         RevokeGrants, GrantAccess, ExpirePass, Expire, Restart
    <3> QED BY <3>1, <3>2, <3>3, <3>4
  <2> QED BY <2>2, <2>4
<1> QED BY <1>1, <1>2

\* No restart of the Backend and no order of passes loses the create command of a Session that
\* still waits for its Tab.
THEOREM PendingHasCommandTheorem == Spec => []PendingHasCommand
<1>1. Init => StartedOnce /\ PendingHasCommand
  BY DEF Init, StartedOnce, PendingHasCommand, Pending
<1>2. TypeOK /\ ReservationAgrees /\ StartedOnce /\ PendingHasCommand /\ [Next]_vars
        => StartedOnce' /\ PendingHasCommand'
  BY StartedStep, CommandStep, ConstantsAssumption
<1> QED BY <1>1, <1>2, TypeInvariance, ReservationAgreesTheorem, PTL DEF Spec

\* Nothing is being delivered for a Session that has not been reserved.
SentInv == SentAsBound /\ \A s \in Sessions : status[s] = "ABSENT" => delivery[s] = "IDLE"

LEMMA SentStep ==
  ASSUME TypeOK, SentInv, ConstantsAssumption, [Next]_vars
  PROVE  SentInv'
<1> USE DEF sessionVars, reservationVars
<1>1. \A s \in Sessions : status'[s] = "ABSENT" => status[s] = "ABSENT"
  <2> USE DEF Ending, Live, Terminal
  <2>1. CASE \E s \in Sessions : Reserve(s)
    BY <2>1, ReserveStatus
  <2>2. CASE \E s \in Sessions : Begin(s)
    BY <2>2, BeginStatus
  <2>3. CASE EndingStep
    BY <2>3 DEF EndingStep
  <2> QED BY <2>1, <2>2, <2>3, StepKinds
<1>2. CASE UNCHANGED <<bound, createOutbox, delivery>>
  BY <1>1, <1>2 DEF SentInv, SentAsBound
<1>3. ASSUME NEW s \in Sessions, SessionStep(s)
      PROVE  SentInv'
  <2>1. CASE Reserve(s)
    BY <1>1, <2>1 DEF Reserve, SentInv, SentAsBound, TypeOK
  <2>2. CASE Begin(s)
    BY <1>1, <2>2, BeginStatus DEF Begin, StepAfterBegin, Goto, SentInv, SentAsBound, TypeOK, Pending
  <2>3. CASE Remove(s)
    BY <1>1, <2>3 DEF Remove, SentInv, SentAsBound, TypeOK
  <2>4. CASE \E cleared \in BOOLEAN : DeliverRead(s, cleared)
    BY <1>1, <2>4 DEF DeliverRead, ReadStep, IsPending, Goto, OnlyDelivery, SentInv, SentAsBound, TypeOK,
       Pending
  <2>5. CASE BeginRefused(s) \/ DeliverFailed(s) \/ DeliverUnavailable(s)
    BY <1>1, <2>5 DEF BeginRefused, DeliverFailed, DeliverUnavailable, Goto, OnlyDelivery, SentInv,
       SentAsBound, TypeOK
  <2>6. CASE Accept(s) \/ Fail(s)
    BY <1>1, <2>6 DEF Accept, Fail, Goto, SentInv, SentAsBound, TypeOK
  <2>7. CASE Close(s) \/ Lapse(s) \/ \E succeeded \in BOOLEAN : CloseDelivered(s, succeeded)
    BY <1>2, <2>7 DEF Close, Lapse, CloseDelivered
  <2> QED BY <1>3, <2>1, <2>2, <2>3, <2>4, <2>5, <2>6, <2>7 DEF SessionStep, Deliver
<1>4. CASE \E p \in Profiles : ProfileStep(p)
  BY <1>2, <1>4 DEF ProfileStep, StartRuntime, StopRuntime, RecoverRuntime, ModeOperation, OperationResult,
     EnableProfile, DisableProfile, SetRunMode
<1>5. CASE Restart
  BY <1>5 DEF Restart, SentInv, SentAsBound
<1>6. CASE ~ ((\E s \in Sessions : SessionStep(s)) \/ (\E p \in Profiles : ProfileStep(p)) \/ Restart)
  BY <1>2, <1>6 DEF Next, vars, Snapshot, Reconcile, WorkerRestart, DisableWorker, ResetPassword, RevokeGrants,
     GrantAccess, ExpirePass, Expire
<1> QED BY <1>3, <1>4, <1>5, <1>6

\* A create command only goes out for the Runtime identity its Session was bound to, although
\* the Profile may have got another one between the read and begin.
THEOREM SentAsBoundTheorem == Spec => []SentAsBound
<1>1. Init => SentInv
  BY DEF Init, SentInv, SentAsBound
<1>2. TypeOK /\ SentInv /\ [Next]_vars => SentInv'
  BY SentStep, ConstantsAssumption
<1>3. SentInv => SentAsBound
  BY DEF SentInv
<1> QED BY <1>1, <1>2, <1>3, TypeInvariance, PTL DEF Spec

\* What the delivery relies on in the rows it finds.
THEOREM CreationIsKeptTheorem == Spec => []CreationIsKept
BY PendingHasCommandTheorem, SentAsBoundTheorem, PTL DEF CreationIsKept

\* An open Session is one its user may use, on a Runtime that is meant to run.
THEOREM OpenIsAllowedTheorem == Spec => []OpenIsAllowed
BY OpenIsAuthorizedTheorem, StoppingHasNoOpenSessionTheorem, PTL DEF OpenIsAllowed

=============================================================================
