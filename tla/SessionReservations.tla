------------------------- MODULE SessionReservations -------------------------
(***************************************************************************)
(* The Backend's record of Tab Sessions: the transactions that reserve,    *)
(* begin, accept, fail, expire, close and reconcile a Session, together    *)
(* with the Profile Runtime state they read and write.  One action is one  *)
(* database transaction; the creation delivery loop, which runs several of *)
(* them with awaits between, has a program counter per Session.            *)
(*                                                                         *)
(* A member of Sessions is one possible reservation: the user, Profile and *)
(* kind of the request that makes it are fixed by UserOf, ProfileOf and    *)
(* KindOf.  The Worker and the clock are the environment here: a snapshot  *)
(* reports whatever the reconciler would accept, a delivery ends in any    *)
(* way the control server lets it end.  Admission checks on state kept     *)
(* elsewhere (Worker connection and capabilities, storage, proxy health,   *)
(* published policies) only refuse a request: it is then never made.       *)
(*                                                                         *)
(* An operator named Faulty... is not part of the model: it is a mistake   *)
(* one could make in the operator that follows it, substituted for that    *)
(* operator to see that a property notices.                                *)
(***************************************************************************)
EXTENDS Naturals, FiniteSets

CONSTANTS
  Users, Profiles, Workers, Sessions,
  UserOf,         \* [Sessions -> Users]
  ProfileOf,      \* [Sessions -> Profiles]
  KindOf,         \* [Sessions -> Kinds]
  WorkerOf,       \* [Profiles -> Workers]
  RunModes,       \* bound: the run modes an administrator sets
  UserLimit,      \* maxActiveSessions, maxNormalSessions and maxActiveTabs:
  ProfileLimit,   \*   a number, or
  WorkerLimit,    \*   NoLimit
  NoLimit,
  MaxGeneration,  \* bound: Runtime generations one Profile goes through
  Revocable,      \* bound: the grants that come and go
  Switchable,     \* bound: Profiles that are disabled and enabled again
  Recoverable     \* bound: Profiles whose Runtime an administrator recovers

Kinds == {"NORMAL", "MAINTENANCE"}
Modes == {"MANUAL", "ON_DEMAND", "ALWAYS_ON"}
Limits == Nat \union {NoLimit}

\* What a user needs for a kind of Session: access to the Profile and the permission for the kind.
Grants == Users \X Profiles \X Kinds

ASSUME ConstantsAssumption ==
  /\ UserOf \in [Sessions -> Users]
  /\ ProfileOf \in [Sessions -> Profiles]
  /\ KindOf \in [Sessions -> Kinds]
  /\ WorkerOf \in [Profiles -> Workers]
  /\ RunModes \subseteq Modes
  /\ UserLimit \in [Users -> Limits]
  /\ ProfileLimit \in [Profiles -> Limits]
  /\ WorkerLimit \in [Workers -> Limits]
  /\ NoLimit \notin Nat
  /\ MaxGeneration \in Nat
  /\ Revocable \subseteq Grants
  /\ Switchable \subseteq Profiles
  /\ Recoverable \subseteq Profiles

ASSUME FiniteSessionsAssumption == IsFiniteSet(Sessions)

VARIABLES
  \* tab_sessions
  status,          \* ABSENT is a request that has not been made
  bound,           \* Runtime identity recorded by begin: its generation, 0 for null
  sameInstance,    \* Sessions whose workerInstanceId is that of the connected Worker process
  closeRequested,  \* Sessions whose closeReason was set by queueSessionClose
  released,        \* Sessions with a maintenanceReleasedAt
  \* reservations, session_create_outbox, session_close_outbox
  reservation,
  lapsed,          \* Sessions whose reservation is past its expiresAt
  createOutbox,    \* generation in the stored create command, 0 for no row
  closeOutbox,     \* Sessions with a close command waiting
  delivery,        \* where SessionCreationService.#deliver is, per Session
  \* profiles, profile_runtime_outbox
  runtimeState,
  desired,
  generation,
  attached,        \* Profiles whose runtimeWorkerInstanceId is the connected Worker process
  operation,       \* action of the row in profile_runtime_outbox
  mode,
  enabled,         \* Profiles with businessStatus ENABLED
  grants           \* those that authorized() finds, the Profile being enabled

sessionVars == <<status, bound, sameInstance, closeRequested, released>>
reservationVars == <<reservation, lapsed, createOutbox, closeOutbox>>
runtimeVars == <<runtimeState, desired, generation, attached, operation, mode>>
accessVars == <<enabled, grants>>
vars == <<sessionVars, reservationVars, delivery, runtimeVars, accessVars>>

-----------------------------------------------------------------------------
(* Statuses.  ATTACHED stands for CONNECTED, SUSPENDED and DISCONNECTED,   *)
(* which every handler of this module treats alike.                        *)

Pending == {"RESERVED", "CREATING"}
Live == {"READY", "ATTACHED"}
Terminal == {"CLOSED", "FAILED"}
Statuses == {"ABSENT", "CLOSING"} \union Pending \union Live \union Terminal
WorkerStates == {"CREATING", "CLOSING"} \union Live
ReservationStatuses == {"NONE", "ACTIVE", "CONSUMED", "RELEASED", "EXPIRED"}
DeliverySteps == {"IDLE", "BEGIN", "SENT", "FAIL"}
RuntimeStates == {"STOPPED", "STARTING", "RUNNING", "MAINTAINING", "STOPPING", "ERROR"}
ActiveProfileStates == {"STARTING", "RUNNING", "MAINTAINING", "STOPPING"}

NonTerminal(s) == status[s] \notin {"ABSENT"} \union Terminal
IsMaintenance(s) == KindOf[s] = "MAINTENANCE"
SessionsOf(p) == {s \in Sessions : ProfileOf[s] = p}
SessionsOn(w) == {s \in Sessions : WorkerOf[ProfileOf[s]] = w}
ProfilesOn(w) == {p \in Profiles : WorkerOf[p] = w}
Active(p) == {s \in SessionsOf(p) : NonTerminal(s)}

\* A maintenance Session that has not been released keeps its Profile.
Unreleased(s) == IsMaintenance(s) /\ status[s] # "ABSENT" /\ s \notin released
Maintainers(p) == {m \in SessionsOf(p) : Unreleased(m)}

Needed(s) == <<UserOf[s], ProfileOf[s], KindOf[s]>>
Authorized(s) == ProfileOf[s] \in enabled /\ Needed(s) \in grants

TypeOK ==
  /\ status \in [Sessions -> Statuses]
  /\ bound \in [Sessions -> Nat]
  /\ sameInstance \subseteq Sessions
  /\ closeRequested \subseteq Sessions
  /\ released \subseteq Sessions
  /\ reservation \in [Sessions -> ReservationStatuses]
  /\ lapsed \subseteq Sessions
  /\ createOutbox \in [Sessions -> Nat]
  /\ closeOutbox \subseteq Sessions
  /\ delivery \in [Sessions -> DeliverySteps]
  /\ runtimeState \in [Profiles -> RuntimeStates]
  /\ desired \in [Profiles -> {"RUNNING", "STOPPED"}]
  /\ generation \in [Profiles -> Nat]
  /\ attached \subseteq Profiles
  /\ operation \in [Profiles -> {"NONE", "START", "STOP"}]
  /\ mode \in [Profiles -> Modes]
  /\ enabled \subseteq Profiles
  /\ grants \subseteq Grants

\* A fresh deployment: Profiles exist and are stopped, nothing was reserved yet.
Init ==
  /\ status = [s \in Sessions |-> "ABSENT"]
  /\ bound = [s \in Sessions |-> 0]
  /\ sameInstance = {}
  /\ closeRequested = {}
  /\ released = {}
  /\ reservation = [s \in Sessions |-> "NONE"]
  /\ lapsed = {}
  /\ createOutbox = [s \in Sessions |-> 0]
  /\ closeOutbox = {}
  /\ delivery = [s \in Sessions |-> "IDLE"]
  /\ runtimeState = [p \in Profiles |-> "STOPPED"]
  /\ desired = [p \in Profiles |-> "STOPPED"]
  /\ generation = [p \in Profiles |-> 0]
  /\ attached = {}
  /\ operation = [p \in Profiles |-> "NONE"]
  /\ mode \in [Profiles -> RunModes]
  /\ enabled = Profiles
  /\ grants = {Needed(s) : s \in Sessions}

-----------------------------------------------------------------------------
(* Closing.  queueSessionClose turns an open Session into CLOSED when no   *)
(* command for it can have been sent, else into CLOSING with a command in  *)
(* the close outbox; the callers hold the Session row locks.               *)

Open(s) == status[s] \in Pending \union Live

AfterClose(S) ==
  [s \in Sessions |-> IF s \notin S THEN status[s]
                      ELSE IF status[s] = "RESERVED" THEN "CLOSED" ELSE "CLOSING"]

ReservationAfterClose(S) ==
  [s \in Sessions |-> IF s \in S /\ status[s] = "RESERVED" THEN "RELEASED" ELSE reservation[s]]

QueueClose(S) ==
  /\ status' = AfterClose(S)
  /\ reservation' = ReservationAfterClose(S)
  /\ closeRequested' = closeRequested \union S
  /\ closeOutbox' = closeOutbox \union {s \in S : status[s] # "RESERVED"}

\* A user or an administrator closes one Session.
Close(s) ==
  /\ Open(s)
  /\ QueueClose({s})
  /\ UNCHANGED <<bound, sameInstance, released, lapsed, createOutbox, delivery,
                 runtimeVars, accessVars>>

FaultyLosing(lost) == {s \in Sessions : status[s] \in Live /\ Needed(s) \in lost}
Losing(lost) == {s \in Sessions : Open(s) /\ Needed(s) \in lost}

\* revokeTabSessions commits with the mutation that took the access away: grants removed from
\* users or Profiles, users disabled or deleted, roles or group members changed ...
RevokeGrants(lost) ==
  /\ lost # {}
  /\ lost \subseteq Revocable
  /\ grants' = grants \ lost
  /\ QueueClose(Losing(lost))
  /\ UNCHANGED <<bound, sameInstance, released, lapsed, createOutbox, delivery,
                 runtimeVars, enabled>>

\* ... and a Profile disabled (profiles.setState).
DisableProfile(p) ==
  /\ p \in enabled \intersect Switchable
  /\ enabled' = enabled \ {p}
  /\ QueueClose({s \in SessionsOf(p) : Open(s)})
  /\ UNCHANGED <<bound, sameInstance, released, lapsed, createOutbox, delivery,
                 runtimeVars, grants>>

\* A password reset closes the user's Sessions without looking at the access that is left, ...
ResetPassword(u) ==
  LET S == {s \in Sessions : UserOf[s] = u /\ Open(s)} IN
  /\ S # {}
  /\ QueueClose(S)
  /\ UNCHANGED <<bound, sameInstance, released, lapsed, createOutbox, delivery,
                 runtimeVars, accessVars>>

\* ... and so does disabling a Worker.  Admission to it then stops.
DisableWorker(w) ==
  LET S == {s \in SessionsOn(w) : Open(s)} IN
  /\ S # {}
  /\ QueueClose(S)
  /\ UNCHANGED <<bound, sameInstance, released, lapsed, createOutbox, delivery,
                 runtimeVars, accessVars>>

GrantAccess(g) ==
  /\ g \notin grants
  /\ grants' = grants \union {g}
  /\ UNCHANGED <<sessionVars, reservationVars, delivery, runtimeVars, enabled>>

EnableProfile(p) ==
  /\ p \notin enabled
  /\ enabled' = enabled \union {p}
  /\ UNCHANGED <<sessionVars, reservationVars, delivery, runtimeVars, grants>>

\* SessionService.#deliver: the Worker's answer to the stored close command.  A failure is not
\* a proof of cleanup: it only ends the delivery.  While the Worker is unavailable the row stays.
CloseDelivered(s, succeeded) ==
  LET closed == succeeded /\ status[s] = "CLOSING" IN
  /\ s \in closeOutbox
  /\ closeOutbox' = closeOutbox \ {s}
  /\ status' = IF closed THEN [status EXCEPT ![s] = "CLOSED"] ELSE status
  /\ reservation' = IF closed /\ reservation[s] \in {"ACTIVE", "CONSUMED"}
                      THEN [reservation EXCEPT ![s] = "RELEASED"] ELSE reservation
  /\ UNCHANGED <<bound, sameInstance, closeRequested, released, lapsed, createOutbox, delivery,
                 runtimeVars, accessVars>>

-----------------------------------------------------------------------------
(* Profile Runtimes.  persistProfileRuntimeOperation replaces the pending  *)
(* operation of the Profile; a START is a new Runtime identity.            *)

PersistStart(p) ==
  /\ generation[p] < MaxGeneration
  /\ runtimeState' = [runtimeState EXCEPT ![p] = "STARTING"]
  /\ desired' = [desired EXCEPT ![p] = "RUNNING"]
  /\ generation' = [generation EXCEPT ![p] = @ + 1]
  /\ attached' = attached \union {p}
  /\ operation' = [operation EXCEPT ![p] = "START"]

PersistStop(p) ==
  /\ runtimeState' = [runtimeState EXCEPT ![p] = "STOPPING"]
  /\ desired' = [desired EXCEPT ![p] = "STOPPED"]
  /\ operation' = [operation EXCEPT ![p] = "STOP"]
  /\ UNCHANGED <<generation, attached>>

\* setRuntime START
StartRuntime(p) ==
  /\ p \in enabled
  /\ ~ (desired[p] = "RUNNING" /\ runtimeState[p] \in {"RUNNING", "STARTING", "MAINTAINING"})
  /\ runtimeState[p] # "STOPPING"
  /\ Active(p) = {}
  /\ PersistStart(p)
  /\ UNCHANGED <<sessionVars, reservationVars, delivery, mode, accessVars>>

\* setRuntime STOP
StopRuntime(p) ==
  /\ ~ (mode[p] = "ALWAYS_ON" /\ p \in enabled)
  /\ runtimeState[p] # "STOPPED"
  /\ ~ (runtimeState[p] = "STOPPING" /\ desired[p] = "STOPPED")
  /\ Active(p) = {}
  /\ PersistStop(p)
  /\ UNCHANGED <<sessionVars, reservationVars, delivery, mode, accessVars>>

\* setRuntime STOP with closeSessions, possible while the Worker process still has the Runtime.
RecoverRuntime(p) ==
  /\ p \in Recoverable
  /\ runtimeState[p] # "STOPPED"
  /\ p \in attached
  /\ QueueClose({s \in SessionsOf(p) : Open(s)})
  /\ PersistStop(p)
  /\ mode' = [mode EXCEPT ![p] = IF @ = "ALWAYS_ON" THEN "MANUAL" ELSE @]
  /\ UNCHANGED <<bound, sameInstance, released, lapsed, createOutbox, delivery,
                 accessVars>>

SetRunMode(p, m) ==
  /\ mode' = [mode EXCEPT ![p] = m]
  /\ UNCHANGED <<sessionVars, reservationVars, delivery, runtimeState, desired, generation,
                 attached, operation, accessVars>>

\* #queueModeOperations: what the run mode asks for once nothing is pending and no Session is left.
ModeOperation(p) ==
  /\ operation[p] = "NONE"
  /\ runtimeState[p] \notin {"STARTING", "STOPPING", "MAINTAINING"}
  /\ Active(p) = {}
  /\ \/ /\ p \notin enabled
        /\ runtimeState[p] \in {"RUNNING", "ERROR"}
        /\ PersistStop(p)
     \/ /\ p \in enabled
        /\ mode[p] = "ALWAYS_ON"
        /\ runtimeState[p] \in {"STOPPED", "ERROR"}
        /\ PersistStart(p)
     \/ /\ p \in enabled
        /\ mode[p] = "ON_DEMAND"
        /\ runtimeState[p] = "RUNNING"
        /\ PersistStop(p)
  /\ UNCHANGED <<sessionVars, reservationVars, delivery, mode, accessVars>>

\* ProfileRuntimeService.#deliver: the result of the pending operation.  It is dropped when a
\* later observation of the same Worker process was already recorded.
OperationResult(p, succeeded, superseded) ==
  LET target == IF operation[p] = "START" THEN "RUNNING" ELSE "STOPPED" IN
  /\ operation[p] # "NONE"
  /\ superseded => p \in attached /\ ~ (~ succeeded /\ runtimeState[p] = "ERROR")
  /\ operation' = [operation EXCEPT ![p] = "NONE"]
  /\ runtimeState' =
       IF superseded THEN runtimeState
       ELSE [runtimeState EXCEPT ![p] = IF succeeded \/ @ = target THEN target ELSE "ERROR"]
  /\ UNCHANGED <<sessionVars, reservationVars, delivery, desired, generation, attached, mode,
                 accessVars>>

-----------------------------------------------------------------------------
(* Reservation.  Every reservation inserts one Session, so quotas count    *)
(* Sessions that are not terminal.                                         *)

FaultyBelow(S, limit) == limit # NoLimit => Cardinality(S) <= limit
Below(S, limit) == limit # NoLimit => Cardinality(S) < limit

UserLoad(u) == {t \in Sessions : UserOf[t] = u /\ ~ IsMaintenance(t) /\ NonTerminal(t)}
ProfileLoad(p) == {t \in Active(p) : ~ IsMaintenance(t)}
WorkerLoad(w) == {t \in SessionsOn(w) : NonTerminal(t)}

\* Maintenance is going to replace the Sessions of its own Profile and does not count them.
HasCapacity(s) ==
  LET p == ProfileOf[s]
      w == WorkerOf[p]
  IN IF IsMaintenance(s)
     THEN Below(WorkerLoad(w) \ SessionsOf(p), WorkerLimit[w])
     ELSE /\ Below(UserLoad(UserOf[s]), UserLimit[UserOf[s]])
          /\ Below(ProfileLoad(p), ProfileLimit[p])
          /\ Below(WorkerLoad(w), WorkerLimit[w])

RuntimeAdmits(s) ==
  LET p == ProfileOf[s] IN
  /\ ~ (desired[p] = "STOPPED" /\ runtimeState[p] # "STOPPED")
  /\ \/ runtimeState[p] \in {"RUNNING", "STARTING"}
     \/ runtimeState[p] \in {"STOPPED", "ERROR"} /\ (IsMaintenance(s) \/ mode[p] = "ON_DEMAND")

\* A maintenance reservation queues the close of every normal Session in the same transaction.
Reserve(s) ==
  LET p == ProfileOf[s]
      replaced == IF IsMaintenance(s)
                  THEN {t \in SessionsOf(p) : Open(t) /\ ~ IsMaintenance(t)} ELSE {}
  IN
  /\ status[s] = "ABSENT"
  /\ Authorized(s)
  /\ Maintainers(p) = {}
  /\ RuntimeAdmits(s)
  /\ HasCapacity(s)
  /\ \/ /\ runtimeState[p] \in {"STOPPED", "ERROR"}
        /\ PersistStart(p)
     \/ /\ runtimeState[p] \notin {"STOPPED", "ERROR"}
        /\ UNCHANGED <<runtimeState, desired, generation, attached, operation>>
  /\ status' = [AfterClose(replaced) EXCEPT ![s] = "RESERVED"]
  /\ reservation' = [ReservationAfterClose(replaced) EXCEPT ![s] = "ACTIVE"]
  /\ closeRequested' = closeRequested \union replaced
  /\ closeOutbox' = closeOutbox \union {t \in replaced : status[t] # "RESERVED"}
  /\ createOutbox' = [createOutbox EXCEPT ![s] = generation'[p]]
  /\ UNCHANGED <<bound, sameInstance, released, lapsed, delivery, mode, accessVars>>

\* The clock passes the expiresAt of a reservation, which nothing ever extends.  It is read while
\* the reservation is ACTIVE and while failed maintenance waits for its release.
Lapse(s) ==
  /\ s \notin lapsed
  /\ \/ reservation[s] = "ACTIVE"
     \/ status[s] = "FAILED" /\ Unreleased(s)
  /\ lapsed' = lapsed \union {s}
  /\ UNCHANGED <<sessionVars, reservation, createOutbox, closeOutbox, delivery,
                 runtimeVars, accessVars>>

FaultyExpirable(s) == s \in lapsed /\ reservation[s] = "ACTIVE" /\ status[s] = "RESERVED"
Expirable(s) == s \in lapsed /\ reservation[s] = "ACTIVE" /\ status[s] \in Pending

\* One pass of expire(): rows that another transaction has locked are skipped.
Expire(S) ==
  /\ S # {}
  /\ \A s \in S : Expirable(s)
  /\ status' = [s \in Sessions |-> IF s \in S THEN "FAILED" ELSE status[s]]
  /\ reservation' = [s \in Sessions |-> IF s \in S THEN "EXPIRED" ELSE reservation[s]]
  /\ UNCHANGED <<bound, sameInstance, closeRequested, released, lapsed, createOutbox,
                 closeOutbox, delivery, runtimeVars, accessVars>>

-----------------------------------------------------------------------------
(* SessionCreationService.#deliver.  Every step is one await: the database *)
(* may change between the first read and begin, and between begin and the  *)
(* transaction that applies the Worker's result.                           *)

Goto(s, step) == delivery' = [delivery EXCEPT ![s] = step]
OnlyDelivery == UNCHANGED <<sessionVars, reservationVars, runtimeVars, accessVars>>

FaultyIsPending(s) == reservation[s] = "ACTIVE" /\ status[s] = "CREATING"
IsPending(s) == reservation[s] = "ACTIVE" /\ status[s] \in Pending
SameCommandIdentity(s) == createOutbox[s] = generation[ProfileOf[s]]
FaultyOthersActive(s) == {t \in SessionsOf(ProfileOf[s]) : Open(t)} \ {s} # {}
OthersActive(s) == Active(ProfileOf[s]) \ {s} # {}

\* What the reads before begin find: a Runtime that is STARTING and maintenance that is still
\* draining wait for the next pass.  Maintenance also waits for the last snapshot of the Worker,
\* which this module leaves open (cleared), to show no Tab of another Session.
ReadStep(s, cleared) ==
  LET p == ProfileOf[s] IN
  IF s \in lapsed \/ ~ SameCommandIdentity(s) \/ desired[p] # "RUNNING" THEN "FAIL"
  ELSE IF runtimeState[p] = "STARTING" THEN "IDLE"
  ELSE IF ~ IsMaintenance(s) THEN IF runtimeState[p] = "RUNNING" THEN "BEGIN" ELSE "FAIL"
  ELSE IF runtimeState[p] \notin {"RUNNING", "MAINTAINING"} THEN "FAIL"
  ELSE IF OthersActive(s) \/ ~ cleared THEN "IDLE"
  ELSE "BEGIN"

DeliverRead(s, cleared) ==
  /\ delivery[s] = "IDLE"
  /\ createOutbox[s] # 0
  /\ IsPending(s)
  /\ ReadStep(s, cleared) # "IDLE"
  /\ Goto(s, ReadStep(s, cleared))
  /\ OnlyDelivery

\* The row is deleted after accept or fail, or by the next pass that finds nothing pending.
Remove(s) ==
  /\ delivery[s] = "IDLE"
  /\ createOutbox[s] # 0
  /\ ~ IsPending(s)
  /\ createOutbox' = [createOutbox EXCEPT ![s] = 0]
  /\ UNCHANGED <<sessionVars, reservation, lapsed, closeOutbox, delivery, runtimeVars, accessVars>>

RuntimeBegins(s) ==
  LET p == ProfileOf[s] IN
  /\ generation[p] >= 1
  /\ desired[p] = "RUNNING"
  /\ runtimeState[p] \in IF IsMaintenance(s) THEN {"RUNNING", "MAINTAINING"}
                                             ELSE {"RUNNING", "STARTING"}

BeginAdmits(s) == IsPending(s) /\ Authorized(s) /\ s \notin lapsed /\ RuntimeBegins(s)
Draining(s) == IsMaintenance(s) /\ OthersActive(s)
BeginCommits(s) ==
  /\ BeginAdmits(s)
  /\ ~ Draining(s)
  /\ status[s] = "RESERVED" \/ bound[s] = generation[ProfileOf[s]]

\* The stored command goes out if it still names the identity the Session was bound to.
StepAfterBegin(identity, command) == IF identity = command THEN "SENT" ELSE "FAIL"

\* begin() commits: the Session is bound to the Profile's present identity, which may no longer
\* be that of the stored command.
Begin(s) ==
  LET p == ProfileOf[s] IN
  /\ delivery[s] = "BEGIN"
  /\ BeginCommits(s)
  /\ runtimeState' = IF IsMaintenance(s) THEN [runtimeState EXCEPT ![p] = "MAINTAINING"]
                                         ELSE runtimeState
  /\ IF status[s] = "RESERVED"
     THEN /\ status' = [status EXCEPT ![s] = "CREATING"]
          /\ bound' = [bound EXCEPT ![s] = generation[p]]
          /\ sameInstance' = IF p \in attached THEN sameInstance \union {s} ELSE sameInstance
     ELSE UNCHANGED <<status, bound, sameInstance>>
  /\ Goto(s, StepAfterBegin(bound'[s], createOutbox[s]))
  /\ UNCHANGED <<closeRequested, released, reservationVars, desired, generation, attached,
                 operation, mode, accessVars>>

\* begin() throws: maintenance that is still draining is retried, everything else ends the delivery.
BeginRefused(s) ==
  /\ delivery[s] = "BEGIN"
  /\ ~ BeginCommits(s)
  /\ Goto(s, IF BeginAdmits(s) /\ Draining(s) THEN "IDLE" ELSE "FAIL")
  /\ OnlyDelivery

FaultyAcceptsResult(s) ==
  /\ bound[s] = generation[ProfileOf[s]]
  /\ desired[ProfileOf[s]] = "RUNNING"
  /\ reservation[s] \in {"ACTIVE", "CONSUMED"}

AcceptsResult(s) ==
  LET p == ProfileOf[s] IN
  /\ bound[s] = generation[p]
  /\ desired[p] = "RUNNING"
  /\ runtimeState[p] = IF IsMaintenance(s) THEN "MAINTAINING" ELSE "RUNNING"
  /\ \/ reservation[s] = "ACTIVE" /\ status[s] = "CREATING" /\ s \notin lapsed
     \/ reservation[s] = "CONSUMED" /\ status[s] \in Live

\* accept() of the Worker's READY result.  A snapshot may have consumed the reservation already.
Accept(s) ==
  /\ delivery[s] = "SENT"
  /\ AcceptsResult(s)
  /\ status' = IF reservation[s] = "ACTIVE" THEN [status EXCEPT ![s] = "READY"] ELSE status
  /\ reservation' = [reservation EXCEPT ![s] = "CONSUMED"]
  /\ Goto(s, "IDLE")
  /\ UNCHANGED <<bound, sameInstance, closeRequested, released, lapsed, createOutbox, closeOutbox,
                 runtimeVars, accessVars>>

\* The Worker failed the command, the command could not be delivered any more, or accept() refused.
DeliverFailed(s) ==
  /\ delivery[s] = "SENT"
  /\ Goto(s, "FAIL")
  /\ OnlyDelivery

\* WORKER_UNAVAILABLE before the deadline: the row stays for the next pass.
DeliverUnavailable(s) ==
  /\ delivery[s] = "SENT"
  /\ s \notin lapsed
  /\ Goto(s, "IDLE")
  /\ OnlyDelivery

\* fail() only ends a Session that is still pending.
Fail(s) ==
  /\ delivery[s] = "FAIL"
  /\ status' = IF IsPending(s) THEN [status EXCEPT ![s] = "FAILED"] ELSE status
  /\ reservation' = IF IsPending(s) THEN [reservation EXCEPT ![s] = "RELEASED"] ELSE reservation
  /\ Goto(s, "IDLE")
  /\ UNCHANGED <<bound, sameInstance, closeRequested, released, lapsed, createOutbox, closeOutbox,
                 runtimeVars, accessVars>>

\* The Backend process ends and another one starts: deliveries under way are forgotten.
Restart ==
  /\ delivery' = [s \in Sessions |-> "IDLE"]
  /\ UNCHANGED <<sessionVars, reservationVars, runtimeVars, accessVars>>

-----------------------------------------------------------------------------
(* WorkerSnapshotReconciler.reconcile, one transaction.  A snapshot of     *)
(* Worker w is given by what it says of each Profile and Session:          *)
(*   seen[p]   the state of the Runtime with p's recorded identity, OTHER  *)
(*             for a Runtime with another identity, NONE, or KEPT when p   *)
(*             is left alone: the snapshot is older than p's last recorded *)
(*             observation, or a pending operation that has not expired    *)
(*             explains why the Runtime is missing                         *)
(*   fact[s]   the status of a Tab that maps to s, REFUSED for a Tab that  *)
(*             changes nothing (it maps to another identity, is older, has *)
(*             another viewer generation or nothing new), CLOSED or BROKEN *)
(*             for the final report of a Tab, or NONE                      *)
(*   late      maintenance whose expiresAt lies before the snapshot        *)

RuntimeFacts == {"STARTING", "RUNNING", "STOPPING", "ERROR"}

\* The facts that make a difference: a Runtime's state does while the Runtime should run.
ProfileFacts(p) ==
  IF desired[p] = "STOPPED" THEN {"NONE", "OTHER"}
  ELSE {"NONE"} \union (IF p \in attached THEN RuntimeFacts \union {"KEPT"} ELSE {})

RuntimeSeen(p, f) ==
  IF f = "KEPT" THEN runtimeState[p]
  ELSE IF desired[p] = "STOPPED" THEN IF f = "NONE" THEN "STOPPED" ELSE runtimeState[p]
  ELSE IF f \in {"NONE", "OTHER"}
       THEN IF runtimeState[p] \in ActiveProfileStates THEN "ERROR" ELSE runtimeState[p]
  ELSE IF \/ f = "RUNNING" /\ runtimeState[p] = "MAINTAINING"
          \/ f = "STARTING" /\ runtimeState[p] = "RUNNING"
       THEN runtimeState[p]
  ELSE f

Reconcilable(stored, observed) ==
  \/ stored = "CREATING"
  \/ stored = "READY" /\ observed # "CREATING"
  \/ stored = "ATTACHED" /\ observed = "ATTACHED"

\* The Tab maps to s under the Runtime state just stored, and its status is taken over.
TabAccepted(s, f, state) ==
  /\ status[s] \in WorkerStates \ {"CLOSING"}
  /\ bound[s] = generation[ProfileOf[s]]
  /\ ProfileOf[s] \in attached
  /\ state \in ActiveProfileStates
  /\ Reconcilable(status[s], f)
  /\ status[s] = "CREATING" => reservation[s] = "ACTIVE" /\ s \notin lapsed

\* Sessions of which a snapshot may report something that matters: what is left of a Tab that
\* should not be there any more only delays the release of maintenance.
Reportable(w) ==
  {s \in SessionsOn(w) : status[s] \in WorkerStates \/ Unreleased(s)}

SessionFacts == WorkerStates \union {"NONE", "REFUSED", "CLOSED", "BROKEN"}

\* A final report has to carry the identity of its Session, or the snapshot is rejected.
FactPossible(s, f, state) ==
  /\ f \in {"CLOSED", "BROKEN"} => status[s] \in WorkerStates /\ s \in sameInstance
  /\ f \in WorkerStates => f # status[s] /\ TabAccepted(s, f, state)

\* A creation that is still pending on this Worker process is left to the reservation's expiry.
CreationPending(s) == status[s] = "CREATING" /\ reservation[s] = "ACTIVE" /\ s \in sameInstance

StatusSeen(s, f) ==
  IF f \in WorkerStates \union {"CLOSED"} THEN f
  ELSE IF f = "BROKEN" THEN IF s \in closeRequested THEN "CLOSED" ELSE "FAILED"
  ELSE IF f = "NONE" /\ status[s] \in WorkerStates /\ ~ CreationPending(s)
       THEN IF status[s] = "CLOSING" THEN "CLOSED" ELSE "FAILED"
  ELSE status[s]

FaultyReservationSeen(s, seen) ==
  IF seen \in Live /\ status[s] = "CREATING" THEN "CONSUMED" ELSE reservation[s]

ReservationSeen(s, seen) ==
  IF seen \in Terminal /\ reservation[s] \in {"ACTIVE", "CONSUMED"} THEN "RELEASED"
  ELSE IF seen \in Live /\ status[s] = "CREATING" THEN "CONSUMED"
  ELSE reservation[s]

\* Maintenance that has ended is released once the snapshot shows no Tab of it and, unless it was
\* closed or never begun, its create command can no longer arrive.
FaultyReleasedBy(stored, fact, late) ==
  {m \in DOMAIN fact : Unreleased(m) /\ fact[m] = "NONE" /\ (bound[m] = 0 \/ m \in late)}

ReleasedBy(stored, fact, late) ==
  {m \in DOMAIN fact :
     /\ Unreleased(m)
     /\ stored[m] \in Terminal
     /\ fact[m] \notin WorkerStates \union {"REFUSED"}
     /\ bound[m] = 0 \/ stored[m] = "CLOSED" \/ m \in late}

Reconcile(w, seen, fact, late) ==
  LET stored == [s \in Sessions |-> IF s \in DOMAIN fact THEN StatusSeen(s, fact[s]) ELSE status[s]]
      observed == [p \in Profiles |-> IF p \in ProfilesOn(w)
                                      THEN RuntimeSeen(p, seen[p]) ELSE runtimeState[p]]
      freed == ReleasedBy(stored, fact, late)
  IN
  /\ status' = stored
  /\ reservation' = [s \in Sessions |-> IF s \in DOMAIN fact THEN ReservationSeen(s, stored[s])
                                                           ELSE reservation[s]]
  /\ released' = released \union freed
  /\ runtimeState' = [p \in Profiles |->
                        IF observed[p] = "MAINTAINING" /\ freed \intersect SessionsOf(p) # {}
                        THEN "RUNNING" ELSE observed[p]]
  /\ UNCHANGED <<bound, sameInstance, closeRequested, lapsed, createOutbox, closeOutbox, delivery,
                 desired, generation, attached, operation, mode, accessVars>>

\* Any snapshot of w that passes validation.
Snapshot(w) ==
  \E seen \in {f \in [ProfilesOn(w) -> RuntimeFacts \union {"NONE", "OTHER", "KEPT"}] :
                 \A p \in ProfilesOn(w) : f[p] \in ProfileFacts(p)} :
  \E fact \in [Reportable(w) -> SessionFacts] :
    /\ \A s \in DOMAIN fact : FactPossible(s, fact[s], RuntimeSeen(ProfileOf[s], seen[ProfileOf[s]]))
    /\ \E late \in SUBSET {m \in lapsed \intersect DOMAIN fact : Unreleased(m)} :
         Reconcile(w, seen, fact, late)

\* The Worker connects again as a new process, which has none of the Runtimes on record.
WorkerRestart(w) ==
  /\ attached \intersect ProfilesOn(w) # {}
  /\ attached' = attached \ ProfilesOn(w)
  /\ sameInstance' = sameInstance \ SessionsOn(w)
  /\ UNCHANGED <<status, bound, closeRequested, released, reservationVars, delivery,
                 runtimeState, desired, generation, operation, mode, accessVars>>

-----------------------------------------------------------------------------

Deliver(s) ==
  \/ \E cleared \in BOOLEAN : DeliverRead(s, cleared)
  \/ Begin(s) \/ BeginRefused(s)
  \/ Accept(s) \/ DeliverFailed(s) \/ DeliverUnavailable(s)
  \/ Fail(s) \/ Remove(s)

SessionStep(s) ==
  \/ Reserve(s)
  \/ Close(s)
  \/ Lapse(s)
  \/ Deliver(s)
  \/ \E succeeded \in BOOLEAN : CloseDelivered(s, succeeded)

ProfileStep(p) ==
  \/ StartRuntime(p) \/ StopRuntime(p) \/ RecoverRuntime(p) \/ ModeOperation(p)
  \/ \E succeeded, superseded \in BOOLEAN : OperationResult(p, succeeded, superseded)
  \/ EnableProfile(p) \/ DisableProfile(p)
  \/ \E m \in RunModes : SetRunMode(p, m)

ExpirePass == \E S \in SUBSET Sessions : Expire(S)

Next ==
  \/ \E s \in Sessions : SessionStep(s)
  \/ \E p \in Profiles : ProfileStep(p)
  \/ \E w \in Workers : Snapshot(w) \/ WorkerRestart(w) \/ DisableWorker(w)
  \/ \E u \in Users : ResetPassword(u)
  \/ \E lost \in SUBSET grants : RevokeGrants(lost)
  \/ \E g \in Revocable : GrantAccess(g)
  \/ ExpirePass
  \/ Restart

Spec == Init /\ [][Next]_vars

-----------------------------------------------------------------------------
(* Properties.                                                             *)

\* The Session row and its reservation row are written by different transactions (begin, accept,
\* fail, expire, close, snapshot): whatever their order, an open quota slot, a consumed
\* reservation and an ended Session never contradict each other.
ReservationAgrees ==
  \A s \in Sessions :
    /\ status[s] = "ABSENT" <=> reservation[s] = "NONE"
    /\ status[s] \in Pending => reservation[s] = "ACTIVE"
    /\ status[s] \in Live => reservation[s] = "CONSUMED"
    /\ status[s] = "CLOSING" => reservation[s] \in {"ACTIVE", "CONSUMED"}
    /\ status[s] \in Terminal => reservation[s] \in {"RELEASED", "EXPIRED"}

\* Sessions whose creation has begun: they have a Tab, or a command that may make one.
Begun(S) == {s \in S : NonTerminal(s) /\ status[s] # "RESERVED"}

\* Maintenance is reserved over the heads of the Sessions it replaces, and quotas are counted at
\* different moments for different kinds; still the Sessions begun on a Worker never exceed
\* maxActiveTabs.
WorkerCapacity ==
  \A w \in Workers : WorkerLimit[w] = NoLimit \/ Cardinality(Begun(SessionsOn(w))) <= WorkerLimit[w]

\* maxActiveSessions and maxNormalSessions count every normal Session until it is terminal.
NormalQuotas ==
  /\ \A u \in Users : UserLimit[u] = NoLimit \/ Cardinality(UserLoad(u)) <= UserLimit[u]
  /\ \A p \in Profiles : ProfileLimit[p] = NoLimit \/ Cardinality(ProfileLoad(p)) <= ProfileLimit[p]

\* docs/design/09-testing-and-acceptance.md:60, "Profile maintenance and normal Sessions exclude
\* each other": once begun, maintenance is alone in its Profile until it is terminal, and until it
\* is released nobody else is given the Profile.
MaintenanceExclusive ==
  \A m \in Sessions : IsMaintenance(m) =>
    /\ m \in Begun(Sessions) => Active(ProfileOf[m]) = {m}
    /\ status[m] # "ABSENT" /\ m \notin released =>
         /\ Maintainers(ProfileOf[m]) = {m}
         /\ \A s \in Active(ProfileOf[m]) \ {m} : status[s] = "CLOSING"

\* A Profile is only MAINTAINING for a maintenance Session that has begun and was not released:
\* nothing leaves the Profile locked for an owner that is gone.
MaintainingHasOwner ==
  \A p \in Profiles : runtimeState[p] = "MAINTAINING" =>
    \E m \in Maintainers(p) : bound[m] # 0

\* A Session that still waits for its Tab keeps its create command, across restarts of the
\* Backend in any step of the delivery.
PendingHasCommand == \A s \in Sessions : status[s] \in Pending => createOutbox[s] # 0

\* A create command goes out for the Runtime identity that the Session row names, so that a
\* result or a snapshot can be matched to it.
SentAsBound == \A s \in Sessions : delivery[s] = "SENT" => bound[s] = createOutbox[s]

\* Losing access closes Sessions in the same transaction; no later step of the delivery and no
\* snapshot brings back one whose user may not use the Profile.
OpenIsAuthorized == \A s \in Sessions : Open(s) => Authorized(s)

\* A Session never leaves CLOSED or FAILED, and CLOSING only ends: a late Worker result, an old
\* snapshot or a second delivery does not revive it.
NoRevival ==
  [][\A s \in Sessions :
       /\ status[s] \in Terminal => status'[s] = status[s]
       /\ status[s] = "CLOSING" => status'[s] \in {"CLOSING"} \union Terminal]_vars

\* A Runtime that is meant to stop has nobody left: whatever asks for it (an administrator, a
\* recovery, the run mode), no Session stays open or is reserved on a Runtime on its way out.
StoppingHasNoOpenSession ==
  \A p \in Profiles : desired[p] = "STOPPED" => \A s \in SessionsOf(p) : ~ Open(s)

\* The slot that a reservation holds is not held for ever by a creation that never finishes.
PendingEnds == \A s \in Sessions : status[s] \in Pending ~> status[s] \notin Pending

\* What creation and closing leave to each other in the rows: a Session that waits keeps a command,
\* and a command that was sent is for the identity in the row.
CreationIsKept == PendingHasCommand /\ SentAsBound

\* No order of revocations, stops, deliveries and snapshots leaves a Session open that its user may
\* not use, or that its Runtime is about to lose.
OpenIsAllowed == OpenIsAuthorized /\ StoppingHasNoOpenSession

\* Maintenance has its Profile for itself from begin to release, and the Profile is locked for
\* nobody else.
MaintenanceOwnsProfile == MaintenanceExclusive /\ MaintainingHasOwner

-----------------------------------------------------------------------------
(* The Session rows implement the abstract ownership of Profiles.          *)

Sharing == {s \in Sessions : ~ IsMaintenance(s) /\ NonTerminal(s)}
Claims == {m \in Sessions : Unreleased(m)}
Owning == {m \in Sessions : IsMaintenance(m) /\ m \in Begun(Sessions)}

Ownership == INSTANCE ProfileOwnership
               WITH Maintenance <- {m \in Sessions : IsMaintenance(m)},
                    sharing <- Sharing, claims <- Claims, owning <- Owning

\* Every transaction is a step of ProfileOwnership or leaves who uses a Profile as it was.
ImplementsOwnership == Ownership!Spec
=============================================================================
