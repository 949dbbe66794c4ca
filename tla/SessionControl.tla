--------------------------- MODULE SessionControl ---------------------------
(***************************************************************************)
(* The Backend of SessionReservations and its Workers, joined by their     *)
(* control channels: what the Backend learns of a Tab is now what a Worker *)
(* has sent, late or not at all.                                           *)
(*                                                                         *)
(* A Worker keeps the promise of TabOwnership, with the status it          *)
(* publishes for each Session; WorkerTabSessions says how.  A channel is   *)
(* one socket: messages arrive in order or the socket is closed and they   *)
(* are lost.  Commands that were sent are repeated on the next connection, *)
(* and the Worker answers a repeated command from its cache.  Runtimes     *)
(* start when they are asked to, and only end with their Worker process.   *)
(***************************************************************************)
EXTENDS SessionReservations, Sequences

CONSTANT MaxDrops   \* bound: connections lost, of each Worker

ASSUME DropsAssumption == MaxDrops \in Nat

VARIABLES
  \* the Worker process
  tab,            \* the Tab of a Session and the status published for it, see TabStates
  createAnswer,   \* result of the create command in the Worker's command cache
  closeAnswer,    \* result of the close command there
  \* the connection
  link,
  toWorker,
  toBackend,
  snapshotSent,   \* Workers that wait for a snapshot to be accepted
  drops,
  \* memory of the Backend
  pendingCreate,  \* create commands in #pendingCommands
  pendingClose,   \* close commands in #pendingCommands
  unsent,         \* pending commands to send again when the connection is ready
  createResult,   \* result #requestCommand has resolved with, not applied yet
  closeResult

workerVars == <<tab, createAnswer, closeAnswer>>
channelVars == <<link, toWorker, toBackend, snapshotSent, drops>>
resultVars == <<createResult, closeResult>>
commandVars == <<pendingCreate, pendingClose, unsent, resultVars>>
controlVars == <<workerVars, channelVars, commandVars>>
allVars == <<vars, controlVars>>

-----------------------------------------------------------------------------

\* GONE is a Session that ended, or was closed, without a Tab: the Worker has retired it.  ENDED
\* had one and its final report is in every snapshot.
Present == {"CREATING", "READY", "CANCELLING", "CLOSING"}
TabStates == {"NONE", "ENDED", "GONE"} \union Present
Results == {"NONE", "RUNNING", "SUCCEEDED", "FAILED"}

\* DOWN; UP without a snapshot yet; RECOVERY while the last one had to be corrected; READY.
Links == {"DOWN", "UP", "RECOVERY", "READY"}

ControlTypeOK ==
  /\ TypeOK
  /\ tab \in [Sessions -> TabStates]
  /\ createAnswer \in [Sessions -> Results]
  /\ closeAnswer \in [Sessions -> Results]
  /\ link \in [Workers -> Links]
  /\ snapshotSent \subseteq Workers
  /\ drops \in [Workers -> 0 .. MaxDrops]
  /\ pendingCreate \subseteq Sessions
  /\ pendingClose \subseteq Sessions
  /\ unsent \subseteq pendingCreate \union pendingClose
  /\ createResult \in [Sessions -> Results]
  /\ closeResult \in [Sessions -> Results]
  /\ DOMAIN toWorker = Workers /\ DOMAIN toBackend = Workers

ControlInit ==
  /\ Init
  /\ tab = [s \in Sessions |-> "NONE"]
  /\ createAnswer = [s \in Sessions |-> "NONE"]
  /\ closeAnswer = [s \in Sessions |-> "NONE"]
  /\ link = [w \in Workers |-> "READY"]
  /\ toWorker = [w \in Workers |-> <<>>]
  /\ toBackend = [w \in Workers |-> <<>>]
  /\ snapshotSent = {}
  /\ drops = [w \in Workers |-> 0]
  /\ pendingCreate = {} /\ pendingClose = {} /\ unsent = {}
  /\ createResult = [s \in Sessions |-> "NONE"]
  /\ closeResult = [s \in Sessions |-> "NONE"]

WorkerFor(s) == WorkerOf[ProfileOf[s]]

CreateCommand(s) == [type |-> "CREATE", session |-> s]
CloseCommand(s) == [type |-> "CLOSE", session |-> s]
Plan(S) == [type |-> "PLAN", sessions |-> S]
CreateResult(s, outcome) == [type |-> "CREATE", session |-> s, outcome |-> outcome]
CloseResult(s, outcome) == [type |-> "CLOSE", session |-> s, outcome |-> outcome]
SnapshotOf(seen, late) == [type |-> "SNAPSHOT", tabs |-> seen, late |-> late]

\* What is sent without a connection is lost.
Sent(channel, w, messages) ==
  IF link[w] = "DOWN" THEN channel ELSE [channel EXCEPT ![w] = @ \o messages]

-----------------------------------------------------------------------------
(* Backend: commands.                                                      *)

\* A command of s is settled, the other one (if it is among others) is not.
UnsentAfter(s, others) == unsent \ ({s} \ others)

\* dispatchSessionCreate, for a connection that is ready and of the process the Session is bound to.
RequestCreate(s) ==
  /\ delivery[s] = "SENT"
  /\ s \notin pendingCreate /\ createResult[s] = "NONE"
  /\ link[WorkerFor(s)] = "READY" /\ s \in sameInstance /\ s \notin lapsed
  /\ pendingCreate' = pendingCreate \union {s}
  /\ toWorker' = Sent(toWorker, WorkerFor(s), <<CreateCommand(s)>>)
  /\ UNCHANGED <<vars, workerVars, link, toBackend, snapshotSent, drops, pendingClose, unsent,
                 resultVars>>

\* The connection is not ready: the delivery is tried again until the reservation expires.
CreateUnavailable(s) ==
  /\ delivery[s] = "SENT"
  /\ s \notin pendingCreate /\ createResult[s] = "NONE"
  /\ link[WorkerFor(s)] # "READY"
  /\ IF s \in lapsed THEN DeliverFailed(s) ELSE DeliverUnavailable(s)
  /\ UNCHANGED controlVars

\* The deadline of the command has passed, it was not acknowledged after the last attempt, the Worker
\* could not take it, or came back as another process.
CreateRejected(s) ==
  /\ delivery[s] = "SENT"
  /\ createResult[s] = "NONE"
  /\ s \in lapsed \union pendingCreate \/ (s \notin sameInstance /\ link[WorkerFor(s)] = "READY")
  /\ DeliverFailed(s)
  /\ pendingCreate' = pendingCreate \ {s}
  /\ unsent' = UnsentAfter(s, pendingClose)
  /\ UNCHANGED <<workerVars, channelVars, pendingClose, resultVars>>

\* The transaction that applies the result runs when its promise has resolved.
ApplyCreateResult(s) ==
  /\ createResult[s] # "NONE"
  /\ IF createResult[s] = "SUCCEEDED" /\ AcceptsResult(s) THEN Accept(s) ELSE DeliverFailed(s)
  /\ createResult' = [createResult EXCEPT ![s] = "NONE"]
  /\ UNCHANGED <<workerVars, channelVars, pendingCreate, pendingClose, unsent, closeResult>>

\* dispatchSessionClose, also while the Worker is being corrected.
RequestClose(s) ==
  /\ s \in closeOutbox \ pendingClose /\ closeResult[s] = "NONE"
  /\ link[WorkerFor(s)] \in {"RECOVERY", "READY"} /\ s \in sameInstance
  /\ pendingClose' = pendingClose \union {s}
  /\ toWorker' = Sent(toWorker, WorkerFor(s), <<CloseCommand(s)>>)
  /\ UNCHANGED <<vars, workerVars, link, toBackend, snapshotSent, drops, pendingCreate, unsent,
                 resultVars>>

\* It expires, before it was sent or without an answer, is not acknowledged, or its Worker process has
\* ended.
CloseExpires(s) ==
  /\ closeResult[s] = "NONE"
  /\ CloseDelivered(s, FALSE)
  /\ pendingClose' = pendingClose \ {s}
  /\ unsent' = UnsentAfter(s, pendingCreate)
  /\ UNCHANGED <<workerVars, channelVars, pendingCreate, resultVars>>

ApplyCloseResult(s) ==
  /\ closeResult[s] # "NONE"
  /\ CloseDelivered(s, closeResult[s] = "SUCCEEDED")
  /\ closeResult' = [closeResult EXCEPT ![s] = "NONE"]
  /\ UNCHANGED <<workerVars, channelVars, pendingCreate, pendingClose, unsent, createResult>>

\* The next message of a Worker.
Received(w, type) ==
  /\ toBackend[w] # <<>>
  /\ Head(toBackend[w]).type = type
  /\ toBackend' = [toBackend EXCEPT ![w] = Tail(@)]

ReceiveCreateResult(w) ==
  LET message == Head(toBackend[w]) IN
  /\ Received(w, "CREATE")
  /\ IF message.session \in pendingCreate
     THEN /\ createResult' = [createResult EXCEPT ![message.session] = message.outcome]
          /\ pendingCreate' = pendingCreate \ {message.session}
          /\ unsent' = UnsentAfter(message.session, pendingClose)
     ELSE UNCHANGED <<createResult, pendingCreate, unsent>>
  /\ UNCHANGED <<vars, workerVars, link, toWorker, snapshotSent, drops, pendingClose, closeResult>>

ReceiveCloseResult(w) ==
  LET message == Head(toBackend[w]) IN
  /\ Received(w, "CLOSE")
  /\ IF message.session \in pendingClose
     THEN /\ closeResult' = [closeResult EXCEPT ![message.session] = message.outcome]
          /\ pendingClose' = pendingClose \ {message.session}
          /\ unsent' = UnsentAfter(message.session, pendingCreate)
     ELSE UNCHANGED <<closeResult, pendingClose, unsent>>
  /\ UNCHANGED <<vars, workerVars, link, toWorker, snapshotSent, drops, pendingCreate, createResult>>

-----------------------------------------------------------------------------
(* Backend: snapshots.                                                     *)

StatusPublished(seen) == IF seen = "CANCELLING" THEN "CLOSING" ELSE seen

RuntimeAt(p) == IF p \in attached THEN "KEPT" ELSE "NONE"

\* What the reconciler makes of the Tab a snapshot shows for s, or does not show.  Whether a final
\* report says that the browser failed is left open.
FaultyFactOf(s, seen, final) ==
  IF seen \in Present
  THEN IF StatusPublished(seen) # status[s] THEN StatusPublished(seen) ELSE "REFUSED"
  ELSE IF seen = "ENDED" /\ status[s] \in WorkerStates THEN final
  ELSE "NONE"
FactOf(s, seen, final) ==
  IF seen \in Present
  THEN IF /\ StatusPublished(seen) # status[s]
          /\ TabAccepted(s, StatusPublished(seen), RuntimeSeen(ProfileOf[s], RuntimeAt(ProfileOf[s])))
       THEN StatusPublished(seen) ELSE "REFUSED"
  ELSE IF seen = "ENDED" /\ status[s] \in WorkerStates THEN final
  ELSE "NONE"

\* Tabs the plan tells the Worker to close: Sessions that are over or closing, or do not match.
FaultyToClose(w, seen) ==
  {s \in SessionsOn(w) : seen[s] \in Present /\ status[s] = "CLOSING"}
ToClose(w, seen) ==
  {s \in SessionsOn(w) :
     /\ seen[s] \in Present
     /\ ~ TabAccepted(s, StatusPublished(seen[s]),
                      RuntimeSeen(ProfileOf[s], RuntimeAt(ProfileOf[s])))}

\* Commands that were not acknowledged are sent again behind the answer to the snapshot; a create
\* command only over a connection that is ready.
Resent(w, ready) ==
  LET again == {CreateCommand(s) : s \in {s \in unsent \intersect pendingCreate :
                                            ready /\ WorkerFor(s) = w /\ s \in sameInstance}}
               \union
               {CloseCommand(s) : s \in {s \in unsent \intersect pendingClose :
                                            WorkerFor(s) = w /\ s \in sameInstance}}
  IN {q \in [1 .. Cardinality(again) -> again] : \A c \in again : \E i \in DOMAIN q : q[i] = c}

ReceiveSnapshot(w) ==
  LET message == Head(toBackend[w])
      corrections == ToClose(w, message.tabs)
      ready == corrections = {}
      facts(broken) ==
        [s \in Reportable(w) |->
           FactOf(s, message.tabs[s], IF s \in broken THEN "BROKEN" ELSE "CLOSED")]
  IN
  /\ Received(w, "SNAPSHOT")
  /\ \E broken \in SUBSET {s \in SessionsOn(w) : message.tabs[s] = "ENDED"} :
       Reconcile(w, [p \in ProfilesOn(w) |-> RuntimeAt(p)], facts(broken), message.late)
  /\ link' = [link EXCEPT ![w] = IF ready THEN "READY" ELSE "RECOVERY"]
  /\ \E resent \in Resent(w, ready) : toWorker' = Sent(toWorker, w, <<Plan(corrections)>> \o resent)
  /\ unsent' = {s \in unsent : WorkerFor(s) # w \/ (~ ready /\ s \in pendingCreate)}
  /\ UNCHANGED <<workerVars, snapshotSent, drops, pendingCreate, pendingClose, resultVars>>

-----------------------------------------------------------------------------
(* Worker.                                                                 *)

Arrives(w, type) ==
  /\ toWorker[w] # <<>>
  /\ Head(toWorker[w]).type = type
  /\ toWorker' = [toWorker EXCEPT ![w] = Tail(@)]

FaultyConflict(s) ==
  \E t \in SessionsOf(ProfileOf[s]) :
    /\ tab[t] \in {"CREATING", "READY"}
    /\ IsMaintenance(s) \/ IsMaintenance(t)
Conflict(s) ==
  \E t \in SessionsOf(ProfileOf[s]) :
    /\ tab[t] \in Present
    /\ IsMaintenance(s) \/ IsMaintenance(t)

FaultyInTime(s) == TRUE
InTime(s) == s \notin lapsed

\* #acceptCommand: a command that is new is executed, one that was answered is answered again, and
\* one that is being executed is only acknowledged.
ReceiveCreate(w) ==
  LET s == Head(toWorker[w]).session
      created == tab[s] = "NONE" /\ InTime(s) /\ ~ Conflict(s)
  IN
  /\ Arrives(w, "CREATE")
  /\ IF createAnswer[s] = "NONE"
     THEN /\ tab' = [tab EXCEPT ![s] = IF created THEN "CREATING" ELSE @]
          /\ createAnswer' = [createAnswer EXCEPT ![s] = IF created THEN "RUNNING" ELSE "FAILED"]
     ELSE UNCHANGED <<tab, createAnswer>>
  /\ toBackend' = IF createAnswer'[s] = "RUNNING" THEN toBackend
                  ELSE Sent(toBackend, w, <<CreateResult(s, createAnswer'[s])>>)
  /\ UNCHANGED <<vars, closeAnswer, link, snapshotSent, drops, commandVars>>

FaultyEndOf(state) == IF state = "READY" THEN "CLOSING" ELSE state
EndOf(state) ==
  IF state = "CREATING" THEN "CANCELLING" ELSE IF state = "READY" THEN "CLOSING" ELSE state

RetiredOrEnding(state) == IF state = "NONE" THEN "GONE" ELSE EndOf(state)

\* A close command retires the Session and waits until its Tab is gone, unless it has expired.
ReceiveClose(w, expired) ==
  LET s == Head(toWorker[w]).session
      executed == closeAnswer[s] = "NONE" /\ ~ expired
  IN
  /\ Arrives(w, "CLOSE")
  /\ tab' = [tab EXCEPT ![s] = IF executed THEN RetiredOrEnding(@) ELSE @]
  /\ closeAnswer' =
       [closeAnswer EXCEPT ![s] = IF @ # "NONE" THEN @
                                  ELSE IF expired THEN "FAILED"
                                  ELSE IF tab[s] \in Present THEN "RUNNING" ELSE "SUCCEEDED"]
  /\ toBackend' = IF closeAnswer'[s] = "RUNNING" THEN toBackend
                  ELSE Sent(toBackend, w, <<CloseResult(s, closeAnswer'[s])>>)
  /\ UNCHANGED <<vars, createAnswer, link, snapshotSent, drops, commandVars>>

ReceivePlan(w) ==
  LET corrections == Head(toWorker[w]).sessions IN
  /\ Arrives(w, "PLAN")
  /\ tab' = [s \in Sessions |-> IF s \in corrections THEN EndOf(tab[s]) ELSE tab[s]]
  /\ snapshotSent' = snapshotSent \ {w}
  /\ UNCHANGED <<vars, createAnswer, closeAnswer, link, toBackend, drops, commandVars>>

\* The next snapshot goes out when the last one has been accepted.
SendSnapshot(w) ==
  /\ link[w] # "DOWN"
  /\ w \notin snapshotSent
  /\ snapshotSent' = snapshotSent \union {w}
  /\ toBackend' = Sent(toBackend, w, <<SnapshotOf([s \in SessionsOn(w) |-> tab[s]], lapsed)>>)
  /\ UNCHANGED <<vars, workerVars, link, toWorker, drops, commandVars>>

\* #attach settles.
TabReady(s) ==
  /\ tab[s] = "CREATING"
  /\ tab' = [tab EXCEPT ![s] = "READY"]
  /\ createAnswer' = [createAnswer EXCEPT ![s] = "SUCCEEDED"]
  /\ toBackend' = Sent(toBackend, WorkerFor(s), <<CreateResult(s, "SUCCEEDED")>>)
  /\ UNCHANGED <<vars, closeAnswer, link, toWorker, snapshotSent, drops, commandVars>>

\* Its lease, its policy, its browser: a Tab ends by itself, or cannot be attached.
TabEnds(s) ==
  /\ tab[s] \in {"CREATING", "READY"}
  /\ tab' = [tab EXCEPT ![s] = EndOf(@)]
  /\ UNCHANGED <<vars, createAnswer, closeAnswer, channelVars, commandVars>>

\* A Tab that never was ready has no final report; whoever waits for the end is answered.
TabCleanedUp(s) ==
  /\ tab[s] \in {"CANCELLING", "CLOSING"}
  /\ tab' = [tab EXCEPT ![s] = IF @ = "CLOSING" THEN "ENDED" ELSE "GONE"]
  /\ createAnswer' = [createAnswer EXCEPT ![s] = IF @ = "RUNNING" THEN "FAILED" ELSE @]
  /\ closeAnswer' = [closeAnswer EXCEPT ![s] = IF @ = "RUNNING" THEN "SUCCEEDED" ELSE @]
  /\ toBackend' =
       Sent(toBackend, WorkerFor(s),
            (IF createAnswer[s] = "RUNNING" THEN <<CreateResult(s, "FAILED")>> ELSE <<>>)
              \o (IF closeAnswer[s] = "RUNNING" THEN <<CloseResult(s, "SUCCEEDED")>> ELSE <<>>))
  /\ UNCHANGED <<vars, link, toWorker, snapshotSent, drops, commandVars>>

\* A failed cleanup keeps the Tab; the close command that waited for it is told.
TabCleanupFails(s) ==
  /\ tab[s] \in {"CANCELLING", "CLOSING"}
  /\ closeAnswer[s] = "RUNNING"
  /\ closeAnswer' = [closeAnswer EXCEPT ![s] = "FAILED"]
  /\ toBackend' = Sent(toBackend, WorkerFor(s), <<CloseResult(s, "FAILED")>>)
  /\ UNCHANGED <<vars, tab, createAnswer, link, toWorker, snapshotSent, drops, commandVars>>

-----------------------------------------------------------------------------
(* Connections and processes.                                              *)

Disconnected(W) ==
  /\ link' = [w \in Workers |-> IF w \in W THEN "DOWN" ELSE link[w]]
  /\ toWorker' = [w \in Workers |-> IF w \in W THEN <<>> ELSE toWorker[w]]
  /\ toBackend' = [w \in Workers |-> IF w \in W THEN <<>> ELSE toBackend[w]]
  /\ snapshotSent' = snapshotSent \ W

\* #suspendPendingCommands
Drop(w) ==
  /\ link[w] # "DOWN"
  /\ drops[w] < MaxDrops
  /\ drops' = [drops EXCEPT ![w] = @ + 1]
  /\ Disconnected({w})
  /\ unsent' = unsent \union {s \in pendingCreate \union pendingClose : WorkerFor(s) = w}
  /\ UNCHANGED <<vars, workerVars, pendingCreate, pendingClose, resultVars>>

Connect(w) ==
  /\ link[w] = "DOWN"
  /\ link' = [link EXCEPT ![w] = "UP"]
  /\ UNCHANGED <<vars, workerVars, toWorker, toBackend, snapshotSent, drops, commandVars>>

\* The next Worker process has no Tabs and takes no command meant for this one.
WorkerProcessEnds(w) ==
  /\ WorkerRestart(w)
  /\ drops[w] < MaxDrops
  /\ drops' = [drops EXCEPT ![w] = @ + 1]
  /\ Disconnected({w})
  /\ tab' = [s \in Sessions |-> IF WorkerFor(s) = w /\ tab[s] # "NONE" THEN "GONE" ELSE tab[s]]
  /\ unsent' = unsent \union {s \in pendingCreate \union pendingClose : WorkerFor(s) = w}
  /\ UNCHANGED <<createAnswer, closeAnswer, pendingCreate, pendingClose, resultVars>>

BackendProcessEnds ==
  /\ \E w \in Workers : drops[w] < MaxDrops
  /\ drops' = [w \in Workers |-> IF drops[w] < MaxDrops THEN drops[w] + 1 ELSE drops[w]]
  /\ Restart
  /\ Disconnected(Workers)
  /\ pendingCreate' = {} /\ pendingClose' = {} /\ unsent' = {}
  /\ createResult' = [s \in Sessions |-> "NONE"]
  /\ closeResult' = [s \in Sessions |-> "NONE"]
  /\ UNCHANGED workerVars

-----------------------------------------------------------------------------

\* The steps of SessionReservations that the Workers have no part in.
BackendStep(s) ==
  \/ Reserve(s) \/ Close(s) \/ Lapse(s)
  \/ \E cleared \in BOOLEAN : DeliverRead(s, cleared)
  \/ Begin(s) \/ BeginRefused(s) \/ Fail(s) \/ Remove(s)

ExpireOne(s) == \E S \in SUBSET Sessions : s \in S /\ Expire(S)

RuntimeStarts(p) == operation[p] = "START" /\ OperationResult(p, TRUE, FALSE)

ControlStep(s) ==
  \/ RequestCreate(s) \/ CreateUnavailable(s) \/ CreateRejected(s) \/ ApplyCreateResult(s)
  \/ RequestClose(s) \/ CloseExpires(s) \/ ApplyCloseResult(s)

TabStep(s) == TabReady(s) \/ TabEnds(s) \/ TabCleanedUp(s) \/ TabCleanupFails(s)

BackendReceives(w) == ReceiveCreateResult(w) \/ ReceiveCloseResult(w) \/ ReceiveSnapshot(w)

WorkerReceives(w) ==
  \/ ReceiveCreate(w) \/ ReceivePlan(w)
  \/ \E expired \in BOOLEAN : ReceiveClose(w, expired)

LinkStep(w) == Drop(w) \/ Connect(w) \/ SendSnapshot(w) \/ WorkerProcessEnds(w)

ControlNext ==
  \/ \E s \in Sessions : BackendStep(s) /\ UNCHANGED controlVars
  \/ \E s \in Sessions : ExpireOne(s) /\ UNCHANGED controlVars
  \/ \E p \in Profiles : RuntimeStarts(p) /\ UNCHANGED controlVars
  \/ \E s \in Sessions : ControlStep(s) \/ TabStep(s)
  \/ \E w \in Workers : BackendReceives(w) \/ WorkerReceives(w) \/ LinkStep(w)
  \/ BackendProcessEnds

ControlSpec == ControlInit /\ [][ControlNext]_allVars

\* A Worker connects again and again, sends its snapshots periodically, and finishes every cleanup
\* in the end; both sides handle the messages that arrive, and connections last long enough for
\* them to (MaxDrops); the clock and the expiry timer of the Backend go on.
ControlFairness ==
  /\ \A w \in Workers :
       /\ WF_allVars(Connect(w)) /\ WF_allVars(SendSnapshot(w))
       /\ WF_allVars(BackendReceives(w)) /\ WF_allVars(WorkerReceives(w))
  /\ \A s \in Sessions :
       /\ WF_allVars(TabCleanedUp(s))
       /\ WF_allVars(Lapse(s) /\ UNCHANGED controlVars)
       /\ WF_allVars(ExpireOne(s) /\ UNCHANGED controlVars)

FairControlSpec == ControlSpec /\ ControlFairness

-----------------------------------------------------------------------------
(* Properties.                                                             *)

\* Whatever order results, snapshots and commands arrive in, the Backend only makes the steps that
\* SessionReservations allows it: what was left open there covers what Workers really send.
ImplementsReservations == Spec

\* A Worker that has reported a Session closed does not have a Tab for it later, even if the create
\* command of the Session arrives behind the close command.
ReportedClosedHasNoTab ==
  \A w \in Workers : \A i \in DOMAIN toBackend[w] :
    LET message == toBackend[w][i] IN
    message.type = "CLOSE" /\ message.outcome = "SUCCEEDED" => tab[message.session] \notin Present

\* A Session that the Backend has given to its user has had its Tab: no late, repeated or lost
\* message makes the Backend believe in one that never was.
OpenHadTab == \A s \in Sessions : status[s] \in Live => tab[s] # "NONE"

\* As long as maintenance has its Tab, nobody else has one in the Profile, whatever create commands
\* were under way when the Backend took the other Sessions for closed.
MaintenanceTabIsAlone ==
  \A m \in Sessions : IsMaintenance(m) /\ tab[m] \in Present =>
    \A s \in SessionsOf(ProfileOf[m]) \ {m} : tab[s] \notin Present

\* What one Session was told or promised is not undone by another one's commands.
ReportsAreKept == ReportedClosedHasNoTab /\ MaintenanceTabIsAlone

\* Maintenance that failed is released when no Tab of it is left and none can come any more, with
\* create commands under way on connections that break and are made again.
FailedIsReleasedLast ==
  \A m \in released : status[m] = "FAILED" => tab[m] \notin Present

\* What the comment in worker-snapshot-reconciler.ts:624 says of all maintenance: it is kept "until a
\* complete snapshot proves there is no Tab, and an expired create can no longer arrive behind that
\* snapshot".
ReleasedHasNoTab == \A m \in released : tab[m] \notin Present

\* A Tab that is left on a Worker when its Session is over in the Backend is closed, whatever was
\* lost on the way.
OrphanTabsEnd ==
  \A s \in Sessions : status[s] \in Terminal /\ tab[s] \in Present ~> tab[s] \notin Present

\* A Session that is closing ends, though the close command is only tried once.
ClosingEnds == \A s \in Sessions : status[s] = "CLOSING" ~> status[s] \in Terminal

\* The Backend learns that a Tab is gone, even if the Worker process went with it.
LostTabNoticed ==
  \A s \in Sessions : status[s] \in Live /\ tab[s] \notin Present ~> status[s] \notin Live

\* Whatever is lost, the Backend and the Workers agree in the end on which Tabs there are.
TabsSettle == OrphanTabsEnd /\ ClosingEnds /\ LostTabNoticed

\* Ended maintenance gives its Profile back.
MaintenanceIsReleased ==
  \A m \in Sessions : IsMaintenance(m) /\ status[m] \in Terminal ~> m \in released
=============================================================================
