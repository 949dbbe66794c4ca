--------------------------- MODULE SessionViewers ---------------------------
(***************************************************************************)
(* The Viewer of one Tab Session and the lease it lives on: connection     *)
(* requests and single-use tickets (session-viewers.ts, gateways.ts), the  *)
(* renewal of leases by snapshots (session-leases.ts, the reconciler) and  *)
(* what the Worker does with both (tab-sessions.ts).                       *)
(*                                                                         *)
(* The Session has been created on this Worker and has a Tab.  Each        *)
(* generation is one authorized connection request with one ticket, so     *)
(* requests and tickets are indexed by it.  Times are the ticks that       *)
(* remain: at 0 or less a ticket or a lease has expired.  A message keeps  *)
(* the absolute time in the code, so what is on its way ages too.          *)
(***************************************************************************)
EXTENDS Integers, Sequences, SequencesExt

CONSTANTS
  MaxGeneration,  \* bound: connection requests authorized for the Session
  TicketLife,     \* 60 seconds
  LeaseLife,      \* DURATION, 10 minutes
  RenewBefore,    \* RENEW_BEFORE, 5 minutes
  Grace,          \* LEASE_EXPIRY_GRACE_MILLISECONDS, one minute
  Outages         \* bound: whether processes and connections may fail, both are tried

ASSUME ViewerAssumption ==
  /\ {MaxGeneration, TicketLife, LeaseLife, RenewBefore} \subseteq Nat \ {0}
  /\ RenewBefore < LeaseLife
  /\ Grace \in Nat
  /\ Outages \subseteq BOOLEAN

VARIABLES
  session,     \* the row of tab_sessions
  authorized,  \* the owner may use the Profile
  ticket,      \* the row of viewer_tickets of each generation
  connect,     \* progress of each connect() call
  link,        \* the control connection
  commands,    \* session.viewer.prepare messages on the connection
  worker,      \* the Worker's Session entry and the Core behind it
  queue,       \* entry.ticketQueue
  issuing,     \* the head of the queue waits for Core
  outcome,     \* result of each prepare command in the Worker's command cache
  round,       \* the snapshot being reconciled, and its answer
  reported,    \* a round has ended since the last tick
  disturbed,   \* history: the newest request was not answered at some time since the last tick
  held,        \* history: how many ticks in a row that was so
  bound,       \* generation the Gateway lets Core serve, 0 for none
  claims,      \* generations a Gateway consumed the ticket of
  pairing,     \* generation of the Viewer that is connected, 0 for none
  punctual     \* in this behaviour there is no outage, and a tick takes longer than a round

backendVars == <<session, authorized, ticket, connect>>
workerVars == <<worker, queue, issuing, outcome>>
paceVars == <<reported, disturbed, held>>
channelVars == <<link, commands, round, paceVars>>
gatewayVars == <<bound, claims, pairing>>
vars == <<backendVars, workerVars, channelVars, gatewayVars, punctual>>

-----------------------------------------------------------------------------

Generations == 1..MaxGeneration

\* READY, CONNECTED, SUSPENDED and DISCONNECTED are OPEN.
SessionStates == {"OPEN", "CLOSING", "CLOSED", "FAILED"}

\* ANSWERED has the Worker's success, not checked yet; LOST is a call that ended with its process.
Calls == {"NONE", "AUTHORIZED", "WAITING", "ANSWERED", "RETURNED", "REFUSED", "LOST"}

Unfinished == {"AUTHORIZED", "WAITING", "ANSWERED"}

Oldest == -(Grace + 1)
Ticks == Oldest..LeaseLife

Older(time) == IF time > Oldest THEN time - 1 ELSE time

\* stage: what is under way.  closed: the report of the end of the Tab is in the snapshot.
Idle == [stage |-> "IDLE", state |-> "OPEN", viewerGeneration |-> 0, lease |-> 0,
         close |-> FALSE]

ViewersTypeOK ==
  /\ session \in [status : SessionStates, viewerGeneration : 0..MaxGeneration,
                  lease : Ticks, closeQueued : BOOLEAN]
  /\ authorized \in BOOLEAN
  /\ ticket \in [Generations -> [status : {"NONE", "ACTIVE", "CONSUMED", "REVOKED"},
                                 life : 0..TicketLife]]
  /\ connect \in [Generations -> Calls]
  /\ link \in {"DOWN", "UP", "READY"}
  /\ Range(commands) \subseteq Generations
  /\ worker \in [state : {"OPEN", "CLOSING", "ENDED", "GONE"}, core : 0..MaxGeneration,
                 viewerGeneration : 0..MaxGeneration, lease : Ticks]
  /\ Range(queue) \subseteq Generations
  /\ issuing \in BOOLEAN
  /\ outcome \in [Generations -> {"NONE", "SUCCEEDED", "FAILED"}]
  /\ round \in [stage : {"IDLE", "SENT", "RECONCILED", "ACCEPTED"},
                state : {"OPEN", "CLOSING", "ENDED", "GONE"},
                viewerGeneration : 0..MaxGeneration, lease : Ticks, close : BOOLEAN]
  /\ {reported, disturbed} \subseteq BOOLEAN
  /\ held \in 0..RenewBefore
  /\ bound \in 0..MaxGeneration
  /\ claims \subseteq Generations
  /\ pairing \in 0..MaxGeneration
  /\ punctual \in BOOLEAN

\* A Session that a Worker has just created; its lease began with the reservation.
Init ==
  /\ session = [status |-> "OPEN", viewerGeneration |-> 0, lease |-> LeaseLife, closeQueued |-> FALSE]
  /\ authorized = TRUE
  /\ ticket = [g \in Generations |-> [status |-> "NONE", life |-> 0]]
  /\ connect = [g \in Generations |-> "NONE"]
  /\ link = "READY"
  /\ commands = <<>>
  /\ worker = [state |-> "OPEN", core |-> 0, viewerGeneration |-> 0, lease |-> LeaseLife]
  /\ queue = <<>>
  /\ issuing = FALSE
  /\ outcome = [g \in Generations |-> "NONE"]
  /\ round = Idle
  /\ reported = FALSE /\ disturbed = FALSE /\ held = 0
  /\ bound = 0
  /\ claims = {}
  /\ pairing = 0
  /\ punctual \in {~ failing : failing \in Outages}

Revoked(rows) ==
  [g \in Generations |->
     IF rows[g].status = "ACTIVE" THEN [rows[g] EXCEPT !.status = "REVOKED"] ELSE rows[g]]

-----------------------------------------------------------------------------
(* The Backend: connect() and the end of a Session                         *)

\* What every use of the Session asks of its row.
Usable == session.status = "OPEN" /\ authorized /\ session.lease > 0

FaultyAuthorize ==
  LET g == session.viewerGeneration + 1
  IN  /\ Usable
      /\ g <= MaxGeneration
      /\ ticket' = [ticket EXCEPT ![g] = [status |-> "ACTIVE", life |-> TicketLife]]
      /\ session' = [session EXCEPT !.viewerGeneration = g]
      /\ connect' = [connect EXCEPT ![g] = "AUTHORIZED"]
      /\ disturbed' = punctual
      /\ UNCHANGED <<authorized, workerVars, link, commands, round, reported, held, gatewayVars>>

\* The first transaction of connect(): a new generation, and the only ticket that counts.  A page that
\* is not the Viewer's names the generation it replaces; one that names an old one makes no step.
Authorize ==
  LET g == session.viewerGeneration + 1
  IN  /\ Usable
      /\ g <= MaxGeneration
      /\ ticket' = [Revoked(ticket) EXCEPT ![g] = [status |-> "ACTIVE", life |-> TicketLife]]
      /\ session' = [session EXCEPT !.viewerGeneration = g]
      /\ connect' = [connect EXCEPT ![g] = "AUTHORIZED"]
      /\ disturbed' = punctual
      /\ UNCHANGED <<authorized, workerVars, link, commands, round, reported, held, gatewayVars>>

\* prepareSessionViewer: only over a ready connection.
SendPrepare(g) ==
  /\ connect[g] = "AUTHORIZED"
  /\ link = "READY"
  /\ ticket[g].life > 0
  /\ connect' = [connect EXCEPT ![g] = "WAITING"]
  /\ commands' = Append(commands, g)
  /\ UNCHANGED <<session, authorized, ticket, workerVars, link, round, paceVars, gatewayVars>>

ReceiveResult(g) ==
  /\ connect[g] = "WAITING"
  /\ link # "DOWN"
  /\ outcome[g] = "SUCCEEDED"
  /\ connect' = [connect EXCEPT ![g] = "ANSWERED"]
  /\ UNCHANGED <<session, authorized, ticket, workerVars, channelVars, gatewayVars>>

\* Nothing has replaced the request while the Worker prepared it.
IsCurrent(g) ==
  /\ Usable
  /\ session.viewerGeneration = g
  /\ ticket[g].status = "ACTIVE"
  /\ ticket[g].life > 0

\* The second transaction of connect().
ReturnLaunch(g) ==
  /\ connect[g] = "ANSWERED"
  /\ IsCurrent(g)
  /\ connect' = [connect EXCEPT ![g] = "RETURNED"]
  /\ UNCHANGED <<session, authorized, ticket, workerVars, channelVars, gatewayVars>>

\* The connection is not ready, the command is refused, timed out, answered for a Worker that is
\* gone, or not acknowledged however often it was sent, or the second transaction objects.
Fails(g) ==
  \/ connect[g] = "AUTHORIZED" /\ (link # "READY" \/ ticket[g].life <= 0)
  \/ connect[g] = "WAITING" /\ ticket[g].life <= 0
  \/ connect[g] = "WAITING" /\ link # "DOWN" /\ (outcome[g] = "FAILED" \/ worker.state = "GONE")
  \/ connect[g] = "WAITING" /\ link = "READY" /\ ~punctual
  \/ connect[g] = "ANSWERED" /\ ~IsCurrent(g)

\* The catch of connect(): the generation stays, the ticket does not.
FailConnect(g) ==
  /\ Fails(g)
  /\ connect' = [connect EXCEPT ![g] = "REFUSED"]
  /\ ticket' = IF ticket[g].status = "ACTIVE"
               THEN [ticket EXCEPT ![g].status = "REVOKED"] ELSE ticket
  /\ UNCHANGED <<session, authorized, workerVars, channelVars, gatewayVars>>

\* queueSessionClose: the user, an administrator, or access that is withdrawn.
QueueClose(allowed) ==
  /\ session.status = "OPEN"
  /\ session' = [session EXCEPT !.status = "CLOSING", !.closeQueued = TRUE]
  /\ authorized' = (authorized /\ allowed)
  /\ ticket' = Revoked(ticket)
  /\ UNCHANGED <<connect, workerVars, channelVars, gatewayVars>>

\* The answer to the close command, SessionControl models how it gets here.
AcceptCloseResult ==
  /\ session.status = "CLOSING" /\ session.closeQueued
  /\ worker.state \in {"ENDED", "GONE"}
  /\ link # "DOWN"
  /\ session' = [session EXCEPT !.status = "CLOSED"]
  /\ UNCHANGED <<authorized, ticket, connect, workerVars, channelVars, gatewayVars>>

\* Calls end with the Backend process without running their catch.
BackendRestart ==
  /\ ~punctual
  /\ connect' = [g \in Generations |-> IF connect[g] \in Unfinished THEN "LOST" ELSE connect[g]]
  /\ link' = "DOWN"
  /\ commands' = <<>>
  /\ round' = Idle
  /\ UNCHANGED <<session, authorized, ticket, workerVars, paceVars, gatewayVars>>

-----------------------------------------------------------------------------
(* The Backend: snapshots                                                  *)

\* A lease ended so long ago that the clocks cannot explain it.
LongExpired(time) == time + Grace < 0

\* What the reconciler asks the Worker to close.
MustClose ==
  /\ round.state \in {"OPEN", "CLOSING"}
  /\ \/ session.status # "OPEN"
     \/ round.viewerGeneration > session.viewerGeneration
     \/ /\ round.viewerGeneration = session.viewerGeneration
        /\ LongExpired(session.lease) \/ LongExpired(round.lease)

\* The status of the row after a snapshot.
RowAfter ==
  IF session.status \in {"CLOSED", "FAILED"} THEN {session.status}
  ELSE IF round.state = "ENDED"
  THEN IF session.status = "OPEN" THEN {"CLOSED", "FAILED"} ELSE {"CLOSED"}
  ELSE IF round.state = "GONE"
  THEN IF session.status = "OPEN" THEN {"FAILED"} ELSE {"CLOSED"}
  ELSE IF round.state = "CLOSING" /\ round.viewerGeneration = session.viewerGeneration
  THEN {session.status, "CLOSING"}
  ELSE {session.status}

\* The reconciliation of one snapshot.  A READY row follows a Tab that is closing, the other
\* statuses conflict with it.  Only a report of the end of the Tab revokes tickets.  The connection is
\* ready when the plan asks for nothing; it may ask for the end of another Tab of this Worker.
Reconcile ==
  /\ round.stage = "SENT"
  /\ \E status \in RowAfter :
       LET conflict == /\ round.state = "CLOSING" /\ status = "OPEN"
                       /\ round.viewerGeneration = session.viewerGeneration
       IN  /\ session' = [session EXCEPT !.status = status]
           /\ round' = [round EXCEPT !.stage = "RECONCILED", !.close = MustClose \/ conflict]
           /\ link' \in IF MustClose \/ conflict THEN {"UP"} ELSE {"UP", "READY"}
  /\ ticket' = IF round.state = "ENDED" /\ session.status \in {"OPEN", "CLOSING"}
               THEN Revoked(ticket) ELSE ticket
  /\ UNCHANGED <<authorized, connect, workerVars, commands, paceVars, gatewayVars>>

FaultyLateRenewed == IF session.lease <= TicketLife THEN LeaseLife ELSE session.lease

\* The lease of the row after a grant is decided.
Renewed == IF session.lease <= RenewBefore THEN LeaseLife ELSE session.lease

FaultyMayRenew ==
  /\ round.state = "OPEN" /\ ~round.close
  /\ session.status = "OPEN" /\ authorized
  /\ session.viewerGeneration = round.viewerGeneration
  /\ round.lease <= session.lease

\* Neither a late snapshot nor a row alone may resurrect an expired lease.
MayRenew ==
  /\ round.state = "OPEN" /\ ~round.close
  /\ Usable
  /\ session.viewerGeneration = round.viewerGeneration
  /\ 0 < round.lease /\ round.lease <= session.lease

FaultyGrantLease ==
  /\ round.stage = "RECONCILED"
  /\ round' = [round EXCEPT !.stage = "ACCEPTED",
                            !.lease = IF MayRenew /\ Renewed > round.lease THEN Renewed ELSE 0]
  /\ UNCHANGED <<session, authorized, ticket, connect, workerVars, link, commands, paceVars,
                 gatewayVars>>

\* SessionLeaseService.grant, in a transaction of its own: committed before it is sent.  A lease
\* of 0 in the answer is no grant.
GrantLease ==
  /\ round.stage = "RECONCILED"
  /\ session' = IF MayRenew THEN [session EXCEPT !.lease = Renewed] ELSE session
  /\ round' = [round EXCEPT !.stage = "ACCEPTED",
                            !.lease = IF MayRenew /\ Renewed > round.lease THEN Renewed ELSE 0]
  /\ UNCHANGED <<authorized, ticket, connect, workerVars, link, commands, paceVars, gatewayVars>>

-----------------------------------------------------------------------------
(* The Worker                                                              *)

SendSnapshot ==
  /\ link # "DOWN"
  /\ round.stage = "IDLE"
  /\ round' = [stage |-> "SENT", state |-> worker.state,
               viewerGeneration |-> worker.viewerGeneration, lease |-> worker.lease,
               close |-> FALSE]
  /\ UNCHANGED <<backendVars, workerVars, link, commands, paceVars, gatewayVars>>

Live == worker.state = "OPEN" /\ worker.lease > 0

\* reconcileRuntimeFacts and renewLease: an expired grant or lease is left alone.
ApplyPlan ==
  /\ round.stage = "ACCEPTED"
  /\ worker' = IF round.close /\ worker.state = "OPEN" THEN [worker EXCEPT !.state = "CLOSING"]
               ELSE IF Live /\ ~round.close /\ round.lease > worker.lease
               THEN [worker EXCEPT !.lease = round.lease]
               ELSE worker
  /\ round' = Idle
  /\ reported' = punctual
  /\ UNCHANGED <<backendVars, queue, issuing, outcome, link, commands, disturbed, held,
                 gatewayVars>>

\* A command that is repeated, expired, or for a Session that is gone never reaches the queue.
ReceiveCommand ==
  /\ commands # <<>>
  /\ LET g == Head(commands)
         known == outcome[g] # "NONE" \/ g \in Range(queue)
         refused == ticket[g].life <= 0 \/ worker.state \in {"ENDED", "GONE"}
     IN  /\ queue' = IF known \/ refused THEN queue ELSE Append(queue, g)
         /\ outcome' = IF ~known /\ refused THEN [outcome EXCEPT ![g] = "FAILED"] ELSE outcome
  /\ commands' = Tail(commands)
  /\ UNCHANGED <<backendVars, worker, issuing, link, round, paceVars, gatewayVars>>

MayIssue(g) == Live /\ g > worker.viewerGeneration /\ ticket[g].life > 0

Answer(g, result) ==
  /\ outcome' = [outcome EXCEPT ![g] = result]
  /\ queue' = Tail(queue)

FaultyStartTicket ==
  /\ queue # <<>> /\ ~issuing
  /\ IF MayIssue(Head(queue))
     THEN /\ issuing' = TRUE
          /\ outcome' = [outcome EXCEPT ![Head(queue)] = "SUCCEEDED"]
          /\ queue' = queue
     ELSE Answer(Head(queue), "FAILED") /\ issuing' = FALSE
  /\ UNCHANGED <<backendVars, worker, channelVars, gatewayVars>>

\* createViewerTicket, one request at a time, up to the call of Core.
StartTicket ==
  /\ queue # <<>> /\ ~issuing
  /\ IF MayIssue(Head(queue))
     THEN issuing' = TRUE /\ UNCHANGED <<queue, outcome>>
     ELSE Answer(Head(queue), "FAILED") /\ issuing' = FALSE
  /\ UNCHANGED <<backendVars, worker, channelVars, gatewayVars>>

\* Core answers: the previous Viewer is revoked, unless Core refused.  The entry is checked again.
FinishTicket(accepted) ==
  /\ issuing
  /\ issuing' = FALSE
  /\ LET g == Head(queue)
         issued == accepted /\ Live
     IN  /\ worker' = [worker EXCEPT
                         !.core = IF accepted THEN g ELSE @,
                         !.viewerGeneration = IF issued THEN g ELSE @]
         /\ Answer(g, IF issued THEN "SUCCEEDED" ELSE "FAILED")
  /\ bound' = IF accepted THEN 0 ELSE bound
  /\ pairing' = IF accepted THEN 0 ELSE pairing
  /\ UNCHANGED <<backendVars, channelVars, claims>>

FaultyLeaseTimer ==
  /\ worker.state = "OPEN" /\ worker.lease <= 0 /\ link # "DOWN"
  /\ worker' = [worker EXCEPT !.state = "CLOSING"]
  /\ UNCHANGED <<backendVars, queue, issuing, outcome, channelVars, gatewayVars>>

LeaseTimer ==
  /\ worker.state = "OPEN" /\ worker.lease <= 0
  /\ worker' = [worker EXCEPT !.state = "CLOSING"]
  /\ UNCHANGED <<backendVars, queue, issuing, outcome, channelVars, gatewayVars>>

\* A close command, which needs no connection that is ready, or a reason of the Worker's own:
\* recycling, Core that failed.
WorkerCloses ==
  /\ worker.state = "OPEN"
  /\ \/ session.closeQueued /\ link # "DOWN"
     \/ ~punctual
  /\ worker' = [worker EXCEPT !.state = "CLOSING"]
  /\ UNCHANGED <<backendVars, queue, issuing, outcome, channelVars, gatewayVars>>

\* Cleanup waits for the ticket queue; with the Tab goes the peer connection.
CleanUp ==
  /\ worker.state = "CLOSING"
  /\ queue = <<>>
  /\ worker' = [worker EXCEPT !.state = "ENDED"]
  /\ bound' = 0
  /\ pairing' = 0
  /\ UNCHANGED <<backendVars, queue, issuing, outcome, channelVars, claims>>

\* A new process knows nothing of the Session.
WorkerRestart ==
  /\ ~punctual
  /\ worker' = [worker EXCEPT !.state = "GONE"]
  /\ queue' = <<>>
  /\ issuing' = FALSE
  /\ link' = "DOWN"
  /\ commands' = <<>>
  /\ round' = Idle
  /\ bound' = 0
  /\ pairing' = 0
  /\ UNCHANGED <<backendVars, outcome, paceVars, claims>>

-----------------------------------------------------------------------------
(* The connection, the Gateway and time                                    *)

Disconnect ==
  /\ ~punctual
  /\ link # "DOWN"
  /\ link' = "DOWN"
  /\ commands' = <<>>
  /\ round' = Idle
  /\ UNCHANGED <<backendVars, workerVars, paceVars, gatewayVars>>

\* S in the order in which its requests were made, as the one member of a set.
InOrder(S) ==
  {q \in [1..Cardinality(S) -> S] : \A i, j \in DOMAIN q : i < j => q[i] < q[j]}

\* Commands without a result are sent again, to the process they were meant for.
Connected ==
  /\ link = "DOWN"
  /\ link' = "UP"
  /\ commands' \in InOrder({g \in Generations : connect[g] = "WAITING" /\ worker.state # "GONE"})
  /\ UNCHANGED <<backendVars, workerVars, round, paceVars, gatewayVars>>

FaultyConsumeTicket(g) ==
  /\ connect[g] = "RETURNED"
  /\ ticket[g].status = "ACTIVE" /\ ticket[g].life > 0
  /\ session.lease > 0 /\ g = session.viewerGeneration
  /\ ticket' = [ticket EXCEPT ![g].status = "CONSUMED"]
  /\ claims' = claims \union {g}
  /\ UNCHANGED <<session, authorized, connect, workerVars, channelVars, bound, pairing>>

\* The Gateway redeems the token of a launch, once.
ConsumeTicket(g) ==
  /\ connect[g] = "RETURNED"
  /\ ticket[g].status = "ACTIVE" /\ ticket[g].life > 0
  /\ Usable /\ g = session.viewerGeneration
  /\ ticket' = [ticket EXCEPT ![g].status = "CONSUMED"]
  /\ claims' = claims \union {g}
  /\ UNCHANGED <<session, authorized, connect, workerVars, channelVars, bound, pairing>>

\* Core asks the Gateway to serve its current generation.
AuthorizeCore ==
  /\ worker.state \in {"OPEN", "CLOSING"} /\ worker.core # 0
  /\ Usable /\ worker.core = session.viewerGeneration
  /\ bound' = worker.core
  /\ UNCHANGED <<backendVars, workerVars, channelVars, claims, pairing>>

\* The Gateway joins a Viewer to Core when both hold the same generation.
ViewerJoins(g) ==
  /\ g \in claims
  /\ bound = g
  /\ pairing' = g
  /\ claims' = claims \ {g}
  /\ UNCHANGED <<backendVars, workerVars, channelVars, bound>>

ViewerLeaves ==
  /\ pairing # 0
  /\ pairing' = 0
  /\ UNCHANGED <<backendVars, workerVars, channelVars, bound, claims>>

\* Without outages a whole round, and every timer due, fits between two ticks.
TickMayCome ==
  punctual => /\ worker.state = "OPEN" => round.stage = "IDLE" /\ reported
              /\ worker.state = "OPEN" => worker.lease > 0
              /\ \A g \in Generations : connect[g] \in Unfinished => ticket[g].life > 0

\* The newest request is under preparation, or it failed: its generation is not the Worker's.
NewestPending ==
  session.viewerGeneration > 0 /\ connect[session.viewerGeneration] # "RETURNED"

\* held and disturbed are only kept for RenewedInTime, and only in punctual behaviours.
Tick ==
  /\ TickMayCome
  /\ session' = [session EXCEPT !.lease = Older(@)]
  /\ ticket' = [g \in Generations |-> [ticket[g] EXCEPT !.life = IF @ > 0 THEN @ - 1 ELSE 0]]
  /\ worker' = [worker EXCEPT !.lease = Older(@)]
  /\ round' = IF round.stage = "IDLE" THEN round ELSE [round EXCEPT !.lease = Older(@)]
  /\ reported' = FALSE
  /\ held' = IF ~disturbed THEN 0 ELSE IF held < RenewBefore THEN held + 1 ELSE held
  /\ disturbed' = (punctual /\ NewestPending)
  /\ UNCHANGED <<authorized, connect, queue, issuing, outcome, link, commands, gatewayVars>>

-----------------------------------------------------------------------------

Step ==
  \/ Authorize
  \/ \E g \in Generations : SendPrepare(g)
  \/ \E g \in Generations : ReceiveResult(g)
  \/ \E g \in Generations : ReturnLaunch(g)
  \/ \E g \in Generations : FailConnect(g)
  \/ \E allowed \in BOOLEAN : QueueClose(allowed)
  \/ AcceptCloseResult
  \/ BackendRestart
  \/ Reconcile
  \/ GrantLease
  \/ SendSnapshot
  \/ ApplyPlan
  \/ ReceiveCommand
  \/ StartTicket
  \/ \E accepted \in BOOLEAN : FinishTicket(accepted)
  \/ LeaseTimer
  \/ WorkerCloses
  \/ CleanUp
  \/ WorkerRestart
  \/ Disconnect
  \/ Connected
  \/ \E g \in Generations : ConsumeTicket(g)
  \/ AuthorizeCore
  \/ \E g \in Generations : ViewerJoins(g)
  \/ ViewerLeaves
  \/ Tick

Next == Step /\ UNCHANGED punctual

\* Time passes, and the Worker's timers and promise chains run; nothing is asked of the Backend or of
\* the connection.  Core is asked to settle: to answer a request for a ticket, in whatever way, and
\* to end a Tab, which the Worker awaits without a deadline.
Fairness ==
  /\ WF_vars(Tick /\ UNCHANGED punctual)
  /\ WF_vars(LeaseTimer /\ UNCHANGED punctual)
  /\ WF_vars(StartTicket /\ UNCHANGED punctual)
  /\ WF_vars((\E accepted \in BOOLEAN : FinishTicket(accepted)) /\ UNCHANGED punctual)
  /\ WF_vars(CleanUp /\ UNCHANGED punctual)

Spec == Init /\ [][Next]_vars /\ Fairness

-----------------------------------------------------------------------------
(* Properties                                                              *)

\* However many requests are being prepared, only the ticket of the newest can still be redeemed
\* (session-viewers.ts revokes the others when it takes the next generation), and the Worker never
\* shows a generation the Backend has not authorized: a snapshot, however late, is not taken for a
\* mapping conflict because of its Viewer.
OnlyNewestTicketCounts ==
  /\ \A g \in Generations : ticket[g].status = "ACTIVE" => g = session.viewerGeneration
  /\ worker.viewerGeneration <= session.viewerGeneration
  /\ round.viewerGeneration <= session.viewerGeneration

\* When the new Viewer gets its launch the one it replaces has lost the Tab: tickets are issued one
\* after the other and answered only after Core has let go of the old connection.  And no Viewer
\* remains connected to a Tab the Backend counts as ended, nor can one join it.
StaleViewersAreGone ==
  /\ \A g \in Generations : connect[g] = "RETURNED" => pairing \notin 1..(g - 1)
  /\ session.status \in {"CLOSED", "FAILED"} => pairing = 0 /\ bound = 0

\* The Worker never holds, and is never sent, more time than the Backend has committed.
LeaseIsCommitted ==
  /\ worker.state = "OPEN" => worker.lease <= session.lease
  /\ round.stage = "ACCEPTED" => round.lease <= session.lease \/ round.lease <= 0

\* Neither side brings an expired lease back, whatever grant or snapshot arrives late.
ExpiredStaysExpired ==
  [][ /\ session.lease <= 0 => session'.lease <= 0
      /\ worker.lease <= 0 => worker'.lease <= 0 ]_vars

\* Of several requests of one Session the launches come back in the order of their generations,
\* and a token is not redeemed for a Session that is closing, nor for an owner without access.
LaunchesAreCurrent ==
  [][ /\ \A g \in Generations : connect[g] # "RETURNED" /\ connect'[g] = "RETURNED" =>
           \A h \in g + 1..MaxGeneration : connect[h] # "RETURNED"
      /\ \A g \in claims' \ claims : session.status = "OPEN" /\ authorized ]_vars

\* A Tab whose connection stays up loses its lease only to its own requests: the newest must have
\* been under preparation, or have failed, without a break for RENEW_BEFORE.  A snapshot taken in
\* between renews the lease, however many requests came before it.
RenewedInTime ==
  punctual /\ worker.state = "OPEN" /\ session.status = "OPEN"
    => worker.lease > 0 \/ held >= RenewBefore

\* Access that is withdrawn ends the Tab even when the Worker cannot be told, and a Worker that is
\* cut off for good does not keep its Tab.
TabEndsWithoutBackend ==
  /\ ~punctual /\ ~authorized ~> worker.state \in {"ENDED", "GONE"}
  /\ (<>[](link = "DOWN")) => <>(worker.state \in {"ENDED", "GONE"})
=============================================================================
