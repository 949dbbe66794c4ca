------------------------- MODULE SessionViewersProofs -------------------------
(***************************************************************************)
(* Proofs about SessionViewers: tickets, connected Viewers and the lease   *)
(* of a Tab Session, for any number of requests and any lifetimes.         *)
(***************************************************************************)
EXTENDS SessionViewers, FiniteSetTheorems, SequenceTheorems, TLAPS

-----------------------------------------------------------------------------
(* The inductive invariant.                                                *)

\* The generations that have been authorized.
Requested == 1 .. session.viewerGeneration

\* A Worker that knows that the Tab is gone.
Over == {"ENDED", "GONE"}

\* Only generations that were requested are anywhere, and the newest has the only ticket.
RequestsAgree ==
  /\ queue \in Seq(Requested) /\ commands \in Seq(Requested)
  /\ \A g \in Generations : connect[g] # "NONE" => g <= session.viewerGeneration
  /\ OnlyNewestTicketCounts

\* Core takes one generation after the other.  While the lease lasts it has the one the Worker shows, and
\* neither the Gateway nor a Viewer has an older one.
CoreAgrees ==
  /\ Live => worker.core = worker.viewerGeneration
  /\ issuing => queue # <<>> /\ worker.core < Head(queue)
  /\ \A g \in Generations : outcome[g] = "SUCCEEDED" => g <= worker.core
  /\ \A g \in Generations : connect[g] \in {"ANSWERED", "RETURNED"} => g <= worker.core
  /\ bound \in {0, worker.core} /\ pairing \in {0, worker.core}

\* The end of the Tab: the Worker knows it first.
EndAgrees ==
  /\ worker.state \in Over => bound = 0 /\ pairing = 0
  /\ round.state \in Over => worker.state \in Over
  /\ session.status \in {"CLOSED", "FAILED"} => worker.state \in Over

ViewersInv ==
  ViewersTypeOK /\ RequestsAgree /\ CoreAgrees /\ EndAgrees /\ LeaseIsCommitted

-----------------------------------------------------------------------------
(* Every step keeps the invariant.                                         *)

\* What the reconciliation of a snapshot changes.
LEMMA ReconcileChanges ==
  ASSUME ViewersInv, Reconcile
  PROVE  \E status \in RowAfter, close \in BOOLEAN :
           /\ session' = [session EXCEPT !.status = status]
           /\ round' = [round EXCEPT !.stage = "RECONCILED", !.close = close]
           /\ ticket' \in {ticket, Revoked(ticket)}
           /\ link' \in {"UP", "READY"}
           /\ UNCHANGED <<authorized, connect, workerVars, commands, paceVars, gatewayVars>>
<1> DEFINE conflict(status) == /\ round.state = "CLOSING" /\ status = "OPEN"
                               /\ round.viewerGeneration = session.viewerGeneration
<1>1. PICK status \in RowAfter :
        /\ session' = [session EXCEPT !.status = status]
        /\ round' = [round EXCEPT !.stage = "RECONCILED", !.close = MustClose \/ conflict(status)]
        /\ link' \in IF MustClose \/ conflict(status) THEN {"UP"} ELSE {"UP", "READY"}
  BY DEF Reconcile
<1>2. (MustClose \/ conflict(status)) \in BOOLEAN
  OBVIOUS
<1> HIDE DEF conflict
<1> QED BY <1>1, <1>2 DEF Reconcile

\* A snapshot ends the row only for a Worker without the Tab.
LEMMA RowAfterStates ==
  ASSUME ViewersInv, NEW status \in RowAfter
  PROVE  status \in SessionStates /\ (status \in {"CLOSED", "FAILED"} => worker.state \in Over)
BY DEF RowAfter, ViewersInv, ViewersTypeOK, EndAgrees, SessionStates, Over

\* The Worker gives up the Tab before a snapshot or the Backend says so.
LEMMA EndStep ==
  ASSUME ViewersInv, ViewerAssumption, Step
  PROVE  EndAgrees'
<1>1. CASE Reconcile
  <2>1. PICK status \in RowAfter, close \in BOOLEAN :
          /\ session' = [session EXCEPT !.status = status]
          /\ round' = [round EXCEPT !.stage = "RECONCILED", !.close = close]
          /\ UNCHANGED <<workerVars, gatewayVars>>
    BY <1>1, ReconcileChanges
  <2>2. session'.status = status /\ round'.state = round.state
    BY <2>1 DEF ViewersInv, ViewersTypeOK
  <2>3. UNCHANGED <<worker, bound, pairing>>
    BY <2>1 DEF workerVars, gatewayVars
  <2> QED BY <2>2, <2>3, RowAfterStates DEF EndAgrees, ViewersInv
<1>2. CASE BackendRestart \/ ApplyPlan \/ Disconnect \/ WorkerRestart
  BY <1>2 DEF BackendRestart, ApplyPlan, Disconnect, WorkerRestart, EndAgrees, Over, ViewersInv,
         ViewersTypeOK, backendVars, workerVars, channelVars, gatewayVars, Idle
<1>3. CASE SendSnapshot
  BY <1>3 DEF SendSnapshot, EndAgrees, Over, ViewersInv, ViewersTypeOK, backendVars, workerVars,
         channelVars, gatewayVars
<1>4. CASE GrantLease
  <2>1. session'.status = session.status /\ round'.state = round.state
    BY <1>4 DEF GrantLease, ViewersInv, ViewersTypeOK
  <2>2. UNCHANGED <<worker, bound, pairing>>
    BY <1>4 DEF GrantLease, workerVars, gatewayVars
  <2> QED BY <2>1, <2>2 DEF ViewersInv, EndAgrees
<1>5. CASE \/ (\E accepted \in BOOLEAN : FinishTicket(accepted)) \/ LeaseTimer \/ WorkerCloses
           \/ CleanUp
  BY <1>5 DEF FinishTicket, LeaseTimer, WorkerCloses, CleanUp, EndAgrees, Over, ViewersInv,
         ViewersTypeOK, backendVars, workerVars, channelVars, gatewayVars
<1>6. CASE AuthorizeCore \/ (\E g \in Generations : ViewerJoins(g)) \/ ViewerLeaves
  BY <1>6 DEF AuthorizeCore, ViewerJoins, ViewerLeaves, EndAgrees, Over, ViewersInv, ViewersTypeOK,
         backendVars, workerVars, channelVars, gatewayVars, CoreAgrees
<1>7. CASE \/ Authorize \/ (\E g \in Generations : SendPrepare(g))
           \/ (\E g \in Generations : ReceiveResult(g))
           \/ (\E g \in Generations : ReturnLaunch(g)) \/ (\E g \in Generations : FailConnect(g))
           \/ (\E allowed \in BOOLEAN : QueueClose(allowed)) \/ AcceptCloseResult
           \/ ReceiveCommand \/ StartTicket \/ Connected
           \/ (\E g \in Generations : ConsumeTicket(g)) \/ Tick
  <2>1. CASE \/ Authorize \/ (\E g \in Generations : SendPrepare(g))
             \/ (\E g \in Generations : ReceiveResult(g))
             \/ (\E g \in Generations : ReturnLaunch(g))
             \/ (\E g \in Generations : FailConnect(g))
    BY <2>1 DEF Authorize, SendPrepare, ReceiveResult, ReturnLaunch, FailConnect, EndAgrees, Over,
       ViewersInv, ViewersTypeOK, backendVars, workerVars, channelVars, gatewayVars
  <2>2. CASE (\E allowed \in BOOLEAN : QueueClose(allowed)) \/ AcceptCloseResult \/ Tick
    BY <2>2 DEF QueueClose, AcceptCloseResult, Tick, EndAgrees, Over, ViewersInv, ViewersTypeOK,
       backendVars, workerVars, channelVars, gatewayVars
  <2>3. CASE ReceiveCommand \/ StartTicket \/ Connected \/ (\E g \in Generations : ConsumeTicket(g))
    BY <2>3 DEF ReceiveCommand, StartTicket, Connected, ConsumeTicket, EndAgrees, Over, ViewersInv,
       backendVars, workerVars, channelVars, gatewayVars
  <2> QED BY <1>7, <2>1, <2>2, <2>3
<1> QED BY <1>1, <1>2, <1>3, <1>4, <1>5, <1>6, <1>7 DEF Step

\* A lease is granted from what is committed, and all that is on its way ages together.
LEMMA LeaseStep ==
  ASSUME ViewersInv, ViewerAssumption, Step
  PROVE  LeaseIsCommitted'
<1>1. CASE Tick
  BY <1>1 DEF Tick, LeaseIsCommitted, ViewersInv, ViewersTypeOK, backendVars, workerVars,
         channelVars, gatewayVars, Ticks, Oldest, Older, ViewerAssumption
<1>2. CASE Reconcile
  BY <1>2, ReconcileChanges DEF LeaseIsCommitted, ViewersInv, ViewersTypeOK, workerVars
<1>3. CASE GrantLease
  BY <1>3 DEF GrantLease, LeaseIsCommitted, ViewersInv, ViewersTypeOK, backendVars, workerVars,
         channelVars, gatewayVars, MayRenew, Usable, Renewed, Ticks, Oldest, ViewerAssumption
<1>4. CASE ApplyPlan
  BY <1>4 DEF ApplyPlan, LeaseIsCommitted, ViewersInv, ViewersTypeOK, backendVars, workerVars,
         channelVars, gatewayVars, Idle, Live, Ticks, Oldest
<1>5. CASE SendSnapshot \/ BackendRestart \/ Disconnect \/ WorkerRestart
  BY <1>5 DEF SendSnapshot, BackendRestart, Disconnect, WorkerRestart, LeaseIsCommitted,
         ViewersInv, ViewersTypeOK, backendVars, workerVars, channelVars, gatewayVars, Idle
<1>6. CASE \/ LeaseTimer \/ WorkerCloses \/ CleanUp
           \/ (\E accepted \in BOOLEAN : FinishTicket(accepted))
  BY <1>6 DEF LeaseTimer, WorkerCloses, CleanUp, FinishTicket, LeaseIsCommitted, ViewersInv,
         ViewersTypeOK, backendVars, workerVars, channelVars, gatewayVars
<1>7. CASE \/ Authorize \/ (\E g \in Generations : SendPrepare(g))
           \/ (\E g \in Generations : ReceiveResult(g))
           \/ (\E g \in Generations : ReturnLaunch(g)) \/ (\E g \in Generations : FailConnect(g))
           \/ (\E allowed \in BOOLEAN : QueueClose(allowed)) \/ AcceptCloseResult
           \/ ReceiveCommand \/ StartTicket \/ Connected
           \/ (\E g \in Generations : ConsumeTicket(g)) \/ AuthorizeCore
           \/ (\E g \in Generations : ViewerJoins(g)) \/ ViewerLeaves
  BY <1>7 DEF Authorize, SendPrepare, ReceiveResult, ReturnLaunch, FailConnect, QueueClose,
         AcceptCloseResult, ReceiveCommand, StartTicket, Connected, ConsumeTicket, AuthorizeCore,
         ViewerJoins, ViewerLeaves, LeaseIsCommitted, ViewersInv, ViewersTypeOK, backendVars,
         workerVars, channelVars, gatewayVars
<1> QED BY <1>1, <1>2, <1>3, <1>4, <1>5, <1>6, <1>7 DEF Step

\* A request at the head of the queue, and what is behind it.
LEMMA QueueFacts ==
  ASSUME ViewersInv, ViewerAssumption, queue # <<>>
  PROVE  /\ Head(queue) \in Requested /\ Head(queue) \in Generations /\ Tail(queue) \in Seq(Requested)
         /\ \A g \in Generations : Append(queue, g) # <<>> /\ Head(Append(queue, g)) = Head(queue)
<1>1. queue \in Seq(Requested)
  BY DEF ViewersInv, RequestsAgree
<1>2. Requested \subseteq Generations
  BY DEF Requested, Generations, ViewersInv, ViewersTypeOK, ViewerAssumption
<1>3. Head(queue) \in Requested /\ Tail(queue) \in Seq(Requested)
  BY <1>1, HeadTailProperties
<1>4. ASSUME NEW g \in Generations
      PROVE  Append(queue, g) # <<>> /\ Head(Append(queue, g)) = Head(queue)
  <2>1. queue \in Seq(Generations)
    BY <1>1, <1>2, SeqMonotonic
  <2> QED BY <2>1, HeadTailAppend, AppendProperties
<1> QED BY <1>2, <1>3, <1>4

\* The same of the commands on the connection.
LEMMA CommandFacts ==
  ASSUME ViewersInv, ViewerAssumption, commands # <<>>
  PROVE  Head(commands) \in Requested /\ Head(commands) \in Generations /\ Tail(commands) \in Seq(Requested)
<1>1. commands \in Seq(Requested)
  BY DEF ViewersInv, RequestsAgree
<1>2. Requested \subseteq Generations
  BY DEF Requested, Generations, ViewersInv, ViewersTypeOK, ViewerAssumption
<1> QED BY <1>1, <1>2, HeadTailProperties

\* Core lets go of a Viewer exactly when it takes the next generation.
LEMMA CoreStep ==
  ASSUME ViewersInv, ViewerAssumption, Step
  PROVE  CoreAgrees'
<1>1. CASE \E accepted \in BOOLEAN : FinishTicket(accepted)
  <2>1. PICK accepted \in BOOLEAN : FinishTicket(accepted)
    BY <1>1
  <2> DEFINE g == Head(queue)
  <2>2. g \in Generations /\ worker.core < g
    BY <2>1, QueueFacts DEF FinishTicket, ViewersInv, CoreAgrees
  <2> HIDE DEF g
  <2>3. CASE accepted
    <3>1. worker'.core = g /\ bound' = 0 /\ pairing' = 0 /\ issuing' = FALSE /\ UNCHANGED connect
      BY <2>1, <2>3 DEF FinishTicket, ViewersInv, ViewersTypeOK, g, backendVars
    <3>2. Live' => worker'.viewerGeneration = g
      BY <2>1, <2>3 DEF FinishTicket, ViewersInv, ViewersTypeOK, Live, g
    <3>3. \A h \in Generations : outcome'[h] = "SUCCEEDED" => h = g \/ outcome[h] = "SUCCEEDED"
      BY <2>1 DEF FinishTicket, Answer, ViewersInv, ViewersTypeOK, g
    <3> QED BY <2>2, <3>1, <3>2, <3>3
        DEF ViewersInv, ViewersTypeOK, CoreAgrees, Generations, ViewerAssumption
  <2>4. CASE ~ accepted
    <3>1. worker' = worker /\ issuing' = FALSE /\ UNCHANGED <<connect, bound, pairing>>
      BY <2>1, <2>4 DEF FinishTicket, ViewersInv, ViewersTypeOK, backendVars
    <3>2. \A h \in Generations : outcome'[h] = "SUCCEEDED" => outcome[h] = "SUCCEEDED"
      BY <2>1, <2>4 DEF FinishTicket, Answer, ViewersInv, ViewersTypeOK
    <3> QED BY <3>1, <3>2 DEF ViewersInv, CoreAgrees, Live
  <2> QED BY <2>3, <2>4
<1>2. CASE StartTicket
  <2>1. UNCHANGED <<worker, connect, bound, pairing>>
    BY <1>2 DEF StartTicket, backendVars, gatewayVars
  <2>2. issuing' => queue' # <<>> /\ worker.core < Head(queue')
    BY <1>2 DEF StartTicket, MayIssue, Answer, Live, ViewersInv, CoreAgrees
  <2>3. \A h \in Generations : outcome'[h] = "SUCCEEDED" => outcome[h] = "SUCCEEDED"
    BY <1>2 DEF StartTicket, Answer, ViewersInv, ViewersTypeOK
  <2> QED BY <2>1, <2>2, <2>3 DEF ViewersInv, CoreAgrees, Live
<1>3. CASE ReceiveCommand
  <2>1. UNCHANGED <<worker, connect, bound, pairing, issuing>>
    BY <1>3 DEF ReceiveCommand, backendVars, gatewayVars
  <2>2. issuing => queue' # <<>> /\ Head(queue') = Head(queue)
    <3>1. Head(commands) \in Generations
      BY <1>3, CommandFacts DEF ReceiveCommand
    <3>2. queue' = queue \/ queue' = Append(queue, Head(commands))
      BY <1>3 DEF ReceiveCommand
    <3> QED BY <3>1, <3>2, QueueFacts DEF ViewersInv, CoreAgrees
  <2>3. \A h \in Generations : outcome'[h] = "SUCCEEDED" => outcome[h] = "SUCCEEDED"
    BY <1>3 DEF ReceiveCommand, ViewersInv, ViewersTypeOK
  <2> QED BY <2>1, <2>2, <2>3 DEF ViewersInv, CoreAgrees, Live
<1>4. CASE Tick
  BY <1>4 DEF Tick, CoreAgrees, Live, ViewersInv, ViewersTypeOK, backendVars, workerVars,
         channelVars, gatewayVars, Ticks, Older, Oldest, ViewerAssumption
<1>5. CASE ApplyPlan \/ LeaseTimer \/ WorkerCloses \/ CleanUp \/ WorkerRestart
  <2>1. CASE ApplyPlan
    BY <2>1 DEF ApplyPlan, CoreAgrees, Live, ViewersInv, ViewersTypeOK, backendVars, gatewayVars
  <2>2. CASE LeaseTimer \/ WorkerCloses \/ CleanUp
    BY <2>2 DEF LeaseTimer, WorkerCloses, CleanUp, CoreAgrees, Live, ViewersInv, ViewersTypeOK,
       backendVars, gatewayVars
  <2>3. CASE WorkerRestart
    BY <2>3 DEF WorkerRestart, CoreAgrees, Live, ViewersInv, ViewersTypeOK, backendVars
  <2> QED BY <1>5, <2>1, <2>2, <2>3
<1>6. CASE AuthorizeCore \/ (\E g \in Generations : ViewerJoins(g)) \/ ViewerLeaves
  BY <1>6 DEF AuthorizeCore, ViewerJoins, ViewerLeaves, CoreAgrees, Live, ViewersInv,
         ViewersTypeOK, backendVars, workerVars, channelVars, gatewayVars
<1>7. CASE (\E allowed \in BOOLEAN : QueueClose(allowed)) \/ AcceptCloseResult \/ GrantLease
  BY <1>7 DEF QueueClose, AcceptCloseResult, GrantLease, CoreAgrees, Live, ViewersInv,
         ViewersTypeOK, backendVars, workerVars, channelVars, gatewayVars
<1>8. CASE SendSnapshot \/ Disconnect
  BY <1>8 DEF SendSnapshot, Disconnect, CoreAgrees, Live, ViewersInv, ViewersTypeOK, backendVars,
         workerVars, channelVars, gatewayVars
<1>9. CASE \E g \in Generations : ConsumeTicket(g)
  <2>1. UNCHANGED <<connect, workerVars, bound, pairing>>
    BY <1>9 DEF ConsumeTicket
  <2> QED BY <2>1 DEF ViewersInv, CoreAgrees, Live, workerVars
<1>10. CASE Connected
  <2>1. UNCHANGED <<backendVars, workerVars, gatewayVars>>
    BY <1>10 DEF Connected
  <2> QED BY <2>1 DEF ViewersInv, CoreAgrees, Live, backendVars, workerVars, gatewayVars
<1>11. CASE \E g \in Generations : ReceiveResult(g)
  <2>1. PICK g \in Generations : ReceiveResult(g)
    BY <1>11
  <2> QED BY <2>1 DEF ReceiveResult, workerVars, gatewayVars, channelVars, CoreAgrees, Live, ViewersInv, ViewersTypeOK
<1>12. CASE Authorize \/ (\E g \in Generations : SendPrepare(g))
  <2>1. UNCHANGED <<workerVars, gatewayVars>>
    BY <1>12 DEF Authorize, SendPrepare
  <2>2. \A h \in Generations : connect'[h] \in {"ANSWERED", "RETURNED"} =>
          connect[h] \in {"ANSWERED", "RETURNED"}
    BY <1>12 DEF Authorize, SendPrepare, ViewersInv, ViewersTypeOK
  <2> QED BY <2>1, <2>2 DEF ViewersInv, CoreAgrees, Live, workerVars, gatewayVars
<1>13. CASE (\E g \in Generations : ReturnLaunch(g)) \/ (\E g \in Generations : FailConnect(g))
  <2>1. UNCHANGED <<workerVars, gatewayVars>>
    BY <1>13 DEF ReturnLaunch, FailConnect
  <2>2. \A h \in Generations : connect'[h] \in {"ANSWERED", "RETURNED"} =>
          connect[h] \in {"ANSWERED", "RETURNED"}
    BY <1>13 DEF ReturnLaunch, FailConnect, ViewersInv, ViewersTypeOK
  <2> QED BY <2>1, <2>2 DEF ViewersInv, CoreAgrees, Live, workerVars, gatewayVars
<1>14. CASE BackendRestart
  BY <1>14 DEF BackendRestart, CoreAgrees, Live, ViewersInv, ViewersTypeOK, backendVars,
         workerVars, channelVars, gatewayVars, Unfinished
<1>15. CASE Reconcile
  <2>1. UNCHANGED <<connect, workerVars, gatewayVars>>
    BY <1>15, ReconcileChanges
  <2> QED BY <2>1 DEF ViewersInv, CoreAgrees, Live, workerVars, gatewayVars
<1> QED BY <1>1, <1>2, <1>3, <1>4, <1>5, <1>6, <1>7, <1>8, <1>9, <1>10, <1>11, <1>12, <1>13, <1>14, <1>15 DEF Step

\* The generation of the Session only goes up, so what was requested stays requested.
LEMMA GenerationStep ==
  ASSUME ViewersInv, ViewerAssumption, Step
  PROVE  /\ session'.viewerGeneration \in session.viewerGeneration .. MaxGeneration
         /\ Requested \subseteq Requested'
<1>1. session'.viewerGeneration \in session.viewerGeneration .. MaxGeneration
  <2>1. CASE Reconcile
    <3>1. PICK status \in RowAfter : session' = [session EXCEPT !.status = status]
      BY <2>1, ReconcileChanges
    <3>2. session'.viewerGeneration = session.viewerGeneration
      BY <3>1 DEF ViewersInv, ViewersTypeOK
    <3> QED BY <3>2 DEF ViewersInv, ViewersTypeOK, ViewerAssumption
  <2>2. CASE ~ Reconcile
    <3>1. \/ session' = session
          \/ Authorize
          \/ \E status \in SessionStates, queued \in BOOLEAN :
               session' = [session EXCEPT !.status = status, !.closeQueued = queued]
          \/ \E time \in Ticks : session' = [session EXCEPT !.lease = time]
      <4>1. CASE Authorize
        BY <4>1
      <4>2. CASE \E allowed \in BOOLEAN : QueueClose(allowed)
        BY <4>2 DEF QueueClose, SessionStates
      <4>3. CASE AcceptCloseResult
        <5>1. session' = [session EXCEPT !.status = "CLOSED", !.closeQueued = session.closeQueued]
          BY <4>3 DEF AcceptCloseResult, ViewersInv, ViewersTypeOK
        <5>2. session.closeQueued \in BOOLEAN /\ "CLOSED" \in SessionStates
          BY DEF ViewersInv, ViewersTypeOK, SessionStates
        <5> QED BY <5>1, <5>2
      <4>4. CASE GrantLease
        <5>1. Renewed \in Ticks
          BY DEF Renewed, Ticks, Oldest, ViewersInv, ViewersTypeOK, ViewerAssumption
        <5> QED BY <4>4, <5>1 DEF GrantLease
      <4>5. CASE Tick
        <5>1. Older(session.lease) \in Ticks
          BY DEF Older, Ticks, Oldest, ViewersInv, ViewersTypeOK, ViewerAssumption
        <5> QED BY <4>5, <5>1 DEF Tick
      <4>6. CASE ~ (Authorize \/ (\E allowed \in BOOLEAN : QueueClose(allowed)) \/ AcceptCloseResult
                    \/ GrantLease \/ Tick)
        BY <2>2, <4>6 DEF Step, SendPrepare, ReceiveResult, ReturnLaunch, FailConnect, BackendRestart,
           SendSnapshot, ApplyPlan, ReceiveCommand, StartTicket, FinishTicket, LeaseTimer,
           WorkerCloses, CleanUp, WorkerRestart, Disconnect, Connected, ConsumeTicket, AuthorizeCore,
           ViewerJoins, ViewerLeaves, backendVars
      <4> QED BY <4>1, <4>2, <4>3, <4>4, <4>5, <4>6
    <3>2. CASE Authorize
      <4>1. /\ session'.viewerGeneration = session.viewerGeneration + 1
            /\ session.viewerGeneration + 1 <= MaxGeneration
        BY <3>2 DEF Authorize, ViewersInv, ViewersTypeOK
      <4> QED BY <4>1 DEF ViewersInv, ViewersTypeOK, ViewerAssumption
    <3>3. CASE ~ Authorize
      <4>1. session'.viewerGeneration = session.viewerGeneration
        BY <3>1, <3>3 DEF ViewersInv, ViewersTypeOK
      <4> QED BY <4>1 DEF ViewersInv, ViewersTypeOK, ViewerAssumption
    <3> QED BY <3>2, <3>3
  <2> QED BY <2>1, <2>2
<1> QED BY <1>1 DEF Requested, ViewersInv, ViewersTypeOK, ViewerAssumption

\* Only requested generations are queued, also when commands are sent again.
LEMMA QueuesStep ==
  ASSUME ViewersInv, ViewerAssumption, Step
  PROVE  queue' \in Seq(Requested) /\ commands' \in Seq(Requested)
<1>1. CASE Connected
  <2> DEFINE S == {g \in Generations : connect[g] = "WAITING" /\ worker.state # "GONE"}
  <2>1. S \subseteq Requested
    BY DEF Requested, Generations, ViewersInv, RequestsAgree
  <2>2. Cardinality(S) \in Nat
    <3>1. IsFiniteSet(Requested)
      BY FS_Interval DEF Requested, ViewersInv, ViewersTypeOK
    <3> QED BY <2>1, <3>1, FS_Subset, FS_CardinalityType
  <2>3. commands' \in InOrder(S) /\ UNCHANGED queue
    BY <1>1 DEF Connected, workerVars
  <2> HIDE DEF S
  <2>4. commands' \in [1 .. Cardinality(S) -> Requested]
    BY <2>1, <2>3 DEF InOrder
  <2>5. commands' \in Seq(Requested)
    BY <2>2, <2>4, SeqDef
  <2> QED BY <2>3, <2>5 DEF ViewersInv, RequestsAgree
<1>2. CASE \E g \in Generations : SendPrepare(g)
  <2>1. PICK g \in Generations : SendPrepare(g)
    BY <1>2
  <2>2. g \in Requested /\ commands \in Seq(Requested) /\ UNCHANGED queue
    BY <2>1 DEF SendPrepare, Requested, Generations, ViewersInv, RequestsAgree, workerVars
  <2>3. commands' = Append(commands, g)
    BY <2>1 DEF SendPrepare
  <2> QED BY <2>2, <2>3, AppendProperties DEF ViewersInv, RequestsAgree
<1>3. CASE ReceiveCommand
  <2>1. Head(commands) \in Requested /\ commands' = Tail(commands) /\ commands' \in Seq(Requested)
    BY <1>3, CommandFacts DEF ReceiveCommand
  <2>2. queue' = queue \/ queue' = Append(queue, Head(commands))
    BY <1>3 DEF ReceiveCommand
  <2>3. Append(queue, Head(commands)) \in Seq(Requested) /\ queue \in Seq(Requested)
    BY <2>1, AppendProperties DEF ViewersInv, RequestsAgree
  <2> QED BY <2>1, <2>2, <2>3
<1>4. CASE StartTicket
  <2>1. UNCHANGED commands /\ queue' \in {queue, Tail(queue)} /\ queue # <<>>
    BY <1>4 DEF StartTicket, Answer, channelVars
  <2> QED BY <2>1, QueueFacts DEF ViewersInv, RequestsAgree
<1>5. CASE \E accepted \in BOOLEAN : FinishTicket(accepted)
  <2>1. UNCHANGED commands /\ queue' = Tail(queue) /\ queue # <<>>
    BY <1>5 DEF FinishTicket, Answer, channelVars, ViewersInv, CoreAgrees
  <2> QED BY <2>1, QueueFacts DEF ViewersInv, RequestsAgree
<1>6. CASE BackendRestart \/ WorkerRestart \/ Disconnect
  <2>1. queue' \in {queue, <<>>} /\ commands' = <<>>
    BY <1>6 DEF BackendRestart, WorkerRestart, Disconnect, workerVars
  <2> QED BY <2>1, EmptySeq DEF ViewersInv, RequestsAgree
<1>7. CASE \/ Authorize \/ (\E g \in Generations : ReceiveResult(g))
           \/ (\E g \in Generations : ReturnLaunch(g)) \/ (\E g \in Generations : FailConnect(g))
           \/ (\E allowed \in BOOLEAN : QueueClose(allowed)) \/ AcceptCloseResult \/ Reconcile
           \/ GrantLease \/ SendSnapshot \/ ApplyPlan \/ LeaseTimer \/ WorkerCloses \/ CleanUp
           \/ (\E g \in Generations : ConsumeTicket(g)) \/ AuthorizeCore
           \/ (\E g \in Generations : ViewerJoins(g)) \/ ViewerLeaves \/ Tick
  BY <1>7 DEF Authorize, ReceiveResult, ReturnLaunch, FailConnect, QueueClose, AcceptCloseResult,
         Reconcile, GrantLease, SendSnapshot, ApplyPlan, LeaseTimer, WorkerCloses, CleanUp,
         ConsumeTicket, AuthorizeCore, ViewerJoins, ViewerLeaves, Tick, ViewersInv, RequestsAgree,
         backendVars, workerVars, channelVars, gatewayVars
<1> QED BY <1>1, <1>2, <1>3, <1>4, <1>5, <1>6, <1>7 DEF Step

\* A sequence over a set holds only members of it.
LEMMA RangeWithin ==
  ASSUME NEW S, NEW q \in Seq(S)
  PROVE  Range(q) \subseteq S
BY DEF Range

\* Revoking leaves no ticket that counts.
LEMMA RevokedTickets ==
  ASSUME ViewersInv
  PROVE  /\ Revoked(ticket) \in [Generations -> [status : {"NONE", "ACTIVE", "CONSUMED", "REVOKED"},
                                                 life : 0..TicketLife]]
         /\ \A g \in Generations : Revoked(ticket)[g].status # "ACTIVE"
BY DEF Revoked, ViewersInv, ViewersTypeOK

\* A new request takes the ticket of every other one away.
LEMMA TicketsStep ==
  ASSUME ViewersInv, ViewerAssumption, Step
  PROVE  OnlyNewestTicketCounts'
<1>1. CASE Authorize
  <2> DEFINE g == session.viewerGeneration + 1
  <2>1. /\ session'.viewerGeneration = g /\ g \in Generations /\ UNCHANGED <<worker, round>>
        /\ ticket' = [Revoked(ticket) EXCEPT ![g] = [status |-> "ACTIVE", life |-> TicketLife]]
    BY <1>1 DEF Authorize, ViewersInv, ViewersTypeOK, ViewerAssumption, Generations, workerVars, channelVars
  <2>2. \A h \in Generations : ticket'[h].status = "ACTIVE" => h = g
    BY <2>1, RevokedTickets
  <2> QED BY <2>1, <2>2 DEF OnlyNewestTicketCounts, ViewersInv, ViewersTypeOK, RequestsAgree,
          ViewerAssumption
<1>2. CASE Reconcile
  <2>1. PICK status \in RowAfter, close \in BOOLEAN :
          /\ session' = [session EXCEPT !.status = status]
          /\ round' = [round EXCEPT !.stage = "RECONCILED", !.close = close]
          /\ ticket' \in {ticket, Revoked(ticket)} /\ UNCHANGED worker
    BY <1>2, ReconcileChanges DEF workerVars
  <2>2. /\ session'.viewerGeneration = session.viewerGeneration
        /\ round'.viewerGeneration = round.viewerGeneration
    BY <2>1 DEF ViewersInv, ViewersTypeOK
  <2> QED BY <2>1, <2>2, RevokedTickets DEF OnlyNewestTicketCounts, ViewersInv, RequestsAgree
<1>3. CASE \E allowed \in BOOLEAN : QueueClose(allowed)
  <2>1. /\ session'.viewerGeneration = session.viewerGeneration
        /\ ticket' = Revoked(ticket) /\ UNCHANGED <<worker, round>>
    BY <1>3 DEF QueueClose, ViewersInv, ViewersTypeOK, workerVars, channelVars
  <2> QED BY <2>1, RevokedTickets DEF OnlyNewestTicketCounts, ViewersInv, RequestsAgree
<1>4. CASE \E accepted \in BOOLEAN : FinishTicket(accepted)
  <2>1. PICK accepted \in BOOLEAN : FinishTicket(accepted)
    BY <1>4
  <2>2. Head(queue) <= session.viewerGeneration
    BY <2>1, QueueFacts DEF FinishTicket, ViewersInv, CoreAgrees, Requested
  <2>3. UNCHANGED <<session, ticket, round>>
    BY <2>1 DEF FinishTicket, backendVars, channelVars
  <2>4. worker'.viewerGeneration \in {worker.viewerGeneration, Head(queue)}
    BY <2>1 DEF FinishTicket, ViewersInv, ViewersTypeOK
  <2> QED BY <2>2, <2>3, <2>4 DEF OnlyNewestTicketCounts, ViewersInv, RequestsAgree
<1>5. CASE SendSnapshot
  <2>1. round'.viewerGeneration = worker.viewerGeneration /\ UNCHANGED <<session, ticket, worker>>
    BY <1>5 DEF SendSnapshot, backendVars, workerVars
  <2> QED BY <2>1 DEF OnlyNewestTicketCounts, ViewersInv, RequestsAgree
<1>6. CASE ApplyPlan
  <2>1. round'.viewerGeneration = 0 /\ UNCHANGED <<session, ticket>>
    BY <1>6 DEF ApplyPlan, Idle, backendVars
  <2>2. worker'.viewerGeneration = worker.viewerGeneration
    BY <1>6 DEF ApplyPlan, ViewersInv, ViewersTypeOK
  <2>3. 0 <= session.viewerGeneration
    BY DEF ViewersInv, ViewersTypeOK
  <2> QED BY <2>1, <2>2, <2>3 DEF OnlyNewestTicketCounts, ViewersInv, RequestsAgree
<1>7. CASE BackendRestart \/ WorkerRestart \/ Disconnect
  <2>1. /\ round'.viewerGeneration = 0 /\ UNCHANGED <<session, ticket>>
        /\ worker'.viewerGeneration = worker.viewerGeneration
    BY <1>7 DEF BackendRestart, WorkerRestart, Disconnect, Idle, backendVars, workerVars, ViewersInv,
       ViewersTypeOK
  <2>2. 0 <= session.viewerGeneration
    BY DEF ViewersInv, ViewersTypeOK
  <2> QED BY <2>1, <2>2 DEF OnlyNewestTicketCounts, ViewersInv, RequestsAgree
<1>8. CASE AcceptCloseResult
  BY <1>8 DEF AcceptCloseResult, OnlyNewestTicketCounts, RequestsAgree, ViewersInv, ViewersTypeOK,
         backendVars, workerVars, channelVars, gatewayVars
<1>9. CASE GrantLease
  <2>1. /\ session'.viewerGeneration = session.viewerGeneration
        /\ round'.viewerGeneration = round.viewerGeneration
        /\ UNCHANGED <<ticket, worker>>
    BY <1>9 DEF GrantLease, workerVars, ViewersInv, ViewersTypeOK
  <2> QED BY <2>1 DEF OnlyNewestTicketCounts, ViewersInv, RequestsAgree
<1>10. CASE (\E g \in Generations : FailConnect(g)) \/ (\E g \in Generations : ConsumeTicket(g))
  <2>1. UNCHANGED <<session, worker, round>>
    BY <1>10 DEF FailConnect, ConsumeTicket, workerVars, channelVars
  <2>2. \A g \in Generations : ticket'[g].status = "ACTIVE" => ticket[g].status = "ACTIVE"
    BY <1>10 DEF FailConnect, ConsumeTicket, ViewersInv, ViewersTypeOK
  <2> QED BY <2>1, <2>2 DEF OnlyNewestTicketCounts, ViewersInv, RequestsAgree
<1>11. CASE LeaseTimer \/ WorkerCloses \/ CleanUp
  BY <1>11 DEF LeaseTimer, WorkerCloses, CleanUp, OnlyNewestTicketCounts, RequestsAgree,
         ViewersInv, ViewersTypeOK, backendVars, workerVars, channelVars, gatewayVars
<1>12. CASE Tick
  BY <1>12 DEF Tick, OnlyNewestTicketCounts, RequestsAgree, ViewersInv, ViewersTypeOK, backendVars,
         workerVars, channelVars, gatewayVars
<1>13. CASE \/ (\E g \in Generations : SendPrepare(g)) \/ (\E g \in Generations : ReceiveResult(g))
            \/ (\E g \in Generations : ReturnLaunch(g))
  BY <1>13 DEF SendPrepare, ReceiveResult, ReturnLaunch, OnlyNewestTicketCounts, RequestsAgree,
         ViewersInv, ViewersTypeOK, backendVars, workerVars, channelVars, gatewayVars
<1>14. CASE \/ ReceiveCommand \/ StartTicket \/ Connected \/ AuthorizeCore
            \/ (\E g \in Generations : ViewerJoins(g)) \/ ViewerLeaves
  BY <1>14 DEF ReceiveCommand, StartTicket, Connected, AuthorizeCore, ViewerJoins, ViewerLeaves,
         OnlyNewestTicketCounts, RequestsAgree, ViewersInv, ViewersTypeOK, backendVars, workerVars,
         channelVars, gatewayVars
<1> QED BY <1>1, <1>2, <1>3, <1>4, <1>5, <1>6, <1>7, <1>8, <1>9, <1>10, <1>11, <1>12, <1>13, <1>14 DEF Step

\* Only requests that were authorized make progress.
LEMMA RequestsStep ==
  ASSUME ViewersInv, ViewerAssumption, Step
  PROVE  RequestsAgree'
<1>1. queue' \in Seq(Requested') /\ commands' \in Seq(Requested')
  BY QueuesStep, GenerationStep, SeqMonotonic
<1>2. ASSUME NEW g \in Generations, connect'[g] # "NONE" PROVE g <= session'.viewerGeneration
  <2>1. connect[g] # "NONE" \/ (Authorize /\ g = session.viewerGeneration + 1)
    <3>1. CASE Authorize
      BY <1>2, <3>1 DEF Authorize, ViewersInv, ViewersTypeOK
    <3>2. CASE ~ Authorize
      <4>1. CASE UNCHANGED connect
        BY <1>2, <4>1
      <4>2. CASE BackendRestart
        BY <1>2, <4>2 DEF BackendRestart, Unfinished, ViewersInv, ViewersTypeOK
      <4>3. CASE \E h \in Generations : SendPrepare(h) \/ ReceiveResult(h) \/ ReturnLaunch(h)
                                        \/ FailConnect(h)
        BY <1>2, <4>3 DEF SendPrepare, ReceiveResult, ReturnLaunch, FailConnect, Fails, ViewersInv,
           ViewersTypeOK
      <4>4. CASE ~ (UNCHANGED connect \/ BackendRestart
                    \/ \E h \in Generations : SendPrepare(h) \/ ReceiveResult(h) \/ ReturnLaunch(h)
                                              \/ FailConnect(h))
        <5>1. UNCHANGED connect
          BY <3>2, <4>4, ReconcileChanges DEF Step, QueueClose, AcceptCloseResult, GrantLease,
             SendSnapshot, ApplyPlan, ReceiveCommand, StartTicket, FinishTicket, LeaseTimer,
             WorkerCloses, CleanUp, WorkerRestart, Disconnect, Connected, ConsumeTicket, AuthorizeCore,
             ViewerJoins, ViewerLeaves, Tick, backendVars
        <5> QED BY <4>4, <5>1
      <4> QED BY <4>1, <4>2, <4>3, <4>4
    <3> QED BY <3>1, <3>2
  <2>2. CASE connect[g] # "NONE"
    <3>1. g <= session.viewerGeneration
      BY <2>2 DEF ViewersInv, RequestsAgree
    <3>2. session.viewerGeneration <= session'.viewerGeneration /\ session.viewerGeneration \in Int
      BY GenerationStep DEF ViewersInv, ViewersTypeOK
    <3>3. session'.viewerGeneration \in Int
      BY GenerationStep
    <3> QED BY <3>1, <3>2, <3>3 DEF Generations
  <2>3. CASE Authorize /\ g = session.viewerGeneration + 1
    BY <2>3 DEF Authorize, ViewersInv, ViewersTypeOK
  <2> QED BY <2>1, <2>2, <2>3
<1> QED BY <1>1, <1>2, TicketsStep DEF RequestsAgree

-----------------------------------------------------------------------------
(* Types.                                                                  *)

\* What the queues hold are generations, before and after a step.
LEMMA RangesStep ==
  ASSUME ViewersInv, ViewerAssumption, Step
  PROVE  Range(queue') \subseteq Generations /\ Range(commands') \subseteq Generations
<1>1. Requested \subseteq Generations
  BY DEF Requested, Generations, ViewersInv, ViewersTypeOK, ViewerAssumption
<1> QED BY <1>1, QueuesStep, RangeWithin

\* The types of the records, one by one.
LEMMA SessionType ==
  ASSUME ViewersInv, ViewerAssumption, Step
  PROVE  session' \in [status : SessionStates, viewerGeneration : 0..MaxGeneration,
                      lease : Ticks, closeQueued : BOOLEAN]
<1>1. CASE Reconcile
  <2>1. PICK status \in RowAfter : session' = [session EXCEPT !.status = status]
    BY <1>1, ReconcileChanges
  <2>2. status \in SessionStates
    BY RowAfterStates
  <2> QED BY <2>1, <2>2 DEF ViewersInv, ViewersTypeOK
<1>2. CASE Authorize
  BY <1>2 DEF Authorize, ViewersInv, ViewersTypeOK, ViewerAssumption, Usable, SessionStates
<1>3. CASE (\E allowed \in BOOLEAN : QueueClose(allowed)) \/ AcceptCloseResult
  BY <1>3 DEF QueueClose, AcceptCloseResult, ViewersInv, ViewersTypeOK, SessionStates
<1>4. CASE GrantLease
  <2>1. Renewed \in Ticks
    BY DEF Renewed, Ticks, Oldest, ViewersInv, ViewersTypeOK, ViewerAssumption
  <2> QED BY <1>4, <2>1 DEF GrantLease, ViewersInv, ViewersTypeOK
<1>5. CASE Tick
  <2>1. Older(session.lease) \in Ticks
    BY DEF Older, Ticks, Oldest, ViewersInv, ViewersTypeOK, ViewerAssumption
  <2> QED BY <1>5, <2>1 DEF Tick, ViewersInv, ViewersTypeOK
<1>6. CASE \/ (\E g \in Generations : SendPrepare(g)) \/ (\E g \in Generations : ReceiveResult(g))
           \/ (\E g \in Generations : ReturnLaunch(g)) \/ (\E g \in Generations : FailConnect(g))
           \/ BackendRestart \/ SendSnapshot \/ ApplyPlan \/ ReceiveCommand \/ StartTicket
           \/ (\E accepted \in BOOLEAN : FinishTicket(accepted)) \/ LeaseTimer \/ WorkerCloses
           \/ CleanUp \/ WorkerRestart \/ Disconnect \/ Connected
           \/ (\E g \in Generations : ConsumeTicket(g)) \/ AuthorizeCore
           \/ (\E g \in Generations : ViewerJoins(g)) \/ ViewerLeaves
  BY <1>6 DEF SendPrepare, ReceiveResult, ReturnLaunch, FailConnect, BackendRestart, SendSnapshot,
         ApplyPlan, ReceiveCommand, StartTicket, FinishTicket, LeaseTimer, WorkerCloses, CleanUp,
         WorkerRestart, Disconnect, Connected, ConsumeTicket, AuthorizeCore, ViewerJoins,
         ViewerLeaves, backendVars, ViewersInv, ViewersTypeOK
<1> QED BY <1>1, <1>2, <1>3, <1>4, <1>5, <1>6 DEF Step

LEMMA TicketType ==
  ASSUME ViewersInv, ViewerAssumption, Step
  PROVE  ticket' \in [Generations -> [status : {"NONE", "ACTIVE", "CONSUMED", "REVOKED"},
                                     life : 0..TicketLife]]
<1>1. CASE Authorize
  <2> DEFINE g == session.viewerGeneration + 1
  <2>1. g \in Generations /\ [status |-> "ACTIVE", life |-> TicketLife] \in
              [status : {"NONE", "ACTIVE", "CONSUMED", "REVOKED"}, life : 0..TicketLife]
    BY <1>1 DEF Authorize, ViewersInv, ViewersTypeOK, Generations, ViewerAssumption
  <2>2. ticket' = [Revoked(ticket) EXCEPT ![g] = [status |-> "ACTIVE", life |-> TicketLife]]
    BY <1>1 DEF Authorize
  <2> HIDE DEF g
  <2> QED BY <2>1, <2>2, RevokedTickets
<1>2. CASE Reconcile
  BY <1>2, ReconcileChanges, RevokedTickets DEF ViewersInv, ViewersTypeOK
<1>3. CASE \E allowed \in BOOLEAN : QueueClose(allowed)
  BY <1>3, RevokedTickets DEF QueueClose
<1>4. CASE \E g \in Generations : FailConnect(g)
  BY <1>4 DEF FailConnect, ViewersInv, ViewersTypeOK
<1>5. CASE \E g \in Generations : ConsumeTicket(g)
  BY <1>5 DEF ConsumeTicket, ViewersInv, ViewersTypeOK
<1>6. CASE Tick
  <2>1. \A life \in 0..TicketLife : (IF life > 0 THEN life - 1 ELSE 0) \in 0..TicketLife
    BY DEF ViewerAssumption
  <2>2. ticket' = [g \in Generations |->
                     [ticket[g] EXCEPT !.life = IF ticket[g].life > 0 THEN ticket[g].life - 1 ELSE 0]]
    BY <1>6 DEF Tick
  <2>3. ASSUME NEW g \in Generations
        PROVE  [ticket[g] EXCEPT !.life = IF ticket[g].life > 0 THEN ticket[g].life - 1 ELSE 0]
                 \in [status : {"NONE", "ACTIVE", "CONSUMED", "REVOKED"}, life : 0..TicketLife]
    BY <2>1 DEF ViewersInv, ViewersTypeOK
  <2> QED BY <2>2, <2>3
<1>7. CASE \/ (\E g \in Generations : SendPrepare(g)) \/ (\E g \in Generations : ReceiveResult(g))
           \/ (\E g \in Generations : ReturnLaunch(g)) \/ AcceptCloseResult \/ BackendRestart
           \/ GrantLease \/ SendSnapshot \/ ApplyPlan \/ ReceiveCommand \/ StartTicket
           \/ (\E accepted \in BOOLEAN : FinishTicket(accepted)) \/ LeaseTimer \/ WorkerCloses
           \/ CleanUp \/ WorkerRestart \/ Disconnect \/ Connected \/ AuthorizeCore
           \/ (\E g \in Generations : ViewerJoins(g)) \/ ViewerLeaves
  BY <1>7 DEF SendPrepare, ReceiveResult, ReturnLaunch, AcceptCloseResult, BackendRestart,
         GrantLease, SendSnapshot, ApplyPlan, ReceiveCommand, StartTicket, FinishTicket,
         LeaseTimer, WorkerCloses, CleanUp, WorkerRestart, Disconnect, Connected, AuthorizeCore,
         ViewerJoins, ViewerLeaves, backendVars, ViewersInv, ViewersTypeOK
<1> QED BY <1>1, <1>2, <1>3, <1>4, <1>5, <1>6, <1>7 DEF Step

LEMMA ConnectType ==
  ASSUME ViewersInv, ViewerAssumption, Step
  PROVE  connect' \in [Generations -> Calls]
<1>1. CASE Authorize
  BY <1>1 DEF Authorize, ViewersInv, ViewersTypeOK, Calls
<1>2. CASE (\E g \in Generations : SendPrepare(g)) \/ (\E g \in Generations : ReceiveResult(g))
  BY <1>2 DEF SendPrepare, ReceiveResult, ViewersInv, ViewersTypeOK, Calls
<1>3. CASE (\E g \in Generations : ReturnLaunch(g)) \/ (\E g \in Generations : FailConnect(g))
  BY <1>3 DEF ReturnLaunch, FailConnect, ViewersInv, ViewersTypeOK, Calls
<1>4. CASE BackendRestart
  BY <1>4 DEF BackendRestart, ViewersInv, ViewersTypeOK, Calls, Unfinished
<1>5. CASE Reconcile
  BY <1>5, ReconcileChanges DEF ViewersInv, ViewersTypeOK, workerVars, gatewayVars
<1>6. CASE \/ (\E allowed \in BOOLEAN : QueueClose(allowed)) \/ AcceptCloseResult \/ GrantLease
           \/ SendSnapshot \/ ApplyPlan \/ ReceiveCommand \/ StartTicket
           \/ (\E accepted \in BOOLEAN : FinishTicket(accepted)) \/ LeaseTimer \/ WorkerCloses
           \/ CleanUp \/ WorkerRestart \/ Disconnect \/ Connected
           \/ (\E g \in Generations : ConsumeTicket(g)) \/ AuthorizeCore
           \/ (\E g \in Generations : ViewerJoins(g)) \/ ViewerLeaves \/ Tick
  BY <1>6 DEF QueueClose, AcceptCloseResult, GrantLease, SendSnapshot, ApplyPlan, ReceiveCommand,
         StartTicket, FinishTicket, LeaseTimer, WorkerCloses, CleanUp, WorkerRestart, Disconnect,
         Connected, ConsumeTicket, AuthorizeCore, ViewerJoins, ViewerLeaves, Tick, backendVars,
         ViewersInv, ViewersTypeOK
<1> QED BY <1>1, <1>2, <1>3, <1>4, <1>5, <1>6 DEF Step

LEMMA OutcomeType ==
  ASSUME ViewersInv, ViewerAssumption, Step
  PROVE  outcome' \in [Generations -> {"NONE", "SUCCEEDED", "FAILED"}]
<1>1. CASE ReceiveCommand
  BY <1>1, CommandFacts DEF ReceiveCommand, ViewersInv, ViewersTypeOK
<1>2. CASE StartTicket
  BY <1>2, QueueFacts DEF StartTicket, ViewersInv, ViewersTypeOK, Answer
<1>3. CASE \E accepted \in BOOLEAN : FinishTicket(accepted)
  BY <1>3, QueueFacts DEF FinishTicket, ViewersInv, ViewersTypeOK, Answer
<1>4. CASE Reconcile
  BY <1>4, ReconcileChanges DEF ViewersInv, ViewersTypeOK, workerVars, gatewayVars
<1>5. CASE \/ Authorize \/ (\E g \in Generations : SendPrepare(g))
           \/ (\E g \in Generations : ReceiveResult(g))
           \/ (\E g \in Generations : ReturnLaunch(g)) \/ (\E g \in Generations : FailConnect(g))
           \/ (\E allowed \in BOOLEAN : QueueClose(allowed)) \/ AcceptCloseResult
           \/ BackendRestart \/ GrantLease \/ SendSnapshot \/ ApplyPlan \/ LeaseTimer
           \/ WorkerCloses \/ CleanUp \/ WorkerRestart \/ Disconnect \/ Connected
           \/ (\E g \in Generations : ConsumeTicket(g)) \/ AuthorizeCore
           \/ (\E g \in Generations : ViewerJoins(g)) \/ ViewerLeaves \/ Tick
  BY <1>5 DEF Authorize, SendPrepare, ReceiveResult, ReturnLaunch, FailConnect, QueueClose,
         AcceptCloseResult, BackendRestart, GrantLease, SendSnapshot, ApplyPlan, LeaseTimer,
         WorkerCloses, CleanUp, WorkerRestart, Disconnect, Connected, ConsumeTicket, AuthorizeCore,
         ViewerJoins, ViewerLeaves, Tick, workerVars, ViewersInv, ViewersTypeOK
<1> QED BY <1>1, <1>2, <1>3, <1>4, <1>5 DEF Step

LEMMA WorkerType ==
  ASSUME ViewersInv, ViewerAssumption, Step
  PROVE  worker' \in [state : {"OPEN", "CLOSING", "ENDED", "GONE"}, core : 0..MaxGeneration,
                     viewerGeneration : 0..MaxGeneration, lease : Ticks]
<1>1. CASE LeaseTimer \/ WorkerCloses
  BY <1>1 DEF LeaseTimer, WorkerCloses, ViewersInv, ViewersTypeOK
<1>2. CASE CleanUp \/ WorkerRestart
  <2>1. CASE CleanUp
    BY <2>1 DEF CleanUp, ViewersInv, ViewersTypeOK
  <2>2. CASE WorkerRestart
    BY <2>2 DEF WorkerRestart, ViewersInv, ViewersTypeOK
  <2> QED BY <1>2, <2>1, <2>2
<1>3. CASE ApplyPlan
  BY <1>3 DEF ApplyPlan, ViewersInv, ViewersTypeOK
<1>4. CASE \E accepted \in BOOLEAN : FinishTicket(accepted)
  <2>1. Head(queue) \in 0..MaxGeneration
    BY <1>4, QueueFacts DEF FinishTicket, ViewersInv, CoreAgrees, Generations
  <2>2. PICK accepted \in BOOLEAN : FinishTicket(accepted)
    BY <1>4
  <2> DEFINE core == IF accepted THEN Head(queue) ELSE worker.core
             shown == IF accepted /\ Live THEN Head(queue) ELSE worker.viewerGeneration
  <2>3. worker' = [worker EXCEPT !.core = core, !.viewerGeneration = shown]
    BY <2>2 DEF FinishTicket
  <2>4. core \in 0..MaxGeneration /\ shown \in 0..MaxGeneration
    BY <2>1 DEF ViewersInv, ViewersTypeOK
  <2> HIDE DEF core, shown
  <2> QED BY <2>3, <2>4 DEF ViewersInv, ViewersTypeOK
<1>5. CASE Tick
  <2>1. Older(worker.lease) \in Ticks
    BY DEF Older, Ticks, Oldest, ViewersInv, ViewersTypeOK, ViewerAssumption
  <2> QED BY <1>5, <2>1 DEF Tick, ViewersInv, ViewersTypeOK
<1>6. CASE Reconcile
  BY <1>6, ReconcileChanges DEF ViewersInv, ViewersTypeOK, workerVars, gatewayVars
<1>7. CASE \/ Authorize \/ (\E g \in Generations : SendPrepare(g))
           \/ (\E g \in Generations : ReceiveResult(g))
           \/ (\E g \in Generations : ReturnLaunch(g)) \/ (\E g \in Generations : FailConnect(g))
           \/ (\E allowed \in BOOLEAN : QueueClose(allowed)) \/ AcceptCloseResult
           \/ BackendRestart \/ GrantLease \/ SendSnapshot \/ ReceiveCommand \/ StartTicket
           \/ Disconnect \/ Connected \/ (\E g \in Generations : ConsumeTicket(g))
           \/ AuthorizeCore \/ (\E g \in Generations : ViewerJoins(g)) \/ ViewerLeaves
  BY <1>7 DEF Authorize, SendPrepare, ReceiveResult, ReturnLaunch, FailConnect, QueueClose,
         AcceptCloseResult, BackendRestart, GrantLease, SendSnapshot, ReceiveCommand, StartTicket,
         Disconnect, Connected, ConsumeTicket, AuthorizeCore, ViewerJoins, ViewerLeaves,
         workerVars, ViewersInv, ViewersTypeOK
<1> QED BY <1>1, <1>2, <1>3, <1>4, <1>5, <1>6, <1>7 DEF Step

LEMMA RoundType ==
  ASSUME ViewersInv, ViewerAssumption, Step
  PROVE  round' \in [stage : {"IDLE", "SENT", "RECONCILED", "ACCEPTED"},
                    state : {"OPEN", "CLOSING", "ENDED", "GONE"},
                    viewerGeneration : 0..MaxGeneration, lease : Ticks, close : BOOLEAN]
<1>0. Idle \in [stage : {"IDLE", "SENT", "RECONCILED", "ACCEPTED"},
                  state : {"OPEN", "CLOSING", "ENDED", "GONE"},
                  viewerGeneration : 0..MaxGeneration, lease : Ticks, close : BOOLEAN]
  BY DEF Idle, Ticks, Oldest, ViewerAssumption
<1>1. CASE ApplyPlan
  BY <1>1, <1>0 DEF ApplyPlan
<1>2. CASE BackendRestart
  BY <1>2, <1>0 DEF BackendRestart
<1>3. CASE WorkerRestart
  BY <1>3, <1>0 DEF WorkerRestart
<1>4. CASE Disconnect
  BY <1>4, <1>0 DEF Disconnect
<1>5. CASE SendSnapshot
  BY <1>5 DEF SendSnapshot, ViewersInv, ViewersTypeOK
<1>6. CASE Reconcile
  <2>1. PICK close \in BOOLEAN : round' = [round EXCEPT !.stage = "RECONCILED", !.close = close]
    BY <1>6, ReconcileChanges
  <2> QED BY <2>1 DEF ViewersInv, ViewersTypeOK
<1>7. CASE GrantLease
  <2>1. Renewed \in Ticks /\ 0 \in Ticks
    BY DEF Renewed, Ticks, Oldest, ViewersInv, ViewersTypeOK, ViewerAssumption
  <2>2. PICK time \in Ticks : round' = [round EXCEPT !.stage = "ACCEPTED", !.lease = time]
    BY <1>7, <2>1 DEF GrantLease
  <2> QED BY <2>2 DEF ViewersInv, ViewersTypeOK
<1>8. CASE Tick
  <2>1. Older(round.lease) \in Ticks
    BY DEF Older, Ticks, Oldest, ViewersInv, ViewersTypeOK, ViewerAssumption
  <2> QED BY <1>8, <2>1 DEF Tick, ViewersInv, ViewersTypeOK
<1>9. CASE \/ Authorize \/ (\E g \in Generations : SendPrepare(g))
           \/ (\E g \in Generations : ReceiveResult(g))
           \/ (\E g \in Generations : ReturnLaunch(g)) \/ (\E g \in Generations : FailConnect(g))
           \/ (\E allowed \in BOOLEAN : QueueClose(allowed)) \/ AcceptCloseResult
           \/ ReceiveCommand \/ StartTicket \/ (\E accepted \in BOOLEAN : FinishTicket(accepted))
           \/ LeaseTimer \/ WorkerCloses \/ CleanUp \/ Connected
           \/ (\E g \in Generations : ConsumeTicket(g)) \/ AuthorizeCore
           \/ (\E g \in Generations : ViewerJoins(g)) \/ ViewerLeaves
  BY <1>9 DEF Authorize, SendPrepare, ReceiveResult, ReturnLaunch, FailConnect, QueueClose,
         AcceptCloseResult, ReceiveCommand, StartTicket, FinishTicket, LeaseTimer, WorkerCloses,
         CleanUp, Connected, ConsumeTicket, AuthorizeCore, ViewerJoins, ViewerLeaves, channelVars,
         ViewersInv, ViewersTypeOK
<1> QED BY <1>1, <1>2, <1>3, <1>4, <1>5, <1>6, <1>7, <1>8, <1>9 DEF Step

LEMMA FlagsType ==
  ASSUME ViewersInv, ViewerAssumption, Step
  PROVE  /\ authorized' \in BOOLEAN /\ issuing' \in BOOLEAN /\ reported' \in BOOLEAN
         /\ disturbed' \in BOOLEAN /\ held' \in 0..RenewBefore
         /\ link' \in {"DOWN", "UP", "READY"}
<1>1. CASE Reconcile
  BY <1>1, ReconcileChanges DEF ViewersInv, ViewersTypeOK, workerVars, paceVars
<1>2. CASE (\E allowed \in BOOLEAN : QueueClose(allowed)) \/ ApplyPlan
  BY <1>2 DEF QueueClose, ApplyPlan, ViewersInv, ViewersTypeOK, workerVars, channelVars, paceVars,
         backendVars
<1>3. CASE StartTicket \/ (\E accepted \in BOOLEAN : FinishTicket(accepted))
  BY <1>3 DEF StartTicket, FinishTicket, ViewersInv, ViewersTypeOK, workerVars, channelVars, paceVars,
         backendVars, Answer
<1>4. CASE BackendRestart \/ WorkerRestart \/ Disconnect
  BY <1>4 DEF BackendRestart, WorkerRestart, Disconnect, ViewersInv, ViewersTypeOK, workerVars,
         channelVars, paceVars, backendVars
<1>5. CASE Connected
  BY <1>5 DEF Connected, ViewersInv, ViewersTypeOK, workerVars, channelVars, paceVars, backendVars
<1>6. CASE Tick
  <2>1. held' = IF ~disturbed THEN 0 ELSE IF held < RenewBefore THEN held + 1 ELSE held
    BY <1>6 DEF Tick
  <2>2. disturbed' \in BOOLEAN /\ held' \in 0..RenewBefore
    BY <1>6, <2>1 DEF Tick, ViewersInv, ViewersTypeOK, ViewerAssumption
  <2> QED BY <1>6, <2>2 DEF Tick, ViewersInv, ViewersTypeOK, workerVars, backendVars
<1>7. CASE \/ Authorize \/ (\E g \in Generations : SendPrepare(g))
           \/ (\E g \in Generations : ReceiveResult(g))
           \/ (\E g \in Generations : ReturnLaunch(g)) \/ (\E g \in Generations : FailConnect(g))
           \/ AcceptCloseResult \/ GrantLease \/ SendSnapshot \/ ReceiveCommand \/ LeaseTimer
           \/ WorkerCloses \/ CleanUp \/ (\E g \in Generations : ConsumeTicket(g))
           \/ AuthorizeCore \/ (\E g \in Generations : ViewerJoins(g)) \/ ViewerLeaves
  BY <1>7 DEF Authorize, SendPrepare, ReceiveResult, ReturnLaunch, FailConnect, AcceptCloseResult,
         GrantLease, SendSnapshot, ReceiveCommand, LeaseTimer, WorkerCloses, CleanUp,
         ConsumeTicket, AuthorizeCore, ViewerJoins, ViewerLeaves, ViewersInv, ViewersTypeOK,
         backendVars, workerVars, channelVars, paceVars, gatewayVars
<1> QED BY <1>1, <1>2, <1>3, <1>4, <1>5, <1>6, <1>7 DEF Step

LEMMA PairsType ==
  ASSUME ViewersInv, ViewerAssumption, Step
  PROVE  /\ bound' \in 0..MaxGeneration /\ pairing' \in 0..MaxGeneration
         /\ claims' \subseteq Generations
<1>1. CASE Reconcile
  BY <1>1, ReconcileChanges DEF ViewersInv, ViewersTypeOK, gatewayVars
<1>2. CASE AuthorizeCore
  BY <1>2 DEF AuthorizeCore, ViewersInv, ViewersTypeOK, Generations, ViewerAssumption
<1>3. CASE ViewerLeaves
  BY <1>3 DEF ViewerLeaves, ViewersInv, ViewersTypeOK, ViewerAssumption
<1>4. CASE \E g \in Generations : ViewerJoins(g)
  BY <1>4 DEF ViewerJoins, ViewersInv, ViewersTypeOK, Generations, gatewayVars
<1>5. CASE \E g \in Generations : ConsumeTicket(g)
  BY <1>5 DEF ConsumeTicket, ViewersInv, ViewersTypeOK, gatewayVars
<1>6. CASE \E accepted \in BOOLEAN : FinishTicket(accepted)
  BY <1>6 DEF FinishTicket, ViewersInv, ViewersTypeOK, ViewerAssumption, gatewayVars
<1>7. CASE WorkerRestart \/ CleanUp
  BY <1>7 DEF WorkerRestart, CleanUp, ViewersInv, ViewersTypeOK, ViewerAssumption
<1>8. CASE \/ Authorize \/ (\E g \in Generations : SendPrepare(g))
           \/ (\E g \in Generations : ReceiveResult(g))
           \/ (\E g \in Generations : ReturnLaunch(g)) \/ (\E g \in Generations : FailConnect(g))
           \/ (\E allowed \in BOOLEAN : QueueClose(allowed)) \/ AcceptCloseResult
           \/ BackendRestart \/ GrantLease \/ SendSnapshot \/ ApplyPlan \/ ReceiveCommand
           \/ StartTicket \/ LeaseTimer \/ WorkerCloses \/ Disconnect \/ Connected \/ Tick
  BY <1>8 DEF Authorize, SendPrepare, ReceiveResult, ReturnLaunch, FailConnect, QueueClose,
         AcceptCloseResult, BackendRestart, GrantLease, SendSnapshot, ApplyPlan, ReceiveCommand,
         StartTicket, LeaseTimer, WorkerCloses, Disconnect, Connected, Tick, ViewersInv,
         ViewersTypeOK, backendVars, workerVars, channelVars, gatewayVars
<1> QED BY <1>1, <1>2, <1>3, <1>4, <1>5, <1>6, <1>7, <1>8 DEF Step

\* Every step keeps the types.
LEMMA TypeStep ==
  ASSUME ViewersInv, ViewerAssumption, Next
  PROVE  ViewersTypeOK'
<1>1. Step /\ punctual' \in BOOLEAN
  BY DEF Next, ViewersInv, ViewersTypeOK
<1> QED BY <1>1, RangesStep, SessionType, TicketType, ConnectType, OutcomeType, WorkerType, RoundType,
          FlagsType, PairsType DEF ViewersTypeOK

-----------------------------------------------------------------------------
(* What follows.                                                           *)

\* A Session that has just been created has no requests.
LEMMA InitInv ==
  ASSUME ViewerAssumption, Init
  PROVE  ViewersInv
<1>1. ViewersTypeOK
  <2>1. Range(<<>>) \subseteq Generations
    BY EmptySeq, RangeWithin
  <2>2. /\ session \in [status : SessionStates, viewerGeneration : 0..MaxGeneration,
                        lease : Ticks, closeQueued : BOOLEAN]
        /\ worker \in [state : {"OPEN", "CLOSING", "ENDED", "GONE"}, core : 0..MaxGeneration,
                       viewerGeneration : 0..MaxGeneration, lease : Ticks]
        /\ round \in [stage : {"IDLE", "SENT", "RECONCILED", "ACCEPTED"},
                      state : {"OPEN", "CLOSING", "ENDED", "GONE"},
                      viewerGeneration : 0..MaxGeneration, lease : Ticks, close : BOOLEAN]
    BY DEF Init, Idle, SessionStates, Ticks, Oldest, ViewerAssumption
  <2>3. /\ ticket \in [Generations -> [status : {"NONE", "ACTIVE", "CONSUMED", "REVOKED"},
                                       life : 0..TicketLife]]
        /\ connect \in [Generations -> Calls]
        /\ outcome \in [Generations -> {"NONE", "SUCCEEDED", "FAILED"}]
    BY DEF Init, Calls, ViewerAssumption
  <2>4. bound \in 0..MaxGeneration /\ pairing \in 0..MaxGeneration
    BY DEF Init, ViewerAssumption
  <2>5. /\ reported = FALSE /\ disturbed = FALSE /\ issuing = FALSE /\ authorized = TRUE
        /\ held \in 0..RenewBefore /\ link \in {"DOWN", "UP", "READY"}
    BY DEF Init, ViewerAssumption
  <2>6. punctual \in BOOLEAN
    BY DEF Init, ViewerAssumption
  <2>7. claims \subseteq Generations /\ commands = <<>> /\ queue = <<>>
    BY DEF Init
  <2> QED BY <2>1, <2>2, <2>3, <2>4, <2>5, <2>6, <2>7 DEF ViewersTypeOK
<1>2. RequestsAgree
  BY EmptySeq DEF Init, RequestsAgree, OnlyNewestTicketCounts, Idle
<1>3. CoreAgrees /\ EndAgrees /\ LeaseIsCommitted
  BY DEF Init, CoreAgrees, Live, EndAgrees, Over, LeaseIsCommitted, Idle, ViewerAssumption
<1> QED BY <1>1, <1>2, <1>3 DEF ViewersInv

\* The invariant holds: connect(), the snapshots, the ticket queue and the Gateway agree about the
\* Session in whatever order they run (session-viewers.ts, session-leases.ts, tab-sessions.ts).
THEOREM ViewersInvTheorem == Spec => []ViewersInv
<1>1. Init => ViewersInv
  BY InitInv, ViewerAssumption
<1>2. ViewersInv /\ [Next]_vars => ViewersInv'
  <2> SUFFICES ASSUME ViewersInv, [Next]_vars PROVE ViewersInv'
    OBVIOUS
  <2>1. CASE Next
    <3>1. Step
      BY <2>1 DEF Next
    <3> QED BY <2>1, <3>1, ViewerAssumption, TypeStep, RequestsStep, CoreStep, EndStep, LeaseStep
            DEF ViewersInv
  <2>2. CASE UNCHANGED vars
    BY <2>2 DEF vars, backendVars, workerVars, channelVars, paceVars, gatewayVars, ViewersInv,
       ViewersTypeOK, RequestsAgree, Requested, OnlyNewestTicketCounts, CoreAgrees, Live, EndAgrees,
       LeaseIsCommitted
  <2> QED BY <2>1, <2>2
<1> QED BY <1>1, <1>2, PTL DEF Spec

\* Rows, entries and messages of one Session have their types in every state (session-viewers.ts,
\* session-leases.ts, tab-sessions.ts).
THEOREM ViewersTypeTheorem == Spec => []ViewersTypeOK
<1>1. ViewersInv => ViewersTypeOK
  BY DEF ViewersInv
<1> QED BY <1>1, ViewersInvTheorem, PTL

\* Only the ticket of the newest request can be redeemed, and the Worker is never ahead of the
\* Backend, for any number of requests in preparation (connect of session-viewers.ts).
THEOREM OnlyNewestTicketCountsTheorem == Spec => []OnlyNewestTicketCounts
<1>1. ViewersInv => OnlyNewestTicketCounts
  BY DEF ViewersInv, RequestsAgree
<1> QED BY <1>1, ViewersInvTheorem, PTL

\* Whoever gets a launch finds its predecessor disconnected, and no Viewer outlives the Session
\* (createViewerTicket of tab-sessions.ts, gateways.ts).
THEOREM StaleViewersAreGoneTheorem == Spec => []StaleViewersAreGone
<1>1. ViewersInv => StaleViewersAreGone
  <2> SUFFICES ASSUME ViewersInv PROVE StaleViewersAreGone
    OBVIOUS
  <2>1. ASSUME NEW g \in Generations, connect[g] = "RETURNED" PROVE pairing \notin 1..(g - 1)
    BY <2>1 DEF ViewersInv, CoreAgrees, ViewersTypeOK, Generations
  <2>2. session.status \in {"CLOSED", "FAILED"} => pairing = 0 /\ bound = 0
    BY DEF ViewersInv, EndAgrees
  <2> QED BY <2>1, <2>2 DEF StaleViewersAreGone
<1> QED BY <1>1, ViewersInvTheorem, PTL

\* The Worker never has more time than is committed, however long grants and snapshots travel
\* (grant of session-leases.ts, renewLease of tab-sessions.ts).
THEOREM LeaseIsCommittedTheorem == Spec => []LeaseIsCommitted
<1>1. ViewersInv => LeaseIsCommitted
  BY DEF ViewersInv
<1> QED BY <1>1, ViewersInvTheorem, PTL

\* An expired lease is neither granted nor taken.
LEMMA ExpiredStep ==
  ASSUME ViewersInv, ViewerAssumption, Step
  PROVE  /\ session.lease <= 0 => session'.lease <= 0
         /\ worker.lease <= 0 => worker'.lease <= 0
<1>1. CASE Reconcile
  BY <1>1, ReconcileChanges DEF ViewersInv, ViewersTypeOK, workerVars
<1>2. CASE Tick
  <2>1. session'.lease = Older(session.lease) /\ worker'.lease = Older(worker.lease)
    BY <1>2 DEF Tick, ViewersInv, ViewersTypeOK
  <2> QED BY <2>1 DEF Older, Oldest, Ticks, ViewersInv, ViewersTypeOK, ViewerAssumption
<1>3. CASE GrantLease
  <2>1. session.lease <= 0 => session' = session
    BY <1>3 DEF GrantLease, MayRenew, Usable, ViewersInv, ViewersTypeOK, Ticks, Oldest, ViewerAssumption
  <2> QED BY <1>3, <2>1 DEF GrantLease, workerVars
<1>4. CASE ApplyPlan
  <2>1. worker.lease <= 0 => worker'.lease = worker.lease
    BY <1>4 DEF ApplyPlan, Live, ViewersInv, ViewersTypeOK, Ticks, Oldest, ViewerAssumption
  <2> QED BY <1>4, <2>1 DEF ApplyPlan, backendVars
<1>5. CASE Authorize \/ (\E allowed \in BOOLEAN : QueueClose(allowed)) \/ AcceptCloseResult
  BY <1>5 DEF Authorize, QueueClose, AcceptCloseResult, ViewersInv, ViewersTypeOK, backendVars,
         workerVars, channelVars, gatewayVars
<1>6. CASE \E accepted \in BOOLEAN : FinishTicket(accepted)
  BY <1>6 DEF FinishTicket, ViewersInv, ViewersTypeOK, backendVars, workerVars, channelVars,
         gatewayVars
<1>7. CASE LeaseTimer \/ WorkerCloses
  BY <1>7 DEF LeaseTimer, WorkerCloses, ViewersInv, ViewersTypeOK, backendVars, workerVars,
         channelVars, gatewayVars
<1>8. CASE CleanUp \/ WorkerRestart
  BY <1>8 DEF CleanUp, WorkerRestart, ViewersInv, ViewersTypeOK, backendVars, workerVars,
         channelVars, gatewayVars
<1>9. CASE \/ (\E g \in Generations : SendPrepare(g)) \/ (\E g \in Generations : ReceiveResult(g))
           \/ (\E g \in Generations : ReturnLaunch(g)) \/ (\E g \in Generations : FailConnect(g))
           \/ BackendRestart \/ SendSnapshot \/ ReceiveCommand \/ StartTicket \/ Disconnect
           \/ Connected \/ (\E g \in Generations : ConsumeTicket(g)) \/ AuthorizeCore
           \/ (\E g \in Generations : ViewerJoins(g)) \/ ViewerLeaves
  BY <1>9 DEF SendPrepare, ReceiveResult, ReturnLaunch, FailConnect, BackendRestart, SendSnapshot,
         ReceiveCommand, StartTicket, Disconnect, Connected, ConsumeTicket, AuthorizeCore,
         ViewerJoins, ViewerLeaves, ViewersInv, ViewersTypeOK, backendVars, workerVars,
         channelVars, gatewayVars
<1> QED BY <1>1, <1>2, <1>3, <1>4, <1>5, <1>6, <1>7, <1>8, <1>9 DEF Step

\* No late snapshot, grant or answer revives a lease (grant of session-leases.ts, renewLease of
\* tab-sessions.ts).
THEOREM ExpiredStaysExpiredTheorem == Spec => ExpiredStaysExpired
<1>1. ViewersInv /\ [Next]_vars
        => [/\ session.lease <= 0 => session'.lease <= 0
            /\ worker.lease <= 0 => worker'.lease <= 0]_vars
  BY ExpiredStep, ViewerAssumption DEF Next
<1> QED BY <1>1, ViewersInvTheorem, PTL DEF Spec, ExpiredStaysExpired

\* A launch is returned for the newest request only.
LEMMA LaunchStep ==
  ASSUME ViewersInv, ViewerAssumption, Step
  PROVE  /\ \A g \in Generations : connect[g] # "RETURNED" /\ connect'[g] = "RETURNED" =>
              \A h \in g + 1..MaxGeneration : connect[h] # "RETURNED"
         /\ \A g \in claims' \ claims : session.status = "OPEN" /\ authorized
<1>1. CASE \E g \in Generations : ReturnLaunch(g)
  <2>1. PICK g \in Generations : ReturnLaunch(g)
    BY <1>1
  <2>2. claims' = claims /\ g = session.viewerGeneration
    BY <2>1 DEF ReturnLaunch, IsCurrent, gatewayVars
  <2>3. \A k \in Generations : connect[k] # "RETURNED" /\ connect'[k] = "RETURNED" => k = g
    BY <2>1 DEF ReturnLaunch, ViewersInv, ViewersTypeOK
  <2>4. ASSUME NEW h \in g + 1..MaxGeneration PROVE connect[h] = "NONE"
    BY <2>2 DEF ViewersInv, RequestsAgree, Generations
  <2> QED BY <2>2, <2>3, <2>4
<1>2. CASE Reconcile
  BY <1>2, ReconcileChanges DEF gatewayVars
<1>3. CASE \E g \in Generations : ConsumeTicket(g)
  <2>1. UNCHANGED connect
    BY <1>3 DEF ConsumeTicket
  <2>2. claims' # claims => session.status = "OPEN" /\ authorized
    BY <1>3 DEF ConsumeTicket, Usable
  <2> QED BY <2>1, <2>2
<1>4. CASE \E g \in Generations : ViewerJoins(g)
  BY <1>4 DEF ViewerJoins, ViewersInv, ViewersTypeOK, backendVars, workerVars, channelVars,
         gatewayVars, gatewayVars
<1>5. CASE BackendRestart
  BY <1>5 DEF BackendRestart, ViewersInv, ViewersTypeOK, backendVars, workerVars, channelVars,
         gatewayVars, Unfinished
<1>6. CASE Authorize
  BY <1>6 DEF Authorize, ViewersInv, ViewersTypeOK, backendVars, workerVars, channelVars,
         gatewayVars
<1>7. CASE (\E g \in Generations : SendPrepare(g)) \/ (\E g \in Generations : ReceiveResult(g))
  <2>1. CASE \E g \in Generations : SendPrepare(g)
    BY <2>1 DEF SendPrepare, ViewersInv, ViewersTypeOK, backendVars, gatewayVars
  <2>2. CASE \E g \in Generations : ReceiveResult(g)
    BY <2>2 DEF ReceiveResult, ViewersInv, ViewersTypeOK, backendVars, gatewayVars
  <2> QED BY <1>7, <2>1, <2>2
<1>8. CASE \E g \in Generations : FailConnect(g)
  BY <1>8 DEF FailConnect, ViewersInv, ViewersTypeOK, backendVars, workerVars, channelVars,
         gatewayVars
<1>9. CASE \/ (\E allowed \in BOOLEAN : QueueClose(allowed)) \/ AcceptCloseResult \/ GrantLease
           \/ SendSnapshot \/ ApplyPlan \/ ReceiveCommand \/ StartTicket
           \/ (\E accepted \in BOOLEAN : FinishTicket(accepted)) \/ LeaseTimer \/ WorkerCloses
           \/ CleanUp \/ WorkerRestart \/ Disconnect \/ Connected \/ AuthorizeCore \/ ViewerLeaves
           \/ Tick
  BY <1>9 DEF QueueClose, AcceptCloseResult, GrantLease, SendSnapshot, ApplyPlan, ReceiveCommand,
         StartTicket, FinishTicket, LeaseTimer, WorkerCloses, CleanUp, WorkerRestart, Disconnect,
         Connected, AuthorizeCore, ViewerLeaves, Tick, ViewersInv, ViewersTypeOK, backendVars,
         workerVars, channelVars, gatewayVars
<1> QED BY <1>1, <1>2, <1>3, <1>4, <1>5, <1>6, <1>7, <1>8, <1>9 DEF Step

\* Launches come in the order of their requests, and none is redeemed for a closing Session or
\* without access (connect of session-viewers.ts, consumeTicket of gateways.ts).
THEOREM LaunchesAreCurrentTheorem == Spec => LaunchesAreCurrent
<1>1. ViewersInv /\ [Next]_vars
        => [/\ \A g \in Generations : connect[g] # "RETURNED" /\ connect'[g] = "RETURNED" =>
                 \A h \in g + 1..MaxGeneration : connect[h] # "RETURNED"
            /\ \A g \in claims' \ claims : session.status = "OPEN" /\ authorized]_vars
  BY LaunchStep, ViewerAssumption DEF Next
<1> QED BY <1>1, ViewersInvTheorem, PTL DEF Spec, LaunchesAreCurrent


-----------------------------------------------------------------------------
(* Renewals come in time.                                                  *)

\* The states of which RenewedInTime speaks.
Calm == punctual /\ worker.state = "OPEN" /\ session.status = "OPEN"

\* Access that is withdrawn closes the Session, and a newest request that is not answered was noted.
Noted ==
  /\ session.status = "OPEN" => authorized
  /\ punctual /\ NewestPending => disturbed

\* A round renews the lease unless the newest request was pending at some time since the last tick,
\* and the lease that is left lasts for as many ticks as that may go on.
LeaseLasts ==
  Calm /\ worker.lease > 0 =>
    /\ worker.lease + held >= RenewBefore
    /\ reported /\ ~disturbed => worker.lease > RenewBefore
    /\ round.stage # "IDLE" => round.state = "OPEN"
    /\ round.stage # "IDLE" /\ ~disturbed => round.viewerGeneration = session.viewerGeneration
    /\ round.stage \in {"SENT", "RECONCILED"} => round.lease = worker.lease
    /\ round.stage \in {"RECONCILED", "ACCEPTED"} /\ ~disturbed => ~round.close
    /\ round.stage = "ACCEPTED" /\ ~disturbed => RenewBefore < round.lease \/ RenewBefore < worker.lease

RenewalInv == ViewersInv /\ Noted /\ LeaseLasts /\ RenewedInTime

\* The numbers that the leases are compared with.
LEMMA LeaseNumbers ==
  ASSUME ViewersInv, ViewerAssumption
  PROVE  /\ worker.lease \in Int /\ session.lease \in Int /\ round.lease \in Int
         /\ held \in 0..RenewBefore
         /\ RenewBefore \in Int /\ LeaseLife \in Int /\ Grace \in Int
         /\ 0 < RenewBefore /\ RenewBefore < LeaseLife /\ 0 <= Grace
         /\ session.viewerGeneration \in 0..MaxGeneration /\ worker.viewerGeneration \in Int
BY DEF ViewersInv, ViewersTypeOK, Ticks, Oldest, ViewerAssumption

\* Without a pending request the Worker shows the generation of the row.
LEMMA GenerationsMeet ==
  ASSUME ViewersInv, ViewerAssumption, Live, ~NewestPending
  PROVE  worker.viewerGeneration = session.viewerGeneration
<1> DEFINE v == session.viewerGeneration
<1>1. v \in 0..MaxGeneration /\ worker.viewerGeneration \in 0..MaxGeneration
  BY DEF ViewersInv, ViewersTypeOK
<1>2. worker.viewerGeneration <= v /\ worker.core = worker.viewerGeneration
  BY DEF ViewersInv, RequestsAgree, OnlyNewestTicketCounts, CoreAgrees
<1>3. CASE v = 0
  BY <1>1, <1>2, <1>3
<1>4. CASE v > 0
  <2>1. v \in Generations /\ connect[v] = "RETURNED"
    BY <1>1, <1>4 DEF Generations, NewestPending, ViewerAssumption
  <2>2. v <= worker.core
    BY <2>1 DEF ViewersInv, CoreAgrees
  <2> QED BY <1>1, <1>2, <2>2
<1> QED BY <1>1, <1>3, <1>4

\* Only Authorize makes a new request, and only a launch ends the wait for the newest.
LEMMA NotedStep ==
  ASSUME RenewalInv, ViewerAssumption, Next
  PROVE  Noted'
<1>1. Step /\ punctual' = punctual
  BY DEF Next
<1> SUFFICES ASSUME Step, punctual' = punctual PROVE Noted'
  BY <1>1
<1> USE DEF RenewalInv
<1> DEFINE v == session.viewerGeneration
           calm == /\ session'.status = "OPEN" => session.status = "OPEN"
                   /\ session'.viewerGeneration = v
                   /\ UNCHANGED <<authorized, disturbed>>
           launched == \A g \in Generations : connect[g] = "RETURNED" => connect'[g] = "RETURNED"
<1>2. v \in 0..MaxGeneration /\ (v > 0 => v \in Generations)
  BY DEF ViewersInv, ViewersTypeOK, Generations, ViewerAssumption
<1>3. calm /\ launched => Noted'
  BY <1>2 DEF Noted, NewestPending
<1>4. CASE Authorize
  BY <1>4 DEF Authorize, Usable, Noted
<1>5. CASE BackendRestart
  BY <1>3, <1>5 DEF BackendRestart, paceVars, Unfinished, ViewersInv, ViewersTypeOK
<1>6. CASE Reconcile
  <2>1. PICK status \in RowAfter, close \in BOOLEAN :
          session' = [session EXCEPT !.status = status] /\ UNCHANGED <<authorized, connect, paceVars>>
    BY <1>6, ReconcileChanges
  <2>2. status = "OPEN" => session.status = "OPEN"
    BY DEF RowAfter, ViewersInv, ViewersTypeOK, SessionStates
  <2>3. session'.status = status /\ session'.viewerGeneration = v
    BY <2>1 DEF ViewersInv, ViewersTypeOK
  <2> QED BY <1>3, <2>1, <2>2, <2>3 DEF paceVars
<1>7. CASE \/ (\E g \in Generations : SendPrepare(g)) \/ (\E g \in Generations : ReceiveResult(g))
           \/ (\E g \in Generations : ReturnLaunch(g)) \/ (\E g \in Generations : FailConnect(g))
  <2>1. calm
    BY <1>7 DEF SendPrepare, ReceiveResult, ReturnLaunch, FailConnect, channelVars, paceVars
  <2>2. launched
    BY <1>7 DEF SendPrepare, ReceiveResult, ReturnLaunch, FailConnect, Fails, ViewersInv, ViewersTypeOK
  <2> QED BY <1>3, <2>1, <2>2
<1>8. CASE (\E allowed \in BOOLEAN : QueueClose(allowed)) \/ AcceptCloseResult
  <2>1. session'.status # "OPEN" /\ session'.viewerGeneration = v
    BY <1>8 DEF QueueClose, AcceptCloseResult, ViewersInv, ViewersTypeOK
  <2>2. UNCHANGED <<connect, disturbed>>
    BY <1>8 DEF QueueClose, AcceptCloseResult, channelVars, paceVars
  <2> QED BY <2>1, <2>2 DEF Noted, NewestPending
<1>9. CASE Tick
  <2>1. session'.status = session.status /\ session'.viewerGeneration = v
    BY <1>9 DEF Tick, ViewersInv, ViewersTypeOK
  <2>2. UNCHANGED <<authorized, connect>> /\ disturbed' = (punctual /\ NewestPending)
    BY <1>9 DEF Tick
  <2> QED BY <2>1, <2>2 DEF Noted, NewestPending
<1>10. CASE GrantLease
  <2>1. session'.status = session.status /\ session'.viewerGeneration = v
    BY <1>10 DEF GrantLease, ViewersInv, ViewersTypeOK
  <2> QED BY <1>3, <1>10, <2>1 DEF GrantLease, paceVars
<1>11. CASE \/ SendSnapshot \/ ApplyPlan \/ ReceiveCommand \/ StartTicket
            \/ (\E accepted \in BOOLEAN : FinishTicket(accepted)) \/ LeaseTimer \/ WorkerCloses
            \/ CleanUp \/ WorkerRestart \/ Disconnect \/ Connected
            \/ (\E g \in Generations : ConsumeTicket(g)) \/ AuthorizeCore
            \/ (\E g \in Generations : ViewerJoins(g)) \/ ViewerLeaves
  <2>1. UNCHANGED <<session, authorized, connect, disturbed>>
    BY <1>11 DEF SendSnapshot, ApplyPlan, ReceiveCommand, StartTicket, FinishTicket, LeaseTimer,
       WorkerCloses, CleanUp, WorkerRestart, Disconnect, Connected, ConsumeTicket, AuthorizeCore,
       ViewerJoins, ViewerLeaves, backendVars, channelVars, paceVars
  <2> QED BY <1>3, <2>1
<1> QED BY <1>4, <1>5, <1>6, <1>7, <1>8, <1>9, <1>10, <1>11 DEF Step

\* Ended Sessions and Tabs stay ended.
LEMMA CalmStep ==
  ASSUME RenewalInv, ViewerAssumption, Next, Calm'
  PROVE  Calm
<1>1. Step /\ punctual' = punctual
  BY DEF Next
<1> USE DEF RenewalInv
<1>2. session.status = "OPEN" /\ worker.state = "OPEN"
  <2>1. CASE Reconcile
    <3>1. PICK status \in RowAfter, close \in BOOLEAN :
            session' = [session EXCEPT !.status = status] /\ UNCHANGED workerVars
      BY <2>1, ReconcileChanges
    <3>2. status = "OPEN" => session.status = "OPEN"
      BY DEF RowAfter, ViewersInv, ViewersTypeOK, SessionStates
    <3> QED BY <3>1, <3>2 DEF Calm, ViewersInv, ViewersTypeOK, workerVars
  <2>2. CASE \/ (\E allowed \in BOOLEAN : QueueClose(allowed)) \/ AcceptCloseResult \/ GrantLease
             \/ Authorize \/ Tick
    BY <2>2 DEF QueueClose, AcceptCloseResult, GrantLease, Authorize, Tick, Calm, ViewersInv,
       ViewersTypeOK, workerVars
  <2>3. CASE \/ ApplyPlan \/ (\E accepted \in BOOLEAN : FinishTicket(accepted)) \/ LeaseTimer
             \/ WorkerCloses \/ CleanUp \/ WorkerRestart
    BY <2>3 DEF ApplyPlan, FinishTicket, LeaseTimer, WorkerCloses, CleanUp, WorkerRestart,
       Calm, ViewersInv, ViewersTypeOK, backendVars
  <2>4. CASE \/ (\E g \in Generations : SendPrepare(g)) \/ (\E g \in Generations : ReceiveResult(g))
             \/ (\E g \in Generations : ReturnLaunch(g)) \/ (\E g \in Generations : FailConnect(g))
             \/ BackendRestart \/ SendSnapshot \/ ReceiveCommand \/ StartTicket \/ Disconnect
             \/ Connected \/ (\E g \in Generations : ConsumeTicket(g)) \/ AuthorizeCore
             \/ (\E g \in Generations : ViewerJoins(g)) \/ ViewerLeaves
    <3>1. UNCHANGED <<session, worker>>
      BY <2>4 DEF SendPrepare, ReceiveResult, ReturnLaunch, FailConnect, BackendRestart,
         SendSnapshot, ReceiveCommand, StartTicket, Disconnect, Connected, ConsumeTicket,
         AuthorizeCore, ViewerJoins, ViewerLeaves, backendVars, workerVars
    <3> QED BY <3>1 DEF Calm
  <2> QED BY <1>1, <2>1, <2>2, <2>3, <2>4 DEF Step
<1> QED BY <1>1, <1>2 DEF Calm

\* A step that touches neither leases, generations, nor the round under way.
LEMMA LeaseKept ==
  ASSUME LeaseLasts, RenewedInTime, Calm' => Calm,
         worker'.lease = worker.lease, session'.viewerGeneration = session.viewerGeneration,
         UNCHANGED <<round, paceVars>>
  PROVE  LeaseLasts' /\ RenewedInTime'
BY DEF LeaseLasts, RenewedInTime, Calm, paceVars

\* A new request holds up the renewal until the next tick at least.
LEMMA AuthorizeLease ==
  ASSUME RenewalInv, ViewerAssumption, Next, Authorize
  PROVE  LeaseLasts' /\ RenewedInTime'
<1>1. Calm' => Calm
  BY CalmStep
<1>2. UNCHANGED <<worker, round, reported, held>> /\ (Calm => disturbed')
  BY DEF Authorize, workerVars, Calm
<1> QED BY <1>1, <1>2 DEF RenewalInv, LeaseLasts, RenewedInTime, Calm

\* A snapshot shows the lease and the generation of the moment.
LEMMA SnapshotLease ==
  ASSUME RenewalInv, ViewerAssumption, Next, SendSnapshot
  PROVE  LeaseLasts' /\ RenewedInTime'
<1>1. Calm' => Calm
  BY CalmStep
<1>2. /\ UNCHANGED <<session, worker, reported, disturbed, held>>
      /\ round'.stage = "SENT" /\ round'.state = worker.state
      /\ round'.viewerGeneration = worker.viewerGeneration /\ round'.lease = worker.lease
  BY DEF SendSnapshot, backendVars, workerVars, paceVars
<1>3. Calm /\ worker.lease > 0 /\ ~disturbed => worker.viewerGeneration = session.viewerGeneration
  BY GenerationsMeet DEF RenewalInv, Noted, Calm, Live
<1> QED BY <1>1, <1>2, <1>3 DEF RenewalInv, LeaseLasts, RenewedInTime, Calm

\* The Backend asks for the end of no Tab whose generation and lease are those of the row.
LEMMA ReconcileLease ==
  ASSUME RenewalInv, ViewerAssumption, Next, Reconcile
  PROVE  LeaseLasts' /\ RenewedInTime'
<1>1. Calm' => Calm
  BY CalmStep
<1>2. PICK status \in RowAfter :
        /\ session' = [session EXCEPT !.status = status]
        /\ round' = [round EXCEPT
                       !.stage = "RECONCILED",
                       !.close = \/ MustClose
                                 \/ /\ round.state = "CLOSING" /\ status = "OPEN"
                                    /\ round.viewerGeneration = session.viewerGeneration]
        /\ UNCHANGED <<worker, reported, disturbed, held>>
  BY DEF Reconcile, workerVars, paceVars
<1>3. session'.viewerGeneration = session.viewerGeneration
  BY <1>2 DEF RenewalInv, ViewersInv, ViewersTypeOK
<1>4. /\ round'.stage = "RECONCILED" /\ round'.state = round.state /\ round'.lease = round.lease
      /\ round'.viewerGeneration = round.viewerGeneration /\ round.stage = "SENT"
      /\ round'.close => MustClose \/ round.state = "CLOSING"
  BY <1>2 DEF Reconcile, RenewalInv, ViewersInv, ViewersTypeOK
<1>5. ASSUME Calm, worker.lease > 0, ~disturbed PROVE ~round'.close
  <2>1. /\ round.state = "OPEN" /\ round.lease = worker.lease
        /\ round.viewerGeneration = session.viewerGeneration
    BY <1>4, <1>5 DEF RenewalInv, LeaseLasts
  <2>2. ~LongExpired(session.lease) /\ ~LongExpired(round.lease)
    BY <1>5, <2>1, LeaseNumbers DEF LongExpired, RenewalInv, ViewersInv, LeaseIsCommitted, Calm
  <2>3. ~MustClose
    BY <1>5, <2>1, <2>2, LeaseNumbers DEF MustClose, Calm, RenewalInv
  <2> QED BY <1>4, <2>1, <2>3
<1> QED BY <1>1, <1>2, <1>3, <1>4, <1>5 DEF RenewalInv, LeaseLasts, RenewedInTime, Calm

\* Without a pending request the lease of the row is renewed, and sent if the Worker has less.
LEMMA GrantLeaseLasts ==
  ASSUME RenewalInv, ViewerAssumption, Next, GrantLease
  PROVE  LeaseLasts' /\ RenewedInTime'
<1>1. Calm' => Calm
  BY CalmStep
<1>2. /\ UNCHANGED <<worker, reported, disturbed, held>>
      /\ session'.viewerGeneration = session.viewerGeneration
  BY DEF GrantLease, workerVars, paceVars, RenewalInv, ViewersInv, ViewersTypeOK
<1>3. /\ round.stage = "RECONCILED" /\ round'.stage = "ACCEPTED"
      /\ round'.state = round.state /\ round'.viewerGeneration = round.viewerGeneration
      /\ round'.close = round.close
      /\ round'.lease = IF MayRenew /\ Renewed > round.lease THEN Renewed ELSE 0
  BY DEF GrantLease, RenewalInv, ViewersInv, ViewersTypeOK
<1>4. ASSUME Calm, worker.lease > 0, ~disturbed
      PROVE  RenewBefore < round'.lease \/ RenewBefore < worker.lease
  <2>1. /\ round.state = "OPEN" /\ round.lease = worker.lease /\ ~round.close
        /\ round.viewerGeneration = session.viewerGeneration
    BY <1>3, <1>4 DEF RenewalInv, LeaseLasts
  <2>2. worker.lease <= session.lease
    BY <1>4 DEF Calm, RenewalInv, ViewersInv, LeaseIsCommitted
  <2>3. Usable
    BY <1>4, <2>2, LeaseNumbers DEF Usable, Calm, RenewalInv, Noted
  <2>4. MayRenew
    BY <1>4, <2>1, <2>2, <2>3 DEF MayRenew
  <2>5. Renewed \in Int /\ RenewBefore < Renewed
    BY LeaseNumbers DEF Renewed, RenewalInv
  <2> QED BY <1>3, <2>1, <2>4, <2>5, LeaseNumbers DEF RenewalInv
<1> QED BY <1>1, <1>2, <1>3, <1>4 DEF RenewalInv, LeaseLasts, RenewedInTime, Calm

\* The answer renews the lease unless a request was pending.
LEMMA ApplyLease ==
  ASSUME RenewalInv, ViewerAssumption, Next, ApplyPlan
  PROVE  LeaseLasts' /\ RenewedInTime'
<1>1. Calm' => Calm
  BY CalmStep
<1>2. /\ UNCHANGED <<session, disturbed, held>> /\ round'.stage = "IDLE" /\ round.stage = "ACCEPTED"
  BY DEF ApplyPlan, backendVars, Idle
<1>3. worker'.lease \in Int /\ worker.lease <= worker'.lease
  BY LeaseNumbers DEF ApplyPlan, RenewalInv, ViewersInv, ViewersTypeOK
<1>4. worker.lease <= 0 => worker'.lease = worker.lease
  BY LeaseNumbers DEF ApplyPlan, Live, RenewalInv, ViewersInv, ViewersTypeOK
<1>5. ASSUME Calm, worker.lease > 0, ~disturbed PROVE RenewBefore < worker'.lease
  <2>1. ~round.close /\ (RenewBefore < round.lease \/ RenewBefore < worker.lease)
    BY <1>2, <1>5 DEF RenewalInv, LeaseLasts
  <2>2. worker'.lease = IF round.lease > worker.lease THEN round.lease ELSE worker.lease
    BY <1>5, <2>1, LeaseNumbers DEF ApplyPlan, Live, Calm, RenewalInv, ViewersInv, ViewersTypeOK
  <2> QED BY <2>1, <2>2, LeaseNumbers DEF RenewalInv
<1>6. Calm' /\ worker'.lease > 0 => worker'.lease + held >= RenewBefore
  <2> SUFFICES ASSUME Calm', worker'.lease > 0 PROVE worker'.lease + held >= RenewBefore
    OBVIOUS
  <2>1. worker.lease > 0
    BY <1>4, LeaseNumbers DEF RenewalInv
  <2>2. worker.lease + held >= RenewBefore
    BY <1>1, <2>1 DEF RenewalInv, LeaseLasts
  <2> QED BY <1>3, <2>2, LeaseNumbers DEF RenewalInv
<1>7. Calm' => worker'.lease > 0 \/ held >= RenewBefore
  BY <1>1, <1>3, LeaseNumbers DEF RenewalInv, RenewedInTime, Calm
<1>8. worker'.lease > 0 => worker.lease > 0
  BY <1>4, LeaseNumbers DEF RenewalInv
<1> QED BY <1>1, <1>2, <1>5, <1>6, <1>7, <1>8 DEF LeaseLasts, RenewedInTime, Calm

\* A tick takes one from a lease that was renewed, or counts for the request that held it up.
LEMMA TickLease ==
  ASSUME RenewalInv, ViewerAssumption, Next, Tick
  PROVE  LeaseLasts' /\ RenewedInTime'
<1> SUFFICES ASSUME Calm' PROVE LeaseLasts' /\ RenewedInTime'
  BY DEF LeaseLasts, RenewedInTime, Calm
<1>1. Calm
  BY CalmStep
<1>2. /\ round.stage = "IDLE" /\ round' = round /\ reported /\ ~reported' /\ worker.lease > 0
      /\ worker'.lease = Older(worker.lease)
      /\ held' = IF ~disturbed THEN 0 ELSE IF held < RenewBefore THEN held + 1 ELSE held
  BY <1>1 DEF Tick, TickMayCome, Calm, RenewalInv, ViewersInv, ViewersTypeOK
<1>3. worker'.lease = worker.lease - 1
  BY <1>2, LeaseNumbers DEF Older, Oldest, RenewalInv
<1>4. worker.lease + held >= RenewBefore /\ (~disturbed => worker.lease > RenewBefore)
  BY <1>1, <1>2 DEF RenewalInv, LeaseLasts
<1>5. worker'.lease + held' >= RenewBefore /\ (worker'.lease > 0 \/ held' >= RenewBefore)
  BY <1>2, <1>3, <1>4, LeaseNumbers DEF RenewalInv
<1> QED BY <1>2, <1>5 DEF LeaseLasts, RenewedInTime

\* Every step leaves enough of the lease.
LEMMA LeaseLastsStep ==
  ASSUME RenewalInv, ViewerAssumption, Next
  PROVE  LeaseLasts' /\ RenewedInTime'
<1>1. Step /\ punctual' = punctual
  BY DEF Next
<1>2. Calm' => Calm
  BY CalmStep
<1>3. CASE Authorize \/ Reconcile \/ GrantLease \/ SendSnapshot \/ ApplyPlan \/ Tick
  BY <1>3, AuthorizeLease, ReconcileLease, GrantLeaseLasts, SnapshotLease, ApplyLease, TickLease
<1>4. CASE BackendRestart \/ Disconnect \/ WorkerRestart
  <2>1. ~punctual
    BY <1>4 DEF BackendRestart, Disconnect, WorkerRestart
  <2> QED BY <1>2, <2>1 DEF LeaseLasts, RenewedInTime, Calm
<1>5. CASE LeaseTimer \/ WorkerCloses \/ CleanUp
  <2>1. worker'.state # "OPEN"
    BY <1>5 DEF LeaseTimer, WorkerCloses, CleanUp, RenewalInv, ViewersInv, ViewersTypeOK
  <2> QED BY <2>1 DEF LeaseLasts, RenewedInTime, Calm
<1>6. CASE (\E allowed \in BOOLEAN : QueueClose(allowed)) \/ AcceptCloseResult
  <2>1. session'.status # "OPEN"
    BY <1>6 DEF QueueClose, AcceptCloseResult, RenewalInv, ViewersInv, ViewersTypeOK
  <2> QED BY <2>1 DEF LeaseLasts, RenewedInTime, Calm
<1>7. CASE \/ (\E g \in Generations : SendPrepare(g)) \/ (\E g \in Generations : ReceiveResult(g))
           \/ (\E g \in Generations : ReturnLaunch(g)) \/ (\E g \in Generations : FailConnect(g))
           \/ ReceiveCommand \/ StartTicket \/ (\E accepted \in BOOLEAN : FinishTicket(accepted))
           \/ Connected \/ (\E g \in Generations : ConsumeTicket(g))
           \/ AuthorizeCore \/ (\E g \in Generations : ViewerJoins(g)) \/ ViewerLeaves
  <2>1. UNCHANGED <<session, round, paceVars>> /\ worker'.lease = worker.lease
    BY <1>7 DEF SendPrepare, ReceiveResult, ReturnLaunch, FailConnect, ReceiveCommand, StartTicket,
       FinishTicket, Connected, ConsumeTicket, AuthorizeCore, ViewerJoins, ViewerLeaves, backendVars,
       workerVars, channelVars, RenewalInv, ViewersInv, ViewersTypeOK
  <2> QED BY <1>2, <2>1, LeaseKept DEF RenewalInv
<1> QED BY <1>1, <1>3, <1>4, <1>5, <1>6, <1>7 DEF Step

\* For any number of requests and any lifetimes: with a connection that stays up, the lease of a Tab in
\* use runs out only when the newest request was pending, or had failed, without a break for
\* RENEW_BEFORE (grant of session-leases.ts skips a snapshot with another generation).
THEOREM RenewedInTimeTheorem == Spec => []RenewedInTime
<1>1. Init => RenewalInv
  <2> SUFFICES ASSUME Init PROVE RenewalInv
    OBVIOUS
  <2>1. ViewersInv
    BY InitInv, ViewerAssumption
  <2>2. Noted
    BY DEF Init, Noted, NewestPending
  <2>3. worker.lease = LeaseLife /\ round.stage = "IDLE" /\ ~reported /\ held = 0
    BY DEF Init, Idle
  <2>4. LeaseLasts /\ RenewedInTime
    BY <2>1, <2>3, LeaseNumbers, ViewerAssumption DEF LeaseLasts, RenewedInTime
  <2> QED BY <2>1, <2>2, <2>4 DEF RenewalInv
<1>2. RenewalInv /\ [Next]_vars => RenewalInv'
  <2> SUFFICES ASSUME RenewalInv, [Next]_vars PROVE RenewalInv'
    OBVIOUS
  <2>1. CASE Next
    <3>1. ViewersInv'
      BY <2>1, ViewerAssumption, TypeStep, RequestsStep, CoreStep, EndStep, LeaseStep
         DEF ViewersInv, RenewalInv, Next
    <3> QED BY <2>1, <3>1, ViewerAssumption, NotedStep, LeaseLastsStep DEF RenewalInv
  <2>2. CASE UNCHANGED vars
    <3>1. ViewersInv'
      BY <2>2 DEF vars, backendVars, workerVars, channelVars, paceVars, gatewayVars, RenewalInv,
         ViewersInv, ViewersTypeOK, RequestsAgree, Requested, OnlyNewestTicketCounts, CoreAgrees,
         Live, EndAgrees, LeaseIsCommitted
    <3>2. Noted' /\ LeaseLasts' /\ RenewedInTime'
      BY <2>2 DEF vars, backendVars, workerVars, channelVars, paceVars, RenewalInv, Noted,
         NewestPending, LeaseLasts, RenewedInTime, Calm
    <3> QED BY <3>1, <3>2 DEF RenewalInv
  <2> QED BY <2>1, <2>2
<1>3. RenewalInv => RenewedInTime
  BY DEF RenewalInv
<1> QED BY <1>1, <1>2, <1>3, PTL DEF Spec

=============================================================================
