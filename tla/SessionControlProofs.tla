------------------------- MODULE SessionControlProofs -------------------------
(***************************************************************************)
(* Proofs about SessionControl: the Backend and the Workers together only  *)
(* do what SessionReservations allows, so that its theorems hold of them,  *)
(* and failed maintenance is released last.                                *)
(***************************************************************************)
EXTENDS SessionControl, SessionReservationsProofs, SequenceTheorems

-----------------------------------------------------------------------------
(* What can be on the way.  A message stays true while it travels because  *)
(* what it says of the other side only becomes more true: these sets grow. *)

Over == {"ENDED", "GONE"}

\* Sessions for which a Worker has had a Tab, or knows that it will not.
TabsBegun == {s \in Sessions : tab[s] # "NONE"}

\* Sessions that have had their Tab, or will not get one.
Ended == {s \in Sessions : tab[s] \in Over}

\* Sessions without a Tab whose create command comes too late by now.
Settled == {s \in lapsed : tab[s] \notin Present}

CommandsTo(w, same) ==
  {CreateCommand(s) : s \in SessionsOn(w) \intersect same}
    \union {CloseCommand(s) : s \in SessionsOn(w)}
    \union {Plan(S) : S \in SUBSET SessionsOn(w)}

ResultsFrom(w, begun, ended) ==
  {m \in [type : {"CREATE", "CLOSE"}, session : SessionsOn(w), outcome : Results] :
     m.outcome = "SUCCEEDED" => m.session \in IF m.type = "CREATE" THEN begun ELSE ended}

SnapshotsFrom(w, same, late, settled, begun) ==
  {m \in [type : {"SNAPSHOT"}, tabs : [SessionsOn(w) -> TabStates], late : SUBSET late] :
     \A s \in SessionsOn(w) :
       /\ m.tabs[s] # "NONE" => s \in begun
       /\ m.tabs[s] = "ENDED" => s \in same
       /\ s \in m.late /\ m.tabs[s] \notin Present => s \in settled}

Commands == [w \in Workers |-> CommandsTo(w, sameInstance)]
Reports ==
  [w \in Workers |-> ResultsFrom(w, TabsBegun, Ended)
                     \union SnapshotsFrom(w, sameInstance, lapsed, Settled, TabsBegun)]

Carries(channel, messages) ==
  /\ channel = [w \in Workers |-> channel[w]]
  /\ \A w \in Workers : channel[w] \in Seq(messages[w])

LEMMA MoreMessages ==
  ASSUME NEW channel, NEW F, NEW G, Carries(channel, F), \A w \in Workers : F[w] \subseteq G[w]
  PROVE  Carries(channel, G)
BY SeqMonotonic DEF Carries

LEMMA SendKeeps ==
  ASSUME NEW channel, NEW F, Carries(channel, F), NEW w \in Workers, NEW messages \in Seq(F[w])
  PROVE  Carries(Sent(channel, w, messages), F)
<1>1. channel[w] \o messages \in Seq(F[w])
  BY ConcatProperties DEF Carries
<1> QED BY <1>1 DEF Carries, Sent

LEMMA NothingSent ==
  ASSUME NEW channel, NEW F, Carries(channel, F), NEW w \in Workers
  PROVE  Sent(channel, w, <<>>) = channel
<1>1. channel[w] \o <<>> = channel[w]
  BY ConcatEmptySeq DEF Carries
<1> QED BY <1>1 DEF Sent, Carries

LEMMA OneMessage == ASSUME NEW S, NEW m \in S PROVE <<m>> \in Seq(S)
OBVIOUS

LEMMA TakeKeeps ==
  ASSUME NEW channel, NEW F, Carries(channel, F), NEW w \in Workers, channel[w] # <<>>
  PROVE  Head(channel[w]) \in F[w] /\ Carries([channel EXCEPT ![w] = Tail(@)], F)
<1>1. Head(channel[w]) \in F[w] /\ Tail(channel[w]) \in Seq(F[w])
  BY HeadTailProperties DEF Carries
<1> QED BY <1>1 DEF Carries

LEMMA ClearKeeps ==
  ASSUME NEW channel, NEW F, NEW G, NEW W, Carries(channel, F),
         \A w \in Workers \ W : F[w] \subseteq G[w]
  PROVE  Carries([w \in Workers |-> IF w \in W THEN <<>> ELSE channel[w]], G)
<1>1. ASSUME NEW w \in Workers
      PROVE  (IF w \in W THEN <<>> ELSE channel[w]) \in Seq(G[w])
  <2>1. CASE w \in W
    BY <2>1, EmptySeq
  <2>2. CASE w \notin W
    BY <2>2, SeqMonotonic DEF Carries
  <2> QED BY <2>1, <2>2
<1> QED BY <1>1 DEF Carries

LEMMA CommandsGrow ==
  ASSUME NEW w, NEW same, NEW same2, same \intersect SessionsOn(w) \subseteq same2
  PROVE  CommandsTo(w, same) \subseteq CommandsTo(w, same2)
BY DEF CommandsTo

LEMMA ResultsGrow ==
  ASSUME NEW w, NEW begun, NEW begun2, begun \subseteq begun2,
         NEW ended, NEW ended2, ended \subseteq ended2
  PROVE  ResultsFrom(w, begun, ended) \subseteq ResultsFrom(w, begun2, ended2)
BY DEF ResultsFrom

LEMMA SnapshotsGrow ==
  ASSUME NEW w, NEW same, NEW same2, same \intersect SessionsOn(w) \subseteq same2,
         NEW late, NEW late2, late \subseteq late2,
         NEW settled, NEW settled2, settled \subseteq settled2,
         NEW begun, NEW begun2, begun \subseteq begun2
  PROVE  SnapshotsFrom(w, same, late, settled, begun)
           \subseteq SnapshotsFrom(w, same2, late2, settled2, begun2)
BY DEF SnapshotsFrom

-----------------------------------------------------------------------------
(* The inductive invariant.                                                *)

\* What a Worker has done for a Session, and that it was of the Worker process on record.
TabsAgree ==
  \A s \in Sessions :
    /\ tab[s] \in Present \union {"ENDED"} => s \in sameInstance
    /\ s \in sameInstance => bound[s] # 0
    /\ createAnswer[s] = "SUCCEEDED" => tab[s] # "NONE"
    /\ closeAnswer[s] = "SUCCEEDED" => tab[s] \in Over

\* What the Backend has taken for a Tab.
Promised ==
  /\ createResult \in [Sessions -> Results]
  /\ \A s \in Sessions : status[s] \in Live \/ createResult[s] = "SUCCEEDED" => tab[s] # "NONE"

ChannelsAgree == Carries(toWorker, Commands) /\ Carries(toBackend, Reports)

\* A failed Session that was released never had a create command, or is settled.
ReleasedFinally ==
  /\ ReleasedHasEnded
  /\ \A m \in released : status[m] = "FAILED" => bound[m] = 0 \/ m \in Settled

ControlInv ==
  /\ TypeOK
  /\ tab \in [Sessions -> TabStates]
  /\ createAnswer \in [Sessions -> Results]
  /\ closeAnswer \in [Sessions -> Results]
  /\ \A p \in attached : desired[p] = "RUNNING"
  /\ TabsAgree
  /\ Promised
  /\ ChannelsAgree
  /\ ReleasedFinally

LEMMA ControlInitInv == ControlInit => ControlInv
<1> SUFFICES ASSUME ControlInit PROVE ControlInv
  OBVIOUS
<1>1. TypeOK
  BY InitType, ConstantsAssumption DEF ControlInit
<1>2. ReleasedFinally
  BY DEF ControlInit, Init, ReleasedFinally, ReleasedHasEnded
<1>3. ChannelsAgree
  BY EmptySeq DEF ControlInit, ChannelsAgree, Carries
<1>4. TabsAgree
  BY DEF ControlInit, Init, TabsAgree, Present
<1>5. \A p \in attached : desired[p] = "RUNNING"
  BY DEF ControlInit, Init
<1>6. Promised
  BY DEF ControlInit, Init, Promised, Results, Live
<1> QED
  BY <1>1, <1>2, <1>3, <1>4, <1>5, <1>6 DEF ControlInit, ControlInv, TabStates, Results

-----------------------------------------------------------------------------
(* Every step is one of SessionReservations, or leaves its variables alone. *)

\* The answer to a snapshot, taken from the front of the channel.
LEMMA SnapshotAtHead ==
  ASSUME ControlInv, NEW w \in Workers, Received(w, "SNAPSHOT")
  PROVE  Head(toBackend[w]) \in SnapshotsFrom(w, sameInstance, lapsed, Settled, TabsBegun)
<1>1. Head(toBackend[w]) \in Reports[w] /\ Head(toBackend[w]).type = "SNAPSHOT"
  BY TakeKeeps DEF ControlInv, ChannelsAgree, Received
<1> QED BY <1>1 DEF Reports, ResultsFrom

LEMMA FactIsPossible ==
  ASSUME ControlInv, ConstantsAssumption, NEW w \in Workers,
         NEW message \in SnapshotsFrom(w, sameInstance, lapsed, Settled, TabsBegun),
         NEW s \in Reportable(w), NEW final \in {"BROKEN", "CLOSED"}
  PROVE  LET f == FactOf(s, message.tabs[s], final) IN
         /\ f \in SessionFacts
         /\ FactPossible(s, f, RuntimeSeen(ProfileOf[s], RuntimeAt(ProfileOf[s])))
<1>1. s \in SessionsOn(w) /\ message.tabs[s] \in TabStates
      /\ (message.tabs[s] = "ENDED" => s \in sameInstance)
  BY DEF Reportable, SnapshotsFrom
<1>2. CASE message.tabs[s] \in Present
  BY <1>1, <1>2 DEF FactOf, StatusPublished, Present, SessionFacts, WorkerStates, Live, FactPossible
<1>3. CASE message.tabs[s] \notin Present
  BY <1>1, <1>3 DEF FactOf, Present, SessionFacts, WorkerStates, Live, FactPossible
<1> QED BY <1>2, <1>3

LEMMA OnlyLateMatters ==
  ASSUME NEW w, NEW seen, NEW fact, NEW late, NEW late2, Reconcile(w, seen, fact, late),
         \A m \in DOMAIN fact : Unreleased(m) => (m \in late <=> m \in late2)
  PROVE  Reconcile(w, seen, fact, late2)
<1>1. ASSUME NEW stored
      PROVE  ReleasedBy(stored, fact, late) = ReleasedBy(stored, fact, late2)
  BY DEF ReleasedBy
<1> DEFINE stored == [s \in Sessions |-> IF s \in DOMAIN fact THEN StatusSeen(s, fact[s]) ELSE status[s]]
           freed == ReleasedBy(stored, fact, late)
<1>2. freed = ReleasedBy(stored, fact, late2)
  BY <1>1
<1> HIDE DEF freed
<1> QED BY <1>2 DEF Reconcile, freed

LEMMA SnapshotRefines ==
  ASSUME ControlInv, ConstantsAssumption, NEW w \in Workers, ReceiveSnapshot(w)
  PROVE  Snapshot(w)
<1> DEFINE message == Head(toBackend[w])
           seen == [p \in ProfilesOn(w) |-> RuntimeAt(p)]
           facts(broken) ==
             [s \in Reportable(w) |->
                FactOf(s, message.tabs[s], IF s \in broken THEN "BROKEN" ELSE "CLOSED")]
<1>1. message \in SnapshotsFrom(w, sameInstance, lapsed, Settled, TabsBegun)
  BY SnapshotAtHead DEF ReceiveSnapshot
<1>2. PICK broken : Reconcile(w, seen, facts(broken), message.late)
  BY DEF ReceiveSnapshot
<1> DEFINE fact == facts(broken)
           late == {m \in lapsed \intersect Reportable(w) : Unreleased(m)} \intersect message.late
<1>3. seen \in [ProfilesOn(w) -> RuntimeFacts \union {"NONE", "OTHER", "KEPT"}]
      /\ \A p \in ProfilesOn(w) : seen[p] \in ProfileFacts(p)
  BY DEF RuntimeAt, ProfileFacts, ControlInv
<1>4. \A s \in Reportable(w) :
        /\ fact[s] \in SessionFacts
        /\ FactPossible(s, fact[s], RuntimeSeen(ProfileOf[s], seen[ProfileOf[s]]))
  <2> SUFFICES ASSUME NEW s \in Reportable(w)
               PROVE  /\ fact[s] \in SessionFacts
                      /\ FactPossible(s, fact[s], RuntimeSeen(ProfileOf[s], seen[ProfileOf[s]]))
    OBVIOUS
  <2>1. ProfileOf[s] \in ProfilesOn(w)
    BY ConstantsAssumption DEF ConstantsAssumption, ProfilesOn, Reportable, SessionsOn
  <2> QED BY <1>1, <2>1, FactIsPossible
<1>5. DOMAIN fact = Reportable(w) /\ fact \in [Reportable(w) -> SessionFacts]
  BY <1>4
<1>6. \A m \in DOMAIN fact : Unreleased(m) => (m \in message.late <=> m \in late)
  BY <1>1, <1>5 DEF SnapshotsFrom
<1>7. Reconcile(w, seen, fact, late)
  BY <1>2, <1>6, OnlyLateMatters
<1> HIDE DEF seen, fact, late
<1>8. late \in SUBSET {m \in lapsed \intersect DOMAIN fact : Unreleased(m)}
  BY <1>5 DEF late
<1> QED BY <1>3, <1>4, <1>5, <1>7, <1>8 DEF Snapshot

LEMMA ControlRefines ==
  ASSUME ControlInv, ConstantsAssumption, [ControlNext]_allVars
  PROVE  [Next]_vars
<1>1. CASE UNCHANGED allVars
  BY <1>1 DEF allVars
<1>2. CASE \E s \in Sessions : BackendStep(s)
  BY <1>2 DEF BackendStep, Next, SessionStep, Deliver
<1>3. CASE \E s \in Sessions : ExpireOne(s)
  BY <1>3 DEF ExpireOne, Next, ExpirePass
<1>4. CASE \E p \in Profiles : RuntimeStarts(p)
  BY <1>4 DEF RuntimeStarts, Next, ProfileStep
<1>5. CASE \E s \in Sessions : ControlStep(s)
  <2>1. PICK s \in Sessions : ControlStep(s)
    BY <1>5
  <2>2. CASE RequestCreate(s) \/ RequestClose(s)
    BY <2>2 DEF RequestCreate, RequestClose
  <2>3. CASE CreateUnavailable(s) \/ CreateRejected(s) \/ ApplyCreateResult(s)
    <3>1. DeliverFailed(s) \/ DeliverUnavailable(s) \/ Accept(s)
      BY <2>3 DEF CreateUnavailable, CreateRejected, ApplyCreateResult
    <3> QED BY <3>1 DEF Next, SessionStep, Deliver
  <2>4. CASE CloseExpires(s) \/ ApplyCloseResult(s)
    <3>1. \E succeeded \in BOOLEAN : CloseDelivered(s, succeeded)
      BY <2>4 DEF CloseExpires, ApplyCloseResult
    <3> QED BY <3>1 DEF Next, SessionStep
  <2> QED BY <2>1, <2>2, <2>3, <2>4 DEF ControlStep
<1>6. CASE \E s \in Sessions : TabStep(s)
  BY <1>6 DEF TabStep, TabReady, TabEnds, TabCleanedUp, TabCleanupFails
<1>7. CASE \E w \in Workers : BackendReceives(w)
  BY <1>7, SnapshotRefines DEF BackendReceives, ReceiveCreateResult, ReceiveCloseResult, Next
<1>8. CASE \E w \in Workers : WorkerReceives(w)
  BY <1>8 DEF WorkerReceives, ReceiveCreate, ReceivePlan, ReceiveClose
<1>9. CASE \E w \in Workers : LinkStep(w)
  BY <1>9 DEF LinkStep, Drop, Connect, SendSnapshot, WorkerProcessEnds, Next
<1>10. CASE BackendProcessEnds
  BY <1>10 DEF BackendProcessEnds, Next
<1> QED
  BY <1>1, <1>2, <1>3, <1>4, <1>5, <1>6, <1>7, <1>8, <1>9, <1>10 DEF ControlNext

-----------------------------------------------------------------------------
(* What the Backend's own steps do to the rows the Workers rely on.        *)

RowsGrow ==
  /\ sameInstance \subseteq sameInstance'
  /\ lapsed \subseteq lapsed'
  /\ \A s \in Sessions :
       /\ s \in sameInstance' \ sameInstance => bound'[s] # 0
       /\ bound[s] # 0 => bound'[s] # 0
       /\ bound'[s] = bound[s] \/ status[s] = "RESERVED"
  /\ \A p \in attached' : desired'[p] = "RUNNING"

LEMMA SameRows == ASSUME ControlInv, UNCHANGED vars PROVE RowsGrow /\ UNCHANGED released
BY DEF ControlInv, vars, sessionVars, reservationVars, runtimeVars, RowsGrow

LEMMA PersistRuns ==
  ASSUME ControlInv, NEW p \in Profiles, PersistStart(p)
  PROVE  \A q \in attached' : desired'[q] = "RUNNING"
BY DEF PersistStart, ControlInv, TypeOK

LEMMA BackendRows ==
  ASSUME ControlInv, ConstantsAssumption, NEW s \in Sessions,
         \/ BackendStep(s) \/ ExpireOne(s)
         \/ Accept(s) \/ DeliverFailed(s) \/ DeliverUnavailable(s)
         \/ \E succeeded \in BOOLEAN : CloseDelivered(s, succeeded)
  PROVE  RowsGrow /\ UNCHANGED released
<1> USE DEF RowsGrow, sessionVars, reservationVars, runtimeVars
<1>1. \A p \in attached : desired[p] = "RUNNING"
  BY DEF ControlInv
<1>2. CASE Reserve(s)
  <2>1. ProfileOf[s] \in Profiles
    BY DEF ConstantsAssumption
  <2>2. \A q \in attached' : desired'[q] = "RUNNING"
    BY <1>1, <1>2, <2>1, PersistRuns DEF Reserve
  <2> QED BY <1>2, <2>2 DEF Reserve
<1>3. CASE Close(s) \/ Lapse(s) \/ Fail(s) \/ Remove(s)
  BY <1>1, <1>3 DEF Close, Lapse, Fail, Remove
<1>4. CASE \/ \E cleared \in BOOLEAN : DeliverRead(s, cleared)
           \/ BeginRefused(s) \/ DeliverFailed(s) \/ DeliverUnavailable(s)
  BY <1>1, <1>4 DEF DeliverRead, BeginRefused, DeliverFailed, DeliverUnavailable, OnlyDelivery
<1>5. CASE Begin(s)
  <2>1. bound'[s] # 0 /\ (bound'[s] = bound[s] \/ status[s] = "RESERVED")
    BY <1>5, BeginStatus DEF ControlInv, Begin
  <2>2. \A t \in Sessions \ {s} : bound'[t] = bound[t]
    BY <1>5, BeginStatus DEF ControlInv
  <2>3. sameInstance \subseteq sameInstance' /\ sameInstance' \subseteq sameInstance \union {s}
    BY <1>5 DEF Begin
  <2>4. UNCHANGED <<lapsed, attached, desired, released>>
    BY <1>5 DEF Begin
  <2> QED BY <1>1, <2>1, <2>2, <2>3, <2>4
<1>6. CASE ExpireOne(s)
  BY <1>1, <1>6 DEF ExpireOne, Expire
<1>7. CASE Accept(s)
  BY <1>1, <1>7 DEF Accept
<1>8. CASE \E succeeded \in BOOLEAN : CloseDelivered(s, succeeded)
  BY <1>1, <1>8 DEF CloseDelivered
<1> QED BY <1>2, <1>3, <1>4, <1>5, <1>6, <1>7, <1>8 DEF BackendStep

\* Only the answers of Workers open a Session.
LEMMA NoneOpens ==
  ASSUME ControlInv, ConstantsAssumption, NEW s \in Sessions,
         \/ BackendStep(s) \/ ExpireOne(s) \/ DeliverFailed(s) \/ DeliverUnavailable(s)
         \/ \E succeeded \in BOOLEAN : CloseDelivered(s, succeeded),
         NEW t \in Sessions, status'[t] \in Live
  PROVE  status[t] \in Live
<1>1. TypeOK
  BY DEF ControlInv
<1>2. CASE Reserve(s)
  BY <1>1, <1>2 DEF Reserve, AfterClose, TypeOK, Live
<1>3. CASE Begin(s)
  BY <1>1, <1>3, BeginStatus DEF Live
<1>4. CASE Close(s) \/ Lapse(s) \/ Fail(s) \/ Remove(s)
  BY <1>1, <1>4 DEF Close, QueueClose, AfterClose, Lapse, Fail, Remove, sessionVars, TypeOK, Live
<1>5. CASE \/ \E cleared \in BOOLEAN : DeliverRead(s, cleared)
           \/ BeginRefused(s) \/ DeliverFailed(s) \/ DeliverUnavailable(s)
  BY <1>5 DEF DeliverRead, BeginRefused, DeliverFailed, DeliverUnavailable, OnlyDelivery, sessionVars
<1>6. CASE ExpireOne(s)
  BY <1>1, <1>6 DEF ExpireOne, Expire, TypeOK, Live
<1>7. CASE \E succeeded \in BOOLEAN : CloseDelivered(s, succeeded)
  BY <1>1, <1>7 DEF CloseDelivered, TypeOK, Live
<1> QED BY <1>2, <1>3, <1>4, <1>5, <1>6, <1>7 DEF BackendStep

LEMMA OtherRows ==
  ASSUME ControlInv,
         (\E p \in Profiles : RuntimeStarts(p)) \/ Restart
  PROVE  RowsGrow /\ UNCHANGED released
BY DEF RowsGrow, sessionVars, reservationVars, runtimeVars, RuntimeStarts, OperationResult, Restart,
       ControlInv

LEMMA SnapshotRows ==
  ASSUME ControlInv, NEW w, NEW seen, NEW fact, NEW late, Reconcile(w, seen, fact, late)
  PROVE  RowsGrow
BY DEF RowsGrow, Reconcile, ControlInv

-----------------------------------------------------------------------------
(* What follows for messages and released Sessions.                        *)

TabsGrow ==
  Settled \subseteq Settled' /\ Ended \subseteq Ended' /\ TabsBegun \subseteq TabsBegun'

LEMMA ChannelsGrow ==
  ASSUME ControlInv, RowsGrow, TabsGrow
  PROVE  Carries(toWorker, Commands') /\ Carries(toBackend, Reports')
<1>1. ASSUME NEW w \in Workers
      PROVE  Commands[w] \subseteq Commands'[w] /\ Reports[w] \subseteq Reports'[w]
  <2>1. /\ sameInstance \intersect SessionsOn(w) \subseteq sameInstance'
        /\ lapsed \subseteq lapsed' /\ Settled \subseteq Settled'
        /\ Ended \subseteq Ended' /\ TabsBegun \subseteq TabsBegun'
    BY DEF RowsGrow, TabsGrow
  <2>2. CommandsTo(w, sameInstance) \subseteq CommandsTo(w, sameInstance')
    BY <2>1, CommandsGrow
  <2>3. ResultsFrom(w, TabsBegun, Ended) \subseteq ResultsFrom(w, TabsBegun', Ended')
    BY <2>1, ResultsGrow
  <2>4. SnapshotsFrom(w, sameInstance, lapsed, Settled, TabsBegun)
          \subseteq SnapshotsFrom(w, sameInstance', lapsed', Settled', TabsBegun')
    BY <2>1, SnapshotsGrow
  <2> QED BY <2>2, <2>3, <2>4 DEF Commands, Reports
<1> HIDE DEF Commands, Reports
<1> QED BY <1>1, MoreMessages DEF ControlInv, ChannelsAgree

LEMMA SameTabsGrow ==
  ASSUME RowsGrow, UNCHANGED tab
  PROVE  TabsGrow
BY DEF RowsGrow, TabsGrow, Settled, Ended, TabsBegun

\* The Backend does not believe in a Tab that it did not know of already.
Believed == {s \in Sessions : status[s] \in Live \/ createResult[s] = "SUCCEEDED"}
NothingNew == createResult' \in [Sessions -> Results] /\ Believed' \subseteq Believed

LEMMA PromisedStays ==
  ASSUME ControlInv, TabsGrow, NothingNew
  PROVE  Promised'
BY DEF ControlInv, Promised, NothingNew, Believed, TabsGrow, TabsBegun

LEMMA SameBelieved ==
  ASSUME ControlInv, UNCHANGED <<status, createResult>>
  PROVE  NothingNew
BY DEF ControlInv, Promised, NothingNew, Believed

LEMMA TerminalStays ==
  ASSUME TypeOK, ConstantsAssumption, [Next]_vars, NEW s \in Sessions, status[s] \in Terminal
  PROVE  status'[s] = status[s]
<1> USE DEF Ending, Pending, Live, Terminal
<1>1. CASE \E t \in Sessions : Reserve(t)
  BY <1>1, ReserveStatus
<1>2. CASE \E t \in Sessions : Begin(t)
  BY <1>2, BeginStatus
<1>3. CASE EndingStep
  BY <1>3 DEF EndingStep
<1> QED BY <1>1, <1>2, <1>3, StepKinds

\* Who was released before the step is still released finally.
LEMMA FinallyStays ==
  ASSUME ControlInv, ConstantsAssumption, [Next]_vars, RowsGrow, TabsGrow,
         NEW m \in released, status'[m] = "FAILED"
  PROVE  bound'[m] = 0 \/ m \in Settled'
<1>1. m \in Sessions /\ status[m] \in Terminal
  BY DEF ControlInv, ReleasedFinally, ReleasedHasEnded
<1>2. status[m] = "FAILED"
  BY <1>1, TerminalStays DEF ControlInv
<1>3. bound[m] = 0 \/ m \in Settled
  BY <1>2 DEF ControlInv, ReleasedFinally
<1>4. bound'[m] = bound[m]
  BY <1>1, <1>2 DEF RowsGrow
<1> QED BY <1>3, <1>4 DEF TabsGrow

LEMMA SameReleased ==
  ASSUME ControlInv, ConstantsAssumption, [Next]_vars, RowsGrow, TabsGrow, UNCHANGED released
  PROVE  ReleasedFinally'
<1>1. ReleasedHasEnded'
  BY ReleasedStep DEF ControlInv, ReleasedFinally
<1> QED BY <1>1, FinallyStays DEF ReleasedFinally

-----------------------------------------------------------------------------
(* Each step keeps the invariant.                                          *)

LEMMA InvFollows ==
  ASSUME ControlInv, ConstantsAssumption, [Next]_vars, RowsGrow, TabsGrow, UNCHANGED released,
         tab' \in [Sessions -> TabStates], createAnswer' \in [Sessions -> Results],
         closeAnswer' \in [Sessions -> Results], TabsAgree', Promised', ChannelsAgree'
  PROVE  ControlInv'
<1>1. TypeOK'
  BY NextType DEF ControlInv
<1>2. ReleasedFinally'
  BY SameReleased
<1> QED BY <1>1, <1>2 DEF ControlInv, RowsGrow

LEMMA SameTabsAgree ==
  ASSUME ControlInv, RowsGrow, UNCHANGED workerVars
  PROVE  /\ tab' \in [Sessions -> TabStates] /\ createAnswer' \in [Sessions -> Results]
         /\ closeAnswer' \in [Sessions -> Results] /\ TabsAgree'
BY DEF ControlInv, RowsGrow, TabsAgree, workerVars

\* Steps of the Backend or of a connection that send nothing, and may lose what was sent.
LEMMA QuietStep ==
  ASSUME ControlInv, ConstantsAssumption, [Next]_vars, RowsGrow, UNCHANGED <<released, workerVars>>,
         NothingNew,
         \/ UNCHANGED <<toWorker, toBackend>>
         \/ \E W \in SUBSET Workers :
              /\ toWorker' = [w \in Workers |-> IF w \in W THEN <<>> ELSE toWorker[w]]
              /\ toBackend' = [w \in Workers |-> IF w \in W THEN <<>> ELSE toBackend[w]]
  PROVE  ControlInv'
<1>1. TabsGrow /\ Promised'
  BY SameTabsGrow, PromisedStays DEF workerVars
<1>2. Carries(toWorker, Commands') /\ Carries(toBackend, Reports')
  BY <1>1, ChannelsGrow
<1>3. CASE UNCHANGED <<toWorker, toBackend>>
  BY <1>1, <1>2, <1>3, InvFollows, SameTabsAgree DEF ChannelsAgree
<1>4. CASE \E W \in SUBSET Workers :
              /\ toWorker' = [w \in Workers |-> IF w \in W THEN <<>> ELSE toWorker[w]]
              /\ toBackend' = [w \in Workers |-> IF w \in W THEN <<>> ELSE toBackend[w]]
  <2>1. PICK W : /\ toWorker' = [w \in Workers |-> IF w \in W THEN <<>> ELSE toWorker[w]]
                 /\ toBackend' = [w \in Workers |-> IF w \in W THEN <<>> ELSE toBackend[w]]
    BY <1>4
  <2>2. Carries([w \in Workers |-> IF w \in W THEN <<>> ELSE toWorker[w]], Commands')
    BY ONLY <1>2, ClearKeeps
  <2>3. Carries([w \in Workers |-> IF w \in W THEN <<>> ELSE toBackend[w]], Reports')
    BY ONLY <1>2, ClearKeeps
  <2> QED BY <1>1, <2>1, <2>2, <2>3, InvFollows, SameTabsAgree DEF ChannelsAgree
<1> QED BY <1>3, <1>4

LEMMA WorkerForType ==
  ASSUME ConstantsAssumption, NEW s \in Sessions
  PROVE  WorkerFor(s) \in Workers /\ s \in SessionsOn(WorkerFor(s))
BY DEF ConstantsAssumption, WorkerFor, SessionsOn

LEMMA ControlStepKeeps ==
  ASSUME ControlInv, ConstantsAssumption, [Next]_vars, NEW s \in Sessions, ControlStep(s)
  PROVE  ControlInv'
<1> USE DEF channelVars, commandVars, controlVars
<1>1. CASE RequestCreate(s) \/ RequestClose(s)
  <2>1. UNCHANGED vars /\ UNCHANGED workerVars /\ UNCHANGED toBackend /\ UNCHANGED createResult
    BY <1>1 DEF RequestCreate, RequestClose, resultVars
  <2>2. RowsGrow /\ UNCHANGED released /\ TabsGrow
    BY <2>1, SameRows, SameTabsGrow DEF workerVars
  <2>3. Carries(toWorker, Commands') /\ Carries(toBackend', Reports')
    BY <2>1, <2>2, ChannelsGrow
  <2>4. PICK c : /\ toWorker' = Sent(toWorker, WorkerFor(s), <<c>>)
                 /\ (c = CreateCommand(s) /\ s \in sameInstance) \/ c = CloseCommand(s)
    BY <1>1 DEF RequestCreate, RequestClose
  <2>5. c \in Commands'[WorkerFor(s)]
    BY <2>2, <2>4, WorkerForType DEF Commands, CommandsTo, RowsGrow
  <2>6. <<c>> \in Seq(Commands'[WorkerFor(s)])
    BY <2>5, OneMessage
  <2>7. Carries(toWorker', Commands')
    BY <2>3, <2>4, <2>6, SendKeeps, WorkerForType
  <2>8. Promised'
    BY <2>1, <2>2, SameBelieved, PromisedStays DEF vars, sessionVars
  <2> QED BY <2>1, <2>2, <2>3, <2>7, <2>8, InvFollows, SameTabsAgree DEF ChannelsAgree
<1>2. CASE \/ CreateUnavailable(s) \/ CreateRejected(s) \/ ApplyCreateResult(s)
           \/ CloseExpires(s) \/ ApplyCloseResult(s)
  <2>1. \/ Accept(s) \/ DeliverFailed(s) \/ DeliverUnavailable(s)
        \/ \E succeeded \in BOOLEAN : CloseDelivered(s, succeeded)
    BY <1>2 DEF CreateUnavailable, CreateRejected, ApplyCreateResult, CloseExpires, ApplyCloseResult
  <2>2. UNCHANGED <<workerVars, toWorker, toBackend>>
    BY <1>2 DEF CreateUnavailable, CreateRejected, ApplyCreateResult, CloseExpires, ApplyCloseResult
  <2>3. createResult' \in [Sessions -> Results]
        /\ \A t \in Sessions : createResult'[t] = "SUCCEEDED" => createResult[t] = "SUCCEEDED"
    BY <1>2 DEF CreateUnavailable, CreateRejected, ApplyCreateResult, CloseExpires, ApplyCloseResult,
                resultVars, ControlInv, Promised, Results
  <2>4. \/ DeliverFailed(s) \/ DeliverUnavailable(s)
        \/ \E succeeded \in BOOLEAN : CloseDelivered(s, succeeded)
        \/ Accept(s) /\ createResult[s] = "SUCCEEDED"
    BY <1>2 DEF CreateUnavailable, CreateRejected, ApplyCreateResult, CloseExpires, ApplyCloseResult
  <2>5. ASSUME NEW t \in Sessions, status'[t] \in Live
        PROVE  status[t] \in Live \/ createResult[t] = "SUCCEEDED"
    <3>1. CASE Accept(s) /\ createResult[s] = "SUCCEEDED"
      BY <2>5, <3>1 DEF Accept, ControlInv, TypeOK
    <3> QED BY <2>4, <2>5, <3>1, NoneOpens
  <2>6. NothingNew
    BY <2>3, <2>5 DEF NothingNew, Believed
  <2> QED BY <2>1, <2>2, <2>6, BackendRows, QuietStep
<1> QED BY <1>1, <1>2 DEF ControlStep

\* The Backend takes a result.
LEMMA ResultKeeps ==
  ASSUME ControlInv, ConstantsAssumption, [Next]_vars, NEW w \in Workers,
         ReceiveCreateResult(w) \/ ReceiveCloseResult(w)
  PROVE  ControlInv'
<1>1. UNCHANGED vars /\ UNCHANGED workerVars /\ UNCHANGED toWorker
  BY DEF ReceiveCreateResult, ReceiveCloseResult
<1>2. RowsGrow /\ UNCHANGED released /\ TabsGrow
  BY <1>1, SameRows, SameTabsGrow DEF workerVars
<1>3. Carries(toWorker', Commands') /\ Carries(toBackend, Reports')
  BY <1>1, <1>2, ChannelsGrow
<1>4. toBackend[w] # <<>> /\ toBackend' = [toBackend EXCEPT ![w] = Tail(@)]
  BY DEF ReceiveCreateResult, ReceiveCloseResult, Received
<1>5. Carries(toBackend', Reports')
  BY <1>3, <1>4, TakeKeeps
<1>6. Promised'
  <2>1. createResult \in [Sessions -> Results] /\ UNCHANGED <<status, tab>>
    BY <1>1 DEF ControlInv, Promised, vars, sessionVars, workerVars
  <2>2. CASE UNCHANGED createResult
    BY <1>2, <2>1, <2>2, SameBelieved, PromisedStays
  <2>3. CASE ReceiveCreateResult(w) /\ createResult' # createResult
    <3> DEFINE message == Head(toBackend[w])
    <3>1. message \in Reports[w]
      BY <1>4, TakeKeeps DEF ControlInv, ChannelsAgree
    <3>2. message.type = "CREATE"
      BY <2>3 DEF ReceiveCreateResult, Received
    <3>3. /\ message.session \in Sessions /\ message.outcome \in Results
          /\ message.outcome = "SUCCEEDED" => tab[message.session] # "NONE"
      BY <3>1, <3>2 DEF Reports, ResultsFrom, SnapshotsFrom, SessionsOn, TabsBegun
    <3>4. createResult' = [createResult EXCEPT ![message.session] = message.outcome]
      BY <2>3 DEF ReceiveCreateResult
    <3> HIDE DEF message
    <3>5. \A s \in Sessions : status[s] \in Live \/ createResult[s] = "SUCCEEDED" => tab[s] # "NONE"
      BY DEF ControlInv, Promised
    <3> QED BY <2>1, <3>3, <3>4, <3>5 DEF Promised
  <2>4. CASE ReceiveCloseResult(w)
    BY <2>2, <2>4 DEF ReceiveCloseResult
  <2> QED BY <2>2, <2>3, <2>4
<1> QED BY <1>1, <1>2, <1>3, <1>5, <1>6, InvFollows, SameTabsAgree DEF ChannelsAgree

\* The answer to a snapshot: the plan and the commands that are sent again.
LEMMA ResentIsSequence ==
  ASSUME ControlInv, FiniteSessionsAssumption, NEW w \in Workers, NEW ready,
         NEW q \in Resent(w, ready)
  PROVE  q \in Seq(Commands[w])
<1> DEFINE A == {s \in unsent \intersect pendingCreate :
                   ready /\ WorkerFor(s) = w /\ s \in sameInstance}
           B == {s \in unsent \intersect pendingClose : WorkerFor(s) = w /\ s \in sameInstance}
           C == {CreateCommand(s) : s \in A}
           D == {CloseCommand(s) : s \in B}
<1>1. A \subseteq Sessions /\ B \subseteq Sessions
  BY DEF ControlInv, TypeOK
<1>2. C \union D \subseteq Commands[w]
  BY <1>1 DEF Commands, CommandsTo, SessionsOn, WorkerFor
<1>3. IsFiniteSet(A) /\ IsFiniteSet(B)
  BY <1>1, FS_Subset, FiniteSessionsAssumption DEF FiniteSessionsAssumption
<1>4. [s \in A |-> CreateCommand(s)] \in Surjection(A, C)
      /\ [s \in B |-> CloseCommand(s)] \in Surjection(B, D)
  BY DEF Surjection
<1>5. q \in [1 .. Cardinality(C \union D) -> C \union D]
  BY DEF Resent
<1> HIDE DEF A, B, C, D
<1>6. IsFiniteSet(C \union D)
  BY <1>3, <1>4, FS_Surjection, FS_Union
<1>7. Cardinality(C \union D) \in Nat
  BY <1>6, FS_CardinalityType
<1>8. q \in Seq(C \union D)
  BY <1>5, <1>7, SeqDef
<1> QED BY <1>2, <1>8, SeqMonotonic

LEMMA AnswerKeeps ==
  ASSUME ControlInv, ConstantsAssumption, FiniteSessionsAssumption, RowsGrow, TabsGrow,
         UNCHANGED sameInstance, NEW w \in Workers, ReceiveSnapshot(w)
  PROVE  ChannelsAgree'
<1>1. Carries(toWorker, Commands') /\ Carries(toBackend, Reports')
  BY ChannelsGrow
<1>2. toBackend[w] # <<>> /\ toBackend' = [toBackend EXCEPT ![w] = Tail(@)]
  BY DEF ReceiveSnapshot, Received
<1>3. Carries(toBackend', Reports')
  BY <1>1, <1>2, TakeKeeps
<1>4. PICK S, ready : \E resent \in Resent(w, ready) :
        S = ToClose(w, Head(toBackend[w]).tabs) /\ toWorker' = Sent(toWorker, w, <<Plan(S)>> \o resent)
  BY DEF ReceiveSnapshot
<1>5. PICK resent \in Resent(w, ready) : toWorker' = Sent(toWorker, w, <<Plan(S)>> \o resent)
  BY <1>4
<1>6. Commands' = Commands
  BY DEF Commands
<1>7. resent \in Seq(Commands'[w])
  BY <1>5, <1>6, ResentIsSequence
<1>8. Plan(S) \in Commands'[w]
  BY <1>4 DEF Commands, CommandsTo, ToClose
<1>9. <<Plan(S)>> \o resent \in Seq(Commands'[w])
  BY <1>7, <1>8, OneMessage, ConcatProperties
<1>10. Carries(toWorker', Commands')
  BY <1>1, <1>5, <1>9, SendKeeps
<1> QED BY <1>3, <1>10 DEF ChannelsAgree

\* Maintenance that a snapshot releases as FAILED has no Tab in it, and its time was over when it
\* was sent.
LEMMA SnapshotReleases ==
  ASSUME ControlInv, ConstantsAssumption, NEW w \in Workers, ReceiveSnapshot(w),
         NEW m \in released' \ released, status'[m] = "FAILED"
  PROVE  bound'[m] = 0 \/ m \in Settled
<1> DEFINE message == Head(toBackend[w])
           fact(broken) ==
             [s \in Reportable(w) |->
                FactOf(s, message.tabs[s], IF s \in broken THEN "BROKEN" ELSE "CLOSED")]
<1>1. message \in SnapshotsFrom(w, sameInstance, lapsed, Settled, TabsBegun)
  BY SnapshotAtHead DEF ReceiveSnapshot
<1>2. PICK broken : Reconcile(w, [p \in ProfilesOn(w) |-> RuntimeAt(p)], fact(broken), message.late)
  BY DEF ReceiveSnapshot
<1>3. \E stored :
        /\ status' = stored
        /\ m \in ReleasedBy(stored, fact(broken), message.late)
        /\ bound' = bound
  BY <1>2 DEF Reconcile
<1>4. /\ m \in Reportable(w)
      /\ fact(broken)[m] \notin WorkerStates \union {"REFUSED"}
      /\ bound[m] = 0 \/ m \in message.late
      /\ bound' = bound
  BY <1>3 DEF ReleasedBy
<1>5. message.tabs[m] \notin Present
  BY <1>4 DEF FactOf, Present, StatusPublished, WorkerStates, Live
<1>6. m \in SessionsOn(w)
  BY <1>4 DEF Reportable
<1> QED BY <1>1, <1>4, <1>5, <1>6 DEF SnapshotsFrom

\* A Session that a snapshot opens has its Tab in it.
LEMMA SnapshotOpens ==
  ASSUME ControlInv, ConstantsAssumption, NEW w \in Workers, ReceiveSnapshot(w),
         NEW s \in Sessions, status'[s] \in Live, status[s] \notin Live
  PROVE  tab[s] # "NONE"
<1> DEFINE message == Head(toBackend[w])
           fact(broken) ==
             [t \in Reportable(w) |->
                FactOf(t, message.tabs[t], IF t \in broken THEN "BROKEN" ELSE "CLOSED")]
<1>1. message \in SnapshotsFrom(w, sameInstance, lapsed, Settled, TabsBegun)
  BY SnapshotAtHead DEF ReceiveSnapshot
<1>2. PICK broken : Reconcile(w, [p \in ProfilesOn(w) |-> RuntimeAt(p)], fact(broken), message.late)
  BY DEF ReceiveSnapshot
<1>3. status'[s] = IF s \in Reportable(w) THEN StatusSeen(s, fact(broken)[s]) ELSE status[s]
  BY <1>2 DEF Reconcile
<1>4. s \in Reportable(w) /\ StatusSeen(s, fact(broken)[s]) \in Live
  BY <1>3
<1>5. fact(broken)[s] \in Live
  BY <1>4 DEF StatusSeen, WorkerStates, Live
<1>6. message.tabs[s] \in Present
  BY <1>4, <1>5 DEF FactOf, Present, StatusPublished, Live
<1>7. s \in SessionsOn(w)
  BY <1>4 DEF Reportable
<1> QED BY <1>1, <1>6, <1>7 DEF SnapshotsFrom, TabsBegun, Present

LEMMA SnapshotKeeps ==
  ASSUME ControlInv, ConstantsAssumption, FiniteSessionsAssumption, [Next]_vars,
         NEW w \in Workers, ReceiveSnapshot(w)
  PROVE  ControlInv'
<1>1. RowsGrow
  BY SnapshotRows DEF ReceiveSnapshot
<1>2. UNCHANGED <<workerVars, sameInstance, lapsed>>
  BY DEF ReceiveSnapshot, Reconcile
<1>3. TabsGrow
  BY <1>1, <1>2, SameTabsGrow DEF workerVars
<1>4. ChannelsAgree'
  BY <1>1, <1>2, <1>3, AnswerKeeps
<1>5. TypeOK' /\ ReleasedHasEnded'
  BY NextType, ReleasedStep DEF ControlInv, ReleasedFinally
<1>6. ASSUME NEW m \in released', status'[m] = "FAILED"
      PROVE  bound'[m] = 0 \/ m \in Settled'
  BY <1>1, <1>3, <1>6, FinallyStays, SnapshotReleases DEF TabsGrow
<1>7. ReleasedFinally'
  BY <1>5, <1>6 DEF ReleasedFinally
<1>8. Promised'
  BY <1>2, SnapshotOpens DEF ControlInv, Promised, workerVars, ReceiveSnapshot, resultVars
<1> QED BY <1>1, <1>2, <1>4, <1>5, <1>7, <1>8, SameTabsAgree DEF ControlInv, RowsGrow

\* Steps of a Worker: the rows stay, and its Tabs and answers change as a Worker may change them.
TabMoves(s) ==
  /\ tab' = [tab EXCEPT ![s] = tab'[s]]
  /\ tab'[s] \in TabStates
  /\ tab'[s] \in Present \union {"ENDED"} => s \in sameInstance
  /\ tab[s] # "NONE" => tab'[s] # "NONE"
  /\ tab[s] \in Over => tab'[s] \in Over
  /\ s \in Settled => tab'[s] \notin Present

LEMMA WorkerStepKeeps ==
  ASSUME ControlInv, ConstantsAssumption, [Next]_vars, UNCHANGED vars,
         NEW s \in Sessions, TabMoves(s),
         NEW a \in Results, createAnswer' = [createAnswer EXCEPT ![s] = a],
         NEW b \in Results, closeAnswer' = [closeAnswer EXCEPT ![s] = b],
         a = "SUCCEEDED" => tab'[s] # "NONE", b = "SUCCEEDED" => tab'[s] \in Over,
         UNCHANGED createResult,
         NEW reports \in Seq(ResultsFrom(WorkerFor(s), TabsBegun', Ended')),
         Carries(toWorker, Commands') => Carries(toWorker', Commands'),
         toBackend' = Sent(toBackend, WorkerFor(s), reports)
  PROVE  ControlInv'
<1>1. RowsGrow /\ UNCHANGED released
  BY SameRows
<1>2. UNCHANGED <<sameInstance, lapsed, bound>>
  BY DEF vars, sessionVars, reservationVars
<1>3. \A t \in Sessions \ {s} : tab'[t] = tab[t]
  BY DEF TabMoves, ControlInv
<1>4. TabsGrow
  BY <1>2, <1>3 DEF TabsGrow, Settled, Ended, TabsBegun, TabMoves, ControlInv, TypeOK
<1>5. Carries(toWorker', Commands') /\ Carries(toBackend, Reports')
  BY <1>1, <1>4, ChannelsGrow
<1>6. WorkerFor(s) \in Workers
  BY WorkerForType
<1>12. Promised'
  BY <1>4, SameBelieved, PromisedStays DEF vars, sessionVars
<1>7. ResultsFrom(WorkerFor(s), TabsBegun', Ended') \subseteq Reports'[WorkerFor(s)]
  BY <1>6 DEF Reports
<1>8. reports \in Seq(Reports'[WorkerFor(s)])
  BY <1>7, SeqMonotonic
<1>9. Carries(toBackend', Reports')
  BY <1>5, <1>6, <1>8, SendKeeps
<1>10. tab' \in [Sessions -> TabStates]
  BY DEF TabMoves, ControlInv
<1>11. TabsAgree'
  BY <1>2, <1>3 DEF TabsAgree, TabMoves, ControlInv
<1> QED BY <1>1, <1>4, <1>5, <1>9, <1>10, <1>11, <1>12, InvFollows DEF ChannelsAgree, ControlInv

LEMMA ResultIsReport ==
  ASSUME ConstantsAssumption, NEW s \in Sessions, NEW outcome \in Results, NEW begun, NEW ended
  PROVE  /\ outcome # "SUCCEEDED" \/ s \in begun =>
              CreateResult(s, outcome) \in ResultsFrom(WorkerFor(s), begun, ended)
         /\ outcome # "SUCCEEDED" \/ s \in ended =>
              CloseResult(s, outcome) \in ResultsFrom(WorkerFor(s), begun, ended)
BY WorkerForType DEF CreateResult, CloseResult, ResultsFrom

\* The next command of a Worker.
LEMMA CommandAtHead ==
  ASSUME ControlInv, NEW w \in Workers, NEW type, Arrives(w, type)
  PROVE  /\ Head(toWorker[w]) \in CommandsTo(w, sameInstance)
         /\ Carries(toWorker, Commands') => Carries(toWorker', Commands')
<1>1. toWorker[w] # <<>> /\ toWorker' = [toWorker EXCEPT ![w] = Tail(@)]
  BY DEF Arrives
<1>2. Head(toWorker[w]) \in Commands[w]
  BY <1>1, TakeKeeps DEF ControlInv, ChannelsAgree
<1>3. Carries(toWorker, Commands') => Carries(toWorker', Commands')
  BY <1>1, TakeKeeps
<1> QED BY <1>2, <1>3 DEF Commands

LEMMA TabStepKeeps ==
  ASSUME ControlInv, ConstantsAssumption, [Next]_vars, NEW s \in Sessions, TabStep(s)
  PROVE  ControlInv'
<1> USE DEF Present, Over, TabStates, Results
<1>1. UNCHANGED vars /\ tab \in [Sessions -> TabStates] /\ createAnswer \in [Sessions -> Results]
      /\ closeAnswer \in [Sessions -> Results] /\ (tab[s] \in Present => s \in sameInstance)
  BY DEF TabStep, TabReady, TabEnds, TabCleanedUp, TabCleanupFails, ControlInv, TabsAgree
<1>2. s \in Settled => tab[s] \notin Present
  BY DEF Settled
<1>3. /\ createAnswer[s] = "SUCCEEDED" => tab[s] # "NONE"
      /\ closeAnswer[s] = "SUCCEEDED" => tab[s] \in Over
      /\ UNCHANGED createResult
  BY DEF ControlInv, TabsAgree, TabStep, TabReady, TabEnds, TabCleanedUp, TabCleanupFails, commandVars,
         resultVars
<1>4. CASE TabReady(s)
  <2>1. TabMoves(s)
    BY <1>1, <1>2, <1>4 DEF TabReady, TabMoves
  <2>2. s \in TabsBegun'
    BY <1>1, <1>4 DEF TabReady, TabsBegun
  <2>3. <<CreateResult(s, "SUCCEEDED")>> \in Seq(ResultsFrom(WorkerFor(s), TabsBegun', Ended'))
    BY <2>2, ResultIsReport, OneMessage
  <2> QED BY <1>1, <1>3, <1>4, <2>1, <2>2, <2>3, WorkerStepKeeps DEF TabReady, TabsBegun
<1>5. CASE TabEnds(s)
  <2>1. TabMoves(s) /\ UNCHANGED <<createAnswer, closeAnswer>>
    BY <1>1, <1>2, <1>5 DEF TabEnds, TabMoves, EndOf, workerVars
  <2>2. RowsGrow /\ UNCHANGED released /\ UNCHANGED <<sameInstance, lapsed, bound>>
    BY <1>1, SameRows DEF vars, sessionVars, reservationVars
  <2>3. TabsGrow
    <3>1. \A t \in Sessions \ {s} : tab'[t] = tab[t]
      BY <1>1, <2>1 DEF TabMoves
    <3> QED BY <2>1, <2>2, <3>1 DEF TabsGrow, Settled, Ended, TabsBegun, TabMoves, ControlInv, TypeOK
  <2>4. Carries(toWorker', Commands') /\ Carries(toBackend', Reports')
    BY <1>5, <2>2, <2>3, ChannelsGrow DEF TabEnds, channelVars
  <2>5. tab' \in [Sessions -> TabStates] /\ TabsAgree'
    BY <1>1, <1>5, <2>1, <2>2 DEF TabsAgree, TabMoves, ControlInv, TabEnds
  <2>6. Promised'
    BY <1>1, <1>3, <2>3, SameBelieved, PromisedStays DEF vars, sessionVars
  <2> QED BY <1>1, <2>1, <2>2, <2>3, <2>4, <2>5, <2>6, InvFollows DEF ChannelsAgree
<1>6. CASE TabCleanedUp(s)
  <2>1. TabMoves(s) /\ s \in Ended'
    BY <1>1, <1>2, <1>6 DEF TabCleanedUp, TabMoves, Ended
  <2> DEFINE first == IF createAnswer[s] = "RUNNING" THEN <<CreateResult(s, "FAILED")>> ELSE <<>>
             second == IF closeAnswer[s] = "RUNNING" THEN <<CloseResult(s, "SUCCEEDED")>> ELSE <<>>
  <2>2. first \in Seq(ResultsFrom(WorkerFor(s), TabsBegun', Ended'))
    BY ResultIsReport, OneMessage, EmptySeq
  <2>3. second \in Seq(ResultsFrom(WorkerFor(s), TabsBegun', Ended'))
    BY <2>1, ResultIsReport, OneMessage, EmptySeq
  <2>4. first \o second \in Seq(ResultsFrom(WorkerFor(s), TabsBegun', Ended'))
    BY <2>2, <2>3, ConcatProperties
  <2>5. PICK a \in Results : /\ createAnswer' = [createAnswer EXCEPT ![s] = a]
                             /\ a = "SUCCEEDED" => createAnswer[s] = "SUCCEEDED"
    BY <1>1, <1>6 DEF TabCleanedUp
  <2>6. PICK b \in Results : closeAnswer' = [closeAnswer EXCEPT ![s] = b]
    BY <1>1, <1>6 DEF TabCleanedUp
  <2>7. toBackend' = Sent(toBackend, WorkerFor(s), first \o second) /\ UNCHANGED toWorker
    BY <1>6 DEF TabCleanedUp
  <2> HIDE DEF first, second
  <2> QED BY <1>1, <1>3, <2>1, <2>4, <2>5, <2>6, <2>7, WorkerStepKeeps DEF Ended, TabMoves
<1>7. CASE TabCleanupFails(s)
  <2>1. TabMoves(s)
    BY <1>1, <1>2, <1>7 DEF TabCleanupFails, TabMoves
  <2>2. <<CloseResult(s, "FAILED")>> \in Seq(ResultsFrom(WorkerFor(s), TabsBegun', Ended'))
    BY ResultIsReport, OneMessage
  <2>3. createAnswer[s] \in Results /\ createAnswer' = [createAnswer EXCEPT ![s] = createAnswer[s]]
    BY <1>1, <1>7 DEF TabCleanupFails
  <2> QED BY <1>1, <1>3, <1>7, <2>1, <2>2, <2>3, WorkerStepKeeps DEF TabCleanupFails, TabMoves
<1> QED BY <1>4, <1>5, <1>6, <1>7 DEF TabStep

\* A Worker takes a command for one Session.
LEMMA CommandKeeps ==
  ASSUME ControlInv, ConstantsAssumption, [Next]_vars, NEW w \in Workers,
         ReceiveCreate(w) \/ \E expired \in BOOLEAN : ReceiveClose(w, expired)
  PROVE  ControlInv'
<1> DEFINE s == Head(toWorker[w]).session
<1> USE DEF Present, Over, TabStates, Results
<1>1. UNCHANGED vars /\ tab \in [Sessions -> TabStates] /\ createAnswer \in [Sessions -> Results]
      /\ closeAnswer \in [Sessions -> Results] /\ UNCHANGED createResult
  BY DEF ReceiveCreate, ReceiveClose, ControlInv, commandVars, resultVars
<1>2. CASE ReceiveCreate(w)
  <2>1. Head(toWorker[w]) \in CommandsTo(w, sameInstance) /\ Head(toWorker[w]).type = "CREATE"
        /\ (Carries(toWorker, Commands') => Carries(toWorker', Commands'))
    BY <1>2, CommandAtHead DEF ReceiveCreate, Arrives
  <2>2. s \in Sessions /\ s \in sameInstance /\ WorkerFor(s) = w
    BY <2>1 DEF CommandsTo, CreateCommand, CloseCommand, Plan, SessionsOn, WorkerFor
  <2> HIDE DEF s
  <2>3. /\ tab[s] \in Present => s \in sameInstance
        /\ createAnswer[s] = "SUCCEEDED" => tab[s] # "NONE"
        /\ closeAnswer[s] = "SUCCEEDED" => tab[s] \in Over
    BY <2>2 DEF ControlInv, TabsAgree
  <2>4. TabMoves(s)
    BY <1>1, <1>2, <2>2 DEF ReceiveCreate, TabMoves, Settled, InTime, s
  <2>5. closeAnswer[s] \in Results /\ closeAnswer' = [closeAnswer EXCEPT ![s] = closeAnswer[s]]
    BY <1>1, <1>2, <2>2 DEF ReceiveCreate
  <2>6. PICK a \in Results : /\ createAnswer' = [createAnswer EXCEPT ![s] = a]
                             /\ a = "SUCCEEDED" => createAnswer[s] = "SUCCEEDED"
    BY <1>1, <1>2, <2>2 DEF ReceiveCreate, s
  <2>7. PICK reports : /\ toBackend' = Sent(toBackend, w, reports)
                       /\ reports = <<>> \/ reports = <<CreateResult(s, createAnswer'[s])>>
    BY <1>2, NothingSent DEF ReceiveCreate, s, ControlInv, ChannelsAgree
  <2>8. createAnswer'[s] = a
    BY <1>1, <2>2, <2>6
  <2>9. <<CreateResult(s, a)>> \in Seq(ResultsFrom(WorkerFor(s), TabsBegun', Ended'))
    <3>1. a = "SUCCEEDED" => s \in TabsBegun'
      BY <2>2, <2>3, <2>4, <2>6 DEF TabsBegun, TabMoves
    <3>2. CreateResult(s, a) \in ResultsFrom(WorkerFor(s), TabsBegun', Ended')
      BY <2>2, <3>1, ResultIsReport
    <3> QED BY <3>2, OneMessage
  <2>10. reports \in Seq(ResultsFrom(WorkerFor(s), TabsBegun', Ended'))
    BY <2>7, <2>8, <2>9, EmptySeq
  <2> QED BY <1>1, <2>1, <2>2, <2>3, <2>4, <2>5, <2>6, <2>7, <2>10, WorkerStepKeeps DEF TabMoves
<1>3. CASE \E expired \in BOOLEAN : ReceiveClose(w, expired)
  <2>1. Head(toWorker[w]) \in CommandsTo(w, sameInstance) /\ Head(toWorker[w]).type = "CLOSE"
        /\ (Carries(toWorker, Commands') => Carries(toWorker', Commands'))
    BY <1>3, CommandAtHead DEF ReceiveClose, Arrives
  <2>2. s \in Sessions /\ WorkerFor(s) = w
    BY <2>1 DEF CommandsTo, CreateCommand, CloseCommand, Plan, SessionsOn, WorkerFor
  <2>3. PICK expired \in BOOLEAN : ReceiveClose(w, expired)
    BY <1>3
  <2> HIDE DEF s
  <2>4. /\ tab[s] \in Present => s \in sameInstance
        /\ createAnswer[s] = "SUCCEEDED" => tab[s] # "NONE"
        /\ closeAnswer[s] = "SUCCEEDED" => tab[s] \in Over
    BY <2>2 DEF ControlInv, TabsAgree
  <2>5. TabMoves(s)
    BY <1>1, <2>2, <2>3, <2>4 DEF ReceiveClose, TabMoves, Settled, EndOf, RetiredOrEnding, s, ControlInv, TabsAgree
  <2>6. createAnswer[s] \in Results /\ createAnswer' = [createAnswer EXCEPT ![s] = createAnswer[s]]
    BY <1>1, <2>2, <2>3 DEF ReceiveClose
  <2>7. PICK b \in Results : /\ closeAnswer' = [closeAnswer EXCEPT ![s] = b]
                             /\ b = "SUCCEEDED" => tab'[s] \in Over
    BY <1>1, <2>2, <2>3, <2>4 DEF ReceiveClose, RetiredOrEnding, EndOf, s
  <2>8. PICK reports : /\ toBackend' = Sent(toBackend, w, reports)
                       /\ reports = <<>> \/ reports = <<CloseResult(s, closeAnswer'[s])>>
    BY <2>3, NothingSent DEF ReceiveClose, s, ControlInv, ChannelsAgree
  <2>9. closeAnswer'[s] = b /\ (b = "SUCCEEDED" => s \in Ended')
    BY <1>1, <2>2, <2>7 DEF Ended
  <2>10. <<CloseResult(s, b)>> \in Seq(ResultsFrom(WorkerFor(s), TabsBegun', Ended'))
    <3>1. CloseResult(s, b) \in ResultsFrom(WorkerFor(s), TabsBegun', Ended')
      BY <2>2, <2>9, ResultIsReport
    <3> QED BY <3>1, OneMessage
  <2>11. reports \in Seq(ResultsFrom(WorkerFor(s), TabsBegun', Ended'))
    BY <2>8, <2>9, <2>10, EmptySeq
  <2> QED BY <1>1, <2>1, <2>2, <2>4, <2>5, <2>6, <2>7, <2>8, <2>11, WorkerStepKeeps DEF TabMoves
<1> QED BY <1>2, <1>3

\* The plan that answers a snapshot ends several Tabs and answers nobody.
LEMMA PlanKeeps ==
  ASSUME ControlInv, ConstantsAssumption, [Next]_vars, NEW w \in Workers, ReceivePlan(w)
  PROVE  ControlInv'
<1> USE DEF Present, Over, TabStates, Results
<1>1. UNCHANGED vars /\ UNCHANGED <<createAnswer, closeAnswer, toBackend, createResult>>
  BY DEF ReceivePlan, commandVars, resultVars
<1>2. RowsGrow /\ UNCHANGED released /\ UNCHANGED <<sameInstance, lapsed, bound>>
  BY <1>1, SameRows DEF vars, sessionVars, reservationVars
<1>3. tab' \in [Sessions -> TabStates]
      /\ \A s \in Sessions : tab'[s] = tab[s] \/ (tab[s] \in Present /\ tab'[s] \in Present)
  <2>1. tab \in [Sessions -> TabStates]
    BY DEF ControlInv
  <2>2. ASSUME NEW s \in Sessions
        PROVE  /\ tab'[s] \in TabStates
               /\ tab'[s] = tab[s] \/ (tab[s] \in Present /\ tab'[s] \in Present)
    <3>1. tab'[s] = tab[s] \/ tab'[s] = EndOf(tab[s])
      BY DEF ReceivePlan
    <3>2. tab[s] \in TabStates
      BY <2>1
    <3> QED BY <3>1, <3>2 DEF EndOf
  <2>3. tab' = [s \in Sessions |-> tab'[s]]
    BY DEF ReceivePlan
  <2> QED BY <2>2, <2>3
<1>4. TabsGrow
  BY <1>2, <1>3 DEF TabsGrow, Settled, Ended, TabsBegun, ControlInv, TypeOK
<1>5. TabsAgree'
  BY <1>1, <1>2, <1>3 DEF TabsAgree, ControlInv
<1>6. Carries(toWorker, Commands') /\ Carries(toBackend', Reports')
  BY <1>1, <1>2, <1>4, ChannelsGrow
<1>7. Carries(toWorker', Commands')
  BY <1>6, CommandAtHead DEF ReceivePlan
<1>8. Promised'
  BY <1>1, <1>4, SameBelieved, PromisedStays DEF vars, sessionVars
<1> QED BY <1>1, <1>2, <1>3, <1>4, <1>5, <1>6, <1>7, <1>8, InvFollows DEF ChannelsAgree, ControlInv
\* The Worker process ends, and with it what it has said and was told.
LEMMA WorkerEndsKeeps ==
  ASSUME ControlInv, ConstantsAssumption, [Next]_vars, NEW w \in Workers, WorkerProcessEnds(w)
  PROVE  ControlInv'
<1> USE DEF Present, Over, TabStates
<1>1. /\ UNCHANGED <<createAnswer, closeAnswer, lapsed, bound, released, desired>>
      /\ attached' \subseteq attached /\ sameInstance' = sameInstance \ SessionsOn(w)
  BY DEF WorkerProcessEnds, WorkerRestart, reservationVars
<1>2. tab \in [Sessions -> TabStates] /\ tab' \in [Sessions -> TabStates]
  BY DEF WorkerProcessEnds, ControlInv
<1>3. \A s \in Sessions : tab'[s] = tab[s] \/ tab'[s] = "GONE"
  BY DEF WorkerProcessEnds
<1>4. \A s \in SessionsOn(w) : tab'[s] \in {"NONE", "GONE"}
  BY <1>2 DEF WorkerProcessEnds, SessionsOn, WorkerFor
<1>5. TabsGrow
  BY <1>1, <1>2, <1>3 DEF TabsGrow, Settled, Ended, TabsBegun, ControlInv, TypeOK
<1>6. TabsAgree'
  <2> SUFFICES ASSUME NEW s \in Sessions
               PROVE  /\ tab'[s] \in Present \union {"ENDED"} => s \in sameInstance'
                      /\ s \in sameInstance' => bound'[s] # 0
                      /\ createAnswer'[s] = "SUCCEEDED" => tab'[s] # "NONE"
                      /\ closeAnswer'[s] = "SUCCEEDED" => tab'[s] \in Over
    BY DEF TabsAgree
  <2> QED BY <1>1, <1>3, <1>4 DEF TabsAgree, ControlInv
<1>7. ASSUME NEW v \in Workers \ {w}
      PROVE  Commands[v] \subseteq Commands'[v] /\ Reports[v] \subseteq Reports'[v]
  <2>1. SessionsOn(v) \intersect SessionsOn(w) = {}
    BY <1>7 DEF SessionsOn
  <2>2. /\ sameInstance \intersect SessionsOn(v) \subseteq sameInstance'
        /\ lapsed \subseteq lapsed' /\ Settled \subseteq Settled'
        /\ Ended \subseteq Ended' /\ TabsBegun \subseteq TabsBegun'
    BY <1>1, <1>5, <2>1 DEF TabsGrow
  <2>3. CommandsTo(v, sameInstance) \subseteq CommandsTo(v, sameInstance')
    BY <2>2, CommandsGrow
  <2>4. ResultsFrom(v, TabsBegun, Ended) \subseteq ResultsFrom(v, TabsBegun', Ended')
    BY <2>2, ResultsGrow
  <2>5. SnapshotsFrom(v, sameInstance, lapsed, Settled, TabsBegun)
          \subseteq SnapshotsFrom(v, sameInstance', lapsed', Settled', TabsBegun')
    BY <2>2, SnapshotsGrow
  <2> QED BY <2>3, <2>4, <2>5 DEF Commands, Reports
<1>8. Carries(toWorker, Commands) /\ Carries(toBackend, Reports)
  BY DEF ControlInv, ChannelsAgree
<1>9. /\ toWorker' = [v \in Workers |-> IF v \in {w} THEN <<>> ELSE toWorker[v]]
      /\ toBackend' = [v \in Workers |-> IF v \in {w} THEN <<>> ELSE toBackend[v]]
  BY DEF WorkerProcessEnds, Disconnected
<1> HIDE DEF Commands, Reports
<1>10. \A v \in Workers \ {w} : Commands[v] \subseteq Commands'[v]
  BY <1>7
<1>11. \A v \in Workers \ {w} : Reports[v] \subseteq Reports'[v]
  BY <1>7
<1>12. Carries(toWorker, Commands)
  BY <1>8
<1>13. Carries(toBackend, Reports)
  BY <1>8
<1>14. Carries([v \in Workers |-> IF v \in {w} THEN <<>> ELSE toWorker[v]], Commands')
  BY ONLY <1>10, <1>12, ClearKeeps
<1>15. Carries([v \in Workers |-> IF v \in {w} THEN <<>> ELSE toBackend[v]], Reports')
  BY ONLY <1>11, <1>13, ClearKeeps
<1>16. ChannelsAgree'
  BY <1>9, <1>14, <1>15 DEF ChannelsAgree
<1>17. TypeOK' /\ ReleasedHasEnded'
  BY NextType, ReleasedStep DEF ControlInv, ReleasedFinally
<1>18. ASSUME NEW m \in released', status'[m] = "FAILED"
       PROVE  bound'[m] = 0 \/ m \in Settled'
  <2>1. UNCHANGED status
    BY DEF WorkerProcessEnds, WorkerRestart
  <2> QED BY <1>1, <1>5, <1>18, <2>1 DEF TabsGrow, ControlInv, ReleasedFinally
<1>19. ReleasedFinally'
  BY <1>17, <1>18 DEF ReleasedFinally
<1>20. UNCHANGED <<status, createResult>>
  BY DEF WorkerProcessEnds, WorkerRestart, resultVars
<1>21. Promised'
  BY <1>5, <1>20, SameBelieved, PromisedStays
<1> QED BY <1>1, <1>2, <1>6, <1>16, <1>17, <1>19, <1>21 DEF ControlInv

\* A snapshot says what the Worker has now; connections are lost with what is on the way.
LEMMA LinkStepKeeps ==
  ASSUME ControlInv, ConstantsAssumption, [Next]_vars, NEW w \in Workers, LinkStep(w)
  PROVE  ControlInv'
<1>1. CASE Drop(w) \/ Connect(w)
  <2>1. UNCHANGED vars /\ UNCHANGED workerVars /\ UNCHANGED createResult
    BY <1>1 DEF Drop, Connect, commandVars, resultVars
  <2>2. RowsGrow /\ UNCHANGED released /\ NothingNew
    BY <2>1, SameRows, SameBelieved DEF vars, sessionVars
  <2>3. CASE Drop(w)
    BY <2>1, <2>2, <2>3, QuietStep DEF Drop, Disconnected
  <2>4. CASE Connect(w)
    BY <2>1, <2>2, <2>4, QuietStep DEF Connect
  <2> QED BY <1>1, <2>3, <2>4
<1>2. CASE SendSnapshot(w)
  <2>1. UNCHANGED vars /\ UNCHANGED workerVars /\ UNCHANGED toWorker /\ UNCHANGED createResult
    BY <1>2 DEF SendSnapshot, commandVars, resultVars
  <2>2. RowsGrow /\ UNCHANGED released /\ TabsGrow
    BY <2>1, SameRows, SameTabsGrow DEF workerVars
  <2>3. Carries(toWorker', Commands') /\ Carries(toBackend, Reports')
    BY <2>1, <2>2, ChannelsGrow
  <2> DEFINE snapshot == SnapshotOf([s \in SessionsOn(w) |-> tab[s]], lapsed)
  <2>4. snapshot \in SnapshotsFrom(w, sameInstance, lapsed, Settled, TabsBegun)
    BY DEF SnapshotOf, SnapshotsFrom, Settled, TabsBegun, ControlInv, TabsAgree, SessionsOn
  <2>5. UNCHANGED <<sameInstance, lapsed>> /\ Settled' = Settled /\ TabsBegun' = TabsBegun
    BY <2>1 DEF vars, sessionVars, reservationVars, workerVars, Settled, TabsBegun
  <2> HIDE DEF snapshot
  <2>6. snapshot \in Reports'[w]
    BY <2>4, <2>5 DEF Reports
  <2>7. <<snapshot>> \in Seq(Reports'[w])
    BY <2>6, OneMessage
  <2>8. toBackend' = Sent(toBackend, w, <<snapshot>>)
    BY <1>2 DEF SendSnapshot, snapshot
  <2>9. Carries(toBackend', Reports')
    BY <2>3, <2>7, <2>8, SendKeeps
  <2>10. Promised'
    BY <2>1, <2>2, SameBelieved, PromisedStays DEF vars, sessionVars
  <2> QED BY <2>1, <2>2, <2>3, <2>9, <2>10, InvFollows, SameTabsAgree DEF ChannelsAgree
<1>3. CASE WorkerProcessEnds(w)
  BY <1>3, WorkerEndsKeeps
<1> QED BY <1>1, <1>2, <1>3 DEF LinkStep

LEMMA ControlInvStep ==
  ASSUME ControlInv, ConstantsAssumption, FiniteSessionsAssumption, [ControlNext]_allVars
  PROVE  ControlInv'
<1>1. [Next]_vars
  BY ControlRefines
<1>2. CASE UNCHANGED allVars
  <2>1. UNCHANGED vars /\ UNCHANGED <<workerVars, toWorker, toBackend, createResult>>
    BY <1>2 DEF allVars, controlVars, channelVars, commandVars, resultVars
  <2> QED BY <1>1, <2>1, SameRows, SameBelieved, QuietStep DEF vars, sessionVars
<1>3. CASE \E s \in Sessions : (BackendStep(s) \/ ExpireOne(s)) /\ UNCHANGED controlVars
  <2>1. PICK s \in Sessions : BackendStep(s) \/ ExpireOne(s)
    BY <1>3
  <2>2. UNCHANGED <<workerVars, toWorker, toBackend, createResult>>
    BY <1>3 DEF controlVars, channelVars, commandVars, resultVars
  <2>3. \A t \in Sessions : status'[t] \in Live => status[t] \in Live
    BY <2>1, NoneOpens
  <2>4. NothingNew
    BY <2>2, <2>3 DEF NothingNew, Believed, ControlInv, Promised
  <2> QED BY <1>1, <2>1, <2>2, <2>4, BackendRows, QuietStep
<1>4. CASE \E p \in Profiles : RuntimeStarts(p) /\ UNCHANGED controlVars
  <2>1. UNCHANGED <<workerVars, toWorker, toBackend, createResult, status>>
    BY <1>4 DEF controlVars, channelVars, commandVars, resultVars, RuntimeStarts, OperationResult,
                sessionVars
  <2> QED BY <1>1, <1>4, <2>1, OtherRows, SameBelieved, QuietStep
<1>5. CASE \E s \in Sessions : ControlStep(s) \/ TabStep(s)
  BY <1>1, <1>5, ControlStepKeeps, TabStepKeeps
<1>6. CASE \E w \in Workers : BackendReceives(w)
  BY <1>1, <1>6, ResultKeeps, SnapshotKeeps DEF BackendReceives
<1>7. CASE \E w \in Workers : WorkerReceives(w)
  BY <1>1, <1>7, CommandKeeps, PlanKeeps DEF WorkerReceives
<1>8. CASE \E w \in Workers : LinkStep(w)
  BY <1>1, <1>8, LinkStepKeeps
<1>9. CASE BackendProcessEnds
  <2>1. Restart /\ UNCHANGED workerVars
    BY <1>9 DEF BackendProcessEnds
  <2>2. RowsGrow /\ UNCHANGED released
    BY <2>1, OtherRows
  <2>3. NothingNew
    BY <1>9, <2>1 DEF BackendProcessEnds, Restart, sessionVars, NothingNew, Believed, Results
  <2> QED BY <1>1, <1>9, <2>1, <2>2, <2>3, QuietStep DEF BackendProcessEnds, Disconnected
<1> QED BY <1>2, <1>3, <1>4, <1>5, <1>6, <1>7, <1>8, <1>9 DEF ControlNext

LEMMA ControlInvariance == ControlSpec => []ControlInv
<1>1. ControlInit => ControlInv
  BY ControlInitInv
<1>2. ControlInv /\ [ControlNext]_allVars => ControlInv'
  BY ControlInvStep, ConstantsAssumption, FiniteSessionsAssumption
<1> QED BY <1>1, <1>2, PTL DEF ControlSpec

-----------------------------------------------------------------------------

\* Whatever order results, snapshots and commands arrive in, and whatever is lost with a connection
\* or a process, the Backend joined with its Workers only makes steps of SessionReservations.
THEOREM ImplementsReservationsTheorem == ControlSpec => ImplementsReservations
<1>1. ControlInit => Init
  BY DEF ControlInit
<1>2. ControlInv /\ [ControlNext]_allVars => [Next]_vars
  BY ControlRefines, ConstantsAssumption
<1> QED BY <1>1, <1>2, ControlInvariance, PTL DEF ControlSpec, ImplementsReservations, Spec

\* Maintenance that failed is released when no Tab of it is left and none can come any more: it never
\* was given to a Worker, or a snapshot that was sent after its time had no Tab of it.
THEOREM FailedIsReleasedLastTheorem == ControlSpec => []FailedIsReleasedLast
<1>1. ControlInv => FailedIsReleasedLast
  <2> SUFFICES ASSUME ControlInv, NEW m \in released, status[m] = "FAILED"
               PROVE  tab[m] \notin Present
    BY DEF FailedIsReleasedLast
  <2>1. m \in Sessions
    BY DEF ControlInv, TypeOK
  <2>2. bound[m] = 0 => tab[m] \notin Present
    BY <2>1 DEF ControlInv, TabsAgree
  <2>3. m \in Settled => tab[m] \notin Present
    BY DEF Settled
  <2> QED BY <2>2, <2>3 DEF ControlInv, ReleasedFinally
<1> QED BY <1>1, ControlInvariance, PTL

\* Only a create command adds a Tab.
LEMMA NoOtherTabs ==
  ASSUME ControlInv, [ControlNext]_allVars, \A w \in Workers : ~ ReceiveCreate(w),
         NEW s \in Sessions, tab'[s] \in Present
  PROVE  tab[s] \in Present
<1> USE DEF Present, TabStates
<1>1. tab \in [Sessions -> TabStates]
  BY DEF ControlInv
<1>2. CASE UNCHANGED tab
  BY <1>2
<1>3. CASE \E t \in Sessions : TabStep(t)
  BY <1>1, <1>3 DEF TabStep, TabReady, TabEnds, TabCleanedUp, TabCleanupFails, EndOf
<1>4. CASE \E w \in Workers : ReceivePlan(w)
  <2>1. tab'[s] = tab[s] \/ tab'[s] = EndOf(tab[s])
    BY <1>4 DEF ReceivePlan
  <2> QED BY <1>1, <2>1 DEF EndOf
<1>5. CASE \E w \in Workers, expired \in BOOLEAN : ReceiveClose(w, expired)
  <2>1. tab'[s] = tab[s] \/ tab'[s] = RetiredOrEnding(tab[s])
    BY <1>1, <1>5 DEF ReceiveClose
  <2> QED BY <1>1, <2>1 DEF RetiredOrEnding, EndOf
<1>6. CASE \E w \in Workers : WorkerProcessEnds(w)
  BY <1>6 DEF WorkerProcessEnds
<1>7. \/ UNCHANGED tab \/ \E t \in Sessions : TabStep(t)
      \/ \E w \in Workers : ReceivePlan(w)
      \/ \E w \in Workers, expired \in BOOLEAN : ReceiveClose(w, expired)
      \/ \E w \in Workers : WorkerProcessEnds(w)
  BY DEF ControlNext, allVars, controlVars, workerVars, ControlStep, RequestCreate, CreateUnavailable,
         CreateRejected, ApplyCreateResult, RequestClose, CloseExpires, ApplyCloseResult,
         BackendReceives, ReceiveCreateResult, ReceiveCloseResult, ReceiveSnapshot, WorkerReceives,
         LinkStep, Drop, Connect, SendSnapshot, BackendProcessEnds
<1> QED BY <1>2, <1>3, <1>4, <1>5, <1>6, <1>7

LEMMA AloneStep ==
  ASSUME ControlInv, MaintenanceTabIsAlone, [ControlNext]_allVars
  PROVE  MaintenanceTabIsAlone'
<1>1. CASE \A w \in Workers : ~ ReceiveCreate(w)
  BY <1>1, NoOtherTabs DEF MaintenanceTabIsAlone, SessionsOf
<1>2. CASE \E w \in Workers : ReceiveCreate(w)
  <2>1. PICK w \in Workers : ReceiveCreate(w)
    BY <1>2
  <2>2. PICK s : \/ UNCHANGED tab
                 \/ tab' = [tab EXCEPT ![s] = "CREATING"] /\ ~ Conflict(s)
    BY <2>1 DEF ReceiveCreate, ControlInv
  <2>3. CASE UNCHANGED tab
    BY <2>3 DEF MaintenanceTabIsAlone
  <2>4. CASE tab' = [tab EXCEPT ![s] = "CREATING"] /\ ~ Conflict(s)
    <3> SUFFICES ASSUME NEW m \in Sessions, IsMaintenance(m), tab'[m] \in Present,
                        NEW t \in SessionsOf(ProfileOf[m]) \ {m}, tab'[t] \in Present
                 PROVE  FALSE
      BY DEF MaintenanceTabIsAlone
    <3>1. t \in Sessions /\ ProfileOf[t] = ProfileOf[m]
      BY DEF SessionsOf
    <3>2. tab \in [Sessions -> TabStates]
      BY DEF ControlInv
    <3>3. CASE m = s
      BY <2>4, <3>1, <3>2, <3>3 DEF Conflict
    <3>4. CASE t = s
      BY <2>4, <3>1, <3>2, <3>4 DEF Conflict, SessionsOf
    <3>5. CASE m # s /\ t # s
      BY <2>4, <3>1, <3>2, <3>5 DEF MaintenanceTabIsAlone
    <3> QED BY <3>3, <3>4, <3>5
  <2> QED BY <2>2, <2>3, <2>4
<1> QED BY <1>1, <1>2

LEMMA AloneInvariance == ControlSpec => []MaintenanceTabIsAlone
<1>1. ControlInit => MaintenanceTabIsAlone
  BY DEF ControlInit, MaintenanceTabIsAlone, Present
<1>2. ControlInv /\ MaintenanceTabIsAlone /\ [ControlNext]_allVars => MaintenanceTabIsAlone'
  BY AloneStep
<1> QED BY <1>1, <1>2, ControlInvariance, PTL DEF ControlSpec

\* A Worker that has reported a Session closed never has a Tab for it again, and the Tab of
\* maintenance is the only one of its Profile: the reports on their way to the Backend stay true
\* until they are read, and so does what the Backend made of them.
THEOREM ReportsAreKeptTheorem == ControlSpec => []ReportsAreKept
<1>1. ControlInv => ReportedClosedHasNoTab
  <2> SUFFICES ASSUME ControlInv, NEW w \in Workers, NEW i \in DOMAIN toBackend[w],
                      toBackend[w][i].type = "CLOSE", toBackend[w][i].outcome = "SUCCEEDED"
               PROVE  tab[toBackend[w][i].session] \notin Present
    BY DEF ReportedClosedHasNoTab
  <2>1. toBackend[w][i] \in Reports[w]
    BY ElementOfSeq, LenProperties DEF ControlInv, ChannelsAgree, Carries
  <2>2. toBackend[w][i].session \in Ended
    BY <2>1 DEF Reports, ResultsFrom, SnapshotsFrom
  <2> QED BY <2>2 DEF Ended, Over, Present
<1> QED BY <1>1, ControlInvariance, AloneInvariance, PTL DEF ReportsAreKept

\* No late, repeated or lost message makes the Backend believe in a Tab that never was: a Session
\* that it has given to its user had one.
THEOREM OpenHadTabTheorem == ControlSpec => []OpenHadTab
<1>1. ControlInv => OpenHadTab
  BY DEF ControlInv, Promised, OpenHadTab
<1> QED BY <1>1, ControlInvariance, PTL DEF OpenHadTab

\* What SessionReservations promises holds of the Backend joined with its Workers.
COROLLARY ReservationsKeptTheorem ==
  ControlSpec => [](MaintenanceOwnsProfile /\ WorkerCapacity /\ CreationIsKept /\ OpenIsAllowed /\ NormalQuotas)
BY ImplementsReservationsTheorem, MaintenanceOwnsProfileTheorem, WorkerCapacityTheorem,
   CreationIsKeptTheorem, OpenIsAllowedTheorem, NormalQuotasTheorem, PTL DEF ImplementsReservations
=============================================================================
