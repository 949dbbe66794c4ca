---------------------------- MODULE WorkerTabProofs ----------------------------
(***************************************************************************)
(* Proofs about WorkerTabSessions: entries own Tabs, nothing comes back,   *)
(* and the manager implements TabOwnership.                                *)
(***************************************************************************)
EXTENDS WorkerTabSessions, FiniteSetTheorems, TLAPS

-----------------------------------------------------------------------------
(* The inductive invariant.                                                *)

\* The create command of s is refused from now on.
TooLate(s) == s \in retired \/ Expired(s)

\* Where the continuations of an entry are, and what they may still rely on.
ContinuationsAgree(s) ==
  /\ attach[s] = "NONE" =>
       s \notin entries \union closing \union issuing /\ close[s] = "IDLE" /\ status[s] = "NONE"
  /\ attach[s] \notin {"NONE", "DONE", "FAILED"} => s \in entries
  /\ attach[s] \in {"CLOSE_CORE", "FILES", "FAILED"} \/ close[s] # "IDLE" \/ status[s] = "CLOSING" =>
       s \in closing
  /\ close[s] \in {"TICKETS", "CLOSE_CORE", "FILES"} => Settled(s)
  /\ close[s] \in {"CLOSE_CORE", "FILES"} => s \in entries /\ tickets[s] = <<>>
  /\ s \in issuing => attach[s] = "DONE" /\ s \in entries /\ tickets[s] # <<>>

\* What the entry owns, and that it is not made a second time.
EntryOwns(s) ==
  /\ attach[s] = "FILES" \/ close[s] = "FILES" => s \notin tabs
  /\ s \in tabs => s \in entries
  /\ s \in published <=> s \in entries
  /\ attach[s] # "NONE" /\ s \notin entries => s \in closing /\ TooLate(s)
  /\ s \in waiting \union acknowledged => TooLate(s)
  /\ s \in acknowledged => s \notin entries

EntryInv == \A s \in Sessions : ContinuationsAgree(s) /\ EntryOwns(s)

TabsInv == TypeOK /\ EntryInv

LEMMA InitTabs == Init => TabsInv
<1> SUFFICES ASSUME Init PROVE TabsInv
  OBVIOUS
<1>1. tickets \in [Sessions -> Seq(Nat)]
  BY DEF Init
<1>2. TypeOK
  BY <1>1, ConstantsAssumption DEF Init, TypeOK, AttachSteps, CloseSteps, Statuses
<1>3. EntryInv
  BY DEF Init, EntryInv, ContinuationsAgree, EntryOwns
<1> QED BY <1>2, <1>3 DEF TabsInv

-----------------------------------------------------------------------------
(* Types.                                                                  *)

LEMMA ShorterQueue ==
  ASSUME NEW queue \in Seq(Nat), queue # <<>>
  PROVE  Tail(queue) \in Seq(Nat) /\ Head(queue) \in Nat
  OBVIOUS

LEMMA SessionStepTypes ==
  ASSUME TabsInv, NEW s \in Sessions, SessionStep(s)
  PROVE  TypeOK'
<1> USE DEF TabsInv, TypeOK, AttachSteps, CloseSteps, Statuses, processVars, managerVars, viewerVars, entryVars,
            answerVars
<1>1. CASE Create(s)
  BY <1>1, ConstantsAssumption DEF Create, PrunedRetired, PrunedCommands
<1>2. CASE \E event \in CoreStates : StateChanged(s, event)
  BY <1>2 DEF StateChanged, StatusOf
<1>3. CASE \E expiry \in 1 .. MaxTime + 1 : RenewLease(s, expiry)
  BY <1>3, ConstantsAssumption DEF RenewLease
<1>4. CASE \E g \in 1 .. MaxViewer : RequestTicket(s, g)
  BY <1>4, ConstantsAssumption DEF RequestTicket
<1>5. CASE CloseSession(s) \/ LeaseExpires(s)
  BY <1>5 DEF CloseSession, LeaseExpires, StartClosing
<1>6. CASE CloseCommand(s)
  BY <1>6 DEF CloseCommand, StartClosing, RetiredByClose, PrunedRetired, PrunedCommands
<1>7. CASE Authorized(s) \/ NotAuthorized(s) \/ Attached(s) \/ NotAttached(s)
  BY <1>7 DEF Authorized, NotAuthorized, Attached, NotAttached, AttachFailed
<1>8. CASE TicketTurn(s)
  <2>1. Tail(tickets[s]) \in Seq(Nat)
    BY <1>8, ShorterQueue DEF TicketTurn
  <2> QED BY <1>8, <2>1 DEF TicketTurn
<1>9. CASE \E issued \in BOOLEAN : TicketAnswered(s, issued)
  <2>1. PICK issued \in BOOLEAN : TicketAnswered(s, issued)
    BY <1>9
  <2>2. Tail(tickets[s]) \in Seq(Nat) /\ Head(tickets[s]) \in Nat
    BY <2>1, ShorterQueue DEF TicketAnswered, EntryInv, ContinuationsAgree
  <2>3. viewer' \in [Sessions -> Nat] /\ published' \subseteq Sessions
    <3>1. CASE issued /\ Live(s)
      BY <2>1, <2>2, <3>1 DEF TicketAnswered
    <3>2. CASE ~ (issued /\ Live(s))
      BY <2>1, <3>2 DEF TicketAnswered
    <3> QED BY <3>1, <3>2
  <2>4. tickets' \in [Sessions -> Seq(Nat)]
    BY <2>1, <2>2 DEF TicketAnswered
  <2> QED BY <2>1, <2>3, <2>4 DEF TicketAnswered
<1>10. CASE CloseAfterCreation(s) \/ CloseAfterTickets(s)
  BY <1>10 DEF CloseAfterCreation, CloseAfterTickets
<1>11. CASE CoreClosed(s) \/ CleanedUp(s)
  BY <1>11 DEF CoreClosed, CleanedUp
<1>12. CASE CleanupFails(s) \/ CloseAnswered(s)
  BY <1>12 DEF CleanupFails, CloseAfterFailure, CloseAnswered
<1> QED
  BY <1>1, <1>2, <1>3, <1>4, <1>5, <1>6, <1>7, <1>8, <1>9, <1>10, <1>11, <1>12
  DEF SessionStep, Continue

LEMMA StepTypes ==
  ASSUME TabsInv, [Next]_vars
  PROVE  TypeOK'
<1> USE DEF TabsInv
<1>1. CASE Tick
  BY <1>1 DEF Tick, TypeOK, managerVars, viewerVars, entryVars, answerVars
<1>2. CASE Shutdown
  BY <1>2 DEF Shutdown, StartClosing, TypeOK, CloseSteps, Statuses, managerVars, viewerVars, answerVars
<1>3. CASE UNCHANGED vars
  BY <1>3 DEF TypeOK, vars, processVars, managerVars, viewerVars, entryVars, answerVars
<1> QED BY <1>1, <1>2, <1>3, SessionStepTypes DEF Next

-----------------------------------------------------------------------------
(* Steps, one group of operations at a time.                               *)

LEMMA SessionStepOwns ==
  ASSUME TabsInv, TypeOK', NEW s \in Sessions, SessionStep(s)
  PROVE  EntryInv'
<1> USE DEF TabsInv, EntryInv, ContinuationsAgree, EntryOwns, TooLate, Settled, processVars,
            managerVars, viewerVars, entryVars, answerVars
<1>1. CASE Create(s)
  <2>1. attach[s] = "NONE"
    BY <1>1 DEF Create, PrunedRetired
  <2> QED BY <1>1, <2>1 DEF Create, PrunedRetired, Expired, TypeOK
<1>2. CASE \E event \in CoreStates : StateChanged(s, event)
  BY <1>2 DEF StateChanged, MayPublish, StatusOf, Expired, TypeOK
<1>3. CASE \E expiry \in 1 .. MaxTime + 1 : RenewLease(s, expiry)
  BY <1>3 DEF RenewLease, Expired
<1>4. CASE \E g \in 1 .. MaxViewer : RequestTicket(s, g)
  BY <1>4 DEF RequestTicket, Expired, TypeOK
<1>5. CASE CloseSession(s) \/ LeaseExpires(s)
  BY <1>5 DEF CloseSession, LeaseExpires, StartClosing, Expired, TypeOK
<1>6. CASE CloseCommand(s)
  BY <1>6 DEF CloseCommand, StartClosing, RetiredByClose, PrunedRetired, Expired, TypeOK
<1>7. CASE Authorized(s) \/ NotAuthorized(s)
  BY <1>7 DEF Authorized, NotAuthorized, AttachFailed, MayGoOn, Live, Expired, TypeOK
<1>8. CASE Attached(s) \/ NotAttached(s)
  BY <1>8 DEF Attached, NotAttached, AttachFailed, MayGoOn, Live, Expired, TypeOK
<1>9. CASE TicketTurn(s)
  <2>1. attach[s] # "NONE" /\ s \notin issuing /\ close[s] \notin {"CLOSE_CORE", "FILES"}
    BY <1>9 DEF TicketTurn
  <2>2. CASE issuing' = issuing
    BY <1>9, <2>1, <2>2 DEF TicketTurn, Expired, TypeOK
  <2>3. CASE issuing' # issuing
    <3>1. attach[s] = "DONE" /\ s \in entries /\ issuing' = issuing \union {s} /\ tickets' = tickets
      BY <1>9, <2>1, <2>3 DEF TicketTurn, Live
    <3> QED BY <1>9, <2>1, <3>1 DEF TicketTurn, Expired, TypeOK
  <2> QED BY <2>2, <2>3
<1>10. CASE \E issued \in BOOLEAN : TicketAnswered(s, issued)
  <2>1. PICK issued \in BOOLEAN : TicketAnswered(s, issued)
    BY <1>10
  <2> QED BY <2>1 DEF TicketAnswered, Expired, TypeOK
<1>11. CASE CloseAfterCreation(s) \/ CloseAfterTickets(s)
  BY <1>11 DEF CloseAfterCreation, CreationSettled, CloseAfterTickets, TicketsDone, CleanupNeeded,
               Expired, TypeOK
<1>12. CASE CoreClosed(s)
  BY <1>12 DEF CoreClosed, Expired, TypeOK
<1>13. CASE CleanedUp(s)
  BY <1>13 DEF CleanedUp, Expired, TypeOK
<1>14. CASE CleanupFails(s)
  BY <1>14 DEF CleanupFails, CloseAfterFailure, Expired, TypeOK
<1>15. CASE CloseAnswered(s)
  BY <1>15 DEF CloseAnswered, Expired
<1> QED
  BY <1>1, <1>2, <1>3, <1>4, <1>5, <1>6, <1>7, <1>8, <1>9, <1>10, <1>11, <1>12, <1>13, <1>14, <1>15
  DEF SessionStep, Continue

LEMMA TabsStep ==
  ASSUME TabsInv, [Next]_vars
  PROVE  TabsInv'
<1> USE DEF EntryInv, ContinuationsAgree, EntryOwns, TooLate, Settled, Expired, processVars,
            managerVars, viewerVars, entryVars, answerVars
<1>1. TypeOK'
  BY StepTypes
<1>2. CASE Tick
  BY <1>1, <1>2, ConstantsAssumption DEF Tick, TabsInv, TypeOK
<1>3. CASE Shutdown
  BY <1>1, <1>3 DEF Shutdown, StartClosing, TabsInv, TypeOK
<1>4. CASE UNCHANGED vars
  BY <1>1, <1>4 DEF vars, TabsInv
<1> QED BY <1>1, <1>2, <1>3, <1>4, SessionStepOwns DEF Next, TabsInv

THEOREM TabsInvariance == Spec => []TabsInv
  BY InitTabs, TabsStep, PTL DEF Spec

\* Every reachable state of the manager has the declared types.
THEOREM TabsTypeInvariance == Spec => []TypeOK
  BY TabsInvariance, PTL DEF TabsInv

-----------------------------------------------------------------------------
(* Ownership.                                                              *)

LEMMA OwnershipFollows == TabsInv => EntriesOwnTabs
<1> SUFFICES ASSUME TabsInv PROVE EntriesOwnTabs
  OBVIOUS
<1> USE DEF TabsInv, EntryInv, ContinuationsAgree, EntryOwns, Settled
<1>1. TabHasEntry
  BY DEF TabHasEntry
<1>2. PublishedHasEntry
  BY DEF PublishedHasEntry, TypeOK
<1>3. ASSUME NEW s \in Sessions, Cleaning(s) # {}
      PROVE  Cardinality(Cleaning(s)) = 1 /\ attach[s] # "CORE" /\ s \notin issuing
  <2>1. attach[s] \in {"CLOSE_CORE", "FILES"} \/ close[s] \in {"CLOSE_CORE", "FILES"}
    BY <1>3 DEF Cleaning
  <2>2. attach[s] # "CORE" /\ s \notin issuing
    BY <2>1
  <2>3. ~ (attach[s] \in {"CLOSE_CORE", "FILES"} /\ close[s] \in {"CLOSE_CORE", "FILES"})
    OBVIOUS
  <2>4. CASE attach[s] \in {"CLOSE_CORE", "FILES"}
    <3>1. Cleaning(s) = {<<"attach", attach[s]>>}
      BY <2>3, <2>4 DEF Cleaning
    <3> QED BY <2>2, <3>1, FS_Singleton
  <2>5. CASE close[s] \in {"CLOSE_CORE", "FILES"}
    <3>1. Cleaning(s) = {<<"close", close[s]>>}
      BY <2>3, <2>5 DEF Cleaning
    <3> QED BY <2>2, <3>1, FS_Singleton
  <2> QED BY <2>1, <2>4, <2>5
<1>4. AcknowledgedIsGone
  BY DEF AcknowledgedIsGone, TypeOK
<1> QED BY <1>1, <1>2, <1>3, <1>4 DEF EntriesOwnTabs, CleanupIsAlone

\* However closes, leases, shutdown and failed cleanups overtake an attachment: the entry of a
\* Session owns its Tab (EntriesOwnTabs), for any number of Sessions and any deadlines.
THEOREM EntriesOwnTabsTheorem == Spec => []EntriesOwnTabs
  BY TabsInvariance, OwnershipFollows, PTL

-----------------------------------------------------------------------------
(* Nothing comes back.                                                     *)

LEMMA NothingRevived ==
  ASSUME TabsInv, NEW s \in Sessions, SessionStep(s), NEW t \in Sessions
  PROVE  /\ status[t] = "CLOSING" => status'[t] = "CLOSING"
         /\ t \in entries /\ LeaseOver(t) => lease'[t] = lease[t]
<1> USE DEF TabsInv, EntryInv, ContinuationsAgree, EntryOwns, TooLate, TypeOK, processVars,
            managerVars, viewerVars, entryVars, answerVars
<1>1. CASE Create(s)
  <2>1. attach[s] = "NONE"
    BY <1>1 DEF Create, PrunedRetired
  <2> QED BY <1>1, <2>1 DEF Create
<1>2. CASE \E event \in CoreStates : StateChanged(s, event)
  BY <1>2 DEF StateChanged, MayPublish
<1>3. CASE \E expiry \in 1 .. MaxTime + 1 : RenewLease(s, expiry)
  BY <1>3 DEF RenewLease, Renewable, Live
<1>4. CASE \E g \in 1 .. MaxViewer : RequestTicket(s, g)
  BY <1>4 DEF RequestTicket
<1>5. CASE CloseSession(s) \/ LeaseExpires(s) \/ CloseCommand(s)
  BY <1>5 DEF CloseSession, LeaseExpires, CloseCommand, StartClosing
<1>6. CASE Attached(s)
  BY <1>6 DEF Attached, MayGoOn, Live
<1>7. CASE Authorized(s) \/ NotAuthorized(s) \/ NotAttached(s)
  BY <1>7 DEF Authorized, NotAuthorized, NotAttached
<1>8. CASE TicketTurn(s) \/ \E issued \in BOOLEAN : TicketAnswered(s, issued)
  BY <1>8 DEF TicketTurn, TicketAnswered
<1>9. CASE CloseAfterCreation(s) \/ CloseAfterTickets(s) \/ CoreClosed(s) \/ CleanedUp(s)
  BY <1>9 DEF CloseAfterCreation, CloseAfterTickets, CoreClosed, CleanedUp
<1>10. CASE CleanupFails(s) \/ CloseAnswered(s)
  BY <1>10 DEF CleanupFails, CloseAnswered
<1> QED
  BY <1>1, <1>2, <1>3, <1>4, <1>5, <1>6, <1>7, <1>8, <1>9, <1>10 DEF SessionStep, Continue

\* Nothing but the end of the entry follows a published CLOSING, and a late renewal leaves an
\* expired lease expired (NothingComesBack).
THEOREM NothingComesBackTheorem == Spec => NothingComesBack
<1>1. ASSUME TabsInv, [Next]_vars
      PROVE  [\A s \in Sessions :
                /\ status[s] = "CLOSING" => status'[s] = "CLOSING"
                /\ s \in entries /\ LeaseOver(s) => lease'[s] = lease[s]]_vars
  <2>1. CASE Tick
    BY <2>1 DEF Tick, entryVars
  <2>2. CASE Shutdown
    BY <1>1, <2>2 DEF Shutdown, StartClosing, TabsInv, TypeOK
  <2>3. CASE \E s \in Sessions : SessionStep(s)
    BY <1>1, <2>3, NothingRevived
  <2> QED BY <1>1, <2>1, <2>2, <2>3 DEF Next
<1> QED BY <1>1, TabsInvariance, PTL DEF Spec, NothingComesBack

-----------------------------------------------------------------------------
(* TabOwnership.                                                           *)

\* Steps that only end Sessions: no entry is new, none is forgotten, and who was gone stays so.
LEMMA EndingStep ==
  ASSUME TypeOK, TypeOK', entries' \subseteq entries, Gone \subseteq Gone', entries \ entries' \subseteq Gone'
  PROVE  Tabs!Next
<1> DEFINE ended == Gone' \ Gone
<1>1. ended \in SUBSET Sessions
  BY DEF Gone
<1>2. entries' = entries \ ended
  BY DEF Gone
<1>3. Gone' = Gone \union ended
  OBVIOUS
<1>4. Tabs!End(ended)
  BY <1>2, <1>3 DEF Tabs!End
<1> QED BY <1>1, <1>4 DEF Tabs!Next

LEMMA CreateOwns ==
  ASSUME TabsInv, NEW s \in Sessions, Create(s)
  PROVE  Tabs!Own(s)
<1> USE DEF Create, PrunedRetired, PrunedCommands, Expired, processVars, answerVars
<1>1. s \notin entries \union Gone
  BY DEF Gone, TabsInv, EntryInv, EntryOwns, TooLate
<1>2. \A t \in entries : Tabs!Compatible(s, t)
  BY ConstantsAssumption DEF Conflicts, Tabs!Compatible, TabsInv, TypeOK
<1>3. entries' = entries \union {s}
  OBVIOUS
<1>4. Gone' = Gone
  BY <1>1 DEF Gone
<1> QED BY <1>1, <1>2, <1>3, <1>4 DEF Tabs!Own

LEMMA OtherSteps ==
  ASSUME TabsInv, NEW s \in Sessions, SessionStep(s), ~ Create(s)
  PROVE  entries' \subseteq entries /\ Gone \subseteq Gone' /\ entries \ entries' \subseteq Gone'
<1> USE DEF TabsInv, Gone, Expired, processVars, managerVars, viewerVars, entryVars, answerVars
<1>1. CASE CloseCommand(s)
  BY <1>1 DEF CloseCommand, RetiredByClose, PrunedRetired, PrunedCommands
<1>2. CASE CloseAnswered(s)
  BY <1>2 DEF CloseAnswered
<1>3. CASE CleanedUp(s)
  BY <1>3 DEF CleanedUp, TypeOK
<1>4. CASE CleanupFails(s)
  BY <1>4 DEF CleanupFails
<1>5. CASE \/ \E event \in CoreStates : StateChanged(s, event)
           \/ \E expiry \in 1 .. MaxTime + 1 : RenewLease(s, expiry)
           \/ \E g \in 1 .. MaxViewer : RequestTicket(s, g)
  BY <1>5 DEF StateChanged, RenewLease, RequestTicket
<1>6. CASE CloseSession(s) \/ LeaseExpires(s)
  BY <1>6 DEF CloseSession, LeaseExpires
<1>7. CASE Authorized(s) \/ NotAuthorized(s) \/ Attached(s) \/ NotAttached(s)
  BY <1>7 DEF Authorized, NotAuthorized, Attached, NotAttached
<1>8. CASE TicketTurn(s) \/ \E issued \in BOOLEAN : TicketAnswered(s, issued)
  BY <1>8 DEF TicketTurn, TicketAnswered
<1>9. CASE CloseAfterCreation(s) \/ CloseAfterTickets(s) \/ CoreClosed(s)
  BY <1>9 DEF CloseAfterCreation, CloseAfterTickets, CoreClosed
<1> QED
  BY <1>1, <1>2, <1>3, <1>4, <1>5, <1>6, <1>7, <1>8, <1>9 DEF SessionStep, Continue

\* The manager keeps the promise SessionControl relies on: each Session owns Profile resources once,
\* maintenance owns its Profile alone, and what is gone stays gone.
THEOREM ImplementsTabOwnershipTheorem == Spec => ImplementsTabOwnership
<1>1. Init => Tabs!Init
  BY ConstantsAssumption DEF Init, Tabs!Init, Gone, Expired
<1>2. ASSUME TabsInv, TabsInv', [Next]_vars
      PROVE  [Tabs!Next]_<<entries, Gone>>
  <2> USE DEF processVars, managerVars, answerVars
  <2>1. CASE Tick
    <3>1. entries' = entries /\ Gone \subseteq Gone'
      BY <1>2, <2>1, ConstantsAssumption DEF Tick, Gone, Expired, TabsInv, TypeOK
    <3> QED BY <1>2, <3>1, EndingStep DEF TabsInv
  <2>2. CASE Shutdown \/ UNCHANGED vars
    BY <2>2 DEF Shutdown, vars, Gone, Expired
  <2>3. ASSUME NEW s \in Sessions, SessionStep(s)
        PROVE  Tabs!Next
    <3>1. CASE Create(s)
      BY <1>2, <3>1, CreateOwns DEF Tabs!Next
    <3>2. CASE ~ Create(s)
      BY <1>2, <2>3, <3>2, OtherSteps, EndingStep DEF TabsInv
    <3> QED BY <3>1, <3>2
  <2> QED BY <1>2, <2>1, <2>2, <2>3 DEF Next
<1> QED BY <1>1, <1>2, TabsInvariance, PTL DEF Spec, ImplementsTabOwnership, Tabs!Spec
=============================================================================
