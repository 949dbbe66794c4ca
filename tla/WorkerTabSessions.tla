-------------------------- MODULE WorkerTabSessions --------------------------
(***************************************************************************)
(* WorkerTabSessions, the Worker's owner of Tab Sessions: the entry of a   *)
(* Session, the continuations of its #attach and its closeSession, and its *)
(* queue of Viewer tickets.  One action is what runs between two awaits.   *)
(*                                                                         *)
(* The Remote Tab Core is external: an attachment that was asked for       *)
(* settles either way and cannot be cancelled, and the Core keeps what it  *)
(* attached until closeSession of the Core succeeds.  The time of the      *)
(* process only matters where it is compared with the two deadlines of a   *)
(* Session, the expiry of its reservation and its lease.  A Session has    *)
(* one create command (a retry of it returns the promise of the first) and *)
(* the close commands of the Backend carry the same expiry.                *)
(*                                                                         *)
(* An operator named Faulty... is a mistake one could make in the operator *)
(* that follows it; it is not part of the model.                           *)
(***************************************************************************)
EXTENDS Naturals, Sequences, FiniteSets

CONSTANTS
  Sessions,
  ProfileOf,      \* the Profile each Session is created in
  KindOf,         \* [Sessions -> {"NORMAL", "MAINTENANCE"}]
  Expires,        \* reservationExpiresAt of the create command
  FirstLease,     \* leaseExpiresAt of the create command
  MaxTime,        \* bound: the clock stops there
  MaxViewer,      \* bound: Viewer generations asked for
  MaxTickets      \* bound: tickets waiting in one Session's queue

ASSUME ConstantsAssumption ==
  /\ KindOf \in [Sessions -> {"NORMAL", "MAINTENANCE"}]
  /\ Expires \in [Sessions -> Nat]
  /\ FirstLease \in [Sessions -> Nat]
  /\ MaxTime \in Nat
  /\ MaxViewer \in Nat
  /\ MaxTickets \in Nat

VARIABLES
  now,
  shutdown,      \* #closed
  entries,       \* Sessions in #entries
  retired,       \* #retired
  commands,      \* Sessions whose create command is in #commands
  \* the entry, which its own continuations keep when it has left #entries
  attach,        \* where #attach is; it settles entry.creation in DONE or FAILED
  close,         \* where entry.close is, IDLE when undefined
  closing,       \* Sessions with entry.closing
  status,        \* entry.fact.status, NONE before there was an entry
  lease,         \* entry.fact.leaseExpiresAt
  viewer,        \* entry.fact.viewerGeneration
  tickets,       \* entry.ticketQueue: the generations asked for
  issuing,       \* Sessions whose first ticket is at the Core
  \* around it
  tabs,          \* Sessions the Core has attached
  published,     \* Sessions whose fact the next snapshot carries (#sessions of the runtime)
  waiting,       \* close commands whose handler awaits entry.close
  acknowledged   \* Sessions a close command was answered with SUCCEEDED for

processVars == <<now, shutdown>>
managerVars == <<entries, retired, commands>>
viewerVars == <<viewer, tickets, issuing>>
entryVars == <<attach, close, closing, status, lease, viewerVars>>
answerVars == <<waiting, acknowledged>>
vars == <<processVars, managerVars, entryVars, tabs, published, answerVars>>

-----------------------------------------------------------------------------

AttachSteps == {"RESOLVE", "AUTHORIZE", "CORE", "DONE", "CLOSE_CORE", "FILES", "FAILED"}
CloseSteps == {"IDLE", "CREATION", "TICKETS", "CLOSE_CORE", "FILES"}
Statuses == {"NONE", "CREATING", "READY", "ATTACHED", "CLOSING"}

TypeOK ==
  /\ now \in Nat
  /\ shutdown \in BOOLEAN
  /\ entries \subseteq Sessions
  /\ retired \subseteq Sessions
  /\ commands \subseteq Sessions
  /\ attach \in [Sessions -> AttachSteps \union {"NONE"}]
  /\ close \in [Sessions -> CloseSteps]
  /\ closing \subseteq Sessions
  /\ status \in [Sessions -> Statuses]
  /\ lease \in [Sessions -> Nat]
  /\ viewer \in [Sessions -> Nat]
  /\ tickets \in [Sessions -> Seq(Nat)]
  /\ issuing \subseteq Sessions
  /\ tabs \subseteq Sessions
  /\ published \subseteq Sessions
  /\ waiting \subseteq Sessions
  /\ acknowledged \subseteq Sessions

Init ==
  /\ now = 0
  /\ shutdown = FALSE
  /\ entries = {} /\ retired = {} /\ commands = {}
  /\ attach = [s \in Sessions |-> "NONE"]
  /\ close = [s \in Sessions |-> "IDLE"]
  /\ closing = {}
  /\ status = [s \in Sessions |-> "NONE"]
  /\ lease = FirstLease
  /\ viewer = [s \in Sessions |-> 0]
  /\ tickets = [s \in Sessions |-> <<>>]
  /\ issuing = {}
  /\ tabs = {}
  /\ published = {}
  /\ waiting = {} /\ acknowledged = {}

Expired(s) == now >= Expires[s]
LeaseOver(s) == now >= lease[s]

\* #assertLive
Live(s) == s \notin closing /\ ~ shutdown /\ ~ LeaseOver(s)

\* #pruneCommands
PrunedRetired == {s \in retired : ~ Expired(s)}
PrunedCommands == {s \in commands : ~ Expired(s) \/ s \in entries}

Settled(s) == attach[s] \in {"DONE", "FAILED"}

Tick ==
  /\ now < MaxTime
  /\ now' = now + 1
  /\ UNCHANGED <<shutdown, managerVars, entryVars, tabs, published, answerVars>>

-----------------------------------------------------------------------------
(* Creation.                                                               *)

\* A Session that is still closing keeps its Profile.
FaultyConflicts(s, t) ==
  /\ t \notin closing
  /\ ProfileOf[s] = ProfileOf[t]
  /\ "MAINTENANCE" \in {KindOf[s], KindOf[t]}
Conflicts(s, t) ==
  /\ ProfileOf[s] = ProfileOf[t]
  /\ "MAINTENANCE" \in {KindOf[s], KindOf[t]}

\* create, as far as the first await in #attach.  Whatever it refuses only prunes.
Create(s) ==
  /\ ~ shutdown
  /\ s \notin entries
  /\ s \notin PrunedRetired \union PrunedCommands
  /\ \A t \in entries : ~ Conflicts(s, t)
  /\ ~ Expired(s)
  /\ now < FirstLease[s]
  /\ entries' = entries \union {s}
  /\ retired' = PrunedRetired
  /\ commands' = PrunedCommands \union {s}
  /\ attach' = [attach EXCEPT ![s] = "RESOLVE"]
  /\ lease' = [lease EXCEPT ![s] = FirstLease[s]]
  /\ status' = [status EXCEPT ![s] = "CREATING"]
  /\ published' = published \union {s}
  /\ UNCHANGED <<processVars, close, closing, viewerVars, tabs, answerVars>>

MayGoOn(s) == Live(s) /\ ~ Expired(s)

\* The catch of #attach starts to clean up.
AttachFailed(s) ==
  /\ attach' = [attach EXCEPT ![s] = "CLOSE_CORE"]
  /\ closing' = closing \union {s}

\* resolveProfile and authorizeNavigation have succeeded, ...
Authorized(s) ==
  /\ attach[s] \in {"RESOLVE", "AUTHORIZE"}
  /\ IF MayGoOn(s)
     THEN /\ attach' = [attach EXCEPT ![s] = IF @ = "RESOLVE" THEN "AUTHORIZE" ELSE "CORE"]
          /\ UNCHANGED closing
     ELSE AttachFailed(s)
  /\ UNCHANGED <<processVars, managerVars, close, status, lease, viewerVars, tabs, published,
                 answerVars>>

\* ... were refused, cancelled or have run into the deadline of #waitAuthorized.
NotAuthorized(s) ==
  /\ attach[s] \in {"RESOLVE", "AUTHORIZE"}
  /\ AttachFailed(s)
  /\ UNCHANGED <<processVars, managerVars, close, status, lease, viewerVars, tabs, published,
                 answerVars>>

\* core.attachSession has resolved: the Tab exists, even if nobody wants it any more.
Attached(s) ==
  /\ attach[s] = "CORE"
  /\ tabs' = tabs \union {s}
  /\ IF MayGoOn(s)
     THEN /\ attach' = [attach EXCEPT ![s] = "DONE"]
          /\ status' = [status EXCEPT ![s] = "READY"]
          /\ published' = published \union {s}
          /\ UNCHANGED closing
     ELSE AttachFailed(s) /\ UNCHANGED <<status, published>>
  /\ UNCHANGED <<processVars, managerVars, close, lease, viewerVars, answerVars>>

NotAttached(s) ==
  /\ attach[s] = "CORE"
  /\ AttachFailed(s)
  /\ UNCHANGED <<processVars, managerVars, close, status, lease, viewerVars, tabs, published,
                 answerVars>>

-----------------------------------------------------------------------------
(* Viewers and leases.                                                     *)

\* #onState of a Tab that goes on.  ATTACHED stands for CONNECTED, SUSPENDED and DISCONNECTED.
CoreStates == {"READY", "CONNECTED", "SUSPENDED", "RECONNECTING"}
FaultyStatusOf(event) == event
StatusOf(event) == IF event = "READY" THEN "READY" ELSE "ATTACHED"

MayPublish(s) == s \notin closing
StateChanged(s, event) ==
  /\ s \in tabs
  /\ MayPublish(s)
  /\ status' = [status EXCEPT ![s] = StatusOf(event)]
  /\ published' = published \union {s}
  /\ UNCHANGED <<processVars, managerVars, attach, close, closing, lease, viewerVars, tabs,
                 answerVars>>

\* renewLease, which only ever moves the expiry of a lease that is not over.
FaultyRenewable(s) == s \notin closing
Renewable(s) == Live(s)
RenewLease(s, expiry) ==
  /\ s \in entries
  /\ Renewable(s)
  /\ expiry > now /\ expiry > lease[s]
  /\ lease' = [lease EXCEPT ![s] = expiry]
  /\ published' = published \union {s}
  /\ UNCHANGED <<processVars, managerVars, attach, close, closing, status, viewerVars, tabs,
                 answerVars>>

\* createViewerTicket.  One that is asked for while the Session is closing fails in its turn.
RequestTicket(s, g) ==
  /\ s \in entries \ closing
  /\ Len(tickets[s]) < MaxTickets
  /\ tickets' = [tickets EXCEPT ![s] = Append(@, g)]
  /\ UNCHANGED <<processVars, managerVars, attach, close, closing, status, lease, viewer,
                 issuing, tabs, published, answerVars>>

\* The first in the queue has awaited entry.creation.
TicketTurn(s) ==
  /\ tickets[s] # <<>>
  /\ s \notin issuing
  /\ Settled(s)
  /\ IF attach[s] = "DONE" /\ Live(s) /\ Head(tickets[s]) > viewer[s]
     THEN issuing' = issuing \union {s} /\ UNCHANGED tickets
     ELSE tickets' = [tickets EXCEPT ![s] = Tail(@)] /\ UNCHANGED issuing
  /\ UNCHANGED <<processVars, managerVars, attach, close, closing, status, lease, viewer, tabs,
                 published, answerVars>>

\* The Core has answered it, with a ticket or an error.
TicketAnswered(s, issued) ==
  /\ s \in issuing
  /\ issuing' = issuing \ {s}
  /\ tickets' = [tickets EXCEPT ![s] = Tail(@)]
  /\ IF issued /\ Live(s)
     THEN viewer' = [viewer EXCEPT ![s] = Head(tickets[s])] /\ published' = published \union {s}
     ELSE UNCHANGED <<viewer, published>>
  /\ UNCHANGED <<processVars, managerVars, attach, close, closing, status, lease, tabs,
                 answerVars>>

-----------------------------------------------------------------------------
(* Closing.                                                                *)

\* closeSession up to its first await, for those of S that have an entry and are not closed yet.
StartClosing(S) ==
  LET starting == {s \in S \intersect entries : close[s] = "IDLE"} IN
  /\ closing' = closing \union starting
  /\ close' = [s \in Sessions |-> IF s \in starting THEN "CREATION" ELSE close[s]]
  /\ status' = [s \in Sessions |-> IF s \in starting THEN "CLOSING" ELSE status[s]]
  /\ published' = published \union starting

\* The reconciliation plan, the end of the Runtime, a recycling policy, a failed observation, or the
\* Core, whose Tab went CLOSED or FAILED.
CloseSession(s) ==
  /\ s \in entries
  /\ close[s] = "IDLE"
  /\ StartClosing({s})
  /\ UNCHANGED <<processVars, managerVars, attach, lease, viewerVars, tabs, answerVars>>

\* The timer of #scheduleLease, cleared by whatever sets entry.closing.
LeaseExpires(s) ==
  /\ s \in entries \ closing
  /\ LeaseOver(s)
  /\ StartClosing({s})
  /\ UNCHANGED <<processVars, managerVars, attach, lease, viewerVars, tabs, answerVars>>

FaultyRetiredByClose(s) == PrunedRetired
RetiredByClose(s) == PrunedRetired \union {s}

\* executeSessionClose.  It may overtake the create command.
CloseCommand(s) ==
  /\ s \notin waiting \union acknowledged
  /\ retired' = RetiredByClose(s)
  /\ commands' = PrunedCommands
  /\ StartClosing({s})
  /\ waiting' = waiting \union {s}
  /\ UNCHANGED <<processVars, entries, attach, lease, viewerVars, tabs, acknowledged>>

\* Its answer once closeSession has resolved: SUCCEEDED when the facts no longer have the Session.
CloseAnswered(s) ==
  /\ s \in waiting
  /\ close[s] = "IDLE"
  /\ waiting' = waiting \ {s}
  /\ acknowledged' = IF s \notin published THEN acknowledged \union {s} ELSE acknowledged
  /\ UNCHANGED <<processVars, managerVars, entryVars, tabs, published>>

FaultyCreationSettled(s) == TRUE
CreationSettled(s) == Settled(s)

\* entry.close goes on when the creation has settled ...
CloseAfterCreation(s) ==
  /\ close[s] = "CREATION"
  /\ CreationSettled(s)
  /\ close' = [close EXCEPT ![s] = "TICKETS"]
  /\ UNCHANGED <<processVars, managerVars, attach, closing, status, lease, viewerVars, tabs,
                 published, answerVars>>

TicketsDone(s) == tickets[s] = <<>>

FaultyCleanupNeeded(s) == TRUE
CleanupNeeded(s) == s \in entries

\* ... and the queue is empty.  #cleanup returns at once if #attach has cleaned up already.
CloseAfterTickets(s) ==
  /\ close[s] = "TICKETS"
  /\ TicketsDone(s)
  /\ close' = [close EXCEPT ![s] = IF CleanupNeeded(s) THEN "CLOSE_CORE" ELSE "IDLE"]
  /\ UNCHANGED <<processVars, managerVars, attach, closing, status, lease, viewerVars, tabs,
                 published, answerVars>>

\* #cleanup, run by the catch of #attach or by entry.close: first the Core ...
CoreClosed(s) ==
  /\ \/ /\ attach[s] = "CLOSE_CORE"
        /\ attach' = [attach EXCEPT ![s] = "FILES"]
        /\ UNCHANGED close
     \/ /\ close[s] = "CLOSE_CORE"
        /\ close' = [close EXCEPT ![s] = "FILES"]
        /\ UNCHANGED attach
  /\ tabs' = tabs \ {s}
  /\ UNCHANGED <<processVars, managerVars, closing, status, lease, viewerVars, published,
                 answerVars>>

\* ... then retained downloads and files, and the entry goes.
CleanedUp(s) ==
  /\ \/ /\ attach[s] = "FILES"
        /\ attach' = [attach EXCEPT ![s] = "FAILED"]
        /\ UNCHANGED close
     \/ /\ close[s] = "FILES"
        /\ close' = [close EXCEPT ![s] = "IDLE"]
        /\ UNCHANGED attach
  /\ entries' = entries \ {s}
  /\ retired' = retired \union {s}
  /\ published' = published \ {s}
  /\ UNCHANGED <<processVars, commands, closing, status, lease, viewerVars, tabs, answerVars>>

FaultyCloseAfterFailure == "REJECTED"
CloseAfterFailure == "IDLE"

\* A failure keeps the entry; that of entry.close is published and lets closeSession run again.
CleanupFails(s) ==
  /\ \/ /\ attach[s] \in {"CLOSE_CORE", "FILES"}
        /\ attach' = [attach EXCEPT ![s] = "FAILED"]
        /\ UNCHANGED <<close, published, waiting>>
     \/ /\ close[s] \in {"CLOSE_CORE", "FILES"}
        /\ close' = [close EXCEPT ![s] = CloseAfterFailure]
        /\ published' = published \union {s}
        /\ waiting' = waiting \ {s}
        /\ UNCHANGED attach
  /\ UNCHANGED <<processVars, managerVars, closing, status, lease, viewerVars, tabs,
                 acknowledged>>

\* close of the whole owner when the Worker shuts down.
Shutdown ==
  /\ ~ shutdown
  /\ shutdown' = TRUE
  /\ StartClosing(entries)
  /\ UNCHANGED <<now, managerVars, attach, lease, viewerVars, tabs, answerVars>>

-----------------------------------------------------------------------------

Continue(s) ==
  \/ Authorized(s) \/ NotAuthorized(s) \/ Attached(s) \/ NotAttached(s)
  \/ TicketTurn(s) \/ (\E issued \in BOOLEAN : TicketAnswered(s, issued))
  \/ CloseAfterCreation(s) \/ CloseAfterTickets(s)
  \/ CoreClosed(s) \/ CleanedUp(s) \/ CleanupFails(s)
  \/ CloseAnswered(s)

SessionStep(s) ==
  \/ Create(s)
  \/ \E event \in CoreStates : StateChanged(s, event)
  \/ \E expiry \in 1 .. MaxTime + 1 : RenewLease(s, expiry)
  \/ \E g \in 1 .. MaxViewer : RequestTicket(s, g)
  \/ CloseSession(s) \/ LeaseExpires(s) \/ CloseCommand(s)
  \/ Continue(s)

Next == Tick \/ Shutdown \/ \E s \in Sessions : SessionStep(s)

Spec == Init /\ [][Next]_vars

\* The deadlines, authorizations, the Core and the file system answer in the end, the Backend's
\* plans and commands come again after a failure, and not every cleanup fails.
Fairness ==
  /\ WF_vars(Tick)
  /\ \A s \in Sessions :
       /\ WF_vars(Authorized(s) \/ NotAuthorized(s))
       /\ WF_vars(Attached(s) \/ NotAttached(s))
       /\ WF_vars(TicketTurn(s) \/ \E issued \in BOOLEAN : TicketAnswered(s, issued))
       /\ WF_vars(LeaseExpires(s))
       /\ WF_vars(s \in closing /\ CloseSession(s))
       /\ WF_vars(CloseAfterCreation(s) \/ CloseAfterTickets(s))
       /\ WF_vars(CoreClosed(s) \/ CleanedUp(s) \/ CleanupFails(s))
       /\ SF_vars(CoreClosed(s))
       /\ SF_vars(CleanedUp(s))
       /\ WF_vars(CloseAnswered(s))

FairSpec == Spec /\ Fairness

-----------------------------------------------------------------------------
(* Properties.                                                             *)

\* Whatever close, lease or shutdown overtakes an attachment that cannot be cancelled, the Core
\* never has a Tab, nor is about to make one, that no entry would clean up.
TabHasEntry ==
  \A s \in Sessions : s \in tabs \/ attach[s] = "CORE" => s \in entries

\* The facts of a snapshot are those of the entries: a fact without one would keep the Backend
\* from ever releasing maintenance, an entry without one would let it forget a Tab.
PublishedHasEntry == published = entries

\* Cleanup of a Session runs once at a time, with no attachment and no ticket request at the Core.
Cleaning(s) == {<<"attach", attach[s]>>, <<"close", close[s]>>}
                 \intersect ({"attach", "close"} \X {"CLOSE_CORE", "FILES"})
CleanupIsAlone ==
  \A s \in Sessions : Cleaning(s) # {} =>
    /\ Cardinality(Cleaning(s)) = 1
    /\ attach[s] # "CORE"
    /\ s \notin issuing

\* A Session the Worker has reported closed to the Backend has no Tab and never gets one, even if
\* its create command arrives after that.
AcknowledgedIsGone == acknowledged \intersect (entries \union tabs) = {}

\* Through every order of closes, leases, shutdown and failed cleanups the entry of a Session owns
\* its Tab: it is there as long as the Tab, is what the Backend is told, is cleaned up by one
\* continuation alone, and is gone for good once the Backend was told so.
EntriesOwnTabs == TabHasEntry /\ PublishedHasEntry /\ CleanupIsAlone /\ AcknowledgedIsGone

\* What is ending does not come back to life: nothing but the end of the entry follows a published
\* CLOSING, and a renewal that comes too late leaves an expired lease expired.
NothingComesBack ==
  [][\A s \in Sessions :
       /\ status[s] = "CLOSING" => status'[s] = "CLOSING"
       /\ s \in entries /\ LeaseOver(s) => lease'[s] = lease[s]]_vars

\* A Session that runs out of its lease, or is closing, is cleaned up in the end, and a close
\* command gets its answer, although cleanups fail in between.
EndingsHappen ==
  \A s \in Sessions :
    /\ s \in entries /\ LeaseOver(s) ~> s \notin entries
    /\ s \in waiting ~> s \notin waiting

Gone ==
  {s \in Sessions \ entries : s \in retired \union commands \union acknowledged \/ Expired(s)}

Tabs == INSTANCE TabOwnership WITH owned <- entries, gone <- Gone

\* The manager keeps the promise of a Worker: each Session once, maintenance alone, gone for good.
ImplementsTabOwnership == Tabs!Spec
=============================================================================
