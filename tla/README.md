# Browshare: TLA+ models, checks and proofs

Browshare lets users work in browser Tabs that run on remote Workers. A *Backend* (one
Node process and a PostgreSQL database) owns users, Profiles and the record of every Tab
Session; *Workers* run one Chrome per Profile and the Tabs in it; *Gateways* carry the
media signaling; the *Portal* is the user interface. This directory specifies the part
of it whose correctness depends on the order of things: who may hold a Tab, when it is
given back, and what happens when the two sides of the control channel disagree.

Everything is translated from the source. `PROJECT.json` gives for each definition the
lines it models, for each run what it checks, and for each property a mistake in the
code (an operator `Faulty...` beside the right one) that makes it fail.

## 1. The system and its parts

Paths are under `src/apps/`; `B` is `backend/src/services`, `W` is `worker/src`.

| part | state it keeps | operations | what is hard |
| --- | --- | --- | --- |
| Session reservations (`B/session-reservations.ts`) | `tab_sessions`, `reservations`, `session_create_outbox` | reserve, begin, accept, fail, expire; quotas per user, Profile and Worker | each is one transaction, but a creation is five of them with awaits and other writers in between |
| Session creation (`B/session-creation.ts`) | the delivery under way (memory) | poll the outbox, check, begin, send, accept or fail | restarts, unavailable Workers, maintenance that has to wait for others |
| Session closing (`B/session-closure.ts`, `B/sessions.ts`, `B/session-revocation.ts`) | `session_close_outbox`, `closeReason` | close by user or administrator, revocation with an authorization change, delivery of the command | must win against any creation or snapshot under way |
| Snapshot reconciliation (`B/worker-snapshot-reconciler.ts`) | all of the above and `profiles` | merge what a Worker reports into the rows, plan what the Worker has to close | snapshots are old when they arrive; a missing Tab means several things |
| Profile Runtimes (`B/profile-runtimes.ts`) | `profiles.runtime*`, `profile_runtime_outbox` | start, stop, recover, run modes, results | a new start is a new identity; old results and snapshots refer to the previous one |
| Viewer tickets, leases (`B/session-viewers.ts`, `B/session-leases.ts`) | `viewer_tickets`, `leaseExpiresAt` | connect, continue, renew | two transactions around a Worker call |
| Control channel (`B/worker-control-server.ts`, `W/control-client.ts`) | connections, pending commands, command cache | hello, snapshots, commands with acknowledgement, resend, replay | at-least-once delivery over connections that are replaced |
| Tab Sessions of the Worker (`W/tab-sessions.ts`) | entries, retired Sessions, the published facts | create, close, renew, tickets, shutdown, cleanup | attachments that cannot be cancelled, cleanups that fail half way |
| Profile Runtimes of the Worker (`W/remote-tab-runtime.ts`, `W/profile-runtime-commands.ts`, `W/profile-chrome.ts`) | entries, fences, Chrome processes, the Profile's directory | start, stop, delete, plans, shutdown | one Chrome per Profile and directory, stop during start, commands out of order, Chromes that outlive their Worker |
| Retained downloads (`W/retained-downloads.ts`, `B/worker-downloads.ts`, `B/session-downloads.ts`) | manifests and bytes on disk, records, claims | finish, lease, expire, report, claim | crash between manifest and bytes, replayed reports |
| Storage protection (`W/storage-protection.ts`) | reservations, scans, policies | reserve, release, observe | a release during a scan |
| Credentials (`B/worker-credentials.ts`) | credentials, rotations | rotate, revoke, retire | different row locks, the last credential |
| Gateway (`gateway/src`, `B/gateways.ts`) | none of its own; the signaling server it hosts pairs a Viewer with Core | redeem a token, authorize Core | a ticket that was replaced while its launch was on the way |
| Portal, routes, API client, schemas | none of their own | | not modelled: plumbing and user interface |

How they interact: a user request makes the Backend *reserve* (row and quota) and, if
the Runtime is stopped, ask for a start. The delivery loop *begins* the creation (binds
the row to the Runtime identity), sends the command and takes the result. Every few
seconds the Worker sends a *snapshot* of its Runtimes and Tabs, which the Backend
merges and answers with what is to be closed. Closing sets CLOSING and stores a close
command. Sessions of kind MAINTENANCE need the Profile for themselves and hold it until
the Backend knows that their Tab is gone (`maintenanceReleasedAt`).

What makes it correct: quotas hold at all times; maintenance excludes everybody else;
nothing that was closed comes back; loss of access closes what it allowed; a
reservation's slot is always given back; the Worker never has a Tab that nobody would
clean up; one Viewer at a time has a Tab, and without renewals the Tab ends; a promise about a
retained file is kept through crashes; disk quotas arrive and are not overcommitted; a Worker's
last ACTIVE credential is not rotated away. `hazards` in `PROJECT.json` lists the places where that is at stake.

## 2. Modules

| module | what it is |
| --- | --- |
| `ProfileOwnership` | abstract: who may use a Profile (normal Sessions share, maintenance claims, then owns) |
| `SessionReservations` | the Backend: every transaction on Sessions, reservations, maintenance and the Runtime state they depend on; implements `ProfileOwnership` |
| `SessionReservationsProofs` | theorems about types, revival, maintenance, capacity, the refinement, access, quotas, commands and the agreement of rows |
| `TabOwnership` | abstract: what a Worker process promises about Tabs |
| `WorkerTabSessions` | the Worker's `WorkerTabSessions` class, one action per stretch between awaits; implements `TabOwnership` |
| `WorkerTabProofs` | theorems about entries and Tabs and the refinement |
| `ProfileRuntimes` | the Runtime of one Profile: its row and commands, the Worker process, Chrome, the directory, snapshots and plans |
| `ProfileRuntimesProofs` | theorems about ends, plans and data |
| `SessionControl` | the composition: the Backend of `SessionReservations`, Workers that keep the promise of `TabOwnership`, and the control channel between them; implements `SessionReservations` |
| `SessionControlProofs` | theorems: the composition implements `SessionReservations`; reports, released maintenance |
| `SessionViewers` | the Viewer and the lease of one Session, on the Backend, the Worker and the Gateway |
| `SessionViewersProofs` | theorems about tickets, Viewers, launches and leases |
| `RetainedDownloads` | the files a Session leaves behind, from Chrome to the user and to the Backend's records |
| `RetainedDownloadsProofs` | theorems about bytes, records and promises |
| `StorageAccounting` | reservations and scans of the Worker's disk |
| `StoragePolicies` | disk quotas on their way from the row to the Worker |
| `StorageProofs` | theorems about what is counted and admitted, and about policies |
| `WorkerCredentials` | rotation, revocation, handshakes and the identity file of a Worker |
| `WorkerCredentialsProofs` | theorem: a credential is left |
| `MC...` | instances of these for TLC; `MCStorage` has the two storage modules side by side, `MCWorker` Tabs and Runtimes |

### SessionReservations

One action is one transaction. A member of `Sessions` is a request that may be made, so
that its user, Profile and kind are constants; `status[s] = "ABSENT"` until `Reserve(s)`.

* rows: `status`, `bound` (the Runtime identity recorded by begin, as the generation of
  the Runtime), `sameInstance` (workerInstanceId is that of the connected process),
  `closeRequested` (closeReason is set), `released` (maintenanceReleasedAt),
  `reservation`, `lapsed` (past expiresAt), `createOutbox` (the generation the stored
  command names), `closeOutbox`;
* memory of the Backend: `delivery`, the program counter of `#deliver`: IDLE, BEGIN
  (after its reads), SENT (after begin), FAIL (in the catch). `Restart` resets it;
* Runtimes: `runtimeState`, `desired`, `generation`, `attached` (runtimeWorkerInstanceId
  is that of the connected process), `operation` (row of `profile_runtime_outbox`), `mode`;
* access: `enabled` Profiles, `grants`.

`Close`, `RevokeGrants`, `DisableProfile`, `ResetPassword`, `DisableWorker` and
`RecoverRuntime` all call `QueueClose`, as the code does. `Snapshot` takes any content
that passes validation: a function from Profiles and from the Sessions for which a report
matters to what the reconciler would see, so old, partial and repeated snapshots are
included. `Lapse` is the clock passing `expiresAt`.

Abstractions: CONNECTED, SUSPENDED and DISCONNECTED are one status ATTACHED; every
Profile has a health check; limits do not change; deleting a Profile is in `ProfileRuntimes`;
which of two observations is older and whether the Backend explains a missing Runtime
by an operation under way are the choices KEPT and REFUSED; admission checks on state
kept elsewhere (capabilities, storage, proxies, publications) can only prevent a request;
run-mode timers and back-off are nondeterministic.

### WorkerTabSessions

`entries`, `retired` and `commands` are the maps of the class. `attach` and `close` are
the program counters of the two continuations of an entry; `closing`, `status`, `lease`,
`viewer`, `tickets` and `issuing` belong to the entry object, which the continuations
keep after it has left the map, so a late continuation still finds its own state. `tabs`
is what the Core (not in this repository) holds. `published` is the set of facts the next
snapshot will carry. `waiting` and `acknowledged` are the handler of the close command.

Time is `now`, compared with `Expires` (the reservation) and `lease`. `Attached` adds the
Tab even when nobody wants it any more: this is the hazard of an await that cannot be
cancelled. The CLOSING, FAILED and CLOSED events of the Core, recycling, plans and the
end of a Runtime are one action, `CloseSession`. Retrying a create command returns the
same promise and changes nothing, so it is not an action.

### ProfileRuntimes

One Profile, from the transaction that stores a command to the process that writes its directory.

* Backend: `row` (the Profile's Runtime columns, with the command in `profile_runtime_outbox`);
  `operations`, what was ever persisted, in order; `control`, the connection (READY, or RECOVERY while
  the last plan was not empty); `reported`, the Runtime in the stored snapshot.
* Channel: `round`, the snapshot or plan under way, and the cached results `outcome` and `completedAt`.
* Worker: `fence` is `#stoppedGenerations`, `job` the command that runs and what it awaits, `runtime`
  the entry in `#managedProfiles` with its fact, whose `start` and `stop` are the program counters of
  `startProfileRuntime` and of `#stopManagedProfile`. `process` and `instance` are the Worker process.
* Disk and processes: `chrome[g]` is LIVE while its process group may write, STUCK when it could not be drained,
  ORPHAN when its Worker has died and the supervisor drains it, GONE after that; `directory` has Chrome's
  Local State (LOADED) or not.

`BeginStart`, `BeginEnd` and `RefuseCommand` are `ProfileRuntimeCommands.execute` up to its first wait;
`Register`, `Prepare`, `Launch`, `Ready` and `FailStart` are the awaits of a start; `Drained`, `FinishStop`
and `FailStop` those of a stop, which commands, plans and shutdown share (`entry.stop`). `Reconcile` is the
part of the snapshot's transaction about this Profile.

Abstractions: a START has a new generation and a new runtimeId, so that the generation stands for both; time
only decides that a command is late, which is a choice, since each side looks at its own clock; `Clock`
counts completed commands, which is what the order of `observedAt` and `completedAt` can show. One snapshot
or plan is under way, as the Worker waits for its answer. Commands that wait have no effect, so that the
queue is the choice of the next one (`MayBegin`); a command repeated over the next connection finds its
result or itself in the cache. Sessions, policies, proxies, and health checks are reasons for which a step
fails. MAINTAINING is RUNNING here. What an operator does to the disk is `VolumeReplaced`, while nothing
runs.

### SessionControl

Here a snapshot, a result or a loss is not any fact the Backend would take, but what a
Worker has sent.

* Worker: `tab` is the Tab of a Session as its facts show it (NONE: never heard of; CREATING,
  READY, CANCELLING and CLOSING: in the facts; ENDED: a final report; GONE: retired without
  one), `createAnswer` and `closeAnswer` are its command cache.
* Channel: `toWorker` and `toBackend` are queues, one socket each way; `Drop` closes the socket
  and loses both. `link` is what the Backend makes of the connection: a create command needs
  READY, a close command also goes out while the Worker is being corrected (RECOVERY).
* Backend memory: `pendingCreate` and `pendingClose` are `#pendingCommands`, `unsent` those to
  send again after a connection was lost, `createResult` and `closeResult` a promise that has
  resolved but whose transaction has not run.

The actions of `SessionReservations` are reused: `ReceiveSnapshot` calls `Reconcile` with the
facts in the message, `ApplyCreateResult` is `Accept` or `DeliverFailed`,
`ApplyCloseResult` is `CloseDelivered`. `ImplementsReservations` checks that the result is
still a behaviour of `SessionReservations`: the choices left open there include what
Workers send.

Abstractions: a Runtime starts when asked and ends with its Worker process (the Runtimes a plan
stops are in `ProfileRuntimes`); attempts and acknowledgement timers are the choice to reject a pending
command; a repeated command on the same connection, which finds the answer to the first one,
is left out; commands that are sent again go out in any order; a new socket is only opened when
the old one is gone; collecting a snapshot and sending it is one step.

In `MCSessionControl` the requests that may be made in a behaviour are one of `Offers`, so that a
run explores several small systems: one Session with everything that can happen to it, a normal
and a maintenance Session with Workers, three Sessions against quotas.

### SessionViewers

The Session has been created and has a Tab. Each connection request (`connect()`) takes the next
Viewer generation and writes the one ticket of it, so calls, tickets and the Worker's answers are
functions of the generation.

* Backend: `session` (status, viewerGeneration, leaseExpiresAt, whether a close is stored),
  `authorized`, `ticket`, and `connect`, the program counter of each call: its first transaction,
  the wait for the Worker, the check of the second transaction.
* Worker: `worker` (state of the entry, lease, the generation Core serves), `queue` and `issuing`
  (`entry.ticketQueue`, whose head waits for Core), `outcome` (the command cache).
* Channel: `commands`, and `round`, the snapshot that is under way: it carries the lease and Viewer
  the Worker had, is reconciled (which may renew the lease) and comes back with a lease or an order
  to close.
* Gateway: `bound`, `claims` and `pairing` stand for the signaling server and Core, which are not
  in this repository and are modelled from how the Backend answers them.

Times are the ticks that remain, and everything that carries a time ages with `Tick`. `punctual` is
chosen at the start: in those behaviours nothing fails and a tick is longer than a round, which is
what the intervals in the code mean; the others have outages and any delays. In punctual behaviours
`disturbed` and `held` note for how many ticks in a row the newest request was not answered (they are
history, which no guard reads). READY, CONNECTED,
SUSPENDED and DISCONNECTED are OPEN. `continueSession`, which resets recycling deadlines, is left out.

### RetainedDownloads

The store on the Worker runs its operations one after the other: `queue` has those that wait, `step`
and `current` say where the first one is. One action is what it does between two awaits. `files`,
`allocated` and `reserved` are the maps of the class; `spool`, `staging`, `directory`, `manifest`
and `data` are the disk, which alone survives `Crash`. `transfer` is what Core does with each Chrome
download, `session` the end of the Session (`SessionCleanup`), `request` the HTTP request that reads a
file: it waits for a token, consumes it, holds the lease while it streams. `phase`, `sent`,
`accepted` and `late` are the report loop: `late` is a report of a connection that is gone, which the
Backend has still to process. `row` is `session_downloads`.

An acknowledged file loses its manifest and its bytes one by one, in either order (`Unlink`), before its
directory goes. `Tick` lowers all deadlines. A write or a delete may fail (`OperationFails`), the process may
end between any two steps. `BROKEN` is a process that refuses to start: `Unexplained` is the condition in
`initialize()`. Names, HTTP headers and ranges are left out.

### StorageAccounting and StoragePolicies

`StorageAccounting`: each transfer is one unit of bytes, at first at its SOURCE and, if it is kept,
at its TARGET. `paths` are the paths of a reservation, `actual` what `release()` has measured,
`counted` is `#files` and `scanning`, `visited`, `found` the scan, which looks at one path at a time
while files are written, moved and removed. Growth of a transfer of unknown length (which reserves
again) and the thresholds on the free space of the volume are left out.

`StoragePolicies`: a policy is its version; 0 is no policy, which the Worker reports as version 1
without a quota. `row` and `stored` are the Backend's, `sync` the program counter of the
synchronization of each scope, `operations` the Worker's queue, whose head writes `file` before
`memory`. START commands carry policies as well; deleting a Profile makes the Worker forget it.

### WorkerCredentials

One Worker; credentials and rotations are known by their number. Transactions that lock the Worker's row are
single steps. `#activateRotatedCredential` does not lock it; when it commits between the count and the update
of a revocation, the rows are as if it had come after both. `rotate()` is not a step: it holds the row of its
rotation (`claim`), reads the Worker and the old credential without locks and takes the Worker's row only when
it inserts, so `CreateRotation` and `Retire` wait for it, and `RevokeCredential` and `Disable` do not.
`ending` is what a service still has to do after its commit. `hellos` are the handshakes under way, with a
step for each await of `#handleHello`; `connection` is the entry of `#connections`, which may be a socket
whose process has ended. A client may give a handshake up (`Abandon`) and begin another one while the Backend
goes on with the first, whose registration then replaces the newer connection. `sweep` is the periodic sweep
between its query and its closes. A client that came through its handshake and is closed with 4001 or 4012
does not connect again until its process restarts (`CLOSED`; `control-client.ts:1524-1527`); one that was
still in the handshake does. `identity`, `usedToken` and `lock` are on the Worker's disk.

The issuing of certificates is external and they do not run out; EXPIRED rotations count as
REVOKED; a lock directory that a crash leaves is removed by an operator. Protocol errors (4002, 4003) are left
out.

## 3. Runs

| run | instance | question |
| --- | --- | --- |
| `Reservations_maintenance` | a normal and a maintenance Session, one Profile, one Tab on the Worker | exclusivity of maintenance, agreement of Session and reservation rows, no revival, refinement of `ProfileOwnership` |
| `Control_together` | one Session with two generations, grants, enabling, password resets and run modes; three normal Sessions with limits of one; a normal and a maintenance Session with a Worker | commands are kept and sent for the identity the row was bound to, open means allowed, quotas, a Worker does not contradict its report and accepted maintenance is alone |
| `Control_endings` | one maintenance Session, one lost connection or process, fair | failed maintenance is released last, pending Sessions end, Backend and Worker agree in the end, maintenance is released, the composition implements `SessionReservations` |
| `Worker_ownership` | a normal and a maintenance Session of one Profile, clock to 3, reservation to 2, lease from 3; or a Runtime with three commands, a restart and a fault, two of these together | entries own Tabs, closing and lease expiry are final, refinement of `TabOwnership`; ends of Runtimes are final, what is wanted is kept, data is not replaced |
| `Worker_endings` | one Session, two tickets, fair; or a Runtime with two commands and a restart or a fault, fair | every Session with an expired lease is cleaned up, every close command is answered; an unwanted Chrome is ended |
| `Viewer_takeover` | two connection requests, outages | one ticket counts, a replaced Viewer is gone first, leases are committed first and stay expired |
| `Viewer_lease` | two requests in punctual behaviours, one with outages; a lease that is renewed from half of its life on | a lease only runs out after `RENEW_BEFORE` without an answered newest request, a Worker that is cut off ends the Tab |
| `Downloads_pairs` | two files, or two readers, or a file and uploads; one fault | bytes are accounted for, disk and rows agree, promises to users are kept |
| `Downloads_endings` | one file, one reader, two faults, fair | bytes are deleted and the Backend learns every end unless the store cannot start, readers without access stop |
| `Storage_quotas` | two transfers and two scans; or a Worker and a Profile scope with one loss, fair | files are counted right, nothing is admitted over the quota; policies never go back and arrive |
| `Worker_credentials` | four processes and rotations, two failures, fair | an ACTIVE credential is left, connections follow credentials |
| `Control_early_release` | one maintenance Session | *violated*: released maintenance has no Tab (see below) |

`Control_early_release` states the comment in `worker-snapshot-reconciler.ts:624` of every
maintenance Session. It does not hold of one that was CLOSED: only FAILED Sessions wait for the
reservation to expire. A Session closed while its create command is on the way is released by
the next snapshot, and the command makes a Tab afterwards. `TabsSettle` shows that this Tab
is closed in the end, and `ReportsAreKept` that the Worker's own check protects the next
maintenance meanwhile; for FAILED Sessions `FailedIsReleasedLast` holds.

Bounds and why they are enough: the properties relate at most two Sessions of one
Profile (exclusivity), three for counting past a limit of one, and one for its own
history. One lost connection (`MaxDrops`) is enough to lose any message and to repeat any command.
Two generations are what "an older Runtime" and "a replaced Viewer" need. The Worker's clock passes
both deadlines in either order of a renewed lease.

Some instances leave out what another run or a proof covers. In `Reservations_maintenance` only the
maintenance Session loses access, and only before it has begun and before the normal one is reserved
(`MaintenanceNext`); exploration stops once both are over and the Profile is free (`Undecided`), and a
maintenance Session that comes after a normal one that ended before it is left out. What revocations do to a
Session is asked of one Session in `Control_together` and proved for any number (section 5). With two Sessions
`Control_together` has Tabs that end by themselves, but no expiry and no lost connection. `Viewer_takeover`
stops when nothing is left to redeem (`Unsettled`). `Downloads_pairs` keeps the reader's access,
`Downloads_endings` takes it away and has either a second fault or a reader. `Viewer_lease` renews a lease
from half of its life on, as the code does. A preparation may last a tick, so that two requests without a
break last as long as what is then left of the lease, and one more snapshot between them makes the difference;
the request that failed last stays the newest for any time. Outages are tried with one request; the punctual
behaviours have both and no Viewer joins, since neither the Gateway nor its tickets matter to a renewal
(`Tried`). In `Downloads_pairs` a behaviour has two files, two readers or uploads, which are pairs that
compete for something; one fault is enough for a crash between any two steps, and `Downloads_endings` has a
second that hits the recovery from the first. In `Storage_quotas` two transfers fit a quota of two and not of
one; two scans let a release meet a second one. `Worker_credentials` has room for two rotations one of which
replaces the other, with the restarts both need. A sweep that would find nothing to close and meets no new
connection is left out because it changes nothing (`SweepMatters`), and `Short` bounds what may happen
together: five processes, rotations, failures and unfinished services, and two handshakes. In `MCWorker` a
behaviour is about Tabs or about a Runtime. Of a third command, a process that ends and a fault, the one about
a Runtime has one in `Worker_ownership` (`OneMore`): three commands are a START, its STOP and the next START
in any order; two and a restart, an orphan and who comes after it. In `Worker_endings` the process ends when
both commands have been persisted and nothing failed, or something else fails (`EndOrFault`). `Control_*` cfgs
keep the environment their question does not need small (`Revocable`, `Switchable`, `Recoverable`,
`RunModes`); together the runs fire every action.

`CHECK_DEADLOCK FALSE` is in the runs of `WorkerTabSessions` and `ProfileRuntimes`, `SessionViewers`,
`RetainedDownloads`, the storage modules and `WorkerCredentials`: their clocks and counters are bounded,
Sessions and requests are made once, so that a behaviour may end.

## 4. Fairness

`SessionReservations`: the clock passes every expiry and the expiry timer, which every
Backend process runs, gets to each Session it may expire. Nothing is assumed of Workers,
deliveries or users; `PendingEnds` needs no more.

`WorkerTabSessions`: time goes on; what the Worker waits for answers (authorization has a
deadline of its own, the Core and the file system are assumed to settle); the process
runs its continuations; the Backend repeats the order to close a Session it knows to be
closing or over, which it does with every periodic snapshot; and a cleanup that is tried
again and again does not fail for ever (strong fairness on its two steps).

`ProfileRuntimes`: a snapshot follows the heartbeats and is answered, commands that arrived run, what was
begun (start, stop, shutdown, the supervisor of a Chrome whose Worker died) goes on, and a Chrome that is
told to end does so or is STUCK. Nothing is assumed of the Backend's commands and their delivery:
`UnwantedStops` rests on snapshots and plans. A STUCK Chrome stays, as in the code.

`SessionControl`: a Worker reconnects, sends snapshots periodically, finishes cleanups and, as
the Backend, handles the messages that arrive; connections are lost at most `MaxDrops` times, so
that some connection lasts long enough for a snapshot and its answer. Nothing is assumed of the
delivery loops: closing and release rest on snapshots alone.

`SessionViewers`: time goes on and the Worker's timers and promise chains run. Core is assumed to settle
what the Worker awaits without a deadline: a ticket, in whatever way, and the end of a Tab
(`tab-sessions.ts:456`, `537`, `559`). Nothing is assumed of the Backend, the connection or the Gateway:
`TabEndsWithoutBackend` is about their absence.
That renewals come in time is a safety property of the punctual behaviours.

`RetainedDownloads`: timers fire, disk operations and reports are answered (faults are bounded), a
Worker that ended is started again and connects, and a stream whose periodic check is refused
breaks. Nothing is assumed of users and of Chrome.

`StoragePolicies`: heartbeats are sent and observed, the Worker reconnects, its queue runs, each
synchronization goes on or gives up; losses are bounded. `WorkerCredentials`: a Worker that is up
tries to connect unless its client was closed for good, handshakes and both steps of the periodic sweep
go on; failures are bounded.

## 5. Proofs

Every safety property of the passing runs, invariant or action property, is a theorem for all values of the
constants; so are the three refinements. A type invariant is proved for every module with theorems; two runs
keep one (`WorkerTypeOK`, `CredentialsTypeOK`), the others were checked the same way before their proofs.
No theorem has another hypothesis. The assumptions are the named ASSUMEs of the modules: bounds are natural
numbers, limits and choices are of the right sets, the sets that are counted are finite, and a value that
stands for "none" is not one of the others. A run whose module extends them makes TLC evaluate each. Each
inductive invariant was an invariant of a TLC run before it was proved.

### Backend: `SessionReservationsProofs`

* `TypeInvariance`: one lemma per action, since every other proof needs it.
* `NoRevivalTheorem`: no step leaves a terminal status, and CLOSING only ends.
* `MaintenanceExclusiveTheorem`, `MaintainingHasOwnerTheorem`, together `MaintenanceOwnsProfileTheorem`:
  the first is not inductive alone. `ReleasedHasEnded` (a released Session is terminal) is needed to know
  that a claim can only be given up by a Session that is over; `MaintainingHasOwner` needs that
  the Runtime enters MAINTAINING only in `Begin`. The conjunction with `TypeOK` is
  `ExclusionInv`. The proof first classifies the steps (`StepKinds`): a step reserves one
  Session, begins one Session, or only moves Sessions towards their end; for the last kind
  every set in the properties shrinks, which makes the forty actions two cases.
* `ImplementsOwnershipTheorem`: from the same invariant, each kind of step is a step of
  `ProfileOwnership` or a stutter.
* `WorkerCapacityTheorem`: Sessions not yet begun under maintenance are not counted, and
  maintenance is not counted against those it replaces, so neither the set reserve()
  counts nor the set begin() counts is the one the theorem is about. The invariant
  `CapacityInv` bounds every *undisputed* set of non-terminal Sessions (at most one of
  two parties that exclude each other), of which the Sessions begun are one.
* `ReservationAgreesTheorem`: inductive with `TypeOK`, action by action.
* `OpenIsAuthorizedTheorem` and `StoppingHasNoOpenSessionTheorem`, together `OpenIsAllowedTheorem`: only
  a reservation opens a Session (`OpenStep`), and access is lost in two transactions only (`AccessStep`),
  which close the Sessions that lose it; whatever turns `desired` to STOPPED finds no open Session or
  closes them all, and nothing is reserved while it is STOPPED (`StopStep`).
* `NormalQuotasTheorem`: between two states the set a quota counts grows by at most the Session
  that `Reserve` has just counted (`LoadStep`, `LimitKept`).
* `PendingHasCommandTheorem` and `SentAsBoundTheorem`, together `CreationIsKeptTheorem`: the first needs
  `ReservationAgrees` (the command of a Session that is still pending is not removed) and `StartedOnce`
  (a Runtime that was never started is STOPPED, so a reservation stores a command with a real identity);
  the second, that nothing is being delivered for a Session that was never reserved.

### Worker's Tabs: `WorkerTabProofs`

`TabsInv` says for each Session where the two continuations of its entry may be (`ContinuationsAgree`:
once one of them closes, the other only ends; the close continuation waits until the attachment has
settled) and what the entry owns (`EntryOwns`: a Tab needs an entry; what left the map can never be
made again, because it is retired or its create command has expired). `EntriesOwnTabs` follows.
`NothingComesBack` and `ImplementsTabOwnership` classify steps: one that makes a Tab is that of an
attachment that still has its entry (`CreateOwns`), every other one only ends things (`EndingStep`).

### Runtimes: `ProfileRuntimesProofs`

None of the three properties is inductive. `RuntimesInv` has, besides types:

* `RecordsInv`: a START carries a generation above all before it, a STOP or DELETE the one it was persisted
  for, nothing is started after a DELETE (`IssuedAgrees`, `OperationsOrdered`), the row has the last of them
  and the process that was asked for it (`RowAgrees`). `InitializedAgrees`: once data is known to exist, a
  START that has no result yet asks for it, or comes too late because a later one has succeeded.
* `RoundAgrees`: a plan names a Runtime that was not wanted when it was made. It may be applied late, which
  is harmless because such a generation is never wanted again; `WantedIsKept` follows.
* `ExecutionInv`: where a job, the entry's start and its stop may be together, and for which command an entry exists
  (`ProcessAgrees`, `JobAgrees`, `RuntimeAgrees`).
* `ChromeInv`: a Chrome of this process that may write belongs to the entry (`AbsenceIsProven`), and the directory was
  checked before the launch (`DirectoryAgrees`), from which `DataIsNotReplaced` follows with `InitializedAgrees`.
* `EndsInv`: what this process answered as stopped is behind the fence and below the entry (`FenceAgrees`),
  and a START under way is ahead of the fence (`JobAgrees`); after a successful DELETE there is no
  directory, no entry and no START that could make one (`DeletionAgrees`). Hence `StopsAreFinal` and
  `DeletedIsGone`.

With `<` for `<=` in `Overtaken`, the mistake the run finds, the proof fails.

### Backend, Workers and channel: `SessionControlProofs`

`ImplementsReservationsTheorem` is the largest refinement. A message in a queue is a statement about
the state when it was sent; the step that handles it must be one `SessionReservations` allows in the
state when it arrives. The argument: what a message may say is a set that depends on facts that only
grow (a Tab was begun, has ended, is settled; a Worker is still the same instance of the Sessions it
has a Tab for), so that messages stay true while they wait (`SnapshotsGrow` and its companions, `Carries`);
`ControlInv` has this for both queues, with what Tabs, answers and results say of each other.
`FailedIsReleasedLast` needs `ReleasedFinally`: a FAILED Session that is released was never sent or is
`Settled` (expired and without a Tab), which lasts. `ReportsAreKept` rests on the promises of
`TabOwnership` alone. `ReservationsKeptTheorem` carries the theorems about rows over to the composition.

### Viewers and leases: `SessionViewersProofs`

`ViewersInv`: only generations that were requested are anywhere (`RequestsAgree`); Core takes generations
in increasing order, and Gateway and Viewer have the one Core has or none (`CoreAgrees`); the Worker
knows the end of a Tab before a snapshot or the Backend does (`EndAgrees`); and `LeaseIsCommitted`, which is
inductive because an answer carries what was committed before it and all leases age together.

`RenewedInTimeTheorem`: a request that is being prepared leaves the Worker's generation behind the row's,
and rounds do not renew then; one whose preparation failed does so until the next one succeeds. The code
bounds neither how many requests follow each other nor how long a failed one is the newest: about five
preparations of 60 seconds without a snapshot between them let a lease run out. What holds, for any number of
requests and any lifetimes, is that nothing else does: `worker.lease > 0 \/ held >= RenewBefore`. `RenewalInv`
is the induction. As long as the newest request is answered, the generations are equal (`GenerationsMeet`)
and the round that lies between two ticks renews whatever is not above `RenewBefore`; from then on a tick takes
one unit from the lease and adds one to `held`, so that the sum stays at least `RenewBefore` (`LeaseLasts`).
`Noted` says that an unanswered request is noticed by the history variables at all.

### Downloads: `RetainedDownloadsProofs`

`DownloadsInv` has for each file how it ended, seen from its transfer, manifest, record and the reports
under way (`StatusesAgree`: an end is only ever followed by forgetting); where its bytes are
(`BytesAgree`), for each operation in the queue what it waits for, which stays true until it runs
(`QueueAgrees`), what has been done at each step of the running operation (`StepAgrees`), and what
readers hold (`HoldersAgree`). Sizes are counted as sets of bytes, since the sum over a set is a fold
about which the prover can show nothing, and cardinality has library theorems. Crashes are the hard
part: what is true of the disk must hold between any two steps, and the restart rebuilds from it.
`PromisesAreKeptTheorem` is about a file whose bytes were sent and whose claim is still to be written
(`NotExpired`: the timer and the end of the Session skip a file with a reader); when that write fails or the
process ends before it, the file is as it was and may expire (section 6).

### Storage: `StorageProofs`

`AccountsInv` says for each transfer which reservation it has, where its file is, and what scan and `#files`
may know of it: nothing outside its reservation while it lasts, and what is on disk once it is over
(`Fits`). That a scan under way has seen an older state is harmless exactly because a release waits for it
and corrects its result (`ScanOverStep`). `AccountsMatchDiskTheorem` is then a counting argument
(`Counting`): every file on disk and every promise belongs to a transfer whose unit is counted in `#files`
or by its reservation. `NoOvercommitTheorem` follows for the step that admits. `PoliciesInv` says that the
file is ahead of memory in the middle of an operation and equal to it otherwise, and ahead of everything
that was reported or is on its way as a fact (`FileIsAhead`), as long as the Profile is not being deleted; a
crash may then load the file.

### Credentials: `WorkerCredentialsProofs`

`CredentialsInv`: identities and answers only go up (`IdentityAgrees`); a credential is replaced only
after it has connected, when its own predecessors are no longer active, and by one that was issued later
(`SuccessionAgrees`). Hence what a handshake rotates away is behind the Worker's identity.

### Only model-checked

Liveness (`PendingEnds`, `TabsSettle`, `MaintenanceIsReleased`, `EndingsHappen`, `UnwantedStops`,
`TabEndsWithoutBackend`, `FilesEnd`, `QuotaArrives`, `ConnectionsFollow`), which the prover does not cover.

## 6. What is not modelled, and what was seen on the way

Not modelled: recycling deadlines and Continue; capability probes and route health checks of Runtimes;
enrollment and the certificate authority; capability reports, heartbeats and the offline sweep; the
replacement of a live connection while commands are under way; growth of a transfer of unknown length. Not
planned: routes, the Portal, the generated API client and schemas, CRUD of policies and settings (single
transactions), the matching of URLs by navigation policies, and the adapters around Chrome.

The models have these on purpose, as the code does:

* A crash inside the recursive removal of `acknowledge()`, which unlinks one by one, leaves a directory
  without a manifest; the next start throws (BROKEN in `RetainedDownloads`). When the bytes could not be
  deleted before, they may be in it and stay; `FilesEnd` leaves that case out.
  `docs/design/11-download-retention.md` has a restart recover from manifests.
* If `endSession` cannot write the shorter deadline, the Worker uses the longer one after a restart; the
  deadline in the user's record is the shorter one.
* A claim that `finish()` could not write, or did not because the process ended, leaves the file AVAILABLE
  although it was sent completely; it may be read again, or end as EXPIRED.
* Unused Viewer tickets stay ACTIVE when a snapshot fails their Session; they cannot be redeemed.
* A failed preparation of a Viewer leaves the Worker's generation behind, and leases are not renewed
  until the next one succeeds. Nor are they while requests are under preparation without a break. After
  `RENEW_BEFORE` of either the lease of a Tab in use runs out (`RenewedInTime`).
* The result of a START sets RUNNING over MAINTAINING (`profile-runtimes.ts:501`); the maintenance Session
  and not this state keeps the Profile.
* While `forgetProfile` refreshes the usage, the Worker reports the deleted policy as version 1 without a
  quota; the Backend may refuse these facts and close the connection. A policy command
  that arrives after `forgetProfile` adds the policy again.
* Revoking the new credential between `#authenticateCertificate` and `#activateRotatedCredential` lets the
  switch take the old one too; `CredentialIsLeft` says that this is the only way.
* A snapshot makes a row STOPPED when its STOP was given up, although a START of the same generation may
  still wait in the Worker's queue; it then starts an unwanted Chrome, which the plan of the next snapshot
  stops (`UnwantedStops`).
* Disabling a Worker between the UPDATE of its hello (`worker-control-server.ts:961`) and the entry in
  `#connections` leaves a disabled Worker connected. A hello whose socket died meanwhile leaves an entry
  without a close event, which the heartbeat sweep skips (it has not reported capabilities): it stays until
  the Worker connects again or the sweep finds its credential inactive.
* A sweep, a retirement or a revocation that closes with 4001 decides about the connection it finds
  then, which may be a newer one with an ACTIVE credential; and a handshake the client had given up, when the
  Backend registers it late, closes the newer connection with 4012. The client stops for good and the Worker
  stays away until its process is restarted (CLOSED; `ConnectionsFollow` leaves it out).
* The answer of `rotate()` that is lost after its commit leaves an ACTIVE credential nobody has.
* A create command that arrives when a maintenance Tab has ended by itself makes a Tab of another Session,
  while the Backend still counts the maintenance as open; the plan of the next snapshot closes it.
