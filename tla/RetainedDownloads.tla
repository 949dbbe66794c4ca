-------------------------- MODULE RetainedDownloads --------------------------
(***************************************************************************)
(* The files one Session leaves behind: WorkerRetainedDownloads with its   *)
(* queue of disk operations, the Chrome downloads that feed it and the     *)
(* HTTP requests that empty it; the reports to the Backend, what the       *)
(* Backend keeps of them and the one-time claims it gives out.             *)
(*                                                                         *)
(* The store runs its operations one after the other.  One action is what  *)
(* an operation does between two awaits, with the disk as it is then: a    *)
(* crash keeps the disk and the Backend and forgets everything else.       *)
(* Deadlines are the time that is left, so that Tick is the clock.         *)
(*                                                                         *)
(* An operator named Faulty... is not part of the model: it is a mistake   *)
(* one could make in the operator that follows it, substituted for that    *)
(* operator to see that a property notices.                                *)
(***************************************************************************)
EXTENDS Naturals, Sequences, FiniteSetsExt

CONSTANTS
  Files,
  SizeOf,         \* [Files -> Nat \ {0}]
  Requests,       \* bound: HTTP requests a user makes, one after the other
  TargetOf,       \* [Requests -> Files]
  MaxBytes,       \* quota of the Session, for downloads and uploads together
  Retention,      \* completedMilliseconds
  AfterSession,   \* afterSessionMilliseconds
  MaxFaults,      \* bound: crashes, failing writes and lost connections
  NoRecord

ASSUME DownloadsAssumption ==
  /\ IsFiniteSet(Files)
  /\ SizeOf \in [Files -> Nat \ {0}]
  /\ TargetOf \in [Requests -> Files]
  /\ {MaxBytes, Retention, AfterSession, MaxFaults} \subseteq Nat
  /\ Retention > 0 /\ AfterSession > 0

VARIABLES
  \* the Worker process
  process,      \* BROKEN is a process that cannot start
  session,      \* the Session as SessionCleanup sees it
  transfer,     \* what Core does with each Chrome download
  reserved,     \* files with an entry in #reservations
  uploads,      \* bytes of the Session's uploads
  files,        \* #files
  allocated,    \* #allocated
  queue, step, current,   \* the disk operations: waiting, where the first one is, and its file
  request,      \* where each HTTP request is; STREAMING to SENT hold the file's lease
  \* disk
  spool,        \* files in Chrome's spool directory
  staging,      \* files in a .staging- directory
  manifest,     \* manifest.json of the directory of a file
  directory,    \* files with a directory of their own ...
  data,         \* ... and with their bytes in it
  \* control connection and Backend
  connected,
  phase, sent,  \* the report under way and what it says
  accepted,     \* terminal files the Backend has accepted, still to be acknowledged
  late,         \* a report of an earlier connection which the Backend has yet to process
  row,          \* session_downloads
  authorized,   \* the owner may still use the Profile
  faults

storeVars == <<files, allocated, reserved>>
queueVars == <<queue, step, current>>
diskVars == <<spool, staging, manifest, directory, data>>
coreVars == <<session, transfer, uploads>>
reportVars == <<phase, sent, accepted, late>>
backendVars == <<row, authorized>>
vars == <<process, coreVars, storeVars, queueVars, request, diskVars, connected, reportVars,
          backendVars, faults>>

Statuses == {"AVAILABLE", "CLAIMED", "EXPIRED"}
Records == [status : Statuses, due : 0 .. Retention, ended : BOOLEAN]
Rows == [status : Statuses, due : 0 .. Retention]
Reports == [Files -> Records \union {NoRecord}]
ASSUME RecordAssumption == NoRecord \notin Records \union Rows
NoFile == [f \in Files |-> NoRecord]
Empty == NoFile

Operations ==
  [kind : {"commit", "abort", "acknowledge"}, file : Files] \union
  [kind : {"acquire", "finish"}, request : Requests] \union
  [kind : {"end"}, left : 0 .. AfterSession] \union
  [kind : {"expire"}, over : SUBSET Files, ending : BOOLEAN]

TypeOK ==
  /\ process \in {"UP", "STARTING", "DOWN", "BROKEN"}
  /\ session \in {"OPEN", "CLOSING", "ENDING", "ENDED"}
  /\ transfer \in [Files -> {"NONE", "WRITING", "COMMITTING", "FAILED", "ABORTING", "DONE"}]
  /\ uploads \in 0 .. MaxBytes
  /\ files \in Reports /\ manifest \in Reports /\ sent \in Reports /\ late \in Reports
  /\ {allocated, reserved, spool, staging, directory, data, accepted} \subseteq SUBSET Files
  /\ queue \in Seq(Operations)
  /\ step \in {"START", "STAGE", "PUBLISH", "PERSIST", "DELETE", "FREE", "REMOVE"}
  /\ current \in Files \union {NoRecord}
  /\ request \in [Requests -> {"IDLE", "TOKEN", "AUTHORIZED", "STREAMING", "ABORTED", "SENT"}]
  /\ phase \in {"IDLE", "SENT", "ACCEPTED", "ACKNOWLEDGING"}
  /\ row \in [Files -> Rows \union {NoRecord}]
  /\ connected \in BOOLEAN /\ authorized \in BOOLEAN
  /\ faults \in 0 .. MaxFaults

Init ==
  /\ process = "UP"
  /\ session = "OPEN"
  /\ transfer = [f \in Files |-> "NONE"]
  /\ uploads = 0
  /\ files = NoFile /\ manifest = NoFile /\ sent = Empty /\ late = Empty /\ row = NoFile
  /\ allocated = {} /\ reserved = {}
  /\ queue = <<>> /\ step = "START" /\ current = NoRecord
  /\ request = [r \in Requests |-> "IDLE"]
  /\ spool = {} /\ staging = {} /\ directory = {} /\ data = {}
  /\ connected = TRUE
  /\ phase = "IDLE" /\ accepted = {}
  /\ authorized = TRUE
  /\ faults = 0

-----------------------------------------------------------------------------
(* The queue of the store.                                                 *)

Call(operation) == queue' = Append(queue, operation) /\ UNCHANGED <<step, current>>
Running(operation, at) == queue # <<>> /\ Head(queue) = operation /\ step = at
Runs(kind, at) == queue # <<>> /\ Head(queue).kind = kind /\ step = at
Goto(at, f) == step' = at /\ current' = f /\ UNCHANGED queue
Finished == queue' = Tail(queue) /\ step' = "START" /\ current' = NoRecord

Known(f) == files[f] # NoRecord
Available(f) == Known(f) /\ files[f].status = "AVAILABLE"
Overdue(f) == Available(f) /\ files[f].due = 0
\* The size of files, as the number of their bytes.
Bytes(f) == {f} \X (1 .. SizeOf[f])
SizeSum(F) == Cardinality(UNION {Bytes(f) : f \in F})

\* reservedBytes
FaultyCounted == {f \in Files : Available(f)} \union reserved
Counted == allocated \union reserved

\* A lease is held until its request releases it; finish() takes the file out of expire's reach.
Holders(f) == {r \in Requests : TargetOf[r] = f /\ request[r] \in {"STREAMING", "ABORTED", "SENT"}}
Finishing(f) == \E r \in Holders(f) : request[r] = "SENT"

Fault == faults < MaxFaults /\ faults' = faults + 1

-----------------------------------------------------------------------------
(* Chrome's downloads and the Session.  Core reserves before bytes arrive, *)
(* hands over what is complete and aborts the rest.                        *)

Reserve(f) ==
  /\ process = "UP" /\ session = "OPEN"
  /\ transfer[f] = "NONE"
  /\ SizeSum(Counted) + SizeOf[f] + uploads <= MaxBytes
  /\ transfer' = [transfer EXCEPT ![f] = "WRITING"]
  /\ reserved' = reserved \union {f}
  /\ spool' = spool \union {f}
  /\ UNCHANGED <<process, session, uploads, files, allocated, queueVars, request, staging, manifest,
                 directory, data, connected, reportVars, backendVars, faults>>

\* Uploads count against the same quota (WorkerSessionStorage, externalReservedBytes).
Upload ==
  /\ process = "UP" /\ session = "OPEN"
  /\ SizeSum(Counted) + uploads + 1 <= MaxBytes
  /\ uploads' = uploads + 1
  /\ UNCHANGED <<process, session, transfer, storeVars, queueVars, request, diskVars, connected,
                 reportVars, backendVars, faults>>

Commit(f) ==
  /\ process = "UP"
  /\ transfer[f] = "WRITING"
  /\ transfer' = [transfer EXCEPT ![f] = "COMMITTING"]
  /\ Call([kind |-> "commit", file |-> f])
  /\ UNCHANGED <<process, session, uploads, storeVars, request, diskVars, connected, reportVars,
                 backendVars, faults>>

\* A download is cancelled, or could not be handed over.
Abort(f) ==
  /\ process = "UP"
  /\ transfer[f] \in {"WRITING", "FAILED"}
  /\ transfer' = [transfer EXCEPT ![f] = "ABORTING"]
  /\ spool' = spool \ {f}
  /\ Call([kind |-> "abort", file |-> f])
  /\ UNCHANGED <<process, session, uploads, storeVars, request, staging, manifest, directory, data,
                 connected, reportVars, backendVars, faults>>

CloseCore ==
  /\ process = "UP" /\ session = "OPEN"
  /\ session' = "CLOSING"
  /\ UNCHANGED <<process, transfer, uploads, storeVars, queueVars, request, diskVars, connected,
                 reportVars, backendVars, faults>>

\* SessionCleanup: Core has handed over or cancelled everything; a cleanup that failed runs again.
CleanUpSession ==
  /\ process = "UP" /\ session = "CLOSING"
  /\ \A f \in Files : transfer[f] \in {"NONE", "DONE"}
  /\ session' = "ENDING"
  /\ Call([kind |-> "end", left |-> AfterSession])
  /\ UNCHANGED <<process, transfer, uploads, storeVars, request, diskVars, connected, reportVars,
                 backendVars, faults>>

-----------------------------------------------------------------------------
(* commit: the bytes move into a staging directory, which is renamed when  *)
(* its manifest is complete.                                               *)

CommitStarts(f) ==
  /\ Running([kind |-> "commit", file |-> f], "START")
  /\ IF f \in reserved \intersect spool
     THEN Goto("STAGE", f) /\ UNCHANGED transfer
     ELSE Finished /\ transfer' = [transfer EXCEPT ![f] = "FAILED"]
  /\ UNCHANGED <<process, session, uploads, storeVars, request, diskVars, connected, reportVars,
                 backendVars, faults>>

Stage(f) ==
  /\ Running([kind |-> "commit", file |-> f], "STAGE")
  /\ spool' = spool \ {f}
  /\ staging' = staging \union {f}
  /\ Goto("PUBLISH", f)
  /\ UNCHANGED <<process, coreVars, storeVars, request, manifest, directory, data, connected,
                 reportVars, backendVars, faults>>

Publish(f) ==
  LET file == [status |-> "AVAILABLE", due |-> Retention, ended |-> FALSE] IN
  /\ Running([kind |-> "commit", file |-> f], "PUBLISH")
  /\ staging' = staging \ {f}
  /\ directory' = directory \union {f}
  /\ data' = data \union {f}
  /\ manifest' = [manifest EXCEPT ![f] = file]
  /\ files' = [files EXCEPT ![f] = file]
  /\ allocated' = allocated \union {f}
  /\ reserved' = reserved \ {f}
  /\ transfer' = [transfer EXCEPT ![f] = "DONE"]
  /\ Finished
  /\ UNCHANGED <<process, session, uploads, request, spool, connected, reportVars, backendVars,
                 faults>>

\* The staging directory is removed; the reservation stays for Core's abort.
CommitFails(f) ==
  /\ \E at \in {"STAGE", "PUBLISH"} : Running([kind |-> "commit", file |-> f], at)
  /\ Fault
  /\ staging' = staging \ {f}
  /\ transfer' = [transfer EXCEPT ![f] = "FAILED"]
  /\ Finished
  /\ UNCHANGED <<process, session, uploads, storeVars, request, spool, manifest, directory, data,
                 connected, reportVars, backendVars>>

AbortRuns(f) ==
  /\ Running([kind |-> "abort", file |-> f], "START")
  /\ reserved' = reserved \ {f}
  /\ transfer' = [transfer EXCEPT ![f] = "NONE"]
  /\ Finished
  /\ UNCHANGED <<process, session, uploads, files, allocated, request, diskVars, connected,
                 reportVars, backendVars, faults>>

-----------------------------------------------------------------------------
(* #persist renames a complete manifest into place and then updates        *)
(* #files; #deleteBytes gives the space back when the bytes are gone.      *)

Persist(f, file) ==
  /\ manifest' = [manifest EXCEPT ![f] = file]
  /\ files' = [files EXCEPT ![f] = file]

\* The next file of endSession's loop: #files is changed before the manifest.  What is left of the
\* time after the Session counts from the call.
Tightened(file, left) == [file EXCEPT !.due = Min({@, left}), !.ended = TRUE]
ToEnd == {f \in Files : Known(f) /\ ~ files[f].ended}

EndsFile(f) ==
  /\ Runs("end", "START")
  /\ f \in ToEnd
  /\ files' = [files EXCEPT ![f] = Tightened(@, Head(queue).left)]
  /\ Goto("PERSIST", f)
  /\ UNCHANGED <<process, coreVars, allocated, reserved, request, diskVars, connected, reportVars,
                 backendVars, faults>>

FileEnded(f) ==
  /\ Runs("end", "PERSIST") /\ current = f
  /\ Persist(f, files[f])
  /\ Goto("START", NoRecord)
  /\ UNCHANGED <<process, coreVars, allocated, reserved, request, spool, staging, directory, data,
                 connected, reportVars, backendVars, faults>>

\* The uploads go with the Session.
SessionEnded ==
  /\ Runs("end", "START")
  /\ ToEnd = {}
  /\ session' = "ENDED"
  /\ uploads' = 0
  /\ Finished
  /\ UNCHANGED <<process, transfer, storeVars, request, diskVars, connected, reportVars,
                 backendVars, faults>>

\* An endSession that waits in the queue, with a deadline that has passed already.
Ending == \E i \in 1 .. Len(queue) : queue[i].kind = "end" /\ queue[i].left = 0

\* expire, once a second, for the files that are over at the time of the call: also those whose
\* deadline an endSession moves before that time while this call waits in the queue.
Expire ==
  /\ process = "UP"
  /\ \A i \in 1 .. Len(queue) : queue[i].kind # "expire"
  /\ Ending \/ \E f \in Files : Overdue(f) \/ (Known(f) /\ ~ Available(f) /\ f \in allocated)
  /\ Call([kind |-> "expire", over |-> {f \in Files : Overdue(f)}, ending |-> Ending])
  /\ UNCHANGED <<process, coreVars, storeVars, request, diskVars, connected, reportVars,
                 backendVars, faults>>

OverAtCall(f) == f \in Head(queue).over \/ (Head(queue).ending /\ Known(f) /\ files[f].ended)
ToExpire == {f \in Files : OverAtCall(f) /\ Available(f) /\ ~ Finishing(f)}
ToDelete == {f \in Files : Known(f) /\ ~ Available(f) /\ f \in allocated /\ ~ Finishing(f)}

\* A file whose time is over: the stream is aborted before the first await.
ExpireFile(f) ==
  /\ Runs("expire", "START")
  /\ f \in ToExpire
  /\ request' = [r \in Requests |-> IF TargetOf[r] = f /\ request[r] = "STREAMING"
                                      THEN "ABORTED" ELSE request[r]]
  /\ Goto("PERSIST", f)
  /\ UNCHANGED <<process, coreVars, storeVars, diskVars, connected, reportVars, backendVars, faults>>

FileExpired(f) ==
  /\ Runs("expire", "PERSIST") /\ current = f
  /\ Persist(f, [files[f] EXCEPT !.status = "EXPIRED"])
  /\ Goto("DELETE", f)
  /\ UNCHANGED <<process, coreVars, allocated, reserved, request, spool, staging, directory, data,
                 connected, reportVars, backendVars, faults>>

DeleteLeftOver(f) ==
  /\ Runs("expire", "START")
  /\ f \in ToDelete
  /\ Goto("DELETE", f)
  /\ UNCHANGED <<process, coreVars, storeVars, request, diskVars, connected, reportVars,
                 backendVars, faults>>

ExpireEnds ==
  /\ Runs("expire", "START")
  /\ ToExpire \union ToDelete = {}
  /\ Finished
  /\ UNCHANGED <<process, coreVars, storeVars, request, diskVars, connected, reportVars,
                 backendVars, faults>>

DeleteBytes(f) ==
  /\ queue # <<>> /\ step = "DELETE" /\ current = f
  /\ data' = data \ {f}
  /\ Goto("FREE", f)
  /\ UNCHANGED <<process, coreVars, storeVars, request, spool, staging, manifest, directory,
                 connected, reportVars, backendVars, faults>>

\* expire goes on with its loop; finish gives up its lease.
FreeBytes(f) ==
  /\ queue # <<>> /\ step = "FREE" /\ current = f
  /\ allocated' = allocated \ {f}
  /\ IF Head(queue).kind = "expire"
     THEN Goto("START", NoRecord) /\ UNCHANGED request
     ELSE Finished /\ request' = [request EXCEPT ![Head(queue).request] = "IDLE"]
  /\ UNCHANGED <<process, coreVars, files, reserved, diskVars, connected, reportVars, backendVars,
                 faults>>

\* A write or a removal fails: the operation ends.  While the Worker starts that is the end of it.
OperationFails ==
  /\ process = "UP"
  /\ queue # <<>>
  /\ \/ Head(queue).kind \in {"end", "expire", "finish"} /\ step \in {"PERSIST", "DELETE"}
     \/ Head(queue).kind = "finish" /\ step = "START"
     \/ Head(queue).kind = "acknowledge" /\ step = "REMOVE"
  /\ Fault
  /\ Finished
  /\ session' = IF Head(queue).kind = "end" THEN "CLOSING" ELSE session
  /\ request' = IF Head(queue).kind = "finish"
                THEN [request EXCEPT ![Head(queue).request] = "IDLE"] ELSE request
  /\ IF Head(queue).kind = "acknowledge"
     THEN phase' = "IDLE" /\ accepted' = {} /\ connected' = FALSE
     ELSE UNCHANGED <<phase, accepted, connected>>
  /\ UNCHANGED <<process, transfer, uploads, storeVars, diskVars, sent, late, backendVars>>

-----------------------------------------------------------------------------
(* acknowledge removes the directory, file by file in any order, and then  *)
(* the record.                                                             *)

AcknowledgeStarts(f) ==
  /\ Running([kind |-> "acknowledge", file |-> f], "START")
  /\ Known(f) /\ ~ Available(f)
  /\ Goto("REMOVE", f)
  /\ UNCHANGED <<process, coreVars, storeVars, request, diskVars, connected, reportVars,
                 backendVars, faults>>

Unlink(f) ==
  /\ Running([kind |-> "acknowledge", file |-> f], "REMOVE")
  /\ \/ manifest[f] # NoRecord /\ manifest' = [manifest EXCEPT ![f] = NoRecord] /\ UNCHANGED data
     \/ f \in data /\ data' = data \ {f} /\ UNCHANGED manifest
  /\ UNCHANGED <<process, coreVars, storeVars, queueVars, request, spool, staging, directory,
                 connected, reportVars, backendVars, faults>>

Acknowledged(f) ==
  /\ Running([kind |-> "acknowledge", file |-> f], "REMOVE")
  /\ manifest[f] = NoRecord /\ f \notin data
  /\ directory' = directory \ {f}
  /\ files' = [files EXCEPT ![f] = NoRecord]
  /\ allocated' = allocated \ {f}
  /\ Finished
  /\ phase' = "ACCEPTED"
  /\ accepted' = accepted \ {f}
  /\ UNCHANGED <<process, coreVars, reserved, request, spool, staging, manifest, data, connected,
                 sent, late, backendVars, faults>>

-----------------------------------------------------------------------------
(* HTTP requests.  prepare() gives the user a token, the Worker redeems it *)
(* with consume() and waits for the lease; while bytes flow it asks once a *)
(* second whether it may go on.                                            *)

RowAvailable(f) == row[f] # NoRecord /\ row[f].status = "AVAILABLE" /\ row[f].due > 0

\* A new claim replaces the unused one of the same file.
Prepare(r) ==
  /\ request[r] = "IDLE"
  /\ authorized /\ connected /\ RowAvailable(TargetOf[r])
  /\ request' = [q \in Requests |->
                   IF q = r THEN "TOKEN"
                   ELSE IF request[q] = "TOKEN" /\ TargetOf[q] = TargetOf[r] THEN "IDLE"
                   ELSE request[q]]
  /\ UNCHANGED <<process, coreVars, storeVars, queueVars, diskVars, connected, reportVars,
                 backendVars, faults>>

Consume(r) ==
  /\ process = "UP" /\ connected
  /\ request[r] = "TOKEN"
  /\ authorized /\ RowAvailable(TargetOf[r])
  /\ request' = [request EXCEPT ![r] = "AUTHORIZED"]
  /\ Call([kind |-> "acquire", request |-> r])
  /\ UNCHANGED <<process, coreVars, storeVars, diskVars, connected, reportVars, backendVars, faults>>

\* The token expires, is refused, or is consumed and the answer lost.
TokenLost(r) ==
  /\ request[r] = "TOKEN"
  /\ request' = [request EXCEPT ![r] = "IDLE"]
  /\ UNCHANGED <<process, coreVars, storeVars, queueVars, diskVars, connected, reportVars,
                 backendVars, faults>>

\* acquire: the file has to be there still, and nobody else may be reading it.
FaultyMayRead(f) == Available(f) /\ files[f].due > 0
MayRead(f) == Available(f) /\ files[f].due > 0 /\ Holders(f) = {}

Acquire(r) ==
  /\ Running([kind |-> "acquire", request |-> r], "START")
  /\ request' = [request EXCEPT ![r] = IF MayRead(TargetOf[r]) THEN "STREAMING" ELSE "IDLE"]
  /\ Finished
  /\ UNCHANGED <<process, coreVars, storeVars, diskVars, connected, reportVars, backendVars, faults>>

\* The lease has its own timer, and the Backend is asked once a second.
MayGoOn(r) ==
  LET f == TargetOf[r] IN
  /\ Available(f) /\ files[f].due > 0
  /\ connected /\ authorized /\ RowAvailable(f)

\* The timer, a check that is refused or has no answer, or the reader goes away.
StreamBreaks(r) ==
  /\ request[r] = "STREAMING"
  /\ request' = [request EXCEPT ![r] = "ABORTED"]
  /\ UNCHANGED <<process, coreVars, storeVars, queueVars, diskVars, connected, reportVars,
                 backendVars, faults>>

Release(r) ==
  /\ request[r] = "ABORTED"
  /\ request' = [request EXCEPT ![r] = "IDLE"]
  /\ UNCHANGED <<process, coreVars, storeVars, queueVars, diskVars, connected, reportVars,
                 backendVars, faults>>

\* finish(), in the response's own finish event: too late if the deadline has passed.
Finish(r) ==
  /\ request[r] = "STREAMING"
  /\ IF files[TargetOf[r]].due = 0
     THEN request' = [request EXCEPT ![r] = "IDLE"] /\ UNCHANGED queueVars
     ELSE request' = [request EXCEPT ![r] = "SENT"] /\ Call([kind |-> "finish", request |-> r])
  /\ UNCHANGED <<process, coreVars, storeVars, diskVars, connected, reportVars, backendVars, faults>>

Claim(r) ==
  /\ Running([kind |-> "finish", request |-> r], "START")
  /\ Persist(TargetOf[r], [files[TargetOf[r]] EXCEPT !.status = "CLAIMED"])
  /\ Goto("DELETE", TargetOf[r])
  /\ UNCHANGED <<process, coreVars, allocated, reserved, request, spool, staging, directory, data,
                 connected, reportVars, backendVars, faults>>

-----------------------------------------------------------------------------
(* WorkerDownloadReporter and WorkerDownloadReconciler.                    *)

Report ==
  /\ process = "UP" /\ connected /\ phase = "IDLE"
  /\ files # NoFile
  /\ sent' = files
  /\ phase' = "SENT"
  /\ UNCHANGED <<process, coreVars, storeVars, queueVars, request, diskVars, connected, accepted,
                 late, backendVars, faults>>

Ended(record) == record # NoRecord /\ record.status # "AVAILABLE"
TerminalIn(report) == {f \in Files : Ended(report[f])}

\* Two different ends of one file reject the whole batch.
Conflict(report) == \E f \in TerminalIn(report) : Ended(row[f]) /\ row[f].status # report[f].status

FaultyMerge(old, new) ==
  IF new = NoRecord THEN old ELSE [status |-> new.status, due |-> new.due]

Merge(old, new) ==
  IF new = NoRecord THEN old
  ELSE IF old = NoRecord THEN [status |-> new.status, due |-> new.due]
  ELSE [status |-> IF old.status = "AVAILABLE" THEN new.status ELSE old.status,
        due |-> Min({old.due, new.due})]

Merged(report) == [f \in Files |-> Merge(row[f], report[f])]

\* Claims go with the end of their file.
WithoutClaims == [r \in Requests |-> IF request[r] = "TOKEN" /\ Ended(row'[TargetOf[r]])
                                     THEN "IDLE" ELSE request[r]]

Reconcile ==
  /\ phase = "SENT"
  /\ sent' = Empty
  /\ IF Conflict(sent)
     THEN phase' = "IDLE" /\ connected' = FALSE /\ UNCHANGED <<accepted, row>>
     ELSE phase' = "ACCEPTED" /\ accepted' = TerminalIn(sent) /\ row' = Merged(sent)
          /\ UNCHANGED connected
  /\ request' = WithoutClaims
  /\ UNCHANGED <<process, coreVars, storeVars, queueVars, diskVars, late, authorized, faults>>

ReconcileLate ==
  /\ late # Empty
  /\ late' = Empty
  /\ row' = IF Conflict(late) THEN row ELSE Merged(late)
  /\ request' = WithoutClaims
  /\ UNCHANGED <<process, coreVars, storeVars, queueVars, diskVars, connected, phase, sent,
                 accepted, authorized, faults>>

\* The ids the Backend answered are acknowledged one after the other.
FaultyToAcknowledge == {f \in Files : Known(f) /\ ~ Available(f)}
ToAcknowledge == accepted

Acknowledge ==
  /\ process = "UP" /\ phase = "ACCEPTED"
  /\ IF ToAcknowledge = {}
     THEN phase' = "IDLE" /\ UNCHANGED queueVars
     ELSE /\ phase' = "ACKNOWLEDGING"
          /\ \E f \in ToAcknowledge : Call([kind |-> "acknowledge", file |-> f])
  /\ UNCHANGED <<process, coreVars, storeVars, request, diskVars, connected, sent, accepted, late,
                 backendVars, faults>>

\* What was sent may still be processed after the connection is gone.
Loses == late' \in {late, sent} /\ sent' = Empty

Disconnect ==
  /\ connected
  /\ Fault
  /\ connected' = FALSE
  /\ Loses
  /\ phase' = IF phase = "SENT" THEN "IDLE" ELSE phase
  /\ UNCHANGED <<process, coreVars, storeVars, queueVars, request, diskVars, accepted, backendVars>>

Connect ==
  /\ process = "UP" /\ ~ connected /\ phase = "IDLE"
  /\ connected' = TRUE
  /\ UNCHANGED <<process, coreVars, storeVars, queueVars, request, diskVars, reportVars,
                 backendVars, faults>>

LoseAccess ==
  /\ authorized
  /\ authorized' = FALSE
  /\ UNCHANGED <<process, coreVars, storeVars, queueVars, request, diskVars, connected, reportVars,
                 row, faults>>

-----------------------------------------------------------------------------
(* Crash and restart.                                                      *)

Crash ==
  /\ process \in {"UP", "STARTING"}
  /\ Fault
  /\ process' = "DOWN"
  /\ session' = "CLOSING"
  /\ transfer' = [f \in Files |-> IF transfer[f] = "DONE" THEN "DONE" ELSE "NONE"]
  /\ uploads' = 0
  /\ files' = NoFile /\ allocated' = {} /\ reserved' = {}
  /\ queue' = <<>> /\ step' = "START" /\ current' = NoRecord
  /\ request' = [r \in Requests |-> IF request[r] = "TOKEN" THEN "TOKEN" ELSE "IDLE"]
  /\ connected' = FALSE
  /\ Loses /\ phase' = "IDLE" /\ accepted' = {}
  /\ UNCHANGED <<diskVars, backendVars>>

\* initialize() refuses what a manifest does not explain.
Unexplained ==
  {f \in directory : \/ manifest[f] = NoRecord
                     \/ manifest[f].status = "AVAILABLE" /\ f \notin data}

\* Sessions do not survive a restart: expire() and endSession() run before anything else, and what
\* was not handed over is removed.
Restart ==
  /\ process = "DOWN"
  /\ IF Unexplained # {}
     THEN process' = "BROKEN" /\ UNCHANGED <<session, files, allocated, queueVars, diskVars>>
     ELSE /\ process' = "STARTING"
          /\ session' = "ENDING"
          /\ files' = manifest
          /\ allocated' = {f \in directory : manifest[f].status = "AVAILABLE"}
          /\ data' = allocated'
          /\ staging' = {} /\ spool' = {}
          /\ queue' = <<[kind |-> "expire", over |-> {f \in directory : Overdue(f)'},
                         ending |-> FALSE],
                        [kind |-> "end", left |-> AfterSession]>>
          /\ UNCHANGED <<step, current, manifest, directory>>
  /\ UNCHANGED <<transfer, uploads, reserved, request, connected, reportVars, backendVars, faults>>

Started ==
  /\ process = "STARTING" /\ queue = <<>>
  /\ process' = "UP"
  /\ UNCHANGED <<coreVars, storeVars, queueVars, request, diskVars, connected, reportVars,
                 backendVars, faults>>

-----------------------------------------------------------------------------

Aged(report) == [f \in Files |-> IF report[f] = NoRecord \/ report[f].due = 0
                                 THEN report[f] ELSE [report[f] EXCEPT !.due = @ - 1]]

AgedCall(operation) ==
  IF operation.kind = "end" /\ operation.left > 0
  THEN [operation EXCEPT !.left = @ - 1] ELSE operation

Tick ==
  /\ queue' = [i \in DOMAIN queue |-> AgedCall(queue[i])]
  /\ files' = Aged(files) /\ manifest' = Aged(manifest)
  /\ sent' = Aged(sent) /\ late' = Aged(late) /\ row' = Aged(row)
  /\ UNCHANGED <<process, coreVars, allocated, reserved, step, current, request, spool, staging,
                 directory, data, connected, phase, accepted, authorized, faults>>

Operation(f) ==
  \/ CommitStarts(f) \/ Stage(f) \/ Publish(f) \/ AbortRuns(f)
  \/ EndsFile(f) \/ FileEnded(f)
  \/ ExpireFile(f) \/ FileExpired(f) \/ DeleteLeftOver(f)
  \/ DeleteBytes(f) \/ FreeBytes(f)
  \/ AcknowledgeStarts(f) \/ Unlink(f) \/ Acknowledged(f)

RunQueue ==
  \/ \E f \in Files : Operation(f)
  \/ \E r \in Requests : Acquire(r) \/ Claim(r)
  \/ SessionEnded \/ ExpireEnds

Next ==
  \/ \E f \in Files : Reserve(f) \/ Commit(f) \/ Abort(f) \/ CommitFails(f)
  \/ RunQueue \/ OperationFails
  \/ Upload \/ CloseCore \/ CleanUpSession \/ Expire
  \/ \E r \in Requests : \/ Prepare(r) \/ Consume(r) \/ TokenLost(r)
                         \/ StreamBreaks(r) \/ Release(r) \/ Finish(r)
  \/ Report \/ Reconcile \/ ReconcileLate \/ Acknowledge
  \/ Disconnect \/ Connect \/ LoseAccess
  \/ Crash \/ Restart \/ Started
  \/ Tick

Spec == Init /\ [][Next]_vars

\* The timers keep firing, disk operations and reports get their answers, and a Worker that ended or
\* lost its connection comes back; a refused check breaks its stream.  Nothing is assumed of users
\* and of Chrome.
Fairness ==
  /\ WF_vars(Tick)
  /\ WF_vars(RunQueue)
  /\ WF_vars(Expire)
  /\ WF_vars(Report \/ Reconcile \/ Acknowledge)
  /\ WF_vars(Restart \/ Started \/ Connect)
  /\ \A r \in Requests : WF_vars(~ MayGoOn(r) /\ StreamBreaks(r))

-----------------------------------------------------------------------------
(* Properties.                                                             *)

\* docs/design/11-download-retention.md: downloads and uploads share one quota.  While a download is
\* handed over and while a file is deleted its bytes are in one place on disk and in one place of
\* the accounts; every byte on disk is accounted for, whatever overtakes an operation.
BytesAreCounted ==
  process = "UP" =>
    /\ spool \union staging \union data \subseteq Counted
    /\ SizeSum(spool \union staging \union data) + uploads <= MaxBytes

\* What the Backend keeps and what the disk would say after a crash never disagree on how a file
\* ended, so that no report is rejected; and a file is only forgotten, or its record left broken,
\* when the Backend knows its end.
RecordsAgree ==
  /\ \A f \in Files :
       /\ Ended(row[f]) => manifest[f] = NoRecord \/ manifest[f].status = row[f].status
       /\ transfer[f] = "DONE" /\ manifest[f] = NoRecord => Ended(row[f])
       /\ manifest[f] # NoRecord /\ manifest[f].status = "AVAILABLE" => f \in data
  /\ \A report \in {sent, late} : ~ Conflict(report)

\* What the user was promised: a file has one reader; one that was sent completely before its
\* deadline does not end as EXPIRED while its claim is still to be written, though the deadline may
\* pass meanwhile; and the deadline the user was told is never extended, by no reconnection, restart
\* or repeated end.  A claim that could not be written leaves the file as it was.
PromisesAreKept ==
  [][/\ \A f \in Files : Cardinality(Holders(f)) <= 1
     /\ \A r \in Requests : request[r] = "SENT" =>
          LET record == manifest'[TargetOf[r]] IN record = NoRecord \/ record.status # "EXPIRED"
     /\ \A f \in Files : row[f] # NoRecord => row'[f].due <= row[f].due]_vars

\* Bytes do not stay for ever, the Backend learns how each file ended, and nobody goes on reading
\* without access, although reports, writes and processes fail in between; unless a crash in the
\* middle of a removal leaves a directory that no start of the store accepts.
FilesEnd ==
  /\ \A f \in Files :
       /\ f \in directory \union data ~> f \notin directory \union data \/ process = "BROKEN"
       /\ row[f] # NoRecord ~> Ended(row[f]) \/ process = "BROKEN"
  /\ \A r \in Requests : request[r] = "STREAMING" /\ ~ authorized ~> request[r] # "STREAMING"
=============================================================================
