--------------------------- MODULE ProfileRuntimes ---------------------------
(***************************************************************************)
(* The Runtime of one Profile: the commands with which the Backend starts  *)
(* and stops it and deletes its data, the Worker process that runs them,   *)
(* the Chrome they own, and the snapshots and plans by which both sides    *)
(* find back to each other.                                                *)
(*                                                                         *)
(* Commands of a Profile run one after the other (#profileExecutionQueues) *)
(* and have no effect before they run, so that the queue is the choice of  *)
(* the next command.  Plans, shutdown and the start of a Runtime that is   *)
(* under way are outside of it.  A START carries the identity of the       *)
(* Runtime and a new generation; in the model the generation stands for    *)
(* both.  That a command is late is a choice, since the Backend and the    *)
(* Worker each look at their own clock.  Sessions, policies and proxies    *)
(* only appear as reasons for which a step may fail.                       *)
(***************************************************************************)
EXTENDS Naturals, FiniteSets

CONSTANTS
  MaxCommands,    \* bound: operations the Backend persists
  MaxInstances,   \* bound: processes of the Worker, one after the other
  MaxFaults       \* bound: lost connections, failed cleanups and replaced volumes

ASSUME RuntimesAssumption ==
  MaxCommands \in Nat \ {0} /\ MaxInstances \in Nat \ {0} /\ MaxFaults \in Nat

VARIABLES
  row,            \* the Profile's row, with the command in profile_runtime_outbox or 0
  issued,         \* commands persisted so far
  operations,     \* their contents, which never change
  control,        \* the Worker's connection as the Backend sees it
  reported,       \* the generation in the last snapshot that was stored, 0 for none
  round,          \* the snapshot and the plan under way
  process,        \* the Worker process
  instance,       \* its instanceId
  fence,          \* #stoppedGenerations of the Profile
  job,            \* the command that runs, and what it waits for
  outcome,        \* the cached results
  completedAt,    \* when they were completed, on a clock that counts completed commands
  runtime,        \* the entry in #profileRuntimes and #managedProfiles
  chrome,         \* the Chrome each generation launched
  directory,      \* the Profile's directory: LOADED once it has Chrome's Local State
  faults          \* faults so far

rowVars == <<row, issued, operations>>
channelVars == <<control, reported, round>>
resultVars == <<outcome, completedAt>>
commandVars == <<fence, job, resultVars>>
chromeVars == <<chrome, directory>>
runtimeVars ==
  <<rowVars, channelVars, process, instance, commandVars, runtime, chromeVars, faults>>

-----------------------------------------------------------------------------
Commands == 1..MaxCommands
Generations == 1..MaxCommands
Instances == 1..MaxInstances

NoCommand == [action |-> "NONE", generation |-> 0, instance |-> 0, existing |-> FALSE]
NoRuntime == [generation |-> 0, state |-> "NONE", start |-> "NONE", stopping |-> FALSE, stop |-> "NO"]
NoJob == [command |-> 0, waits |-> "NONE"]
NoRound == [stage |-> "IDLE", generation |-> 0, state |-> "NONE", at |-> 0, stop |-> 0]

RowStates == {"STOPPED", "STARTING", "RUNNING", "STOPPING", "ERROR"}

Rows ==
  [ generation : 0..MaxCommands, instance : 0..MaxInstances, observed : Nat,
    desired : {"RUNNING", "STOPPED"},
    state : RowStates,
    initialized : BOOLEAN, deleteRequested : BOOLEAN, deleted : BOOLEAN,
    operation : 0..MaxCommands ]

Operations ==
  [ action : {"NONE", "START", "STOP", "DELETE"}, generation : 0..MaxCommands,
    instance : 0..MaxInstances, existing : BOOLEAN ]

\* start: how far startProfileRuntime has come.  stop: how far #stopManagedProfile has come.
Runtimes ==
  [ generation : 0..MaxCommands, state : {"NONE", "STARTING", "RUNNING", "STOPPING", "ERROR"},
    start : {"NONE", "PREPARE", "LAUNCH", "PROBE", "FAILED", "DONE"},
    stopping : BOOLEAN, stop : {"NO", "DRAIN", "CLEANUP"} ]

Rounds ==
  [ stage : {"IDLE", "SENT", "PLANNED"}, generation : 0..MaxCommands,
    state : {"NONE", "STARTING", "RUNNING", "STOPPING", "ERROR"}, at : Nat, stop : 0..MaxCommands ]

Jobs ==
  [ command : 0..MaxCommands, waits : {"NONE", "STOP", "REPLACE", "ADMISSION", "START", "REMOVAL"} ]

RuntimesTypeOK ==
  /\ row \in Rows
  /\ issued \in 0..MaxCommands
  /\ operations \in [Commands -> Operations]
  /\ control \in {"NONE", "RECOVERY", "READY"}
  /\ reported \in 0..MaxCommands
  /\ round \in Rounds
  /\ process \in {"UP", "CLOSING", "DOWN"}
  /\ instance \in Instances
  /\ fence \in 0..MaxCommands
  /\ job \in Jobs
  /\ outcome \in [Commands -> {"NONE", "OK", "FAILED"}]
  /\ completedAt \in [Commands -> Nat]
  /\ runtime \in Runtimes
  /\ chrome \in [Generations -> {"NONE", "LIVE", "STUCK", "ORPHAN", "GONE"}]
  /\ directory \in {"NONE", "EMPTY", "LOADED"}
  /\ faults \in 0..MaxFaults

RuntimesInit ==
  /\ row = [ generation |-> 0, instance |-> 0, observed |-> 0, desired |-> "STOPPED",
             state |-> "STOPPED", initialized |-> FALSE, deleteRequested |-> FALSE,
             deleted |-> FALSE, operation |-> 0 ]
  /\ issued = 0
  /\ operations = [c \in Commands |-> NoCommand]
  /\ control = "NONE" /\ reported = 0 /\ round = NoRound
  /\ process = "UP" /\ instance = 1
  /\ fence = 0 /\ job = NoJob
  /\ outcome = [c \in Commands |-> "NONE"]
  /\ completedAt = [c \in Commands |-> 0]
  /\ runtime = NoRuntime
  /\ chrome = [g \in Generations |-> "NONE"]
  /\ directory = "NONE"
  /\ faults = 0

-----------------------------------------------------------------------------
(* The Backend.  persistProfileRuntimeOperation replaces the operation in  *)
(* the outbox; the command is bound to the process that is connected.      *)

Persist(action, generation) ==
  /\ issued < MaxCommands
  /\ issued' = issued + 1
  /\ operations' = [operations EXCEPT ![issued + 1] =
       [ action |-> action, generation |-> generation, instance |-> instance,
         existing |-> row.initialized ]]

\* setRuntime START, or a Session or the run mode that needs the Runtime.
PersistStart ==
  /\ control = "READY"
  /\ ~ row.deleteRequested
  /\ row.state # "STOPPING"
  /\ ~ (row.desired = "RUNNING" /\ row.state \in {"STARTING", "RUNNING"})
  /\ Persist("START", row.generation + 1)
  /\ row' = [row EXCEPT !.state = "STARTING", !.desired = "RUNNING", !.generation = @ + 1,
                        !.instance = instance, !.observed = 0, !.operation = issued + 1]
  /\ UNCHANGED <<channelVars, process, instance, commandVars, runtime, chromeVars, faults>>

\* profileRuntimeRecovery: the last snapshot of this process has the Runtime on record.
CanRecover ==
  /\ row.state # "STOPPED"
  /\ row.generation # 0 /\ reported = row.generation
  /\ row.instance = instance

\* A Profile that never ran has generation 0, and is stopped and deleted as generation 1.
TargetGeneration == IF row.generation = 0 THEN 1 ELSE row.generation

PersistEnd(action) ==
  /\ Persist(action, TargetGeneration)
  /\ row' = [row EXCEPT !.state = "STOPPING", !.desired = "STOPPED",
                        !.generation = TargetGeneration, !.operation = issued + 1]
  /\ UNCHANGED <<channelVars, process, instance, commandVars, runtime, chromeVars, faults>>

\* setRuntime STOP, with or without closeSessions, or the run mode.
PersistStop ==
  /\ control # "NONE"
  /\ ~ row.deleted
  /\ \/ CanRecover
     \/ /\ ~ row.deleteRequested
        /\ row.state # "STOPPED"
        /\ ~ (row.state = "STOPPING" /\ row.desired = "STOPPED")
  /\ PersistEnd("STOP")

RequestDeletion ==
  /\ ~ row.deleteRequested
  /\ row' = [row EXCEPT !.deleteRequested = TRUE]
  /\ UNCHANGED <<issued, operations, channelVars, process, instance, commandVars, runtime,
                 chromeVars, faults>>

\* #queueDeletions
PersistDelete ==
  /\ control = "READY"
  /\ row.deleteRequested /\ ~ row.deleted
  /\ row.operation = 0
  /\ PersistEnd("DELETE")

\* What #deliver writes for the end of a DELETE.
DeletionSettled(ok) ==
  IF row.deleteRequested /\ ~ row.deleted /\ row.generation = operations[row.operation].generation
  THEN [row EXCEPT !.operation = 0, !.deleted = ok, !.desired = "STOPPED",
                   !.state = IF ok THEN "STOPPED" ELSE "ERROR"]
  ELSE [row EXCEPT !.operation = 0]

\* What #deliver writes for the end of a START or STOP, unless a later observation was stored.
OperationSettled(ok, superseded, observed) ==
  LET target == IF operations[row.operation].action = "START" THEN "RUNNING" ELSE "STOPPED"
      reached == ok \/ row.state = target IN
  IF row.generation = operations[row.operation].generation /\ ~ superseded
  THEN [row EXCEPT !.operation = 0, !.observed = observed,
                   !.state = IF reached THEN target ELSE "ERROR",
                   !.initialized = @ \/ (reached /\ target = "RUNNING")]
  ELSE [row EXCEPT !.operation = 0]

\* The result of the operation that is still in the outbox.
DeliverResult ==
  LET c == row.operation
      superseded ==
        /\ ~ (outcome[c] = "FAILED" /\ row.state = "ERROR")
        /\ row.instance = operations[c].instance
        /\ completedAt[c] <= row.observed IN
  /\ c # 0
  /\ outcome[c] # "NONE"
  /\ row' = IF operations[c].action = "DELETE" THEN DeletionSettled(outcome[c] = "OK")
            ELSE OperationSettled(outcome[c] = "OK", superseded, completedAt[c])
  /\ UNCHANGED <<issued, operations, channelVars, process, instance, commandVars, runtime,
                 chromeVars, faults>>

\* The command is late, or was never acknowledged, or belongs to a process that is gone.
GiveUp ==
  LET c == row.operation IN
  /\ c # 0
  /\ row' = IF operations[c].action = "DELETE" THEN DeletionSettled(FALSE)
            ELSE OperationSettled(FALSE, FALSE, row.observed)
  /\ UNCHANGED <<issued, operations, channelVars, process, instance, commandVars, runtime,
                 chromeVars, faults>>

-----------------------------------------------------------------------------
(* Snapshots and plans: one at a time on a connection.                     *)

Clock == Cardinality({c \in Commands : outcome[c] # "NONE"})

Capture ==
  /\ process = "UP"
  /\ round.stage = "IDLE"
  /\ round' = [ stage |-> "SENT", generation |-> runtime.generation, state |-> runtime.state,
                at |-> Clock, stop |-> 0 ]
  /\ UNCHANGED <<rowVars, control, reported, process, instance, commandVars, runtime,
                 chromeVars, faults>>

\* The Runtime in the snapshot is the one on record.
Matching ==
  /\ round.generation # 0 /\ round.generation = row.generation
  /\ row.instance = instance

\* What the snapshot says of the row, unless something later is already known.
RowObserved(underWay) ==
  IF row.deleted \/ (row.instance = instance /\ round.at < row.observed) THEN row
  ELSE IF row.desired = "STOPPED"
  THEN IF /\ round.generation = 0
          /\ row.state # "STOPPED"
          /\ ~ row.deleteRequested /\ ~ underWay
       THEN [row EXCEPT !.state = "STOPPED", !.observed = round.at]
       ELSE row
  ELSE IF Matching
  THEN IF round.state = "STARTING" /\ row.state = "RUNNING" THEN row
       ELSE [row EXCEPT !.state = round.state, !.observed = round.at,
                        !.initialized = @ \/ round.state = "RUNNING"]
  ELSE IF /\ row.state \in {"STARTING", "RUNNING", "STOPPING"}
          /\ ~ (underWay /\ row.instance = instance)
  THEN [row EXCEPT !.state = "ERROR", !.observed = round.at]
  ELSE row

\* The Runtimes a plan stops: of a Profile that is gone, not on record, or not wanted.
FaultyUnwanted == row.deleted \/ ~ Matching
Unwanted == row.deleted \/ ~ Matching \/ row.desired = "STOPPED"

\* The transaction that stores a snapshot, and the plan it answers with.
Reconcile ==
  LET stop == IF Unwanted THEN round.generation ELSE 0 IN
  /\ round.stage = "SENT"
  /\ \E underWay \in {FALSE, row.operation # 0} : row' = RowObserved(underWay)
  /\ reported' = round.generation
  /\ control' = IF stop = 0 THEN "READY" ELSE "RECOVERY"
  /\ round' = [round EXCEPT !.stage = "PLANNED", !.stop = stop]
  /\ UNCHANGED <<issued, operations, process, instance, commandVars, runtime, chromeVars,
                 faults>>

\* stopProfileRuntime: entry.stop is shared by everyone who asks.
Stopped(r) ==
  [r EXCEPT !.state = "STOPPING", !.stopping = TRUE, !.stop = IF @ = "NO" THEN "DRAIN" ELSE @]

\* applyReconciliationPlan: a plan stops the Runtime it names and no other.
FaultyNamed == runtime.generation # 0 /\ round.stop # 0
Named == runtime.generation # 0 /\ runtime.generation = round.stop

ApplyPlan ==
  /\ process = "UP"
  /\ round.stage = "PLANNED"
  /\ round' = NoRound
  /\ runtime' = IF Named THEN Stopped(runtime) ELSE runtime
  /\ UNCHANGED <<rowVars, control, reported, process, instance, commandVars, chromeVars,
                 faults>>

Disconnect ==
  /\ faults < MaxFaults
  /\ control # "NONE" \/ round.stage # "IDLE"
  /\ faults' = faults + 1
  /\ control' = "NONE"
  /\ round' = NoRound
  /\ UNCHANGED <<rowVars, reported, process, instance, commandVars, runtime, chromeVars>>

-----------------------------------------------------------------------------
(* ProfileRuntimeCommands.execute.                                         *)

IsStart(c) == operations[c].action = "START"

\* A STOP or DELETE may overtake what was sent before it, and be overtaken: only a START waits until
\* the connection is READY.  STARTs come in order, since the Backend persists one only when the one
\* before it is over.
MayBegin(c) ==
  /\ c <= issued
  /\ operations[c].instance = instance
  /\ process # "DOWN"
  /\ job = NoJob
  /\ outcome[c] = "NONE"
  /\ \A d \in Commands : outcome[d] # "NONE" /\ IsStart(c) /\ IsStart(d) => d < c

Completed(c, result) ==
  /\ job' = NoJob
  /\ outcome' = [outcome EXCEPT ![c] = result]
  /\ completedAt' = [completedAt EXCEPT ![c] = Clock + 1]

Waits(c, for) ==
  /\ job' = [command |-> c, waits |-> for]
  /\ UNCHANGED resultVars

\* A STOP or DELETE that came later in the order of generations has been here.
FaultyOvertaken(c) == operations[c].generation < fence
Overtaken(c) == operations[c].generation <= fence

\* What is thrown at once: the process closes, the command is late, or its generation is.
Refused(c) ==
  \/ process = "CLOSING"
  \/ IF IsStart(c)
     THEN \/ Overtaken(c)
          \/ /\ runtime.generation # 0
             /\ ~ (runtime.state = "ERROR" /\ runtime.generation < operations[c].generation)
     ELSE \/ runtime.generation # 0 /\ runtime.generation # operations[c].generation
          \/ operations[c].generation < fence

RefuseCommand(c, expired) ==
  /\ MayBegin(c)
  /\ expired \/ Refused(c)
  /\ Completed(c, "FAILED")
  /\ UNCHANGED <<rowVars, channelVars, process, instance, fence, runtime, chromeVars, faults>>

\* A START stops a Runtime that failed, and is then admitted if the disk has room.
BeginStart(c) ==
  /\ MayBegin(c) /\ ~ Refused(c)
  /\ IsStart(c)
  /\ IF runtime.generation = 0
     THEN Waits(c, "ADMISSION") /\ UNCHANGED runtime
     ELSE Waits(c, "REPLACE") /\ runtime' = Stopped(runtime)
  /\ UNCHANGED <<rowVars, channelVars, process, instance, fence, chromeVars, faults>>

\* A STOP or DELETE records what it is about before it waits for anything.
BeginEnd(c) ==
  /\ MayBegin(c) /\ ~ Refused(c)
  /\ ~ IsStart(c)
  /\ fence' = operations[c].generation
  /\ IF runtime.generation # 0
     THEN Waits(c, "STOP") /\ runtime' = Stopped(runtime)
     ELSE /\ IF operations[c].action = "DELETE" THEN Waits(c, "REMOVAL") ELSE Completed(c, "OK")
          /\ UNCHANGED runtime
  /\ UNCHANGED <<rowVars, channelVars, process, instance, chromeVars, faults>>

\* assertCanStart refuses, or the entry is made; nothing looks again whether the process closes.
RefuseAdmission ==
  /\ job.waits = "ADMISSION"
  /\ Completed(job.command, "FAILED")
  /\ UNCHANGED <<rowVars, channelVars, process, instance, fence, runtime, chromeVars, faults>>

Register ==
  /\ job.waits = "ADMISSION"
  /\ runtime' = [ generation |-> operations[job.command].generation, state |-> "STARTING",
                  start |-> "PREPARE", stopping |-> FALSE, stop |-> "NO" ]
  /\ Waits(job.command, "START")
  /\ UNCHANGED <<rowVars, channelVars, process, instance, fence, chromeVars, faults>>

\* The flock of a Chrome, be it of an earlier process, keeps others away.
Unlocked == \A g \in Generations : chrome[g] \in {"NONE", "GONE"}

\* deleteProfileDirectory needs the lock unless there is no directory; forgetProfile may fail
\* after it.
RemoveDirectory(removed, result) ==
  /\ job.waits = "REMOVAL"
  /\ \/ removed = directory
     \/ Unlocked /\ (removed = "NONE" \/ (removed = "EMPTY" /\ directory = "LOADED"))
  /\ result = "OK" => removed = "NONE"
  /\ directory' = removed
  /\ Completed(job.command, result)
  /\ UNCHANGED <<rowVars, channelVars, process, instance, fence, runtime, chrome, faults>>

-----------------------------------------------------------------------------
(* startProfileRuntime and ProfileChromeRuntime.start.                     *)

\* assertProfileDataExists asks for Chrome's Local State, not for the directory alone.
FaultyDataExists == directory # "NONE"
DataExists == directory = "LOADED"

\* The directory is only made for a Profile whose data was never there.  A Chrome that holds the
\* flock may not have made its native lock yet, so that assertNoLiveChrome does not see it.
Prepare ==
  /\ runtime.start = "PREPARE" /\ ~ runtime.stopping
  /\ operations[job.command].existing => DataExists
  /\ directory' = IF directory = "NONE" THEN "EMPTY" ELSE directory
  /\ runtime' = [runtime EXCEPT !.start = "LAUNCH"]
  /\ UNCHANGED <<rowVars, channelVars, process, instance, commandVars, chrome, faults>>

Launch ==
  /\ runtime.start = "LAUNCH" /\ ~ runtime.stopping
  /\ Unlocked
  /\ chrome' = [chrome EXCEPT ![runtime.generation] = "LIVE"]
  /\ runtime' = [runtime EXCEPT !.start = "PROBE"]
  /\ UNCHANGED <<rowVars, channelVars, process, instance, commandVars, directory, faults>>

Ready ==
  /\ runtime.start = "PROBE" /\ ~ runtime.stopping
  /\ process = "UP"
  /\ chrome[runtime.generation] = "LIVE"
  /\ runtime' = [runtime EXCEPT !.start = "DONE", !.state = "RUNNING"]
  /\ Completed(job.command, "OK")
  /\ UNCHANGED <<rowVars, channelVars, process, instance, fence, chromeVars, faults>>

\* A check fails, Chrome exits, or the start is cancelled.
FailStart ==
  /\ runtime.start \in {"PREPARE", "LAUNCH", "PROBE"}
  /\ runtime' = [runtime EXCEPT !.start = "FAILED",
                                !.state = IF runtime.stopping THEN @ ELSE "ERROR"]
  /\ UNCHANGED <<rowVars, channelVars, process, instance, commandVars, chromeVars, faults>>

\* The start gives the entry up once its Chrome is gone, and keeps it when Chrome does not stop.
EndStart ==
  /\ runtime.start = "FAILED"
  /\ chrome[runtime.generation] # "LIVE"
  /\ runtime' = IF chrome[runtime.generation] = "STUCK" THEN [runtime EXCEPT !.start = "DONE"]
                ELSE NoRuntime
  /\ Completed(job.command, "FAILED")
  /\ UNCHANGED <<rowVars, channelVars, process, instance, fence, chromeVars, faults>>

\* The start finds that a stop has taken the entry away.
AbortStart ==
  /\ job.waits = "START"
  /\ runtime.generation = 0
  /\ Completed(job.command, "FAILED")
  /\ UNCHANGED <<rowVars, channelVars, process, instance, fence, runtime, chromeVars, faults>>

\* A Chrome is drained, on request or because it exited; or its group cannot be drained.
ChromeEnds(g, how) ==
  /\ chrome[g] = "LIVE"
  /\ how = "STUCK" => faults < MaxFaults
  /\ faults' = IF how = "STUCK" THEN faults + 1 ELSE faults
  /\ chrome' = [chrome EXCEPT ![g] = how]
  /\ runtime' = IF runtime.start = "DONE" /\ ~ runtime.stopping /\ process = "UP"
                THEN [runtime EXCEPT !.state = "ERROR"] ELSE runtime
  /\ UNCHANGED <<rowVars, channelVars, process, instance, commandVars, directory>>

ChromeWrites(g) ==
  /\ chrome[g] \in {"LIVE", "STUCK", "ORPHAN"}
  /\ directory = "EMPTY"
  /\ directory' = "LOADED"
  /\ UNCHANGED <<rowVars, channelVars, process, instance, commandVars, runtime, chrome, faults>>

-----------------------------------------------------------------------------
(* #stopManagedProfile.                                                    *)

\* chrome.stop() has waited for chrome.start() and for the process group.
Drained ==
  /\ runtime.stop = "DRAIN"
  /\ runtime.start \in {"PROBE", "FAILED", "DONE"}
  /\ chrome[runtime.generation] \in {"NONE", "GONE"}
  /\ runtime' = [runtime EXCEPT !.stop = "CLEANUP"]
  /\ UNCHANGED <<rowVars, channelVars, process, instance, commandVars, chromeVars, faults>>

\* The entry goes, and the command that waited for it goes on.
FinishStop ==
  /\ runtime.stop = "CLEANUP"
  /\ runtime' = NoRuntime
  /\ CASE job.waits = "STOP" /\ operations[job.command].action = "STOP" ->
            Completed(job.command, "OK")
       [] job.waits = "STOP" /\ operations[job.command].action # "STOP" ->
            Waits(job.command, "REMOVAL")
       [] job.waits = "REPLACE" /\ process = "UP" -> Waits(job.command, "ADMISSION")
       [] job.waits = "REPLACE" /\ process # "UP" -> Completed(job.command, "FAILED")
       [] OTHER -> UNCHANGED <<job, resultVars>>
  /\ UNCHANGED <<rowVars, channelVars, process, instance, fence, chromeVars, faults>>

\* Chrome does not stop, or a Session's files cannot be cleaned up: the entry stays.
FailStop ==
  /\ \/ runtime.stop = "DRAIN" /\ chrome[runtime.generation] = "STUCK" /\ UNCHANGED faults
     \/ runtime.stop = "CLEANUP" /\ faults < MaxFaults /\ faults' = faults + 1
  /\ runtime' = [runtime EXCEPT !.stop = "NO"]
  /\ IF job.waits \in {"STOP", "REPLACE"} THEN Completed(job.command, "FAILED")
     ELSE UNCHANGED <<job, resultVars>>
  /\ UNCHANGED <<rowVars, channelVars, process, instance, fence, chromeVars>>

-----------------------------------------------------------------------------
(* The process.  The supervisor drains the Chrome of a process that died.  *)

Close ==
  /\ process = "UP" /\ instance < MaxInstances
  /\ process' = "CLOSING"
  /\ UNCHANGED <<rowVars, channelVars, instance, commandVars, runtime, chromeVars, faults>>

CloseStops ==
  /\ process = "CLOSING"
  /\ runtime.generation # 0 /\ ~ runtime.stopping
  /\ runtime' = Stopped(runtime)
  /\ UNCHANGED <<rowVars, channelVars, process, instance, commandVars, chromeVars, faults>>

\* The process ends, after close() or at any moment.
Crash ==
  /\ process # "DOWN" /\ instance < MaxInstances
  /\ process' = "DOWN"
  /\ fence' = 0 /\ job' = NoJob
  /\ runtime' = NoRuntime
  /\ chrome' = [g \in Generations |-> IF chrome[g] \in {"LIVE", "STUCK"} THEN "ORPHAN"
                                      ELSE chrome[g]]
  /\ UNCHANGED <<rowVars, channelVars, instance, resultVars, directory, faults>>

Restart ==
  /\ process = "DOWN"
  /\ process' = "UP"
  /\ instance' = instance + 1
  /\ control' = "NONE"
  /\ round' = NoRound
  /\ UNCHANGED <<rowVars, reported, commandVars, runtime, chromeVars, faults>>

OrphanEnds(g) ==
  /\ chrome[g] = "ORPHAN"
  /\ chrome' = [chrome EXCEPT ![g] = "GONE"]
  /\ UNCHANGED <<rowVars, channelVars, process, instance, commandVars, runtime, directory, faults>>

\* Somebody mounts another volume, or loses the Profile's files, while nothing runs.
VolumeReplaced ==
  /\ faults < MaxFaults
  /\ runtime.generation = 0 /\ Unlocked
  /\ directory # "NONE"
  /\ directory' = "NONE"
  /\ faults' = faults + 1
  /\ UNCHANGED <<rowVars, channelVars, process, instance, commandVars, runtime, chrome>>

-----------------------------------------------------------------------------
Backend == PersistStart \/ PersistStop \/ RequestDeletion \/ PersistDelete
             \/ DeliverResult \/ GiveUp

Execution ==
  \/ \E c \in Commands : BeginStart(c) \/ BeginEnd(c) \/ \E expired \in BOOLEAN : RefuseCommand(c, expired)
  \/ RefuseAdmission \/ Register
  \/ \E removed \in {"NONE", "EMPTY", "LOADED"}, result \in {"OK", "FAILED"} :
       RemoveDirectory(removed, result)

Starting == Prepare \/ Launch \/ Ready \/ FailStart \/ EndStart \/ AbortStart
Stopping == Drained \/ FinishStop \/ FailStop
Reporting == Capture \/ Reconcile \/ ApplyPlan
Ending == \E g \in Generations, how \in {"GONE", "STUCK"} : ChromeEnds(g, how)

Operating ==
  \/ Ending \/ \E g \in Generations : ChromeWrites(g) \/ OrphanEnds(g)
  \/ Disconnect \/ Close \/ CloseStops \/ Crash \/ Restart \/ VolumeReplaced

RuntimesNext == Backend \/ Execution \/ Starting \/ Stopping \/ Reporting \/ Operating

\* Snapshots are taken and answered at the heartbeat's interval; what the process and the
\* supervisor have begun goes on.
RuntimesFairness ==
  /\ WF_runtimeVars(Reporting)
  /\ WF_runtimeVars(Execution)
  /\ WF_runtimeVars(Starting)
  /\ WF_runtimeVars(Stopping)
  /\ WF_runtimeVars((runtime.stopping \/ runtime.start = "FAILED") /\ Ending)
  /\ WF_runtimeVars(\E g \in Generations : OrphanEnds(g))
  /\ WF_runtimeVars(process = "CLOSING" /\ Crash)

RuntimesSpec == RuntimesInit /\ [][RuntimesNext]_runtimeVars /\ RuntimesFairness

-----------------------------------------------------------------------------
\* A Chrome of this process that may still write is in the facts, whoever starts, stops or replaces
\* it and whatever fails: only therefore a snapshot without the Runtime proves that it is gone.
AbsenceIsProven ==
  \A g \in Generations : chrome[g] \in {"LIVE", "STUCK"} => runtime.generation = g

\* What a STOP or DELETE of this process reported as done stays done: no START that was delayed, no
\* start under way and no plan brings back this or an earlier generation.
StopsAreFinal ==
  \A c \in Commands :
    operations[c].instance = instance /\ ~ IsStart(c) /\ outcome[c] = "OK" =>
      \A g \in 1..operations[c].generation : runtime.generation # g /\ chrome[g] \notin {"LIVE", "STUCK"}

\* A Profile that is recorded as deleted has neither a directory nor a Chrome, of any process.
DeletedIsGone ==
  row.deleted =>
    directory = "NONE" /\ runtime.generation = 0 /\ \A g \in Generations : chrome[g] \in {"NONE", "GONE"}

\* An end that was reported is final: nothing of the Runtime is running outside of the facts, comes
\* back after a STOP, or is left of a Profile that is deleted (profile-runtime-commands.ts,
\* remote-tab-runtime.ts, profile-chrome.ts).
EndsAreFinal == AbsenceIsProven /\ StopsAreFinal /\ DeletedIsGone

\* A Runtime that the row wants is not stopped by commands or plans that were meant for another.
WantedIsKept ==
  [][ ~ runtime.stopping /\ runtime'.stopping /\ process = "UP" =>
        row.desired = "STOPPED" \/ row.generation # runtime.generation ]_runtimeVars

\* A Profile that has run before is never started on a directory without its data.
DataIsNotReplaced ==
  [][ \A g \in Generations :
        chrome[g] # "LIVE" /\ chrome'[g] = "LIVE" /\ row.initialized => directory = "LOADED" ]_runtimeVars

\* Once the row keeps wanting the Runtime stopped, no Chrome of the Profile is left or comes back:
\* the plans stop what a lost STOP, a START that was delayed or an earlier process left behind.
UnwantedStops ==
  <>[](row.desired = "STOPPED") => <>[](\A g \in Generations : chrome[g] \notin {"LIVE", "ORPHAN"})
=============================================================================
