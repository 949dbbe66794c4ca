------------------------ MODULE ProfileRuntimesProofs ------------------------
(***************************************************************************)
(* Proofs about ProfileRuntimes: what was reported as ended is final, a    *)
(* Runtime that is wanted is kept, and the data of a Profile is not        *)
(* replaced.                                                               *)
(***************************************************************************)
EXTENDS ProfileRuntimes, FiniteSetTheorems, TLAPS

-----------------------------------------------------------------------------
(* The inductive invariant.                                                *)

\* Which commands there are, and that they never change.
IssuedAgrees ==
  \A c \in Commands :
    /\ c > issued => operations[c] = NoCommand /\ outcome[c] = "NONE"
    /\ c <= issued =>
         /\ operations[c].action # "NONE"
         /\ operations[c].generation \in 1..row.generation
         /\ operations[c].instance \in 1..instance

\* Generations and processes only go up, a START has a generation of its own, and nothing is started
\* after a deletion was ordered.
OperationsOrdered ==
  \A c, d \in 1..issued : c < d =>
    /\ operations[c].generation <= operations[d].generation
    /\ IsStart(d) => operations[c].generation < operations[d].generation
    /\ operations[c].instance <= operations[d].instance
    /\ operations[c].action = "DELETE" => ~ IsStart(d)

\* What the row says of the commands.
RowAgrees ==
  /\ row.generation <= issued /\ row.operation <= issued
  /\ row.state = "RUNNING" => row.initialized
  /\ row.deleted => row.deleteRequested /\ row.desired = "STOPPED"
  /\ row.deleted => \E c \in 1..issued : operations[c].action = "DELETE" /\ outcome[c] = "OK"
  /\ \A c \in 1..issued :
       /\ operations[c].action = "DELETE" => row.deleteRequested
       /\ ~ IsStart(c) => row.desired = "STOPPED" \/ operations[c].generation < row.generation
       /\ IsStart(c) /\ operations[c].generation = row.generation =>
            row.instance = operations[c].instance

\* A START that was persisted before the Profile had data cannot run after it has.
InitializedAgrees ==
  row.initialized =>
    \A d \in 1..issued : IsStart(d) /\ outcome[d] = "NONE" =>
      operations[d].existing \/ \E c \in 1..issued : d < c /\ IsStart(c) /\ outcome[c] = "OK"

\* The START of a generation, by the process that is running, and one that has succeeded.
StartedHere(g) ==
  \E c \in 1..issued :
    IsStart(c) /\ operations[c].generation = g /\ operations[c].instance = instance
Succeeded(g) ==
  \E c \in 1..issued : IsStart(c) /\ operations[c].generation = g /\ outcome[c] = "OK"

\* A snapshot under way is one of this process; what a plan stops is never wanted again.
RoundAgrees ==
  /\ round.generation # 0 => StartedHere(round.generation) /\ round.state # "NONE"
  /\ round.state = "RUNNING" => Succeeded(round.generation)
  /\ round.stop # 0 =>
       round.stop < row.generation \/ (round.stop = row.generation /\ row.desired = "STOPPED")

ProcessAgrees == process # "UP" => instance < MaxInstances

\* What a command that runs has met, and what it waits for.
JobAgrees ==
  /\ job.command = 0 <=> job.waits = "NONE"
  /\ job.command # 0 =>
       /\ process # "DOWN" /\ job.command <= issued
       /\ outcome[job.command] = "NONE"
       /\ operations[job.command].instance = instance
       /\ IsStart(job.command) <=> job.waits \in {"REPLACE", "ADMISSION", "START"}
       /\ IsStart(job.command) => operations[job.command].generation > fence
       /\ IsStart(job.command) =>
            \A d \in 1..issued : outcome[d] # "NONE" /\ IsStart(d) => d < job.command
       /\ job.waits \in {"STOP", "REPLACE"} =>
            runtime.generation # 0 /\ runtime.stop # "NO" /\ runtime.start = "DONE"
       /\ job.waits \in {"ADMISSION", "REMOVAL"} => runtime.generation = 0
       /\ job.waits = "REMOVAL" => operations[job.command].action = "DELETE"
       /\ job.waits \in {"STOP", "REMOVAL"} => operations[job.command].generation = fence
       /\ job.waits = "START" => runtime.generation \in {0, operations[job.command].generation}

\* What the entry of the Runtime is: started by this process, by the command that runs until the
\* start is done, and drained before it is cleaned up.
RuntimeAgrees ==
  /\ runtime.generation = 0 => runtime = NoRuntime
  /\ runtime.generation # 0 =>
       /\ process # "DOWN" /\ StartedHere(runtime.generation)
       /\ runtime.start # "NONE" /\ runtime.state # "NONE"
  /\ runtime.start \in {"PREPARE", "LAUNCH", "PROBE", "FAILED"} =>
       job.waits = "START" /\ runtime.generation = operations[job.command].generation
  /\ runtime.stop # "NO" => runtime.stopping
  /\ runtime.state = "RUNNING" => Succeeded(runtime.generation)
  /\ runtime.stop = "CLEANUP" =>
       runtime.start \notin {"PREPARE", "LAUNCH"} /\ chrome[runtime.generation] \in {"NONE", "GONE"}

\* A Chrome has a directory, which a START of a Profile with data has found LOADED.
DirectoryAgrees ==
  /\ \A g \in Generations : chrome[g] \in {"LIVE", "STUCK", "ORPHAN"} => directory # "NONE"
  /\ runtime.start = "LAUNCH" =>
       directory # "NONE" /\ (operations[job.command].existing => directory = "LOADED")

\* The fence is as high as every STOP or DELETE that is done, and the Runtime beyond them.
FenceAgrees ==
  \A c \in 1..issued :
    operations[c].instance = instance /\ ~ IsStart(c) /\ outcome[c] = "OK" =>
      /\ process # "DOWN" => operations[c].generation <= fence
      /\ runtime.generation = 0 \/ operations[c].generation < runtime.generation

\* After a deletion nothing is there and nothing begins.
DeletionAgrees ==
  \A c \in 1..issued :
    operations[c].action = "DELETE" /\ outcome[c] = "OK" =>
      directory = "NONE" /\ runtime.generation = 0 /\ job.waits \notin {"REPLACE", "ADMISSION", "START"}

\* The commands and the row; the snapshots; the process and what it runs.
RecordsInv == IssuedAgrees /\ OperationsOrdered /\ RowAgrees /\ InitializedAgrees
ExecutionInv == ProcessAgrees /\ JobAgrees /\ RuntimeAgrees
ChromeInv == AbsenceIsProven /\ DirectoryAgrees
EndsInv == FenceAgrees /\ DeletionAgrees

RuntimesInv == RuntimesTypeOK /\ RecordsInv /\ RoundAgrees /\ ExecutionInv /\ ChromeInv /\ EndsInv

LEMMA InitRuntimes == RuntimesInit => RuntimesInv
<1> SUFFICES ASSUME RuntimesInit PROVE RuntimesInv
  OBVIOUS
<1> USE RuntimesAssumption DEF RuntimesInit, Commands, Generations, Instances, NoCommand, NoRuntime, NoJob,
                               NoRound
<1>1. RuntimesTypeOK
  BY DEF RuntimesTypeOK, Rows, RowStates, Runtimes, Operations, Rounds, Jobs
<1>2. RecordsInv
  BY DEF RecordsInv, IssuedAgrees, OperationsOrdered, RowAgrees, InitializedAgrees
<1>3. RoundAgrees /\ ExecutionInv
  BY DEF RoundAgrees, ExecutionInv, ProcessAgrees, JobAgrees, RuntimeAgrees
<1>4. ChromeInv /\ EndsInv
  BY DEF ChromeInv, AbsenceIsProven, DirectoryAgrees, EndsInv, FenceAgrees, DeletionAgrees
<1> QED BY <1>1, <1>2, <1>3, <1>4 DEF RuntimesInv

-----------------------------------------------------------------------------
(* Facts about single values.                                              *)

\* The clock counts.
LEMMA ClockIsNat == Clock \in Nat
<1> DEFINE Done == {c \in Commands : outcome[c] # "NONE"}
<1>1. IsFiniteSet(Commands)
  BY RuntimesAssumption, FS_Interval DEF Commands
<1>2. IsFiniteSet(Done)
  BY <1>1, FS_Subset
<1> QED BY <1>2, FS_CardinalityType DEF Clock

\* The Backend's commands have a place in the arrays.
LEMMA IssuedAreCommands ==
  ASSUME RuntimesTypeOK
  PROVE  1..issued \subseteq Commands
BY RuntimesAssumption DEF RuntimesTypeOK, Commands

-----------------------------------------------------------------------------
(* What the types say of single values.                                    *)

LEMMA BoundsTyped ==
  /\ MaxCommands \in Nat /\ MaxCommands > 0
  /\ MaxInstances \in Nat /\ MaxInstances > 0
  /\ MaxFaults \in Nat
BY RuntimesAssumption

LEMMA RowTyped ==
  ASSUME RuntimesTypeOK
  PROVE  /\ row.generation \in 0..MaxCommands /\ row.instance \in 0..MaxInstances
         /\ row.observed \in Nat /\ row.operation \in 0..MaxCommands
         /\ row.desired \in {"RUNNING", "STOPPED"}
         /\ row.initialized \in BOOLEAN /\ row.deleteRequested \in BOOLEAN /\ row.deleted \in BOOLEAN
         /\ issued \in 0..MaxCommands /\ instance \in 1..MaxInstances
BY DEF RuntimesTypeOK, Rows, Instances

LEMMA OperationTyped ==
  ASSUME RuntimesTypeOK, NEW c \in Commands
  PROVE  /\ operations[c].action \in {"NONE", "START", "STOP", "DELETE"}
         /\ operations[c].generation \in 0..MaxCommands
         /\ operations[c].instance \in 0..MaxInstances
         /\ operations[c].existing \in BOOLEAN
         /\ outcome[c] \in {"NONE", "OK", "FAILED"} /\ completedAt[c] \in Nat
BY DEF RuntimesTypeOK, Operations

LEMMA WorkerTyped ==
  ASSUME RuntimesTypeOK
  PROVE  /\ process \in {"UP", "CLOSING", "DOWN"} /\ fence \in 0..MaxCommands
         /\ job.command \in 0..MaxCommands
         /\ job.waits \in {"NONE", "STOP", "REPLACE", "ADMISSION", "START", "REMOVAL"}
         /\ runtime.generation \in 0..MaxCommands
         /\ runtime.state \in {"NONE", "STARTING", "RUNNING", "STOPPING", "ERROR"}
         /\ runtime.start \in {"NONE", "PREPARE", "LAUNCH", "PROBE", "FAILED", "DONE"}
         /\ runtime.stopping \in BOOLEAN /\ runtime.stop \in {"NO", "DRAIN", "CLEANUP"}
         /\ directory \in {"NONE", "EMPTY", "LOADED"} /\ faults \in 0..MaxFaults
BY DEF RuntimesTypeOK, Runtimes, Jobs

LEMMA RoundTyped ==
  ASSUME RuntimesTypeOK
  PROVE  /\ round.generation \in 0..MaxCommands /\ round.stop \in 0..MaxCommands
         /\ round.at \in Nat /\ round.stage \in {"IDLE", "SENT", "PLANNED"}
         /\ round.state \in {"NONE", "STARTING", "RUNNING", "STOPPING", "ERROR"}
BY DEF RuntimesTypeOK, Rounds

-----------------------------------------------------------------------------
(* What a step leaves alone.                                               *)

LEMMA RecordsFrame ==
  ASSUME RecordsInv, UNCHANGED <<rowVars, instance, outcome>>
  PROVE  RecordsInv'
BY DEF RecordsInv, IssuedAgrees, OperationsOrdered, RowAgrees, InitializedAgrees, IsStart, rowVars

LEMMA RoundFrame ==
  ASSUME RoundAgrees, UNCHANGED <<rowVars, round, instance, outcome>>
  PROVE  RoundAgrees'
BY DEF RoundAgrees, StartedHere, Succeeded, IsStart, rowVars

LEMMA ExecutionFrame ==
  ASSUME ExecutionInv, UNCHANGED <<rowVars, process, instance, fence, job, outcome, runtime, chrome>>
  PROVE  ExecutionInv'
BY DEF ExecutionInv, ProcessAgrees, JobAgrees, RuntimeAgrees, StartedHere, Succeeded, IsStart, rowVars

LEMMA ChromeFrame ==
  ASSUME ChromeInv, UNCHANGED <<rowVars, job, runtime, chromeVars>>
  PROVE  ChromeInv'
BY DEF ChromeInv, AbsenceIsProven, DirectoryAgrees, rowVars, chromeVars

LEMMA EndsFrame ==
  ASSUME EndsInv, UNCHANGED <<rowVars, process, instance, fence, job, outcome, runtime, directory>>
  PROVE  EndsInv'
BY DEF EndsInv, FenceAgrees, DeletionAgrees, IsStart, rowVars

-----------------------------------------------------------------------------
(* The Backend.                                                            *)

\* A command that is added has no effect on the process.
LEMMA BackendKeepsProcess ==
  ASSUME RuntimesInv, issued' \in issued..MaxCommands,
         \A c \in 1..issued : operations'[c] = operations[c],
         UNCHANGED <<process, instance, commandVars, runtime, chromeVars>>
  PROVE  ExecutionInv' /\ ChromeInv' /\ EndsInv'
<1> USE BoundsTyped, RowTyped, WorkerTyped
    DEF RuntimesInv, ExecutionInv, ChromeInv, EndsInv, commandVars, resultVars, chromeVars, IsStart
<1>1. \A c \in 1..issued' : outcome'[c] # "NONE" => c \in 1..issued
  BY DEF RecordsInv, IssuedAgrees, Commands
<1>2. ProcessAgrees'
  BY DEF ProcessAgrees
<1>3. JobAgrees'
  BY <1>1 DEF JobAgrees
<1>4. RuntimeAgrees'
  BY <1>3 DEF RuntimeAgrees, JobAgrees, StartedHere, Succeeded
<1>5. AbsenceIsProven' /\ DirectoryAgrees'
  BY DEF AbsenceIsProven, DirectoryAgrees, RuntimeAgrees, JobAgrees
<1>6. FenceAgrees' /\ DeletionAgrees'
  BY <1>1 DEF FenceAgrees, DeletionAgrees
<1> QED BY <1>2, <1>3, <1>4, <1>5, <1>6

LEMMA Persisted ==
  ASSUME RuntimesInv, NEW action \in {"START", "STOP", "DELETE"}, NEW generation \in Commands,
         Persist(action, generation)
  PROVE  /\ issued' = issued + 1 /\ issued' \in Commands
         /\ \A c \in Commands : c # issued' => operations'[c] = operations[c]
         /\ operations'[issued'].action = action
         /\ operations'[issued'].generation = generation
         /\ operations'[issued'].instance = instance
         /\ operations'[issued'].existing = row.initialized
         /\ operations' \in [Commands -> Operations]
<1> DEFINE new == [ action |-> action, generation |-> generation, instance |-> instance,
                    existing |-> row.initialized ]
<1>1. new \in Operations
  BY BoundsTyped, RowTyped DEF RuntimesInv, Commands, Operations
<1>2. operations \in [Commands -> Operations]
  BY DEF RuntimesInv, RuntimesTypeOK
<1>3. issued' = issued + 1 /\ issued' \in Commands /\ operations' = [operations EXCEPT ![issued'] = new]
  BY BoundsTyped, RowTyped DEF RuntimesInv, Persist, Commands
<1>4. new.action = action /\ new.generation = generation /\ new.instance = instance
      /\ new.existing = row.initialized
  OBVIOUS
<1> HIDE DEF new
<1>5. operations' \in [Commands -> Operations] /\ operations'[issued'] = new
      /\ \A c \in Commands : c # issued' => operations'[c] = operations[c]
  BY <1>1, <1>2, <1>3
<1> QED BY <1>3, <1>4, <1>5

LEMMA RowUpdates ==
  ASSUME NEW r \in Rows, NEW g \in 0..MaxCommands, NEW c \in 0..MaxCommands, NEW i \in 0..MaxInstances
  PROVE  /\ [r EXCEPT !.state = "STOPPING", !.desired = "STOPPED", !.generation = g,
                      !.operation = c] \in Rows
         /\ [r EXCEPT !.state = "STARTING", !.desired = "RUNNING", !.generation = g, !.instance = i,
                      !.observed = 0, !.operation = c] \in Rows
BY DEF Rows, RowStates

LEMMA RowFieldSet ==
  ASSUME NEW r \in Rows, NEW o \in Nat, NEW b \in BOOLEAN, NEW s \in RowStates
  PROVE  /\ [r EXCEPT !.operation = 0] \in Rows
         /\ [r EXCEPT !.observed = o] \in Rows
         /\ [r EXCEPT !.state = s] \in Rows
         /\ [r EXCEPT !.desired = "STOPPED"] \in Rows
         /\ [r EXCEPT !.initialized = b] \in Rows
         /\ [r EXCEPT !.deleted = b] \in Rows
<1>1. [r EXCEPT !.operation = 0] \in Rows
  BY BoundsTyped DEF Rows
<1>2. [r EXCEPT !.observed = o] \in Rows
  BY DEF Rows
<1>3. [r EXCEPT !.state = s] \in Rows
  BY DEF Rows
<1>4. [r EXCEPT !.desired = "STOPPED"] \in Rows
  BY DEF Rows
<1>5. [r EXCEPT !.initialized = b] \in Rows /\ [r EXCEPT !.deleted = b] \in Rows
  BY DEF Rows
<1> QED BY <1>1, <1>2, <1>3, <1>4, <1>5

LEMMA RowSettlements ==
  ASSUME NEW r \in Rows, NEW o \in Nat, NEW b \in BOOLEAN, NEW s \in RowStates
  PROVE  /\ [r EXCEPT !.operation = 0, !.deleted = b, !.desired = "STOPPED", !.state = s] \in Rows
         /\ [r EXCEPT !.operation = 0, !.observed = o, !.state = s, !.initialized = b] \in Rows
         /\ [r EXCEPT !.state = s, !.observed = o, !.initialized = b] \in Rows
         /\ [r EXCEPT !.state = s, !.observed = o] \in Rows
<1>1. [[[[r EXCEPT !.operation = 0] EXCEPT !.deleted = b] EXCEPT !.desired = "STOPPED"]
        EXCEPT !.state = s] \in Rows
  BY RowFieldSet
<1>2. [[[[r EXCEPT !.operation = 0] EXCEPT !.observed = o] EXCEPT !.state = s]
        EXCEPT !.initialized = b] \in Rows
  BY RowFieldSet
<1>3. [[[r EXCEPT !.state = s] EXCEPT !.observed = o] EXCEPT !.initialized = b] \in Rows
  BY RowFieldSet
<1>4. [[r EXCEPT !.state = s] EXCEPT !.observed = o] \in Rows
  BY RowFieldSet
<1> QED BY <1>1, <1>2, <1>3, <1>4

LEMMA RecordsTyped ==
  ASSUME RuntimesTypeOK, row' \in Rows, issued' \in 0..MaxCommands,
         operations' \in [Commands -> Operations],
         UNCHANGED <<channelVars, process, instance, commandVars, runtime, chromeVars, faults>>
  PROVE  RuntimesTypeOK'
BY DEF RuntimesTypeOK, channelVars, commandVars, resultVars, chromeVars

LEMMA PersistStartStep ==
  ASSUME RuntimesInv, PersistStart
  PROVE  RuntimesInv'
<1> USE BoundsTyped, RowTyped DEF RuntimesInv, Commands
<1>1. row.generation + 1 \in Commands
  BY DEF PersistStart, Persist, RecordsInv, RowAgrees
<1>2. /\ issued' = issued + 1 /\ issued' \in Commands
      /\ \A c \in Commands : c # issued' => operations'[c] = operations[c]
      /\ operations'[issued'].action = "START"
      /\ operations'[issued'].generation = row.generation + 1
      /\ operations'[issued'].instance = instance
      /\ operations'[issued'].existing = row.initialized
  BY <1>1, Persisted DEF PersistStart
<1>3. /\ row'.generation = row.generation + 1 /\ row'.instance = instance
      /\ row'.operation = issued' /\ row'.desired = "RUNNING" /\ row'.state = "STARTING"
      /\ row'.initialized = row.initialized
      /\ row'.deleteRequested = row.deleteRequested /\ row'.deleted = row.deleted
  <2>1. row \in Rows
    BY DEF RuntimesTypeOK
  <2> QED BY <1>2, <2>1 DEF PersistStart, Rows
<1>4. UNCHANGED <<channelVars, process, instance, commandVars, outcome, runtime, chromeVars, faults>>
  BY DEF PersistStart, commandVars, resultVars
<1>5. RuntimesTypeOK'
  <2>1. row \in Rows /\ issued' \in 0..MaxCommands
    BY <1>2 DEF RuntimesTypeOK
  <2>2. row' \in Rows
    <3>1. /\ row.generation + 1 \in 0..MaxCommands /\ issued + 1 \in 0..MaxCommands
          /\ instance \in 0..MaxInstances
      BY <1>1, <1>2
    <3>2. [row EXCEPT !.state = "STARTING", !.desired = "RUNNING", !.generation = row.generation + 1,
                      !.instance = instance, !.observed = 0, !.operation = issued + 1] \in Rows
      BY <2>1, <3>1, RowUpdates
    <3> QED BY <3>2 DEF PersistStart
  <2>3. operations' \in [Commands -> Operations]
    BY <1>1, Persisted DEF PersistStart
  <2> QED BY <1>4, <2>1, <2>2, <2>3, RecordsTyped
<1>6. IssuedAgrees'
  BY <1>2, <1>3, <1>4 DEF RecordsInv, IssuedAgrees
<1>7. OperationsOrdered'
  <2> SUFFICES ASSUME NEW c \in 1..issued', NEW d \in 1..issued', c < d
               PROVE  /\ operations'[c].generation <= operations'[d].generation
                      /\ operations'[d].action = "START" =>
                           operations'[c].generation < operations'[d].generation
                      /\ operations'[c].instance <= operations'[d].instance
                      /\ operations'[c].action = "DELETE" => operations'[d].action # "START"
    BY DEF OperationsOrdered, IsStart
  <2>1. c \in 1..issued /\ operations'[c] = operations[c]
    BY <1>2
  <2>2. CASE d = issued'
    BY <1>1, <1>2, <2>1, <2>2 DEF RecordsInv, IssuedAgrees, RowAgrees, PersistStart
  <2>3. CASE d # issued'
    BY <1>2, <2>1, <2>3 DEF RecordsInv, OperationsOrdered, IsStart
  <2> QED BY <2>2, <2>3
<1>8. RowAgrees'
  BY <1>1, <1>2, <1>3, <1>4 DEF RecordsInv, IssuedAgrees, IsStart, RowAgrees, PersistStart
<1>9. InitializedAgrees'
  <2>1. row'.initialized => operations'[issued'].existing /\ row.initialized
    BY <1>2, <1>3, Zenon
  <2> QED BY <1>2, <1>4, <2>1 DEF RecordsInv, IsStart, InitializedAgrees
<1>10. RoundAgrees'
  BY <1>2, <1>3, <1>4, RoundTyped DEF RoundAgrees, IsStart, StartedHere, Succeeded, channelVars
<1>11. ExecutionInv' /\ ChromeInv' /\ EndsInv'
  BY <1>2, <1>4, BackendKeepsProcess
<1> QED BY <1>5, <1>6, <1>7, <1>8, <1>9, <1>10, <1>11 DEF RecordsInv

LEMMA PersistEndStep ==
  ASSUME RuntimesInv, NEW action \in {"STOP", "DELETE"}, PersistEnd(action),
         action = "DELETE" => row.deleteRequested
  PROVE  RuntimesInv'
<1> USE BoundsTyped, RowTyped DEF RuntimesInv, Commands
<1>1. /\ TargetGeneration \in Commands /\ row.generation <= TargetGeneration
      /\ row.generation = TargetGeneration \/ (row.generation = 0 /\ TargetGeneration = 1)
      /\ TargetGeneration <= issued + 1
  BY DEF TargetGeneration, PersistEnd, Persist, RecordsInv, RowAgrees
<1> HIDE DEF TargetGeneration
<1>2. /\ issued' = issued + 1 /\ issued' \in Commands
      /\ \A c \in Commands : c # issued' => operations'[c] = operations[c]
      /\ operations'[issued'].action = action
      /\ operations'[issued'].generation = TargetGeneration
      /\ operations'[issued'].instance = instance
  BY <1>1, Persisted DEF PersistEnd
<1>3. /\ row'.generation = TargetGeneration /\ row'.instance = row.instance
      /\ row'.operation = issued' /\ row'.desired = "STOPPED" /\ row'.state = "STOPPING"
      /\ row'.initialized = row.initialized
      /\ row'.deleteRequested = row.deleteRequested /\ row'.deleted = row.deleted
  <2>1. row \in Rows
    BY DEF RuntimesTypeOK
  <2> QED BY <1>2, <2>1 DEF PersistEnd, Rows
<1>4. UNCHANGED <<channelVars, process, instance, commandVars, outcome, runtime, chromeVars, faults>>
  BY DEF PersistEnd, commandVars, resultVars
<1>5. RuntimesTypeOK'
  <2>1. row \in Rows /\ issued' \in 0..MaxCommands
    BY <1>2 DEF RuntimesTypeOK
  <2>2. row' \in Rows
    <3>1. TargetGeneration \in 0..MaxCommands /\ issued + 1 \in 0..MaxCommands
      BY <1>1, <1>2
    <3>2. [row EXCEPT !.state = "STOPPING", !.desired = "STOPPED", !.generation = TargetGeneration,
                      !.operation = issued + 1] \in Rows
      BY <2>1, <3>1, RowUpdates
    <3> QED BY <3>2 DEF PersistEnd
  <2>3. operations' \in [Commands -> Operations]
    BY <1>1, Persisted DEF PersistEnd
  <2> QED BY <1>4, <2>1, <2>2, <2>3, RecordsTyped
<1>6. IssuedAgrees'
  BY <1>1, <1>2, <1>3, <1>4 DEF RecordsInv, IssuedAgrees
<1>7. OperationsOrdered'
  <2> SUFFICES ASSUME NEW c \in 1..issued', NEW d \in 1..issued', c < d
               PROVE  /\ operations'[c].generation <= operations'[d].generation
                      /\ operations'[d].action = "START" =>
                           operations'[c].generation < operations'[d].generation
                      /\ operations'[c].instance <= operations'[d].instance
                      /\ operations'[c].action = "DELETE" => operations'[d].action # "START"
    BY DEF OperationsOrdered, IsStart
  <2>1. c \in 1..issued /\ operations'[c] = operations[c]
    BY <1>2
  <2>2. CASE d = issued'
    BY <1>1, <1>2, <2>1, <2>2 DEF RecordsInv, IssuedAgrees
  <2>3. CASE d # issued'
    BY <1>2, <2>1, <2>3 DEF RecordsInv, OperationsOrdered, IsStart
  <2> QED BY <2>2, <2>3
<1>8. RowAgrees'
  BY <1>1, <1>2, <1>3, <1>4 DEF RecordsInv, IssuedAgrees, IsStart, RowAgrees
<1>9. InitializedAgrees'
  BY <1>2, <1>3, <1>4 DEF RecordsInv, IsStart, InitializedAgrees
<1>10. RoundAgrees'
  BY <1>1, <1>2, <1>3, <1>4, RoundTyped DEF RoundAgrees, IsStart, StartedHere, Succeeded, channelVars
<1>11. ExecutionInv' /\ ChromeInv' /\ EndsInv'
  BY <1>2, <1>4, BackendKeepsProcess
<1> QED BY <1>5, <1>6, <1>7, <1>8, <1>9, <1>10, <1>11 DEF RecordsInv

\* A step that only changes what the row says of the Runtime on record.
LEMMA RowStep ==
  ASSUME RuntimesInv, row' \in Rows,
         row'.generation = row.generation, row'.instance = row.instance,
         row'.operation \in {0, row.operation}, row'.desired \in {row.desired, "STOPPED"},
         row.deleteRequested => row'.deleteRequested,
         row'.state = "RUNNING" => row'.initialized,
         row'.initialized => row.initialized \/ Succeeded(row.generation),
         row'.deleted => row'.deleteRequested /\ row'.desired = "STOPPED",
         row'.deleted => \E c \in 1..issued : operations[c].action = "DELETE" /\ outcome[c] = "OK",
         UNCHANGED <<issued, operations, process, instance, commandVars, runtime, chromeVars, faults>>
  PROVE  RecordsInv' /\ ExecutionInv' /\ ChromeInv' /\ EndsInv'
<1> USE BoundsTyped, RowTyped DEF RuntimesInv, RecordsInv
<1>1. UNCHANGED outcome
  BY DEF commandVars, resultVars
<1>2. IssuedAgrees' /\ OperationsOrdered'
  BY <1>1 DEF IssuedAgrees, OperationsOrdered, IsStart
<1>3. RowAgrees'
  BY <1>1 DEF RowAgrees, IsStart
<1>4. InitializedAgrees'
  <2>1. CASE row.initialized
    BY <1>1, <2>1 DEF InitializedAgrees, IsStart
  <2>2. CASE ~ row.initialized /\ row'.initialized
    <3>1. PICK c \in 1..issued : IsStart(c) /\ operations[c].generation = row.generation /\ outcome[c] = "OK"
      BY <2>2 DEF Succeeded
    <3> SUFFICES ASSUME NEW d \in 1..issued, IsStart(d), outcome[d] = "NONE"
                 PROVE  d < c
      BY <1>1, <3>1 DEF InitializedAgrees, IsStart
    <3>2. operations[d].generation \in 1..row.generation
      BY IssuedAreCommands DEF IssuedAgrees, Commands
    <3>3. ~ (c < d)
      BY <3>1, <3>2 DEF OperationsOrdered
    <3> QED BY <3>1, <3>3
  <2>3. CASE ~ row'.initialized
    BY <2>3 DEF InitializedAgrees
  <2> QED BY <2>1, <2>2, <2>3
<1>5. ExecutionInv' /\ ChromeInv' /\ EndsInv'
  BY BackendKeepsProcess
<1> QED BY <1>2, <1>3, <1>4, <1>5

LEMMA RequestDeletionStep ==
  ASSUME RuntimesInv, RequestDeletion
  PROVE  RuntimesInv'
<1> USE DEF RuntimesInv
<1>1. row \in Rows /\ row' = [row EXCEPT !.deleteRequested = TRUE]
  BY DEF RuntimesTypeOK, RequestDeletion
<1>2. /\ row' \in Rows /\ row'.deleteRequested
      /\ row'.generation = row.generation /\ row'.instance = row.instance
      /\ row'.operation = row.operation /\ row'.desired = row.desired /\ row'.state = row.state
      /\ row'.initialized = row.initialized /\ row'.deleted = row.deleted
  BY <1>1 DEF Rows
<1>3. UNCHANGED <<issued, operations, channelVars, process, instance, commandVars, outcome, runtime,
                  chromeVars, faults>>
  BY DEF RequestDeletion, commandVars, resultVars
<1>4. RuntimesTypeOK'
  BY <1>2, <1>3, RecordsTyped DEF RuntimesTypeOK
<1>5. RecordsInv' /\ ExecutionInv' /\ ChromeInv' /\ EndsInv'
  BY <1>2, <1>3, RowStep DEF RecordsInv, RowAgrees
<1>6. RoundAgrees'
  BY <1>2, <1>3 DEF RoundAgrees, StartedHere, Succeeded, IsStart, channelVars
<1> QED BY <1>4, <1>5, <1>6

\* What is written for the end of a command: done is that it succeeded.
LEMMA SettledStep ==
  ASSUME RuntimesInv, NEW done \in BOOLEAN, NEW superseded \in BOOLEAN, NEW observed \in Nat,
         row.operation # 0, done => outcome[row.operation] = "OK",
         row' = IF operations[row.operation].action = "DELETE" THEN DeletionSettled(done)
                ELSE OperationSettled(done, superseded, observed),
         UNCHANGED <<issued, operations, channelVars, process, instance, commandVars, runtime,
                     chromeVars, faults>>
  PROVE  RuntimesInv'
<1> USE BoundsTyped, RowTyped DEF RuntimesInv
<1>1. row \in Rows /\ row.operation \in 1..issued
  BY DEF RuntimesTypeOK, RecordsInv, RowAgrees
<1>2. UNCHANGED <<issued, operations, channelVars, process, instance, commandVars, outcome, runtime,
                  chromeVars, faults>>
  BY DEF commandVars, resultVars
<1>3. CASE row' = [row EXCEPT !.operation = 0]
  <2>1. /\ row' \in Rows /\ row'.operation = 0
        /\ row'.generation = row.generation /\ row'.instance = row.instance
        /\ row'.desired = row.desired /\ row'.state = row.state
        /\ row'.deleteRequested = row.deleteRequested
        /\ row'.initialized = row.initialized /\ row'.deleted = row.deleted
    BY <1>1, <1>3 DEF Rows
  <2> QED BY <1>2, <2>1, RecordsTyped, RowStep, RoundTyped
          DEF RuntimesTypeOK, RecordsInv, RowAgrees, RoundAgrees, StartedHere, Succeeded, IsStart, channelVars
<1>4. CASE /\ operations[row.operation].action = "DELETE" /\ row.deleteRequested
           /\ row' = [row EXCEPT !.operation = 0, !.deleted = done, !.desired = "STOPPED",
                                 !.state = IF done THEN "STOPPED" ELSE "ERROR"]
  <2> DEFINE state == IF done THEN "STOPPED" ELSE "ERROR"
  <2>4. state \in {"STOPPED", "ERROR"} /\ state \in RowStates
    BY DEF RowStates
  <2>5. row' = [row EXCEPT !.operation = 0, !.deleted = done, !.desired = "STOPPED", !.state = state]
    BY <1>4
  <2> HIDE DEF state
  <2>6. row' \in Rows
    <3>1. [row EXCEPT !.operation = 0, !.deleted = done, !.desired = "STOPPED", !.state = state] \in Rows
      BY <1>1, <2>4, RowSettlements
    <3> QED BY <2>5, <3>1
  <2>1. /\ row' \in Rows /\ row'.operation = 0
        /\ row'.generation = row.generation /\ row'.instance = row.instance
        /\ row'.desired = "STOPPED" /\ row'.state \in {"STOPPED", "ERROR"}
        /\ row'.deleteRequested = row.deleteRequested /\ row'.initialized = row.initialized
    BY <1>1, <2>4, <2>5, <2>6 DEF Rows
  <2>2. row'.deleted => done
    BY <1>1, <1>4 DEF Rows
  <2>3. row'.deleted => \E c \in 1..issued : operations[c].action = "DELETE" /\ outcome[c] = "OK"
    BY <1>1, <1>4, <2>2
  <2>7. RuntimesTypeOK'
    BY <1>2, <2>1, RecordsTyped DEF RuntimesTypeOK
  <2>8. (row'.initialized => row.initialized) /\ row'.deleteRequested
    BY <1>4, <2>1, Zenon
  <2>9. RecordsInv' /\ ExecutionInv' /\ ChromeInv' /\ EndsInv'
    BY <1>2, <2>1, <2>3, <2>8, RowStep
  <2>10. RoundAgrees'
    BY <1>2, <2>1, RoundTyped DEF RoundAgrees, StartedHere, Succeeded, IsStart, channelVars
  <2> QED BY <2>7, <2>9, <2>10
<1>5. CASE \E target \in {"RUNNING", "STOPPED"}, reached \in BOOLEAN :
             /\ target = "RUNNING" /\ reached => row.initialized \/ Succeeded(row.generation)
             /\ row' = [row EXCEPT !.operation = 0, !.observed = observed,
                                   !.state = IF reached THEN target ELSE "ERROR",
                                   !.initialized = @ \/ (reached /\ target = "RUNNING")]
  <2>1. PICK target \in {"RUNNING", "STOPPED"}, reached \in BOOLEAN :
             /\ target = "RUNNING" /\ reached => row.initialized \/ Succeeded(row.generation)
             /\ row' = [row EXCEPT !.operation = 0, !.observed = observed,
                                   !.state = IF reached THEN target ELSE "ERROR",
                                   !.initialized = @ \/ (reached /\ target = "RUNNING")]
    BY <1>5
  <2> DEFINE state == IF reached THEN target ELSE "ERROR"
             initialized == row.initialized \/ (reached /\ target = "RUNNING")
  <2>4. /\ state \in RowStates
        /\ row' = [row EXCEPT !.operation = 0, !.observed = observed, !.state = state,
                              !.initialized = initialized]
    BY <2>1 DEF RowStates
  <2>5. initialized \in BOOLEAN
    OBVIOUS
  <2> HIDE DEF state, initialized
  <2>6. row' \in Rows
    <3>1. [row EXCEPT !.operation = 0, !.observed = observed, !.state = state,
                      !.initialized = initialized] \in Rows
      BY <1>1, <2>4, <2>5, RowSettlements
    <3> QED BY <2>4, <3>1
  <2>2. /\ row' \in Rows /\ row'.operation = 0
        /\ row'.generation = row.generation /\ row'.instance = row.instance
        /\ row'.desired = row.desired /\ row'.deleteRequested = row.deleteRequested
        /\ row'.deleted = row.deleted
    BY <1>1, <2>4, <2>6 DEF Rows
  <2>3. /\ row'.state = "RUNNING" => target = "RUNNING" /\ reached
        /\ row'.initialized <=> row.initialized \/ (reached /\ target = "RUNNING")
    BY <1>1, <2>1 DEF Rows
  <2> QED BY <1>2, <2>1, <2>2, <2>3, RecordsTyped, RowStep, RoundTyped
          DEF RuntimesTypeOK, RecordsInv, RowAgrees, RoundAgrees, StartedHere, Succeeded, IsStart, channelVars
<1>6. CASE operations[row.operation].action = "DELETE"
  BY <1>3, <1>4, <1>6 DEF DeletionSettled
<1>7. CASE operations[row.operation].action # "DELETE"
  <2> DEFINE target == IF operations[row.operation].action = "START" THEN "RUNNING" ELSE "STOPPED"
             reached == done \/ row.state = target
  <2>1. CASE row.generation = operations[row.operation].generation /\ ~ superseded
    <3>1. row' = [row EXCEPT !.operation = 0, !.observed = observed,
                             !.state = IF reached THEN target ELSE "ERROR",
                             !.initialized = @ \/ (reached /\ target = "RUNNING")]
      BY <1>7, <2>1 DEF OperationSettled
    <3>2. target = "RUNNING" /\ reached => row.initialized \/ Succeeded(row.generation)
      BY <1>1, <2>1 DEF Succeeded, IsStart, RecordsInv, RowAgrees
    <3>3. target \in {"RUNNING", "STOPPED"} /\ reached \in BOOLEAN
      OBVIOUS
    <3> HIDE DEF target, reached
    <3> QED BY <1>5, <3>1, <3>2, <3>3
  <2>2. CASE ~ (row.generation = operations[row.operation].generation /\ ~ superseded)
    BY <1>3, <1>7, <2>2 DEF OperationSettled
  <2> QED BY <2>1, <2>2
<1> QED BY <1>6, <1>7

LEMMA DeliveryStep ==
  ASSUME RuntimesInv, DeliverResult \/ GiveUp
  PROVE  RuntimesInv'
<1>1. row.operation # 0 => row.operation \in Commands
  BY RowTyped DEF RuntimesInv, Commands
<1>2. CASE DeliverResult
  <2> DEFINE superseded ==
        /\ ~ (outcome[row.operation] = "FAILED" /\ row.state = "ERROR")
        /\ row.instance = operations[row.operation].instance
        /\ completedAt[row.operation] <= row.observed
  <2>1. completedAt[row.operation] \in Nat /\ superseded \in BOOLEAN
    BY <1>1, <1>2, OperationTyped DEF RuntimesInv, DeliverResult
  <2>2. row' = IF operations[row.operation].action = "DELETE"
               THEN DeletionSettled(outcome[row.operation] = "OK")
               ELSE OperationSettled(outcome[row.operation] = "OK", superseded, completedAt[row.operation])
    BY <1>2 DEF DeliverResult
  <2> HIDE DEF superseded
  <2> QED BY <1>2, <2>1, <2>2, SettledStep DEF DeliverResult
<1>3. CASE GiveUp
  BY <1>3, RowTyped, SettledStep DEF RuntimesInv, GiveUp
<1> QED BY <1>2, <1>3

LEMMA BackendStep ==
  ASSUME RuntimesInv, Backend
  PROVE  RuntimesInv'
<1>1. CASE PersistStop \/ PersistDelete
  BY <1>1, PersistEndStep DEF PersistStop, PersistDelete
<1> QED BY <1>1, PersistStartStep, RequestDeletionStep, DeliveryStep DEF Backend

-----------------------------------------------------------------------------
(* Snapshots and plans.                                                    *)

LEMMA StoppedRuntime ==
  ASSUME RuntimesTypeOK
  PROVE  /\ Stopped(runtime) \in Runtimes
         /\ Stopped(runtime).generation = runtime.generation
         /\ Stopped(runtime).start = runtime.start
         /\ Stopped(runtime).state = "STOPPING" /\ Stopped(runtime).stopping
         /\ Stopped(runtime).stop # "NO"
         /\ Stopped(runtime).stop = "CLEANUP" => runtime.stop = "CLEANUP"
BY DEF RuntimesTypeOK, Runtimes, Stopped

\* A stop does not disturb the start that it waits for.
LEMMA RuntimeStops ==
  ASSUME RuntimesInv, runtime.generation # 0, runtime' = Stopped(runtime),
         UNCHANGED job \/ runtime.start = "DONE",
         UNCHANGED <<rowVars, process, instance, outcome, chromeVars>>
  PROVE  RuntimeAgrees' /\ ChromeInv'
<1> USE StoppedRuntime DEF RuntimesInv, ExecutionInv, ChromeInv, rowVars, chromeVars, IsStart
<1>1. RuntimeAgrees'
  BY DEF RuntimeAgrees, StartedHere, Succeeded
<1>2. AbsenceIsProven' /\ DirectoryAgrees'
  BY DEF AbsenceIsProven, DirectoryAgrees
<1> QED BY <1>1, <1>2

LEMMA CaptureStep ==
  ASSUME RuntimesInv, Capture
  PROVE  RuntimesInv'
<1> USE WorkerTyped DEF RuntimesInv
<1>1. /\ round' = [ stage |-> "SENT", generation |-> runtime.generation, state |-> runtime.state,
                    at |-> Clock, stop |-> 0 ]
      /\ UNCHANGED <<rowVars, control, reported, process, instance, commandVars, outcome, runtime,
                     chromeVars, faults>>
  BY DEF Capture, commandVars, resultVars
<1> HIDE DEF Clock
<1>2. round' \in Rounds
  BY <1>1, ClockIsNat, BoundsTyped DEF Rounds
<1>5. RuntimesTypeOK'
  BY <1>1, <1>2 DEF RuntimesTypeOK, rowVars, commandVars, resultVars, chromeVars
<1>3. RecordsInv' /\ ExecutionInv' /\ ChromeInv' /\ EndsInv'
  BY <1>1, RecordsFrame, ExecutionFrame, ChromeFrame, EndsFrame DEF commandVars, chromeVars
<1>4. RoundAgrees'
  BY <1>1 DEF RoundAgrees, ExecutionInv, RuntimeAgrees, StartedHere, Succeeded, IsStart, rowVars
<1> QED BY <1>3, <1>4, <1>5

\* What a snapshot changes in the row.
LEMMA ObservedRow ==
  ASSUME RuntimesInv, NEW underWay \in BOOLEAN, row' = RowObserved(underWay)
  PROVE  /\ row' \in Rows
         /\ row'.generation = row.generation /\ row'.instance = row.instance
         /\ row'.operation = row.operation /\ row'.desired = row.desired
         /\ row'.deleteRequested = row.deleteRequested /\ row'.deleted = row.deleted
         /\ row'.state = "RUNNING" => row'.initialized
         /\ row'.initialized => row.initialized \/ Succeeded(row.generation)
<1>1. round.state = "NONE" \/ round.state \in RowStates
  BY RoundTyped DEF RuntimesInv, RuntimesTypeOK, RowStates
<1>2. row \in Rows /\ round.at \in Nat
  BY RoundTyped DEF RuntimesInv, RuntimesTypeOK
<1>3. row.state = "RUNNING" => row.initialized
  BY DEF RuntimesInv, RecordsInv, RowAgrees
<1>4. CASE row' = row
  BY <1>2, <1>3, <1>4
<1>5. CASE \E s \in {"STOPPED", "ERROR"} : row' = [row EXCEPT !.state = s, !.observed = round.at]
  <2>1. PICK s \in {"STOPPED", "ERROR"} : row' = [row EXCEPT !.state = s, !.observed = round.at]
    BY <1>5
  <2>2. row' \in Rows
    <3>1. [row EXCEPT !.state = s, !.observed = round.at] \in Rows
      BY <1>2, RowSettlements DEF RowStates
    <3> QED BY <2>1, <3>1
  <2>3. /\ row'.generation = row.generation /\ row'.instance = row.instance
        /\ row'.operation = row.operation /\ row'.desired = row.desired
        /\ row'.deleteRequested = row.deleteRequested /\ row'.deleted = row.deleted
        /\ row'.state # "RUNNING" /\ row'.initialized = row.initialized
    BY <1>2, <2>1 DEF Rows
  <2>4. row'.initialized => row.initialized
    BY <2>3, Zenon
  <2> QED BY <2>2, <2>3, <2>4
<1>6. CASE /\ Matching
           /\ row' = [row EXCEPT !.state = round.state, !.observed = round.at,
                                 !.initialized = @ \/ round.state = "RUNNING"]
  <2> DEFINE initialized == row.initialized \/ round.state = "RUNNING"
  <2>1. /\ initialized \in BOOLEAN
        /\ row' = [row EXCEPT !.state = round.state, !.observed = round.at, !.initialized = initialized]
    BY <1>6
  <2>2. /\ round.state \in RowStates
        /\ round.state = "RUNNING" => initialized
        /\ initialized => row.initialized \/ Succeeded(row.generation)
    BY <1>1, <1>6 DEF RuntimesInv, RoundAgrees, Matching
  <2> HIDE DEF initialized
  <2>3. row' \in Rows
    <3>1. [row EXCEPT !.state = round.state, !.observed = round.at, !.initialized = initialized] \in Rows
      BY <1>2, <2>1, <2>2, RowSettlements
    <3> QED BY <2>1, <3>1
  <2>4. /\ row'.generation = row.generation /\ row'.instance = row.instance
        /\ row'.operation = row.operation /\ row'.desired = row.desired
        /\ row'.deleteRequested = row.deleteRequested /\ row'.deleted = row.deleted
        /\ row'.state = round.state /\ row'.initialized = initialized
    BY <1>2, <2>1 DEF Rows
  <2>5. row'.initialized <=> initialized
    BY <2>4, Zenon
  <2> QED BY <2>2, <2>3, <2>4, <2>5
<1> QED BY <1>4, <1>5, <1>6 DEF RowObserved

LEMMA ReconcileStep ==
  ASSUME RuntimesInv, Reconcile
  PROVE  RuntimesInv'
<1> USE BoundsTyped, RowTyped, RoundTyped DEF RuntimesInv
<1> DEFINE stop == IF Unwanted THEN round.generation ELSE 0
<1>1. PICK underWay \in BOOLEAN : row' = RowObserved(underWay)
  BY DEF Reconcile
<1>2. /\ row' \in Rows
      /\ row'.generation = row.generation /\ row'.instance = row.instance
      /\ row'.operation = row.operation /\ row'.desired = row.desired
      /\ row'.deleteRequested = row.deleteRequested /\ row'.deleted = row.deleted
      /\ row'.state = "RUNNING" => row'.initialized
      /\ row'.initialized => row.initialized \/ Succeeded(row.generation)
  BY <1>1, ObservedRow
<1>3. UNCHANGED <<issued, operations, process, instance, commandVars, outcome, runtime, chromeVars, faults>>
  BY DEF Reconcile, commandVars, resultVars
<1>4. /\ reported' = round.generation /\ control' \in {"READY", "RECOVERY"}
      /\ round' = [round EXCEPT !.stage = "PLANNED", !.stop = stop]
  BY DEF Reconcile
<1>5. stop \in 0..MaxCommands
  OBVIOUS
<1>6. stop # 0 => stop < row.generation \/ (stop = row.generation /\ row.desired = "STOPPED")
  <2> SUFFICES ASSUME stop # 0
               PROVE  stop < row.generation \/ (stop = row.generation /\ row.desired = "STOPPED")
    OBVIOUS
  <2>1. Unwanted /\ stop = round.generation
    OBVIOUS
  <2>2. PICK c \in 1..issued : /\ IsStart(c) /\ operations[c].generation = stop
                               /\ operations[c].instance = instance
    BY <2>1 DEF RoundAgrees, StartedHere
  <2>3. stop \in 1..row.generation /\ (stop = row.generation => row.instance = instance)
    BY <2>2, IssuedAreCommands DEF RecordsInv, IssuedAgrees, RowAgrees, Commands
  <2>4. row.deleted => row.desired = "STOPPED"
    BY DEF RecordsInv, RowAgrees
  <2> QED BY <2>1, <2>3, <2>4 DEF Unwanted, Matching
<1> HIDE DEF stop
<1>7. RuntimesTypeOK'
  <2>1. round' \in Rounds
    BY <1>4, <1>5 DEF RuntimesTypeOK, Rounds
  <2> QED BY <1>2, <1>3, <1>4, <2>1 DEF RuntimesTypeOK, commandVars, resultVars, chromeVars
<1>8. row.deleteRequested => row'.deleteRequested
  BY <1>2, Zenon
<1>9. row'.deleted => row.deleted
  BY <1>2, Zenon
<1>10. row.deleted => /\ row.deleteRequested /\ row.desired = "STOPPED"
                      /\ \E c \in 1..issued : operations[c].action = "DELETE" /\ outcome[c] = "OK"
  BY DEF RecordsInv, RowAgrees
<1>11. RecordsInv' /\ ExecutionInv' /\ ChromeInv' /\ EndsInv'
  BY <1>2, <1>3, <1>8, <1>9, <1>10, RowStep
<1>12. round'.generation = round.generation /\ round'.state = round.state /\ round'.stop = stop
  BY <1>4 DEF RuntimesTypeOK, Rounds
<1>13. RoundAgrees'
  BY <1>2, <1>3, <1>6, <1>12 DEF RoundAgrees, StartedHere, Succeeded, IsStart
<1> QED BY <1>7, <1>11, <1>13

LEMMA ApplyPlanStep ==
  ASSUME RuntimesInv, ApplyPlan
  PROVE  RuntimesInv'
<1> USE DEF RuntimesInv
<1>1. /\ round' = NoRound
      /\ UNCHANGED <<rowVars, control, reported, process, instance, commandVars, fence, job, outcome,
                     chromeVars, directory, faults>>
  BY DEF ApplyPlan, commandVars, resultVars, chromeVars
<1>2. RecordsInv'
  BY <1>1, RecordsFrame
<1>3. RoundAgrees' /\ round' \in Rounds
  BY <1>1, BoundsTyped DEF RoundAgrees, NoRound, Rounds
<1>4. CASE ~ Named
  <2>1. UNCHANGED runtime
    BY <1>4 DEF ApplyPlan
  <2>2. RuntimesTypeOK'
    BY <1>1, <1>3, <2>1
    DEF RuntimesTypeOK, rowVars, commandVars, resultVars, chromeVars
  <2> QED BY <1>1, <1>2, <1>3, <2>1, <2>2, ExecutionFrame, ChromeFrame, EndsFrame DEF chromeVars
<1>5. CASE Named
  <2>1. runtime' = Stopped(runtime) /\ runtime.generation # 0
    BY <1>5 DEF ApplyPlan, Named
  <2>2. RuntimesTypeOK'
    BY <1>1, <1>3, <2>1, StoppedRuntime
    DEF RuntimesTypeOK, rowVars, commandVars, resultVars, chromeVars
  <2>3. RuntimeAgrees' /\ ChromeInv'
    BY <1>1, <2>1, RuntimeStops
  <2>4. ProcessAgrees' /\ JobAgrees'
    BY <1>1, <2>1, StoppedRuntime DEF ExecutionInv, ProcessAgrees, JobAgrees, IsStart, rowVars
  <2>5. EndsInv'
    BY <1>1, <2>1, StoppedRuntime DEF EndsInv, FenceAgrees, DeletionAgrees, IsStart, rowVars
  <2> QED BY <1>2, <1>3, <2>2, <2>3, <2>4, <2>5 DEF ExecutionInv
<1> QED BY <1>4, <1>5

LEMMA ReportingStep ==
  ASSUME RuntimesInv, Reporting
  PROVE  RuntimesInv'
BY CaptureStep, ReconcileStep, ApplyPlanStep DEF Reporting

-----------------------------------------------------------------------------
(* Commands that end.                                                      *)

LEMMA CompletedTyped ==
  ASSUME RuntimesTypeOK, NEW c \in Commands, NEW result \in {"OK", "FAILED"}, Completed(c, result)
  PROVE  /\ job' = NoJob /\ job' \in Jobs /\ job'.command = 0 /\ job'.waits = "NONE"
         /\ outcome' \in [Commands -> {"NONE", "OK", "FAILED"}]
         /\ completedAt' \in [Commands -> Nat]
         /\ outcome'[c] = result /\ \A d \in Commands : d # c => outcome'[d] = outcome[d]
<1>1. Clock + 1 \in Nat
  BY ClockIsNat
<1>2. job' = NoJob /\ outcome' = [outcome EXCEPT ![c] = result]
      /\ completedAt' = [completedAt EXCEPT ![c] = Clock + 1]
  BY DEF Completed
<1> HIDE DEF Clock
<1> QED BY <1>1, <1>2, BoundsTyped DEF RuntimesTypeOK, NoJob, Jobs

LEMMA WaitsTyped ==
  ASSUME RuntimesTypeOK, NEW c \in Commands,
         NEW for \in {"STOP", "REPLACE", "ADMISSION", "START", "REMOVAL"}, Waits(c, for)
  PROVE  /\ job' \in Jobs /\ job'.command = c /\ job'.waits = for
         /\ UNCHANGED <<resultVars, outcome, completedAt>>
BY DEF Waits, Jobs, Commands, resultVars

\* The end of a command changes nothing of what was known of the others.
LEMMA CompletionRecords ==
  ASSUME RuntimesInv, NEW c \in 1..issued, outcome[c] = "NONE",
         NEW result \in {"OK", "FAILED"}, Completed(c, result), UNCHANGED <<rowVars, round, instance>>
  PROVE  RecordsInv' /\ RoundAgrees'
<1> USE DEF RuntimesInv
<1>1. c \in Commands /\ 1..issued \subseteq Commands
  BY IssuedAreCommands
<1>2. outcome'[c] = result /\ \A d \in Commands : d # c => outcome'[d] = outcome[d]
  BY <1>1, CompletedTyped
<1>3. \A d \in 1..issued : outcome[d] = "OK" => outcome'[d] = "OK"
  BY <1>1, <1>2
<1>4. IssuedAgrees' /\ OperationsOrdered'
  BY <1>1, <1>2, RowTyped DEF RecordsInv, IssuedAgrees, OperationsOrdered, IsStart, rowVars, Commands
<1>5. RowAgrees'
  BY <1>1, <1>3 DEF RecordsInv, RowAgrees, IsStart, rowVars
<1>6. InitializedAgrees'
  BY <1>1, <1>2, <1>3 DEF RecordsInv, InitializedAgrees, IsStart, rowVars
<1>7. RoundAgrees'
  BY <1>3 DEF RoundAgrees, StartedHere, Succeeded, IsStart, rowVars
<1> QED BY <1>4, <1>5, <1>6, <1>7 DEF RecordsInv

\* What a STOP or DELETE that ends has to have achieved.
LEMMA CompletionEnds ==
  ASSUME RuntimesInv, NEW c \in 1..issued, outcome[c] = "NONE",
         NEW result \in {"OK", "FAILED"}, Completed(c, result), UNCHANGED <<rowVars, process, instance>>,
         fence' \in Nat, fence <= fence',
         runtime'.generation \in {0, runtime.generation}, directory' \in {"NONE", directory},
         result = "OK" /\ ~ IsStart(c) =>
           /\ operations[c].generation <= fence' /\ runtime'.generation = 0
           /\ operations[c].action = "DELETE" => directory' = "NONE"
  PROVE  EndsInv'
<1> USE BoundsTyped, WorkerTyped DEF RuntimesInv
<1>1. c \in Commands /\ 1..issued \subseteq Commands
  BY IssuedAreCommands
<1>2. /\ outcome'[c] = result /\ \A d \in Commands : d # c => outcome'[d] = outcome[d]
      /\ job'.waits = "NONE"
  BY <1>1, CompletedTyped
<1>3. \A d \in 1..issued : operations[d].generation \in Nat
  BY <1>1, OperationTyped
<1>4. FenceAgrees'
  BY <1>1, <1>2, <1>3 DEF EndsInv, FenceAgrees, IsStart, rowVars
<1>5. DeletionAgrees'
  BY <1>1, <1>2 DEF EndsInv, DeletionAgrees, IsStart, rowVars
<1> QED BY <1>4, <1>5 DEF EndsInv

\* A command that fails without having done anything.
LEMMA FailedCommand ==
  ASSUME RuntimesInv, NEW c \in 1..issued, outcome[c] = "NONE", Completed(c, "FAILED"),
         runtime.start \notin {"PREPARE", "LAUNCH", "PROBE", "FAILED"},
         UNCHANGED <<rowVars, channelVars, process, instance, fence, runtime, chromeVars, faults>>
  PROVE  RuntimesInv'
<1> USE DEF RuntimesInv, channelVars, chromeVars
<1>1. c \in Commands
  BY IssuedAreCommands
<1>2. /\ job' = NoJob /\ job' \in Jobs /\ job'.command = 0 /\ job'.waits = "NONE"
      /\ outcome' \in [Commands -> {"NONE", "OK", "FAILED"}]
      /\ completedAt' \in [Commands -> Nat]
      /\ \A d \in Commands : d # c => outcome'[d] = outcome[d]
  BY <1>1, CompletedTyped
<1>3. RuntimesTypeOK'
  BY <1>2 DEF RuntimesTypeOK, rowVars
<1>4. RecordsInv' /\ RoundAgrees'
  BY CompletionRecords
<1>5. EndsInv'
  BY CompletionEnds, WorkerTyped, BoundsTyped
<1>6. ProcessAgrees' /\ JobAgrees'
  BY <1>2 DEF ExecutionInv, ProcessAgrees, JobAgrees
<1>7. \A d \in 1..issued : outcome[d] = "OK" => outcome'[d] = "OK"
  BY <1>2, IssuedAreCommands
<1>8. RuntimeAgrees'
  BY <1>7 DEF ExecutionInv, RuntimeAgrees, StartedHere, Succeeded, IsStart, rowVars
<1>9. AbsenceIsProven' /\ DirectoryAgrees'
  BY DEF ChromeInv, AbsenceIsProven, DirectoryAgrees
<1> QED BY <1>3, <1>4, <1>5, <1>6, <1>8, <1>9 DEF ExecutionInv, ChromeInv

-----------------------------------------------------------------------------
(* Commands that begin.                                                    *)

\* Nothing is started when a command may begin.
LEMMA BeginsAtRest ==
  ASSUME RuntimesInv, NEW c \in Commands, MayBegin(c)
  PROVE  /\ c \in 1..issued /\ outcome[c] = "NONE" /\ job.waits = "NONE"
         /\ runtime.start \notin {"PREPARE", "LAUNCH", "PROBE", "FAILED"}
         /\ runtime.generation # 0 => runtime.start = "DONE"
BY RowTyped, WorkerTyped
DEF RuntimesInv, MayBegin, NoJob, ExecutionInv, RuntimeAgrees, Commands

LEMMA RefuseCommandStep ==
  ASSUME RuntimesInv, NEW c \in Commands, NEW expired \in BOOLEAN, RefuseCommand(c, expired)
  PROVE  RuntimesInv'
BY BeginsAtRest, FailedCommand DEF RefuseCommand

\* A START that may begin was not persisted by a process that has deleted the Profile.
LEMMA NoStartAfterDelete ==
  ASSUME RuntimesInv, NEW c \in Commands, MayBegin(c), IsStart(c), ~ Overtaken(c), NEW d \in 1..issued,
         operations[d].action = "DELETE", outcome[d] = "OK"
  PROVE  FALSE
<1> USE DEF RuntimesInv
<1>1. /\ c \in 1..issued /\ d # c /\ operations[c].instance = instance /\ process # "DOWN"
  BY BeginsAtRest DEF MayBegin
<1>2. ~ (d < c)
  BY <1>1 DEF RecordsInv, OperationsOrdered
<1>3. operations[c].generation <= operations[d].generation /\ operations[c].instance <= operations[d].instance
  BY <1>1, <1>2 DEF RecordsInv, OperationsOrdered
<1>4. operations[d].instance = instance
  BY <1>1, <1>3, RowTyped, IssuedAreCommands DEF RecordsInv, IssuedAgrees, Commands
<1>5. operations[d].generation <= fence
  BY <1>1, <1>4 DEF EndsInv, FenceAgrees, IsStart
<1> QED BY <1>1, <1>3, <1>5, WorkerTyped, OperationTyped, IssuedAreCommands DEF Overtaken

LEMMA BeginStartStep ==
  ASSUME RuntimesInv, NEW c \in Commands, BeginStart(c)
  PROVE  RuntimesInv'
<1> USE DEF RuntimesInv, channelVars, chromeVars
<1>1. MayBegin(c) /\ IsStart(c) /\ ~ Overtaken(c)
  BY DEF BeginStart, Refused
<1>2. /\ c \in 1..issued /\ outcome[c] = "NONE" /\ job.waits = "NONE"
      /\ runtime.generation # 0 => runtime.start = "DONE"
      /\ operations[c].instance = instance /\ process # "DOWN"
      /\ \A d \in Commands : outcome[d] # "NONE" /\ IsStart(d) => d < c
  BY <1>1, BeginsAtRest DEF MayBegin
<1>3. \A d \in 1..issued : ~ (operations[d].action = "DELETE" /\ outcome[d] = "OK")
  BY <1>1, NoStartAfterDelete
<1>4. operations[c].generation > fence
  BY <1>1, WorkerTyped, OperationTyped DEF Overtaken
<1>5. UNCHANGED <<rowVars, control, reported, round, process, instance, fence, chrome, directory, faults>>
  BY DEF BeginStart
<1>6. PICK for \in {"ADMISSION", "REPLACE"} :
        /\ Waits(c, for)
        /\ for = "ADMISSION" => runtime.generation = 0 /\ UNCHANGED runtime
        /\ for = "REPLACE" => runtime.generation # 0 /\ runtime' = Stopped(runtime)
  BY DEF BeginStart
<1>7. /\ job' \in Jobs /\ job'.command = c /\ job'.waits = for
      /\ UNCHANGED <<resultVars, outcome, completedAt>>
  BY <1>6, WaitsTyped
<1>8. runtime' \in Runtimes /\ runtime'.generation = runtime.generation
  BY <1>6, StoppedRuntime DEF RuntimesTypeOK
<1>9. RuntimesTypeOK'
  BY <1>5, <1>7, <1>8 DEF RuntimesTypeOK, rowVars
<1>10. RecordsInv' /\ RoundAgrees'
  BY <1>5, <1>7, RecordsFrame, RoundFrame
<1>11. JobAgrees'
  <2>1. for = "REPLACE" => runtime'.generation # 0 /\ runtime'.stop # "NO" /\ runtime'.start = "DONE"
    BY <1>2, <1>6, StoppedRuntime
  <2> QED BY <1>1, <1>2, <1>4, <1>5, <1>6, <1>7, <2>1, IssuedAreCommands DEF JobAgrees, IsStart, rowVars, Commands
<1>12. ProcessAgrees' /\ EndsInv'
  BY <1>3, <1>5, <1>7, <1>8 DEF ExecutionInv, ProcessAgrees, EndsInv, FenceAgrees, DeletionAgrees, IsStart, rowVars
<1>13. RuntimeAgrees' /\ ChromeInv'
  <2>1. CASE for = "ADMISSION"
    BY <1>5, <1>6, <1>7, <2>1
    DEF ExecutionInv, RuntimeAgrees, NoRuntime, ChromeInv, AbsenceIsProven, DirectoryAgrees
  <2>2. CASE for = "REPLACE"
    BY <1>2, <1>5, <1>6, <1>7, <2>2, RuntimeStops
  <2> QED BY <2>1, <2>2
<1> QED BY <1>9, <1>10, <1>11, <1>12, <1>13 DEF ExecutionInv

LEMMA BeginEndStep ==
  ASSUME RuntimesInv, NEW c \in Commands, BeginEnd(c)
  PROVE  RuntimesInv'
<1> USE DEF RuntimesInv, channelVars, chromeVars
<1>1. /\ c \in 1..issued /\ outcome[c] = "NONE" /\ job.waits = "NONE" /\ ~ IsStart(c)
      /\ runtime.start \notin {"PREPARE", "LAUNCH", "PROBE", "FAILED"}
      /\ runtime.generation # 0 => runtime.start = "DONE"
      /\ operations[c].instance = instance /\ process # "DOWN"
  BY BeginsAtRest DEF BeginEnd, MayBegin
<1>2. /\ fence' = operations[c].generation /\ fence' \in 0..MaxCommands /\ fence <= fence'
      /\ ~ (runtime.generation # 0 /\ runtime.generation # operations[c].generation)
  BY <1>1, WorkerTyped, OperationTyped DEF BeginEnd, Refused
<1>3. UNCHANGED <<rowVars, control, reported, round, process, instance, chrome, directory, faults>>
  BY DEF BeginEnd
<1>4. operations[c].action \in {"STOP", "DELETE"}
  BY <1>1, OperationTyped DEF RecordsInv, IssuedAgrees, IsStart, Commands
<1>5. CASE runtime.generation = 0 /\ operations[c].action = "STOP"
  <2>1. Completed(c, "OK") /\ UNCHANGED runtime
    BY <1>5 DEF BeginEnd
  <2>2. /\ job' = NoJob /\ job' \in Jobs /\ job'.command = 0 /\ job'.waits = "NONE"
        /\ outcome' \in [Commands -> {"NONE", "OK", "FAILED"}]
        /\ completedAt' \in [Commands -> Nat]
    BY <2>1, CompletedTyped
  <2>3. RuntimesTypeOK'
    BY <1>2, <1>3, <2>1, <2>2 DEF RuntimesTypeOK, rowVars
  <2>4. RecordsInv' /\ RoundAgrees'
    BY <1>1, <1>3, <2>1, CompletionRecords
  <2>5. EndsInv'
    BY <1>1, <1>2, <1>3, <1>5, <2>1, CompletionEnds, WorkerTyped, BoundsTyped
  <2>6. ExecutionInv'
    BY <1>3, <1>5, <2>1, <2>2 DEF ExecutionInv, ProcessAgrees, JobAgrees, RuntimeAgrees, NoRuntime
  <2>7. ChromeInv'
    BY <1>1, <1>3, <2>1 DEF ChromeInv, AbsenceIsProven, DirectoryAgrees
  <2> QED BY <2>3, <2>4, <2>5, <2>6, <2>7
<1>6. CASE runtime.generation = 0 /\ operations[c].action = "DELETE"
  <2>1. Waits(c, "REMOVAL") /\ UNCHANGED runtime
    BY <1>6 DEF BeginEnd
  <2>2. /\ job' \in Jobs /\ job'.command = c /\ job'.waits = "REMOVAL"
        /\ UNCHANGED <<resultVars, outcome, completedAt>>
    BY <2>1, WaitsTyped
  <2>3. RuntimesTypeOK'
    BY <1>2, <1>3, <2>1, <2>2 DEF RuntimesTypeOK, rowVars
  <2>4. RecordsInv' /\ RoundAgrees'
    BY <1>3, <2>2, RecordsFrame, RoundFrame
  <2>5. EndsInv'
    BY <1>1, <1>2, <1>3, <2>1, <2>2, BoundsTyped, WorkerTyped, OperationTyped, IssuedAreCommands
    DEF EndsInv, FenceAgrees, DeletionAgrees, IsStart, rowVars
  <2>6. ExecutionInv'
    BY <1>1, <1>2, <1>3, <1>6, <2>1, <2>2, RowTyped
    DEF ExecutionInv, ProcessAgrees, JobAgrees, RuntimeAgrees, NoRuntime, IsStart, rowVars
  <2>7. ChromeInv'
    BY <1>1, <1>3, <2>1 DEF ChromeInv, AbsenceIsProven, DirectoryAgrees
  <2> QED BY <2>3, <2>4, <2>5, <2>6, <2>7
<1>7. CASE runtime.generation # 0
  <2>1. Waits(c, "STOP") /\ runtime' = Stopped(runtime)
    BY <1>7 DEF BeginEnd
  <2>2. /\ job' \in Jobs /\ job'.command = c /\ job'.waits = "STOP"
        /\ UNCHANGED <<resultVars, outcome, completedAt>>
    BY <2>1, WaitsTyped
  <2>3. RuntimesTypeOK'
    BY <1>2, <1>3, <2>1, <2>2, StoppedRuntime DEF RuntimesTypeOK, rowVars
  <2>4. RecordsInv' /\ RoundAgrees'
    BY <1>3, <2>2, RecordsFrame, RoundFrame
  <2>5. EndsInv'
    BY <1>1, <1>2, <1>3, <2>1, <2>2, StoppedRuntime, BoundsTyped, WorkerTyped, OperationTyped, IssuedAreCommands
    DEF EndsInv, FenceAgrees, DeletionAgrees, IsStart, rowVars
  <2>6. RuntimeAgrees' /\ ChromeInv'
    BY <1>1, <1>3, <1>7, <2>1, <2>2, RuntimeStops
  <2>7. ProcessAgrees' /\ JobAgrees'
    BY <1>1, <1>2, <1>3, <1>7, <2>1, <2>2, RowTyped, StoppedRuntime
    DEF ExecutionInv, ProcessAgrees, JobAgrees, IsStart, rowVars
  <2> QED BY <2>3, <2>4, <2>5, <2>6, <2>7 DEF ExecutionInv
<1> QED BY <1>4, <1>5, <1>6, <1>7

-----------------------------------------------------------------------------
(* Commands that go on.                                                    *)

\* The command that runs.
LEMMA JobRuns ==
  ASSUME RuntimesInv, job.waits # "NONE"
  PROVE  /\ job.command \in 1..issued /\ job.command \in Commands /\ outcome[job.command] = "NONE"
         /\ process # "DOWN" /\ operations[job.command].instance = instance
BY WorkerTyped, RowTyped, IssuedAreCommands DEF RuntimesInv, ExecutionInv, JobAgrees, Commands

LEMMA RefuseAdmissionStep ==
  ASSUME RuntimesInv, RefuseAdmission
  PROVE  RuntimesInv'
<1>1. runtime.generation = 0 /\ runtime.start = "NONE" /\ job.waits # "NONE"
  BY DEF RuntimesInv, RefuseAdmission, ExecutionInv, JobAgrees, RuntimeAgrees, NoRuntime
<1> QED BY <1>1, JobRuns, FailedCommand DEF RefuseAdmission

LEMMA AbortStartStep ==
  ASSUME RuntimesInv, AbortStart
  PROVE  RuntimesInv'
<1>1. runtime.generation = 0 /\ runtime.start = "NONE" /\ job.waits # "NONE"
  BY DEF RuntimesInv, AbortStart, ExecutionInv, RuntimeAgrees, NoRuntime
<1> QED BY <1>1, JobRuns, FailedCommand DEF AbortStart

LEMMA RegisterStep ==
  ASSUME RuntimesInv, Register
  PROVE  RuntimesInv'
<1> USE DEF RuntimesInv, channelVars, chromeVars
<1> DEFINE c == job.command
           g == operations[c].generation
<1>1. /\ job.waits = "ADMISSION" /\ c \in 1..issued /\ c \in Commands /\ outcome[c] = "NONE"
      /\ process # "DOWN" /\ operations[c].instance = instance /\ IsStart(c)
      /\ g > fence /\ g \in 1..MaxCommands /\ runtime.generation = 0
  BY JobRuns, OperationTyped, WorkerTyped DEF Register, ExecutionInv, JobAgrees
<1>2. /\ runtime' = [ generation |-> g, state |-> "STARTING", start |-> "PREPARE",
                      stopping |-> FALSE, stop |-> "NO" ]
      /\ Waits(c, "START")
      /\ UNCHANGED <<rowVars, control, reported, round, process, instance, fence, chrome, directory, faults>>
  BY DEF Register
<1> HIDE DEF c, g
<1>3. /\ runtime'.generation = g /\ runtime'.state = "STARTING" /\ runtime'.start = "PREPARE"
      /\ ~ runtime'.stopping /\ runtime'.stop = "NO"
  BY <1>2
<1>4. runtime' \in Runtimes
  BY <1>1, <1>2 DEF Runtimes
<1>5. /\ job' \in Jobs /\ job'.command = c /\ job'.waits = "START"
      /\ UNCHANGED <<resultVars, outcome, completedAt>>
  BY <1>1, <1>2, WaitsTyped
<1>6. RuntimesTypeOK'
  BY <1>2, <1>4, <1>5 DEF RuntimesTypeOK, rowVars
<1>7. RecordsInv' /\ RoundAgrees'
  BY <1>2, <1>5, RecordsFrame, RoundFrame
<1>8. ProcessAgrees' /\ JobAgrees'
  BY <1>1, <1>2, <1>3, <1>5, RowTyped
  DEF ExecutionInv, ProcessAgrees, JobAgrees, IsStart, rowVars, c, g
<1>9. StartedHere(g)
  BY <1>1 DEF StartedHere, g
<1>10. RuntimeAgrees'
  BY <1>1, <1>2, <1>3, <1>5, <1>9 DEF RuntimeAgrees, StartedHere, IsStart, rowVars, g
<1>11. AbsenceIsProven' /\ DirectoryAgrees'
  BY <1>1, <1>2, <1>3 DEF ChromeInv, AbsenceIsProven, DirectoryAgrees, Generations
<1>12. FenceAgrees' /\ DeletionAgrees'
  BY <1>1, <1>2, <1>3, <1>5, WorkerTyped, OperationTyped, IssuedAreCommands
  DEF EndsInv, FenceAgrees, DeletionAgrees, IsStart, rowVars
<1> QED BY <1>6, <1>7, <1>8, <1>10, <1>11, <1>12 DEF ExecutionInv, ChromeInv, EndsInv

LEMMA RemoveDirectoryStep ==
  ASSUME RuntimesInv, NEW removed \in {"NONE", "EMPTY", "LOADED"}, NEW result \in {"OK", "FAILED"},
         RemoveDirectory(removed, result)
  PROVE  RuntimesInv'
<1> USE DEF RuntimesInv, channelVars
<1> DEFINE c == job.command
<1>1. /\ job.waits = "REMOVAL" /\ c \in 1..issued /\ c \in Commands /\ outcome[c] = "NONE"
      /\ ~ IsStart(c) /\ operations[c].generation = fence
      /\ runtime.generation = 0 /\ runtime = NoRuntime
  BY JobRuns DEF RemoveDirectory, ExecutionInv, JobAgrees, RuntimeAgrees
<1>2. /\ directory' = removed /\ (result = "OK" => directory' = "NONE")
      /\ \/ removed = directory
         \/ Unlocked /\ (removed = "NONE" \/ (removed = "EMPTY" /\ directory = "LOADED"))
      /\ Completed(c, result)
      /\ UNCHANGED <<rowVars, control, reported, round, process, instance, fence, runtime, chrome, faults>>
  BY DEF RemoveDirectory
<1>3. \/ directory' \in {"NONE", directory}
      \/ directory' = "EMPTY" /\ directory # "NONE"
  BY <1>2
<1> HIDE DEF c
<1>4. /\ job' = NoJob /\ job' \in Jobs /\ job'.command = 0 /\ job'.waits = "NONE"
      /\ outcome' \in [Commands -> {"NONE", "OK", "FAILED"}]
      /\ completedAt' \in [Commands -> Nat]
      /\ outcome'[c] = result /\ \A d \in Commands : d # c => outcome'[d] = outcome[d]
  BY <1>1, <1>2, CompletedTyped
<1>5. RuntimesTypeOK'
  BY <1>2, <1>4 DEF RuntimesTypeOK, rowVars
<1>6. RecordsInv' /\ RoundAgrees'
  BY <1>1, <1>2, CompletionRecords
<1>7. ExecutionInv'
  BY <1>1, <1>2, <1>4 DEF ExecutionInv, ProcessAgrees, JobAgrees, RuntimeAgrees, NoRuntime
<1>8. \/ \A g \in Generations : chrome[g] \in {"NONE", "GONE"}
      \/ directory' = directory
  BY <1>2 DEF Unlocked
<1>9. ChromeInv'
  BY <1>1, <1>2, <1>8 DEF ChromeInv, AbsenceIsProven, DirectoryAgrees, NoRuntime
<1>10. FenceAgrees'
  BY <1>1, <1>2, <1>4, WorkerTyped, IssuedAreCommands DEF EndsInv, FenceAgrees, IsStart, rowVars
<1>11. DeletionAgrees'
  BY <1>1, <1>2, <1>3, <1>4, IssuedAreCommands DEF EndsInv, DeletionAgrees, rowVars
<1> QED BY <1>5, <1>6, <1>7, <1>9, <1>10, <1>11 DEF EndsInv

LEMMA ExecutionStep ==
  ASSUME RuntimesInv, Execution
  PROVE  RuntimesInv'
BY BeginStartStep, BeginEndStep, RefuseCommandStep, RefuseAdmissionStep, RegisterStep,
   RemoveDirectoryStep DEF Execution

-----------------------------------------------------------------------------
(* The start of a Runtime.                                                 *)

\* A start that is under way: the command that runs is its own.
LEMMA StartRuns ==
  ASSUME RuntimesInv, runtime.start \in {"PREPARE", "LAUNCH", "PROBE", "FAILED"}
  PROVE  /\ job.waits = "START" /\ runtime.generation = operations[job.command].generation
         /\ runtime.generation \in Generations /\ IsStart(job.command)
         /\ \A d \in 1..issued : ~ (operations[d].action = "DELETE" /\ outcome[d] = "OK")
<1> USE DEF RuntimesInv, ExecutionInv
<1>1. job.waits = "START" /\ runtime.generation = operations[job.command].generation
  BY DEF RuntimeAgrees
<1>2. runtime.generation # 0
  BY DEF RuntimeAgrees, NoRuntime
<1>3. runtime.generation \in Generations
  BY <1>2, WorkerTyped, BoundsTyped DEF Generations
<1>4. IsStart(job.command)
  BY <1>1 DEF JobAgrees
<1>5. \A d \in 1..issued : ~ (operations[d].action = "DELETE" /\ outcome[d] = "OK")
  BY <1>2 DEF EndsInv, DeletionAgrees
<1> QED BY <1>1, <1>3, <1>4, <1>5

\* A step of the start that goes on.
LEMMA RuntimeMoves ==
  ASSUME RuntimesInv, NEW start \in {"LAUNCH", "PROBE", "FAILED"},
         NEW state \in {"NONE", "STARTING", "RUNNING", "STOPPING", "ERROR"},
         runtime.start \in {"PREPARE", "LAUNCH", "PROBE"},
         state \in {runtime.state, "ERROR"}, state = "NONE" => runtime.state = "NONE",
         runtime' = [runtime EXCEPT !.start = start, !.state = state],
         runtime.stop = "CLEANUP" => start # "LAUNCH" /\ UNCHANGED chrome,
         UNCHANGED <<rowVars, channelVars, process, instance, commandVars, faults>>
  PROVE  /\ runtime' \in Runtimes /\ runtime'.generation = runtime.generation
         /\ runtime'.start = start /\ runtime'.stop = runtime.stop
         /\ RecordsInv' /\ RoundAgrees' /\ ExecutionInv'
<1> USE DEF RuntimesInv, commandVars, resultVars, channelVars
<1>1. /\ runtime' \in Runtimes /\ runtime'.generation = runtime.generation
      /\ runtime'.start = start /\ runtime'.stop = runtime.stop /\ runtime'.state = state
      /\ runtime'.stopping = runtime.stopping
  BY DEF RuntimesTypeOK, Runtimes
<1>2. RecordsInv' /\ RoundAgrees'
  BY RecordsFrame, RoundFrame
<1>3. runtime.stop # "NO" => runtime'.stopping
  BY <1>1 DEF ExecutionInv, RuntimeAgrees
<1>4. ProcessAgrees' /\ JobAgrees'
  BY <1>1, StartRuns DEF ExecutionInv, ProcessAgrees, JobAgrees, IsStart, rowVars
<1>5. RuntimeAgrees'
  BY <1>1, <1>3, StartRuns, WorkerTyped
  DEF ExecutionInv, RuntimeAgrees, StartedHere, Succeeded, IsStart, rowVars, Generations
<1> QED BY <1>1, <1>2, <1>4, <1>5 DEF ExecutionInv

LEMMA PrepareStep ==
  ASSUME RuntimesInv, Prepare
  PROVE  RuntimesInv'
<1> USE DEF RuntimesInv
<1>1. runtime.start = "PREPARE" /\ runtime.stop = "NO"
  BY WorkerTyped DEF Prepare, ExecutionInv, RuntimeAgrees
<1>2. /\ runtime' = [runtime EXCEPT !.start = "LAUNCH"]
      /\ directory' = IF directory = "NONE" THEN "EMPTY" ELSE directory
      /\ operations[job.command].existing => directory = "LOADED"
      /\ UNCHANGED <<rowVars, channelVars, process, instance, commandVars, chrome, faults>>
  BY DEF Prepare, DataExists
<1>3. runtime' = [runtime EXCEPT !.start = "LAUNCH", !.state = runtime.state]
  BY <1>2 DEF RuntimesTypeOK, Runtimes
<1>4. /\ runtime' \in Runtimes /\ runtime'.generation = runtime.generation
      /\ runtime'.start = "LAUNCH"
      /\ RecordsInv' /\ RoundAgrees' /\ ExecutionInv'
  BY <1>1, <1>2, <1>3, RuntimeMoves, WorkerTyped
<1>5. RuntimesTypeOK'
  BY <1>2, <1>4 DEF RuntimesTypeOK, rowVars, channelVars, commandVars, resultVars
<1>6. AbsenceIsProven'
  BY <1>2, <1>4 DEF ChromeInv, AbsenceIsProven
<1>7. DirectoryAgrees'
  <2>1. directory' # "NONE" /\ (operations[job.command].existing => directory' = "LOADED")
    BY <1>2
  <2> QED BY <1>2, <2>1 DEF DirectoryAgrees, rowVars, commandVars
<1>8. EndsInv'
  BY <1>1, <1>2, <1>4, StartRuns
  DEF EndsInv, FenceAgrees, DeletionAgrees, IsStart, rowVars, commandVars, resultVars
<1> QED BY <1>4, <1>5, <1>6, <1>7, <1>8 DEF ChromeInv

LEMMA LaunchStep ==
  ASSUME RuntimesInv, Launch
  PROVE  RuntimesInv'
<1> USE DEF RuntimesInv
<1>1. runtime.start = "LAUNCH" /\ runtime.stop = "NO" /\ runtime.generation \in Generations
  BY WorkerTyped, StartRuns DEF Launch, ExecutionInv, RuntimeAgrees
<1>2. /\ runtime' = [runtime EXCEPT !.start = "PROBE"]
      /\ chrome' = [chrome EXCEPT ![runtime.generation] = "LIVE"]
      /\ UNCHANGED <<rowVars, channelVars, process, instance, commandVars, directory, faults>>
  BY DEF Launch
<1>3. runtime' = [runtime EXCEPT !.start = "PROBE", !.state = runtime.state]
  BY <1>2 DEF RuntimesTypeOK, Runtimes
<1>4. /\ runtime' \in Runtimes /\ runtime'.generation = runtime.generation
      /\ runtime'.start = "PROBE"
      /\ RecordsInv' /\ RoundAgrees' /\ ExecutionInv'
  BY <1>1, <1>2, <1>3, RuntimeMoves, WorkerTyped
<1>5. RuntimesTypeOK'
  BY <1>2, <1>4 DEF RuntimesTypeOK, rowVars, channelVars, commandVars, resultVars
<1>6. \A g \in Generations : g # runtime.generation => chrome'[g] = chrome[g]
  BY <1>2
<1>7. AbsenceIsProven'
  BY <1>4, <1>6 DEF ChromeInv, AbsenceIsProven
<1>8. DirectoryAgrees'
  BY <1>1, <1>2, <1>4 DEF ChromeInv, DirectoryAgrees
<1>9. EndsInv'
  BY <1>2, <1>4 DEF EndsInv, FenceAgrees, DeletionAgrees, IsStart, rowVars, commandVars, resultVars
<1> QED BY <1>4, <1>5, <1>7, <1>8, <1>9 DEF ChromeInv

LEMMA FailStartStep ==
  ASSUME RuntimesInv, FailStart
  PROVE  RuntimesInv'
<1> USE DEF RuntimesInv
<1> DEFINE state == IF runtime.stopping THEN runtime.state ELSE "ERROR"
<1>1. /\ runtime.start \in {"PREPARE", "LAUNCH", "PROBE"}
      /\ runtime' = [runtime EXCEPT !.start = "FAILED", !.state = state]
      /\ UNCHANGED <<rowVars, channelVars, process, instance, commandVars, chrome, directory, faults>>
  BY DEF FailStart, chromeVars
<1>2. /\ state \in {"NONE", "STARTING", "RUNNING", "STOPPING", "ERROR"}
      /\ state \in {runtime.state, "ERROR"} /\ (state = "NONE" => runtime.state = "NONE")
  BY WorkerTyped
<1> HIDE DEF state
<1>3. /\ runtime' \in Runtimes /\ runtime'.generation = runtime.generation
      /\ runtime'.start = "FAILED"
      /\ RecordsInv' /\ RoundAgrees' /\ ExecutionInv'
  BY <1>1, <1>2, RuntimeMoves
<1>4. RuntimesTypeOK'
  BY <1>1, <1>3 DEF RuntimesTypeOK, rowVars, channelVars, commandVars, resultVars
<1>5. ChromeInv'
  BY <1>1, <1>3 DEF ChromeInv, AbsenceIsProven, DirectoryAgrees
<1>6. EndsInv'
  BY <1>1, <1>3 DEF EndsInv, FenceAgrees, DeletionAgrees, IsStart, rowVars, commandVars, resultVars
<1> QED BY <1>3, <1>4, <1>5, <1>6

\* A start that ends: the entry is kept as it is or given up.
LEMMA StartEnds ==
  ASSUME RuntimesInv, runtime.start \in {"PROBE", "FAILED"}, NEW result \in {"OK", "FAILED"},
         Completed(job.command, result), runtime' \in Runtimes,
         \/ runtime' = NoRuntime /\ chrome[runtime.generation] \notin {"LIVE", "STUCK"}
         \/ /\ runtime'.generation = runtime.generation /\ runtime'.start = "DONE"
            /\ runtime'.stopping = runtime.stopping /\ runtime'.stop = runtime.stop
            /\ runtime'.state \in {runtime.state, "RUNNING"}
            /\ runtime'.state = "RUNNING" /\ runtime.state # "RUNNING" => result = "OK",
         UNCHANGED <<rowVars, channelVars, process, instance, fence, chromeVars, faults>>
  PROVE  RuntimesInv'
<1> USE DEF RuntimesInv, channelVars, chromeVars
<1>1. /\ job.waits = "START" /\ runtime.generation = operations[job.command].generation
      /\ runtime.generation \in Generations /\ IsStart(job.command)
      /\ job.command \in 1..issued /\ job.command \in Commands /\ outcome[job.command] = "NONE"
  BY StartRuns, JobRuns
<1>2. /\ job' = NoJob /\ job' \in Jobs /\ job'.command = 0 /\ job'.waits = "NONE"
      /\ outcome' \in [Commands -> {"NONE", "OK", "FAILED"}]
      /\ completedAt' \in [Commands -> Nat]
      /\ outcome'[job.command] = result /\ \A d \in Commands : d # job.command => outcome'[d] = outcome[d]
  BY <1>1, CompletedTyped
<1>3. RuntimesTypeOK'
  BY <1>2 DEF RuntimesTypeOK, rowVars
<1>4. RecordsInv' /\ RoundAgrees'
  BY <1>1, CompletionRecords
<1>5. runtime'.generation \in {0, runtime.generation}
  BY DEF NoRuntime
<1>6. EndsInv'
  BY <1>1, <1>5, CompletionEnds, WorkerTyped, BoundsTyped
<1>7. ProcessAgrees' /\ JobAgrees'
  BY <1>2 DEF ExecutionInv, ProcessAgrees, JobAgrees
<1>8. \A d \in 1..issued : outcome[d] = "OK" => outcome'[d] = "OK"
  BY <1>1, <1>2, IssuedAreCommands
<1>9. RuntimeAgrees' /\ ChromeInv'
  <2>1. CASE runtime' = NoRuntime /\ chrome[runtime.generation] \notin {"LIVE", "STUCK"}
    BY <2>1 DEF RuntimeAgrees, NoRuntime, ChromeInv, AbsenceIsProven, DirectoryAgrees
  <2>2. CASE /\ runtime'.generation = runtime.generation /\ runtime'.start = "DONE"
             /\ runtime'.stopping = runtime.stopping /\ runtime'.stop = runtime.stop
             /\ runtime'.state \in {runtime.state, "RUNNING"}
             /\ runtime'.state = "RUNNING" /\ runtime.state # "RUNNING" => result = "OK"
    <3>1. runtime.generation # 0
      BY <1>1, BoundsTyped DEF Generations
    <3>2. process # "DOWN" /\ StartedHere(runtime.generation) /\ runtime.state # "NONE"
      BY <3>1 DEF ExecutionInv, RuntimeAgrees
    <3>3. runtime'.stop # "NO" => runtime'.stopping
      <4>1. runtime.stop # "NO" => runtime.stopping
        BY DEF ExecutionInv, RuntimeAgrees
      <4> QED BY <2>2, <4>1
    <3>4. runtime'.state = "RUNNING" => Succeeded(runtime.generation)'
      BY <1>1, <1>2, <1>8, <2>2 DEF ExecutionInv, RuntimeAgrees, Succeeded, IsStart, rowVars
    <3>5. StartedHere(runtime.generation)'
      BY <2>2, <3>2 DEF StartedHere, IsStart, rowVars
    <3>6. RuntimeAgrees'
      BY <2>2, <3>1, <3>2, <3>3, <3>4, <3>5 DEF ExecutionInv, RuntimeAgrees
    <3>7. AbsenceIsProven' /\ DirectoryAgrees'
      BY <2>2 DEF ChromeInv, AbsenceIsProven, DirectoryAgrees
    <3> QED BY <3>6, <3>7 DEF ChromeInv
  <2> QED BY <2>1, <2>2
<1> QED BY <1>3, <1>4, <1>6, <1>7, <1>9 DEF ExecutionInv

LEMMA ReadyStep ==
  ASSUME RuntimesInv, Ready
  PROVE  RuntimesInv'
<1>1. /\ runtime.start = "PROBE" /\ Completed(job.command, "OK")
      /\ runtime' = [runtime EXCEPT !.start = "DONE", !.state = "RUNNING"]
      /\ UNCHANGED <<rowVars, channelVars, process, instance, fence, chromeVars, faults>>
  BY DEF Ready
<1>2. /\ runtime' \in Runtimes
      /\ runtime'.generation = runtime.generation /\ runtime'.start = "DONE"
      /\ runtime'.stopping = runtime.stopping /\ runtime'.stop = runtime.stop
      /\ runtime'.state = "RUNNING"
  BY <1>1 DEF RuntimesInv, RuntimesTypeOK, Runtimes
<1> QED BY <1>1, <1>2, StartEnds

LEMMA EndStartStep ==
  ASSUME RuntimesInv, EndStart
  PROVE  RuntimesInv'
<1>1. /\ runtime.start = "FAILED" /\ Completed(job.command, "FAILED")
      /\ chrome[runtime.generation] # "LIVE"
      /\ runtime' = IF chrome[runtime.generation] = "STUCK" THEN [runtime EXCEPT !.start = "DONE"]
                    ELSE NoRuntime
      /\ UNCHANGED <<rowVars, channelVars, process, instance, fence, chromeVars, faults>>
  BY DEF EndStart
<1>2. CASE chrome[runtime.generation] = "STUCK"
  <2>1. /\ runtime' \in Runtimes
        /\ runtime'.generation = runtime.generation /\ runtime'.start = "DONE"
        /\ runtime'.stopping = runtime.stopping /\ runtime'.stop = runtime.stop
        /\ runtime'.state = runtime.state
    BY <1>1, <1>2 DEF RuntimesInv, RuntimesTypeOK, Runtimes
  <2> QED BY <1>1, <2>1, StartEnds
<1>3. CASE chrome[runtime.generation] # "STUCK"
  <2>1. runtime' = NoRuntime /\ runtime' \in Runtimes
    BY <1>1, <1>3, BoundsTyped DEF NoRuntime, Runtimes
  <2> QED BY <1>1, <1>3, <2>1, StartEnds
<1> QED BY <1>2, <1>3

LEMMA StartingStep ==
  ASSUME RuntimesInv, Starting
  PROVE  RuntimesInv'
BY PrepareStep, LaunchStep, ReadyStep, FailStartStep, EndStartStep, AbortStartStep DEF Starting

-----------------------------------------------------------------------------
(* The stop of a Runtime.                                                  *)

LEMMA DrainedStep ==
  ASSUME RuntimesInv, Drained
  PROVE  RuntimesInv'
<1> USE DEF RuntimesInv, channelVars, commandVars, resultVars, chromeVars
<1>1. /\ runtime.stop = "DRAIN" /\ runtime.start \in {"PROBE", "FAILED", "DONE"}
      /\ chrome[runtime.generation] \in {"NONE", "GONE"}
      /\ runtime' = [runtime EXCEPT !.stop = "CLEANUP"]
      /\ UNCHANGED <<rowVars, control, reported, round, process, instance, fence, job, outcome,
                     completedAt, chrome, directory, faults>>
  BY DEF Drained
<1>2. /\ runtime' \in Runtimes
      /\ runtime'.generation = runtime.generation /\ runtime'.start = runtime.start
      /\ runtime'.stopping = runtime.stopping /\ runtime'.stop = "CLEANUP"
      /\ runtime'.state = runtime.state
  BY <1>1 DEF RuntimesTypeOK, Runtimes
<1>3. RuntimesTypeOK'
  BY <1>1, <1>2 DEF RuntimesTypeOK, rowVars
<1>4. RecordsInv' /\ RoundAgrees'
  BY <1>1, RecordsFrame, RoundFrame
<1>5. runtime'.stopping /\ runtime.generation # 0
  <2>1. runtime.stopping /\ runtime.generation # 0
    BY <1>1 DEF ExecutionInv, RuntimeAgrees, NoRuntime
  <2> QED BY <1>2, <2>1
<1>6. ProcessAgrees' /\ JobAgrees'
  BY <1>1, <1>2 DEF ExecutionInv, ProcessAgrees, JobAgrees, IsStart, rowVars
<1>7. RuntimeAgrees'
  BY <1>1, <1>2, <1>5 DEF ExecutionInv, RuntimeAgrees, StartedHere, Succeeded, IsStart, rowVars
<1>8. ChromeInv'
  BY <1>1, <1>2 DEF ChromeInv, AbsenceIsProven, DirectoryAgrees
<1>9. EndsInv'
  BY <1>1, <1>2 DEF EndsInv, FenceAgrees, DeletionAgrees, IsStart, rowVars
<1> QED BY <1>3, <1>4, <1>6, <1>7, <1>8, <1>9 DEF ExecutionInv

LEMMA FinishStopStep ==
  ASSUME RuntimesInv, FinishStop
  PROVE  RuntimesInv'
<1> USE DEF RuntimesInv, channelVars, chromeVars
<1> DEFINE c == job.command
<1>1. /\ runtime' = NoRuntime /\ runtime' \in Runtimes /\ runtime'.generation = 0
      /\ runtime'.start = "NONE" /\ runtime'.stop = "NO" /\ runtime'.state = "NONE"
      /\ UNCHANGED <<rowVars, control, reported, round, process, instance, fence, chrome, directory, faults>>
  BY BoundsTyped DEF FinishStop, NoRuntime, Runtimes
<1>2. runtime.generation # 0 /\ chrome[runtime.generation] \in {"NONE", "GONE"}
  BY DEF FinishStop, ExecutionInv, RuntimeAgrees, NoRuntime
<1>3. ChromeInv'
  BY <1>1, <1>2 DEF ChromeInv, AbsenceIsProven, DirectoryAgrees
<1>4. RuntimeAgrees'
  BY <1>1 DEF RuntimeAgrees
<1>5. ProcessAgrees'
  BY <1>1 DEF ExecutionInv, ProcessAgrees
<1>6. job.waits # "NONE" =>
        /\ c \in 1..issued /\ c \in Commands /\ outcome[c] = "NONE" /\ process # "DOWN"
        /\ operations[c].instance = instance
        /\ operations[c].action \in {"START", "STOP", "DELETE"}
        /\ operations[c].generation \in Nat
  BY JobRuns, OperationTyped DEF RecordsInv, IssuedAgrees
<1>7. CASE /\ job.waits \in {"STOP", "REPLACE"}
           /\ \E result \in {"OK", "FAILED"} :
                /\ Completed(c, result)
                /\ result = "OK" => job.waits = "STOP" /\ operations[c].action = "STOP"
  <2>1. PICK result \in {"OK", "FAILED"} :
          /\ Completed(c, result)
          /\ result = "OK" => job.waits = "STOP" /\ operations[c].action = "STOP"
    BY <1>7
  <2>2. /\ job' \in Jobs /\ job'.command = 0 /\ job'.waits = "NONE"
        /\ outcome' \in [Commands -> {"NONE", "OK", "FAILED"}]
        /\ completedAt' \in [Commands -> Nat]
    BY <1>6, <1>7, <2>1, CompletedTyped
  <2>3. RuntimesTypeOK'
    BY <1>1, <2>2 DEF RuntimesTypeOK, rowVars
  <2>4. RecordsInv' /\ RoundAgrees'
    BY <1>1, <1>6, <1>7, <2>1, CompletionRecords
  <2>5. result = "OK" => operations[c].generation <= fence
    BY <1>6, <1>7, <2>1, WorkerTyped DEF ExecutionInv, JobAgrees
  <2>6. EndsInv'
    BY <1>1, <1>6, <1>7, <2>1, <2>5, CompletionEnds, WorkerTyped, BoundsTyped
  <2>7. JobAgrees'
    BY <2>2 DEF JobAgrees
  <2> QED BY <1>3, <1>4, <1>5, <2>3, <2>4, <2>6, <2>7 DEF ExecutionInv
<1>8. CASE \/ job.waits = "STOP" /\ operations[c].action # "STOP" /\ Waits(c, "REMOVAL")
           \/ job.waits = "REPLACE" /\ Waits(c, "ADMISSION")
  <2>1. PICK for \in {"REMOVAL", "ADMISSION"} :
          /\ Waits(c, for)
          /\ for = "REMOVAL" => job.waits = "STOP" /\ operations[c].action # "STOP"
          /\ for = "ADMISSION" => job.waits = "REPLACE"
    BY <1>8
  <2>2. job.waits # "NONE"
    BY <1>8
  <2>3. /\ job' \in Jobs /\ job'.command = c /\ job'.waits = for
        /\ UNCHANGED <<resultVars, outcome, completedAt>>
    BY <1>6, <2>1, <2>2, WaitsTyped
  <2>4. RuntimesTypeOK'
    BY <1>1, <2>3 DEF RuntimesTypeOK, rowVars
  <2>5. RecordsInv' /\ RoundAgrees'
    BY <1>1, <2>3, RecordsFrame, RoundFrame
  <2>6. JobAgrees'
    BY <1>1, <1>6, <2>1, <2>2, <2>3, RowTyped DEF ExecutionInv, JobAgrees, IsStart, rowVars
  <2>7. EndsInv'
    BY <1>1, <2>1, <2>3 DEF EndsInv, FenceAgrees, DeletionAgrees, IsStart, rowVars
  <2> QED BY <1>3, <1>4, <1>5, <2>4, <2>5, <2>6, <2>7 DEF ExecutionInv
<1>9. CASE job.waits \notin {"STOP", "REPLACE"} /\ UNCHANGED <<job, resultVars>>
  <2>1. UNCHANGED <<job, outcome, completedAt>>
    BY <1>9 DEF resultVars
  <2>2. RuntimesTypeOK'
    BY <1>1, <2>1 DEF RuntimesTypeOK, rowVars
  <2>3. RecordsInv' /\ RoundAgrees'
    BY <1>1, <2>1, RecordsFrame, RoundFrame
  <2>4. JobAgrees'
    BY <1>1, <1>2, <1>9, <2>1 DEF ExecutionInv, JobAgrees, IsStart, rowVars
  <2>5. EndsInv'
    BY <1>1, <2>1 DEF EndsInv, FenceAgrees, DeletionAgrees, IsStart, rowVars
  <2> QED BY <1>3, <1>4, <1>5, <2>2, <2>3, <2>4, <2>5 DEF ExecutionInv
<1> QED BY <1>7, <1>8, <1>9 DEF FinishStop

LEMMA FailStopStep ==
  ASSUME RuntimesInv, FailStop
  PROVE  RuntimesInv'
<1> USE DEF RuntimesInv, channelVars, chromeVars
<1> DEFINE c == job.command
<1>1. /\ runtime' = [runtime EXCEPT !.stop = "NO"] /\ faults' \in 0..MaxFaults
      /\ UNCHANGED <<rowVars, control, reported, round, process, instance, fence, chrome, directory>>
  BY WorkerTyped, BoundsTyped DEF FailStop
<1>2. /\ runtime' \in Runtimes
      /\ runtime'.generation = runtime.generation /\ runtime'.start = runtime.start
      /\ runtime'.stop = "NO" /\ runtime'.state = runtime.state
  BY <1>1 DEF RuntimesTypeOK, Runtimes
<1>3. CASE job.waits \in {"STOP", "REPLACE"}
  <2>1. /\ Completed(c, "FAILED") /\ runtime.start = "DONE" /\ runtime.generation # 0
        /\ c \in 1..issued /\ c \in Commands /\ outcome[c] = "NONE"
    BY <1>3, JobRuns DEF FailStop, ExecutionInv, JobAgrees
  <2>2. /\ job' \in Jobs /\ job'.command = 0 /\ job'.waits = "NONE"
        /\ outcome' \in [Commands -> {"NONE", "OK", "FAILED"}]
        /\ completedAt' \in [Commands -> Nat]
        /\ \A d \in Commands : d # c => outcome'[d] = outcome[d]
    BY <2>1, CompletedTyped
  <2>3. RuntimesTypeOK'
    BY <1>1, <1>2, <2>2 DEF RuntimesTypeOK, rowVars
  <2>4. RecordsInv' /\ RoundAgrees'
    BY <1>1, <2>1, CompletionRecords
  <2>5. EndsInv'
    BY <1>1, <1>2, <2>1, CompletionEnds, WorkerTyped, BoundsTyped
  <2>6. ProcessAgrees' /\ JobAgrees'
    BY <1>1, <2>2 DEF ExecutionInv, ProcessAgrees, JobAgrees
  <2>7. \A d \in 1..issued : outcome[d] = "OK" => outcome'[d] = "OK"
    BY <2>1, <2>2, IssuedAreCommands
  <2>8. RuntimeAgrees'
    BY <1>1, <1>2, <2>1, <2>7 DEF ExecutionInv, RuntimeAgrees, StartedHere, Succeeded, IsStart, rowVars
  <2>9. AbsenceIsProven' /\ DirectoryAgrees'
    BY <1>1, <1>2, <2>1 DEF ChromeInv, AbsenceIsProven, DirectoryAgrees
  <2> QED BY <2>3, <2>4, <2>5, <2>6, <2>8, <2>9 DEF ExecutionInv, ChromeInv
<1>4. CASE job.waits \notin {"STOP", "REPLACE"}
  <2>1. UNCHANGED <<job, resultVars, outcome, completedAt>>
    BY <1>4 DEF FailStop, resultVars
  <2>2. RuntimesTypeOK'
    BY <1>1, <1>2, <2>1 DEF RuntimesTypeOK, rowVars
  <2>3. RecordsInv' /\ RoundAgrees'
    BY <1>1, <2>1, RecordsFrame, RoundFrame
  <2>4. ProcessAgrees' /\ JobAgrees'
    BY <1>1, <1>2, <1>4, <2>1 DEF ExecutionInv, ProcessAgrees, JobAgrees, IsStart, rowVars
  <2>5. runtime.generation # 0
    BY DEF FailStop, ExecutionInv, RuntimeAgrees, NoRuntime
  <2>6. RuntimeAgrees'
    BY <1>1, <1>2, <2>1, <2>5 DEF ExecutionInv, RuntimeAgrees, StartedHere, Succeeded, IsStart, rowVars
  <2>7. ChromeInv'
    BY <1>1, <1>2, <2>1 DEF ChromeInv, AbsenceIsProven, DirectoryAgrees, rowVars
  <2>8. EndsInv'
    BY <1>1, <1>2, <2>1 DEF EndsInv, FenceAgrees, DeletionAgrees, IsStart, rowVars
  <2> QED BY <2>2, <2>3, <2>4, <2>6, <2>7, <2>8 DEF ExecutionInv
<1> QED BY <1>3, <1>4

LEMMA StoppingStep ==
  ASSUME RuntimesInv, Stopping
  PROVE  RuntimesInv'
BY DrainedStep, FinishStopStep, FailStopStep DEF Stopping

-----------------------------------------------------------------------------
(* Chrome, the connection and the process.                                 *)

LEMMA ChromeEndsStep ==
  ASSUME RuntimesInv, NEW g \in Generations, NEW how \in {"GONE", "STUCK"}, ChromeEnds(g, how)
  PROVE  RuntimesInv'
<1> USE DEF RuntimesInv, channelVars, commandVars, resultVars
<1>1. /\ chrome[g] = "LIVE" /\ chrome' = [chrome EXCEPT ![g] = how]
      /\ faults' \in 0..MaxFaults
      /\ UNCHANGED <<rowVars, control, reported, round, process, instance, fence, job, outcome,
                     completedAt, directory>>
  BY WorkerTyped, BoundsTyped DEF ChromeEnds
<1>2. /\ chrome' \in [Generations -> {"NONE", "LIVE", "STUCK", "ORPHAN", "GONE"}]
      /\ chrome'[g] = how /\ \A h \in Generations : h # g => chrome'[h] = chrome[h]
  BY <1>1 DEF RuntimesTypeOK
<1>3. runtime.generation = g /\ runtime.generation # 0 /\ g # 0
  BY <1>1, BoundsTyped DEF ChromeInv, AbsenceIsProven, Generations
<1>4. /\ runtime' \in Runtimes
      /\ runtime'.generation = runtime.generation /\ runtime'.start = runtime.start
      /\ runtime'.stopping = runtime.stopping /\ runtime'.stop = runtime.stop
      /\ runtime'.state \in {runtime.state, "ERROR"}
  <2>1. runtime' = [runtime EXCEPT !.state = "ERROR"] \/ runtime' = runtime
    BY DEF ChromeEnds
  <2> QED BY <2>1 DEF RuntimesTypeOK, Runtimes
<1>5. RuntimesTypeOK'
  BY <1>1, <1>2, <1>4 DEF RuntimesTypeOK, rowVars
<1>6. RecordsInv' /\ RoundAgrees'
  BY <1>1, RecordsFrame, RoundFrame
<1>7. ProcessAgrees' /\ JobAgrees'
  BY <1>1, <1>4 DEF ExecutionInv, ProcessAgrees, JobAgrees, IsStart, rowVars
<1>8. runtime'.stop # "NO" => runtime'.stopping
  <2>1. runtime.stop # "NO" => runtime.stopping
    BY DEF ExecutionInv, RuntimeAgrees
  <2> QED BY <1>4, <2>1
<1>9. runtime.stop # "CLEANUP"
  BY <1>1, <1>3 DEF ExecutionInv, RuntimeAgrees
<1>10. RuntimeAgrees'
  BY <1>1, <1>3, <1>4, <1>8, <1>9
  DEF ExecutionInv, RuntimeAgrees, StartedHere, Succeeded, IsStart, rowVars
<1>11. AbsenceIsProven' /\ DirectoryAgrees'
  BY <1>1, <1>2, <1>3, <1>4 DEF ChromeInv, AbsenceIsProven, DirectoryAgrees, rowVars
<1>12. EndsInv'
  BY <1>1, <1>4 DEF EndsInv, FenceAgrees, DeletionAgrees, IsStart, rowVars
<1> QED BY <1>5, <1>6, <1>7, <1>10, <1>11, <1>12 DEF ExecutionInv, ChromeInv

LEMMA ChromeWritesStep ==
  ASSUME RuntimesInv, NEW g \in Generations, ChromeWrites(g)
  PROVE  RuntimesInv'
<1> USE DEF RuntimesInv, commandVars, resultVars
<1>1. /\ directory = "EMPTY" /\ directory' = "LOADED"
      /\ UNCHANGED <<rowVars, control, reported, round, process, instance, fence, job, outcome,
                     completedAt, runtime, chrome, faults>>
  BY DEF ChromeWrites, channelVars
<1>2. RuntimesTypeOK'
  BY <1>1 DEF RuntimesTypeOK, rowVars
<1>3. RecordsInv' /\ RoundAgrees' /\ ExecutionInv'
  BY <1>1, RecordsFrame, RoundFrame, ExecutionFrame
<1>4. ChromeInv'
  BY <1>1 DEF ChromeInv, AbsenceIsProven, DirectoryAgrees, rowVars
<1>5. EndsInv'
  BY <1>1 DEF EndsInv, FenceAgrees, DeletionAgrees, IsStart, rowVars
<1> QED BY <1>2, <1>3, <1>4, <1>5

LEMMA OrphanEndsStep ==
  ASSUME RuntimesInv, NEW g \in Generations, OrphanEnds(g)
  PROVE  RuntimesInv'
<1> USE DEF RuntimesInv, commandVars, resultVars
<1>1. /\ chrome[g] = "ORPHAN" /\ chrome' = [chrome EXCEPT ![g] = "GONE"]
      /\ UNCHANGED <<rowVars, control, reported, round, process, instance, fence, job, outcome,
                     completedAt, runtime, directory, faults>>
  BY DEF OrphanEnds, channelVars
<1>2. /\ chrome' \in [Generations -> {"NONE", "LIVE", "STUCK", "ORPHAN", "GONE"}]
      /\ chrome'[g] = "GONE" /\ \A h \in Generations : h # g => chrome'[h] = chrome[h]
  BY <1>1 DEF RuntimesTypeOK
<1>3. RuntimesTypeOK'
  BY <1>1, <1>2 DEF RuntimesTypeOK, rowVars
<1>4. RecordsInv' /\ RoundAgrees' /\ EndsInv'
  BY <1>1, RecordsFrame, RoundFrame, EndsFrame
<1>5. ProcessAgrees' /\ JobAgrees'
  BY <1>1 DEF ExecutionInv, ProcessAgrees, JobAgrees, IsStart, rowVars
<1>6. runtime.stop = "CLEANUP" => chrome'[runtime.generation] \in {"NONE", "GONE"}
  <2> SUFFICES ASSUME runtime.stop = "CLEANUP" PROVE chrome'[runtime.generation] \in {"NONE", "GONE"}
    OBVIOUS
  <2>1. runtime.generation \in Generations
    BY WorkerTyped, BoundsTyped DEF ExecutionInv, RuntimeAgrees, NoRuntime, Generations
  <2> QED BY <1>2, <2>1 DEF ExecutionInv, RuntimeAgrees
<1>7. RuntimeAgrees'
  BY <1>1, <1>6 DEF ExecutionInv, RuntimeAgrees, StartedHere, Succeeded, IsStart, rowVars
<1>8. AbsenceIsProven' /\ DirectoryAgrees'
  BY <1>1, <1>2 DEF ChromeInv, AbsenceIsProven, DirectoryAgrees, rowVars
<1> QED BY <1>3, <1>4, <1>5, <1>7, <1>8 DEF ExecutionInv, ChromeInv

LEMMA DisconnectStep ==
  ASSUME RuntimesInv, Disconnect
  PROVE  RuntimesInv'
<1> USE DEF RuntimesInv, commandVars, resultVars, chromeVars
<1>1. /\ control' = "NONE" /\ round' = NoRound /\ faults' \in 0..MaxFaults
      /\ UNCHANGED <<rowVars, reported, process, instance, fence, job, outcome, completedAt, runtime,
                     chrome, directory>>
  BY WorkerTyped, BoundsTyped DEF Disconnect
<1>2. RoundAgrees' /\ round' \in Rounds
  BY <1>1, BoundsTyped DEF RoundAgrees, NoRound, Rounds
<1>3. RuntimesTypeOK'
  BY <1>1, <1>2 DEF RuntimesTypeOK, rowVars
<1> QED BY <1>1, <1>2, <1>3, RecordsFrame, ExecutionFrame, ChromeFrame, EndsFrame

LEMMA CloseStep ==
  ASSUME RuntimesInv, Close
  PROVE  RuntimesInv'
<1> USE DEF RuntimesInv, commandVars, resultVars, chromeVars, channelVars
<1>1. /\ process = "UP" /\ process' = "CLOSING" /\ instance < MaxInstances
      /\ UNCHANGED <<rowVars, control, reported, round, instance, fence, job, outcome, completedAt, runtime,
                     chrome, directory, faults>>
  BY DEF Close
<1>2. RuntimesTypeOK'
  BY <1>1 DEF RuntimesTypeOK, rowVars
<1>3. RecordsInv' /\ RoundAgrees' /\ ChromeInv'
  BY <1>1, RecordsFrame, RoundFrame, ChromeFrame
<1>4. ExecutionInv'
  BY <1>1 DEF ExecutionInv, ProcessAgrees, JobAgrees, RuntimeAgrees, StartedHere, Succeeded, IsStart, rowVars
<1>5. EndsInv'
  BY <1>1 DEF EndsInv, FenceAgrees, DeletionAgrees, IsStart, rowVars
<1> QED BY <1>2, <1>3, <1>4, <1>5

LEMMA CloseStopsStep ==
  ASSUME RuntimesInv, CloseStops
  PROVE  RuntimesInv'
<1> USE DEF RuntimesInv, commandVars, resultVars, chromeVars, channelVars
<1>1. /\ runtime.generation # 0 /\ runtime' = Stopped(runtime)
      /\ UNCHANGED <<rowVars, control, reported, round, process, instance, fence, job, outcome,
                     completedAt, chrome, directory, faults>>
  BY DEF CloseStops
<1>2. RuntimesTypeOK'
  BY <1>1, StoppedRuntime DEF RuntimesTypeOK, rowVars
<1>3. RecordsInv' /\ RoundAgrees'
  BY <1>1, RecordsFrame, RoundFrame
<1>4. RuntimeAgrees' /\ ChromeInv'
  BY <1>1, RuntimeStops
<1>5. ProcessAgrees' /\ JobAgrees'
  BY <1>1, StoppedRuntime DEF ExecutionInv, ProcessAgrees, JobAgrees, IsStart, rowVars
<1>6. EndsInv'
  BY <1>1, StoppedRuntime DEF EndsInv, FenceAgrees, DeletionAgrees, IsStart, rowVars
<1> QED BY <1>2, <1>3, <1>4, <1>5, <1>6 DEF ExecutionInv

LEMMA CrashStep ==
  ASSUME RuntimesInv, Crash
  PROVE  RuntimesInv'
<1> USE DEF RuntimesInv, resultVars, channelVars
<1>1. /\ process' = "DOWN" /\ instance < MaxInstances /\ fence' = 0
      /\ job' = NoJob /\ job'.command = 0 /\ job'.waits = "NONE" /\ job' \in Jobs
      /\ runtime' = NoRuntime /\ runtime'.generation = 0 /\ runtime'.start = "NONE"
      /\ runtime'.stop = "NO" /\ runtime'.state = "NONE" /\ runtime' \in Runtimes
      /\ UNCHANGED <<rowVars, control, reported, round, instance, outcome, completedAt, directory, faults>>
  BY BoundsTyped DEF Crash, NoJob, Jobs, NoRuntime, Runtimes
<1>2. /\ chrome' \in [Generations -> {"NONE", "LIVE", "STUCK", "ORPHAN", "GONE"}]
      /\ \A g \in Generations : chrome'[g] \notin {"LIVE", "STUCK"}
      /\ \A g \in Generations : chrome'[g] = "ORPHAN" => chrome[g] \in {"LIVE", "STUCK", "ORPHAN"}
  BY DEF Crash, RuntimesTypeOK
<1>3. RuntimesTypeOK'
  BY <1>1, <1>2, BoundsTyped DEF RuntimesTypeOK, rowVars
<1>4. RecordsInv' /\ RoundAgrees'
  BY <1>1, RecordsFrame, RoundFrame
<1>5. ExecutionInv'
  BY <1>1 DEF ExecutionInv, ProcessAgrees, JobAgrees, RuntimeAgrees
<1>6. AbsenceIsProven' /\ DirectoryAgrees'
  BY <1>1, <1>2 DEF ChromeInv, AbsenceIsProven, DirectoryAgrees
<1>7. EndsInv'
  BY <1>1 DEF EndsInv, FenceAgrees, DeletionAgrees, IsStart, rowVars
<1> QED BY <1>3, <1>4, <1>5, <1>6, <1>7 DEF ChromeInv

\* Nothing that was persisted is meant for a process that has just started.
LEMMA RestartStep ==
  ASSUME RuntimesInv, Restart
  PROVE  RuntimesInv'
<1> USE DEF RuntimesInv, resultVars, commandVars, chromeVars
<1>1. /\ process = "DOWN" /\ process' = "UP" /\ instance' = instance + 1 /\ control' = "NONE"
      /\ round' = NoRound
      /\ UNCHANGED <<rowVars, reported, fence, job, outcome, completedAt, runtime, chrome, directory, faults>>
  BY DEF Restart
<1>2. RoundAgrees' /\ round' \in Rounds
  BY <1>1, BoundsTyped DEF RoundAgrees, NoRound, Rounds
<1>3. instance' \in Instances
  BY <1>1, RowTyped, BoundsTyped DEF ExecutionInv, ProcessAgrees, Instances
<1>4. RuntimesTypeOK'
  BY <1>1, <1>2, <1>3 DEF RuntimesTypeOK, rowVars
<1>5. \A d \in 1..issued : operations[d].instance \in 1..instance
  BY IssuedAreCommands, RowTyped DEF RecordsInv, IssuedAgrees, Commands
<1>6. \A d \in 1..issued : operations[d].instance # instance'
  BY <1>1, <1>5, RowTyped
<1>7. IssuedAgrees' /\ OperationsOrdered' /\ RowAgrees' /\ InitializedAgrees'
  BY <1>1, RowTyped, BoundsTyped
  DEF RecordsInv, IssuedAgrees, OperationsOrdered, RowAgrees, InitializedAgrees, IsStart, rowVars
<1>8. job.command = 0 /\ job.waits = "NONE" /\ runtime = NoRuntime
  BY <1>1 DEF ExecutionInv, JobAgrees, RuntimeAgrees
<1>9. ExecutionInv'
  BY <1>1, <1>8 DEF ExecutionInv, ProcessAgrees, JobAgrees, RuntimeAgrees, NoRuntime
<1>10. ChromeInv'
  BY <1>1, ChromeFrame
<1>11. FenceAgrees' /\ DeletionAgrees'
  BY <1>1, <1>6, <1>8 DEF EndsInv, FenceAgrees, DeletionAgrees, IsStart, rowVars
<1> QED BY <1>2, <1>4, <1>7, <1>9, <1>10, <1>11 DEF RecordsInv, EndsInv

LEMMA VolumeReplacedStep ==
  ASSUME RuntimesInv, VolumeReplaced
  PROVE  RuntimesInv'
<1> USE DEF RuntimesInv, commandVars, resultVars
<1>1. /\ directory' = "NONE" /\ faults' \in 0..MaxFaults /\ Unlocked
      /\ runtime.generation = 0
      /\ UNCHANGED <<rowVars, control, reported, round, process, instance, fence, job, outcome,
                     completedAt, runtime, chrome>>
  BY WorkerTyped, BoundsTyped DEF VolumeReplaced, channelVars
<1>2. RuntimesTypeOK'
  BY <1>1 DEF RuntimesTypeOK, rowVars
<1>3. RecordsInv' /\ RoundAgrees' /\ ExecutionInv'
  BY <1>1, RecordsFrame, RoundFrame, ExecutionFrame
<1>4. runtime = NoRuntime
  BY <1>1 DEF ExecutionInv, RuntimeAgrees
<1>5. AbsenceIsProven' /\ DirectoryAgrees'
  BY <1>1, <1>4 DEF ChromeInv, AbsenceIsProven, DirectoryAgrees, Unlocked, NoRuntime
<1>6. EndsInv'
  BY <1>1 DEF EndsInv, FenceAgrees, DeletionAgrees, IsStart, rowVars
<1> QED BY <1>2, <1>3, <1>5, <1>6 DEF ChromeInv

LEMMA OperatingStep ==
  ASSUME RuntimesInv, Operating
  PROVE  RuntimesInv'
BY ChromeEndsStep, ChromeWritesStep, OrphanEndsStep, DisconnectStep, CloseStep, CloseStopsStep, CrashStep,
   RestartStep, VolumeReplacedStep DEF Operating, Ending

LEMMA RuntimesInvStep ==
  ASSUME RuntimesInv, [RuntimesNext]_runtimeVars
  PROVE  RuntimesInv'
<1>1. CASE UNCHANGED runtimeVars
  <2>1. UNCHANGED <<rowVars, control, reported, round, process, instance, fence, job, outcome, completedAt,
                    runtime, chromeVars, directory, faults>>
    BY <1>1 DEF runtimeVars, channelVars, commandVars, resultVars, chromeVars
  <2>2. RuntimesTypeOK'
    BY <2>1 DEF RuntimesInv, RuntimesTypeOK, rowVars, chromeVars
  <2> QED BY <2>1, <2>2, RecordsFrame, RoundFrame, ExecutionFrame, ChromeFrame, EndsFrame
          DEF RuntimesInv, chromeVars
<1> QED BY <1>1, BackendStep, ExecutionStep, StartingStep, StoppingStep, ReportingStep, OperatingStep
        DEF RuntimesNext

\* Every reachable state of the Runtime satisfies the inductive invariant.
THEOREM RuntimesInvariance == RuntimesSpec => []RuntimesInv
<1>1. RuntimesInit => RuntimesInv
  BY InitRuntimes
<1>2. RuntimesInv /\ [RuntimesNext]_runtimeVars => RuntimesInv'
  BY RuntimesInvStep
<1> QED BY <1>1, <1>2, PTL DEF RuntimesSpec

-----------------------------------------------------------------------------
(* What follows from the invariant.                                        *)

\* The row, the commands and the process hold what their code can hold, for any number of commands,
\* processes and faults.
THEOREM RuntimesTypeInvariance == RuntimesSpec => []RuntimesTypeOK
<1>1. RuntimesInv => RuntimesTypeOK
  BY DEF RuntimesInv
<1> QED BY <1>1, RuntimesInvariance, PTL

LEMMA EndsAreFinalHolds ==
  ASSUME RuntimesInv
  PROVE  EndsAreFinal
<1> USE DEF RuntimesInv
<1>1. AbsenceIsProven
  BY DEF ChromeInv
<1>2. StopsAreFinal
  <2> SUFFICES ASSUME NEW c \in Commands, operations[c].instance = instance, ~ IsStart(c),
                      outcome[c] = "OK", NEW g \in 1..operations[c].generation
               PROVE  runtime.generation # g /\ chrome[g] \notin {"LIVE", "STUCK"}
    BY DEF StopsAreFinal
  <2>1. c \in 1..issued /\ operations[c].generation \in 0..MaxCommands
    BY RowTyped, OperationTyped DEF RecordsInv, IssuedAgrees, Commands
  <2>2. runtime.generation = 0 \/ operations[c].generation < runtime.generation
    BY <2>1 DEF EndsInv, FenceAgrees
  <2>3. g \in Generations /\ runtime.generation # g
    BY <2>1, <2>2, WorkerTyped, BoundsTyped DEF Generations
  <2> QED BY <1>1, <2>3 DEF AbsenceIsProven
<1>3. DeletedIsGone
  <2> SUFFICES ASSUME row.deleted
               PROVE  /\ directory = "NONE" /\ runtime.generation = 0
                      /\ \A g \in Generations : chrome[g] \in {"NONE", "GONE"}
    BY DEF DeletedIsGone
  <2>1. directory = "NONE" /\ runtime.generation = 0
    BY DEF RecordsInv, RowAgrees, EndsInv, DeletionAgrees
  <2>2. \A g \in Generations : chrome[g] \notin {"LIVE", "STUCK", "ORPHAN"}
    BY <2>1 DEF ChromeInv, DirectoryAgrees
  <2>3. \A g \in Generations : chrome[g] \in {"NONE", "LIVE", "STUCK", "ORPHAN", "GONE"}
    BY DEF RuntimesTypeOK
  <2> QED BY <2>1, <2>2, <2>3
<1> QED BY <1>1, <1>2, <1>3 DEF EndsAreFinal

\* An end that was reported stays an end, for any number of commands, processes and faults: a Chrome
\* of this process is in its facts, no delayed START and no plan brings a stopped generation back, and
\* nothing is left of a Profile that is recorded as deleted.
THEOREM EndsAreFinalTheorem == RuntimesSpec => []EndsAreFinal
<1>1. RuntimesInv => EndsAreFinal
  BY EndsAreFinalHolds
<1> QED BY <1>1, RuntimesInvariance, PTL

\* Who sets stopping: a plan, a START that replaces, a STOP or DELETE, and the close of the process.
LEMMA WantedStep ==
  ASSUME RuntimesInv, [RuntimesNext]_runtimeVars,
         ~ runtime.stopping, runtime'.stopping, process = "UP"
  PROVE  row.desired = "STOPPED" \/ row.generation # runtime.generation
<1> USE DEF RuntimesInv
<1>1. CASE UNCHANGED runtime
  BY <1>1
<1>2. CASE ApplyPlan
  <2>1. round.stop # 0 /\ runtime.generation = round.stop
    BY <1>2 DEF ApplyPlan, Named
  <2> QED BY <2>1, RoundTyped, RowTyped DEF RoundAgrees
<1>3. CASE \E c \in Commands : BeginStart(c)
  <2>1. PICK c \in Commands : BeginStart(c)
    BY <1>3
  <2>2. MayBegin(c) /\ runtime.generation < operations[c].generation /\ c \in 1..issued
    <3>1. MayBegin(c) /\ ~ Refused(c) /\ IsStart(c) /\ runtime.generation # 0 /\ process # "CLOSING"
      BY <2>1 DEF BeginStart, Refused
    <3> QED BY <3>1, BeginsAtRest DEF Refused
  <2>3. operations[c].generation \in 1..row.generation
    BY <2>2, RowTyped DEF RecordsInv, IssuedAgrees, Commands
  <2> QED BY <2>2, <2>3, RowTyped, WorkerTyped
<1>4. CASE \E c \in Commands : BeginEnd(c)
  <2>1. PICK c \in Commands : BeginEnd(c)
    BY <1>4
  <2>2. /\ MayBegin(c) /\ ~ IsStart(c) /\ c \in 1..issued
        /\ runtime.generation # 0 => runtime.generation = operations[c].generation
    BY <2>1, BeginsAtRest DEF BeginEnd, Refused
  <2>3. runtime.generation # 0
    BY <2>1 DEF BeginEnd
  <2> QED BY <2>2, <2>3, RowTyped, WorkerTyped DEF RecordsInv, RowAgrees
<1>5. CASE Backend \/ Capture \/ Reconcile
  BY <1>5, <1>1
  DEF Backend, PersistStart, PersistStop, PersistEnd, RequestDeletion, PersistDelete, DeliverResult, GiveUp,
      Capture, Reconcile
<1>6. CASE \/ RefuseAdmission \/ AbortStart \/ \E c \in Commands, e \in BOOLEAN : RefuseCommand(c, e)
           \/ \E removed \in {"NONE", "EMPTY", "LOADED"}, result \in {"OK", "FAILED"} :
                RemoveDirectory(removed, result)
  BY <1>6, <1>1 DEF RefuseAdmission, AbortStart, RefuseCommand, RemoveDirectory
<1>7. runtime' # NoRuntime /\ runtime.stopping \in BOOLEAN /\ runtime \in Runtimes
  BY WorkerTyped DEF NoRuntime, RuntimesTypeOK
<1>8. CASE Register
  BY <1>8 DEF Register
<1>9. CASE Starting
  <2>1. CASE AbortStart
    BY <2>1, <1>6
  <2>2. CASE Prepare \/ Launch \/ Ready \/ FailStart \/ EndStart
    <3>1. runtime'.stopping = runtime.stopping
      BY <2>2, <1>7 DEF Prepare, Launch, Ready, FailStart, EndStart, Runtimes
    <3> QED BY <3>1
  <2> QED BY <1>9, <2>1, <2>2 DEF Starting
<1>10. CASE Stopping
  <2>1. runtime'.stopping = runtime.stopping
    BY <1>10, <1>7 DEF Stopping, Drained, FinishStop, FailStop, Runtimes
  <2> QED BY <2>1
<1>11. CASE Operating
  <2>1. CASE Ending
    <3>1. runtime'.stopping = runtime.stopping
      BY <2>1, <1>7 DEF Ending, ChromeEnds, Runtimes
    <3> QED BY <3>1
  <2>2. CASE Disconnect \/ Close \/ VolumeReplaced \/ Restart \/ \E g \in Generations : ChromeWrites(g) \/ OrphanEnds(g)
    BY <2>2, <1>1 DEF Disconnect, Close, VolumeReplaced, Restart, ChromeWrites, OrphanEnds
  <2>3. CASE CloseStops \/ Crash
    BY <2>3, <1>7 DEF CloseStops, Crash
  <2> QED BY <1>11, <2>1, <2>2, <2>3 DEF Operating
<1>12. CASE UNCHANGED runtimeVars
  BY <1>12, <1>1 DEF runtimeVars
<1> QED BY <1>2, <1>3, <1>4, <1>5, <1>6, <1>8, <1>9, <1>10, <1>11, <1>12
        DEF RuntimesNext, Execution, Reporting

\* A Runtime that the row wants is not stopped by a command or a plan that was meant for another,
\* however late the snapshot, the plan and the commands under way are.
THEOREM WantedIsKeptTheorem == RuntimesSpec => WantedIsKept
<1>1. RuntimesInv /\ [RuntimesNext]_runtimeVars =>
        [ ~ runtime.stopping /\ runtime'.stopping /\ process = "UP" =>
            row.desired = "STOPPED" \/ row.generation # runtime.generation ]_runtimeVars
  BY WantedStep
<1> QED BY <1>1, RuntimesInvariance, PTL DEF RuntimesSpec, WantedIsKept

LEMMA DataStep ==
  ASSUME RuntimesInv, [RuntimesNext]_runtimeVars, NEW g \in Generations,
         chrome[g] # "LIVE", chrome'[g] = "LIVE", row.initialized
  PROVE  directory = "LOADED"
<1> USE DEF RuntimesInv
<1>1. CASE Launch
  <2>1. runtime.start = "LAUNCH"
    BY <1>1 DEF Launch
  <2>2. /\ job.waits = "START" /\ job.command \in 1..issued /\ outcome[job.command] = "NONE"
        /\ IsStart(job.command)
        /\ \A d \in 1..issued : outcome[d] # "NONE" /\ IsStart(d) => d < job.command
    BY <2>1, StartRuns, JobRuns DEF ExecutionInv, JobAgrees
  <2>3. operations[job.command].existing
    BY <2>2 DEF RecordsInv, InitializedAgrees
  <2> QED BY <2>1, <2>3 DEF ChromeInv, DirectoryAgrees
<1>2. CASE UNCHANGED chrome
  BY <1>2
<1>3. CASE Backend \/ Reporting \/ Stopping
  BY <1>3, <1>2
  DEF Backend, PersistStart, PersistStop, PersistEnd, RequestDeletion, PersistDelete, DeliverResult, GiveUp,
      Reporting, Capture, Reconcile, ApplyPlan, Stopping, Drained, FinishStop, FailStop, chromeVars
<1>4. CASE Execution \/ Prepare \/ Ready \/ FailStart \/ EndStart \/ AbortStart
  BY <1>4, <1>2
  DEF Execution, BeginStart, BeginEnd, RefuseCommand, RefuseAdmission, Register, RemoveDirectory,
      Prepare, Ready, FailStart, EndStart, AbortStart, chromeVars
<1>5. CASE Operating
  <2>1. CASE Disconnect \/ Close \/ CloseStops \/ VolumeReplaced \/ Restart
             \/ \E h \in Generations : ChromeWrites(h)
    BY <2>1, <1>2 DEF Disconnect, Close, CloseStops, VolumeReplaced, Restart, ChromeWrites, chromeVars
  <2>2. CASE Ending
    BY <2>2 DEF Ending, ChromeEnds, RuntimesTypeOK
  <2>3. CASE \E h \in Generations : OrphanEnds(h)
    BY <2>3 DEF OrphanEnds, RuntimesTypeOK
  <2>4. CASE Crash
    BY <2>4 DEF Crash
  <2> QED BY <1>5, <2>1, <2>2, <2>3, <2>4 DEF Operating
<1>6. CASE UNCHANGED runtimeVars
  BY <1>6, <1>2 DEF runtimeVars, chromeVars
<1> QED BY <1>1, <1>3, <1>4, <1>5, <1>6 DEF RuntimesNext, Starting

\* A Profile that has run before is never started on a directory without its data, whatever volumes
\* are replaced and however late its START comes.
THEOREM DataIsNotReplacedTheorem == RuntimesSpec => DataIsNotReplaced
<1>1. RuntimesInv /\ [RuntimesNext]_runtimeVars =>
        [ \A g \in Generations :
            chrome[g] # "LIVE" /\ chrome'[g] = "LIVE" /\ row.initialized => directory = "LOADED" ]_runtimeVars
  BY DataStep
<1> QED BY <1>1, RuntimesInvariance, PTL DEF RuntimesSpec, DataIsNotReplaced

=============================================================================
