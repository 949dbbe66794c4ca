--------------------------- MODULE StoragePolicies ---------------------------
(***************************************************************************)
(* How a disk quota gets from its row to the Worker that enforces it: the  *)
(* Backend's StorageControlService, the commands that carry policies and   *)
(* the Worker's queue of policy operations, each of which writes the       *)
(* policy file before it changes memory.                                   *)
(*                                                                         *)
(* A policy is its version; 0 is no policy, which the Worker reports as    *)
(* version 1 without a quota.  A crash keeps the file and the rows.        *)
(*                                                                         *)
(* An operator named Faulty... is not part of the model: it is a mistake   *)
(* one could make in the operator that follows it, substituted for that    *)
(* operator to see that a property notices.                                *)
(***************************************************************************)
EXTENDS Naturals, Sequences, FiniteSetsExt

CONSTANTS
  WorkerScope,
  Profiles,
  LimitedFromStart,   \* Profiles created with a quota
  MaxVersion,         \* bound: versions of a policy
  MaxLosses,          \* bound: crashes, lost connections and writes that fail
  Nothing

Scopes == Profiles \union {WorkerScope}
Versions == 0 .. MaxVersion

ASSUME PoliciesAssumption ==
  /\ WorkerScope \notin Profiles
  /\ LimitedFromStart \subseteq Profiles
  /\ MaxVersion \in Nat \ {0} /\ MaxLosses \in Nat
  /\ Nothing \notin [Scopes -> Versions]

VARIABLES
  row,         \* storagePolicyVersion
  stored,      \* version in storageSnapshot and storageUsage, 0 without one
  deletion,    \* of a Profile: NO, ASKED until the Worker has answered, DONE
  sync,        \* #pending: where the synchronization of a scope is
  start,       \* a START or session.create command under way and the policies in it
  heartbeat,   \* facts on their way to the Backend
  online,
  memory,      \* #workerPolicy and #profilePolicies
  file,        \* storage-policy.json
  directories, \* #knownProfileIds
  operations,  \* #policyQueue
  written,     \* the head of the queue has written these policies
  losses

policyVars == <<row, stored, deletion, sync, start, heartbeat, online, memory, file, directories,
                operations, written, losses>>

Policies == [Scopes -> Versions]
Facts == [shown : Policies, of : SUBSET Scopes]
Operations == [kind : {"APPLY"}, policies : Policies, scope : Scopes \union {Nothing}]
              \union [kind : {"START"}, policies : Policies, scope : Profiles]
              \union [kind : {"FORGET"}, policies : Policies, scope : Profiles]
SyncSteps == {"IDLE", "SCHEDULED", "SENT", "QUEUED", "APPLIED", "ANSWERED"}
None == [s \in Scopes |-> 0]

PoliciesTypeOK ==
  /\ row \in [Scopes -> 1 .. MaxVersion]
  /\ stored \in Policies /\ memory \in Policies /\ file \in Policies
  /\ deletion \in [Profiles -> {"NO", "ASKED", "DONE"}]
  /\ sync \in [Scopes -> [step : SyncSteps, policies : Policies]]
  /\ start \in [Profiles -> Policies \union {Nothing}]
  /\ heartbeat \in Facts \union {Nothing}
  /\ online \in BOOLEAN
  /\ directories \subseteq Profiles
  /\ operations \in Seq(Operations)
  /\ written \in Policies \union {Nothing}
  /\ losses \in 0 .. MaxLosses

Idle == [step |-> "IDLE", policies |-> None]

PoliciesInit ==
  /\ row = [s \in Scopes |-> 1] /\ stored = None
  /\ deletion = [p \in Profiles |-> "NO"]
  /\ sync = [s \in Scopes |-> Idle]
  /\ start = [p \in Profiles |-> Nothing]
  /\ heartbeat = Nothing /\ online = TRUE
  /\ memory = None /\ file = None /\ directories = {}
  /\ operations = <<>> /\ written = Nothing
  /\ losses = 0

Loss == losses < MaxLosses /\ losses' = losses + 1
Live(s) == s \in Profiles => deletion[s] # "DONE"
At(s, step) == sync[s].step = step

\* A command names the Worker's policy and that of at most one Profile; 0 is not named.
Named(policies, s) == [x \in Scopes |-> IF x \in {WorkerScope, s} THEN policies[x] ELSE 0]

-----------------------------------------------------------------------------
(* Backend                                                                 *)

\* schedule: nothing while the scope is being synchronized.
Scheduled(before, scopes) ==
  [s \in Scopes |-> IF s \in scopes /\ before[s].step = "IDLE"
                    THEN [step |-> "SCHEDULED", policies |-> None] ELSE before[s]]

\* An administrator changes a quota; the trigger notifies the service.
ChangeQuota(s) ==
  /\ Live(s) /\ row[s] < MaxVersion
  /\ row' = [row EXCEPT ![s] = @ + 1]
  /\ sync' = Scheduled(sync, {s})
  /\ UNCHANGED <<stored, deletion, start, heartbeat, online, memory, file, directories, operations,
                 written, losses>>

\* synchronize: a Profile that was never observed gets its policy with its first START.
SyncReads(s) ==
  /\ At(s, "SCHEDULED")
  /\ sync' = [sync EXCEPT ![s] =
                IF online /\ Live(s) /\ (s \in Profiles => stored[s] # 0)
                THEN [step |-> "SENT", policies |-> Named(row, s)] ELSE Idle]
  /\ UNCHANGED <<row, stored, deletion, start, heartbeat, online, memory, file, directories,
                 operations, written, losses>>

Shown(version) == Max({1, version})

\* No policy is shown as version 1 without a quota, which a Profile may have had from the start.
Refused(facts) ==
  \E s \in facts.of : /\ Live(s)
                      /\ \/ Shown(facts.shown[s]) > row[s]
                         \/ s \in LimitedFromStart /\ facts.shown[s] = 0 /\ row[s] = 1

FaultyBehind(facts) == {}
Behind(facts) == {s \in facts.of : Live(s) /\ Shown(facts.shown[s]) # row[s]}

\* observe: the Worker first; facts that contradict a Profile end it with an error.
Kept(facts) == IF Refused(facts) THEN {WorkerScope} ELSE {s \in facts.of : Live(s)}
Observe(facts) ==
  stored' = [s \in Scopes |-> IF s \in Kept(facts) THEN Max({stored[s], Shown(facts.shown[s])})
                              ELSE stored[s]]
ToSchedule(facts) == Behind(facts) \intersect Kept(facts)

\* The scope is still pending while its answer is observed, so that it is not scheduled again.
SyncObserves(s) ==
  LET facts == [shown |-> sync[s].policies, of |-> {WorkerScope, s}] IN
  /\ At(s, "ANSWERED")
  /\ Observe(facts)
  /\ sync' = [Scheduled(sync, ToSchedule(facts)) EXCEPT ![s] = Idle]
  /\ UNCHANGED <<row, deletion, start, heartbeat, online, memory, file, directories, operations,
                 written, losses>>

\* Facts of a heartbeat or snapshot; when they are refused the connection is closed.
HeartbeatObserved ==
  /\ heartbeat # Nothing
  /\ Observe(heartbeat)
  /\ sync' = Scheduled(sync, ToSchedule(heartbeat))
  /\ heartbeat' = Nothing
  /\ online' = (online /\ ~ Refused(heartbeat))
  /\ UNCHANGED <<row, deletion, start, memory, file, directories, operations, written, losses>>

\* START and session.create carry the policies of their time; they may be delivered much later.
SendStart(p) ==
  /\ start[p] = Nothing /\ deletion[p] = "NO"
  /\ start' = [start EXCEPT ![p] = Named(row, p)]
  /\ UNCHANGED <<row, stored, deletion, sync, heartbeat, online, memory, file, directories,
                 operations, written, losses>>

DeleteProfile(p) ==
  /\ deletion[p] = "NO" /\ start[p] = Nothing
  /\ deletion' = [deletion EXCEPT ![p] = "ASKED"]
  /\ UNCHANGED <<row, stored, sync, start, heartbeat, online, memory, file, directories, operations,
                 written, losses>>

-----------------------------------------------------------------------------
(* Worker: commands become operations of one queue.                        *)

Queued(scope) == \E i \in 1 .. Len(operations) : operations[i].scope = scope
                                                 /\ operations[i].kind # "APPLY"
Call(kind, policies, scope) ==
  operations' = Append(operations, [kind |-> kind, policies |-> policies, scope |-> scope])

PolicyArrives(s) ==
  /\ online /\ At(s, "SENT")
  /\ Call("APPLY", sync[s].policies, s)
  /\ sync' = [sync EXCEPT ![s] = [step |-> "QUEUED", policies |-> None]]
  /\ UNCHANGED <<row, stored, deletion, start, heartbeat, online, memory, file, directories, written,
                 losses>>

StartArrives(p) ==
  /\ online /\ start[p] # Nothing /\ ~ Queued(p)
  /\ Call("START", start[p], p)
  /\ UNCHANGED <<row, stored, deletion, sync, start, heartbeat, online, memory, file, directories,
                 written, losses>>

\* deleteProfileRuntime has removed the directory; the command is repeated until it is answered.
Forget(p) ==
  /\ online /\ deletion[p] = "ASKED" /\ ~ Queued(p)
  /\ Call("FORGET", None, p)
  /\ UNCHANGED <<row, stored, deletion, sync, start, heartbeat, online, memory, file, directories,
                 written, losses>>

Runs(kind) == operations # <<>> /\ Head(operations).kind = kind

\* What the head of the queue makes of the policies: the newer of each, or one policy less.
FaultyNewer(current, next) == next
Newer(current, next) == Max({current, next})
Chosen(operation) ==
  IF operation.kind = "FORGET" THEN [memory EXCEPT ![operation.scope] = 0]
  ELSE [s \in Scopes |-> IF operation.policies[s] = 0 THEN memory[s]
                         ELSE Newer(memory[s], operation.policies[s])]
ToWrite == operations # <<>> /\ written = Nothing /\ Chosen(Head(operations)) # memory

\* START goes on with assertCanStart, which refuses policies older than those applied.
Stale(operation) ==
  \E s \in Scopes : operation.policies[s] # 0 /\ operation.policies[s] < Shown(Chosen(operation)[s])

\* The head is over; scope is told.
Over ==
  LET operation == Head(operations) IN
  /\ operations' = Tail(operations)
  /\ written' = Nothing
  /\ sync' = IF operation.kind = "APPLY" /\ operation.scope # Nothing
             THEN [sync EXCEPT ![operation.scope] = [step |-> "APPLIED", policies |-> None]] ELSE sync
  /\ start' = IF operation.kind = "START" THEN [start EXCEPT ![operation.scope] = Nothing] ELSE start
  /\ directories' = IF operation.kind = "START" /\ ~ Stale(operation)
                    THEN directories \union {operation.scope} ELSE directories

\* #persistPolicies, then the maps in memory.
WritePolicies ==
  /\ ToWrite
  /\ file' = Chosen(Head(operations))
  /\ written' = file'
  /\ UNCHANGED <<row, stored, deletion, sync, start, heartbeat, online, memory, directories,
                 operations, losses>>

SetPolicies ==
  /\ written # Nothing
  /\ memory' = written
  /\ IF Runs("FORGET")
     THEN written' = Nothing /\ UNCHANGED <<operations, sync, start, directories>>
     ELSE Over
  /\ UNCHANGED <<row, stored, deletion, heartbeat, online, file, losses>>

NothingToWrite ==
  /\ operations # <<>> /\ ~ Runs("FORGET") /\ written = Nothing /\ ~ ToWrite
  /\ Over
  /\ UNCHANGED <<row, stored, deletion, heartbeat, online, memory, file, losses>>

\* The answer to a failing command is an error; a failing START or DELETE is tried again.
WriteFails ==
  LET operation == Head(operations) IN
  /\ ToWrite /\ Loss
  /\ operations' = Tail(operations)
  /\ sync' = IF operation.kind = "APPLY" /\ operation.scope # Nothing
             THEN [sync EXCEPT ![operation.scope] = Idle] ELSE sync
  /\ start' = IF operation.kind = "START" THEN [start EXCEPT ![operation.scope] = Nothing] ELSE start
  /\ UNCHANGED <<row, stored, deletion, heartbeat, online, memory, file, directories, written>>

\* forgetProfile after its refresh; the answer may be lost.
Forgotten(p) ==
  /\ Runs("FORGET") /\ Head(operations).scope = p
  /\ written = Nothing /\ ~ ToWrite
  /\ operations' = Tail(operations)
  /\ directories' = directories \ {p}
  /\ deletion' \in {deletion, IF online THEN [deletion EXCEPT ![p] = "DONE"] ELSE deletion}
  /\ UNCHANGED <<row, stored, sync, start, heartbeat, online, memory, file, written, losses>>

Answer(s) ==
  /\ online /\ At(s, "APPLIED")
  /\ sync' = [sync EXCEPT ![s] = [step |-> "ANSWERED", policies |-> Named(memory, s)]]
  /\ UNCHANGED <<row, stored, deletion, start, heartbeat, online, memory, file, directories,
                 operations, written, losses>>

\* profileUsages: Profiles with a directory and those with a policy.
Beat ==
  /\ online /\ heartbeat = Nothing
  /\ heartbeat' = [shown |-> memory,
                   of |-> {WorkerScope} \union directories \union {p \in Profiles : memory[p] # 0}]
  /\ UNCHANGED <<row, stored, deletion, sync, start, online, memory, file, directories, operations,
                 written, losses>>

-----------------------------------------------------------------------------
(* What is lost.                                                           *)

\* The Backend gives a command up; the Worker may have it, or get it later.
Unanswered(s) ==
  [i \in 1 .. Len(operations) |->
     IF operations[i].kind = "APPLY" /\ operations[i].scope = s
     THEN [operations[i] EXCEPT !.scope = Nothing] ELSE operations[i]]

GiveUp(s) ==
  /\ \E step \in {"SENT", "QUEUED", "APPLIED"} : At(s, step)
  /\ Loss
  /\ sync' = [sync EXCEPT ![s] = Idle]
  /\ operations' \in {Unanswered(s)} \union
       (IF At(s, "SENT")
        THEN {Append(operations, [kind |-> "APPLY", policies |-> sync[s].policies,
                                  scope |-> Nothing])} ELSE {})
  /\ UNCHANGED <<row, stored, deletion, start, heartbeat, online, memory, file, directories, written>>

Disconnect ==
  /\ online /\ Loss
  /\ online' = FALSE
  /\ heartbeat' = Nothing
  /\ UNCHANGED <<row, stored, deletion, sync, start, memory, file, directories, operations, written>>

Reconnect ==
  /\ ~ online
  /\ online' = TRUE
  /\ UNCHANGED <<row, stored, deletion, sync, start, heartbeat, memory, file, directories, operations,
                 written, losses>>

\* Commands the process had are gone, and so may be a directory that was being deleted: it is when
\* forgetProfile had been called.
Crash ==
  /\ Loss
  /\ memory' = file
  /\ operations' = <<>> /\ written' = Nothing
  /\ online' = FALSE /\ heartbeat' = Nothing
  /\ start' = [p \in Profiles |-> Nothing]
  /\ sync' = [s \in Scopes |-> IF At(s, "ANSWERED") \/ At(s, "SCHEDULED") THEN sync[s] ELSE Idle]
  /\ LET deleting == {p \in Profiles : deletion[p] # "NO"}
         deleted == {p \in deleting : Queued(p) \/ file[p] = 0}
     IN \E gone \in SUBSET deleting : deleted \subseteq gone /\ directories' = directories \ gone
  /\ UNCHANGED <<row, stored, deletion, file>>

PoliciesNext ==
  \/ \E s \in Scopes : \/ ChangeQuota(s) \/ SyncReads(s) \/ PolicyArrives(s) \/ Answer(s)
                       \/ SyncObserves(s) \/ GiveUp(s)
  \/ \E p \in Profiles : \/ SendStart(p) \/ StartArrives(p) \/ DeleteProfile(p) \/ Forget(p)
                         \/ Forgotten(p)
  \/ HeartbeatObserved \/ Beat \/ WritePolicies \/ SetPolicies \/ NothingToWrite \/ WriteFails
  \/ Disconnect \/ Reconnect \/ Crash

Progress ==
  /\ WF_policyVars(Beat) /\ WF_policyVars(HeartbeatObserved) /\ WF_policyVars(Reconnect)
  /\ WF_policyVars(WritePolicies \/ SetPolicies \/ NothingToWrite \/ \E p \in Profiles : Forgotten(p))
  /\ \A s \in Scopes : WF_policyVars(SyncReads(s) \/ PolicyArrives(s) \/ Answer(s) \/ SyncObserves(s))

PoliciesSpec == PoliciesInit /\ [][PoliciesNext]_policyVars /\ Progress

-----------------------------------------------------------------------------
(* Properties                                                              *)

\* Neither an older command that arrives late nor a crash takes a policy back: the versions the
\* Worker enforces only grow, until its Profile is deleted, and the file holds what it reported.
PolicyNeverGoesBack ==
  [][\A s \in Scopes :
       (s \in Profiles => deletion[s] = "NO") =>
         memory'[s] >= memory[s] /\ (stored'[s] > 1 => file'[s] >= stored'[s])]_policyVars

\* Whatever is lost, the quotas administrators set are enforced again and again, by the Worker and
\* for every Profile it has a directory of, although a change that comes while its scope is being
\* synchronized is not scheduled: heartbeats show what is behind.
QuotaArrives ==
  []<>(\A s \in Scopes : (s \in Profiles => s \in directories /\ deletion[s] = "NO")
                           => Shown(memory[s]) = row[s])

=============================================================================
