------------------------------ MODULE MCWorker ------------------------------
(* A Worker process has the Tabs of Sessions and the Runtimes of Profiles.  A behaviour is about *)
(* one of them, while the other has come to rest: for Tabs the process that runs Chrome is down, *)
(* for a Runtime the time of all Sessions is over.                                               *)
EXTENDS WorkerTabSessions, ProfileRuntimes

CONSTANTS n1, n2, m1, p1

OneProfile == [s \in Sessions |-> p1]
Kinds == [s \in Sessions |-> IF s = m1 THEN "MAINTENANCE" ELSE "NORMAL"]
ExpiresAtTwo == [s \in Sessions |-> 2]
LeasedToThree == [s \in Sessions |-> 3]

VARIABLE side   \* TABS, RUNTIME or UNDECIDED

workerVars == <<side, vars, runtimeVars>>

WorkerInit == side = "UNDECIDED" /\ Init /\ RuntimesInit

DecideForTabs ==
  /\ side = "UNDECIDED" /\ side' = "TABS"
  /\ process' = "DOWN"
  /\ UNCHANGED <<vars, rowVars, channelVars, instance, commandVars, runtime, chromeVars, faults>>

DecideForRuntime ==
  /\ side = "UNDECIDED" /\ side' = "RUNTIME"
  /\ now' = MaxTime
  /\ UNCHANGED <<shutdown, managerVars, entryVars, tabs, published, answerVars, runtimeVars>>

Decide == DecideForTabs \/ DecideForRuntime

TabsStep == side = "TABS" /\ Next /\ UNCHANGED <<side, runtimeVars>>
RuntimeStep == side = "RUNTIME" /\ RuntimesNext /\ UNCHANGED <<side, vars>>

\* Of a third command, a process that ends and a fault, a behaviour has one.
Ended == process' # "UP" \/ instance' > 1
OneMore ==
  \/ ~ Ended /\ faults' = 0
  \/ ~ Ended /\ issued' <= 2
  \/ faults' = 0 /\ issued' <= 2
OwnershipSpec == WorkerInit /\ [][Decide \/ TabsStep \/ (RuntimeStep /\ OneMore)]_workerVars

\* The process ends when both commands have been persisted, or something else fails.
EndOrFault == ~ Ended \/ (faults' = 0 /\ issued' = 2 /\ row'.desired = "STOPPED")
EndingsSpec ==
  /\ WorkerInit /\ [][Decide \/ TabsStep \/ (RuntimeStep /\ EndOrFault)]_workerVars
  /\ WF_workerVars(Decide) /\ Fairness /\ RuntimesFairness

\* The Tab manager and the Runtime of a Profile hold what their code can hold.
WorkerTypeOK == TypeOK /\ RuntimesTypeOK
=============================================================================
