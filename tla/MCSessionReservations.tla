------------------------ MODULE MCSessionReservations ------------------------
(* Constants for the runs of SessionReservations: m1 is maintenance. *)
EXTENDS SessionReservations

CONSTANTS u1, u2, p1, w1, n1, m1

MCUserOf == [s \in Sessions |-> IF s = m1 THEN u2 ELSE u1]
MCProfileOf == [s \in Sessions |-> p1]
MCKindOf == [s \in Sessions |-> IF s = m1 THEN "MAINTENANCE" ELSE "NORMAL"]
MCWorkerOf == [p \in Profiles |-> w1]

AnyPerUser == [u \in Users |-> NoLimit]
AnyPerProfile == [p \in Profiles |-> NoLimit]
OnePerWorker == [w \in Workers |-> 1]
RevocableOfM1 == {<<u2, p1, "MAINTENANCE">>}

\* What access changes do to a Session that has begun is asked of one alone in Control_together.
\* Here only m1 loses it, and n1 is not made then.
AccessIntact == enabled = Profiles /\ RevocableOfM1 \subseteq grants

MaintenanceNext ==
  \/ \E s \in Sessions : SessionStep(s)
  \/ StartRuntime(p1) \/ StopRuntime(p1) \/ RecoverRuntime(p1) \/ ModeOperation(p1)
  \/ \E succeeded, superseded \in BOOLEAN : OperationResult(p1, succeeded, superseded)
  \/ \E m \in RunModes : SetRunMode(p1, m)
  \/ \E w \in Workers : Snapshot(w) \/ WorkerRestart(w) \/ DisableWorker(w)
  \/ \E u \in Users : ResetPassword(u)
  \/ ExpirePass
  \/ Restart
  \/ /\ status[n1] = "ABSENT" /\ status[m1] \in {"ABSENT", "RESERVED"}
     /\ \/ EnableProfile(p1) \/ DisableProfile(p1)
        \/ RevokeGrants(RevocableOfM1)
        \/ \E g \in RevocableOfM1 : GrantAccess(g)

MaintenanceSpec == Init /\ [][MaintenanceNext]_vars

\* Left out is what happens once both Sessions are over and the Profile is free, and m1 after an n1
\* that ended before m1 was made.
Undecided ==
  /\ \E s \in Sessions : status[s] \notin Terminal \/ (IsMaintenance(s) /\ s \notin released)
  /\ status[n1] \in Terminal => status[m1] # "ABSENT"
  /\ AccessIntact \/ status[n1] = "ABSENT"
=============================================================================
