--------------------------- MODULE MCSessionControl ---------------------------
(***************************************************************************)
(* Instances of SessionControl, and of SessionReservations within it, for  *)
(* TLC.  The requests that are made in a behaviour are chosen at its       *)
(* start, so that one run goes through several small systems: offered is   *)
(* one of Offers, and the other Sessions remain ABSENT.                    *)
(***************************************************************************)
EXTENDS SessionControl

CONSTANTS
  Offers,
  u1, u2,
  p1, p2,
  w1,
  n1, m1,          \* a normal and a maintenance Session of p1
  q1, q2, q3       \* normal Sessions: q1 and q2 in p1, q3 in p2, q1 and q3 of one user

VARIABLE offered

MCUserOf == [s \in Sessions |-> IF s \in {m1, q2} THEN u2 ELSE u1]
MCProfileOf == [s \in Sessions |-> IF s = q3 THEN p2 ELSE p1]
MCKindOf == [s \in Sessions |-> IF s = m1 THEN "MAINTENANCE" ELSE "NORMAL"]
MCWorkerOf == [p \in Profiles |-> w1]
OnePerUser == [u \in Users |-> 1]
OnePerProfile == [p \in Profiles |-> 1]
AnyPerWorker == [w \in Workers |-> NoLimit]
GrantsOfN1 == {<<u1, p1, "NORMAL">>}

Alone == Cardinality(offered) = 1
Begins ==
  /\ ControlInit
  /\ offered \in Offers
  /\ \A p \in Profiles : (Alone /\ p = p1) \/ mode[p] = "ON_DEMAND"
OnlyOffered ==
  /\ UNCHANGED offered
  /\ \A s \in Sessions \ offered : status'[s] = "ABSENT"
  /\ Alone \/ \A p \in Profiles : generation'[p] <= 1
Used == {WorkerFor(s) : s \in offered}

-----------------------------------------------------------------------------
(* Everything that can happen to one Session.                              *)

EndingsSpec == Begins /\ [][ControlNext /\ OnlyOffered]_<<allVars, offered>> /\ ControlFairness

-----------------------------------------------------------------------------
(* Two Sessions are too many for everything that can happen to each.  With *)
(* both, nothing expires and no connection is lost.                        *)

CalmNext ==
  \/ \E s \in offered :
       /\ \/ Reserve(s) \/ Close(s)
          \/ DeliverRead(s, TRUE) \/ Begin(s) \/ BeginRefused(s) \/ Fail(s) \/ Remove(s)
       /\ UNCHANGED controlVars
  \/ \E p \in {ProfileOf[s] : s \in offered} : RuntimeStarts(p) /\ UNCHANGED controlVars
  \/ \E s \in offered :
       \/ RequestCreate(s) \/ ApplyCreateResult(s) \/ RequestClose(s) \/ ApplyCloseResult(s)
       \/ TabReady(s) \/ TabEnds(s) \/ TabCleanedUp(s)
  \/ \E w \in Used :
       \/ BackendReceives(w) \/ ReceiveCreate(w) \/ ReceivePlan(w) \/ ReceiveClose(w, FALSE)
       \/ SendSnapshot(w)

(* Three Sessions are too many for every snapshot and for a Worker.  Here  *)
(* it is the Backend alone, the Runtimes work, and a snapshot shows each   *)
(* Tab as it is or as gone.                                                *)

TabsSeen(w) ==
  \E fact \in [Reportable(w) -> {"NONE", "REFUSED"}] :
    Reconcile(w, [p \in ProfilesOn(w) |-> "KEPT"], fact, lapsed \intersect Reportable(w))

QuietNext ==
  \/ \E s \in offered : Reserve(s) \/ Close(s) \/ Lapse(s) \/ Deliver(s) \/ CloseDelivered(s, TRUE)
  \/ \E p \in {ProfileOf[s] : s \in offered} : operation[p] = "START" /\ OperationResult(p, TRUE, FALSE)
  \/ \E w \in Used : TabsSeen(w)
  \/ ExpirePass

(* One Session needs no such limits: here it is the Backend alone again,   *)
(* with everything that administrators do to it.                           *)

AloneNext ==
  /\ Next
  /\ \A p \in Profiles \ {ProfileOf[s] : s \in offered} :
       runtimeState'[p] = runtimeState[p] /\ mode'[p] = mode[p]

TogetherNext ==
  /\ \/ Alone /\ AloneNext /\ UNCHANGED controlVars
     \/ Cardinality(offered) = 2 /\ CalmNext
     \/ Cardinality(offered) = 3 /\ QuietNext /\ UNCHANGED controlVars
  /\ OnlyOffered

TogetherSpec == Begins /\ [][TogetherNext]_<<allVars, offered>>
===============================================================================
