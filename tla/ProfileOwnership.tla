--------------------------- MODULE ProfileOwnership ---------------------------
(***************************************************************************)
(* What the Backend promises about who may use a Profile: normal Sessions  *)
(* share it; a maintenance Session first claims it, which lets nobody else *)
(* in, then owns it once everyone else has left, and keeps its claim until *)
(* after its own Session has ended.  SessionReservations implements this   *)
(* with statuses, quotas, outboxes and snapshots.                          *)
(***************************************************************************)
CONSTANTS Profiles, Sessions, ProfileOf, Maintenance  \* Maintenance \subseteq Sessions

VARIABLES
  sharing,  \* normal Sessions that are using their Profile
  claims,   \* maintenance Sessions that have claimed theirs
  owning    \* those of them that use it, alone

ownershipVars == <<sharing, claims, owning>>

SameProfile(S, s) == {t \in S : ProfileOf[t] = ProfileOf[s]}

Init == sharing = {} /\ claims = {} /\ owning = {}

\* A normal Session is let in while there is no claim on the Profile.
Share(s) ==
  /\ s \in Sessions \ Maintenance
  /\ SameProfile(claims, s) = {}
  /\ sharing' = sharing \union {s}
  /\ UNCHANGED <<claims, owning>>

\* Maintenance claims the Profile; reservations that hold no Tab yet go at once.
Claim(m) ==
  /\ m \in Maintenance
  /\ SameProfile(claims, m) = {}
  /\ claims' = claims \union {m}
  /\ sharing' \subseteq sharing
  /\ UNCHANGED owning

\* The claim becomes ownership when the last normal Session has left.
Own(m) ==
  /\ m \in claims
  /\ SameProfile(sharing, m) = {}
  /\ owning' = owning \union {m}
  /\ UNCHANGED <<sharing, claims>>

\* Sessions end, and claims of maintenance that has ended are given up.
Leave ==
  /\ sharing' \subseteq sharing
  /\ owning' \subseteq owning
  /\ claims' \subseteq claims
  /\ owning' \subseteq claims'

Next ==
  \/ Leave
  \/ \E s \in Sessions : Share(s) \/ Claim(s) \/ Own(s)

Spec == Init /\ [][Next]_ownershipVars
=============================================================================
