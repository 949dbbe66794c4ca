---------------------------- MODULE TabOwnership ----------------------------
(***************************************************************************)
(* What a Worker process promises the Backend about the Tabs of Sessions:  *)
(* a Session owns Profile resources at most once, maintenance owns its     *)
(* Profile alone, and a Session that is gone (cleaned up, closed before it *)
(* was created, or too late) never owns anything again.                    *)
(***************************************************************************)
CONSTANTS Sessions, ProfileOf, KindOf

VARIABLES
  owned,   \* Sessions that may have a Tab, a download or a file on this Worker
  gone     \* Sessions that never will

Compatible(s, t) ==
  ProfileOf[s] = ProfileOf[t] => KindOf[s] = "NORMAL" /\ KindOf[t] = "NORMAL"

\* Some may be too late from the start.
Init == owned = {} /\ gone \subseteq Sessions

Own(s) ==
  /\ s \notin owned \union gone
  /\ \A t \in owned : Compatible(s, t)
  /\ owned' = owned \union {s}
  /\ gone' = gone

\* Sessions end, whether or not they have owned anything yet.
End(S) ==
  /\ owned' = owned \ S
  /\ gone' = gone \union S

Next == (\E s \in Sessions : Own(s)) \/ (\E S \in SUBSET Sessions : End(S))

Spec == Init /\ [][Next]_<<owned, gone>>
=============================================================================
