------------------------ MODULE MCRetainedDownloads ------------------------
(* Small instances of RetainedDownloads for TLC.  A second file, a second *)
(* reader of the first one and uploads are too many together: a behaviour  *)
(* has one of them at a time.                                              *)
EXTENDS RetainedDownloads

CONSTANTS f1, f2, r1, r2

OneByte == [f \in Files |-> 1]
ReadsFirst == [r \in Requests |-> f1]

OneMore ==
  \/ transfer'[f2] = "NONE" /\ request'[r2] = "IDLE"
  \/ transfer'[f2] = "NONE" /\ uploads' = 0
  \/ request'[r2] = "IDLE" /\ uploads' = 0

\* Access is only lost in the other run.
PairsSpec == Init /\ [][Next /\ OneMore /\ authorized']_vars

\* Uploads only take space: what ends does so without them.  A second fault hits the recovery from
\* the first one, which a reader has no part in.
EndingsSpec ==
  Init /\ [][Next /\ uploads' = 0 /\ (faults' <= 1 \/ request'[r1] = "IDLE")]_vars /\ Fairness
=============================================================================
