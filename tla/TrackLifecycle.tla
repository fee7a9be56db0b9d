--------------------------- MODULE TrackLifecycle ---------------------------
(***************************************************************************)
(* What the pipeline promises about a track, whoever asks for it and       *)
(* whatever fails: the state machine of TrackDownloadStatus with its       *)
(* attempt budget, without messages, task ids, leases or processes.        *)
(*                                                                         *)
(*   - a row is never deleted and never forgets that it was requested;     *)
(*   - a download starts only from "queued" and spends one attempt;        *)
(*   - only a new user request gives attempts back, and only when all of   *)
(*     them are spent;                                                     *)
(*   - automatic requeueing happens only while attempts are left;          *)
(*   - "ready" is reached only from a running download and left only for   *)
(*     "failed".                                                           *)
(***************************************************************************)
EXTENDS Integers

CONSTANTS Tracks, MaxAttempts

VARIABLES status, attempts

Statuses == {"absent", "not_requested", "queued", "downloading", "ready", "failed"}

Init ==
  /\ status = [t \in Tracks |-> "absent"]
  /\ attempts = [t \in Tracks |-> 0]

(* Each operator is one way a track may move: s, a before and s1, a1 after. *)

Imported(s, a, s1, a1) == s = "absent" /\ s1 = "not_requested" /\ a1 = a

Requested(s, a, s1, a1) ==
  /\ s \in {"absent", "not_requested", "failed"} /\ s1 = "queued"
  /\ a1 = IF a >= MaxAttempts THEN 0 ELSE a

Attempted(s, a, s1, a1) == s = "queued" /\ s1 = "downloading" /\ a1 = a + 1

Succeeded(s, a, s1, a1) == s = "downloading" /\ s1 = "ready" /\ a1 = a

Failed(s, a, s1, a1) == s \in {"queued", "downloading"} /\ s1 = "failed" /\ a1 = a

Requeued(s, a, s1, a1) ==
  /\ s \in {"downloading", "failed"} /\ s1 = "queued"
  /\ a < MaxAttempts /\ a1 = a

Missing(s, a, s1, a1) == s = "ready" /\ s1 = "failed" /\ a1 = a

Moves(s, a, s1, a1) ==
  \/ Imported(s, a, s1, a1) \/ Requested(s, a, s1, a1) \/ Attempted(s, a, s1, a1)
  \/ Succeeded(s, a, s1, a1) \/ Failed(s, a, s1, a1) \/ Requeued(s, a, s1, a1)
  \/ Missing(s, a, s1, a1)

\* A periodic task moves several tracks in one transaction.
Next ==
  /\ status' \in [Tracks -> Statuses]
  /\ attempts' \in [Tracks -> 0..MaxAttempts]
  /\ \A t \in Tracks :
       \/ Moves(status[t], attempts[t], status'[t], attempts'[t])
       \/ status'[t] = status[t] /\ attempts'[t] = attempts[t]

Spec == Init /\ [][Next]_<<status, attempts>>
=============================================================================
