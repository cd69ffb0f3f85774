----------------------------- MODULE MCTaskViews -----------------------------
(***************************************************************************)
(* The task pages over a queue with two worker threads: two tasks of one   *)
(* call that is retried and deduplicated, or a task and its rescheduled    *)
(* copy.  Time stands still: every task is always due.  One retry, as      *)
(* schedule_manual_media_download asks for: with two, worker threads can   *)
(* revoke each other's copies (RescheduleKeeps).                           *)
(***************************************************************************)
EXTENDS TaskViews, TLC

\* download_media_file as schedule_manual_media_download schedules it.
ManualDownload == [call |-> "download", priority |-> 90, retries |-> 1,
                   retryDelay |-> 1, delay |-> 0, expires |-> 0, dedup |-> TRUE]
OneKind == {ManualDownload}
BothSymmetry == Permutations(Tasks) \cup Permutations(Workers)
=============================================================================
