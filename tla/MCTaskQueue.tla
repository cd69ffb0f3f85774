---------------------------- MODULE MCTaskQueue ----------------------------
(***************************************************************************)
(* Small limited queues (one worker process) for TLC.  One unit of the     *)
(* clock is the shortest delay.                                            *)
(***************************************************************************)
EXTENDS TaskQueue, TLC

\* index_source as schedule_indexing schedules it.
HourlyIndex == [call |-> "index", priority |-> 80, retries |-> 0,
                retryDelay |-> 0, delay |-> 1, expires |-> 1, dedup |-> TRUE]

\* download_media_file as schedule_manual_media_download schedules it.
ManualDownload == [call |-> "download", priority |-> 90, retries |-> 1,
                   retryDelay |-> 1, delay |-> 0, expires |-> 0, dedup |-> TRUE]

\* save_all_media_for_source as source_post_save schedules it, with one of
\* its 15 retries.
SaveAllMedia == [call |-> "save", priority |-> 70, retries |-> 1,
                 retryDelay |-> 1, delay |-> 1, expires |-> 0, dedup |-> TRUE]

\* A task with no options, called directly, as rescan_media_server is.
Plain == [call |-> "rescan", priority |-> 100, retries |-> 0,
          retryDelay |-> 0, delay |-> 0, expires |-> 0, dedup |-> FALSE]

LimitedKinds == {HourlyIndex, ManualDownload}
LiveKinds == {SaveAllMedia, Plain}

TaskSymmetry == Permutations(Tasks)
=============================================================================
