----------------------------- MODULE MCSyncNow ------------------------------
(***************************************************************************)
(* Sync-now for TLC.  One unit of the clock is sync-now's delay of 30 s;   *)
(* create's delay of 600 s is "longer".                                    *)
(***************************************************************************)
EXTENDS SyncNow, TLC

IndexTask(delay, expires, dedup) ==
  [call |-> "index", priority |-> 80, retries |-> 0, retryDelay |-> 0,
   delay |-> delay, expires |-> expires, dedup |-> dedup]

SyncCall   == IndexTask(1, 0, FALSE)   \* sync-now, bridge or dashboard
CreateCall == IndexTask(2, 0, FALSE)   \* source_post_save of a new source

AllKinds    == {SyncCall, CreateCall}
NoNative    == {}
ClickOnly   == {SyncCall}

Symmetry == Permutations(Tasks) \cup Permutations(Requests)
=============================================================================
