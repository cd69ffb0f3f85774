---------------------------- MODULE MCMediaTasks ----------------------------
(***************************************************************************)
(* One media with bounded events (forms, failures, kills, restarts).       *)
(***************************************************************************)
EXTENDS MediaTasks
=============================================================================
