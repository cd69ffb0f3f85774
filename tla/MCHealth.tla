------------------------------ MODULE MCHealth ------------------------------
(***************************************************************************)
(* The container's health for TLC, with the download queue alone.          *)
(***************************************************************************)
EXTENDS Health, TLC

OneConsumer == <<"limited">>

\* States are the same to TLC that differ only in what is reported and never
\* read: the status and the reason of an answer, and what goes into them.  No
\* guard and no property of the run depends on these.
Unlabelled(components) ==
  IF components = Nothing THEN Nothing
  ELSE [components EXCEPT !.status = "unknown", !.reason = "none"]

UnlabelledPass ==
  IF pass = Nothing THEN Nothing ELSE [pass EXCEPT !.others = {}, !.reason = "none"]

UnlabelledView ==
  <<guardVars, svstat, hung, stuck, Unlabelled(cache), UnlabelledPass, Unlabelled(reply),
    clock, budget>>
=============================================================================
