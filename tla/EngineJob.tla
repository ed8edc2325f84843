----------------------------- MODULE EngineJob ------------------------------
(***************************************************************************)
(* What the trigger, the interrupt watcher and the reset of the VDE engine *)
(* promise the decoder together: one picture at a time is with the engine, *)
(* only a picture the engine has finished is handed out, and a process     *)
(* that gives up or is killed leaves nothing behind for its successor.     *)
(***************************************************************************)
VARIABLES
  up,   \* the decoder runs
  job   \* the picture with the engine: "none", "running" or "finished"

jobVars == <<up, job>>

Submit ==
  /\ up /\ job = "none"
  /\ job' = "running" /\ UNCHANGED up

Finish ==
  /\ up /\ job = "running"
  /\ job' = "finished" /\ UNCHANGED up

HandOut ==
  /\ up /\ job = "finished"
  /\ job' = "none" /\ UNCHANGED up

Die ==
  /\ up
  /\ up' = FALSE /\ job' = "none"

Restart ==
  /\ ~up
  /\ up' = TRUE /\ UNCHANGED job

Init == up = FALSE /\ job = "none"
Next == Submit \/ Finish \/ HandOut \/ Die \/ Restart
Spec == Init /\ [][Next]_jobVars
=============================================================================
