------------------------------ MODULE MCLoadRun ------------------------------
(* Small instances of LoadRun for TLC. *)
EXTENDS LoadRun

AllScenarios == {"write-mix", "flash-sale"}
AllModels == {"open", "closed"}

\* A ramp for both, two recorded phases of flash-sale, one twice as long of write-mix.
Durations == [p \in Phase |-> CASE p = "warmup" -> 0 [] p = "main" -> 2 [] OTHER -> 1]
==============================================================================
