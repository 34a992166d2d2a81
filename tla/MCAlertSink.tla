----------------------------- MODULE MCAlertSink -----------------------------
(* The alert sink with two volumes, and the merging and editing of its     *)
(* settings over small inputs: two-letter names with stars, a built-in     *)
(* default of 2% and ceilings that lie between the shares of two machines. *)
EXTENDS AlertSink, Settings

MCDefaults == [base |-> [r \in Rules |-> 2], bytes |-> [r \in Ceilings |-> 5]]
MCProcessNames == {<<1>>, <<1, 2>>, <<2, 1, 2>>}
MCPatterns == {<<1>>, <<1, 2>>, <<Star>>, <<1, Star>>, <<Star, 2>>, <<Star, 1, Star>>, <<1, Star, 2>>}
MCInputs == {0, 2000, 90001, 3145728}
MCNames == {<<1, Star, 2>>, <<1>>}
MCThenKeys == {"interval", "process-interval", "process-boost", "per-core-cpu",
               "alert-cpu", "alert-mem-bytes"}

(* A running sink compares with the bars its files give, and the user has  *)
(* the last word on them: no template entry, no ceiling and no built-in    *)
(* default overrules an override of the config or a rule it switches off   *)
(* (src/alerts.rs:840-1166).                                               *)
UserDecides == phase \in Live => EveryoneRespected

(* A config file that exists came of commands: each was saved whole or not *)
(* at all, and changed for the daemon that reads the file back what it     *)
(* names and nothing else (src/settings.rs:277-524,                        *)
(* src/bin/zstats/main.rs:145-240).                                        *)
CommandsKeepTheRest == content["config"] # Missing => EveryCommandObeyed
=============================================================================
