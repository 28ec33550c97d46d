---------------------------- MODULE MCLifecycle ----------------------------
(***************************************************************************)
(* Instances of Lifecycle for TLC: every file of up to three lines of the  *)
(* kinds that load_config_file tells apart.                                *)
(***************************************************************************)
EXTENDS Lifecycle

Line(k, v) == [key |-> k, value |-> v, parses |-> TRUE]

MCNumberKeys == {"workers", "passive_failure_threshold"}
MCDefault == [k \in SettingKeys |-> IF k = "listen" THEN 1
                                    ELSE IF k = "admin" THEN 2
                                    ELSE IF k = "passive_failure_threshold" THEN 2
                                    ELSE 0]

\* Numbers of 32 bits are numbers below 3, ports are 1 and 2.
MCLines ==
  {Line("backend", 1), Line("backend", 2), Line("workers", 2), Line("workers", 4),
   Line("passive_failure_threshold", 3), Line("listen", 2), Line("policy", 1),
   Line("blank", 0), Line("unknown", 0), Line("admin", 3),
   [key |-> "workers", value |-> 1, parses |-> FALSE]}

MCFiles == UNION {[1 .. n -> MCLines] : n \in 0 .. 3}
=============================================================================
