---------------------------- MODULE MCRegistryRun ----------------------------
(* Model-checking instances of RegistryRun. *)
EXTENDS RegistryRun

CONSTANTS r1, r2

Daily == [stop |-> None, start |-> None]
Ingest == [stop |-> "graph_snapshot", start |-> None]
From(s) == [stop |-> None, start |-> s]

AllStages == Stages
\* The answers of the models, and the market as it is when it is asked.
VaryingStages == {"causal_extract", "evidence_score"}

\* A recomputation that may lose its connection, or a daily run, and before or
\* after it a run that stops early, the same recomputation, a shorter one, or one
\* that cannot work.
MixedCommands == {Daily, Ingest, From("exposure_refresh"), From("evidence_score"), From("causal_extract")}
MixedOf == [r \in Runs |-> IF r = r1 THEN {Daily, From("exposure_refresh")} ELSE MixedCommands \ {Daily}]
OnlyFirst == {<<r1, From("exposure_refresh")>>}

=============================================================================
