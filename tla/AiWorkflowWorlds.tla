-------------------------- MODULE AiWorkflowWorlds --------------------------
(***************************************************************************)
(* AiWorkflow in both of the worlds it is judged in: sessions with         *)
(* concurrent workers that never stall past their leases, and sessions of  *)
(* one worker that may.                                                    *)
(***************************************************************************)
EXTENDS AiWorkflow

VARIABLE stalls   \* whether processes may stall past their leases

\* Sessions have all the workers and never stall, or may stall and have one
\* worker: the others have exited.
MixedInit ==
  /\ stalls \in BOOLEAN
  /\ wf = [status |-> "PENDING", owner |-> None, ttl |-> -1, prepared |-> FALSE]
  /\ item = [i \in Items |-> [NewRow(i, {}) EXCEPT !.status = "absent"]]
  /\ sess = [s \in Sessions |-> [pc |-> "off", aborted |-> FALSE, result |-> "PAUSED"]]
  /\ \E active \in Workers :
       job = [s \in Sessions |-> [w \in Workers |-> IF stalls /\ w # active THEN Exited ELSE NoJob]]
  /\ commits = [n \in News |-> 0]
  /\ paid = [n \in News |-> 0]

MixedSpec == MixedInit /\ [][Next /\ (~stalls => Punctual) /\ UNCHANGED stalls]_<<vars, stalls>>

\* While no process stalls, a session asks for attention only with a cause.
PunctualAttention == [][~stalls => AttentionHasCause]_vars

=============================================================================
