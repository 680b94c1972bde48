----------------------------- MODULE MCRunLease -----------------------------
(* Model-checking instances of RunLease. *)
EXTENDS RunLease

CONSTANTS r1, r2, a, b


=============================================================================
