---------------------------- MODULE MCPublication ----------------------------
(* Model-checking instances of Publication. *)
EXTENDS Publication, TLC

CONSTANTS t, u, j1, j2, j3, j4

\* Runs of two traces of a day by the two executors, a publish-only job and a
\* new version of t.
OverlapKind == (j1 :> "registry") @@ (j2 :> "legacy") @@ (j3 :> "publishOnly") @@ (j4 :> "force")
OverlapOf == (j1 :> t) @@ (j2 :> u) @@ (j3 :> t) @@ (j4 :> t)

=============================================================================
