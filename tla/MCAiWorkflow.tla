---------------------------- MODULE MCAiWorkflow ----------------------------
(* Model-checking instances of AiWorkflow. *)
EXTENDS AiWorkflow, TLC

\* Items and sessions are interchangeable, and so are the news and workers.
Symmetry == Permutations(News) \cup Permutations(Workers)
              \cup Permutations(Items) \cup Permutations(Sessions)

=============================================================================
