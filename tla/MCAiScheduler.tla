--------------------------- MODULE MCAiScheduler ---------------------------
(* Model-checking instances of AiScheduler. *)
EXTENDS AiScheduler, TLC

CONSTANTS p, m1, m2, e1, e2, e3, key, key2

\* one provider with one or two models
OneModel == {m1}
TwoModels == {m1, m2}
OneModelScopes == {p, m1}
TwoModelScopes == {p, m1, m2}
ScopesOfModel == [c \in Candidates |-> <<p, c>>]

SameKey == [e \in Executors |-> key]
\* e1 was started before the credentials changed
ChangedKey == [e \in Executors |-> IF e = e1 THEN key ELSE key2]

AllFit == [e \in Executors |-> Candidates]
\* the input of e1 is too large for m2
SomeFit == [e \in Executors |-> IF e = e1 THEN Candidates \ {m2} ELSE Candidates]

LeaseSymmetry == Permutations(Leases)

=============================================================================
