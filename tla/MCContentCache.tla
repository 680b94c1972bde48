--------------------------- MODULE MCContentCache ---------------------------
(* Model-checking instances of ContentCache. *)
EXTENDS ContentCache

CONSTANTS x, y, s1, s2, w1, w2

\* Two sessions meet two texts in opposite orders.
Opposite == [s \in Sessions |-> [w \in Workers |->
               CASE w # w1 -> {}
                 [] s = s1 -> {<<x, y>>}
                 [] OTHER -> {<<y, x>>}]]
\* Two workers of a session and another session meet the same text.
Sibling == [s \in Sessions |-> [w \in Workers |-> IF s = s2 /\ w = w2 THEN {} ELSE {<<x>>}]]
\* A task meets a text twice.
Repeated == [s \in Sessions |-> [w \in Workers |-> IF w = w2 THEN {} ELSE {<<x, x>>}]]
MixedLoads == {Opposite, Sibling, Repeated}

=============================================================================
