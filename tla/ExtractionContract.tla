------------------------- MODULE ExtractionContract -------------------------
(***************************************************************************)
(* What AI extraction promises to the pipeline that runs it (README.md,    *)
(* resuming): every news of the trace gets exactly one outcome, delivered  *)
(* in batches, and completion is announced only when none is missing.  How *)
(* batches are formed, who works on them and what crashes is not visible.  *)
(***************************************************************************)
EXTENDS Naturals

CONSTANT News

VARIABLES outcomes,  \* how many outcomes each news has
          complete   \* has completion been announced?

Init ==
  /\ outcomes = [n \in News |-> 0]
  /\ complete = FALSE

\* A batch of news gets its outcomes, all of them together.
Deliver ==
  /\ \E batch \in SUBSET News :
       /\ \A n \in batch : outcomes[n] = 0
       /\ outcomes' = [n \in News |-> IF n \in batch THEN 1 ELSE outcomes[n]]
  /\ UNCHANGED complete

Announce ==
  /\ \A n \in News : outcomes[n] = 1
  /\ complete' = TRUE
  /\ UNCHANGED outcomes

\* A resume of the finished trace takes the announcement back until it has
\* looked again; the outcomes stay.
Reopen ==
  /\ complete' = FALSE
  /\ UNCHANGED outcomes

Next == Deliver \/ Announce \/ Reopen

Spec == Init /\ [][Next]_<<outcomes, complete>>

=============================================================================
