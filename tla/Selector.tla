-------------------------------- MODULE Selector --------------------------------
(***************************************************************************)
(* The choice of the recommendations of a day out of its candidates:       *)
(* selectTopRecommendationsWithDiagnostics of                              *)
(* src/backend/src/services/temp-stock-recommendation-service.ts.          *)
(*                                                                         *)
(* The candidates that pass the gates and the cooldown of the previous day *)
(* are looked at from the best score down.  A first pass takes at most so  *)
(* many of a signal type and of an industry, and postpones the second of   *)
(* an industry; a second pass fills up with what was postponed.  The       *)
(* counts and the covered industries are functions of what is taken, and   *)
(* are not kept apart from it.  The order of the taken ones (their rank)   *)
(* and the diagnostics are left out.                                       *)
(***************************************************************************)
EXTENDS Naturals, FiniteSets

CONSTANTS
  Stocks,       \* symbols, in the order of localeCompare
  Keywords,     \* what evidence and exposures are named by
  Momentum,     \* MOMENTUM_SIGNAL_TYPE
  TypeOf,       \* normalizeSelectionSignalType
  Industries,
  Limit,        \* recommendations of a day
  MaxPerType,   \* maxPerIndustry, which limits the signal types
  TopDiversity, \* topDiversityCount
  None          \* an industry that is not known

ASSUME StocksAssumption == Stocks \subseteq Nat /\ IsFiniteSet(Stocks)
ASSUME TypeOfAssumption == TypeOf \in [Keywords \cup {Momentum} -> Keywords \cup {Momentum}]
ASSUME LimitsAssumption == {Limit, MaxPerType} \subseteq Nat \ {0} /\ TopDiversity \in Nat
ASSUME IndustriesAssumption == None \notin Industries

VARIABLES
  pass,      \* where the loop is
  pool,      \* the eligible candidates
  todo,      \* those the first pass has not looked at
  taken, postponed

selection == <<pass, pool, todo, taken, postponed>>

-----------------------------------------------------------------------------
(* Candidates *)

Gates == {"stock", "gain", "loss", "price", "drop", "quality"}
Candidate == [symbol : Stocks, industry : Industries \cup {None}, keyword : Keywords \cup {Momentum},
              score : Nat, momentum : BOOLEAN, fails : SUBSET Gates]

TypeOK ==
  /\ pass \in {"rest", "first", "fill", "done"}
  /\ pool \subseteq Candidate /\ IsFiniteSet(pool)
  /\ todo \subseteq pool /\ taken \subseteq pool /\ postponed \subseteq pool

SignalType(c) == TypeOf[c.keyword]

\* The gates on gain, loss and quality let the momentum channel through.
Passes(c) == c.fails \cap (IF c.momentum THEN {"stock", "price", "drop"} ELSE Gates) = {}

Rested(c, stocks, keywords) == c.symbol \notin stocks /\ {c.keyword, SignalType(c)} \cap keywords = {}

IsFirst(c, cs) ==
  c \in cs /\ \A d \in cs \ {c} : d.score < c.score \/ (d.score = c.score /\ d.symbol > c.symbol)

Larger(m, n) == IF m < n THEN n ELSE m
Smaller(m, n) == IF m < n THEN m ELSE n

\* resolveMaxPerIndustryCap: a fifth of the list, rounded up
IndustryCap == Larger(MaxPerType, Larger(2, (Limit + 4) \div 5))

OfType(type) == {c \in taken : SignalType(c) = type}
OfIndustry(industry) == {c \in taken : c.industry = industry}
Known(cs) == {c.industry : c \in cs} \ {None}

TypeFull(c) == Cardinality(OfType(SignalType(c))) >= MaxPerType
IndustryFull(c) == c.industry # None /\ Cardinality(OfIndustry(c.industry)) >= IndustryCap
Full(c) == TypeFull(c) \/ IndustryFull(c)

\* mutant of Crowded: an industry that nobody covers yet does not count
CrowdedAtTop(c) == c.industry \in Known(taken) /\ Cardinality(taken) < Smaller(TopDiversity, Limit)

\* Another one of an industry waits at the top of the list, and as long as there
\* is an industry without any.
Crowded(c) ==
  /\ c.industry \in Known(taken)
  /\ \/ Cardinality(taken) < Smaller(TopDiversity, Limit)
     \/ Known(taken) # Known(pool)

-----------------------------------------------------------------------------
(* The loop *)

Load(cs, stocks, keywords) ==
  /\ pass = "rest"
  /\ pass' = "first"
  /\ pool' = {c \in cs : Passes(c) /\ Rested(c, stocks, keywords)}
  /\ todo' = pool'
  /\ taken' = {} /\ postponed' = {}

Skip ==
  /\ pass = "first"
  /\ \E c \in todo : IsFirst(c, todo) /\ Full(c) /\ todo' = todo \ {c}
  /\ UNCHANGED <<pass, pool, taken, postponed>>

\* mutant of Postpone: what waits is forgotten
PostponeForGood ==
  /\ pass = "first"
  /\ \E c \in todo : IsFirst(c, todo) /\ ~Full(c) /\ Crowded(c) /\ todo' = todo \ {c}
  /\ UNCHANGED <<pass, pool, taken, postponed>>

Postpone ==
  /\ pass = "first"
  /\ \E c \in todo : /\ IsFirst(c, todo) /\ ~Full(c) /\ Crowded(c)
                     /\ todo' = todo \ {c}
                     /\ postponed' = postponed \cup {c}
  /\ UNCHANGED <<pass, pool, taken>>

Take ==
  /\ pass = "first"
  /\ \E c \in todo : /\ IsFirst(c, todo) /\ ~Full(c) /\ ~Crowded(c)
                     /\ todo' = todo \ {c}
                     /\ taken' = taken \cup {c}
  /\ pass' = IF Cardinality(taken') >= Limit THEN "fill" ELSE "first"
  /\ UNCHANGED <<pool, postponed>>

EndFirst ==
  /\ pass = "first" /\ todo = {}
  /\ pass' = "fill"
  /\ UNCHANGED <<pool, todo, taken, postponed>>

\* mutant of Fill: the second pass has no limit for industries
FillPastCap ==
  /\ pass = "fill" /\ Cardinality(taken) < Limit
  /\ \E c \in postponed : /\ IsFirst(c, postponed)
                          /\ postponed' = postponed \ {c}
                          /\ taken' = IF TypeFull(c) THEN taken ELSE taken \cup {c}
  /\ UNCHANGED <<pass, pool, todo>>

Fill ==
  /\ pass = "fill" /\ Cardinality(taken) < Limit
  /\ \E c \in postponed : /\ IsFirst(c, postponed)
                          /\ postponed' = postponed \ {c}
                          /\ taken' = IF Full(c) THEN taken ELSE taken \cup {c}
  /\ UNCHANGED <<pass, pool, todo>>

EndFill ==
  /\ pass = "fill" /\ (postponed = {} \/ Cardinality(taken) >= Limit)
  /\ pass' = "done"
  /\ UNCHANGED <<pool, todo, taken, postponed>>

Loop == Skip \/ Postpone \/ Take \/ EndFirst \/ Fill \/ EndFill

\* The caller has the result, or has gone.
Unload ==
  /\ pass' = "rest"
  /\ pool' = {} /\ todo' = {} /\ taken' = {} /\ postponed' = {}

Resting == pass = "rest" /\ pool = {} /\ todo = {} /\ taken = {} /\ postponed = {}

SelectorNext ==
  \/ \E cs \in SUBSET Candidate, stocks \in SUBSET Stocks, keywords \in SUBSET (Keywords \cup {Momentum}) :
       IsFiniteSet(cs) /\ Load(cs, stocks, keywords)
  \/ Loop
  \/ Unload

SelectorSpec == Resting /\ [][SelectorNext]_selection

-----------------------------------------------------------------------------
(* Properties *)

\* The second pass, which runs under other conditions than the first, leaves no
\* signal type and no industry with more than its share, and the list not longer
\* than asked.
QuotasKept ==
  /\ Cardinality(taken) <= Limit
  /\ \A c \in taken : /\ Cardinality(OfType(SignalType(c))) <= MaxPerType
                      /\ c.industry # None => Cardinality(OfIndustry(c.industry)) <= IndustryCap

\* An industry has two recommendations while another one with candidates has none
\* only if every candidate of the other one has a signal type that is used up.
SpreadFirst ==
  \A c, d \in taken : c # d /\ c.industry = d.industry /\ c.industry # None =>
    \A e \in pool : e.industry \notin Known(taken) \cup {None} => TypeFull(e)

\* The list is short only if every candidate that is not on it has a signal type
\* or an industry that is used up: no candidate gets lost between the passes.
NoRoomLeft ==
  pass = "done" /\ Cardinality(taken) < Limit => \A c \in pool \ taken : Full(c)
=============================================================================
