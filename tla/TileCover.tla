------------------------------ MODULE TileCover ------------------------------
(***************************************************************************)
(* What the broadcast kernel promises its caller, with no cores or indices: *)
(* a tiling call fixes a non-empty set of output tiles; after that, every  *)
(* tile of the set is processed, none twice, and no tile outside the set  *)
(* is processed. processed is a bag: a tile written twice has two copies.  *)
(***************************************************************************)
EXTENDS Bags

VARIABLES
  tiles,      \* the tiles of the plan; {} until the plan is fixed
  processed   \* bag of the tiles processed so far

vars == <<tiles, processed>>

Init ==
  /\ tiles = {}
  /\ processed = EmptyBag

\* The tiling call returns a plan.
Plan ==
  /\ tiles = {}
  /\ tiles' # {}
  /\ UNCHANGED processed

\* Some core processes tile t of the plan, which no core has processed yet.
Process(t) ==
  /\ t \in tiles
  /\ CopiesIn(t, processed) = 0
  /\ processed' = processed (+) SetToBag({t})
  /\ UNCHANGED tiles

ProcessSome == \E t \in tiles : Process(t)

Next == Plan \/ ProcessSome

\* No fairness on Plan: a tiling call may fail. Once there is a plan, the
\* tiles are processed.
Spec == Init /\ [][Next]_vars /\ WF_vars(ProcessSome)
=============================================================================
