----------------------- MODULE MCHouseholdPlanning -----------------------
(***************************************************************************)
(* The parts of the household's planning that meet only through requests of *)
(* their own, in one run: a behaviour is one of any of them, chosen in the *)
(* initial state, while the others stay as they begin.  It reaches the sum *)
(* of their states, each of which the part reaches by itself.              *)
(***************************************************************************)
EXTENDS
  MCSettlementPreview, MCSettlementProfile, Memberships, PlanEvents, MCBudgetExecution,
  MCPortableData, MCPlanProjection, MCPlanInputs

\* Memberships
Thirds == {<<3333, 3333, 3334>>, <<5000, 5000>>, (1 :> 4000) @@ (3 :> 6000), <<5000, 4000>>}
TheEarnings == {<<1, 1, 1>>, <<2, 1, -1>>}

\* PlanEvents
HouseholdLines ==
  <<[category |-> "loan", year |-> 1, until |-> Always, once |-> FALSE, group |-> OwnGroup],
    [category |-> "other", year |-> 2, until |-> 2, once |-> TRUE, group |-> NoGroup]>>

-----------------------------------------------------------------------------
VARIABLE part   \* the one that moves

componentVars ==
  <<part, previewVars, profileVars, membershipVars, planVars, budgetVars, portableVars, projectionVars, inputVars>>

PlanningInit ==
  /\ part \in {"preview", "profile", "memberships", "plan", "budget", "portable", "projection", "inputs"}
  /\ PreviewInit
  /\ part = "preview" \/ joined = Accounts \ Newcomers
  /\ ProfileInit
  /\ MembershipsInit
  /\ PlanInit
  /\ BudgetInit
  /\ PortableInit
  /\ ProjectionInit
  /\ part = "projection" \/ plan = CHOOSE p \in Plans : TRUE
  /\ InputsInit
  /\ part = "inputs" \/ (simulated = OneSimulation /\ entries = OneBudget)

PreviewMoves ==
  /\ part = "preview" /\ PreviewNext
  /\ UNCHANGED <<part, profileVars, membershipVars, planVars, budgetVars, portableVars, projectionVars, inputVars>>
ProfileMoves ==
  /\ part = "profile" /\ ProfileNext
  /\ UNCHANGED <<part, previewVars, membershipVars, planVars, budgetVars, portableVars, projectionVars, inputVars>>
MembershipsMoves ==
  /\ part = "memberships" /\ MembershipsNext
  /\ UNCHANGED <<part, previewVars, profileVars, planVars, budgetVars, portableVars, projectionVars, inputVars>>
PlanMoves ==
  /\ part = "plan" /\ PlanNext
  /\ UNCHANGED <<part, previewVars, profileVars, membershipVars, budgetVars, portableVars, projectionVars, inputVars>>
BudgetMoves ==
  /\ part = "budget" /\ BudgetNext
  /\ UNCHANGED <<part, previewVars, profileVars, membershipVars, planVars, portableVars, projectionVars, inputVars>>
PortableMoves ==
  /\ part = "portable" /\ PortableNext
  /\ UNCHANGED <<part, previewVars, profileVars, membershipVars, planVars, budgetVars, projectionVars, inputVars>>
ProjectionMoves ==
  /\ part = "projection" /\ ProjectionNext
  /\ UNCHANGED <<part, previewVars, profileVars, membershipVars, planVars, budgetVars, portableVars, inputVars>>
InputsMove ==
  /\ part = "inputs" /\ InputsNext
  /\ UNCHANGED <<part, previewVars, profileVars, membershipVars, planVars, budgetVars, portableVars, projectionVars>>

PlanningNext ==
  \/ PreviewMoves
  \/ ProfileMoves
  \/ MembershipsMoves
  \/ PlanMoves
  \/ BudgetMoves
  \/ PortableMoves
  \/ ProjectionMoves
  \/ InputsMove

PlanningSpec == PlanningInit /\ [][PlanningNext]_componentVars

\* What a line of the budget plans is counted once, in its months and in the projection, where the
\* lines of a decision stand beside its events.
CountedOnce == MonthsAddUp /\ EachEuroOnce

\* The variables of the part that moves keep their types.
PlanningTypeOK ==
  /\ part = "preview" => PreviewTypeOK
  /\ part = "profile" => ProfileTypeOK
  /\ part = "memberships" => MembershipsTypeOK
  /\ part = "plan" => PlanTypeOK
  /\ part = "budget" => BudgetTypeOK
  /\ part = "portable" => PortableTypeOK
  /\ part = "projection" => ProjectionTypeOK
  /\ part = "inputs" => InputsTypeOK
=============================================================================
