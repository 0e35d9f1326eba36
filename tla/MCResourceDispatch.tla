------------------------ MODULE MCResourceDispatch ------------------------
(* Model values of the TLC runs of ResourceDispatch. *)
EXTENDS ResourceLedger, TokenMath, TLC

CONSTANTS k1, k2, k3, small, large, huge

Symmetry == Permutations(Replicas)

OneResource == {k1}
TwoResources == {k1, k2}
ThreeResources == {k1, k2, k3}
AllEnabled == {}
ThirdDisabled == {k3}

(* With MaxTokensPerBatch = 2: a task that leaves its numbers to the default
   and the estimate and fits; one whose own estimate is too large; and one
   whose sum is too large for an int up to MaxInt = 7. *)
OneTask == {small}
TwoTasks == {small, large}
ThreeTasks == {small, large, huge}
TaskChars == [t \in Tasks |-> 4]
TaskEstimate == [t \in Tasks |-> CASE t = large -> 4 [] t = huge -> 7 [] OTHER -> 0]
TaskRequested == [t \in Tasks |-> CASE t = large -> 1 [] t = huge -> 5 [] OTHER -> 0]

AllFaults == FaultKinds
NoFaults == {}

(* What a single replica meets when its reads return its own latest writes. *)
SingleFaults == FaultKinds \ {"stale"}

StartFaults == {"addGet", "crash"}
===========================================================================
