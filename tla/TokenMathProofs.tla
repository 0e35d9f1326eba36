-------------------------- MODULE TokenMathProofs --------------------------
(***************************************************************************)
(* Proofs about the sizes of submitted tasks, for any number of replicas   *)
(* and any faults, where Tokens is what TokenMath computes.                *)
(***************************************************************************)
EXTENDS TokenMath, ResourceDispatchProofs

(* A sum that an int can hold is not changed by its addition. *)
LEMMA WrappedInRange ==
    ASSUME NEW n \in Int, InRange(n)
    PROVE  Wrapped(n, MaxInt) = n
<1> DEFINE a == n + (MaxInt + 1)
           b == 2 * (MaxInt + 1)
<1>1. MaxInt \in Nat
      BY TokensAssumption
<1>2. a \in Nat /\ b \in Nat /\ a < b
      BY <1>1 DEF InRange
<1>3. a % b = a
      <2> HIDE DEF a, b
      <2> QED BY <1>2, Z3
<1>4. Wrapped(n, MaxInt) = (a % b) - (MaxInt + 1)
      BY DEF Wrapped
<1> QED BY <1>1, <1>3, <1>4

LEMMA SizeType == \A t \in Tasks : Size(t) \in Int
BY TokensAssumption DEF Size, EstimatedInputTokens, MaxTokens

(* Whatever is added, the result is an int: TaskTokens is an instance's Tokens,
   and a comparison with MaxTokensPerBatch is one of numbers in its range. *)
LEMMA WrappedIsInt ==
    ASSUME NEW n \in Int
    PROVE  Wrapped(n, MaxInt) \in Int /\ InRange(Wrapped(n, MaxInt))
<1> DEFINE a == n + (MaxInt + 1)
           b == 2 * (MaxInt + 1)
<1>1. MaxInt \in Nat
      BY TokensAssumption
<1>2. a \in Int /\ b \in Nat \ {0}
      BY <1>1
<1>3. a % b \in 0..(b - 1)
      <2> HIDE DEF a, b
      <2> QED BY <1>2, Z3
<1>4. Wrapped(n, MaxInt) = (a % b) - (MaxInt + 1)
      BY DEF Wrapped
<1> QED BY <1>1, <1>3, <1>4 DEF InRange

LEMMA TaskTokensType == TaskTokens \in [Tasks -> Int]
BY SizeType, WrappedIsInt DEF TaskTokens, SumAsInt

(* No task that asks for more tokens than a batch may have is submitted, whatever
   the other replicas do between the test and the call of the provider. *)
THEOREM SubmitsOnlyFitting ==
    ASSUME Tokens = TaskTokens
    PROVE  Spec => []OnlyFittingSubmitted
<1>1. FitInv => OnlyFittingSubmitted
      <2> SUFFICES ASSUME FitInv, NEW t \in Tasks, created[t] > 0, InRange(Size(t))
                   PROVE  Size(t) <= MaxTokensPerBatch
          BY DEF OnlyFittingSubmitted
      <2>1. Tokens[t] = Size(t)
            BY SizeType, WrappedInRange DEF TaskTokens, SumAsInt
      <2> QED BY <2>1 DEF FitInv, Fits
<1> QED BY <1>1, InitFitInv, StepFitInv, PTL DEF Spec
=============================================================================
