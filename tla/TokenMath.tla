----------------------------- MODULE TokenMath -----------------------------
(***************************************************************************)
(* The tokens of a task, as tasks.Service.DispatchTask defaults them and   *)
(* FindBestAvailableResource estimates and adds them: an instance's Tokens *)
(* for ResourceDispatch.                                                   *)
(***************************************************************************)
EXTENDS ResourceDispatch

CONSTANTS
    Chars,              \* Chars[t]: characters in the messages of t
    Estimate,           \* Estimate[t]: estimated_input_tokens of its request
    Requested,          \* Requested[t]: max_tokens of its request
    DefaultMaxTokens,   \* of the tasks section of the configuration
    MaxInt              \* the largest int: 2^63 - 1 in the builds that are shipped

ASSUME TokensAssumption ==
    /\ Chars \in [Tasks -> Nat]
    /\ Estimate \in [Tasks -> Int]
    /\ Requested \in [Tasks -> Int]
    /\ DefaultMaxTokens \in Int
    /\ MaxInt \in Nat

(* A request that leaves max_tokens at zero gets the default. *)
MaxTokens(t) == IF Requested[t] = 0 THEN DefaultMaxTokens ELSE Requested[t]

(* An estimate of zero is replaced by one token for four characters. *)
EstimatedInputTokens(t) == IF Estimate[t] = 0 THEN Chars[t] \div 4 ELSE Estimate[t]

Size(t) == EstimatedInputTokens(t) + MaxTokens(t)

(* An int up to max: a sum beyond its range wraps around. *)
Wrapped(n, max) ==
    LET half == max + 1
    IN  ((n + half) % (2 * half)) - half

(* Mutant of SumAsInt: the sum is taken in a narrower int. *)
SumAsNarrowInt(t) == Wrapped(Size(t), MaxInt \div 2)

(* The sum is taken in an int and widened for the comparison afterwards. *)
SumAsInt(t) == Wrapped(Size(t), MaxInt)

TaskTokens == [t \in Tasks |-> SumAsInt(t)]

InRange(n) == -MaxInt - 1 <= n /\ n <= MaxInt

(* No task is submitted that asks for more tokens than a batch may have, the
   estimated and the defaulted ones included, as long as their sum is one that
   an int can hold. *)
OnlyFittingSubmitted ==
    \A t \in Tasks : created[t] > 0 /\ InRange(Size(t)) => Size(t) <= MaxTokensPerBatch
=============================================================================
