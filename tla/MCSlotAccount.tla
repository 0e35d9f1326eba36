--------------------------- MODULE MCSlotAccount ---------------------------
(* The run of SlotAccount: the model values of MCResourceDispatch, and a second
   task like small. *)
EXTENDS SlotAccount, MCResourceDispatch

CONSTANT again

FourTasks == {small, again, large, huge}

LikeTasksAndResources == Permutations({small, again}) \cup Permutations(Resources)
===========================================================================
