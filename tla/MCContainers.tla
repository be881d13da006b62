----------------------------- MODULE MCContainers -----------------------------
(* The two containers of the program, one at a time, each from its initial     *)
(* state.  All keys are alike, and so are the threads behind the iterators.    *)
EXTENDS CircularBuffer, HashContainer, TLC

MCInit == Init /\ HashInit
MCNext == \/ Next /\ HashInit /\ UNCHANGED hashVars
          \/ HashNext /\ Init /\ UNCHANGED vars
MCSpec == MCInit /\ [][MCNext]_<<vars, hashVars>>

MCSymmetry == Permutations(Keys) \cup Permutations(Iterators)
=============================================================================
