-------------------------- MODULE MCSingleLegExits ---------------------------
(***************************************************************************)
(* Model checking of SingleLegExits.  States that differ only in what no   *)
(* later step reads are taken for one (VIEW), in the run without liveness. *)
(***************************************************************************)
EXTENDS SingleLegExits

Locals(p) ==
    IF pc[p] = "idle" THEN <<>>
    ELSE <<mode[p], todo[p], at[p], ord[p],
           [c \in Contracts |->
                IF c \in todo[p] \cup {at[p]} THEN snap[p][c] ELSE 0]>>

Entering == pc[Cycle] # "idle" /\ mode[Cycle] \in {"reversal", "entry"}

Live ==
    <<held, [i \in Ids |-> IF Unused(i) THEN Blank ELSE order[i]], memoryVars,
      saved, deployed, pc, [p \in Closers |-> Locals(p)],
      IF Entering THEN target ELSE NoContract, clockVars, others>>
=============================================================================
