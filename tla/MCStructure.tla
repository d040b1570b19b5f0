---------------------------- MODULE MCStructure ------------------------------
(***************************************************************************)
(* Scenes for the checks of StructureLifecycle: which faults meet in one   *)
(* behaviour.  Faults that together break a property are kept apart; the   *)
(* README tells which they are.                                            *)
(***************************************************************************)
EXTENDS StructureLifecycle

Scene(kind, crashes, days, events) ==
    [kind |-> kind, restarts |-> crashes, nights |-> days, may |-> events]

\* Entries and exits that fail, are in doubt, or wait.
Faults == {
    Scene("spread", 0, 1, {"exit_doubtful", "positions_fail"}),
    Scene("spread", 0, 2, {"exit_fails"}),
    Scene("spread", 0, 1, {"entry_fails", "entry_doubtful", "exit_fails"}),
    Scene("spread", 0, 0, {"entries_rest", "entry_fails", "exit_fails"}),
    Scene("condor", 0, 0, {"entry_fails", "exit_fails"}),
    Scene("condor", 0, 0, {"entry_fails", "exit_doubtful"}),
    Scene("condor", 0, 0, {"exit_fails", "fast"}) }

\* A crash, and a stop order that fires before the restart or after it.
Restarts == {
    Scene("spread", 1, 1, {"entry_fails", "exit_fails"}),
    Scene("spread", 1, 0, {"gtt_fires"}),
    Scene("condor", 1, 0, {"gtt_fires"}) }

All == Faults \cup Restarts
=============================================================================
