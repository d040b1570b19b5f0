----------------------------- MODULE MCRiskLimits ------------------------------
(***************************************************************************)
(* Model checking of RiskLimits: three names of one sector, and one of     *)
(* none that comes with a hedge.                                           *)
(***************************************************************************)
EXTENDS RiskLimits, TLC

CONSTANTS a, b, c, d

SmallSector == (a :> "Banking" @@ b :> "Banking" @@ c :> "Banking" @@ d :> "UNKNOWN")
SmallLegs == (a :> 1 @@ b :> 1 @@ c :> 1 @@ d :> 2)
=============================================================================
