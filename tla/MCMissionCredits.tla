--------------------------- MODULE MCMissionCredits ---------------------------
(* One tenant whose balance does not pay for everything.                   *)
EXTENDS MissionCredits, TLC

CONSTANTS api, served, license, mcu

\* simple, standard and a small top-up.
MCPrice == api :> 1 @@ served :> 3 @@ license :> 2 @@ mcu :> 1
=============================================================================
