----------------------------- MODULE MCCommand -----------------------------
(* The instance of Command that TLC checks.                                *)
EXTENDS Command

CONSTANTS near, far  \* two hosts

\* They use the first and the last radio.
MCBand == (near :> 1) @@ (far :> 4)

AllCommands == DOMAIN Scripts
=============================================================================
