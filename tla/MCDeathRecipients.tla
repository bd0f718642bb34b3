------------------------- MODULE MCDeathRecipients --------------------------
(***************************************************************************)
(* Two threads that link and unlink two recipients, each of them several   *)
(* times, while the service dies.                                          *)
(***************************************************************************)
EXTENDS DeathRecipients
=============================================================================
