-------------------------- MODULE MCInteractionRow --------------------------
(* An instance of InteractionRow for TLC: one webhook, sent again and again. *)
EXTENDS InteractionRow

CONSTANTS d1
=============================================================================
