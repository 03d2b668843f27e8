--------------------------- MODULE MCTokenManager ---------------------------
(***************************************************************************)
(* TokenManager for model checking: every constant is a number, a model    *)
(* value or a small set, given in the configurations.  TokenFlights has a  *)
(* caller beside the access track and no unattended login; TokenLive has   *)
(* both tracks; TokenCheckpoints has a second process that writes the file *)
(* and an access track that stays idle.                                    *)
(***************************************************************************)
EXTENDS TokenManager
=============================================================================
