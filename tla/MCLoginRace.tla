---------------------------- MODULE MCLoginRace ----------------------------
(***************************************************************************)
(* LoginRace for model checking: the token owner's unattended login and    *)
(* one that somebody types, on one port.                                   *)
(***************************************************************************)
EXTENDS LoginRace

CONSTANTS a, m

\* A code for each, and an OAuth error that names nobody.
CodesAndAnError == {[kind |-> "code", state |-> a], [kind |-> "code", state |-> m],
                    [kind |-> "error", state |-> NoState]}
=============================================================================
