-------------------------- MODULE MCDatabaseControl --------------------------
(* DatabaseControl on two machines that share an external database, of which *)
(* one can switch to it and migrate to it. One recorded item and one decision *)
(* are enough: what counts is whether a database has what another has.        *)
EXTENDS DatabaseControl

CONSTANTS here, there, x1, d1
=============================================================================
