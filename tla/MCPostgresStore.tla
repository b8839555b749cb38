---------------------------- MODULE MCPostgresStore ----------------------------
(***************************************************************************)
(* A small instance of PostgresStore.                                      *)
(***************************************************************************)
EXTENDS PostgresStore, StoreCalls
=============================================================================
