-------------------------- MODULE MCFixtureWorkers --------------------------
(* An instance of FixtureWorkers: two threads, and the graces of the code.     *)
EXTENDS FixtureWorkers

CONSTANTS first, second

MCOrder == <<first, second>>
=============================================================================
