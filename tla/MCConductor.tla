---------------------------- MODULE MCConductor ----------------------------
(* Instances of Conductor for TLC.                                           *)
EXTENDS Conductor, TLC

CONSTANTS h1, h2
=============================================================================
