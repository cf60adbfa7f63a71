----------------------------- MODULE MCL3Agent -----------------------------
(* Instances of L3Agent for TLC.                                             *)
EXTENDS L3Agent
=============================================================================
