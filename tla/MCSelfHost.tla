----------------------------- MODULE MCSelfHost -----------------------------
(* SelfHost on a small instance: every request is about the same object.   *)
EXTENDS SelfHost, TLC

CONSTANTS env

AllAboutOne == [r \in Requests |-> env]
=============================================================================
