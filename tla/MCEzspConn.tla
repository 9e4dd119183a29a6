---------------------------- MODULE MCEzspConn ----------------------------
(* Small instances of EzspConn for TLC. *)
EXTENDS EzspConn

\* The protocol loop takes every callback, a join watch only one kind.
MCInterest == [s \in Subs |-> IF s = "loop" THEN Kinds ELSE {"joined"}]
=============================================================================
