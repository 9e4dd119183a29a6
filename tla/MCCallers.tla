----------------------------- MODULE MCCallers ------------------------------
(* Two callers and a light. *)
EXTENDS Request, TLC

CONSTANTS a, b, light

Ask4(node, cluster, want, what) == [node |-> node, cluster |-> cluster, want |-> want, what |-> what]

Toggle == Ask4(light, "onoff", "default", "toggle")
State  == Ask4(light, "onoff", "read", "state")

\* A phrase, and beside it a read of the same light.
Together == a :> <<Toggle, Toggle>> @@ b :> <<State>>

\* The phrase is repeated, the read is not.
Attempts == [c \in Callers |-> IF c = a THEN 2 ELSE 1]

\* One command.
ToggleOnce == a :> <<Toggle>>
=============================================================================
