---------------------------- MODULE StopAndWait ----------------------------
(***************************************************************************)
(* What ash.Conn promises its caller, without frames, numbers, timers or   *)
(* retries: payloads are offered one after another, the NCP takes each at  *)
(* most once and in the order they were offered, it is never more than one *)
(* payload ahead of what Send has reported as acknowledged, and it takes   *)
(* nothing that was offered before the last Send that returned nil.        *)
(***************************************************************************)
EXTENDS Naturals, Sequences

VARIABLES
    offered,    \* how many payloads have been offered: they are 1..offered
    accepted,   \* the payloads the NCP took
    confirmed   \* the payloads whose Send returned nil

vars == <<offered, accepted, confirmed>>

Init == offered = 0 /\ accepted = <<>> /\ confirmed = <<>>

Offer ==
    /\ offered' = offered + 1
    /\ UNCHANGED <<accepted, confirmed>>

LastConfirmed == IF confirmed = <<>> THEN 0 ELSE confirmed[Len(confirmed)]

\* The NCP takes a payload that was offered after every one it took before: the one
\* on offer, or one whose Send gave up on it.
Accept ==
    /\ Len(accepted) = Len(confirmed)
    /\ \E d \in 1..offered :
          /\ LastConfirmed < d
          /\ \A i \in 1..Len(accepted) : accepted[i] < d
          /\ accepted' = Append(accepted, d)
    /\ UNCHANGED <<offered, confirmed>>

\* The Send of the payload on offer returns nil.
Confirm ==
    /\ Len(accepted) = Len(confirmed) + 1
    /\ confirmed' = Append(confirmed, offered)
    /\ UNCHANGED <<offered, accepted>>

Next == Offer \/ Accept \/ Confirm

Spec == Init /\ [][Next]_vars
=============================================================================
