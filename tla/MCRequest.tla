----------------------------- MODULE MCRequest ------------------------------
(***************************************************************************)
(* A request on its way: two callers and a light (Request), the clock of    *)
(* its resends (ResendTimer), and the bytes of frames on the serial line    *)
(* (AshFrame).  A behaviour is one of the three.                            *)
(***************************************************************************)
EXTENDS MCCallers, ResendTimer, AshFrame

VARIABLE part

partVars == <<part, vars, timerVars, frameVars>>

PartInit == part \in {"requests", "clock", "bytes"} /\ Init /\ TimerInit /\ FrameInit

PartNext ==
    /\ UNCHANGED part
    /\ \/ part = "requests" /\ Next /\ UNCHANGED <<timerVars, frameVars>>
       \/ part = "clock" /\ TimerNext /\ UNCHANGED <<vars, frameVars>>
       \/ part = "bytes" /\ FrameNext /\ UNCHANGED <<vars, timerVars>>
       \/ part # "requests" /\ UNCHANGED partVars      \* only requests are checked for deadlock

PartSpec == PartInit /\ [][PartNext]_partVars

\* The control byte is Cancel, and the payload is the flag once randomized.
ReservedFrame == WireFrame("DATA", 1, 2, TRUE, FALSE, <<60>>)

\* Status bytes that are reserved; its escaped body just fits the scanner's buffer.
ResetFrame == WireFrame("RSTACK", 0, 0, FALSE, FALSE, <<XOnByte, SubstByte>>)

MCFrames == {ReservedFrame, ResetFrame}

MCDamage == {FlagByte, EscapeByte, SubstByte, CancelByte}

\* An escape in front of the frame, and more than the scanner's buffer holds.
MCJunk == {<<EscapeByte>>, [i \in 1..12 |-> 7]}
=============================================================================
