----------------------------- MODULE MCNetwork -----------------------------
(***************************************************************************)
(* The adapter and its network: the operations of the ezsp.Conn (Network),  *)
(* and the scan and the choice that come before one of them (Scan).  A       *)
(* behaviour is one of the two.                                             *)
(***************************************************************************)
EXTENDS Network, Scan

VARIABLE part

partVars == <<part, vars, scanVars>>

\* The scan's command and adapter, where they play no part.
NoScan == ~adapter /\ cmd = CHOOSE c \in Commands : TRUE

PartInit ==
    /\ part \in {"network", "scan"}
    /\ Init /\ ScanInit
    /\ part = "network" => NoScan

PartNext ==
    /\ UNCHANGED part
    /\ \/ part = "network" /\ Next /\ UNCHANGED scanVars
       \/ part = "scan" /\ ScanNext /\ UNCHANGED vars

\* Network's fairness.
FairStep == part = "network" /\ HostStep /\ UNCHANGED <<part, scanVars>>

PartSpec == PartInit /\ [][PartNext]_partVars /\ WF_partVars(FairStep)

\* One value the firmware has anyway, one it may refuse to change.
MCConfig == <<"stackProfile", "indirectTxTimeout">>

\* Two networks that chose the same PAN ID, and one whose PAN ID is zero.
MCPanOf == [n \in Networks |-> IF n = "zero" THEN 0 ELSE 1]
=============================================================================
