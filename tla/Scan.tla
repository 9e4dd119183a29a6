-------------------------------- MODULE Scan --------------------------------
(***************************************************************************)
(* An active scan and what the command line makes of it: ScanNetworks and   *)
(* mergeNetwork of internal/ezsp/scan.go, and `gzb network scan`, `join`,   *)
(* `form` and `leave` of cmd/gzb/network.go up to the operation of the      *)
(* ezsp.Conn they end in, which is Network's part.                          *)
(*                                                                         *)
(* Every router in earshot beacons, so a network is heard several times and *)
(* with different contents, in any order; the channel that collects the     *)
(* beacons is bounded.  Of the connection this uses what EzspConn shows.     *)
(***************************************************************************)
EXTENDS Naturals, FiniteSets, SequencesExt

CONSTANTS
    Networks,     \* channel, PAN ID and extended PAN ID: what SameNetwork compares
    PanOf,        \* Networks -> PAN ID
    LQIs,         \* link qualities
    ScanCap,      \* capacity of the subscription's channel (64)
    MaxBeacons,   \* bound: beacons in one sweep
    Absent        \* a flag that was not given

Pans == {PanOf[n] : n \in Networks}

ASSUME ScanAssumption ==
    /\ PanOf \in [Networks -> Nat] /\ Absent \notin Pans
    /\ LQIs \subseteq Nat /\ ScanCap \in Nat \ {0} /\ MaxBeacons \in Nat

\* FoundNetwork, with the signal as the link quality alone.
FoundNetwork == [net: Networks, open: BOOLEAN, lqi: LQIs]

VARIABLES
    cmd,      \* the command: its name, --confirm, --pan-id, how far it is
    adapter,  \* the NCP is on a network (Joined)
    issued,   \* what was asked of the NCP: nothing, or an operation and its network
    scan,     \* ScanNetworks: pc, the subscription, what is found so far
    sweep,    \* the NCP: "off", "on", "over"
    beacons,  \* bound: beacons in this sweep
    heard     \* history: the beacons of the sweep, but for those a full channel lost

scanVars == <<cmd, adapter, issued, scan, sweep, beacons, heard>>
radio == <<adapter, sweep, beacons, heard>>

\* Which flags a command takes.
Commands ==
    {c \in [name: {"scan", "join", "form", "leave"}, confirm: BOOLEAN,
            panID: Pans \cup {Absent}, pc: {"dial"}] :
        /\ c.name \in {"scan", "join"} => ~c.confirm
        /\ c.name # "join" => c.panID = Absent}

Nothing == [op |-> "nothing", net |-> Absent]

ScanInit ==
    /\ cmd \in Commands
    /\ adapter \in BOOLEAN
    /\ issued = Nothing
    /\ scan = [pc |-> "idle", sub |-> "none", chan |-> <<>>, found |-> <<>>]
    /\ sweep = "off" /\ beacons = 0 /\ heard = {}

Goto(pc) == cmd' = [cmd EXCEPT !.pc = pc]

(***************************************************************************)
(* The command                                                             *)
(***************************************************************************)
\* dial: Open resets the NCP and restores its network, or fails.
Dial ==
    /\ cmd.pc = "dial"
    /\ \/ Goto(IF cmd.name = "scan" THEN "scan" ELSE "state")
       \/ Goto("failed")
    /\ UNCHANGED <<issued, scan, radio>>

\* NetworkState, and what each command makes of it.
State ==
    /\ cmd.pc = "state"
    /\ Goto(CASE cmd.name = "join"  -> IF adapter THEN "refused" ELSE "scan"
              [] cmd.name = "form"  -> IF ~cmd.confirm THEN "explained"
                                       ELSE IF adapter THEN "refused" ELSE "operate"
              [] cmd.name = "leave" -> IF ~adapter THEN "nothing to leave"
                                       ELSE IF cmd.confirm THEN "operate" ELSE "explained")
    /\ UNCHANGED <<issued, scan, radio>>

StateFails == cmd.pc = "state" /\ Goto("failed") /\ UNCHANGED <<issued, scan, radio>>

\* FormNetwork and LeaveNetwork.
Operate ==
    /\ cmd.pc = "operate"
    /\ issued' = [op |-> cmd.name, net |-> Absent]
    /\ Goto("done")
    /\ UNCHANGED <<scan, radio>>

\* The networks --pan-id leaves: all of them, where it is zero or not given.
Matching(net, panID) == panID \in {0, Absent} \/ PanOf[net] = panID

\* The entries that can be joined.
OpenOnes(found, panID) ==
    {i \in DOMAIN found : Matching(found[i].net, panID) /\ found[i].open}

\* Mutant of chooseNetwork: the first open network will do.
chooseFirst(found, panID) ==
    LET open == OpenOnes(found, panID)
    IN  IF open # {} THEN {found[Min(open)].net} ELSE {}

\* chooseNetwork: the open one, if there is exactly one; else an error.
chooseNetwork(found, panID) ==
    LET open == OpenOnes(found, panID)
    IN  IF Cardinality(open) = 1 THEN {found[i].net : i \in open} ELSE {}

\* A scan has returned without an error: listed, or one network is joined.
Choose ==
    /\ cmd.pc = "scan" /\ scan.pc = "ok"
    /\ LET target == chooseNetwork(scan.found, cmd.panID) IN
          \/ /\ cmd.name = "scan" \/ target = {}
             /\ Goto(IF cmd.name = "scan" THEN "done" ELSE "refused")
             /\ UNCHANGED issued
          \/ /\ cmd.name = "join"
             /\ \E n \in target : issued' = [op |-> "join", net |-> n]
             /\ Goto("done")
    /\ UNCHANGED <<scan, radio>>

ScanFailed ==
    /\ cmd.pc = "scan" /\ scan.pc = "error"
    /\ Goto("failed")
    /\ UNCHANGED <<issued, scan, radio>>

(***************************************************************************)
(* ScanNetworks                                                            *)
(***************************************************************************)
\* The subscription is there before the command goes out.
Listen ==
    /\ cmd.pc = "scan" /\ scan.pc = "idle"
    /\ scan' = [scan EXCEPT !.pc = "starting", !.sub = "open"]
    /\ UNCHANGED <<cmd, issued, radio>>

\* The deferred cancel of every return.
Ends(pc) == scan' = [scan EXCEPT !.pc = pc, !.sub = "none", !.chan = <<>>]

\* startScan answered: zero, in either width of status, or an error.  Without an
\* answer the NCP may be sweeping all the same.
Started ==
    /\ scan.pc = "starting" /\ sweep # "off"
    /\ scan' = [scan EXCEPT !.pc = "wait"]
    /\ UNCHANGED <<cmd, issued, radio>>

StartFails == scan.pc = "starting" /\ Ends("error") /\ UNCHANGED <<cmd, issued, radio>>

\* Mutant of mergeNetwork: the last beacon replaces what was heard before.
mergeLatest(found, b) ==
    LET i == SelectInSeq(found, LAMBDA f : f.net = b.net)
    IN  IF i = 0 THEN Append(found, b) ELSE [found EXCEPT ![i] = b]

\* mergeNetwork: one entry per network, open if any router said so, with the
\* strongest signal.
mergeNetwork(found, b) ==
    LET i == SelectInSeq(found, LAMBDA f : f.net = b.net)
    IN  IF i = 0 THEN Append(found, b)
        ELSE [found EXCEPT ![i].open = @ \/ b.open,
                           ![i].lqi = IF b.lqi > @ THEN b.lqi ELSE @]

Message == Head(scan.chan)

TakeBeacon ==
    /\ scan.pc = "wait" /\ scan.chan # <<>> /\ Message.kind = "beacon"
    /\ scan' = [scan EXCEPT !.chan = Tail(@), !.found = mergeNetwork(@, Message.beacon)]
    /\ UNCHANGED <<cmd, issued, radio>>

\* The end of the sweep, a failed channel, or a message that does not decode.
TakeEnd ==
    /\ scan.pc = "wait" /\ scan.chan # <<>> /\ Message.kind # "beacon"
    /\ Ends(IF Message.kind = "complete" THEN "ok" ELSE "error")
    /\ UNCHANGED <<cmd, issued, radio>>

\* scanTimeout, the caller's context, or a connection that has closed.
Timeout == scan.pc = "wait" /\ Ends("error") /\ UNCHANGED <<cmd, issued, radio>>

(***************************************************************************)
(* The NCP                                                                 *)
(***************************************************************************)
Sweep ==
    /\ scan.pc = "starting" /\ sweep = "off"
    /\ sweep' = "on"
    /\ UNCHANGED <<cmd, adapter, issued, scan, beacons, heard>>

Room == scan.sub = "open" /\ Len(scan.chan) < ScanCap

\* route: into the channel, or dropped.
RouteBeacon(m) == scan' = IF Room THEN [scan EXCEPT !.chan = Append(@, m)] ELSE scan

Beacon(b) ==
    /\ sweep = "on" /\ beacons < MaxBeacons
    /\ beacons' = beacons + 1
    /\ RouteBeacon([kind |-> "beacon", beacon |-> b])
    /\ heard' = IF scan.sub = "open" /\ ~Room THEN heard ELSE heard \cup {b}
    /\ UNCHANGED <<cmd, adapter, issued, sweep>>

SweepEnds(kind) ==
    /\ sweep = "on" /\ sweep' = IF kind = "malformed" THEN "on" ELSE "over"
    /\ RouteBeacon([kind |-> kind])
    /\ UNCHANGED <<cmd, adapter, issued, beacons, heard>>

\* The network the adapter remembers comes up late, or goes.
AdapterChanges ==
    /\ sweep = "off" /\ adapter' \in BOOLEAN \ {adapter}
    /\ UNCHANGED <<cmd, issued, scan, sweep, beacons, heard>>

ScanNext ==
    \/ Dial \/ State \/ StateFails \/ Operate \/ Choose \/ ScanFailed
    \/ Listen \/ Started \/ StartFails \/ TakeBeacon \/ TakeEnd \/ Timeout
    \/ Sweep \/ \E b \in FoundNetwork : Beacon(b)
    \/ \E kind \in {"complete", "failed", "malformed"} : SweepEnds(kind)
    \/ AdapterChanges

ScanSpec == ScanInit /\ [][ScanNext]_scanVars

-----------------------------------------------------------------------------
Signals(n) == {b.lqi : b \in {h \in heard : h.net = n}}

\* Whatever order the beacons came in, a scan that succeeds lists every network
\* that was heard, once, as open if any of its routers said so and with the
\* strongest signal; beacons sent before startScan's own answer are not missed.
\* (A beacon that a full channel lost is not in heard.)
FoundIsHeard ==
    scan.pc = "ok" =>
        /\ {scan.found[i].net : i \in DOMAIN scan.found} = {b.net : b \in heard}
        /\ \A i, j \in DOMAIN scan.found : scan.found[i].net = scan.found[j].net => i = j
        /\ \A i \in DOMAIN scan.found :
              /\ scan.found[i].lqi = Max(Signals(scan.found[i].net))
              /\ scan.found[i].open <=> \E b \in heard : b.net = scan.found[i].net /\ b.open

\* `network join` joins only on evidence, and only where nothing is left to choose:
\* some router of the network said it is open, it has the PAN ID that was asked
\* for, and no other network that was heard qualifies.  (A PAN ID of zero reads
\* as not given.)
Qualifies(n) ==
    /\ \E b \in heard : b.net = n /\ b.open
    /\ cmd.panID \in {0, Absent} \/ PanOf[n] = cmd.panID

JoinIsForced ==
    /\ issued.op = "join" => {n \in Networks : Qualifies(n)} = {issued.net}
    /\ cmd.name = "join" /\ cmd.pc = "refused" /\ scan.pc = "ok" =>
           Cardinality({n \in Networks : Qualifies(n)}) # 1
=============================================================================
