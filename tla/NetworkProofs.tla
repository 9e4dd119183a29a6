--------------------------- MODULE NetworkProofs ----------------------------
(***************************************************************************)
(* The scan and what `network join` makes of it, for any set of networks,    *)
(* any number of beacons and any capacity of the channel; then the adapter   *)
(* and its network, for any protocol versions, configuration values and      *)
(* capacity of the status subscription: nothing is used before it has been   *)
(* prepared, the adapter keeps its network, and the result of FormNetwork and*)
(* JoinNetwork is what the adapter holds.                                    *)
(***************************************************************************)
EXTENDS Network, Scan, Functions, FiniteSetTheorems, TLAPS

(***************************************************************************)
(* Scan: mergeNetwork                                                      *)
(***************************************************************************)
\* One entry per network.
Distinct(found) == \A i, j \in DOMAIN found : found[i].net = found[j].net => i = j

\* The entries a beacon is merged into.
Entries(found, b) == {i \in 1..Len(found) : found[i].net = b.net}

\* An entry that another beacon of its network is merged into.
Raised(entry, b) == [entry EXCEPT !.open = @ \/ b.open, !.lqi = IF b.lqi > @ THEN b.lqi ELSE @]

\* A beacon of a network that is listed raises its one entry, any other is appended.
LEMMA Merging ==
    ASSUME NEW found \in Seq(FoundNetwork), Distinct(found), NEW b \in FoundNetwork
    PROVE  \/ /\ \A i \in DOMAIN found : found[i].net # b.net
              /\ mergeNetwork(found, b) = Append(found, b)
           \/ \E i \in DOMAIN found :
                 /\ found[i].net = b.net
                 /\ mergeNetwork(found, b) = [found EXCEPT ![i] = Raised(found[i], b)]
<1>1. DOMAIN found = 1..Len(found)
  OBVIOUS
<1>2. CASE Entries(found, b) = {}
  BY <1>1, <1>2 DEF mergeNetwork, SelectInSeq, Entries
<1>3. CASE Entries(found, b) # {}
  <2>1. PICK i \in DOMAIN found : Entries(found, b) = {i}
    BY <1>1, <1>3 DEF Entries, Distinct
  <2>2. i \in Nat \ {0}
    BY <1>1
  <2>3. Min({i}) = i
    BY <2>2 DEF Min
  <2>4. SelectInSeq(found, LAMBDA f : f.net = b.net) = i
    BY <2>1, <2>3 DEF SelectInSeq, Entries
  <2>5. mergeNetwork(found, b) = [found EXCEPT ![i].open = @ \/ b.open,
                                               ![i].lqi = IF b.lqi > @ THEN b.lqi ELSE @]
    BY <2>2, <2>4 DEF mergeNetwork
  <2>6. @ = [found EXCEPT ![i] = Raised(found[i], b)]
    <3>1. found[i] \in FoundNetwork
      OBVIOUS
    <3> QED
      BY <3>1 DEF Raised, FoundNetwork
  <2> QED
    BY <2>1, <2>5, <2>6 DEF Entries
<1> QED
  BY <1>2, <1>3

\* A beacon is accounted for by an entry: the signal is as strong, and open if it was.
Listed(found, h) ==
    \E i \in DOMAIN found :
        found[i].net = h.net /\ found[i].lqi >= h.lqi /\ (h.open => found[i].open)

\* What an entry says, some beacon said.
Evident(found, beaconsHeard) ==
    \A i \in DOMAIN found :
        /\ \E h \in beaconsHeard : h.net = found[i].net /\ h.lqi = found[i].lqi
        /\ found[i].open => \E h \in beaconsHeard : h.net = found[i].net /\ h.open

\* Merging keeps one entry per network, loses no beacon, takes in the new one and
\* makes nothing up.
LEMMA MergeFacts ==
    ASSUME LQIs \subseteq Nat, NEW found \in Seq(FoundNetwork), Distinct(found),
           NEW H \in SUBSET FoundNetwork, NEW b \in H, Evident(found, H)
    PROVE  LET new == mergeNetwork(found, b) IN
           /\ new \in Seq(FoundNetwork)
           /\ Distinct(new)
           /\ Evident(new, H)
           /\ Listed(new, b)
           /\ \A h \in FoundNetwork : Listed(found, h) => Listed(new, h)
<1> DEFINE new == mergeNetwork(found, b)
<1>0. b \in FoundNetwork /\ DOMAIN found = 1..Len(found) /\ Len(found) \in Nat
  OBVIOUS
<1>t. /\ \A f \in FoundNetwork : f.lqi \in Nat /\ f.open \in BOOLEAN /\ f.net \in Networks
      /\ \A i \in DOMAIN found : found[i] \in FoundNetwork
  <2>1. \A f \in FoundNetwork : f.lqi \in Nat /\ f.open \in BOOLEAN /\ f.net \in Networks
    BY DEF FoundNetwork
  <2> QED
    BY <2>1
<1>m. \/ /\ \A i \in DOMAIN found : found[i].net # b.net
         /\ new = Append(found, b)
      \/ \E i \in DOMAIN found :
            /\ found[i].net = b.net
            /\ new = [found EXCEPT ![i] = Raised(found[i], b)]
  BY <1>0, Merging
<1> HIDE DEF new
<1>1. CASE \A i \in DOMAIN found : found[i].net # b.net
  <2>1. new = Append(found, b)
    BY <1>1, <1>m
  <2>2. /\ new \in Seq(FoundNetwork) /\ DOMAIN new = 1..(Len(found) + 1)
        /\ new[Len(found) + 1] = b
        /\ \A i \in DOMAIN found : i \in DOMAIN new /\ new[i] = found[i]
        /\ \A i \in DOMAIN new : i \in DOMAIN found \/ i = Len(found) + 1
    BY <1>0, <2>1
  <2>3. Distinct(new)
    BY <1>1, <2>2 DEF Distinct
  <2>4. Evident(new, H)
    BY <1>t, <2>2 DEF Evident
  <2>5. Listed(new, b)
    BY <1>0, <1>t, <2>2 DEF Listed
  <2>6. ASSUME NEW h \in FoundNetwork, Listed(found, h) PROVE Listed(new, h)
    BY <2>2, <2>6 DEF Listed
  <2> QED
    BY <2>2, <2>3, <2>4, <2>5, <2>6 DEF new
<1>2. CASE \E i \in DOMAIN found : found[i].net = b.net
  <2>1. PICK i \in DOMAIN found :
           /\ found[i].net = b.net
           /\ new = [found EXCEPT ![i] = Raised(found[i], b)]
    BY <1>2, <1>m
  <2>2. /\ DOMAIN new = DOMAIN found
        /\ \A j \in DOMAIN found : j # i => new[j] = found[j]
        /\ new[i].net = b.net
        /\ new[i].open = (found[i].open \/ b.open)
        /\ new[i].lqi = IF b.lqi > found[i].lqi THEN b.lqi ELSE found[i].lqi
        /\ new[i] \in FoundNetwork
    <3>1. found[i] \in FoundNetwork
      BY <1>t
    <3> DEFINE f == Raised(found[i], b)
    <3>2. /\ f.net = found[i].net
          /\ f.open = (found[i].open \/ b.open)
          /\ f.lqi = IF b.lqi > found[i].lqi THEN b.lqi ELSE found[i].lqi
          /\ f \in FoundNetwork
      BY <1>0, <3>1 DEF FoundNetwork, Raised
    <3>3. new = [found EXCEPT ![i] = f]
      BY <2>1
    <3> HIDE DEF f
    <3> QED
      BY <2>1, <3>2, <3>3
  <2>3. new \in Seq(FoundNetwork)
    BY <1>0, <1>t, <2>1, <2>2
  <2>4. Distinct(new)
    BY <2>1, <2>2 DEF Distinct
  <2>5. Evident(new, H)
    <3> SUFFICES ASSUME NEW j \in DOMAIN found
                 PROVE  /\ \E h \in H : h.net = new[j].net /\ h.lqi = new[j].lqi
                        /\ new[j].open => \E h \in H : h.net = new[j].net /\ h.open
      BY <2>2 DEF Evident
    <3>1. CASE j # i
      BY <2>2, <3>1 DEF Evident
    <3>2. CASE j = i
      <4>1. /\ \E h \in H : h.net = found[i].net /\ h.lqi = found[i].lqi
            /\ found[i].open => \E h \in H : h.net = found[i].net /\ h.open
        BY DEF Evident
      <4>2. \E h \in H : h.net = new[i].net /\ h.lqi = new[i].lqi
        BY <2>1, <2>2, <4>1
      <4>3. new[i].open => \E h \in H : h.net = new[i].net /\ h.open
        BY <2>1, <2>2, <4>1
      <4> QED
        BY <3>2, <4>2, <4>3
    <3> QED
      BY <3>1, <3>2
  <2>6. Listed(new, b)
    BY <1>0, <1>t, <2>1, <2>2 DEF Listed
  <2>7. ASSUME NEW h \in FoundNetwork, Listed(found, h) PROVE Listed(new, h)
    <3>1. PICK j \in DOMAIN found :
             found[j].net = h.net /\ found[j].lqi >= h.lqi /\ (h.open => found[j].open)
      BY <2>7 DEF Listed
    <3>2. new[j].net = h.net /\ new[j].lqi >= h.lqi /\ (h.open => new[j].open)
      BY <1>0, <1>t, <2>1, <2>2, <3>1
    <3> QED
      BY <2>2, <3>2 DEF Listed
  <2> QED
    BY <2>3, <2>4, <2>5, <2>6, <2>7 DEF new
<1> QED
  BY <1>1, <1>2

(***************************************************************************)
(* Scan: the inductive invariant                                           *)
(***************************************************************************)
Sent == [kind: {"beacon"}, beacon: FoundNetwork] \cup [kind: {"complete", "failed", "malformed"}]

CommandType ==
    [name: {"scan", "join", "form", "leave"}, confirm: BOOLEAN, panID: Pans \cup {Absent},
     pc: {"dial", "state", "scan", "operate", "failed", "refused", "explained",
          "nothing to leave", "done"}]

ScanType ==
    [pc: {"idle", "starting", "wait", "ok", "error"}, sub: {"none", "open"},
     chan: Seq(Sent), found: Seq(FoundNetwork)]

TypeOK ==
    /\ cmd \in CommandType
    /\ issued \in [op: {"nothing", "join", "form", "leave"}, net: Networks \cup {Absent}]
    /\ scan \in ScanType
    /\ sweep \in {"off", "on", "over"}
    /\ heard \in SUBSET FoundNetwork

\* Where a command can be.
CommandInv ==
    /\ cmd.pc = "state" => cmd.name # "scan"
    /\ cmd.pc = "operate" => cmd.name \in {"form", "leave"}
    /\ cmd.pc \in {"dial", "state"} => scan.pc = "idle"

\* The subscription lives as long as ScanNetworks, which comes before the sweep; a
\* sweep that is over sends no more, so its end is the last message there is.
OrderInv ==
    /\ scan.sub = "open" <=> scan.pc \in {"starting", "wait"}
    /\ scan.sub = "none" => scan.chan = <<>>
    /\ scan.pc = "idle" => sweep = "off" /\ heard = {} /\ scan.found = <<>>
    /\ scan.pc = "ok" => sweep = "over"
    /\ \A j \in DOMAIN scan.chan : scan.chan[j].kind = "complete" =>
          j = Len(scan.chan) /\ sweep = "over"

Waiting(h) == \E j \in DOMAIN scan.chan : scan.chan[j].kind = "beacon" /\ scan.chan[j].beacon = h

\* What was heard is listed or still in the channel, and nothing else is.
HeardInv ==
    /\ \A j \in DOMAIN scan.chan : scan.chan[j].kind = "beacon" => scan.chan[j].beacon \in heard
    /\ Distinct(scan.found)
    /\ Evident(scan.found, heard)
    /\ scan.pc # "error" => \A h \in heard : Listed(scan.found, h) \/ Waiting(h)

ScanInv == TypeOK /\ CommandInv /\ OrderInv /\ HeardInv

\* The invariant holds at first.
LEMMA InitScanInv == ASSUME ScanInit PROVE ScanInv
<1>1. cmd \in CommandType
  BY DEF ScanInit, Commands, CommandType
<1>2. scan \in ScanType
  BY DEF ScanInit, ScanType
<1>3. TypeOK
  BY <1>1, <1>2 DEF ScanInit, TypeOK, Nothing
<1>4. CommandInv
  BY DEF ScanInit, CommandInv, Commands
<1>5. OrderInv
  BY DEF ScanInit, OrderInv
<1>6. HeardInv
  BY DEF ScanInit, HeardInv, Distinct, Evident
<1> QED
  BY <1>3, <1>4, <1>5, <1>6 DEF ScanInv

\* Where a step takes the command.
LEMMA Going ==
    ASSUME cmd \in CommandType, NEW at, Goto(at)
    PROVE  /\ cmd'.pc = at /\ cmd'.name = cmd.name /\ cmd'.panID = cmd.panID
           /\ at \in {"dial", "state", "scan", "operate", "failed", "refused", "explained",
                      "nothing to leave", "done"} => cmd' \in CommandType
<1>1. cmd' = [cmd EXCEPT !.pc = at]
  BY DEF Goto
<1> QED
  BY <1>1 DEF CommandType

\* The steps of the command leave the scan alone.
LEMMA CommandStep ==
    ASSUME ScanInv, Dial \/ State \/ StateFails \/ Operate \/ Choose \/ ScanFailed
    PROVE  ScanInv'
<1> USE DEF ScanInv
<1>1. UNCHANGED <<scan, radio>> /\ cmd \in CommandType /\ cmd.name \in {"scan", "join", "form", "leave"}
  BY DEF Dial, State, StateFails, Operate, Choose, ScanFailed, TypeOK, CommandType
<1>2. OrderInv' /\ HeardInv'
  BY <1>1 DEF OrderInv, HeardInv, Waiting, radio
<1>3. TypeOK' <=> cmd' \in CommandType
                  /\ issued' \in [op: {"nothing", "join", "form", "leave"}, net: Networks \cup {Absent}]
  BY <1>1 DEF TypeOK, radio
<1>4. CASE Dial
  <2>1. PICK at \in {"scan", "state", "failed"} :
           Goto(at) /\ (at = "state" => cmd.name # "scan")
    BY <1>4 DEF Dial
  <2>2. CommandInv'
    BY <1>1, <1>4, <2>1, Going DEF Dial, CommandInv
  <2> QED
    BY <1>1, <1>2, <1>3, <1>4, <2>1, <2>2, Going DEF Dial, TypeOK
<1>5. CASE State
  <2>1. PICK at \in {"refused", "scan", "explained", "operate", "nothing to leave"} :
           Goto(at) /\ (at = "operate" => cmd.name \in {"form", "leave"})
    BY <1>1, <1>5 DEF State, CommandInv
  <2>2. CommandInv'
    BY <1>1, <2>1, Going DEF CommandInv
  <2> QED
    BY <1>1, <1>2, <1>3, <1>5, <2>1, <2>2, Going DEF State, TypeOK
<1>6. CASE StateFails \/ ScanFailed
  <2>1. Goto("failed") /\ issued' = issued
    BY <1>6 DEF StateFails, ScanFailed
  <2>2. cmd'.pc = "failed" /\ cmd' \in CommandType
    BY <1>1, <2>1, Going
  <2>3. CommandInv'
    BY <2>2 DEF CommandInv
  <2> QED
    BY <1>2, <1>3, <2>1, <2>2, <2>3 DEF TypeOK
<1>7. CASE Operate
  <2>1. Goto("done") /\ issued' = [op |-> cmd.name, net |-> Absent] /\ cmd.name \in {"form", "leave"}
    BY <1>7 DEF Operate, CommandInv
  <2>2. cmd'.pc = "done" /\ cmd' \in CommandType
    BY <1>1, <2>1, Going
  <2>3. CommandInv'
    BY <2>2 DEF CommandInv
  <2> QED
    BY <1>2, <1>3, <2>1, <2>2, <2>3
<1>8. CASE Choose
  <2>1. PICK at \in {"done", "refused"} : Goto(at)
    BY <1>8 DEF Choose
  <2>2. chooseNetwork(scan.found, cmd.panID) \subseteq Networks
    <3>1. \A i \in DOMAIN scan.found : scan.found[i].net \in Networks
      <4>1. \A i \in DOMAIN scan.found : scan.found[i] \in FoundNetwork
        BY DEF TypeOK, ScanType
      <4> QED
        BY <4>1 DEF FoundNetwork
    <3> QED
      BY <3>1 DEF chooseNetwork, OpenOnes
  <2>3. issued' = issued \/ \E n \in Networks : issued' = [op |-> "join", net |-> n]
    BY <1>8, <2>2 DEF Choose
  <2>4. cmd'.pc \in {"done", "refused"} /\ cmd' \in CommandType
    BY <1>1, <2>1, Going
  <2>5. CommandInv'
    BY <2>4 DEF CommandInv
  <2>6. issued' \in [op: {"nothing", "join", "form", "leave"}, net: Networks \cup {Absent}]
    BY <2>3 DEF TypeOK
  <2> QED
    BY <1>2, <1>3, <2>4, <2>5, <2>6
<1> QED
  BY <1>4, <1>5, <1>6, <1>7, <1>8

\* How ScanNetworks returns.
LEMMA Ending ==
    ASSUME scan \in ScanType, NEW at \in {"ok", "error"}, Ends(at)
    PROVE  /\ scan'.pc = at /\ scan'.sub = "none" /\ scan'.chan = <<>>
           /\ scan'.found = scan.found /\ scan' \in ScanType
<1>1. scan.found \in Seq(FoundNetwork) /\ <<>> \in Seq(Sent)
  BY DEF ScanType
<1>2. scan' = [pc |-> at, sub |-> "none", chan |-> <<>>, found |-> scan.found]
  BY DEF Ends, ScanType
<1> QED
  BY <1>1, <1>2 DEF ScanType

\* The steps of ScanNetworks.
LEMMA ScanStep ==
    ASSUME ScanAssumption, ScanInv,
           Listen \/ Started \/ StartFails \/ TakeBeacon \/ TakeEnd \/ Timeout
    PROVE  ScanInv'
<1> USE DEF ScanInv
<1>1. UNCHANGED <<cmd, issued, radio>>
  BY DEF Listen, Started, StartFails, TakeBeacon, TakeEnd, Timeout
<1>t. scan \in ScanType /\ scan.chan \in Seq(Sent) /\ scan.found \in Seq(FoundNetwork)
  BY DEF TypeOK, ScanType
<1>u. scan' \in ScanType => TypeOK'
  BY <1>1 DEF TypeOK, radio
<1>2. CASE Listen
  <2>1. /\ cmd.pc = "scan" /\ scan.pc = "idle"
        /\ scan'.pc = "starting" /\ scan'.sub = "open"
        /\ scan'.chan = scan.chan /\ scan'.found = scan.found /\ scan' \in ScanType
    BY <1>2, <1>t DEF Listen, ScanType
  <2>2. OrderInv'
    BY <1>1, <2>1 DEF OrderInv, radio
  <2>3. HeardInv'
    BY <1>1, <2>1 DEF HeardInv, Waiting, radio
  <2> QED
    BY <1>1, <1>u, <2>1, <2>2, <2>3 DEF CommandInv
<1>3. CASE Started
  <2>1. /\ scan.pc = "starting" /\ scan'.pc = "wait" /\ scan'.sub = scan.sub
        /\ scan'.chan = scan.chan /\ scan'.found = scan.found /\ scan' \in ScanType
    BY <1>3, <1>t DEF Started, ScanType
  <2>2. OrderInv'
    BY <1>1, <2>1 DEF OrderInv, radio
  <2>3. HeardInv'
    BY <1>1, <2>1 DEF HeardInv, Waiting, radio
  <2> QED
    BY <1>1, <1>u, <2>1, <2>2, <2>3 DEF CommandInv
<1>4. CASE StartFails \/ Timeout
  <2>1. scan.pc \in {"starting", "wait"} /\ Ends("error")
    BY <1>4 DEF StartFails, Timeout
  <2>2. /\ scan'.pc = "error" /\ scan'.sub = "none" /\ scan'.chan = <<>>
        /\ scan'.found = scan.found /\ scan' \in ScanType
    BY <1>t, <2>1, Ending
  <2>3. OrderInv'
    BY <1>1, <2>2 DEF OrderInv, radio
  <2>4. HeardInv'
    BY <1>1, <2>2 DEF HeardInv, Waiting, radio
  <2> QED
    BY <1>1, <1>u, <2>1, <2>2, <2>3, <2>4 DEF CommandInv
<1>5. CASE TakeEnd
  <2>1. /\ scan.pc = "wait" /\ scan.chan # <<>> /\ Message.kind # "beacon"
        /\ Ends(IF Message.kind = "complete" THEN "ok" ELSE "error")
    BY <1>5 DEF TakeEnd
  <2>2. Message = scan.chan[1] /\ 1 \in DOMAIN scan.chan /\ DOMAIN scan.chan = 1..Len(scan.chan)
    BY <1>t, <2>1 DEF Message
  <2>3. /\ scan'.pc = IF Message.kind = "complete" THEN "ok" ELSE "error"
        /\ scan'.sub = "none" /\ scan'.chan = <<>>
        /\ scan'.found = scan.found /\ scan' \in ScanType
    BY <1>t, <2>1, Ending
  <2>4. Message.kind = "complete" => sweep = "over" /\ Len(scan.chan) = 1
    BY <2>2 DEF OrderInv
  <2>5. Message.kind = "complete" => \A h \in heard : ~Waiting(h)
    BY <2>1, <2>2, <2>4 DEF Waiting
  <2>6. OrderInv'
    BY <1>1, <2>3, <2>4 DEF OrderInv, radio
  <2>7. HeardInv'
    BY <1>1, <2>1, <2>3, <2>5 DEF HeardInv, radio
  <2> QED
    BY <1>1, <1>u, <2>1, <2>3, <2>6, <2>7 DEF CommandInv
<1>6. CASE TakeBeacon
  <2>1. /\ scan.pc = "wait" /\ scan.chan # <<>> /\ Message.kind = "beacon"
        /\ scan' = [scan EXCEPT !.chan = Tail(@), !.found = mergeNetwork(@, Message.beacon)]
    BY <1>6 DEF TakeBeacon
  <2> DEFINE b == scan.chan[1].beacon
  <2>2. Message = scan.chan[1] /\ 1 \in DOMAIN scan.chan
    BY <1>t, <2>1 DEF Message
  <2>3. LQIs \subseteq Nat
    BY DEF ScanAssumption
  <2>4. /\ b \in heard /\ heard \in SUBSET FoundNetwork
        /\ Distinct(scan.found) /\ Evident(scan.found, heard)
    BY <2>1, <2>2 DEF TypeOK, HeardInv
  <2>5. /\ scan'.found \in Seq(FoundNetwork)
        /\ Distinct(scan'.found) /\ Evident(scan'.found, heard)
        /\ Listed(scan'.found, b)
        /\ \A h \in FoundNetwork : Listed(scan.found, h) => Listed(scan'.found, h)
    <3>1. scan'.found = mergeNetwork(scan.found, b)
      BY <1>t, <2>1, <2>2 DEF ScanType
    <3> HIDE DEF b
    <3> QED
      BY <1>t, <2>3, <2>4, <3>1, MergeFacts
  <2>6. /\ scan'.pc = scan.pc /\ scan'.sub = scan.sub /\ scan'.chan = Tail(scan.chan)
        /\ scan' \in ScanType
    <3>1. Tail(scan.chan) \in Seq(Sent)
      BY <1>t, <2>1
    <3>2. scan'.pc = scan.pc /\ scan'.sub = scan.sub /\ scan'.chan = Tail(scan.chan)
      BY <1>t, <2>1 DEF ScanType
    <3>3. scan' = [pc |-> scan.pc, sub |-> scan.sub, chan |-> Tail(scan.chan),
                   found |-> mergeNetwork(scan.found, Message.beacon)]
      BY <1>t, <2>1 DEF ScanType
    <3>4. mergeNetwork(scan.found, Message.beacon) \in Seq(FoundNetwork)
      BY <2>5, <3>3
    <3> QED
      BY <1>t, <3>1, <3>2, <3>3, <3>4 DEF ScanType
  <2>7. /\ scan.chan \in Seq(Sent) /\ Len(scan'.chan) = Len(scan.chan) - 1
        /\ \A j \in DOMAIN scan'.chan : j + 1 \in DOMAIN scan.chan /\ scan'.chan[j] = scan.chan[j + 1]
        /\ \A j \in DOMAIN scan.chan : j = 1 \/ (j - 1 \in DOMAIN scan'.chan /\ scan'.chan[j - 1] = scan.chan[j])
    BY <1>t, <2>1, <2>6
  <2>8. TypeOK' /\ CommandInv'
    BY <1>1, <1>u, <2>6 DEF CommandInv
  <2>9. OrderInv'
    <3>1. \A j \in DOMAIN scan'.chan : j \in Nat
      BY <2>6, <2>7
    <3>2. Len(scan.chan) \in Nat
      BY <2>7
    <3> QED
      BY <1>1, <2>1, <2>6, <2>7, <3>1, <3>2 DEF OrderInv, radio
  <2>10. HeardInv'
    <3>1. ASSUME NEW h \in heard PROVE Listed(scan'.found, h) \/ Waiting(h)'
      <4>1. CASE Listed(scan.found, h)
        BY <2>4, <2>5, <4>1
      <4>2. CASE Waiting(h)
        <5>1. PICK j \in DOMAIN scan.chan : scan.chan[j].kind = "beacon" /\ scan.chan[j].beacon = h
          BY <4>2 DEF Waiting
        <5>2. CASE j = 1
          BY <2>5, <5>1, <5>2
        <5>3. CASE j # 1
          BY <2>7, <5>1, <5>3 DEF Waiting
        <5> QED
          BY <5>2, <5>3
      <4> QED
        BY <2>1, <4>1, <4>2 DEF HeardInv
    <3>2. \A j \in DOMAIN scan'.chan :
             scan'.chan[j].kind = "beacon" => scan'.chan[j].beacon \in heard
      BY <2>7 DEF HeardInv
    <3> QED
      BY <1>1, <2>5, <3>1, <3>2 DEF HeardInv, radio
  <2> QED
    BY <2>8, <2>9, <2>10
<1> QED
  BY <1>2, <1>3, <1>4, <1>5, <1>6

\* The steps of the NCP.
LEMMA SweepStep ==
    ASSUME ScanInv,
           \/ Sweep \/ AdapterChanges
           \/ \E b \in FoundNetwork : Beacon(b)
           \/ \E kind \in {"complete", "failed", "malformed"} : SweepEnds(kind)
    PROVE  ScanInv'
<1> USE DEF ScanInv
<1>t. scan \in ScanType /\ scan.chan \in Seq(Sent) /\ scan.found \in Seq(FoundNetwork)
  BY DEF TypeOK, ScanType
<1>1. CASE Sweep
  <2>1. scan.pc = "starting" /\ sweep = "off" /\ sweep' = "on"
        /\ UNCHANGED <<cmd, adapter, issued, scan, beacons, heard>>
    BY <1>1 DEF Sweep
  <2>2. TypeOK' /\ CommandInv' /\ HeardInv'
    BY <2>1 DEF TypeOK, CommandInv, HeardInv, Waiting
  <2>3. OrderInv'
    BY <2>1 DEF OrderInv
  <2> QED
    BY <2>2, <2>3
<1>2. CASE AdapterChanges
  BY <1>2 DEF AdapterChanges, TypeOK, CommandInv, OrderInv, HeardInv, Waiting
<1>3. ASSUME NEW m \in Sent, RouteBeacon(m)
      PROVE  /\ scan' \in ScanType /\ scan'.pc = scan.pc /\ scan'.sub = scan.sub
             /\ scan'.found = scan.found
             /\ ~Room => scan'.chan = scan.chan
             /\ Room => scan'.chan = Append(scan.chan, m)
  <2>1. CASE ~Room
    BY <1>3, <1>t, <2>1 DEF RouteBeacon
  <2>2. CASE Room
    <3>1. scan' = [pc |-> scan.pc, sub |-> scan.sub, chan |-> Append(scan.chan, m),
                   found |-> scan.found]
      BY <1>3, <1>t, <2>2 DEF RouteBeacon, ScanType
    <3>2. Append(scan.chan, m) \in Seq(Sent)
      BY <1>3, <1>t
    <3> QED
      BY <1>t, <2>2, <3>1, <3>2 DEF ScanType
  <2> QED
    BY <2>1, <2>2
<1>4. ASSUME NEW b \in FoundNetwork, Beacon(b) PROVE ScanInv'
  <2> DEFINE m == [kind |-> "beacon", beacon |-> b]
  <2>1. /\ sweep = "on" /\ RouteBeacon(m) /\ m \in Sent
        /\ heard' = IF scan.sub = "open" /\ ~Room THEN heard ELSE heard \cup {b}
        /\ UNCHANGED <<cmd, adapter, issued, sweep>>
    BY <1>4 DEF Beacon, Sent
  <2>m. m.kind = "beacon" /\ m.beacon = b
    OBVIOUS
  <2> HIDE DEF m
  <2>2. /\ scan' \in ScanType /\ scan'.pc = scan.pc /\ scan'.sub = scan.sub
        /\ scan'.found = scan.found
        /\ ~Room => scan'.chan = scan.chan
        /\ Room => scan'.chan = Append(scan.chan, m)
    BY <1>3, <2>1
  <2>3. heard \subseteq heard' /\ heard' \subseteq heard \cup {b} /\ heard' \in SUBSET FoundNetwork
    BY <2>1 DEF TypeOK
  <2>4. TypeOK' /\ CommandInv'
    BY <2>1, <2>2, <2>3 DEF TypeOK, CommandInv
  <2>5. CASE ~Room
    <3>1. OrderInv'
      BY <2>1, <2>2, <2>5 DEF OrderInv
    <3>2. scan.pc # "error" => scan.sub = "open"
      BY <2>1 DEF OrderInv, TypeOK, ScanType
    <3>3. HeardInv'
      BY <2>1, <2>2, <2>3, <2>5, <3>2 DEF HeardInv, Evident, Waiting
    <3> QED
      BY <2>4, <3>1, <3>3
  <2>6. CASE Room
    <3>1. /\ scan'.chan = Append(scan.chan, m) /\ scan.sub = "open" /\ heard' = heard \cup {b}
          /\ DOMAIN scan'.chan = 1..(Len(scan.chan) + 1) /\ Len(scan.chan) \in Nat
          /\ DOMAIN scan.chan = 1..Len(scan.chan)
          /\ scan'.chan[Len(scan.chan) + 1] = m
          /\ \A j \in DOMAIN scan.chan : scan'.chan[j] = scan.chan[j]
      BY <1>t, <2>1, <2>2, <2>6 DEF Room
    <3>2. \A j \in DOMAIN scan'.chan : j \in DOMAIN scan.chan \/ j = Len(scan.chan) + 1
      BY <3>1
    <3>3. OrderInv'
      BY <2>1, <2>2, <2>m, <3>1, <3>2 DEF OrderInv
    <3>4. \A h \in heard' : Waiting(h) \/ h = b => Waiting(h)'
      BY <2>m, <3>1 DEF Waiting
    <3>5. HeardInv'
      BY <2>2, <2>m, <3>1, <3>2, <3>4 DEF HeardInv, Evident
    <3> QED
      BY <2>4, <3>3, <3>5
  <2> QED
    BY <2>5, <2>6
<1>5. ASSUME NEW kind \in {"complete", "failed", "malformed"}, SweepEnds(kind) PROVE ScanInv'
  <2> DEFINE m == [kind |-> kind]
  <2>1. /\ sweep = "on" /\ RouteBeacon(m) /\ m \in Sent
        /\ sweep' = IF kind = "malformed" THEN "on" ELSE "over"
        /\ UNCHANGED <<cmd, adapter, issued, heard>>
    BY <1>5 DEF SweepEnds, Sent
  <2>m. m.kind = kind
    OBVIOUS
  <2> HIDE DEF m
  <2>2. /\ scan' \in ScanType /\ scan'.pc = scan.pc /\ scan'.sub = scan.sub
        /\ scan'.found = scan.found
        /\ ~Room => scan'.chan = scan.chan
        /\ Room => scan'.chan = Append(scan.chan, m)
    BY <1>3, <2>1
  <2>3. TypeOK' /\ CommandInv'
    BY <2>1, <2>2 DEF TypeOK, CommandInv
  <2>4. CASE ~Room
    <3>1. OrderInv'
      BY <2>1, <2>2, <2>4 DEF OrderInv
    <3>2. HeardInv'
      BY <2>1, <2>2, <2>4 DEF HeardInv, Waiting
    <3> QED
      BY <2>3, <3>1, <3>2
  <2>5. CASE Room
    <3>1. /\ scan'.chan = Append(scan.chan, m) /\ scan.sub = "open"
          /\ DOMAIN scan'.chan = 1..(Len(scan.chan) + 1) /\ Len(scan.chan) \in Nat
          /\ Len(scan'.chan) = Len(scan.chan) + 1
          /\ DOMAIN scan.chan = 1..Len(scan.chan)
          /\ scan'.chan[Len(scan.chan) + 1] = m
          /\ \A j \in DOMAIN scan.chan : scan'.chan[j] = scan.chan[j]
      <4>1. scan'.chan = Append(scan.chan, m) /\ scan.sub = "open"
        BY <2>2, <2>5 DEF Room
      <4>2. PICK s \in Seq(Sent) : s = scan.chan
        BY <1>t
      <4>3. \A q : q = Append(s, m) =>
               /\ Len(q) = Len(s) + 1 /\ DOMAIN q = 1..(Len(s) + 1) /\ q[Len(s) + 1] = m
               /\ Len(s) \in Nat /\ DOMAIN s = 1..Len(s)
               /\ \A j \in DOMAIN s : q[j] = s[j]
        BY <2>1
      <4> QED
        BY <4>1, <4>2, <4>3
    <3>2. \A j \in DOMAIN scan'.chan : j \in DOMAIN scan.chan \/ j = Len(scan.chan) + 1
      BY <3>1
    <3>3. OrderInv'
      BY <2>1, <2>2, <2>m, <3>1, <3>2 DEF OrderInv
    <3>4. \A h \in heard : Waiting(h) => Waiting(h)'
      BY <3>1 DEF Waiting
    <3>5. HeardInv'
      BY <2>1, <2>2, <2>m, <3>1, <3>2, <3>4 DEF HeardInv
    <3> QED
      BY <2>3, <3>3, <3>5
  <2> QED
    BY <2>4, <2>5
<1> QED
  BY <1>1, <1>2, <1>4, <1>5

\* Every step keeps the invariant.
LEMMA StepScanInv == ASSUME ScanAssumption, ScanInv, [ScanNext]_scanVars PROVE ScanInv'
<1>1. CASE UNCHANGED scanVars
  BY <1>1 DEF scanVars, ScanInv, TypeOK, CommandInv, OrderInv, HeardInv, Waiting
<1>2. CASE ScanNext
  BY <1>2, CommandStep, ScanStep, SweepStep DEF ScanNext
<1> QED
  BY <1>1, <1>2

\* The invariant holds throughout.
THEOREM ScanInductive == ScanSpec => []ScanInv
<1>1. ScanInit => ScanInv
  BY InitScanInv
<1>2. ScanInv /\ [ScanNext]_scanVars => ScanInv'
  BY StepScanInv, ScanAssumption
<1> QED
  BY <1>1, <1>2, PTL DEF ScanSpec

(***************************************************************************)
(* Scan: what it tells                                                     *)
(***************************************************************************)
\* A scan that succeeds lists every network that was heard, once, as open if any
\* router said so and with the strongest signal, whatever order the beacons came in.
LEMMA ListedIsHeard == ASSUME ScanAssumption, ScanInv PROVE FoundIsHeard
<1> SUFFICES ASSUME scan.pc = "ok" PROVE
        /\ {scan.found[i].net : i \in DOMAIN scan.found} = {b.net : b \in heard}
        /\ \A i, j \in DOMAIN scan.found : scan.found[i].net = scan.found[j].net => i = j
        /\ \A i \in DOMAIN scan.found :
              /\ scan.found[i].lqi = Max(Signals(scan.found[i].net))
              /\ scan.found[i].open <=> \E b \in heard : b.net = scan.found[i].net /\ b.open
  BY DEF FoundIsHeard
<1>1. /\ Distinct(scan.found) /\ Evident(scan.found, heard)
      /\ \A h \in heard : Listed(scan.found, h)
  <2>1. scan.chan = <<>>
    BY DEF ScanInv, TypeOK, ScanType, OrderInv
  <2>2. \A h \in heard : ~Waiting(h)
    BY <2>1 DEF Waiting
  <2> QED
    BY <2>2 DEF ScanInv, HeardInv
<1>2. \A h \in heard : h.lqi \in Nat
  <2>1. \A h \in FoundNetwork : h.lqi \in LQIs
    BY DEF FoundNetwork
  <2> QED
    BY <2>1 DEF ScanInv, TypeOK, ScanAssumption
<1>3. {scan.found[i].net : i \in DOMAIN scan.found} = {b.net : b \in heard}
  BY <1>1 DEF Listed, Evident
<1>4. ASSUME NEW i \in DOMAIN scan.found
      PROVE  /\ scan.found[i].lqi = Max(Signals(scan.found[i].net))
             /\ scan.found[i].open <=> \E b \in heard : b.net = scan.found[i].net /\ b.open
  <2> DEFINE n == scan.found[i].net
             s == scan.found[i].lqi
  <2>1. ASSUME NEW h \in heard, h.net = n
        PROVE  s >= h.lqi /\ (h.open => scan.found[i].open)
    <3>1. PICK j \in DOMAIN scan.found : scan.found[j].net = h.net /\ scan.found[j].lqi >= h.lqi
                                         /\ (h.open => scan.found[j].open)
      BY <1>1 DEF Listed
    <3>2. j = i
      BY <1>1, <2>1, <3>1 DEF Distinct
    <3> QED
      BY <3>1, <3>2
  <2>2. s \in Signals(n) /\ Signals(n) \subseteq Nat /\ \A t \in Signals(n) : s >= t
    BY <1>1, <1>2, <2>1 DEF Signals, Evident
  <2>3. Max(Signals(n)) = s
    <3> HIDE DEF n, s
    <3>1. \A t \in Signals(n) : (\A u \in Signals(n) : t >= u) => t = s
      BY <2>2
    <3> QED
      BY <2>2, <3>1 DEF Max
  <2> QED
    BY <1>1, <2>1, <2>3 DEF Evident
<1> QED
  BY <1>1, <1>3, <1>4 DEF Distinct

\* ScanNetworks tells what was heard, whatever was heard when.
THEOREM FoundIsHeardHolds == ScanSpec => []FoundIsHeard
<1>1. ScanInv => FoundIsHeard
  BY ListedIsHeard, ScanAssumption
<1> QED
  BY <1>1, ScanInductive, PTL

(***************************************************************************)
(* Scan: what `network join` joins                                         *)
(***************************************************************************)
Qualifying == {n \in Networks : Qualifies(n)}

\* The entries chooseNetwork considers stand for the networks that qualify, one each.
LEMMA Considered ==
    ASSUME ScanAssumption, ScanInv, scan.pc = "ok"
    PROVE  LET open == OpenOnes(scan.found, cmd.panID) IN
           /\ IsFiniteSet(open)
           /\ Cardinality(Qualifying) = Cardinality(open)
           /\ Qualifying = {scan.found[i].net : i \in open}
<1> DEFINE open == OpenOnes(scan.found, cmd.panID)
           f == [i \in open |-> scan.found[i].net]
<1>1. scan.found \in Seq(FoundNetwork)
  BY DEF ScanInv, TypeOK, ScanType
<1>2. \A i \in DOMAIN scan.found : scan.found[i].net \in Networks
  <2>1. \A i \in DOMAIN scan.found : scan.found[i] \in FoundNetwork
    BY <1>1
  <2> QED
    BY <2>1 DEF FoundNetwork
<1>3. IsFiniteSet(open)
  <2>1. open \subseteq 1..Len(scan.found) /\ Len(scan.found) \in Nat
    BY <1>1 DEF OpenOnes
  <2>2. IsFiniteSet(1..Len(scan.found))
    BY <2>1, FS_Interval
  <2> HIDE DEF open
  <2> QED
    BY <2>1, <2>2, FS_Subset
<1>4. FoundIsHeard
  BY ListedIsHeard
<1>5. \A i, j \in open : scan.found[i].net = scan.found[j].net => i = j
  BY <1>4 DEF FoundIsHeard, OpenOnes
<1>6. Qualifying = {scan.found[i].net : i \in open}
  <2>1. ASSUME NEW i \in open PROVE scan.found[i].net \in Qualifying
    <3>1. i \in DOMAIN scan.found /\ scan.found[i].open /\ Matching(scan.found[i].net, cmd.panID)
      BY <2>1 DEF OpenOnes
    <3>2. \E b \in heard : b.net = scan.found[i].net /\ b.open
      BY <1>4, <3>1 DEF FoundIsHeard
    <3> QED
      BY <1>2, <3>1, <3>2 DEF Qualifying, Qualifies, Matching
  <2>2. ASSUME NEW n \in Qualifying PROVE \E i \in open : scan.found[i].net = n
    <3>1. PICK b \in heard : b.net = n /\ b.open
      BY <2>2 DEF Qualifying, Qualifies
    <3>2. b.net \in {scan.found[i].net : i \in DOMAIN scan.found}
      BY <1>4 DEF FoundIsHeard
    <3>3. PICK i \in DOMAIN scan.found : scan.found[i].net = n
      BY <3>1, <3>2
    <3>4. scan.found[i].open
      BY <1>4, <3>1, <3>3 DEF FoundIsHeard
    <3>5. Matching(n, cmd.panID)
      BY <2>2 DEF Qualifying, Qualifies, Matching
    <3> QED
      BY <3>3, <3>4, <3>5 DEF OpenOnes
  <2> HIDE DEF open
  <2> QED
    BY <2>1, <2>2
<1> HIDE DEF open
<1>7. f \in Surjection(open, Qualifying)
  BY <1>6 DEF Surjection
<1>8. f \in Injection(open, Qualifying)
  BY <1>5, <1>6 DEF Injection, IsInjective
<1>9. Cardinality(Qualifying) = Cardinality(open)
  BY <1>3, <1>7, <1>8, FS_Surjection
<1> QED
  BY <1>3, <1>6, <1>9 DEF open

\* While the scan is under way the command waits for it; a join that has been issued,
\* or refused for what was heard, was decided when the scan was over.
JoinInv ==
    /\ scan.pc \in {"starting", "wait"} => cmd.pc = "scan"
    /\ issued.op = "join" => scan.pc = "ok" /\ Qualifying = {issued.net}
    /\ JoinIsForced

\* The choice keeps what is known of a join.
LEMMA ChooseDecides == ASSUME ScanAssumption, ScanInv, JoinInv, Choose PROVE JoinInv'
<1> DEFINE open == OpenOnes(scan.found, cmd.panID)
<1>1. /\ scan.pc = "ok" /\ UNCHANGED <<scan, radio>>
      /\ \E at \in {"done", "refused"} : Goto(at)
  BY DEF Choose
<1>2. cmd'.panID = cmd.panID /\ cmd'.name = cmd.name /\ cmd'.pc \in {"done", "refused"}
  BY <1>1, Going DEF ScanInv, TypeOK
<1>3. Qualifying' = Qualifying
  BY <1>1, <1>2 DEF Qualifying, Qualifies, radio
<1>4. /\ IsFiniteSet(open) /\ Cardinality(Qualifying) = Cardinality(open)
      /\ Qualifying = {scan.found[i].net : i \in open}
  BY <1>1, Considered
<1>5. chooseNetwork(scan.found, cmd.panID) = IF Cardinality(open) = 1 THEN Qualifying ELSE {}
  BY <1>4 DEF chooseNetwork
<1> HIDE DEF open
<1>6. Cardinality(Qualifying) = 1 => \E n : Qualifying = {n}
  <2>1. SUFFICES ASSUME Cardinality(open) = 1 PROVE \E n : Qualifying = {n}
    BY <1>4
  <2>2. PICK i : open = {i}
    BY <1>4, <2>1, FS_Singleton
  <2> QED
    BY <1>4, <2>2
<1>7. cmd.name = "join" /\ cmd'.pc = "refused" => Cardinality(Qualifying) # 1
  <2> SUFFICES ASSUME cmd.name = "join", cmd'.pc = "refused", Cardinality(Qualifying) = 1 PROVE FALSE
    OBVIOUS
  <2>1. chooseNetwork(scan.found, cmd.panID) = Qualifying /\ Qualifying # {}
    BY <1>4, <1>5, <1>6
  <2>2. ~Goto("done")
    <3>1. Goto("done") => cmd'.pc = "done"
      BY Going DEF ScanInv, TypeOK
    <3> QED
      BY <3>1
  <2> QED
    BY <2>1, <2>2 DEF Choose
<1>8. issued'.op = "join" => Qualifying = {issued'.net}
  <2>1. CASE UNCHANGED issued
    BY <2>1 DEF JoinInv
  <2>2. CASE ~UNCHANGED issued
    <3>1. PICK n \in chooseNetwork(scan.found, cmd.panID) : issued' = [op |-> "join", net |-> n]
      BY <2>2 DEF Choose
    <3> QED
      BY <1>4, <1>5, <1>6, <3>1
  <2> QED
    BY <2>1, <2>2
<1> QED
  BY <1>1, <1>2, <1>3, <1>7, <1>8 DEF JoinInv, JoinIsForced, Qualifying

\* Every step keeps what is known of a join.
LEMMA StepJoin == ASSUME ScanAssumption, ScanInv, JoinInv, [ScanNext]_scanVars PROVE JoinInv'
<1>t. cmd \in CommandType /\ scan \in ScanType
  BY DEF ScanInv, TypeOK
<1>1. CASE UNCHANGED scanVars
  BY <1>1 DEF scanVars, JoinInv, JoinIsForced, Qualifying, Qualifies
<1>2. CASE Choose
  BY <1>2, ChooseDecides
<1>3. CASE Dial \/ State \/ StateFails \/ ScanFailed
  <2>1. /\ UNCHANGED <<issued, scan, radio>> /\ cmd.pc \in {"dial", "state", "scan"}
        /\ cmd.pc = "scan" => scan.pc = "error"
        /\ \E at : Goto(at)
    BY <1>3, <1>t DEF Dial, State, StateFails, ScanFailed, CommandType
  <2>2. scan.pc \in {"idle", "error"}
    BY <2>1 DEF ScanInv, CommandInv
  <2>3. cmd'.panID = cmd.panID /\ cmd'.name = cmd.name
    BY <1>t, <2>1, Going
  <2> QED
    BY <2>1, <2>2, <2>3 DEF JoinInv, JoinIsForced
<1>4. CASE Operate
  <2>1. /\ UNCHANGED <<scan, radio>> /\ cmd.pc = "operate" /\ Goto("done")
        /\ issued' = [op |-> cmd.name, net |-> Absent] /\ cmd.name \in {"form", "leave"}
    BY <1>4 DEF Operate, ScanInv, CommandInv
  <2>2. scan.pc \notin {"starting", "wait"}
    BY <2>1 DEF JoinInv
  <2>3. cmd'.pc = "done" /\ issued'.op # "join"
    BY <1>t, <2>1, Going
  <2> QED
    BY <2>1, <2>2, <2>3 DEF JoinInv, JoinIsForced
<1>5. CASE Listen
  <2>1. UNCHANGED <<cmd, issued, radio>> /\ cmd.pc = "scan" /\ scan.pc = "idle" /\ scan'.pc = "starting"
    BY <1>5, <1>t DEF Listen, ScanType
  <2> QED
    BY <2>1 DEF JoinInv, JoinIsForced
<1>6. CASE Started \/ StartFails \/ TakeBeacon \/ TakeEnd \/ Timeout
  <2>1. UNCHANGED <<cmd, issued, radio>> /\ scan.pc \in {"starting", "wait"}
    BY <1>6 DEF Started, StartFails, TakeBeacon, TakeEnd, Timeout
  <2>2. cmd.pc = "scan" /\ issued.op # "join"
    BY <2>1 DEF JoinInv
  <2> QED
    BY <2>1, <2>2 DEF JoinInv, JoinIsForced
<1>7. ASSUME \/ Sweep \/ AdapterChanges
             \/ \E b \in FoundNetwork : Beacon(b)
             \/ \E kind \in {"complete", "failed", "malformed"} : SweepEnds(kind)
      PROVE  JoinInv'
  <2>1. UNCHANGED <<cmd, issued>>
    BY <1>7 DEF Sweep, AdapterChanges, Beacon, SweepEnds
  <2>2. scan'.pc = scan.pc
    BY <1>7, <1>t DEF Sweep, AdapterChanges, Beacon, SweepEnds, RouteBeacon, ScanType
  <2>3. scan.pc = "ok" => heard' = heard
    BY <1>7 DEF Sweep, AdapterChanges, Beacon, SweepEnds, ScanInv, OrderInv
  <2>4. scan.pc = "ok" => Qualifying' = Qualifying
    BY <2>1, <2>3 DEF Qualifying, Qualifies
  <2> QED
    BY <2>1, <2>2, <2>4 DEF JoinInv, JoinIsForced, Qualifying
<1> QED
  BY <1>1, <1>2, <1>3, <1>4, <1>5, <1>6, <1>7 DEF ScanNext

\* `network join` joins only where the radio heard exactly one network that qualifies, and
\* refuses only where it did not.
THEOREM JoinIsForcedHolds == ScanSpec => []JoinIsForced
<1>1. ScanInit => JoinInv
  BY DEF ScanInit, Commands, Nothing, JoinInv, JoinIsForced
<1>2. ScanInv /\ JoinInv /\ [ScanNext]_scanVars => JoinInv'
  BY StepJoin, ScanAssumption
<1>3. JoinInv => JoinIsForced
  BY DEF JoinInv
<1> QED
  BY <1>1, <1>2, <1>3, ScanInductive, PTL DEF ScanSpec

-----------------------------------------------------------------------------
(***************************************************************************)
(* The adapter: types                                                      *)
(***************************************************************************)
OpenOps == {"version", "setConfig", "getConfig", "addEndpoint", "networkState", "networkInit"}
SetupOps == {"form", "join"}
Ops ==
    OpenOps \cup SetupOps \cup {"security", "extended", "parameters", "leave", "setPolicy",
                               "getPolicy", "transient", "permit"}
Statuses == {"up", "down", "failed", "opened", "closed"}
Values ==
    Stack \cup Versions \cup Statuses \cup
    {"ok", "refused", "right", "wrong", "notJoined", "allows", "denies"}

CallId == [kind: {"none", "form", "join"}, n: Nat]
Holding == [net: CallId, keys: CallId]
Argument == CallId \cup Config \cup Versions \cup {"", "0", "1", "60", "trustCenter", "keyRequest"}
Request == [op: Ops, no: Nat, arg: Argument, layout: Versions]
WireMessage == [kind: {"reply", "status"}, no: Nat, val: Values]
Adapter ==
    [tokens: Holding, stack: Stack, target: Holding, agreed: Versions \cup {"unset"},
     config: SUBSET (Preset \cup Config), endpoint: BOOLEAN, policy: BOOLEAN,
     window: BOOLEAN, keys: CallId]

NetworkTypeOK ==
    /\ no \in Nat /\ version \in Versions /\ item \in Nat /\ calls \in Nat
    /\ call \in CallId /\ seen \in {"none", "joining", "leaving"}
    /\ opening \in BOOLEAN /\ rebooted \in BOOLEAN
    /\ up \in Seq(Values)
    /\ request \in Seq(Request) /\ wire \in Seq(WireMessage)
    /\ ncp \in Adapter

-----------------------------------------------------------------------------
(***************************************************************************)
(* The adapter: the inductive invariant                                    *)
(***************************************************************************)
Opening == {"version", "confirm", "config", "configRead", "endpoint", "endpointState", "init"}
Working == {"security", "extended", "command", "await", "readBack"}
Places ==
    Opening \cup Working \cup {"closed", "idle", "restore", "check", "leave", "permitCheck",
                               "trustCenter", "keyRequest", "policyRead", "transient", "permit"}

Queued(ops) == \E x \in Range(request) : x.op \in ops
Answered(v) == Reply(no, v) \in Range(wire)
Deaf == ncp.agreed = "unset"

\* Commands and answers keep their order on the line: an answer on its way is to an
\* earlier command than every command that is still to be carried out.
Increasing(q) == \A i, j \in 1..Len(q) : i < j => q[i].no < q[j].no

Lined ==
    /\ Increasing(request)
    /\ \A x \in Range(request) : x.no <= no
    /\ \A m \in Range(wire) : m.kind = "reply" =>
          m.no <= no /\ \A x \in Range(request) : m.no < x.no

\* The command an operation waits for is the one it says.
Current ==
    \A x \in Range(request) : x.no = no =>
        /\ pc \in {"version", "confirm"} => x.op = "version"
        /\ pc = "config" => x.op = "setConfig" /\ x.arg = requiredConfig[item]
        /\ pc = "configRead" => x.op = "getConfig" /\ x.arg = requiredConfig[item]
        /\ pc = "endpoint" => x.op = "addEndpoint"
        /\ pc = "init" => x.op = "networkInit"
        /\ pc = "check" => x.op = "networkState"
        /\ pc = "security" => x.op = "security"
        /\ pc = "command" => x.op \in SetupOps
        /\ pc = "policyRead" => x.op = "getPolicy"

\* Which commands may still be on their way, wherever the host is by now.
Queue ==
    /\ pc \in Places
    /\ pc \in Opening \/ Queued({"networkInit"}) => \A x \in Range(request) : x.op \in OpenOps
    /\ Queued({"version"}) \/ pc \in {"version", "confirm"} =>
          /\ pc \in {"version", "confirm", "closed"}
          /\ \A x \in Range(request) : x.op = "version"
    /\ Queued({"networkInit"}) => pc \in {"init", "closed"}
    /\ pc \in Working => \A x \in Range(request) :
          /\ x.op \in {"security", "extended", "form", "join", "parameters"}
          /\ x.op \in {"security", "form", "join"} => x.arg = call
    /\ \A x, y \in Range(request) :
          {x.op, y.op} \subseteq SetupOps \cup {"networkInit"} => x = y
    /\ pc \in {"security", "extended"} => ~Queued(SetupOps)
    /\ pc = "extended" => call.kind = "join"
    /\ \A x \in Range(request) :
          /\ x.op = "version" => x.arg = version
          /\ x.op \in {"security", "form", "join"} => x.arg \in CallId
          /\ x.op = "setConfig" => x.arg \in Config

\* The NCP and the host agree on the layout of what follows the handshake.
Agreement ==
    /\ \A x \in Range(request) : x.op # "version" => x.layout = version
    /\ pc = "version" => version = Legacy
    /\ ~rebooted =>
          /\ pc \notin {"version", "confirm", "closed"} \/ (\E x \in Range(request) : x.op # "version")
                => ncp.agreed = version
          /\ pc \in {"version", "confirm"} /\ Answered(version) => ncp.agreed = version

Ready == Config \subseteq ncp.config /\ ncp.endpoint

\* What has been prepared when, as long as the NCP listens to anything but version.
Prepared ==
    /\ ncp.stack # "none" => Ready
    /\ ncp.window => ncp.policy
    /\ pc \in {"version", "confirm"} => item = 1
    /\ pc \in {"config", "configRead"} => item \in 1..Len(requiredConfig)
    /\ ~Deaf =>
          /\ pc \in {"config", "configRead"} =>
                \A i \in 1..(item - 1) : requiredConfig[i] \in ncp.config
          /\ (pc = "config" /\ Answered("ok")) \/ (pc = "configRead" /\ Answered("right"))
                => requiredConfig[item] \in ncp.config
          /\ pc \in {"endpoint", "endpointState"} => Config \subseteq ncp.config
          /\ pc = "endpoint" /\ Answered("ok") => ncp.endpoint
          /\ pc \notin (Opening \cup {"closed"}) \ {"init"} \/ Queued({"networkInit"} \cup SetupOps)
                => Ready
          /\ \/ pc = "policyRead" /\ Answered("allows")
             \/ pc = "transient"
             \/ \E x \in Range(request) : x.op = "permit" /\ x.arg # "0"
             => ncp.policy

\* The stack is on the network the adapter stores, or on its way back onto it.
OnItsNetwork ==
    ncp.tokens # NoNetwork =>
        Joined(ncp.stack) \/ (ncp.stack = "joining" /\ ncp.target = ncp.tokens)

Restored ==
    /\ pc \in Opening \ {"init"} \/ Queued({"networkInit"}) => ncp.stack = "none"
    /\ pc = "init" /\ Answered("notJoined") => ncp.tokens = NoNetwork /\ ncp.stack = "none"
    /\ ~rebooted /\ replaced = {} /\ pc = "init" /\ Answered("ok") => OnItsNetwork
    /\ ~rebooted /\ replaced = {} /\ pc \notin Opening \cup {"closed"} => OnItsNetwork

\* What a call found is still so when its command is carried out.
StillAs(s) ==
    /\ s = "none" => ncp.stack = "none"
    /\ s = "leaving" => ncp.stack \in {"none", "leaving"}

Found ==
    /\ replaced \subseteq {"joining"}
    /\ pc = "check" => \A s \in {"none", "leaving"} : Answered(s) => StillAs(s)
    /\ pc \in {"security", "extended"} \/ Queued(SetupOps) => StillAs(seen)

\* A call that found no network, from there to its result.
IsUp(m) == m.kind = "status" /\ m.val = "up"
Own == [net |-> call, keys |-> call]

NoUpAfter(w, m) == \A i, j \in 1..Len(w) : i < j /\ w[i] = m => ~IsUp(w[j])

Answering ==
    /\ pc = "check" => NoUpAfter(wire, Reply(no, "none"))
    /\ pc \in Working /\ seen = "none" =>
          /\ ncp.stack # "leaving"
          /\ ncp.stack # "none" => ncp.target = Own
          /\ Joined(ncp.stack) => ncp.tokens = Own
          /\ \A m \in Range(wire) : IsUp(m) =>
                ncp.tokens = Own /\ pc \notin {"security", "extended"}
          /\ pc \in {"command", "await"} /\ "up" \in Range(up) => ncp.tokens = Own
          /\ pc = "readBack" => ncp.tokens = Own
          /\ ~Deaf /\ (\/ pc = "security" /\ Answered("ok")
                       \/ pc = "extended" \/ Queued(SetupOps)) => ncp.keys = call
    /\ ResultIsHeld

IInv ==
    /\ NetworkTypeOK /\ Lined /\ Current /\ Queue /\ Agreement
    /\ Prepared /\ Restored /\ Found /\ Answering

USE NetworkAssumption DEF NetworkAssumption

-----------------------------------------------------------------------------
(***************************************************************************)
(* Sequences                                                               *)
(***************************************************************************)
\* What an element at the end adds to a sequence.
LEMMA Appended ==
    ASSUME NEW S, NEW s \in Seq(S), NEW x \in S
    PROVE  /\ Append(s, x) \in Seq(S) /\ Len(Append(s, x)) = Len(s) + 1 /\ Len(s) \in Nat
           /\ \A i \in 1..Len(s) + 1 : Append(s, x)[i] = IF i = Len(s) + 1 THEN x ELSE s[i]
           /\ Range(Append(s, x)) = Range(s) \cup {x}
           /\ s \o <<x>> = Append(s, x)
<1>1. /\ Append(s, x) \in Seq(S) /\ DOMAIN Append(s, x) = 1..Len(s) + 1 /\ Len(s) \in Nat
      /\ DOMAIN s = 1..Len(s) /\ Len(Append(s, x)) = Len(s) + 1
      /\ \A i \in 1..Len(s) + 1 : Append(s, x)[i] = IF i = Len(s) + 1 THEN x ELSE s[i]
      /\ s \o <<x>> = Append(s, x)
  OBVIOUS
<1>2. ASSUME NEW i \in 1..Len(s) PROVE i \in 1..Len(s) + 1 /\ i # Len(s) + 1
  BY <1>1
<1>3. Len(s) + 1 \in 1..Len(s) + 1 /\ \A i \in 1..Len(s) + 1 : i \in 1..Len(s) \/ i = Len(s) + 1
  BY <1>1
<1>4. Range(Append(s, x)) = {Append(s, x)[i] : i \in 1..Len(s) + 1} /\ Range(s) = {s[i] : i \in 1..Len(s)}
  BY <1>1 DEF Range
<1>5. Range(Append(s, x)) \subseteq Range(s) \cup {x}
  BY <1>1, <1>3, <1>4
<1>6. Range(s) \cup {x} \subseteq Range(Append(s, x))
  BY <1>1, <1>2, <1>3, <1>4
<1> QED
  BY <1>1, <1>5, <1>6

\* What is left of a sequence without its head.
LEMMA Tailed ==
    ASSUME NEW S, NEW s \in Seq(S), s # <<>>
    PROVE  /\ Tail(s) \in Seq(S) /\ Len(Tail(s)) = Len(s) - 1 /\ Len(s) \in Nat \ {0}
           /\ Head(s) = s[1] /\ Head(s) \in S
           /\ \A i \in 1..Len(s) - 1 : Tail(s)[i] = s[i + 1] /\ i + 1 \in 1..Len(s)
           /\ Head(s) \in Range(s) /\ Range(s) = Range(Tail(s)) \cup {Head(s)}
           /\ Range(Tail(s)) = {Tail(s)[i] : i \in 1..Len(s) - 1}
<1>1. /\ Tail(s) \in Seq(S) /\ DOMAIN s = 1..Len(s) /\ Len(s) \in Nat \ {0}
      /\ Len(Tail(s)) = Len(s) - 1 /\ DOMAIN Tail(s) = 1..Len(s) - 1
      /\ Head(s) = s[1] /\ Head(s) \in S /\ 1 \in 1..Len(s)
      /\ \A i \in 1..Len(s) - 1 : Tail(s)[i] = s[i + 1] /\ i + 1 \in 1..Len(s)
  OBVIOUS
<1>2. \A i \in 1..Len(s) : i = 1 \/ (i - 1 \in 1..Len(s) - 1 /\ Tail(s)[i - 1] = s[i])
  BY <1>1
<1>3. Range(Tail(s)) = {Tail(s)[i] : i \in 1..Len(s) - 1} /\ Range(s) = {s[i] : i \in 1..Len(s)}
  BY <1>1 DEF Range
<1>4. Range(Tail(s)) \cup {Head(s)} \subseteq Range(s)
  BY <1>1, <1>3
<1>5. Range(s) \subseteq Range(Tail(s)) \cup {Head(s)}
  <2>1. ASSUME NEW i \in 1..Len(s) PROVE s[i] \in Range(Tail(s)) \cup {Head(s)}
    <3>1. CASE i = 1
      BY <1>1, <3>1
    <3>2. CASE i - 1 \in 1..Len(s) - 1 /\ Tail(s)[i - 1] = s[i]
      BY <1>3, <3>2
    <3> QED
      BY <1>2, <3>1, <3>2
  <2> QED
    BY <1>3, <2>1
<1> QED
  BY <1>1, <1>3, <1>4, <1>5

\* The elements of a sequence are of its type.
LEMMA Elements == ASSUME NEW S, NEW s \in Seq(S) PROVE Range(s) \subseteq S /\ (s = <<>> <=> Range(s) = {})
<1>1. DOMAIN s = 1..Len(s) /\ Len(s) \in Nat /\ \A i \in 1..Len(s) : s[i] \in S
  OBVIOUS
<1>2. s # <<>> => 1 \in 1..Len(s)
  OBVIOUS
<1>3. s = <<>> => 1..Len(s) = {}
  OBVIOUS
<1> QED
  BY <1>1, <1>2, <1>3 DEF Range

\* Commands behind the first one were issued later, and go on being in order.
LEMMA FirstOut ==
    ASSUME NEW q \in Seq(Request), q # <<>>, Increasing(q)
    PROVE  Increasing(Tail(q)) /\ \A x \in Range(Tail(q)) : Head(q).no < x.no
<1> DEFINE t == Tail(q)
<1>1. /\ t \in Seq(Request) /\ Len(t) = Len(q) - 1 /\ Len(q) \in Nat \ {0} /\ Head(q) = q[1]
      /\ \A i \in 1..Len(q) - 1 : t[i] = q[i + 1] /\ i + 1 \in 1..Len(q)
  BY Tailed
<1>2. Range(t) = {t[i] : i \in 1..Len(q) - 1}
  BY Tailed
<1> HIDE DEF t
<1>3. \A i \in 1..Len(q) - 1 : q[1].no < q[i + 1].no
  BY <1>1 DEF Increasing
<1>4. \A i, j \in 1..Len(q) - 1 : i < j => q[i + 1].no < q[j + 1].no
  BY <1>1 DEF Increasing
<1>5. Increasing(t)
  BY <1>1, <1>4 DEF Increasing
<1> QED
  BY <1>1, <1>2, <1>3, <1>5 DEF t

\* A queue of growing numbers stays one when a greater number joins it.
LEMMA LastIn ==
    ASSUME NEW q \in Seq(Request), Increasing(q), NEW x \in Request, \A y \in Range(q) : y.no < x.no
    PROVE  Increasing(Append(q, x))
<1> DEFINE a == Append(q, x)
<1>1. /\ Len(a) = Len(q) + 1 /\ Len(q) \in Nat
      /\ \A i \in 1..Len(q) + 1 : a[i] = IF i = Len(q) + 1 THEN x ELSE q[i]
  BY Appended
<1>2. \A i \in 1..Len(q) : q[i].no < x.no
  BY DEF Range
<1> HIDE DEF a
<1>3. ASSUME NEW i \in 1..Len(a), NEW j \in 1..Len(a), i < j PROVE a[i].no < a[j].no
  <2>1. i \in 1..Len(q) /\ a[i] = q[i] /\ (j = Len(q) + 1 \/ j \in 1..Len(q))
    BY <1>1, <1>3
  <2>2. CASE j = Len(q) + 1
    BY <1>1, <1>2, <2>1, <2>2
  <2>3. CASE j \in 1..Len(q)
    BY <1>1, <1>3, <2>1, <2>3 DEF Increasing
  <2> QED
    BY <2>1, <2>2, <2>3
<1> QED
  BY <1>3 DEF Increasing, a

\* No "up" follows an answer in a queue, and none comes to follow it.
LEMMA UpTail ==
    ASSUME NEW w \in Seq(WireMessage), w # <<>>, NEW m, NoUpAfter(w, m)
    PROVE  NoUpAfter(Tail(w), m) /\ (Head(w) = m => \A x \in Range(Tail(w)) : ~IsUp(x))
<1> DEFINE t == Tail(w)
<1>1. /\ Len(t) = Len(w) - 1 /\ Len(w) \in Nat \ {0} /\ Head(w) = w[1] /\ t \in Seq(WireMessage)
      /\ \A i \in 1..Len(w) - 1 : t[i] = w[i + 1] /\ i + 1 \in 1..Len(w)
  BY Tailed
<1>2. Range(t) = {t[i] : i \in 1..Len(w) - 1}
  BY Tailed
<1> HIDE DEF t
<1>3. ASSUME NEW i \in 1..Len(w) - 1, w[1] = m PROVE ~IsUp(w[i + 1])
  <2>1. PICK b \in 1..Len(w) : b = i + 1 /\ 1 < b /\ 1 \in 1..Len(w)
    BY <1>1
  <2>2. ~IsUp(w[b])
    BY <1>3, <2>1 DEF NoUpAfter
  <2> QED
    BY <2>1, <2>2
<1>4. ASSUME NEW i \in 1..Len(w) - 1, NEW j \in 1..Len(w) - 1, i < j, w[i + 1] = m
      PROVE  ~IsUp(w[j + 1])
  <2>1. PICK a \in 1..Len(w), b \in 1..Len(w) : a = i + 1 /\ b = j + 1
    BY <1>1
  <2>2. a < b /\ w[a] = m
    BY <1>4, <2>1
  <2>3. ~IsUp(w[b])
    BY <2>2 DEF NoUpAfter
  <2> QED
    BY <2>1, <2>3
<1>5. NoUpAfter(t, m)
  BY <1>1, <1>4 DEF NoUpAfter
<1> QED
  BY <1>1, <1>2, <1>3, <1>5 DEF t

\* After m there is still no "up" when what joins the line is none, or m is not on it.
LEMMA UpAppend ==
    ASSUME NEW w \in Seq(WireMessage), NEW x \in WireMessage, NEW m, NoUpAfter(w, m), ~IsUp(x) \/ m \notin Range(w)
    PROVE  NoUpAfter(Append(w, x), m)
<1> DEFINE a == Append(w, x)
<1>1. /\ Len(a) = Len(w) + 1 /\ Len(w) \in Nat
      /\ \A i \in 1..Len(w) + 1 : a[i] = IF i = Len(w) + 1 THEN x ELSE w[i]
  BY Appended
<1>2. \A i \in 1..Len(w) : w[i] \in Range(w)
  BY DEF Range
<1> HIDE DEF a
<1>3. ASSUME NEW i \in 1..Len(a), NEW j \in 1..Len(a), i < j, a[i] = m PROVE ~IsUp(a[j])
  <2>1. i \in 1..Len(w) /\ a[i] = w[i] /\ (j = Len(w) + 1 \/ j \in 1..Len(w))
    BY <1>1, <1>3
  <2>2. CASE j = Len(w) + 1
    BY <1>1, <1>2, <1>3, <2>1, <2>2
  <2>3. CASE j \in 1..Len(w)
    BY <1>1, <1>3, <2>1, <2>3 DEF NoUpAfter
  <2> QED
    BY <2>1, <2>2, <2>3
<1> QED
  BY <1>3 DEF NoUpAfter, a

-----------------------------------------------------------------------------
(***************************************************************************)
(* What the host's and the NCP's steps do to the line                      *)
(***************************************************************************)
\* What every answer changes.
LEMMA AnswerShape ==
    ASSUME IInv, NEW step, NEW vals, Answer(step, vals)
    PROVE  /\ pc = step /\ wire' \in Seq(WireMessage) /\ Range(wire') \subseteq Range(wire)
           /\ \/ "error" \in vals
              \/ \E v \in vals : /\ Answered(v) /\ Range(request) = {}
                                 /\ NoUpAfter(wire, Reply(no, v)) => \A m \in Range(wire') : ~IsUp(m)
<1>1. wire \in Seq(WireMessage) /\ Lined
  BY DEF IInv, NetworkTypeOK
<1>2. CASE UNCHANGED wire /\ "error" \in vals
  BY <1>1, <1>2 DEF Answer
<1>3. CASE wire # <<>> /\ (\E v \in vals : Head(wire) = Reply(no, v)) /\ wire' = Tail(wire)
  <2>1. PICK v \in vals : Head(wire) = Reply(no, v)
    BY <1>3
  <2>2. /\ Tail(wire) \in Seq(WireMessage) /\ Head(wire) \in Range(wire)
        /\ Range(Tail(wire)) \subseteq Range(wire)
    BY <1>1, <1>3, Tailed
  <2>3. Answered(v)
    BY <2>1, <2>2 DEF Answered
  <2>4. ASSUME NEW x \in Range(request) PROVE FALSE
    <3>1. x.no <= no /\ no < x.no
      BY <1>1, <2>1, <2>2 DEF Lined, Reply
    <3>2. request \in Seq(Request) /\ no \in Nat
      BY DEF IInv, NetworkTypeOK
    <3>3. x \in Request
      BY <3>2, Elements
    <3> QED
      BY <3>1, <3>2, <3>3 DEF Request
  <2>5. NoUpAfter(wire, Reply(no, v)) => \A m \in Range(wire') : ~IsUp(m)
    BY <1>1, <1>3, <2>1, UpTail
  <2> QED
    BY <1>3, <2>2, <2>3, <2>4, <2>5 DEF Answer
<1> QED
  BY <1>2, <1>3 DEF Answer

\* What every command that is sent changes.
LEMMA AskShape ==
    ASSUME IInv, NEW step, NEW op \in Ops, NEW arg \in Argument, version' \in Versions,
           Ask(step, op, arg), wire' \in Seq(WireMessage), Range(wire') \subseteq Range(wire)
    PROVE  /\ pc' = step /\ no' = no + 1 /\ no' \in Nat /\ request' \in Seq(Request) /\ Lined'
           /\ Range(request') = Range(request) \cup
                                   {[op |-> op, no |-> no + 1, arg |-> arg, layout |-> version']}
           /\ \A x \in Range(request) : x.no # no'
           /\ \A v : ~Answered(v)'
<1> DEFINE x == [op |-> op, no |-> no + 1, arg |-> arg, layout |-> version']
<1>1. request \in Seq(Request) /\ wire \in Seq(WireMessage) /\ no \in Nat /\ Lined
  BY DEF IInv, NetworkTypeOK
<1>2. pc' = step /\ no' = no + 1 /\ no' \in Nat /\ request' = Append(request, x)
  BY <1>1 DEF Ask
<1>3. x \in Request /\ x.no = no + 1
  BY <1>1 DEF Request
<1> HIDE DEF x
<1>4. request' \in Seq(Request) /\ Range(request') = Range(request) \cup {x}
  BY <1>1, <1>2, <1>3, Appended
<1>5. \A y \in Range(request) : y.no \in Nat /\ y.no <= no /\ y.no < x.no /\ y.no # no'
  <2>1. \A y \in Range(request) : y \in Request
    BY <1>1, Elements
  <2> QED
    BY <1>1, <1>2, <1>3, <2>1 DEF Lined, Request
<1>6. \A m \in Range(wire') : m.kind = "reply" =>
         m.no \in Nat /\ m.no <= no /\ m.no < no' /\ \A y \in Range(request) : m.no < y.no
  <2>1. \A m \in Range(wire) : m \in WireMessage
    BY <1>1, Elements
  <2> QED
    BY <1>1, <1>2, <2>1 DEF Lined, WireMessage
<1>7. Increasing(request')
  BY <1>1, <1>2, <1>3, <1>5, LastIn DEF Lined
<1>8. Lined'
  BY <1>1, <1>2, <1>3, <1>4, <1>5, <1>6, <1>7 DEF Lined
<1>9. ASSUME NEW v, Answered(v)' PROVE FALSE
  <2>1. Reply(no', v) \in Range(wire')
    BY <1>9 DEF Answered
  <2> QED
    BY <1>2, <1>6, <2>1 DEF Reply
<1> QED
  BY <1>2, <1>4, <1>5, <1>8, <1>9 DEF x

\* The first command leaves the queue.
LEMMA LeaveShape ==
    ASSUME NetworkTypeOK, Lined, request # <<>>, request' = Tail(request)
    PROVE  /\ request' \in Seq(Request) /\ Increasing(request')
           /\ Head(request) \in Range(request) /\ Head(request) \in Request
           /\ Range(request) = Range(request') \cup {Head(request)}
           /\ \A x \in Range(request') : Head(request).no < x.no
           /\ \A x \in Range(request) : x \in Request
<1>1. request \in Seq(Request) /\ Increasing(request)
  BY DEF NetworkTypeOK, Lined
<1> QED
  BY <1>1, Tailed, FirstOut, Elements

\* What the NCP may announce with an answer.
Announced == {<<>>, <<Status("opened")>>, <<Status("closed")>>}

\* An answer and perhaps a status are put on the line.
LEMMA ServeShape ==
    ASSUME NetworkTypeOK, Lined, NEW op, NEW new, NEW val \in Values,
           NEW statuses \in Announced, Serve(op, new, val, statuses)
    PROVE  /\ ncp' = new /\ Head(request).op = op /\ Head(request) \in Range(request)
           /\ op # "version" => ncp.agreed = Head(request).layout /\ ~Deaf
           /\ Head(request) \in Request /\ request' \in Seq(Request) /\ wire' \in Seq(WireMessage)
           /\ Range(request) = Range(request') \cup {Head(request)}
           /\ \A x \in Range(request') : Head(request).no < x.no
           /\ Lined'
           /\ \A m \in Range(wire') : IsUp(m) => m \in Range(wire)
           /\ \A v : Answered(v)' => Head(request).no = no /\ v = val /\ Range(request') = {}
           /\ \A m : NoUpAfter(wire, m) => NoUpAfter(wire', m)
<1>0. PICK status \in {"opened", "closed"} : statuses \in {<<>>, <<Status(status)>>}
  BY DEF Announced
<1> DEFINE h == Head(request)
           r == Reply(h.no, val)
           mid == wire \o statuses
<1>1. /\ request' \in Seq(Request) /\ Increasing(request')
      /\ h \in Range(request) /\ h \in Request
      /\ Range(request) = Range(request') \cup {h}
      /\ \A x \in Range(request') : h.no < x.no
      /\ \A x \in Range(request) : x \in Request
  BY LeaveShape DEF Serve
<1>2. /\ wire \in Seq(WireMessage) /\ no \in Nat /\ r \in WireMessage /\ ~IsUp(r)
      /\ Status(status) \in WireMessage /\ ~IsUp(Status(status))
      /\ \A m \in Range(wire) : m \in WireMessage
  <2>1. wire \in Seq(WireMessage) /\ no \in Nat /\ h.no \in Nat
    BY <1>1 DEF NetworkTypeOK, Request
  <2>2. r \in WireMessage /\ Status(status) \in WireMessage
    BY <2>1 DEF WireMessage, Reply, Status, Values, Statuses
  <2>3. ~IsUp(r) /\ ~IsUp(Status(status))
    BY DEF Reply, Status, IsUp
  <2> QED
    BY <2>1, <2>2, <2>3, Elements
<1>3. /\ mid \in Seq(WireMessage) /\ wire' = Append(mid, r) /\ Range(mid) \subseteq Range(wire) \cup {Status(status)}
      /\ \A m : NoUpAfter(wire, m) => NoUpAfter(mid, m)
  <2>1. CASE statuses = <<>>
    <3>1. mid = wire
      BY <1>2, <2>1
    <3> QED
      BY <1>2, <3>1, Appended DEF Serve
  <2>2. CASE statuses = <<Status(status)>>
    <3>1. mid = Append(wire, Status(status))
      BY <1>2, <2>2, Appended
    <3>2. mid \in Seq(WireMessage) /\ Range(mid) = Range(wire) \cup {Status(status)}
      BY <1>2, <3>1, Appended
    <3> QED
      BY <1>2, <3>1, <3>2, Appended, UpAppend DEF Serve
  <2> QED
    BY <1>0, <2>1, <2>2
<1> HIDE DEF mid
<1>4. wire' \in Seq(WireMessage) /\ Range(wire') \subseteq Range(wire) \cup {Status(status), r}
  BY <1>2, <1>3, Appended
<1>5. \A m : NoUpAfter(wire, m) => NoUpAfter(wire', m)
  BY <1>2, <1>3, UpAppend
<1>6. \A x \in Range(request) : x.no \in Nat /\ x.no <= no /\
         \A m \in Range(wire) : m.kind = "reply" => m.no < x.no
  BY <1>1 DEF Lined, Request
<1>7. Status(status).kind # "reply" /\ r.kind = "reply" /\ r.no = h.no /\ r.val = val
  BY DEF Status, Reply
<1>8. no' = no /\ ncp' = new /\ h.op = op /\ (op # "version" => ncp.agreed = h.layout)
  BY DEF Serve
<1>9. op # "version" => ~Deaf
  BY <1>1, <1>8 DEF Deaf, Request
<1>10. Lined'
  <2>1. \A m \in Range(wire') : m.kind = "reply" =>
           m.no <= no /\ \A x \in Range(request') : m.no < x.no
    <3> SUFFICES ASSUME NEW m \in Range(wire'), m.kind = "reply"
                 PROVE  m.no <= no /\ \A x \in Range(request') : m.no < x.no
      OBVIOUS
    <3>1. CASE m \in Range(wire)
      BY <1>1, <3>1 DEF Lined
    <3>2. CASE m = r
      BY <1>1, <1>6, <1>7, <3>2
    <3> QED
      BY <1>4, <1>7, <3>1, <3>2
  <2> QED
    BY <1>1, <1>6, <1>8, <2>1 DEF Lined
<1>11. ASSUME NEW v, Answered(v)' PROVE h.no = no /\ v = val /\ Range(request') = {}
  <2>1. Reply(no, v) \in Range(wire') /\ Reply(no, v).kind = "reply" /\ Reply(no, v).no = no /\ Reply(no, v).val = v
    BY <1>8, <1>11 DEF Answered, Reply
  <2>2. Reply(no, v) \notin Range(wire)
    BY <1>1, <1>2, <1>6, <2>1
  <2>3. Reply(no, v) = r
    BY <1>4, <1>7, <2>1, <2>2
  <2>4. h.no = no /\ v = val
    BY <1>7, <2>1, <2>3
  <2>5. \A x \in Range(request') : FALSE
    BY <1>1, <1>2, <1>6, <2>4
  <2> QED
    BY <2>4, <2>5
<1>12. \A m \in Range(wire') : IsUp(m) => m \in Range(wire)
  BY <1>2, <1>4
<1> HIDE DEF h
<1> QED
  BY <1>1, <1>4, <1>5, <1>8, <1>9, <1>10, <1>11, <1>12 DEF h

\* What the queue allows, and what its commands are, does not change while it shrinks.
LEMMA Shrinks ==
    ASSUME IInv, UNCHANGED <<pc, no, hostVars>>, Range(request') \subseteq Range(request)
    PROVE  Current' /\ Queue'
<1>1. Current'
  BY DEF IInv, Current, hostVars
<1>2. \A o : Queued(o)' => Queued(o)
  BY DEF Queued
<1>3. Queue'
  BY <1>2 DEF IInv, Queue, hostVars
<1> QED
  BY <1>1, <1>3

\* What every command that the NCP carries out changes.
LEMMA Served ==
    ASSUME IInv, NEW op, NEW new \in Adapter, NEW val \in Values,
           NEW statuses \in Announced, Serve(op, new, val, statuses)
    PROVE  NetworkTypeOK' /\ Lined' /\ Current' /\ Queue'
<1>1. NetworkTypeOK /\ Lined
  BY DEF IInv
<1>2. /\ ncp' = new /\ request' \in Seq(Request) /\ wire' \in Seq(WireMessage) /\ Lined'
      /\ Range(request') \subseteq Range(request)
  BY <1>1, ServeShape
<1>3. UNCHANGED <<pc, no, hostVars, subVars, countVars, done>>
  BY DEF Serve
<1> QED
  BY <1>1, <1>2, <1>3, Shrinks DEF NetworkTypeOK, hostVars, subVars, countVars

\* The NCP answers and changes nothing: what the answer says is so.
LEMMA Answers ==
    ASSUME IInv, NEW op, op # "version", NEW val \in Values,
           Serve(op, ncp, val, <<>>), UNCHANGED replaced,
           op \in {"setConfig", "addEndpoint", "networkInit"} => val # "ok",
           op = "getConfig" /\ val = "right" => Head(request).arg \in ncp.config,
           op = "networkInit" /\ val = "notJoined" => ncp.tokens = NoNetwork,
           op = "networkState" => val = ncp.stack,
           op = "security" /\ val = "ok" => ncp.stack # "none",
           op = "getPolicy" /\ val = "allows" => ncp.policy
    PROVE  IInv'
<1> DEFINE h == Head(request)
<1>1. NetworkTypeOK /\ Lined /\ ncp \in Adapter
  BY DEF IInv, NetworkTypeOK
<1>2. NetworkTypeOK' /\ Lined' /\ Current' /\ Queue'
  <2>1. <<>> \in Announced
    BY DEF Announced
  <2> QED
    BY <1>1, <2>1, Served
<1>3. /\ h.op = op /\ h \in Range(request) /\ ~Deaf
      /\ Range(request') \subseteq Range(request)
      /\ \A m \in Range(wire') : IsUp(m) => m \in Range(wire)
      /\ \A v : Answered(v)' => h.no = no /\ v = val
      /\ \A m : NoUpAfter(wire, m) => NoUpAfter(wire', m)
  <2>1. <<>> \in Announced
    BY DEF Announced
  <2> QED
    BY <1>1, <2>1, ServeShape
<1>4. UNCHANGED <<pc, no, hostVars, subVars, countVars, done, ncp, replaced>>
  BY DEF Serve
<1> HIDE DEF h
<1>5. \A o : Queued(o)' => Queued(o)
  BY <1>3 DEF Queued
<1>6. Agreement'
  BY <1>3, <1>4 DEF IInv, Agreement, Current, hostVars, countVars
<1>7. Prepared'
  <2>1. /\ ~(pc = "config" /\ Answered("ok")') /\ ~(pc = "endpoint" /\ Answered("ok")')
        /\ pc = "configRead" /\ Answered("right")' => requiredConfig[item] \in ncp.config
        /\ pc = "policyRead" /\ Answered("allows")' => ncp.policy
    <3>1. h.no = no =>
             /\ pc = "config" => op = "setConfig"
             /\ pc = "configRead" => op = "getConfig" /\ h.arg = requiredConfig[item]
             /\ pc = "endpoint" => op = "addEndpoint"
             /\ pc = "policyRead" => op = "getPolicy"
      BY <1>3 DEF IInv, Current
    <3> QED
      BY <1>3, <3>1 DEF h
  <2>2. UNCHANGED <<pc, item, ncp>>
    BY <1>4 DEF hostVars
  <2>3. \A x \in Range(request') : x \in Range(request)
    BY <1>3
  <2> QED
    BY <2>1, <2>2, <2>3, <1>3, <1>5 DEF IInv, Prepared, Ready, Deaf
<1>8. Restored'
  <2>1. pc = "init" /\ h.no = no => op = "networkInit" /\ ncp.stack = "none"
    BY <1>3 DEF IInv, Restored, Current, Queued
  <2> QED
    BY <1>3, <1>4, <1>5, <2>1 DEF IInv, Restored, countVars, OnItsNetwork
<1>9. Found'
  <2>1. pc = "check" /\ h.no = no => val = ncp.stack
    BY <1>3 DEF IInv, Current
  <2> QED
    BY <1>3, <1>4, <1>5, <2>1 DEF IInv, Found, hostVars, StillAs
<1>10. Answering'
  <2>1. pc = "security" /\ h.no = no /\ val = "ok" => seen # "none"
    BY <1>3 DEF IInv, Current, Found, StillAs
  <2> QED
    BY <1>3, <1>4, <1>5, <2>1 DEF IInv, Answering, hostVars, subVars, Own, ResultIsHeld, Deaf
<1> QED
  BY <1>2, <1>6, <1>7, <1>8, <1>9, <1>10 DEF IInv

\* What every command that is carried out does.
LEMMA Serves ==
    ASSUME IInv, NEW op, NEW new \in Adapter, NEW val \in Values,
           NEW statuses \in Announced, Serve(op, new, val, statuses)
    PROVE  /\ NetworkTypeOK' /\ Lined' /\ Current' /\ Queue'
           /\ ncp' = new /\ UNCHANGED <<pc, no, hostVars, subVars, countVars, done>>
           /\ Head(request).op = op /\ Head(request) \in Range(request)
           /\ op # "version" => ~Deaf
           /\ Range(request') \subseteq Range(request) /\ Head(request) \notin Range(request')
           /\ \A m \in Range(wire') : IsUp(m) => m \in Range(wire)
           /\ \A v : Answered(v)' => Head(request).no = no /\ v = val
           /\ \A m : NoUpAfter(wire, m) => NoUpAfter(wire', m)
           /\ \A o : Queued(o)' => Queued(o)
<1>1. NetworkTypeOK /\ Lined
  BY DEF IInv
<1>2. \A x \in Range(request') : Head(request).no < x.no
  BY <1>1, ServeShape
<1>3. Head(request).no \in Nat
  BY <1>1, ServeShape DEF Request
<1>4. Head(request) \notin Range(request')
  BY <1>2, <1>3
<1>5. Range(request') \subseteq Range(request)
  BY <1>1, ServeShape
<1>6. \A o : Queued(o)' => Queued(o)
  BY <1>5 DEF Queued
<1>7. UNCHANGED <<pc, no, hostVars, subVars, countVars, done>>
  BY DEF Serve
<1> QED
  BY <1>1, <1>4, <1>5, <1>6, <1>7, ServeShape, Served

\* The version exchange keeps the invariant.
LEMMA VersionKeeps == ASSUME IInv, NcpVersion PROVE IInv'
<1>1. PICK v \in Versions :
         Serve("version", [ncp EXCEPT !.agreed = IF Arg = v THEN v ELSE "unset"], v, <<>>)
  BY DEF NcpVersion
<1> DEFINE new == [ncp EXCEPT !.agreed = IF Arg = v THEN v ELSE "unset"]
<1>2. /\ new \in Adapter /\ new.agreed = (IF Arg = v THEN v ELSE "unset")
      /\ new.stack = ncp.stack /\ new.config = ncp.config /\ new.endpoint = ncp.endpoint
      /\ new.window = ncp.window /\ new.policy = ncp.policy
  BY DEF IInv, NetworkTypeOK, Adapter
<1>3. v \in Values /\ <<>> \in Announced
  BY DEF Values, Announced
<1> HIDE DEF new
<1>4. Serve("version", new, v, <<>>)
  BY <1>1 DEF new
<1>5. /\ NetworkTypeOK' /\ Lined' /\ Current' /\ Queue'
      /\ ncp' = new /\ UNCHANGED <<pc, no, hostVars, subVars, countVars, done>>
      /\ Head(request).op = "version" /\ Head(request) \in Range(request)
      /\ Range(request') \subseteq Range(request)
      /\ \A w : Answered(w)' => w = v
  BY <1>2, <1>3, <1>4, Serves
<1>6. /\ pc \in {"version", "confirm", "closed"} /\ Arg = version
      /\ \A x \in Range(request') : x.op = "version"
  BY <1>5 DEF IInv, Queue, Queued, Arg
<1>7. UNCHANGED <<pc, item, version, replaced, done>>
  BY <1>5, NcpVersion DEF hostVars, NcpVersion
<1>8. Agreement'
  BY <1>2, <1>5, <1>6, <1>7 DEF IInv, Agreement
<1>9. \A o : "version" \notin o => ~Queued(o)'
  BY <1>6 DEF Queued
<1>10. Prepared'
  BY <1>2, <1>5, <1>6, <1>7, <1>9 DEF IInv, Prepared, Opening, SetupOps, Ready
<1>11. Restored' /\ Found' /\ Answering'
  BY <1>2, <1>5, <1>6, <1>7, <1>9 DEF IInv, Restored, Found, Answering, Opening, Working, SetupOps, ResultIsHeld
<1> QED
  BY <1>5, <1>8, <1>10, <1>11 DEF IInv

\* Configuration and endpoints keep the invariant.
LEMMA SetConfigKeeps ==
    ASSUME IInv, UNCHANGED replaced,
           \/ Serve("setConfig", [ncp EXCEPT !.config = @ \cup {Arg}], "ok", <<>>)
           \/ Serve("addEndpoint", [ncp EXCEPT !.endpoint = TRUE], "ok", <<>>)
    PROVE  IInv'
<1> DEFINE new == ncp'
<1>0. request # <<>> /\ Head(request).op \in {"setConfig", "addEndpoint"}
  BY DEF Serve
<1>1. Head(request) \in Range(request)
  BY <1>0, Tailed DEF IInv, NetworkTypeOK
<1>2. Head(request).op = "setConfig" => Arg \in Config
  BY <1>1 DEF IInv, Queue, Arg
<1>3. PICK op \in {"setConfig", "addEndpoint"} :
         /\ Serve(op, new, "ok", <<>>) /\ new \in Adapter
         /\ new = [ncp EXCEPT !.config = new.config, !.endpoint = new.endpoint]
         /\ ncp.config \subseteq new.config /\ (ncp.endpoint => new.endpoint)
         /\ op = "setConfig" => Arg \in new.config
         /\ op = "addEndpoint" => new.endpoint
  <2>1. ncp \in Adapter
    BY DEF IInv, NetworkTypeOK
  <2>2. CASE Serve("setConfig", [ncp EXCEPT !.config = @ \cup {Arg}], "ok", <<>>)
    <3>1. new = [ncp EXCEPT !.config = @ \cup {Arg}] /\ Head(request).op = "setConfig"
      BY <2>2 DEF Serve
    <3>2. /\ new \in Adapter /\ new.config = ncp.config \cup {Arg} /\ new.endpoint = ncp.endpoint
          /\ new = [ncp EXCEPT !.config = new.config, !.endpoint = new.endpoint]
      BY <1>2, <2>1, <3>1 DEF Adapter
    <3> QED
      BY <2>2, <3>1, <3>2
  <2>3. CASE Serve("addEndpoint", [ncp EXCEPT !.endpoint = TRUE], "ok", <<>>)
    <3>1. new = [ncp EXCEPT !.endpoint = TRUE]
      BY <2>3 DEF Serve
    <3>2. /\ new \in Adapter /\ new.config = ncp.config /\ new.endpoint
          /\ new = [ncp EXCEPT !.config = new.config, !.endpoint = new.endpoint]
      BY <2>1, <3>1 DEF Adapter
    <3> QED
      BY <2>3, <3>1, <3>2
  <2> QED
    BY <2>2, <2>3
<1>4. /\ new.tokens = ncp.tokens /\ new.stack = ncp.stack /\ new.target = ncp.target
      /\ new.agreed = ncp.agreed /\ new.policy = ncp.policy /\ new.window = ncp.window
      /\ new.keys = ncp.keys
  BY <1>3 DEF IInv, NetworkTypeOK, Adapter
<1>5. "ok" \in Values /\ <<>> \in Announced
  BY DEF Values, Announced
<1>6. /\ NetworkTypeOK' /\ Lined' /\ Current' /\ Queue'
      /\ UNCHANGED <<pc, no, hostVars, subVars, countVars, done>>
      /\ Head(request).op = op
      /\ Range(request') \subseteq Range(request)
      /\ \A m \in Range(wire') : IsUp(m) => m \in Range(wire)
      /\ \A v : Answered(v)' => Head(request).no = no /\ v = "ok"
      /\ \A m : NoUpAfter(wire, m) => NoUpAfter(wire', m)
      /\ \A o : Queued(o)' => Queued(o)
  BY <1>3, <1>5, Serves
<1>7. UNCHANGED <<pc, no, version, item, call, seen, sub, up, rebooted, done>>
  BY <1>6 DEF hostVars, subVars, countVars
<1>8. Head(request).no = no =>
         /\ pc = "config" => op = "setConfig" /\ Arg = requiredConfig[item]
         /\ pc = "endpoint" => op = "addEndpoint"
         /\ pc \notin {"version", "confirm", "configRead", "init", "check", "security", "policyRead"}
  BY <1>1, <1>3, <1>6 DEF IInv, Current, Arg, SetupOps
<1> HIDE DEF new
<1>9. Agreement'
  BY <1>4, <1>6, <1>7, <1>8 DEF IInv, Agreement, new
<1>10. Prepared'
  BY <1>3, <1>4, <1>6, <1>7, <1>8 DEF IInv, Prepared, Deaf, Ready, new
<1>11. Restored'
  BY <1>4, <1>6, <1>7, <1>8 DEF IInv, Restored, OnItsNetwork, new
<1>12. Found'
  BY <1>4, <1>6, <1>7, <1>8 DEF IInv, Found, StillAs, new
<1>13. Answering'
  BY <1>4, <1>6, <1>7, <1>8 DEF IInv, Answering, Own, Deaf, ResultIsHeld, new
<1> QED
  BY <1>6, <1>9, <1>10, <1>11, <1>12, <1>13 DEF IInv

\* The stack starts on the stored network.
LEMMA RestoreKeeps ==
    ASSUME IInv, UNCHANGED replaced, ncp.tokens # NoNetwork, ncp.stack = "none",
           Serve("networkInit", [ncp EXCEPT !.stack = "joining", !.target = ncp.tokens], "ok", <<>>)
    PROVE  IInv'
<1> DEFINE new == [ncp EXCEPT !.stack = "joining", !.target = ncp.tokens]
<1>1. /\ new \in Adapter /\ new.stack = "joining" /\ new.target = ncp.tokens
      /\ new.tokens = ncp.tokens /\ new.config = ncp.config /\ new.endpoint = ncp.endpoint
      /\ new.agreed = ncp.agreed /\ new.policy = ncp.policy /\ new.window = ncp.window
  BY DEF IInv, NetworkTypeOK, Adapter, Stack
<1>2. "ok" \in Values /\ <<>> \in Announced
      /\ "networkInit" # "version"
  BY DEF Values, Announced
<1> HIDE DEF new
<1>3. Serve("networkInit", new, "ok", <<>>)
  BY DEF new
<1>4. /\ NetworkTypeOK' /\ Lined' /\ Current' /\ Queue'
      /\ ncp' = new /\ UNCHANGED <<pc, no, hostVars, subVars, countVars, done>>
      /\ Head(request).op = "networkInit" /\ Head(request) \in Range(request) /\ ~Deaf
      /\ Range(request') \subseteq Range(request) /\ Head(request) \notin Range(request')
      /\ \A v : Answered(v)' => v = "ok"
      /\ \A o : Queued(o)' => Queued(o)
  BY <1>1, <1>2, <1>3, Serves
<1>5. Queued({"networkInit"}) /\ pc \in {"init", "closed"} /\ \A x \in Range(request) : x.op \in OpenOps
  BY <1>4 DEF IInv, Queue, Queued
<1>6. UNCHANGED <<pc, version, item, rebooted, done>>
  BY <1>4 DEF hostVars, countVars
<1>7. ~Queued({"networkInit"})' /\ ~Queued(SetupOps)
  BY <1>4, <1>5 DEF IInv, Queue, Queued, OpenOps, SetupOps
<1>8. ~Queued({"networkInit"} \cup SetupOps)' /\ ~Queued(SetupOps)' /\ Queued({"networkInit"} \cup SetupOps)
  BY <1>4, <1>5, <1>7 DEF Queued
<1>9. Agreement'
  BY <1>1, <1>4, <1>5, <1>6 DEF IInv, Agreement
<1>10. Prepared'
  BY <1>1, <1>4, <1>5, <1>6, <1>8 DEF IInv, Prepared, Ready, Deaf
<1>11. Restored'
  BY <1>1, <1>4, <1>5, <1>6, <1>7 DEF IInv, Restored, OnItsNetwork, Opening
<1>12. Found' /\ Answering'
  BY <1>4, <1>5, <1>6, <1>8 DEF IInv, Found, Answering, Working, ResultIsHeld
<1> QED
  BY <1>4, <1>9, <1>10, <1>11, <1>12 DEF IInv

\* The keys of a call are installed.
LEMMA KeysKeep ==
    ASSUME IInv, UNCHANGED replaced, ncp.stack = "none",
           Serve("security", [ncp EXCEPT !.keys = Arg], "ok", <<>>)
    PROVE  IInv'
<1> DEFINE new == [ncp EXCEPT !.keys = Arg]
<1>0. request # <<>> /\ Head(request).op = "security"
  BY DEF Serve
<1>1. Head(request) \in Range(request)
  BY <1>0, Tailed DEF IInv, NetworkTypeOK
<1>2. Arg \in CallId /\ (pc \in Working => Arg = call)
  BY <1>0, <1>1 DEF IInv, Queue, Arg
<1>3. /\ new \in Adapter /\ new.stack = ncp.stack /\ new.target = ncp.target /\ new.keys = Arg
      /\ new.tokens = ncp.tokens /\ new.config = ncp.config /\ new.endpoint = ncp.endpoint
      /\ new.agreed = ncp.agreed /\ new.policy = ncp.policy /\ new.window = ncp.window
  BY <1>2 DEF IInv, NetworkTypeOK, Adapter
<1>4. "ok" \in Values /\ <<>> \in Announced
  BY DEF Values, Announced
<1> HIDE DEF new
<1>5. Serve("security", new, "ok", <<>>)
  BY DEF new
<1>6. /\ NetworkTypeOK' /\ Lined' /\ Current' /\ Queue'
      /\ ncp' = new /\ UNCHANGED <<pc, no, hostVars, subVars, countVars, done>>
      /\ Range(request') \subseteq Range(request)
      /\ \A m \in Range(wire') : IsUp(m) => m \in Range(wire)
      /\ \A v : Answered(v)' => Head(request).no = no /\ v = "ok"
      /\ \A m : NoUpAfter(wire, m) => NoUpAfter(wire', m)
      /\ \A o : Queued(o)' => Queued(o)
  BY <1>3, <1>4, <1>5, Serves
<1>7. UNCHANGED <<pc, no, version, item, call, seen, sub, up, rebooted, done>>
  BY <1>6 DEF hostVars, subVars, countVars
<1>8. Head(request).no = no =>
         pc \notin {"version", "confirm", "config", "configRead", "endpoint", "init", "check", "policyRead"}
  BY <1>0, <1>1 DEF IInv, Current
<1>9. Agreement'
  BY <1>3, <1>6, <1>7, <1>8 DEF IInv, Agreement
<1>10. Prepared'
  BY <1>3, <1>6, <1>7, <1>8 DEF IInv, Prepared, Ready, Deaf
<1>11. Restored'
  BY <1>3, <1>6, <1>7, <1>8 DEF IInv, Restored, OnItsNetwork
<1>12. Found'
  BY <1>3, <1>6, <1>7, <1>8 DEF IInv, Found, StillAs
<1>13. Answering'
  BY <1>2, <1>3, <1>6, <1>7, <1>8 DEF IInv, Answering, Own, Deaf, ResultIsHeld, Working
<1> QED
  BY <1>6, <1>9, <1>10, <1>11, <1>12, <1>13 DEF IInv

\* The stack takes up a new network, and gives up the one it is on.
LEMMA CommandKeeps ==
    ASSUME IInv, NEW kind \in SetupOps, ncp.stack = "none" \/ Joined(ncp.stack),
           Serve(kind, [ncp EXCEPT !.stack = "joining", !.window = FALSE,
                                   !.target = [net |-> Arg, keys |-> ncp.keys]], "ok", <<>>),
           replaced' = IF Joined(ncp.stack) THEN replaced \cup {seen} ELSE replaced
    PROVE  IInv'
<1> DEFINE new == [ncp EXCEPT !.stack = "joining", !.window = FALSE,
                              !.target = [net |-> Arg, keys |-> ncp.keys]]
<1>0. request # <<>> /\ Head(request).op \in SetupOps
  BY DEF Serve
<1>1. Head(request) \in Range(request) /\ Queued(SetupOps)
  BY <1>0, Tailed DEF IInv, NetworkTypeOK, Queued
<1>2. Arg \in CallId /\ (pc \in Working => Arg = call)
  BY <1>0, <1>1 DEF IInv, Queue, Arg, SetupOps
<1>3. /\ new \in Adapter /\ new.stack = "joining" /\ ~new.window
      /\ new.target = [net |-> Arg, keys |-> ncp.keys]
      /\ new.tokens = ncp.tokens /\ new.config = ncp.config /\ new.endpoint = ncp.endpoint
      /\ new.agreed = ncp.agreed /\ new.policy = ncp.policy /\ new.keys = ncp.keys
  BY <1>2 DEF IInv, NetworkTypeOK, Adapter, Stack, Holding
<1>4. "ok" \in Values /\ <<>> \in Announced
      /\ kind # "version"
  BY DEF Values, SetupOps, Announced
<1> HIDE DEF new
<1>5. Serve(kind, new, "ok", <<>>)
  BY DEF new
<1>6. /\ NetworkTypeOK' /\ Lined' /\ Current' /\ Queue'
      /\ ncp' = new /\ UNCHANGED <<pc, no, hostVars, subVars, countVars, done>> /\ ~Deaf
      /\ Range(request') \subseteq Range(request) /\ Head(request) \notin Range(request')
      /\ \A m \in Range(wire') : IsUp(m) => m \in Range(wire)
      /\ \A v : Answered(v)' => Head(request).no = no /\ v = "ok"
      /\ \A m : NoUpAfter(wire, m) => NoUpAfter(wire', m)
      /\ \A o : Queued(o)' => Queued(o)
  BY <1>3, <1>4, <1>5, Serves
<1>7. UNCHANGED <<pc, no, version, item, call, seen, sub, up, rebooted, done>>
  BY <1>6 DEF hostVars, subVars, countVars
<1>8. pc \notin Opening \cup {"security", "extended"} /\ ~Queued({"networkInit"}) /\ ~Queued({"version"})
  BY <1>0, <1>1 DEF IInv, Queue, Queued, OpenOps, SetupOps
<1>9. ~Queued(SetupOps)'
  BY <1>0, <1>1, <1>6 DEF IInv, Queue, Queued
<1>10. Head(request).no = no => pc \notin {"check", "policyRead"}
  BY <1>0, <1>1 DEF IInv, Current, SetupOps
<1>11. StillAs(seen) /\ Ready /\ (seen \in {"none", "joining", "leaving"})
  BY <1>1, <1>6 DEF IInv, Found, Prepared, NetworkTypeOK, Queued
<1>12. Agreement'
  BY <1>3, <1>6, <1>7, <1>8 DEF IInv, Agreement, Opening
<1>13. Prepared'
  BY <1>3, <1>6, <1>7, <1>8, <1>10, <1>11 DEF IInv, Prepared, Ready, Deaf, Opening
<1>14. Restored'
  BY <1>3, <1>6, <1>7, <1>8 DEF IInv, Restored, OnItsNetwork, Joined, Opening
<1>15. Found'
  BY <1>6, <1>7, <1>8, <1>9, <1>10, <1>11 DEF IInv, Found, StillAs, Joined
<1>16. Answering'
  <2>1. pc \in Working /\ seen = "none" => ncp.keys = call /\ Arg = call
    BY <1>1, <1>2, <1>6 DEF IInv, Answering
  <2> QED
    BY <1>3, <1>6, <1>7, <1>8, <1>9, <2>1 DEF IInv, Answering, Own, ResultIsHeld, Joined
<1> QED
  BY <1>6, <1>12, <1>13, <1>14, <1>15, <1>16 DEF IInv

\* Leaving keeps the invariant.
LEMMA LeaveKeeps ==
    ASSUME IInv, UNCHANGED replaced, Joined(ncp.stack),
           Serve("leave", [ncp EXCEPT !.stack = "leaving", !.window = FALSE,
                                      !.tokens = NoNetwork], "ok", <<>>)
    PROVE  IInv'
<1> DEFINE new == [ncp EXCEPT !.stack = "leaving", !.window = FALSE, !.tokens = NoNetwork]
<1>1. NoNetwork \in Holding
  BY DEF NoNetwork, NoCall, Holding, CallId
<1>2. /\ new \in Adapter /\ new.stack = "leaving" /\ ~new.window /\ new.tokens = NoNetwork
      /\ new.config = ncp.config /\ new.endpoint = ncp.endpoint
      /\ new.agreed = ncp.agreed /\ new.policy = ncp.policy
  BY <1>1 DEF IInv, NetworkTypeOK, Adapter, Stack
<1>3. "ok" \in Values /\ <<>> \in Announced
  BY DEF Values, Announced
<1> HIDE DEF new
<1>4. Serve("leave", new, "ok", <<>>)
  BY DEF new
<1>5. /\ NetworkTypeOK' /\ Lined' /\ Current' /\ Queue'
      /\ ncp' = new /\ UNCHANGED <<pc, no, hostVars, subVars, countVars, done>>
      /\ Head(request).op = "leave" /\ Head(request) \in Range(request)
      /\ Range(request') \subseteq Range(request)
      /\ \A v : Answered(v)' => Head(request).no = no /\ v = "ok"
      /\ \A m : NoUpAfter(wire, m) => NoUpAfter(wire', m)
      /\ \A o : Queued(o)' => Queued(o)
  BY <1>2, <1>3, <1>4, Serves
<1>6. UNCHANGED <<pc, no, version, item, call, seen, sub, up, rebooted, done>>
  BY <1>5 DEF hostVars, subVars, countVars
<1>7. Head(request).no = no =>
         pc \notin {"version", "confirm", "config", "configRead", "endpoint", "init", "check", "policyRead"}
  BY <1>5 DEF IInv, Current
<1>8. ncp.stack \notin {"none", "leaving", "joining"} /\ pc \notin Opening \cup Working
      /\ ~Queued({"networkInit"})
  BY <1>5 DEF IInv, Queue, Joined, OpenOps, Queued
<1>9. Agreement'
  BY <1>2, <1>5, <1>6, <1>7 DEF IInv, Agreement
<1>10. Prepared'
  BY <1>2, <1>5, <1>6, <1>7, <1>8 DEF IInv, Prepared, Ready, Deaf
<1>11. Restored'
  BY <1>2, <1>5, <1>6, <1>7, <1>8 DEF IInv, Restored, OnItsNetwork, Opening
<1>12. Found'
  BY <1>2, <1>5, <1>6, <1>7, <1>8 DEF IInv, Found, StillAs
<1>13. Answering'
  BY <1>5, <1>6, <1>8 DEF IInv, Answering, ResultIsHeld
<1> QED
  BY <1>5, <1>9, <1>10, <1>11, <1>12, <1>13 DEF IInv

\* Who may join, and whether devices are let in: the trust centre comes first.
LEMMA AdmissionKeeps ==
    ASSUME IInv, UNCHANGED replaced, NEW op \in {"setPolicy", "permit"}, NEW new \in Adapter,
           NEW statuses \in Announced,
           Serve(op, new, "ok", statuses),
           new = [ncp EXCEPT !.policy = new.policy, !.window = new.window],
           ncp.policy => new.policy, new.window => ncp.window \/ (op = "permit" /\ Arg # "0")
    PROVE  IInv'
<1>3. /\ new.tokens = ncp.tokens /\ new.stack = ncp.stack /\ new.target = ncp.target
      /\ new.agreed = ncp.agreed /\ new.config = ncp.config /\ new.endpoint = ncp.endpoint
      /\ new.keys = ncp.keys
  BY DEF IInv, NetworkTypeOK, Adapter
<1>4. "ok" \in Values /\ op # "version"
  BY DEF Values
<1>5. /\ NetworkTypeOK' /\ Lined' /\ Current' /\ Queue'
      /\ ncp' = new /\ UNCHANGED <<pc, no, hostVars, subVars, countVars, done>>
      /\ Head(request).op = op /\ Head(request) \in Range(request) /\ ~Deaf
      /\ Range(request') \subseteq Range(request)
      /\ \A m \in Range(wire') : IsUp(m) => m \in Range(wire)
      /\ \A v : Answered(v)' => Head(request).no = no /\ v = "ok"
      /\ \A m : NoUpAfter(wire, m) => NoUpAfter(wire', m)
      /\ \A o : Queued(o)' => Queued(o)
  BY <1>4, Serves
<1>6. UNCHANGED <<pc, no, version, item, call, seen, sub, up, rebooted, done>>
  BY <1>5 DEF hostVars, subVars, countVars
<1>7. Head(request).no = no =>
         pc \notin {"version", "confirm", "config", "configRead", "endpoint", "init", "check",
                    "security", "policyRead"}
  BY <1>5 DEF IInv, Current
<1>8. new.window => new.policy
  BY <1>5 DEF IInv, Prepared, Arg
<1>9. Agreement'
  BY <1>3, <1>5, <1>6, <1>7 DEF IInv, Agreement
<1>10. Prepared'
  BY <1>3, <1>5, <1>6, <1>7, <1>8 DEF IInv, Prepared, Deaf, Ready
<1>11. Restored'
  BY <1>3, <1>5, <1>6, <1>7 DEF IInv, Restored, OnItsNetwork
<1>12. Found'
  BY <1>3, <1>5, <1>6, <1>7 DEF IInv, Found, StillAs
<1>13. Answering'
  BY <1>3, <1>5, <1>6, <1>7 DEF IInv, Answering, Own, Deaf, ResultIsHeld
<1> QED
  BY <1>5, <1>9, <1>10, <1>11, <1>12, <1>13 DEF IInv

\* The policy and the window keep the invariant.
LEMMA PermitKeeps ==
    ASSUME IInv, UNCHANGED replaced,
           \/ Serve("setPolicy", [ncp EXCEPT !.policy = @ \/ Arg = "trustCenter"], "ok", <<>>)
           \/ Serve("permit", [ncp EXCEPT !.window = (Arg # "0")], "ok",
                    <<Status(IF Arg # "0" THEN "opened" ELSE "closed")>>)
    PROVE  IInv'
<1>1. ncp \in Adapter
  BY DEF IInv, NetworkTypeOK
<1>2. CASE Serve("setPolicy", [ncp EXCEPT !.policy = @ \/ Arg = "trustCenter"], "ok", <<>>)
  <2> DEFINE new == [ncp EXCEPT !.policy = @ \/ Arg = "trustCenter"]
  <2>1. /\ new \in Adapter /\ new.window = ncp.window /\ (ncp.policy => new.policy)
        /\ new = [ncp EXCEPT !.policy = new.policy, !.window = new.window]
    BY <1>1 DEF Adapter
  <2> HIDE DEF new
  <2>2. Serve("setPolicy", new, "ok", <<>>)
    BY <1>2 DEF new
  <2>3. <<>> \in Announced
    BY DEF Announced
  <2> QED
    BY <2>1, <2>2, <2>3, AdmissionKeeps
<1>3. CASE Serve("permit", [ncp EXCEPT !.window = (Arg # "0")], "ok",
                 <<Status(IF Arg # "0" THEN "opened" ELSE "closed")>>)
  <2> DEFINE new == [ncp EXCEPT !.window = (Arg # "0")]
             status == IF Arg # "0" THEN "opened" ELSE "closed"
  <2>1. /\ new \in Adapter /\ new.policy = ncp.policy /\ (new.window => Arg # "0")
        /\ new = [ncp EXCEPT !.policy = new.policy, !.window = new.window]
    BY <1>1 DEF Adapter
  <2>2. <<Status(status)>> \in Announced
    BY DEF Announced
  <2> HIDE DEF new, status
  <2>3. Serve("permit", new, "ok", <<Status(status)>>)
    BY <1>3 DEF new, status
  <2> QED
    BY <2>1, <2>2, <2>3, AdmissionKeeps
<1> QED
  BY <1>2, <1>3

-----------------------------------------------------------------------------
(***************************************************************************)
(* The stack's own steps, restarts and the read pump                       *)
(***************************************************************************)
\* What everything the NCP does by itself changes.
LEMMA HappensShape ==
    ASSUME IInv, NEW new \in Adapter, NEW status \in Statuses, Happens(new, status)
    PROVE  /\ NetworkTypeOK' /\ Lined' /\ Current' /\ Queue'
           /\ ncp' = new /\ UNCHANGED <<pc, no, hostVars, subVars, request, countVars, history>>
           /\ \A m \in Range(wire') : IsUp(m) => m \in Range(wire) \/ status = "up"
           /\ \A v : Answered(v)' <=> Answered(v)
           /\ \A m : NoUpAfter(wire, m) /\ (status # "up" \/ m \notin Range(wire)) => NoUpAfter(wire', m)
<1> DEFINE s == Status(status)
<1>1. /\ ncp' = new /\ wire' = Append(wire, s)
      /\ UNCHANGED <<pc, no, hostVars, subVars, request, countVars, history>>
  BY DEF Happens
<1>2. wire \in Seq(WireMessage) /\ s \in WireMessage /\ s.kind = "status" /\ (IsUp(s) => status = "up")
  BY DEF IInv, NetworkTypeOK, WireMessage, Status, Values, IsUp
<1>3. wire' \in Seq(WireMessage) /\ Range(wire') = Range(wire) \cup {s}
  BY <1>1, <1>2, Appended
<1>4. \A m : NoUpAfter(wire, m) /\ (status # "up" \/ m \notin Range(wire)) => NoUpAfter(wire', m)
  BY <1>1, <1>2, UpAppend
<1>5. \A v : Reply(no, v) # s
  BY <1>2 DEF Reply
<1>6. \A v : Answered(v)' <=> Answered(v)
  BY <1>1, <1>3, <1>5 DEF Answered
<1>7. Lined'
  BY <1>1, <1>2, <1>3 DEF IInv, Lined
<1>8. NetworkTypeOK'
  BY <1>1, <1>3 DEF IInv, NetworkTypeOK, hostVars, subVars, countVars
<1>9. Current' /\ Queue'
  BY <1>1, Shrinks
<1> QED
  BY <1>1, <1>2, <1>3, <1>4, <1>6, <1>7, <1>8, <1>9

\* The stack's own changes keep the invariant.
LEMMA StackKeeps == ASSUME IInv, NcpStack PROVE IInv'
<1>1. ncp \in Adapter
  BY DEF IInv, NetworkTypeOK
<1>2. PICK new \in Adapter, status \in Statuses :
         /\ Happens(new, status)
         /\ new.config = ncp.config /\ new.endpoint = ncp.endpoint /\ new.agreed = ncp.agreed
         /\ new.policy = ncp.policy /\ new.keys = ncp.keys /\ new.target = ncp.target
         /\ new.window => ncp.window
         /\ \/ /\ ncp.stack \in {"joining", "noParent"} /\ status = "up"
               /\ new.stack = "joined" /\ new.tokens = ncp.target
            \/ /\ ncp.stack = "joining" /\ status # "up" /\ new.tokens = ncp.tokens
               /\ new.stack = IF ncp.target = ncp.tokens THEN "noParent" ELSE "none"
            \/ /\ ncp.stack = "leaving" /\ status # "up" /\ new.tokens = ncp.tokens
               /\ new.stack = "none"
            \/ /\ status # "up" /\ new.tokens = ncp.tokens /\ new.stack = ncp.stack
  <2>1. CASE /\ ncp.stack \in {"joining", "noParent"}
             /\ Happens([ncp EXCEPT !.stack = "joined", !.tokens = ncp.target], "up")
    <3> DEFINE new == [ncp EXCEPT !.stack = "joined", !.tokens = ncp.target]
    <3>1. /\ new \in Adapter /\ new.stack = "joined" /\ new.tokens = ncp.target
          /\ new.config = ncp.config /\ new.endpoint = ncp.endpoint /\ new.agreed = ncp.agreed
          /\ new.policy = ncp.policy /\ new.keys = ncp.keys /\ new.target = ncp.target
          /\ new.window = ncp.window /\ "up" \in Statuses
      BY <1>1 DEF Adapter, Stack, Statuses
    <3> HIDE DEF new
    <3>2. Happens(new, "up")
      BY <2>1 DEF new
    <3> QED
      BY <2>1, <3>1, <3>2
  <2>2. CASE /\ ncp.stack = "joining" /\ ncp.target.net.kind = "join"
             /\ Happens([ncp EXCEPT !.stack = IF ncp.target = ncp.tokens THEN "noParent"
                                              ELSE "none"], "failed")
    BY <1>1, <2>2 DEF Adapter, Stack, Statuses
  <2>3. CASE ncp.stack = "leaving" /\ Happens([ncp EXCEPT !.stack = "none"], "down")
    BY <1>1, <2>3 DEF Adapter, Stack, Statuses
  <2>4. CASE ncp.window /\ Happens([ncp EXCEPT !.window = FALSE], "closed")
    <3> DEFINE new == [ncp EXCEPT !.window = FALSE]
    <3>1. /\ new \in Adapter /\ new.stack = ncp.stack /\ new.tokens = ncp.tokens
          /\ new.config = ncp.config /\ new.endpoint = ncp.endpoint /\ new.agreed = ncp.agreed
          /\ new.policy = ncp.policy /\ new.keys = ncp.keys /\ new.target = ncp.target
          /\ ~new.window /\ "closed" \in Statuses /\ "closed" # "up"
      BY <1>1 DEF Adapter, Statuses
    <3> HIDE DEF new
    <3>2. Happens(new, "closed")
      BY <2>4 DEF new
    <3> QED
      BY <3>1, <3>2
  <2> QED
    BY <2>1, <2>2, <2>3, <2>4 DEF NcpStack
<1>3. /\ NetworkTypeOK' /\ Lined' /\ Current' /\ Queue'
      /\ ncp' = new /\ UNCHANGED <<pc, no, hostVars, subVars, request, countVars, history>>
      /\ \A m \in Range(wire') : IsUp(m) => m \in Range(wire) \/ status = "up"
      /\ \A v : Answered(v)' <=> Answered(v)
      /\ \A m : NoUpAfter(wire, m) /\ (status # "up" \/ m \notin Range(wire)) => NoUpAfter(wire', m)
  BY <1>2, HappensShape
<1>4. UNCHANGED <<pc, no, version, item, call, seen, sub, up, request, rebooted, replaced, done>>
  BY <1>3 DEF hostVars, subVars, countVars, history
<1>5. \A o : Queued(o)' <=> Queued(o)
  BY <1>4 DEF Queued
<1>6. new.stack # "none" => ncp.stack # "none"
  BY <1>2
<1>7. Agreement'
  BY <1>2, <1>3, <1>4 DEF IInv, Agreement
<1>8. Prepared'
  BY <1>2, <1>3, <1>4, <1>5, <1>6 DEF IInv, Prepared, Deaf, Ready
<1>9. Restored'
  <2>1. OnItsNetwork => OnItsNetwork'
    BY <1>2, <1>3 DEF OnItsNetwork, Joined
  <2> QED
    BY <1>2, <1>3, <1>4, <1>5, <1>6, <2>1 DEF IInv, Restored
<1>10. Found'
  <2>1. \A s : StillAs(s) => StillAs(s)'
    BY <1>2, <1>3 DEF StillAs
  <2> QED
    BY <1>3, <1>4, <1>5, <2>1 DEF IInv, Found
<1>11. Answering'
  <2>1. pc = "check" => NoUpAfter(wire', Reply(no, "none"))
    <3>1. pc = "check" /\ status = "up" => Reply(no, "none") \notin Range(wire)
      BY <1>2 DEF IInv, Found, StillAs, Answered
    <3> QED
      BY <1>3, <3>1 DEF IInv, Answering
  <2>2. ASSUME pc \in Working, seen = "none"
        PROVE  /\ new.stack # "leaving" /\ (new.stack # "none" => new.target = Own)
               /\ Joined(new.stack) => new.tokens = Own
               /\ ncp.tokens = Own => new.tokens = Own
               /\ status = "up" => new.tokens = Own /\ pc \notin {"security", "extended"}
    BY <1>2, <2>2 DEF IInv, Answering, Found, StillAs, Joined
  <2> QED
    BY <1>2, <1>3, <1>4, <1>5, <2>1, <2>2 DEF IInv, Answering, Own, Deaf, ResultIsHeld
<1> QED
  BY <1>3, <1>7, <1>8, <1>9, <1>10, <1>11 DEF IInv

\* What a restart leaves of the NCP.
LEMMA BootShape ==
    ASSUME NEW n \in Adapter
    PROVE  /\ Boot(n) \in Adapter /\ Boot(n).stack = "none" /\ ~Boot(n).window
           /\ Boot(n).agreed = "unset" /\ Boot(n).tokens = n.tokens
<1>1. NoNetwork \in Holding /\ NoCall \in CallId
  BY DEF NoNetwork, NoCall, Holding, CallId
<1> QED
  BY <1>1 DEF Adapter, Boot, Stack

\* A restart of the NCP by itself keeps the invariant.
LEMMA RebootKeeps == ASSUME IInv, NcpReboot PROVE IInv'
<1>1. /\ ncp' \in Adapter /\ ncp'.stack = "none" /\ ~ncp'.window
      /\ ncp'.agreed = "unset" /\ ncp'.tokens = ncp.tokens
  BY BootShape DEF IInv, NetworkTypeOK, NcpReboot
<1>2. request' = <<>> /\ Range(request') = {}
  BY Elements DEF NcpReboot, Range
<1>3. UNCHANGED <<pc, no, version, item, call, seen, opening, sub, up, wire, calls, replaced, done>> /\ rebooted'
  BY DEF NcpReboot, hostVars, subVars, history
<1>4. NetworkTypeOK'
  BY <1>1, <1>2, <1>3 DEF IInv, NetworkTypeOK
<1>5. Lined'
  BY <1>2, <1>3 DEF IInv, Lined, Increasing
<1>6. Current' /\ Queue'
  BY <1>2, <1>3, Shrinks DEF hostVars
<1>7. ~ \E o : Queued(o)'
  BY <1>2 DEF Queued
<1>8. \A v : Answered(v)' <=> Answered(v)
  BY <1>3 DEF Answered
<1>9. Agreement'
  BY <1>2, <1>3 DEF IInv, Agreement
<1>10. Prepared'
  BY <1>1, <1>3 DEF IInv, Prepared, Deaf
<1>11. Restored'
  BY <1>1, <1>3, <1>7, <1>8 DEF IInv, Restored
<1>12. Found'
  BY <1>1, <1>3, <1>7, <1>8 DEF IInv, Found, StillAs
<1>13. Answering'
  BY <1>1, <1>3, <1>7 DEF IInv, Answering, Own, Deaf, Joined, ResultIsHeld
<1> QED
  BY <1>4, <1>5, <1>6, <1>9, <1>10, <1>11, <1>12, <1>13 DEF IInv

\* A command is lost.
LEMMA MissesKeep == ASSUME IInv, NcpMisses PROVE IInv'
<1>1. /\ request' \in Seq(Request) /\ Increasing(request') /\ Range(request') \subseteq Range(request)
  BY LeaveShape DEF IInv, NcpMisses
<1>2. UNCHANGED <<pc, no, version, item, call, seen, opening, sub, up, wire, ncp, calls, rebooted,
                  replaced, done>>
  BY DEF NcpMisses, hostVars, subVars, countVars, history
<1>3. NetworkTypeOK'
  BY <1>1, <1>2 DEF IInv, NetworkTypeOK
<1>4. Lined'
  BY <1>1, <1>2 DEF IInv, Lined
<1>5. Current' /\ Queue'
  BY <1>1, <1>2, Shrinks DEF hostVars
<1>6. \A o : Queued(o)' => Queued(o)
  BY <1>1 DEF Queued
<1>7. \A v : Answered(v)' <=> Answered(v)
  BY <1>2 DEF Answered
<1>8. Agreement'
  BY <1>1, <1>2, <1>7 DEF IInv, Agreement
<1>9. Prepared'
  BY <1>1, <1>2, <1>6, <1>7 DEF IInv, Prepared, Deaf, Ready
<1>10. Restored'
  BY <1>2, <1>6, <1>7 DEF IInv, Restored, OnItsNetwork
<1>11. Found'
  BY <1>2, <1>6, <1>7 DEF IInv, Found, StillAs
<1>12. Answering'
  BY <1>2, <1>6, <1>7 DEF IInv, Answering, Own, Deaf, ResultIsHeld
<1> QED
  BY <1>3, <1>4, <1>5, <1>8, <1>9, <1>10, <1>11, <1>12 DEF IInv

\* The read pump takes a message nobody waits for.
LEMMA RouteKeeps == ASSUME IInv, Route PROVE IInv'
<1> DEFINE m == Head(wire)
<1>1. wire \in Seq(WireMessage) /\ wire # <<>> /\ wire' = Tail(wire)
  BY DEF IInv, NetworkTypeOK, Route
<1>2. wire' \in Seq(WireMessage) /\ m \in WireMessage /\ m \in Range(wire) /\ Range(wire') \subseteq Range(wire)
  BY <1>1, Tailed
<1>3. UNCHANGED <<pc, no, version, item, call, seen, opening, sub, request, ncp, calls, rebooted,
                  replaced, done>>
  BY DEF Route, hostVars, countVars, history
<1>4. up' \in Seq(Values) /\ \A v \in Range(up') : v \in Range(up) \/ (m.kind = "status" /\ v = m.val)
  <2>1. up \in Seq(Values) /\ m.val \in Values
    BY <1>2 DEF IInv, NetworkTypeOK, WireMessage
  <2> QED
    BY <2>1, Appended DEF Route
<1> HIDE DEF m
<1>5. NetworkTypeOK'
  BY <1>2, <1>3, <1>4 DEF IInv, NetworkTypeOK
<1>6. Lined'
  BY <1>2, <1>3 DEF IInv, Lined
<1>7. Current' /\ Queue'
  BY <1>3, Shrinks DEF hostVars
<1>8. \A o : Queued(o)' <=> Queued(o)
  BY <1>3 DEF Queued
<1>9. \A v : Answered(v)' => Answered(v)
  BY <1>2, <1>3 DEF Answered
<1>10. Agreement'
  BY <1>3, <1>9 DEF IInv, Agreement
<1>11. Prepared'
  BY <1>3, <1>8, <1>9 DEF IInv, Prepared, Deaf, Ready
<1>12. Restored'
  BY <1>3, <1>8, <1>9 DEF IInv, Restored, OnItsNetwork
<1>13. Found'
  BY <1>3, <1>8, <1>9 DEF IInv, Found, StillAs
<1>14. Answering'
  <2>1. pc = "check" => NoUpAfter(wire', Reply(no, "none"))
    BY <1>1, UpTail DEF IInv, Answering
  <2>2. "up" \in Range(up') => "up" \in Range(up) \/ IsUp(m)
    BY <1>4 DEF IsUp
  <2> QED
    BY <1>2, <1>3, <1>8, <1>9, <2>1, <2>2 DEF IInv, Answering, Own, Deaf, ResultIsHeld
<1> QED
  BY <1>5, <1>6, <1>7, <1>10, <1>11, <1>12, <1>13, <1>14 DEF IInv

\* Every step of the NCP keeps the invariant.
LEMMA NcpKeeps == ASSUME IInv, NcpStep PROVE IInv'
<1>0. /\ {"ok", "refused", "right", "wrong", "notJoined", "allows", "denies"} \subseteq Values
      /\ ncp.stack \in Values
  BY DEF Values, IInv, NetworkTypeOK, Adapter
<1>1. CASE NcpConfig
  <2>1. CASE \/ ncp.stack = "none" /\ Serve("setConfig", [ncp EXCEPT !.config = @ \cup {Arg}], "ok", <<>>)
             \/ ncp.stack = "none" /\ Serve("addEndpoint", [ncp EXCEPT !.endpoint = TRUE], "ok", <<>>)
    BY <1>1, <2>1, SetConfigKeeps DEF NcpConfig
  <2>2. CASE Serve("setConfig", ncp, "refused", <<>>)
    BY <1>0, <1>1, <2>2, Answers DEF NcpConfig
  <2>3. CASE Serve("addEndpoint", ncp, "refused", <<>>)
    BY <1>0, <1>1, <2>3, Answers DEF NcpConfig
  <2>4. CASE Serve("getConfig", ncp, IF Arg \in ncp.config THEN "right" ELSE "wrong", <<>>)
    <3> DEFINE val == IF Arg \in ncp.config THEN "right" ELSE "wrong"
    <3>1. val \in Values /\ (val = "right" => Head(request).arg \in ncp.config)
      BY <1>0 DEF Arg
    <3> HIDE DEF val
    <3>2. Serve("getConfig", ncp, val, <<>>)
      BY <2>4 DEF val
    <3> QED
      BY <1>1, <3>1, <3>2, Answers DEF NcpConfig
  <2> QED
    BY <1>1, <2>1, <2>2, <2>3, <2>4 DEF NcpConfig
<1>2. CASE NcpInit
  <2>1. CASE ncp.tokens = NoNetwork /\ Serve("networkInit", ncp, "notJoined", <<>>)
    BY <1>0, <1>2, <2>1, Answers DEF NcpInit
  <2>2. CASE Serve("networkInit", ncp, "refused", <<>>)
    BY <1>0, <1>2, <2>2, Answers DEF NcpInit
  <2> QED
    BY <1>2, <2>1, <2>2, RestoreKeeps DEF NcpInit
<1>3. CASE NcpQuery
  <2>1. CASE Serve("networkState", ncp, ncp.stack, <<>>)
    BY <1>0, <1>3, <2>1, Answers DEF NcpQuery
  <2>2. CASE Serve("parameters", ncp, IF Joined(ncp.stack) THEN "ok" ELSE "refused", <<>>)
    <3> DEFINE val == IF Joined(ncp.stack) THEN "ok" ELSE "refused"
    <3>1. val \in Values
      BY <1>0
    <3> HIDE DEF val
    <3>2. Serve("parameters", ncp, val, <<>>)
      BY <2>2 DEF val
    <3> QED
      BY <1>3, <3>1, <3>2, Answers DEF NcpQuery
  <2> QED
    BY <1>3, <2>1, <2>2 DEF NcpQuery
<1>4. CASE NcpSecurity
  <2>1. CASE ncp.stack = "none" /\ Serve("security", [ncp EXCEPT !.keys = Arg], "ok", <<>>)
    BY <1>4, <2>1, KeysKeep DEF NcpSecurity
  <2>2. CASE ncp.stack # "none" /\ Serve("security", ncp, "ok", <<>>)
    BY <1>0, <1>4, <2>2, Answers DEF NcpSecurity
  <2>3. CASE Serve("security", ncp, "refused", <<>>)
    BY <1>0, <1>4, <2>3, Answers DEF NcpSecurity
  <2>4. CASE \E v \in {"ok", "refused"} : Serve("extended", ncp, v, <<>>)
    BY <1>0, <1>4, <2>4, Answers DEF NcpSecurity
  <2> QED
    BY <1>4, <2>1, <2>2, <2>3, <2>4 DEF NcpSecurity
<1>5. CASE NcpCommand
  <2>1. PICK kind \in SetupOps :
           \/ /\ ncp.stack = "none" \/ Joined(ncp.stack)
              /\ Serve(kind, [ncp EXCEPT !.stack = "joining", !.window = FALSE,
                                         !.target = [net |-> Arg, keys |-> ncp.keys]], "ok", <<>>)
              /\ replaced' = IF Joined(ncp.stack) THEN replaced \cup {seen} ELSE replaced
           \/ Serve(kind, ncp, "refused", <<>>) /\ UNCHANGED replaced
    BY <1>5 DEF NcpCommand, SetupOps
  <2>2. CASE Serve(kind, ncp, "refused", <<>>) /\ UNCHANGED replaced
    <3>1. /\ kind # "version" /\ kind \notin {"setConfig", "addEndpoint", "networkInit", "getConfig",
                                             "networkState", "security", "getPolicy"}
          /\ "refused" \in Values
      BY <1>0 DEF SetupOps
    <3> QED
      BY <2>2, <3>1, Answers
  <2> QED
    BY <2>1, <2>2, CommandKeeps
<1>6. CASE NcpLeave
  <2>1. CASE Serve("leave", ncp, "refused", <<>>)
    BY <1>0, <1>6, <2>1, Answers DEF NcpLeave
  <2> QED
    BY <1>6, <2>1, LeaveKeeps DEF NcpLeave
<1>7. CASE NcpPolicy
  <2>1. CASE \E v \in {"ok", "refused"} : Serve("setPolicy", ncp, v, <<>>)
    BY <1>0, <1>7, <2>1, Answers DEF NcpPolicy
  <2>2. CASE Serve("getPolicy", ncp, IF ncp.policy THEN "allows" ELSE "denies", <<>>)
    <3> DEFINE val == IF ncp.policy THEN "allows" ELSE "denies"
    <3>1. val \in Values /\ (val = "allows" => ncp.policy)
      BY <1>0
    <3> HIDE DEF val
    <3>2. Serve("getPolicy", ncp, val, <<>>)
      BY <2>2 DEF val
    <3> QED
      BY <1>7, <3>1, <3>2, Answers DEF NcpPolicy
  <2>3. CASE \E v \in {"ok", "refused"} : Serve("transient", ncp, v, <<>>)
    BY <1>0, <1>7, <2>3, Answers DEF NcpPolicy
  <2> QED
    BY <1>7, <2>1, <2>2, <2>3, PermitKeeps DEF NcpPolicy
<1>8. CASE NcpPermit
  <2>1. CASE Serve("permit", ncp, "refused", <<>>)
    BY <1>0, <1>8, <2>1, Answers DEF NcpPermit
  <2> QED
    BY <1>8, <2>1, PermitKeeps DEF NcpPermit
<1> QED
  BY <1>1, <1>2, <1>3, <1>4, <1>5, <1>6, <1>7, <1>8, VersionKeeps, StackKeeps, MissesKeep,
     RebootKeeps DEF NcpStep

-----------------------------------------------------------------------------
(***************************************************************************)
(* The host's steps                                                        *)
(***************************************************************************)
\* No "up" comes after a message that is not on the line.
LEMMA UpAbsent == ASSUME NEW w \in Seq(WireMessage), NEW m, m \notin Range(w) PROVE NoUpAfter(w, m)
  BY DEF NoUpAfter, Range

\* An operation ends, or waits for something else than an answer.
LEMMA RestKeeps ==
    ASSUME IInv, NEW p \in {"closed", "idle", "restore", "await"}, Rest(p),
           UNCHANGED <<version, call, seen, opening, ncp, calls, rebooted, replaced>>,
           item' \in Nat, wire' \in Seq(WireMessage), Range(wire') \subseteq Range(wire),
           up' \in Seq(Values), ResultIsHeld',
           p # "closed" => \/ pc \notin Opening \cup {"closed"}
                           \/ /\ pc = "init" /\ Range(request) = {}
                              /\ ~rebooted /\ replaced = {} => OnItsNetwork,
           p = "await" => pc = "command" /\ UNCHANGED up
    PROVE  IInv'
<1>1. pc' = p /\ UNCHANGED <<no, request>>
  BY DEF Rest
<1>2. NetworkTypeOK'
  BY <1>1 DEF IInv, NetworkTypeOK
<1>3. Lined'
  BY <1>1 DEF IInv, Lined
<1>4. Current'
  BY <1>1 DEF IInv, Current
<1>5. \A o : Queued(o)' <=> Queued(o)
  BY <1>1 DEF Queued
<1>6. p # "closed" => ~Queued({"version"}) /\ ~Queued({"networkInit"})
  BY DEF IInv, Queue, Opening, Queued
<1>7. Queue'
  BY <1>1, <1>5, <1>6 DEF IInv, Queue, Opening, Working, Places
<1>8. Agreement'
  BY <1>1 DEF IInv, Agreement, Opening
<1>9. Prepared'
  BY <1>1, <1>5 DEF IInv, Prepared, Opening, Deaf, Ready
<1>10. Restored'
  BY <1>1, <1>5, <1>6 DEF IInv, Restored, Opening, OnItsNetwork
<1>11. Found'
  BY <1>1, <1>5 DEF IInv, Found, StillAs
<1>12. Answering'
  BY <1>1, <1>5 DEF IInv, Answering, Working, Own, Deaf
<1> QED
  BY <1>2, <1>3, <1>4, <1>7, <1>8, <1>9, <1>10, <1>11, <1>12 DEF IInv

\* The commands that neither open a session nor set up a network.
Plain == {"check", "leave", "permitCheck", "trustCenter", "keyRequest", "policyRead", "transient", "permit"}

\* A command that starts no network keeps the invariant.
LEMMA PlainKeeps ==
    ASSUME IInv, pc \in Plain \cup {"idle"}, NEW p \in Plain,
           NEW op \in {"networkState", "leave", "setPolicy", "getPolicy", "transient", "permit"},
           NEW arg \in Argument, Ask(p, op, arg),
           UNCHANGED <<version, item, seen, up, ncp, rebooted, replaced, done>>,
           call' \in CallId, opening' \in BOOLEAN, calls' \in Nat,
           wire' \in Seq(WireMessage), Range(wire') \subseteq Range(wire),
           p = "check" => op = "networkState", p = "policyRead" => op = "getPolicy",
           p = "transient" \/ (op = "permit" /\ arg # "0") => ncp.policy \/ Deaf
    PROVE  IInv'
<1> DEFINE x == [op |-> op, no |-> no + 1, arg |-> arg, layout |-> version']
<1>1. op \in Ops /\ version' \in Versions
  BY DEF Ops, OpenOps, IInv, NetworkTypeOK
<1>2. /\ pc' = p /\ no' = no + 1 /\ no' \in Nat /\ request' \in Seq(Request) /\ Lined'
      /\ Range(request') = Range(request) \cup {x}
      /\ \A y \in Range(request) : y.no # no'
      /\ \A v : ~Answered(v)'
  BY <1>1, AskShape
<1>3. x.op = op /\ x.no = no' /\ x.arg = arg /\ x.layout = version
  BY <1>2
<1> HIDE DEF x
<1>4. NetworkTypeOK'
  BY <1>2 DEF IInv, NetworkTypeOK
<1>5. Current'
  BY <1>2, <1>3 DEF Current, Plain
<1>6. pc \notin Opening \cup Working \cup {"closed"} /\ p \notin Opening \cup Working \cup {"closed"} /\ p \in Places
  BY DEF Plain, Opening, Working, Places
<1>7. op \notin {"version", "networkInit", "form", "join", "security", "setConfig"}
  OBVIOUS
<1>8. \A o : o \subseteq {"version", "networkInit"} \cup SetupOps => (Queued(o)' <=> Queued(o))
  BY <1>2, <1>3, <1>7 DEF Queued, SetupOps
<1>9. ~Queued({"version"}) /\ ~Queued({"networkInit"})
  BY <1>6 DEF IInv, Queue, Opening
<1>10. ~Queued({"version"})' /\ ~Queued({"networkInit"})' /\ (Queued(SetupOps)' <=> Queued(SetupOps))
       /\ (Queued({"networkInit"} \cup SetupOps)' <=> Queued({"networkInit"} \cup SetupOps))
  BY <1>8, <1>9
<1>11. Queue'
  <2>1. p \notin {"version", "confirm", "security", "extended"} /\ p \notin Opening \cup Working
    BY <1>6 DEF Opening, Working
  <2>2. \A y, z \in Range(request') : {y.op, z.op} \subseteq SetupOps \cup {"networkInit"} => y = z
    BY <1>2, <1>3, <1>7 DEF IInv, Queue, SetupOps
  <2>3. \A y \in Range(request') :
          /\ y.op = "version" => y.arg = version'
          /\ y.op \in {"security", "form", "join"} => y.arg \in CallId
          /\ y.op = "setConfig" => y.arg \in Config
    BY <1>2, <1>3, <1>7 DEF IInv, Queue
  <2> QED
    BY <1>2, <1>6, <1>10, <2>1, <2>2, <2>3 DEF Queue
<1>12. Agreement'
  BY <1>2, <1>3, <1>6 DEF IInv, Agreement, Opening
<1>13. Prepared'
  <2>1. ~Deaf => Ready /\ ((p = "transient" \/ \E y \in Range(request') : y.op = "permit" /\ y.arg # "0") => ncp.policy)
    BY <1>2, <1>3, <1>6 DEF IInv, Prepared, Opening
  <2>2. ~Deaf => Ready'
    BY <2>1 DEF Ready
  <2> QED
    BY <1>2, <1>6, <2>1, <2>2 DEF IInv, Prepared, Deaf, Opening, Ready
<1>14. Restored'
  BY <1>2, <1>6, <1>10 DEF IInv, Restored, OnItsNetwork, Opening
<1>15. Found'
  BY <1>2, <1>6, <1>10 DEF IInv, Found, StillAs, Working
<1>16. Answering'
  <2>1. Reply(no', "none") \notin Range(wire')
    BY <1>2 DEF Answered
  <2>2. NoUpAfter(wire', Reply(no', "none"))
    BY <2>1, UpAbsent
  <2> QED
    BY <1>2, <1>6, <2>2 DEF IInv, Answering, ResultIsHeld
<1> QED
  BY <1>2, <1>4, <1>5, <1>11, <1>12, <1>13, <1>14, <1>15, <1>16 DEF IInv

\* The commands of Open after the handshake.
LEMMA OpeningKeeps ==
    ASSUME IInv, pc \in Opening \ {"init"},
           NEW p \in {"config", "configRead", "endpoint", "endpointState", "init"},
           NEW op \in {"setConfig", "getConfig", "addEndpoint", "networkState", "networkInit"},
           NEW arg \in Argument, Ask(p, op, arg),
           UNCHANGED <<version, call, seen, opening, calls, ncp, rebooted, replaced, done>>,
           item' \in Nat, up' \in Seq(Values),
           wire' \in Seq(WireMessage), Range(wire') \subseteq Range(wire),
           pc \in {"version", "confirm"} =>
               Range(request) = {} /\ (~rebooted => ncp.agreed = version),
           p \in {"config", "configRead"} => item' \in 1..Len(requiredConfig) /\ arg = requiredConfig[item'],
           p = "config" <=> op = "setConfig", p = "configRead" <=> op = "getConfig",
           p = "endpoint" <=> op = "addEndpoint", p = "init" <=> op = "networkInit",
           ~Deaf =>
              /\ p \in {"config", "configRead"} =>
                    \A i \in 1..(item' - 1) : requiredConfig[i] \in ncp.config
              /\ p \in {"endpoint", "endpointState", "init"} => Config \subseteq ncp.config
              /\ p = "init" => ncp.endpoint
    PROVE  IInv'
<1> DEFINE x == [op |-> op, no |-> no + 1, arg |-> arg, layout |-> version']
<1>1. op \in Ops /\ version' \in Versions
  BY DEF Ops, OpenOps, IInv, NetworkTypeOK
<1>2. /\ pc' = p /\ no' = no + 1 /\ no' \in Nat /\ request' \in Seq(Request) /\ Lined'
      /\ Range(request') = Range(request) \cup {x}
      /\ \A y \in Range(request) : y.no # no'
      /\ \A v : ~Answered(v)'
  BY <1>1, AskShape
<1>3. x.op = op /\ x.no = no' /\ x.arg = arg /\ x.layout = version
  BY <1>2
<1> HIDE DEF x
<1>4. NetworkTypeOK'
  BY <1>2 DEF IInv, NetworkTypeOK
<1>5. Current'
  BY <1>2, <1>3 DEF Current
<1>6. /\ p \in Opening /\ p \in Places /\ p \notin {"version", "confirm"} /\ p \notin Working
      /\ p \notin {"transient", "policyRead", "check"}
  BY DEF Opening, Places, Working
<1>7. \A y \in Range(request) : y.op \in OpenOps /\ y.op \notin {"version", "networkInit"}
  BY DEF IInv, Queue, Queued, Opening
<1>8. \A y \in Range(request') : y.op \in OpenOps /\ y.op # "version" /\ (y.op = "networkInit" => y = x /\ p = "init")
  BY <1>2, <1>3, <1>7 DEF OpenOps
<1>9. ~Queued({"version"})' /\ ~Queued(SetupOps)' /\ (Queued({"networkInit"})' => p = "init")
      /\ (Queued({"networkInit"} \cup SetupOps)' => p = "init")
  BY <1>8 DEF Queued, OpenOps, SetupOps
<1>10. Queue'
  <2>1. \A y, z \in Range(request') : {y.op, z.op} \subseteq SetupOps \cup {"networkInit"} => y = z
    BY <1>8 DEF OpenOps, SetupOps
  <2>2. \A y \in Range(request') :
          /\ y.op = "version" => y.arg = version'
          /\ y.op \in {"security", "form", "join"} => y.arg \in CallId
          /\ y.op = "setConfig" => y.arg \in Config
    <3>1. op = "setConfig" => arg \in Config
      BY DEF Config
    <3> QED
      BY <1>2, <1>3, <1>8, <3>1 DEF IInv, Queue, OpenOps
  <2> QED
    BY <1>2, <1>6, <1>8, <1>9, <2>1, <2>2 DEF Queue
<1>11. Agreement'
  BY <1>2, <1>3, <1>6, <1>7 DEF IInv, Agreement, Opening
<1>12. Prepared'
  <2>1. (p = "init" /\ ~Deaf) => Ready'
    BY DEF Ready
  <2>2. \A y \in Range(request') : y.op # "permit"
    BY <1>8 DEF OpenOps
  <2>3. Ready => Ready'
    BY DEF Ready
  <2> QED
    BY <1>2, <1>6, <1>9, <2>1, <2>2, <2>3 DEF IInv, Prepared, Deaf, Opening
<1>13. Restored'
  BY <1>2, <1>6 DEF IInv, Restored, Opening
<1>14. Found'
  BY <1>2, <1>6, <1>9 DEF IInv, Found, Working
<1>15. Answering'
  BY <1>2, <1>6 DEF IInv, Answering, ResultIsHeld
<1> QED
  BY <1>2, <1>4, <1>5, <1>10, <1>11, <1>12, <1>13, <1>14, <1>15 DEF IInv

\* The handshake, once the line is empty: Open's first command and the one that confirms.
LEMMA HandshakeKeeps ==
    ASSUME NetworkTypeOK', Lined', ResultIsHeld', pc' \in {"version", "confirm"},
           \A x \in Range(request') : x.op = "version" /\ x.arg = version',
           \A v : ~Answered(v)', item' = 1, pc' = "version" => version' = Legacy,
           ncp'.stack = "none", ncp'.window => ncp'.policy, replaced' \subseteq {"joining"}
    PROVE  IInv'
<1>1. /\ pc' \in Opening \ {"init"} /\ pc' \in Places /\ pc' \notin Working
      /\ pc' \notin {"check", "config", "configRead", "endpoint", "endpointState", "policyRead", "transient"}
  BY DEF Opening, Places, Working
<1>2. \A o : "version" \notin o => ~Queued(o)'
  BY DEF Queued
<1>3. Current'
  BY DEF Current
<1>4. Queue'
  BY <1>1, <1>2 DEF Queue, OpenOps, SetupOps, Working
<1>5. Agreement'
  BY DEF Agreement
<1>6. Prepared'
  BY <1>1, <1>2 DEF Prepared, SetupOps
<1>7. Restored'
  BY <1>1 DEF Restored, Opening
<1>8. Found' /\ Answering'
  BY <1>1, <1>2 DEF Found, Answering, SetupOps, Working
<1> QED
  BY <1>3, <1>4, <1>5, <1>6, <1>7, <1>8 DEF IInv

\* The reset of an Open keeps the invariant.
LEMMA OpenKeeps == ASSUME IInv, Open PROVE IInv'
<1>1. ncp' \in Adapter /\ ncp'.stack = "none" /\ ~ncp'.window /\ ncp'.tokens = ncp.tokens
  BY BootShape DEF IInv, NetworkTypeOK, Open
<1>2. /\ UNCHANGED <<call, seen, opening, sub, up, calls, replaced, done>>
      /\ wire' = <<>> /\ version' = Legacy /\ item' = 1 /\ rebooted' = FALSE
  BY DEF Open, subVars, history
<1>3. Range(wire') = {} /\ wire' \in Seq(WireMessage)
  BY <1>2 DEF Range
<1>4. \A v : ~Answered(v)'
  BY <1>3 DEF Answered
<1>5. replaced \subseteq {"joining"} /\ ResultIsHeld'
  BY <1>2 DEF IInv, Found, Answering, ResultIsHeld
<1>6. CASE /\ pc' = "version" /\ no' = 1
           /\ request' = <<[op |-> "version", no |-> 1, arg |-> Legacy, layout |-> Legacy]>>
  <2> DEFINE x == [op |-> "version", no |-> 1, arg |-> Legacy, layout |-> Legacy]
  <2>1. x \in Request /\ x.op = "version" /\ x.arg = Legacy /\ x.no = 1
    BY DEF Request, Ops, OpenOps, Argument
  <2> HIDE DEF x
  <2>2. request' = <<x>>
    BY <1>6 DEF x
  <2>3. request' \in Seq(Request) /\ Range(request') = {x} /\ Increasing(request')
    BY <2>1, <2>2 DEF Range, Increasing
  <2>4. NetworkTypeOK'
    BY <1>1, <1>2, <1>3, <1>6, <2>3 DEF IInv, NetworkTypeOK
  <2>5. Lined'
    BY <1>3, <1>6, <2>1, <2>3 DEF Lined
  <2> QED
    BY <1>1, <1>2, <1>4, <1>5, <1>6, <2>1, <2>3, <2>4, <2>5, HandshakeKeeps
<1>7. CASE pc' = "closed" /\ no' = 0 /\ request' = <<>>
  <2>1. request' \in Seq(Request) /\ Range(request') = {} /\ Increasing(request')
    BY <1>7 DEF Range, Increasing
  <2>2. \A o : ~Queued(o)'
    BY <2>1 DEF Queued
  <2>3. NetworkTypeOK'
    BY <1>1, <1>2, <1>3, <1>7, <2>1 DEF IInv, NetworkTypeOK
  <2>4. Lined' /\ Current' /\ Queue' /\ Agreement'
    BY <1>3, <1>7, <2>1, <2>2 DEF Lined, Current, Queue, Agreement, Opening, Working, Places
  <2>5. Prepared' /\ Restored'
    BY <1>1, <1>7, <2>1, <2>2 DEF Prepared, Restored, Opening
  <2>6. Found' /\ Answering'
    BY <1>2, <1>5, <1>7, <2>2 DEF Found, Answering, Working
  <2> QED
    BY <2>3, <2>4, <2>5, <2>6 DEF IInv
<1> QED
  BY <1>6, <1>7 DEF Open

\* From the security state to the result of FormNetwork and JoinNetwork.
LEMMA WorkingKeeps ==
    ASSUME IInv, pc \in Working, NEW p \in {"extended", "command", "readBack"},
           NEW op \in {"extended", "form", "join", "parameters"},
           NEW arg \in Argument, Ask(p, op, arg),
           UNCHANGED <<version, item, call, seen, opening, calls, ncp, rebooted, replaced, done>>,
           up' \in Seq(Values), wire' \in Seq(WireMessage), Range(wire') \subseteq Range(wire),
           p = "extended" => pc = "security" /\ op = "extended" /\ call.kind = "join",
           p = "command" => /\ pc \in {"security", "extended"} /\ op \in SetupOps
                            /\ arg = call /\ up' = <<>>,
           p = "readBack" => op = "parameters" /\ (seen = "none" => ncp.tokens = Own),
           p # "readBack" /\ ~Deaf /\ seen = "none" => ncp.keys = call
    PROVE  IInv'
<1> DEFINE x == [op |-> op, no |-> no + 1, arg |-> arg, layout |-> version']
<1>1. op \in Ops /\ version' \in Versions
  BY DEF Ops, SetupOps, IInv, NetworkTypeOK
<1>2. /\ pc' = p /\ no' = no + 1 /\ no' \in Nat /\ request' \in Seq(Request) /\ Lined'
      /\ Range(request') = Range(request) \cup {x}
      /\ \A y \in Range(request) : y.no # no'
      /\ \A v : ~Answered(v)'
  BY <1>1, AskShape
<1>3. x.op = op /\ x.no = no' /\ x.arg = arg /\ x.layout = version
  BY <1>2
<1> HIDE DEF x
<1>4. NetworkTypeOK'
  BY <1>2 DEF IInv, NetworkTypeOK
<1>5. Current'
  BY <1>2, <1>3 DEF Current
<1>6. /\ pc \notin Opening \cup {"closed"} /\ p \notin Opening \cup {"closed"} /\ p \in Places /\ p \in Working
      /\ p \notin {"security", "check", "policyRead", "transient"}
  BY DEF Opening, Places, Working
<1>7. ~Queued({"version"}) /\ ~Queued({"networkInit"})
  BY <1>6 DEF IInv, Queue, Opening
<1>8. ~Queued({"version"})' /\ ~Queued({"networkInit"})'
  BY <1>2, <1>3, <1>7 DEF Queued
<1>9. /\ op \in SetupOps => p = "command" /\ ~Queued(SetupOps)
      /\ Queued(SetupOps)' => Queued(SetupOps) \/ p = "command"
      /\ p = "extended" => ~Queued(SetupOps)
  <2>1. op \in SetupOps => p = "command"
    BY DEF SetupOps
  <2>2. p # "readBack" => ~Queued(SetupOps)
    BY DEF IInv, Queue
  <2> QED
    BY <1>2, <1>3, <2>1, <2>2 DEF Queued
<1>10. arg \in CallId \/ p # "command"
  BY DEF IInv, NetworkTypeOK
<1>11. Queue'
  <2>1. p = "extended" => ~Queued(SetupOps)'
    BY <1>2, <1>3, <1>9 DEF Queued, SetupOps
  <2>2. \A y, z \in Range(request') : {y.op, z.op} \subseteq SetupOps \cup {"networkInit"} => y = z
    <3>1. \A y \in Range(request) : y.op # "networkInit" /\ (op \in SetupOps => y.op \notin SetupOps)
      BY <1>7, <1>9 DEF Queued
    <3> QED
      BY <1>2, <1>3, <3>1 DEF IInv, Queue, SetupOps
  <2>3. \A y \in Range(request') :
          /\ y.op = "version" => y.arg = version'
          /\ y.op \in {"security", "form", "join"} => y.arg \in CallId
          /\ y.op = "setConfig" => y.arg \in Config
          /\ y.op \in {"security", "extended", "form", "join", "parameters"}
          /\ y.op \in {"security", "form", "join"} => y.arg = call'
    BY <1>2, <1>3, <1>9, <1>10 DEF IInv, Queue, SetupOps
  <2>4. p = "extended" => call'.kind = "join"
    OBVIOUS
  <2> QED
    BY <1>2, <1>6, <1>8, <2>1, <2>2, <2>3, <2>4 DEF Queue
<1>12. Agreement'
  BY <1>2, <1>3, <1>6 DEF IInv, Agreement, Opening
<1>13. Prepared'
  <2>1. ~Deaf => Ready /\ ((\E y \in Range(request') : y.op = "permit" /\ y.arg # "0") => ncp.policy)
    BY <1>2, <1>3, <1>6 DEF IInv, Prepared, Opening
  <2>2. Ready <=> Ready'
    BY DEF Ready
  <2> QED
    BY <1>2, <1>6, <2>1, <2>2 DEF IInv, Prepared, Deaf, Opening
<1>14. Restored'
  BY <1>2, <1>6, <1>8 DEF IInv, Restored, OnItsNetwork, Opening
<1>15. Found'
  BY <1>2, <1>6, <1>9 DEF IInv, Found, StillAs
<1>16. Answering'
  <2>1. p = "command" => "up" \notin Range(up')
    BY DEF Range
  <2>2. \A m \in Range(wire') : IsUp(m) /\ seen = "none" => ncp.tokens = Own /\ p # "extended"
    BY DEF IInv, Answering
  <2>3. ~Deaf /\ seen = "none" /\ (p = "extended" \/ Queued(SetupOps)') => ncp.keys = call
    BY <1>9 DEF IInv, Answering
  <2>4. ResultIsHeld'
    BY DEF IInv, Answering, ResultIsHeld
  <2> QED
    BY <1>2, <1>6, <2>1, <2>2, <2>3, <2>4 DEF IInv, Answering, Own, Deaf
<1> QED
  BY <1>2, <1>4, <1>5, <1>11, <1>12, <1>13, <1>14, <1>15, <1>16 DEF IInv

\* The network was looked for, and what was found is no reason to stop.
LEMMA SecurityKeeps ==
    ASSUME IInv, pc = "check", Range(request) = {}, Ask("security", "security", call),
           UNCHANGED <<version, item, call, opening, calls, up, ncp, rebooted, replaced, done>>,
           wire' \in Seq(WireMessage), Range(wire') \subseteq Range(wire),
           seen' \in {"none", "joining", "leaving"}, StillAs(seen'),
           seen' = "none" => \A m \in Range(wire') : ~IsUp(m)
    PROVE  IInv'
<1> DEFINE x == [op |-> "security", no |-> no + 1, arg |-> call, layout |-> version']
<1>1. "security" \in Ops /\ version' \in Versions /\ call \in Argument /\ call \in CallId
  BY DEF Ops, Argument, IInv, NetworkTypeOK
<1>2. /\ pc' = "security" /\ no' = no + 1 /\ no' \in Nat /\ request' \in Seq(Request) /\ Lined'
      /\ Range(request') = {x}
      /\ \A v : ~Answered(v)'
  BY <1>1, AskShape
<1>3. x.op = "security" /\ x.no = no' /\ x.arg = call /\ x.layout = version
  BY <1>2
<1> HIDE DEF x
<1>4. NetworkTypeOK'
  BY <1>2 DEF IInv, NetworkTypeOK
<1>5. Current'
  BY <1>2, <1>3 DEF Current
<1>6. \A o : "security" \notin o => ~Queued(o)'
  BY <1>2, <1>3 DEF Queued
<1>7. Queue'
  BY <1>1, <1>2, <1>3, <1>6 DEF Queue, Opening, Working, Places, SetupOps
<1>8. Agreement'
  BY <1>2, <1>3 DEF IInv, Agreement
<1>9. Prepared'
  BY <1>2, <1>3, <1>6 DEF IInv, Prepared, Deaf, Opening, Ready, SetupOps
<1>10. Restored'
  BY <1>2, <1>6 DEF IInv, Restored, OnItsNetwork, Opening
<1>11. Found'
  BY <1>2, <1>6 DEF IInv, Found, StillAs
<1>12. Answering'
  <2>1. ncp.stack \in Stack
    BY DEF IInv, NetworkTypeOK, Adapter
  <2>2. seen' = "none" => ncp.stack = "none"
    BY DEF StillAs
  <2> QED
    BY <1>2, <1>6, <2>2 DEF IInv, Answering, ResultIsHeld, Joined, SetupOps
<1> QED
  BY <1>2, <1>4, <1>5, <1>7, <1>8, <1>9, <1>10, <1>11, <1>12 DEF IInv

\* An Open that fails keeps the invariant.
LEMMA OpenFailsKeeps ==
    ASSUME IInv, NEW step, NEW vals, Answer(step, vals), OpenFails,
           UNCHANGED <<call, seen, opening, ncp, countVars, history>>
    PROVE  IInv'
<1>1. wire' \in Seq(WireMessage) /\ Range(wire') \subseteq Range(wire)
  BY AnswerShape
<1>2. /\ Rest("closed") /\ up' = <<>> /\ up' \in Seq(Values)
      /\ UNCHANGED <<version, item, call, seen, opening, ncp, calls, rebooted, replaced, done>>
  BY DEF OpenFails, Unsubscribe, countVars, history
<1>3. ResultIsHeld' /\ item' \in Nat
  BY <1>2 DEF IInv, Answering, ResultIsHeld, NetworkTypeOK
<1> QED
  BY <1>1, <1>2, <1>3, RestKeeps

\* An operation of an open session is over.
LEMMA IdleKeeps ==
    ASSUME IInv, pc \notin Opening \cup {"closed"}, Rest("idle"),
           up' \in Seq(Values), wire' \in Seq(WireMessage), Range(wire') \subseteq Range(wire),
           UNCHANGED <<hostVars, ncp, countVars, history>>
    PROVE  IInv'
<1>1. UNCHANGED <<version, item, call, seen, opening, calls, rebooted, replaced, done>>
  BY DEF hostVars, countVars, history
<1>2. ResultIsHeld' /\ item' \in Nat
  BY <1>1 DEF IInv, Answering, ResultIsHeld, NetworkTypeOK
<1> QED
  BY <1>1, <1>2, RestKeeps

\* There is a first configuration value, and each is one that can be set.
LEMMA FirstValue ==
    /\ Len(requiredConfig) \in Nat \ {0} /\ 1 \in 1..Len(requiredConfig)
    /\ \A i \in 1..Len(requiredConfig) : requiredConfig[i] \in Config /\ requiredConfig[i] \in Argument
    /\ \A c \in Config : \E i \in 1..Len(requiredConfig) : c = requiredConfig[i]
<1>1. requiredConfig \in Seq(STRING) /\ requiredConfig # <<>>
  OBVIOUS
<1>2. Len(requiredConfig) \in Nat \ {0} /\ 1 \in 1..Len(requiredConfig) /\ DOMAIN requiredConfig = 1..Len(requiredConfig)
  BY <1>1
<1> QED
  BY <1>2 DEF Config, Argument

\* The first half of negotiate keeps the invariant.
LEMMA NegotiateKeeps == ASSUME IInv, Negotiate PROVE IInv'
<1>0. UNCHANGED <<call, seen, opening, ncp, calls, rebooted, replaced, done>>
  BY DEF Negotiate, countVars, history
<1>1. CASE /\ Answer("version", {Legacy}) /\ UNCHANGED <<version, item, subVars>> /\ StartConfig
  <2>1. /\ pc = "version" /\ wire' \in Seq(WireMessage) /\ Range(wire') \subseteq Range(wire)
        /\ Answered(Legacy) /\ Range(request) = {}
    BY <1>1, AnswerShape
  <2>2. version = Legacy /\ (~rebooted => ncp.agreed = version) /\ item = 1
    BY <2>1 DEF IInv, Agreement, Prepared
  <2>3. UNCHANGED <<version, item, up>> /\ up \in Seq(Values)
    BY <1>1 DEF subVars, IInv, NetworkTypeOK
  <2>4. Ask("config", "setConfig", requiredConfig[1]) /\ requiredConfig[1] \in Argument /\ pc \in Opening \ {"init"}
    BY <1>1, <2>1, FirstValue DEF StartConfig, Opening
  <2> QED
    BY <1>0, <2>1, <2>2, <2>3, <2>4, FirstValue, OpeningKeeps
<1>2. ASSUME NEW v \in Versions, Answer("version", {v}), version' = v, Ask("confirm", "version", v),
             UNCHANGED <<item, subVars>>
      PROVE  IInv'
  <2>1. /\ pc = "version" /\ wire' \in Seq(WireMessage) /\ Range(wire') \subseteq Range(wire)
        /\ Range(request) = {}
    BY <1>2, AnswerShape
  <2> DEFINE x == [op |-> "version", no |-> no + 1, arg |-> v, layout |-> version']
  <2>2. x.op = "version" /\ x.arg = v /\ "version" \in Ops /\ v \in Argument
    BY DEF Ops, OpenOps, Argument
  <2>3. /\ pc' = "confirm" /\ no' \in Nat /\ request' \in Seq(Request) /\ Lined'
        /\ Range(request') = {x}
        /\ \A w : ~Answered(w)'
    BY <1>2, <2>1, <2>2, AskShape
  <2> HIDE DEF x
  <2>4. NetworkTypeOK'
    BY <1>0, <1>2, <2>1, <2>3 DEF IInv, NetworkTypeOK, subVars
  <2>5. ncp.stack = "none" /\ (ncp.window => ncp.policy) /\ item = 1 /\ replaced \subseteq {"joining"}
    BY <2>1 DEF IInv, Restored, Prepared, Found, Opening
  <2>6. ResultIsHeld'
    BY <1>0 DEF IInv, Answering, ResultIsHeld
  <2> QED
    BY <1>0, <1>2, <2>2, <2>3, <2>4, <2>5, <2>6, HandshakeKeeps
<1>3. CASE Answer("version", {"error"}) /\ OpenFails
  BY <1>3, OpenFailsKeeps DEF Negotiate
<1> QED
  BY <1>1, <1>2, <1>3 DEF Negotiate

\* The second half of negotiate keeps the invariant.
LEMMA ConfirmKeeps == ASSUME IInv, Confirm PROVE IInv'
<1>0. UNCHANGED <<call, seen, opening, ncp, calls, rebooted, replaced, done>>
  BY DEF Confirm, countVars, history
<1>1. CASE /\ Answer("confirm", {version}) /\ UNCHANGED <<version, item, subVars>> /\ StartConfig
  <2>0. version \in Versions
    BY DEF IInv, NetworkTypeOK
  <2>1. /\ pc = "confirm" /\ wire' \in Seq(WireMessage) /\ Range(wire') \subseteq Range(wire)
        /\ Answered(version) /\ Range(request) = {}
    BY <1>1, <2>0, AnswerShape
  <2>2. (~rebooted => ncp.agreed = version) /\ item = 1
    BY <2>1 DEF IInv, Agreement, Prepared
  <2>3. UNCHANGED <<version, item, up>> /\ up \in Seq(Values)
    BY <1>1 DEF subVars, IInv, NetworkTypeOK
  <2>4. Ask("config", "setConfig", requiredConfig[1]) /\ requiredConfig[1] \in Argument /\ pc \in Opening \ {"init"}
    BY <1>1, <2>1, FirstValue DEF StartConfig, Opening
  <2> QED
    BY <1>0, <2>1, <2>2, <2>3, <2>4, FirstValue, OpeningKeeps
<1>2. CASE Answer("confirm", (Versions \ {version}) \cup {"error"}) /\ OpenFails
  BY <1>2, OpenFailsKeeps DEF Confirm
<1> QED
  BY <1>1, <1>2 DEF Confirm

\* A configuration value is in place; the next one, or the endpoint, follows.
LEMMA NextConfigKeeps ==
    ASSUME IInv, pc \in {"config", "configRead"}, NextConfig,
           wire' \in Seq(WireMessage), Range(wire') \subseteq Range(wire),
           UNCHANGED <<call, seen, opening, ncp, countVars, history>>,
           ~Deaf => requiredConfig[item] \in ncp.config
    PROVE  IInv'
<1>0. UNCHANGED <<version, call, seen, opening, ncp, calls, rebooted, replaced, done, up>> /\ item' = item + 1
  BY DEF NextConfig, countVars, history, subVars
<1>1. item \in 1..Len(requiredConfig) /\ item' \in Nat /\ up' \in Seq(Values) /\ pc \in Opening \ {"init"}
  BY <1>0, FirstValue DEF IInv, Prepared, NetworkTypeOK, Opening
<1>2. ~Deaf => \A i \in 1..item : requiredConfig[i] \in ncp.config
  <2>1. \A i \in 1..item : i = item \/ i \in 1..(item - 1)
    BY <1>1
  <2> QED
    BY <2>1 DEF IInv, Prepared
<1>3. item' - 1 = item
  BY <1>0, <1>1, FirstValue
<1>4. CASE item < Len(requiredConfig) /\ Ask("config", "setConfig", requiredConfig[item + 1])
  <2>1. item' \in 1..Len(requiredConfig) /\ requiredConfig[item'] \in Argument
    BY <1>0, <1>1, <1>4, FirstValue
  <2> QED
    BY <1>0, <1>1, <1>2, <1>3, <1>4, <2>1, OpeningKeeps
<1>5. CASE item = Len(requiredConfig) /\ Ask("endpoint", "addEndpoint", "1")
  <2>1. ~Deaf => Config \subseteq ncp.config
    BY <1>2, <1>5, FirstValue
  <2>2. "1" \in Argument
    BY DEF Argument
  <2> QED
    BY <1>0, <1>1, <1>5, <2>1, <2>2, OpeningKeeps
<1> QED
  BY <1>4, <1>5 DEF NextConfig

\* Setting a configuration value keeps the invariant.
LEMMA ConfigSetKeeps == ASSUME IInv, ConfigSet PROVE IInv'
<1>0. UNCHANGED <<call, seen, opening, ncp, countVars, history>>
  BY DEF ConfigSet
<1>1. CASE Answer("config", {"ok"}) /\ NextConfig
  <2>1. pc = "config" /\ wire' \in Seq(WireMessage) /\ Range(wire') \subseteq Range(wire) /\ Answered("ok")
    BY <1>1, AnswerShape
  <2>2. ~Deaf => requiredConfig[item] \in ncp.config
    BY <2>1 DEF IInv, Prepared
  <2> QED
    BY <1>0, <1>1, <2>1, <2>2, NextConfigKeeps
<1>2. CASE /\ Answer("config", {"refused", "error"}) /\ UNCHANGED <<version, item, subVars>>
           /\ Ask("configRead", "getConfig", requiredConfig[item])
  <2>1. pc = "config" /\ wire' \in Seq(WireMessage) /\ Range(wire') \subseteq Range(wire)
    BY <1>2, AnswerShape
  <2>2. UNCHANGED <<version, item, up, calls, rebooted, replaced, done>>
    BY <1>0, <1>2 DEF subVars, countVars, history
  <2>3. item \in 1..Len(requiredConfig) /\ item \in Nat /\ up \in Seq(Values) /\ pc \in Opening \ {"init"}
    BY <2>1, FirstValue DEF IInv, Prepared, NetworkTypeOK, Opening
  <2>4. ~Deaf => \A i \in 1..(item - 1) : requiredConfig[i] \in ncp.config
    BY <2>1 DEF IInv, Prepared
  <2>5. requiredConfig[item] \in Argument
    BY <2>3, FirstValue
  <2> QED
    BY <1>0, <1>2, <2>1, <2>2, <2>3, <2>4, <2>5, OpeningKeeps
<1> QED
  BY <1>1, <1>2 DEF ConfigSet

\* Reading one back keeps the invariant.
LEMMA ConfigReadKeeps == ASSUME IInv, ConfigRead PROVE IInv'
<1>0. UNCHANGED <<call, seen, opening, ncp, countVars, history>>
  BY DEF ConfigRead
<1>1. CASE Answer("configRead", {"right"}) /\ NextConfig
  <2>1. pc = "configRead" /\ wire' \in Seq(WireMessage) /\ Range(wire') \subseteq Range(wire) /\ Answered("right")
    BY <1>1, AnswerShape
  <2>2. ~Deaf => requiredConfig[item] \in ncp.config
    BY <2>1 DEF IInv, Prepared
  <2> QED
    BY <1>0, <1>1, <2>1, <2>2, NextConfigKeeps
<1>2. CASE Answer("configRead", {"wrong", "error"}) /\ OpenFails
  BY <1>0, <1>2, OpenFailsKeeps
<1> QED
  BY <1>1, <1>2 DEF ConfigRead

\* Registering the endpoint keeps the invariant.
LEMMA EndpointKeeps == ASSUME IInv, EndpointAdded \/ EndpointState PROVE IInv'
<1>0. UNCHANGED <<call, seen, opening, ncp, countVars, history>>
  BY DEF EndpointAdded, EndpointState
<1>1. UNCHANGED <<calls, rebooted, replaced, done>> /\ "0" \in Argument /\ "" \in Argument
  BY <1>0 DEF countVars, history, Argument
<1>2. CASE /\ Answer("endpoint", {"ok"}) /\ Subscribe /\ UNCHANGED <<version, item>>
           /\ Ask("init", "networkInit", "0")
  <2>1. /\ pc = "endpoint" /\ wire' \in Seq(WireMessage) /\ Range(wire') \subseteq Range(wire)
        /\ Answered("ok")
    BY <1>2, AnswerShape
  <2>2. ~Deaf => Config \subseteq ncp.config /\ ncp.endpoint
    BY <2>1 DEF IInv, Prepared
  <2>3. up' \in Seq(Values) /\ item' \in Nat /\ pc \in Opening \ {"init"}
    BY <1>2, <2>1 DEF Subscribe, IInv, NetworkTypeOK, Opening
  <2> QED
    BY <1>0, <1>1, <1>2, <2>1, <2>2, <2>3, OpeningKeeps
<1>3. CASE /\ Answer("endpoint", {"refused", "error"}) /\ UNCHANGED <<version, item, subVars>>
           /\ Ask("endpointState", "networkState", "")
  <2>1. pc = "endpoint" /\ wire' \in Seq(WireMessage) /\ Range(wire') \subseteq Range(wire)
    BY <1>3, AnswerShape
  <2>2. ~Deaf => Config \subseteq ncp.config
    BY <2>1 DEF IInv, Prepared
  <2>3. up' \in Seq(Values) /\ item' \in Nat /\ pc \in Opening \ {"init"} /\ UNCHANGED <<version, item>>
    BY <1>3, <2>1 DEF subVars, IInv, NetworkTypeOK, Opening
  <2> QED
    BY <1>0, <1>1, <1>3, <2>1, <2>2, <2>3, OpeningKeeps
<1>4. CASE EndpointState
  BY <1>0, <1>4, OpenFailsKeeps DEF EndpointState
<1> QED
  BY <1>2, <1>3, <1>4 DEF EndpointAdded

\* The restore of the network keeps the invariant.
LEMMA NetworkInitKeeps == ASSUME IInv, NetworkInit PROVE IInv'
<1>0. UNCHANGED <<call, seen, opening, ncp, countVars, history>>
  BY DEF NetworkInit
<1>1. UNCHANGED <<calls, rebooted, replaced, done>> /\ ResultIsHeld'
  BY <1>0 DEF countVars, history, IInv, Answering, ResultIsHeld
<1>2. ASSUME NEW v \in {"notJoined", "ok"}, NEW p \in {"idle", "restore"}, Answer("init", {v}), Rest(p),
             UNCHANGED <<version, item>>, up' \in Seq(Values)
      PROVE  IInv'
  <2>1. /\ pc = "init" /\ wire' \in Seq(WireMessage) /\ Range(wire') \subseteq Range(wire)
        /\ Answered(v) /\ Range(request) = {}
    BY <1>2, AnswerShape
  <2>2. ~rebooted /\ replaced = {} => OnItsNetwork
    BY <2>1 DEF IInv, Restored, OnItsNetwork
  <2>3. item' \in Nat
    BY <1>2 DEF IInv, NetworkTypeOK
  <2> QED
    BY <1>0, <1>1, <1>2, <2>1, <2>2, <2>3, RestKeeps
<1>3. up \in Seq(Values)
  BY DEF IInv, NetworkTypeOK
<1>4. CASE Answer("init", {"notJoined"}) /\ Rest("idle") /\ Unsubscribe /\ UNCHANGED <<version, item>>
  BY <1>2, <1>4 DEF Unsubscribe
<1>5. CASE Answer("init", {"ok"}) /\ Rest("restore") /\ UNCHANGED <<version, item, subVars>>
  BY <1>2, <1>3, <1>5 DEF subVars
<1>6. CASE Answer("init", {"refused", "error"}) /\ OpenFails
  BY <1>0, <1>6, OpenFailsKeeps
<1> QED
  BY <1>4, <1>5, <1>6 DEF NetworkInit

\* The waits for a status end, or take the next one.
LEMMA WaitsKeep ==
    ASSUME IInv, RestoreStatus \/ RestoreGivesUp \/ AwaitTimeout \/ (AwaitStatus /\ Fails) \/ Close
    PROVE  IInv'
<1>1. wire \in Seq(WireMessage) /\ up \in Seq(Values) /\ <<>> \in Seq(Values)
  BY DEF IInv, NetworkTypeOK
<1>2. /\ UNCHANGED <<call, seen, opening, calls, ncp, wire, rebooted, replaced, done>>
      /\ ResultIsHeld' /\ item \in Nat
  BY DEF RestoreStatus, RestoreGivesUp, AwaitTimeout, AwaitStatus, Close, hostVars, countVars, history,
         IInv, Answering, ResultIsHeld, NetworkTypeOK
<1>3. CASE (RestoreStatus /\ Rest("idle") /\ Unsubscribe) \/ RestoreGivesUp \/ AwaitTimeout
  <2>1. pc \in {"restore", "await"} /\ Rest("idle") /\ up' = <<>> /\ UNCHANGED <<hostVars, ncp, countVars, history>>
    BY <1>3 DEF RestoreStatus, RestoreGivesUp, AwaitTimeout, Fails, Unsubscribe
  <2>2. pc \notin Opening \cup {"closed"}
    BY <2>1 DEF Opening
  <2> QED
    BY <1>1, <1>2, <2>1, <2>2, IdleKeeps
<1>4. CASE RestoreStatus /\ Rest("restore") /\ up' = Tail(up)
  <2>1. pc = "restore" /\ up # <<>> /\ UNCHANGED <<version, item>>
    BY <1>4 DEF RestoreStatus, hostVars
  <2>2. up' \in Seq(Values)
    BY <1>1, <1>4, <2>1, Tailed
  <2>3. pc \notin Opening \cup {"closed"}
    BY <2>1 DEF Opening
  <2> QED
    BY <1>1, <1>2, <1>4, <2>1, <2>2, <2>3, RestKeeps
<1>5. CASE AwaitStatus /\ Fails
  <2>1. pc = "await" /\ Rest("idle") /\ up' = <<>> /\ UNCHANGED <<hostVars, ncp, countVars, history>>
    <3>1. UNCHANGED version
      BY <1>5 DEF AwaitStatus
    <3> QED
      BY <1>5, <3>1 DEF AwaitStatus, Fails, Unsubscribe, hostVars, countVars
  <2>2. pc \notin Opening \cup {"closed"}
    BY <2>1 DEF Opening
  <2> QED
    BY <1>1, <1>2, <2>1, <2>2, IdleKeeps
<1>6. CASE Close
  <2>1. Rest("closed") /\ up' = <<>> /\ UNCHANGED <<version, item>>
    BY <1>6 DEF Close, Unsubscribe, hostVars
  <2> QED
    BY <1>1, <1>2, <2>1, RestKeeps
<1> QED
  BY <1>3, <1>4, <1>5, <1>6 DEF RestoreStatus

\* The first command of an operation.
LEMMA BeginKeeps ==
    ASSUME IInv, (\E kind \in {"form", "join"} : Start(kind)) \/ LeaveNetwork \/ PermitJoin
    PROVE  IInv'
<1>1. /\ pc = "idle" /\ UNCHANGED <<version, item, seen, up, wire, ncp, rebooted, replaced, done>>
      /\ calls' = calls + 1
  BY DEF Start, LeaveNetwork, PermitJoin, subVars, history
<1>2. /\ calls' \in Nat /\ wire' \in Seq(WireMessage) /\ Range(wire') \subseteq Range(wire)
      /\ "" \in Argument /\ call \in CallId /\ opening \in BOOLEAN
  BY <1>1 DEF IInv, NetworkTypeOK, Argument
<1>3. ASSUME NEW kind \in {"form", "join"}, Start(kind) PROVE IInv'
  <2>1. call' \in CallId /\ Ask("check", "networkState", "") /\ opening' = opening
    BY <1>1, <1>2, <1>3 DEF Start, CallId
  <2>2. "check" \in Plain
    BY DEF Plain
  <2> QED
    BY <1>1, <1>2, <2>1, <2>2, PlainKeeps
<1>4. CASE LeaveNetwork
  <2>1. UNCHANGED <<call, opening>> /\ Ask("leave", "leave", "")
    BY <1>4 DEF LeaveNetwork
  <2>2. "leave" \in Plain
    BY DEF Plain
  <2> QED
    BY <1>1, <1>2, <2>1, <2>2, PlainKeeps
<1>5. CASE PermitJoin
  <2>1. UNCHANGED call /\ opening' \in BOOLEAN /\ Ask("permitCheck", "networkState", "")
    BY <1>5 DEF PermitJoin
  <2>2. "permitCheck" \in Plain
    BY DEF Plain
  <2> QED
    BY <1>1, <1>2, <2>1, <2>2, PlainKeeps
<1> QED
  BY <1>3, <1>4, <1>5

\* What a call finds when it looks keeps the invariant.
LEMMA CheckKeeps == ASSUME IInv, Check PROVE IInv'
<1>0. UNCHANGED <<item, call, opening, ncp, countVars, history>>
  BY DEF Check
<1>1. up \in Seq(Values) /\ <<>> \in Seq(Values)
  BY DEF IInv, NetworkTypeOK
<1>2. ASSUME NEW s \in Stack, MayReplace(s), Answer("check", {s}), seen' = s,
             UNCHANGED <<version, subVars>>, Ask("security", "security", call)
      PROVE  IInv'
  <2>1. "error" # s /\ s \in {"none", "joining", "leaving"}
    BY <1>2 DEF MayReplace, Joined, Stack
  <2>2. /\ pc = "check" /\ wire' \in Seq(WireMessage) /\ Range(wire') \subseteq Range(wire)
        /\ Answered(s) /\ Range(request) = {}
        /\ NoUpAfter(wire, Reply(no, s)) => \A m \in Range(wire') : ~IsUp(m)
    BY <1>2, <2>1, AnswerShape
  <2>3. StillAs(s)
    BY <2>1, <2>2 DEF IInv, Found, StillAs
  <2>4. s = "none" => \A m \in Range(wire') : ~IsUp(m)
    BY <2>2 DEF IInv, Answering
  <2>5. UNCHANGED <<version, item, call, opening, calls, up, ncp, rebooted, replaced, done>>
    BY <1>0, <1>2 DEF subVars, countVars, history
  <2> QED
    BY <1>2, <2>1, <2>2, <2>3, <2>4, <2>5, SecurityKeeps
<1>3. CASE /\ Answer("check", {s \in Stack : ~MayReplace(s)} \cup {"error"})
           /\ Fails /\ UNCHANGED <<version, seen>>
  <2>1. pc = "check" /\ wire' \in Seq(WireMessage) /\ Range(wire') \subseteq Range(wire)
    BY <1>3, AnswerShape
  <2>2. pc \notin Opening \cup {"closed"}
    BY <2>1 DEF Opening
  <2>3. Rest("idle") /\ up' = <<>> /\ UNCHANGED <<hostVars, ncp, countVars, history>>
    BY <1>0, <1>3 DEF Fails, Unsubscribe, hostVars
  <2> QED
    BY <1>1, <2>1, <2>2, <2>3, IdleKeeps
<1> QED
  BY <1>2, <1>3 DEF Check

\* The command itself, once the keys are set.
LEMMA CommandAskKeeps ==
    ASSUME IInv, pc \in {"security", "extended"}, Command, call.kind \in SetupOps,
           wire' \in Seq(WireMessage), Range(wire') \subseteq Range(wire),
           UNCHANGED <<version, item, call, seen, opening, ncp, countVars, history>>,
           ~Deaf /\ seen = "none" => ncp.keys = call
    PROVE  IInv'
<1>1. /\ pc \in Working /\ up' = <<>> /\ up' \in Seq(Values) /\ Ask("command", call.kind, call)
      /\ call \in Argument /\ call.kind \in {"extended", "form", "join", "parameters"}
  <2>1. pc \in Working /\ up' = <<>> /\ Ask("command", call.kind, call)
    BY DEF Working, Command, Subscribe
  <2>2. call \in Argument
    BY DEF IInv, NetworkTypeOK, Argument
  <2>3. call.kind \in {"extended", "form", "join", "parameters"}
    BY DEF SetupOps
  <2> QED
    BY <2>1, <2>2, <2>3
<1>2. UNCHANGED <<calls, rebooted, replaced, done>>
  BY DEF countVars, history
<1> QED
  BY <1>1, <1>2, WorkingKeeps

\* Setting the keys keeps the invariant.
LEMMA SecuritySetKeeps == ASSUME IInv, SetSecurity \/ SetExtended PROVE IInv'
<1>0. UNCHANGED <<version, item, call, seen, opening, ncp, countVars, history>>
  BY DEF SetSecurity, SetExtended
<1>1. /\ up \in Seq(Values) /\ <<>> \in Seq(Values) /\ call \in CallId /\ call \in Argument
      /\ UNCHANGED <<calls, rebooted, replaced, done>>
  <2>1. UNCHANGED <<calls, rebooted, replaced, done>>
    BY <1>0 DEF countVars, history
  <2>2. up \in Seq(Values) /\ call \in CallId /\ call \in Argument
    BY DEF IInv, NetworkTypeOK, Argument
  <2> QED
    BY <2>1, <2>2
<1>2. CASE /\ Answer("security", {"ok"})
           /\ \/ call.kind = "form" /\ Command
              \/ call.kind = "join" /\ Ask("extended", "extended", call) /\ UNCHANGED subVars
  <2>1. pc = "security" /\ wire' \in Seq(WireMessage) /\ Range(wire') \subseteq Range(wire) /\ Answered("ok")
    BY <1>2, AnswerShape
  <2>2. ~Deaf /\ seen = "none" => ncp.keys = call
    BY <2>1 DEF IInv, Answering, Working
  <2>3. CASE call.kind = "form" /\ Command
    BY <1>0, <2>1, <2>2, <2>3, CommandAskKeeps DEF SetupOps
  <2>4. CASE call.kind = "join" /\ Ask("extended", "extended", call) /\ UNCHANGED subVars
    <3>1. up' = up /\ pc \in Working
      BY <2>1, <2>4 DEF subVars, Working
    <3> QED
      BY <1>0, <1>1, <2>1, <2>2, <2>4, <3>1, WorkingKeeps
  <2> QED
    BY <1>2, <2>3, <2>4
<1>3. CASE Answer("security", {"refused", "error"}) /\ Fails
  <2>1. pc = "security" /\ wire' \in Seq(WireMessage) /\ Range(wire') \subseteq Range(wire)
    BY <1>3, AnswerShape
  <2>2. pc \notin Opening \cup {"closed"}
    BY <2>1 DEF Opening
  <2>3. Rest("idle") /\ up' = <<>> /\ UNCHANGED <<hostVars, ncp, countVars, history>>
    BY <1>0, <1>3 DEF Fails, Unsubscribe, hostVars
  <2> QED
    BY <1>1, <2>1, <2>2, <2>3, IdleKeeps
<1>4. CASE Answer("extended", {"ok", "refused", "error"}) /\ Command
  <2>1. pc = "extended" /\ wire' \in Seq(WireMessage) /\ Range(wire') \subseteq Range(wire)
    BY <1>4, AnswerShape
  <2>2. (~Deaf /\ seen = "none" => ncp.keys = call) /\ call.kind \in SetupOps
    BY <2>1 DEF IInv, Answering, Queue, Working, SetupOps
  <2> QED
    BY <1>0, <1>4, <2>1, <2>2, CommandAskKeeps
<1> QED
  BY <1>2, <1>3, <1>4 DEF SetSecurity, SetExtended

\* The answers of a call's commands keep the invariant.
LEMMA CommandedKeeps == ASSUME IInv, Commanded \/ AwaitStatus \/ ReadBack \/ Left \/ Permitted PROVE IInv'
<1>1. /\ up \in Seq(Values) /\ <<>> \in Seq(Values) /\ wire \in Seq(WireMessage)
      /\ ResultIsHeld /\ item \in Nat /\ "" \in Argument
  BY DEF IInv, NetworkTypeOK, Answering, Argument
<1>2. ASSUME NEW step \in {"command", "leave", "permit"}, NEW vals, Answer(step, vals), Rest("idle"),
             up' \in Seq(Values), UNCHANGED <<hostVars, ncp, countVars, history>>
      PROVE  IInv'
  <2>1. pc = step /\ wire' \in Seq(WireMessage) /\ Range(wire') \subseteq Range(wire)
    BY <1>2, AnswerShape
  <2>2. pc \notin Opening \cup {"closed"}
    BY <2>1 DEF Opening
  <2> QED
    BY <1>2, <2>1, <2>2, IdleKeeps
<1>3. CASE Commanded /\ Answer("command", {"ok"}) /\ Rest("await") /\ UNCHANGED subVars
  <2>1. pc = "command" /\ wire' \in Seq(WireMessage) /\ Range(wire') \subseteq Range(wire)
    BY <1>3, AnswerShape
  <2>2. UNCHANGED <<version, item, call, seen, opening, up, ncp, calls, rebooted, replaced, done>>
    BY <1>3 DEF Commanded, hostVars, subVars, countVars, history
  <2>3. ResultIsHeld' /\ pc \notin Opening \cup {"closed"}
    BY <1>1, <2>1, <2>2 DEF ResultIsHeld, Opening
  <2> QED
    BY <1>1, <1>3, <2>1, <2>2, <2>3, RestKeeps
<1>4. CASE Commanded /\ Answer("command", {"refused", "error"}) /\ Fails
  BY <1>1, <1>2, <1>4 DEF Commanded, Fails, Unsubscribe
<1>5. CASE Left
  BY <1>1, <1>2, <1>5 DEF Left, subVars
<1>6. CASE Permitted
  BY <1>1, <1>2, <1>6 DEF Permitted, subVars
<1>7. CASE /\ AwaitStatus /\ Head(up) = "up" /\ up' = Tail(up) /\ UNCHANGED version
           /\ Ask("readBack", "parameters", "")
  <2>1. /\ pc = "await" /\ up # <<>>
        /\ UNCHANGED <<version, item, call, seen, opening, calls, wire, ncp, rebooted, replaced, done>>
    BY <1>7 DEF AwaitStatus, countVars, history
  <2>2. up' \in Seq(Values) /\ "up" \in Range(up)
    <3>1. up \in Seq(Values) /\ up # <<>>
      BY <1>1, <2>1
    <3>2. Tail(up) \in Seq(Values) /\ Head(up) \in Range(up)
      BY <3>1, Tailed
    <3> QED
      BY <1>7, <3>2
  <2>4. pc \in Working
    BY <2>1 DEF Working
  <2>3. seen = "none" => ncp.tokens = Own
    BY <2>1, <2>2, <2>4 DEF IInv, Answering
  <2> QED
    BY <1>1, <1>7, <2>1, <2>2, <2>3, <2>4, WorkingKeeps
<1>8. CASE ReadBack
  <2>1. pc = "readBack" /\ wire' \in Seq(WireMessage) /\ Range(wire') \subseteq Range(wire)
    BY <1>8, AnswerShape DEF ReadBack
  <2>2. /\ Rest("idle") /\ up' = <<>>
        /\ UNCHANGED <<version, item, call, seen, opening, ncp, calls, rebooted, replaced>>
        /\ done' \subseteq done \cup {[call |-> call, seen |-> seen, held |-> ncp.tokens]}
    BY <1>8 DEF ReadBack, Fails, Unsubscribe, hostVars, countVars
  <2>3. seen = "none" => ncp.tokens = Own
    BY <2>1 DEF IInv, Answering, Working
  <2>4. ResultIsHeld' /\ pc \notin Opening \cup {"closed"}
    <3> DEFINE d == [call |-> call, seen |-> seen, held |-> ncp.tokens]
    <3>1. d.seen = "none" => d.held = [net |-> d.call, keys |-> d.call]
      BY <2>3 DEF Own
    <3>2. done' \subseteq done \cup {d}
      BY <2>2
    <3> HIDE DEF d
    <3>3. ResultIsHeld'
      BY <1>1, <3>1, <3>2 DEF ResultIsHeld
    <3> QED
      BY <2>1, <3>3 DEF Opening
  <2> QED
    BY <1>1, <2>1, <2>2, <2>4, RestKeeps
<1> QED
  BY <1>3, <1>4, <1>5, <1>6, <1>7, <1>8, WaitsKeep DEF Commanded, AwaitStatus

\* PermitJoin's commands.
LEMMA PermitStepKeeps == ASSUME IInv, PermitCheck \/ PolicySet \/ PolicyRead \/ TransientKey PROVE IInv'
<1>0. UNCHANGED <<version, item, call, seen, opening, subVars, ncp, countVars, history>>
  BY DEF PermitCheck, PolicySet, PolicyRead, TransientKey, PermitFails, PermitJoining
<1>1. /\ UNCHANGED <<version, item, call, seen, opening, calls, up, ncp, rebooted, replaced, done>>
      /\ UNCHANGED hostVars
  BY <1>0 DEF subVars, countVars, history, hostVars
<1>2. /\ up \in Seq(Values) /\ call \in CallId /\ opening \in BOOLEAN /\ calls \in Nat
      /\ {"", "0", "60", "trustCenter", "keyRequest"} \subseteq Argument
  BY DEF IInv, NetworkTypeOK, Argument
<1> DEFINE Steps == {"permitCheck", "trustCenter", "keyRequest", "policyRead", "transient"}
<1>3. ASSUME NEW step \in Steps, NEW vals, Answer(step, vals), Rest("idle") PROVE IInv'
  <2>1. pc = step /\ wire' \in Seq(WireMessage) /\ Range(wire') \subseteq Range(wire)
    BY <1>3, AnswerShape
  <2>2. pc \notin Opening \cup {"closed"}
    BY <2>1 DEF Opening
  <2> QED
    BY <1>0, <1>1, <1>2, <1>3, <2>1, <2>2, IdleKeeps
<1>4. ASSUME NEW step \in Steps, NEW vals, Answer(step, vals),
             NEW p \in Plain \ {"check"}, NEW op \in {"setPolicy", "getPolicy", "transient", "permit"},
             NEW arg \in {"", "0", "60", "trustCenter", "keyRequest"}, Ask(p, op, arg),
             p = "policyRead" => op = "getPolicy",
             p = "transient" \/ (op = "permit" /\ arg # "0") => ncp.policy \/ Deaf
      PROVE  IInv'
  <2>1. pc = step /\ wire' \in Seq(WireMessage) /\ Range(wire') \subseteq Range(wire)
    BY <1>4, AnswerShape
  <2>2. pc \in Plain \cup {"idle"} /\ p \in Plain /\ p # "check"
    BY <1>4, <2>1 DEF Plain
  <2>3. /\ op \in {"networkState", "leave", "setPolicy", "getPolicy", "transient", "permit"}
        /\ arg \in Argument
    BY <1>2, <1>4
  <2>4. call' \in CallId /\ opening' \in BOOLEAN /\ calls' \in Nat
    BY <1>1, <1>2
  <2> QED
    BY <1>1, <1>4, <2>1, <2>2, <2>3, <2>4, PlainKeeps
<1>5. {"trustCenter", "keyRequest", "policyRead", "transient", "permit"} \subseteq Plain \ {"check"}
  BY DEF Plain
<1> HIDE DEF Steps
<1>6. {"permitCheck", "trustCenter", "keyRequest", "policyRead", "transient"} \subseteq Steps
  BY DEF Steps
<1>7. CASE PermitCheck
  <2>1. CASE /\ Answer("permitCheck", {s \in Stack : Joined(s)})
             /\ Ask("trustCenter", "setPolicy", "trustCenter")
    BY <1>4, <1>5, <1>6, <2>1
  <2>2. CASE Answer("permitCheck", {s \in Stack : Joined(s)}) /\ Ask("permit", "permit", "0")
    BY <1>4, <1>5, <1>6, <2>2
  <2>3. CASE Answer("permitCheck", {s \in Stack : ~Joined(s)} \cup {"error"}) /\ Rest("idle")
    BY <1>3, <1>6, <2>3
  <2> QED
    BY <1>7, <2>1, <2>2, <2>3 DEF PermitCheck, PermitFails, PermitJoining
<1>8. CASE PolicySet
  <2>1. CASE Answer("trustCenter", {"ok"}) /\ Ask("keyRequest", "setPolicy", "keyRequest")
    BY <1>4, <1>5, <1>6, <2>1
  <2>2. CASE Answer("keyRequest", {"ok"}) /\ Ask("policyRead", "getPolicy", "trustCenter")
    BY <1>4, <1>5, <1>6, <2>2
  <2>3. CASE (\E step \in {"trustCenter", "keyRequest"} : Answer(step, {"refused", "error"})) /\ Rest("idle")
    BY <1>3, <1>6, <2>3
  <2> QED
    BY <1>8, <2>1, <2>2, <2>3 DEF PolicySet
<1>9. CASE PolicyRead
  <2>1. CASE Answer("policyRead", {"allows"}) /\ Ask("transient", "transient", "")
    <3>0. \/ "error" \in {"allows"}
          \/ \E v \in {"allows"} : Answered(v)
      BY <2>1, AnswerShape, Zenon
    <3>1. pc = "policyRead" /\ Answered("allows")
      BY <2>1, <3>0 DEF Answer
    <3>2. ncp.policy \/ Deaf
      BY <3>1 DEF IInv, Prepared
    <3> QED
      BY <1>4, <1>5, <1>6, <2>1, <3>2
  <2>2. CASE Answer("policyRead", {"denies", "error"}) /\ Rest("idle")
    BY <1>3, <1>6, <2>2
  <2> QED
    BY <1>9, <2>1, <2>2 DEF PolicyRead
<1>10. CASE TransientKey
  <2>1. Answer("transient", {"ok", "refused", "error"}) /\ Ask("permit", "permit", "60")
    BY <1>10 DEF TransientKey, PermitJoining
  <2>2. pc = "transient"
    BY <2>1, AnswerShape
  <2>3. ncp.policy \/ Deaf
    BY <2>2 DEF IInv, Prepared
  <2> QED
    BY <1>4, <1>5, <1>6, <2>1, <2>3
<1> QED
  BY <1>7, <1>8, <1>9, <1>10

-----------------------------------------------------------------------------
(***************************************************************************)
(* The invariant holds, and the properties with it                         *)
(***************************************************************************)
\* The invariant holds at first.
LEMMA InitIInv == Init => IInv
<1> SUFFICES ASSUME Init PROVE IInv
  OBVIOUS
<1>1. ncp \in Adapter /\ ncp.stack = "none" /\ ~ncp.window
  <2>1. PICK kind \in {"none", "form", "join"} :
          ncp = Boot([tokens |-> [net |-> [kind |-> kind, n |-> 0], keys |-> NoCall],
                      stack |-> "none", target |-> NoNetwork, agreed |-> "unset",
                      config |-> {}, endpoint |-> FALSE, policy |-> FALSE,
                      window |-> FALSE, keys |-> NoCall])
    BY DEF Init
  <2> DEFINE old == [tokens |-> [net |-> [kind |-> kind, n |-> 0], keys |-> NoCall],
                     stack |-> "none", target |-> NoNetwork, agreed |-> "unset",
                     config |-> {}, endpoint |-> FALSE, policy |-> FALSE,
                     window |-> FALSE, keys |-> NoCall]
  <2>2. [kind |-> kind, n |-> 0] \in CallId /\ NoCall \in CallId /\ NoNetwork \in Holding
    BY DEF CallId, NoCall, NoNetwork, Holding
  <2>3. old \in Adapter
    BY <2>2 DEF Adapter, Holding, Stack
  <2> HIDE DEF old
  <2>4. ncp = Boot(old)
    BY <2>1 DEF old
  <2> QED
    BY <2>3, <2>4, BootShape
<1>2. /\ pc = "closed" /\ no = 0 /\ version = Legacy /\ item = 1 /\ call = NoCall /\ seen = "none"
      /\ opening = FALSE /\ up = <<>> /\ request = <<>> /\ wire = <<>> /\ calls = 0
      /\ rebooted = FALSE /\ replaced = {} /\ done = {}
  BY DEF Init
<1>3. Range(request) = {} /\ Range(wire) = {} /\ (\A o : ~Queued(o)) /\ (\A v : ~Answered(v))
  BY <1>2 DEF Range, Queued, Answered
<1>4. NetworkTypeOK
  <2>1. NoCall \in CallId /\ Legacy \in Versions
    BY DEF NoCall, CallId
  <2>2. up \in Seq(Values) /\ request \in Seq(Request) /\ wire \in Seq(WireMessage)
    BY <1>2
  <2>3. opening \in BOOLEAN /\ rebooted \in BOOLEAN /\ no \in Nat /\ item \in Nat /\ calls \in Nat
    BY <1>2
  <2> QED
    BY <1>1, <1>2, <2>1, <2>2, <2>3 DEF NetworkTypeOK
<1>5. Lined /\ Current /\ Queue /\ Agreement
  BY <1>2, <1>3 DEF Lined, Increasing, Current, Queue, Agreement, Opening, Working, Places
<1>6. Prepared /\ Restored /\ Found /\ Answering
  BY <1>1, <1>2, <1>3 DEF Prepared, Restored, Found, Answering, ResultIsHeld, Opening, Working
<1> QED
  BY <1>4, <1>5, <1>6 DEF IInv

\* Every step keeps the invariant.
LEMMA StepIInv == IInv /\ [Next]_vars => IInv'
<1> SUFFICES ASSUME IInv, [Next]_vars PROVE IInv'
  OBVIOUS
<1>1. CASE Begin
  BY <1>1, OpenKeeps, BeginKeeps DEF Begin
<1>2. CASE Close
  BY <1>2, WaitsKeep
<1>3. CASE OpenStep
  BY <1>3, NegotiateKeeps, ConfirmKeeps, ConfigSetKeeps, ConfigReadKeeps, EndpointKeeps,
     NetworkInitKeeps, WaitsKeep DEF OpenStep
<1>4. CASE CallStep
  BY <1>4, CheckKeeps, SecuritySetKeeps, CommandedKeeps, WaitsKeep DEF CallStep
<1>5. CASE PermitStep
  BY <1>5, PermitStepKeeps, CommandedKeeps DEF PermitStep
<1>6. CASE Route
  BY <1>6, RouteKeeps
<1>7. CASE NcpStep
  BY <1>7, NcpKeeps
<1>8. CASE UNCHANGED vars
  <2>1. UNCHANGED <<pc, no, version, item, call, seen, opening, up, request, wire, ncp, calls,
                    rebooted, replaced, done>>
    BY <1>8 DEF vars, hostVars, subVars, countVars, history
  <2>2. NetworkTypeOK' /\ Lined' /\ Current'
    BY <2>1 DEF IInv, NetworkTypeOK, Lined, Current
  <2>3. Queue' /\ Agreement'
    BY <2>1 DEF IInv, Queue, Queued, Agreement, Answered
  <2>4. Prepared' /\ Restored'
    BY <2>1 DEF IInv, Prepared, Restored, Ready, Deaf, Queued, Answered, OnItsNetwork
  <2>5. Found' /\ Answering'
    BY <2>1 DEF IInv, Found, Answering, StillAs, Own, Deaf, Queued, Answered, ResultIsHeld
  <2> QED
    BY <2>2, <2>3, <2>4, <2>5 DEF IInv
<1> QED
  BY <1>1, <1>2, <1>3, <1>4, <1>5, <1>6, <1>7, <1>8 DEF Next, HostStep

\* The invariant holds in every reachable state.
LEMMA SpecIInv == Spec => []IInv
  BY InitIInv, StepIInv, PTL DEF Spec

\* The first command of a queue that is not empty is one of its commands.
LEMMA HeadIn == ASSUME IInv, request # <<>> PROVE Head(request) \in Range(request)
  BY Tailed DEF IInv, NetworkTypeOK

\* Nothing is used before it has been prepared, for any configuration and any version: the
\* stack has what devices need before it runs, commands are laid out as the NCP has agreed to,
\* and the network is open only under the policy (Open, negotiate, AllowJoins, PermitJoin).
THEOREM PreparedBeforeUseHolds == Spec => []PreparedBeforeUse
<1>1. ASSUME IInv PROVE PreparedBeforeUse
  <2>1. ncp.stack # "none" => Config \subseteq ncp.config /\ ncp.endpoint
    BY <1>1 DEF IInv, Prepared, Ready
  <2>2. ASSUME request # <<>>, Head(request).op # "version", ~rebooted
        PROVE  ncp.agreed = Head(request).layout
    <3>1. Head(request) \in Range(request)
      BY <1>1, <2>2, HeadIn
    <3> QED
      BY <1>1, <2>2, <3>1 DEF IInv, Agreement
  <2>3. ncp.window => ncp.policy
    BY <1>1 DEF IInv, Prepared
  <2> QED
    BY <2>1, <2>2, <2>3 DEF PreparedBeforeUse
<1> QED
  BY <1>1, SpecIInv, PTL

\* FormNetwork and JoinNetwork replace no live network but one that was coming up when they
\* looked, and an open session has asked for the one it holds (restoreNetwork).
THEOREM HoldsItsNetworkHolds == Spec => []HoldsItsNetwork
<1>1. IInv => HoldsItsNetwork
  BY DEF IInv, Found, Restored, OnItsNetwork, HoldsItsNetwork, Opening, Joined
<1> QED
  BY <1>1, SpecIInv, PTL

\* The result of a call that found no network is the network the adapter holds, with that
\* call's keys, however late its commands are carried out (FormNetwork, JoinNetwork).
THEOREM ResultIsHeldHolds == Spec => []ResultIsHeld
<1>1. IInv => ResultIsHeld
  BY DEF IInv, Answering
<1> QED
  BY <1>1, SpecIInv, PTL

=============================================================================
