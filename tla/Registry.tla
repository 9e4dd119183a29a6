------------------------------ MODULE Registry ------------------------------
(***************************************************************************)
(* The device registry of one gzb process: internal/store as the           *)
(* coordinator (zigbee/) uses it.  The readings loop, the joins loop,       *)
(* interviews, attribute reads and the naming API run on goroutines of      *)
(* their own and share the registry under dbMu; one action here is one      *)
(* hold of that lock.  The network keeps changing underneath: devices       *)
(* rejoin under new addresses, and addresses are handed out again.          *)
(*                                                                         *)
(* Abstractions.  A reading is the latest of a quantity that store.Open     *)
(* keeps (what it drops or renames is in module RegistryFile), and its      *)
(* value is the physical device it really came from; an interviewed         *)
(* structure is the physical device that really described                   *)
(* itself: that is what the properties are about.  Times are left out, so   *)
(* of several peers PeerOfModel may nominate any, and the map iteration of  *)
(* ByNodeID may find any of the records with that address (as it may in     *)
(* Go).  Manufacturer and model are one value.                              *)
(***************************************************************************)
EXTENDS FiniteSets, Naturals

CONSTANTS
    EUIs,           \* the physical devices, by IEEE address
    NodeIds,        \* 16-bit network addresses
    Names,          \* names a person may give
    Fold,           \* Names -> what strings.EqualFold compares
    ModelOf,        \* EUIs -> the model a device reports of itself
    Facts,          \* what join callbacks carry: "nodeType", "parent", "capability"
    Reporters,      \* the devices that report and answer reads
    DiskFails,      \* whether writing the registry file may fail
    Interviewers,   \* goroutines that call Interview
    MaxReaddress,   \* bound: how often the network hands out a new address
    MaxInterviews,  \* bound: interviews per goroutine
    MaxCrashes,     \* bound: crashes
    None            \* no name, no model, no structure, no peer

\* store.go:unknownIEEE, the key of a record known only by network address.
unknownIEEE(nodeID) == <<"unknown:", nodeID>>

\* What strings.ToUpper makes of a registry key: IEEE addresses are upper case
\* already, the placeholder prefix is not.
ToUpper(key) == IF key \in EUIs THEN key ELSE <<"UNKNOWN:", key[2]>>

Keys == EUIs \cup {unknownIEEE(n) : n \in NodeIds}

Models == {ModelOf[e] : e \in EUIs}

RegistryAssumption ==
    /\ \A n \in NodeIds : unknownIEEE(n) \notin EUIs /\ ToUpper(unknownIEEE(n)) \notin EUIs
    /\ None \notin EUIs \cup Names \cup Models
    /\ Reporters \subseteq EUIs
    /\ DiskFails \in BOOLEAN
    /\ MaxReaddress \in Nat /\ MaxInterviews \in Nat /\ MaxCrashes \in Nat

VARIABLES
    devices,        \* Store.Devices, in memory
    disk,           \* the registry file
    iv,             \* the Interview calls in progress
    addr,           \* the network: each device's address
    held,           \* history: the addresses each device has had
    told,           \* history: what callers were told is in the registry file
    readdressed, crashes

vars == <<devices, disk, iv, addr, held, told, readdressed, crashes>>

(***************************************************************************)
(* internal/store                                                          *)
(***************************************************************************)

Device == [ieee: Keys, nodeID: NodeIds, name: Names \cup {None}, facts: SUBSET Facts,
           readings: SUBSET EUIs, model: Models \cup {None},
           structure: EUIs \cup {None}, inheritedFrom: EUIs \cup {None}]

NewDevice(key, nodeID) ==
    [ieee |-> key, nodeID |-> nodeID, name |-> None, facts |-> {}, readings |-> {},
     model |-> None, structure |-> None, inheritedFrom |-> None]

\* Device.Identified: the record has a real IEEE address.
Identified(d) == d.ieee \in EUIs

\* Any of the records with this address: the first the map iteration meets.
ByNodeID(nodeID) == {k \in DOMAIN devices : devices[k].nodeID = nodeID}

\* Mutant of Promote: the placeholder's record is dropped.
PromoteFresh(pending, ieee) == NewDevice(ieee, pending.nodeID)

\* A placeholder becomes the device's permanent record.
Promote(pending, ieee) == [pending EXCEPT !.ieee = ieee]

\* Store.Observe: merge a sighting, promoting the placeholder of that address
\* when the device itself is not known yet.
Observe(ieee, nodeID) ==
    LET placeholder == unknownIEEE(nodeID)
        known == ieee \in DOMAIN devices
        d == IF known THEN devices[ieee]
             ELSE IF placeholder \in DOMAIN devices THEN Promote(devices[placeholder], ieee)
             ELSE NewDevice(ieee, nodeID)
        others == IF known THEN DOMAIN devices \ {ieee} ELSE DOMAIN devices \ {placeholder}
    IN  [k \in others \cup {ieee} |->
            IF k = ieee THEN [d EXCEPT !.nodeID = nodeID] ELSE devices[k]]

\* Store.ObserveNodeID, where no record has the address: a placeholder.
ObserveNodeID(nodeID) ==
    LET placeholder == unknownIEEE(nodeID)
    IN  [k \in DOMAIN devices \cup {placeholder} |->
            IF k = placeholder THEN NewDevice(placeholder, nodeID) ELSE devices[k]]

\* Mutant of QualifiesAsPeer: any interviewed record of the model will do.
QualifiesInherited(d, model, exclude) ==
    /\ d.ieee # exclude
    /\ Identified(d)
    /\ d.model = model
    /\ d.structure # None

\* Which records PeerOfModel considers.
QualifiesAsPeer(d, model, exclude) ==
    /\ d.ieee # exclude
    /\ Identified(d)
    /\ d.inheritedFrom = None
    /\ d.model = model
    /\ d.structure # None

\* Store.PeerOfModel: an interviewed device of the same model.
PeerOfModel(model, exclude) ==
    IF model = None THEN {}
    ELSE {k \in DOMAIN devices : QualifiesAsPeer(devices[k], model, exclude)}

\* Store.Save: a temporary file renamed over the registry, or an error.
SaveOk    == disk' = devices'
SaveFails == DiskFails /\ UNCHANGED disk

(***************************************************************************)
(* The registry as the coordinator writes it                               *)
(***************************************************************************)
Init ==
    /\ devices = [k \in {} |-> None]
    /\ disk = devices
    /\ iv = [i \in Interviewers |-> [pc |-> "idle", left |-> MaxInterviews]]
    /\ addr \in {f \in [EUIs -> NodeIds] : \A d, e \in EUIs : f[d] = f[e] => d = e}
    /\ held = [e \in EUIs |-> {addr[e]}]
    /\ told = {}
    /\ readdressed = 0
    /\ crashes = 0

network == <<addr, held, readdressed, crashes>>

\* handleIncoming and recordReadings: a report that device e sent from an
\* address it has had.  Nothing is saved.
RecordReadings(e, n) ==
    /\ n \in held[e]
    /\ \E k \in (IF ByNodeID(n) = {} THEN {unknownIEEE(n)} ELSE ByNodeID(n)) :
          LET db == IF ByNodeID(n) = {} THEN ObserveNodeID(n) ELSE devices
          IN  devices' = [db EXCEPT ![k].readings = @ \cup {e}]
    /\ UNCHANGED <<disk, iv, told, network>>

\* recordValues and recordBasicIdentity: device e answered a read at its address.
\* A record nobody has is not invented.
RecordValues(e, basic) ==
    IF ByNodeID(addr[e]) = {} THEN UNCHANGED devices
    ELSE \E k \in ByNodeID(addr[e]) :
            devices' = [devices EXCEPT ![k].readings = IF basic THEN @ ELSE @ \cup {e},
                                       ![k].model = IF basic THEN ModelOf[e] ELSE @]

ReadAttributes(e) ==
    /\ RecordValues(e, FALSE)
    /\ UNCHANGED <<disk, iv, told, network>>

\* Mutant of RecordJoin: the arrival is left for Close to save.
RecordJoinUnsaved(e, n, f) ==
    /\ n \in held[e]
    /\ devices' = [Observe(e, n) EXCEPT ![e].facts = @ \cup {f}]
    /\ told' = told \cup {<<e, "joined">>}
    /\ UNCHANGED <<disk, iv, network>>

\* recordJoin: one of the three callbacks of an arrival, saved at once; the
\* caller learns of a registry that would not save.
RecordJoin(e, n, f) ==
    /\ n \in held[e]
    /\ devices' = [Observe(e, n) EXCEPT ![e].facts = @ \cup {f}]
    /\ \/ SaveOk /\ told' = told \cup {<<e, "joined">>}
       \/ SaveFails /\ UNCHANGED told
    /\ UNCHANGED <<iv, network>>

\* Mutant of NameFree: names are compared as they are spelled.
NameFreeExact(name, key) ==
    \A k \in DOMAIN devices : devices[k].name = name => devices[k].ieee = devices[key].ieee

\* SetName's check: no other device answers to this name, ignoring case.
NameFree(name, key) ==
    \A k \in DOMAIN devices :
        devices[k].name # None /\ Fold[devices[k].name] = Fold[name]
            => devices[k].ieee = devices[key].ieee

\* Coordinator.SetName on the record a query resolved to.
SetName(k, name) ==
    /\ k \in DOMAIN devices
    /\ ToUpper(k) \in DOMAIN devices
    /\ NameFree(name, k)
    /\ devices' = [devices EXCEPT ![ToUpper(k)].name = name]
    /\ \/ SaveOk /\ told' = told \cup {<<k, "named">>}
       \/ SaveFails /\ UNCHANGED told
    /\ UNCHANGED <<iv, network>>

\* Coordinator.ClearName.
ClearName(k) ==
    /\ k \in DOMAIN devices
    /\ ToUpper(k) \in DOMAIN devices
    /\ devices' = [devices EXCEPT ![ToUpper(k)].name = None]
    /\ told' = told \ {<<k, "named">>}
    /\ SaveOk \/ SaveFails
    /\ UNCHANGED <<iv, network>>

(***************************************************************************)
(* Interview.  Every question may time out; the registry is read and       *)
(* written under separate holds of dbMu.                                    *)
(***************************************************************************)
InterviewStart(i, n, full) ==
    /\ iv[i].pc = "idle"
    /\ iv[i].left > 0
    /\ iv' = [iv EXCEPT ![i] = [pc |-> "identify", left |-> iv[i].left - 1, node |-> n, full |-> full,
                                model |-> None, facts |-> {}, structure |-> None, from |-> None]]
    /\ UNCHANGED <<devices, disk, told, network>>

\* The manufacturer and model, read from an endpoint that may be wrong.
Identify(i) ==
    /\ iv[i].pc = "identify"
    /\ \E e \in EUIs :
          /\ addr[e] = iv[i].node
          /\ RecordValues(e, TRUE)
          /\ iv' = [iv EXCEPT ![i].model = ModelOf[e],
                              ![i].pc = IF iv[i].full THEN "describe" ELSE "inherit"]
    /\ UNCHANGED <<disk, told, network>>

IdentifyFails(i) ==
    /\ iv[i].pc = "identify"
    /\ iv' = [iv EXCEPT ![i].pc = "describe"]
    /\ UNCHANGED <<devices, disk, told, network>>

\* What a node descriptor says too.
Described == Facts \cap {"nodeType", "capability"}

\* Mutant of MayInherit: an observed record inherits too.
MayInheritAlways(d) == TRUE

\* inheritFromPeer: only a record with nothing of its own inherits.
MayInherit(d) == d.structure = None \/ d.inheritedFrom # None

InheritFromPeer(i) ==
    /\ iv[i].pc = "inherit"
    /\ \/ \E k \in ByNodeID(iv[i].node) :
             /\ MayInherit(devices[k])
             /\ \E p \in PeerOfModel(iv[i].model, devices[k].ieee) :
                   iv' = [iv EXCEPT ![i].pc = "record", ![i].from = devices[p].ieee,
                                    ![i].facts = devices[p].facts \cap Described,
                                    ![i].structure = devices[p].structure]
       \/ /\ \/ ByNodeID(iv[i].node) = {}
             \/ \E k \in ByNodeID(iv[i].node) :
                   \/ ~MayInherit(devices[k])
                   \/ PeerOfModel(iv[i].model, devices[k].ieee) = {}
          /\ iv' = [iv EXCEPT ![i].pc = "describe"]
    /\ UNCHANGED <<devices, disk, told, network>>

\* The ZDO questions: the node descriptor, the endpoints and what they
\* implement; a sleepy device answers some and sleeps through others.
Describe(i) ==
    /\ iv[i].pc = "describe"
    /\ \E e \in EUIs, facts \in {{}, Described}, structure \in EUIs \cup {None} :
          /\ addr[e] = iv[i].node
          /\ structure \in {e, None}
          /\ iv' = [iv EXCEPT ![i].structure = structure, ![i].facts = facts,
                              ![i].pc = IF iv[i].model = None /\ structure # None
                                        THEN "again" ELSE "record"]
    /\ UNCHANGED <<devices, disk, told, network>>

DescribeFails(i) ==
    /\ iv[i].pc = "describe"
    /\ iv' = [iv EXCEPT ![i].pc = "record"]
    /\ UNCHANGED <<devices, disk, told, network>>

\* The second try at manufacturer and model, where the Basic cluster lives.
IdentifyAgain(i) ==
    /\ iv[i].pc = "again"
    /\ \/ /\ iv' = [iv EXCEPT ![i].pc = "record"]
          /\ UNCHANGED devices
       \/ \E e \in EUIs :
             /\ addr[e] = iv[i].node
             /\ RecordValues(e, TRUE)
             /\ iv' = [iv EXCEPT ![i].model = ModelOf[e], ![i].pc = "record"]
    /\ UNCHANGED <<disk, told, network>>

\* Whether an interview came back with anything.
LearnedSomething(desc) == desc.model # None \/ desc.structure # None \/ desc.facts # {}

\* applyInterview: the structure and where it came from travel together.  A node
\* descriptor replaces both the node type and the capability; one rebuilt from a
\* peer carries a zero value for what the peer's record does not have.
ApplyInterview(d, desc) ==
    [d EXCEPT !.model = IF desc.model # None THEN desc.model ELSE @,
              !.facts = IF desc.facts # {} THEN (@ \ Described) \cup desc.facts ELSE @,
              !.structure = IF desc.structure # None THEN desc.structure ELSE @,
              !.inheritedFrom = IF desc.structure # None THEN desc.from ELSE @]

\* recordInterview: applied to whichever record has the address now, and saved.
RecordInterview(i) ==
    /\ iv[i].pc = "record"
    /\ iv' = [iv EXCEPT ![i] = [pc |-> "idle", left |-> iv[i].left]]
    /\ \/ /\ ByNodeID(iv[i].node) = {} \/ ~LearnedSomething(iv[i])
          /\ UNCHANGED <<devices, disk, told>>
       \/ /\ LearnedSomething(iv[i])
          /\ \E k \in ByNodeID(iv[i].node) :
                /\ devices' = [devices EXCEPT ![k] = ApplyInterview(devices[k], iv[i])]
                /\ \/ /\ SaveOk
                      /\ told' = IF k \in EUIs /\ iv[i].structure # None
                                 THEN told \cup {<<k, "interviewed">>} ELSE told
                   \/ SaveFails /\ UNCHANGED told
    /\ UNCHANGED network

(***************************************************************************)
(* Saving at the end of a session, a crash, and the network                *)
(***************************************************************************)
\* Coordinator.Close and the end of the readings loop.
Flush ==
    /\ devices # disk
    /\ UNCHANGED <<devices, iv, told, network>>
    /\ SaveOk

\* The process dies and a new one opens the file.
Crash ==
    /\ crashes < MaxCrashes
    /\ crashes' = crashes + 1
    /\ devices' = disk
    /\ iv' = [i \in Interviewers |-> [pc |-> "idle", left |-> iv[i].left]]
    /\ UNCHANGED <<disk, told, addr, held, readdressed>>

\* A device rejoins and is issued an address no one holds now.
Readdress(e) ==
    /\ readdressed < MaxReaddress
    /\ \E n \in NodeIds :
          /\ \A d \in EUIs : addr[d] # n
          /\ addr' = [addr EXCEPT ![e] = n]
          /\ held' = [held EXCEPT ![e] = @ \cup {n}]
    /\ readdressed' = readdressed + 1
    /\ UNCHANGED <<devices, disk, iv, told, crashes>>

Next ==
    \/ \E e \in Reporters, n \in NodeIds : RecordReadings(e, n)
    \/ \E e \in Reporters : ReadAttributes(e)
    \/ \E e \in EUIs, n \in NodeIds, f \in Facts : RecordJoin(e, n, f)
    \/ \E k \in Keys, name \in Names : SetName(k, name)
    \/ \E k \in Keys : ClearName(k)
    \/ \E i \in Interviewers, n \in NodeIds, full \in BOOLEAN : InterviewStart(i, n, full)
    \/ \E i \in Interviewers :
          \/ Identify(i) \/ IdentifyFails(i) \/ InheritFromPeer(i)
          \/ Describe(i) \/ DescribeFails(i) \/ IdentifyAgain(i) \/ RecordInterview(i)
    \/ Flush
    \/ Crash
    \/ \E e \in EUIs : Readdress(e)

Spec == Init /\ [][Next]_vars

(***************************************************************************)
(* Properties                                                              *)
(***************************************************************************)

\* The registry's map and its records agree through every promotion, crash and
\* readdressing: a record lies under its own address, a placeholder under the
\* network address it stands for, and no two devices answer to one name.
RecordsAgree ==
    /\ \A k \in DOMAIN devices :
          /\ devices[k].ieee = k
          /\ k \notin EUIs => k = unknownIEEE(devices[k].nodeID)
    /\ \A j, k \in DOMAIN devices :
          /\ devices[j].name # None
          /\ devices[k].name # None
          /\ Fold[devices[j].name] = Fold[devices[k].name]
          => j = k

\* What Joins, SetName and Interview reported without an error survives a crash:
\* the registry file has it, whatever was written and renamed since.
Durable ==
    \A t \in told :
        /\ t[1] \in DOMAIN disk
        /\ t[2] = "joined" => disk[t[1]].facts # {}
        /\ t[2] = "named" => disk[t[1]].name # None
        /\ t[2] = "interviewed" => disk[t[1]].structure # None

\* Sightings are merged, never overwritten: short of a crash no step loses a
\* reading, a fact or a structure; a placeholder's move to its device's record.
NothingForgottenStep ==
    crashes' = crashes =>
        \A k \in DOMAIN devices : \E j \in DOMAIN devices' :
            /\ k \in EUIs => j = k
            /\ devices[k].readings \subseteq devices'[j].readings
            /\ devices[k].facts \subseteq devices'[j].facts
            /\ devices[k].structure # None => devices'[j].structure # None

\* ... whichever step it is.
NothingForgotten == [][NothingForgottenStep]_vars

\* The records of physical device e: its own, or the placeholder of an address
\* it has had.
RecordOf(e) == {e} \cup {unknownIEEE(n) : n \in held[e]}

\* What is known of a device is its own: readings are filed under the device that sent them;
\* a structure without InheritedFrom is the device's own answer, and one with it is the own
\* answer of the device it names, which reports the same model.  One bad match cannot copy
\* itself across the registry (RecordReading, Promote, QualifiesAsPeer, Inherit).
Provenance ==
    \A k \in DOMAIN devices :
        LET d == devices[k] IN
        /\ \A e \in d.readings : k \in RecordOf(e)
        /\ d.structure # None =>
              IF d.inheritedFrom = None THEN k \in RecordOf(d.structure)
              ELSE /\ d.inheritedFrom = d.structure
                   /\ ModelOf[d.structure] = d.model
                   /\ k \notin RecordOf(d.structure)

\* A device that has answered for itself is never given a sibling's answers.
OwnAnswersStayStep ==
    \A k \in DOMAIN devices \cap DOMAIN devices' :
        /\ crashes' = crashes
        /\ devices[k].structure # None
        /\ devices[k].inheritedFrom = None
        => devices'[k].inheritedFrom = None

\* ... whichever step it is.
OwnAnswersStay == [][OwnAnswersStayStep]_vars
=============================================================================
