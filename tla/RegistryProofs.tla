--------------------------- MODULE RegistryProofs ---------------------------
(***************************************************************************)
(* What the registry keeps, for any number of devices, addresses, names,    *)
(* interviews at a time, changes of address and crashes; and what its file  *)
(* keeps, for any number of processes, changes and failures.                *)
(***************************************************************************)
EXTENDS Registry, RegistryFile, TLAPS

(***************************************************************************)
(* Types                                                                   *)
(***************************************************************************)
\* A registry, in memory or in the file.
IsRegistry(db) == DOMAIN db \subseteq Keys /\ db \in [DOMAIN db -> Device]

\* An Interview under way.
Description == [pc: {"identify", "inherit", "describe", "again", "record"}, left: Nat,
                node: NodeIds, full: BOOLEAN, model: Models \cup {None},
                facts: SUBSET Described, structure: EUIs \cup {None}, from: EUIs \cup {None}]

TypeOK ==
    /\ IsRegistry(devices) /\ IsRegistry(disk)
    /\ iv \in [Interviewers -> [pc: {"idle"}, left: Nat] \cup Description]
    /\ addr \in [EUIs -> NodeIds]
    /\ held \in [EUIs -> SUBSET NodeIds] /\ \A e \in EUIs : addr[e] \in held[e]
    /\ crashes \in Nat

\* A record lies under its own address, a placeholder under the network address it stands for.
Filed(db) ==
    \A k \in DOMAIN db : db[k].ieee = k /\ (k \notin EUIs => k = unknownIEEE(db[k].nodeID))

\* No two records answer to one name.
NamesDiffer(db) ==
    \A j, k \in DOMAIN db :
        db[j].name # None /\ db[k].name # None /\ Fold[db[j].name] = Fold[db[k].name] => j = k

IInv ==
    /\ TypeOK
    /\ Filed(devices) /\ Filed(disk)
    /\ NamesDiffer(devices) /\ NamesDiffer(disk)

(***************************************************************************)
(* What one hold of dbMu does to the records                               *)
(***************************************************************************)
\* The record under k becomes d; the records under gone are dropped.
Put(gone, k, d) ==
    devices' = [j \in (DOMAIN devices \ gone) \cup {k} |-> IF j = k THEN d ELSE devices[j]]

\* What Put does to the records.
LEMMA PutFacts ==
    ASSUME NEW gone, NEW k, NEW d, Put(gone, k, d)
    PROVE  /\ DOMAIN devices' = (DOMAIN devices \ gone) \cup {k}
           /\ devices'[k] = d
           /\ \A j \in DOMAIN devices' \ {k} : j \in DOMAIN devices /\ devices'[j] = devices[j]
  BY DEF Put

\* Put over a record that is there.
LEMMA PutSame ==
    ASSUME NEW k \in DOMAIN devices, NEW d, Put({}, k, d)
    PROVE  /\ DOMAIN devices' = DOMAIN devices /\ devices'[k] = d
           /\ \A j \in DOMAIN devices \ {k} : devices'[j] = devices[j]
<1>1. (DOMAIN devices \ {}) \cup {k} = DOMAIN devices
  OBVIOUS
<1> QED
  BY <1>1 DEF Put

\* Put of a record that is not there.
LEMMA PutNew ==
    ASSUME NEW k, NEW d, k \notin DOMAIN devices, Put({}, k, d)
    PROVE  /\ DOMAIN devices' = DOMAIN devices \cup {k} /\ devices'[k] = d
           /\ \A j \in DOMAIN devices' \ {k} : j \in DOMAIN devices /\ devices'[j] = devices[j]
<1>1. (DOMAIN devices \ {}) \cup {k} = DOMAIN devices \cup {k}
  OBVIOUS
<1> QED
  BY <1>1 DEF Put

\* The keys of placeholders are no addresses of devices, however they are spelled.
LEMMA Placeholders ==
    ASSUME RegistryAssumption, NEW n \in NodeIds
    PROVE  /\ unknownIEEE(n) \in Keys \ EUIs /\ ToUpper(unknownIEEE(n)) \notin Keys
           /\ \A m : unknownIEEE(m) = unknownIEEE(n) => m = n
  BY DEF RegistryAssumption, unknownIEEE, ToUpper, Keys

\* An EXCEPT is a Put.
LEMMA Rewrites ==
    ASSUME IsRegistry(devices), NEW k \in DOMAIN devices, NEW d,
           devices' = [devices EXCEPT ![k] = d]
    PROVE  Put({}, k, d)
  BY DEF Put, IsRegistry

\* A report goes to a record with the address it came from, or to a new placeholder.
LEMMA ReadingWrites ==
    ASSUME RegistryAssumption, IInv, NEW e \in EUIs, NEW n \in NodeIds, RecordReadings(e, n)
    PROVE  \E k \in Keys :
              \/ /\ k \in ByNodeID(n)
                 /\ Put({}, k, [devices[k] EXCEPT !.readings = @ \cup {e}])
              \/ /\ ByNodeID(n) = {} /\ k = unknownIEEE(n) /\ k \notin DOMAIN devices
                 /\ Put({}, k, [NewDevice(k, n) EXCEPT !.readings = {e}])
<1>0. IsRegistry(devices) /\ Filed(devices)
  BY DEF IInv, TypeOK
<1>1. CASE ByNodeID(n) # {}
  <2>1. PICK k \in ByNodeID(n) : devices' = [devices EXCEPT ![k].readings = @ \cup {e}]
    BY <1>1 DEF RecordReadings
  <2>2. k \in DOMAIN devices /\ k \in Keys
    BY <1>0 DEF ByNodeID, IsRegistry
  <2>3. Put({}, k, [devices[k] EXCEPT !.readings = @ \cup {e}])
    BY <1>0, <2>1, <2>2, Rewrites
  <2> QED
    BY <2>2, <2>3
<1>2. CASE ByNodeID(n) = {}
  <2> DEFINE k == unknownIEEE(n)
  <2>1. devices' = [ObserveNodeID(n) EXCEPT ![k].readings = @ \cup {e}]
    BY <1>2 DEF RecordReadings
  <2>2. k \notin DOMAIN devices /\ k \in Keys
    <3>1. k \in Keys \ EUIs /\ \A m : k = unknownIEEE(m) => m = n
      BY Placeholders
    <3> HIDE DEF k
    <3> QED
      BY <1>0, <1>2, <3>1 DEF Filed, ByNodeID
  <2>3. ObserveNodeID(n) = [j \in DOMAIN devices \cup {k} |-> IF j = k THEN NewDevice(k, n) ELSE devices[j]]
    BY DEF ObserveNodeID
  <2>4. NewDevice(k, n).readings = {}
    BY DEF NewDevice
  <2> HIDE DEF k
  <2>5. Put({}, k, [NewDevice(k, n) EXCEPT !.readings = {e}])
    BY <2>1, <2>3, <2>4 DEF Put
  <2> QED
    BY <1>2, <2>2, <2>5 DEF k
<1> QED
  BY <1>1, <1>2

\* The answer to a read goes to a record with the device's address, if there is one.
LEMMA ValuesWrite ==
    ASSUME IInv, NEW e \in EUIs, NEW basic \in BOOLEAN, RecordValues(e, basic)
    PROVE  \/ UNCHANGED devices
           \/ \E k \in ByNodeID(addr[e]) :
                 Put({}, k, IF basic THEN [devices[k] EXCEPT !.model = ModelOf[e]]
                                     ELSE [devices[k] EXCEPT !.readings = @ \cup {e}])
<1>0. IsRegistry(devices)
  BY DEF IInv, TypeOK
<1> SUFFICES ASSUME ByNodeID(addr[e]) # {}
             PROVE  \E k \in ByNodeID(addr[e]) :
                       Put({}, k, IF basic THEN [devices[k] EXCEPT !.model = ModelOf[e]]
                                           ELSE [devices[k] EXCEPT !.readings = @ \cup {e}])
  BY DEF RecordValues
<1>1. PICK k \in ByNodeID(addr[e]) :
         devices' = [devices EXCEPT ![k].readings = IF basic THEN @ ELSE @ \cup {e},
                                    ![k].model = IF basic THEN ModelOf[e] ELSE @]
  BY DEF RecordValues
<1>2. k \in DOMAIN devices /\ devices[k] \in Device
  BY <1>0 DEF ByNodeID, IsRegistry
<1>3. CASE basic
  <2>1. devices' = [devices EXCEPT ![k] = [devices[k] EXCEPT !.model = ModelOf[e]]]
    BY <1>0, <1>1, <1>2, <1>3 DEF IsRegistry, Device
  <2> QED
    BY <1>0, <1>2, <1>3, <2>1, Rewrites
<1>4. CASE ~basic
  <2>1. devices' = [devices EXCEPT ![k] = [devices[k] EXCEPT !.readings = @ \cup {e}]]
    BY <1>0, <1>1, <1>2, <1>4 DEF IsRegistry, Device
  <2> QED
    BY <1>0, <1>2, <1>4, <2>1, Rewrites
<1> QED
  BY <1>3, <1>4

\* What Observe starts from: the device's record, the placeholder of its address, or nothing.
Before(e, n) ==
    IF e \in DOMAIN devices THEN devices[e]
    ELSE IF unknownIEEE(n) \in DOMAIN devices THEN Promote(devices[unknownIEEE(n)], e)
    ELSE NewDevice(e, n)

\* The placeholder that goes when it becomes the device's record.
Promoted(e, n) == IF e \in DOMAIN devices THEN {} ELSE {unknownIEEE(n)}

\* An arrival goes to the device's record.
LEMMA JoinWrites ==
    ASSUME RegistryAssumption, NEW e \in EUIs, NEW n \in NodeIds, NEW f, RecordJoin(e, n, f)
    PROVE  Put(Promoted(e, n), e, [Before(e, n) EXCEPT !.nodeID = n, !.facts = @ \cup {f}])
<1> DEFINE d == [Before(e, n) EXCEPT !.nodeID = n]
           D == (DOMAIN devices \ Promoted(e, n)) \cup {e}
<1>1. Observe(e, n) = [k \in D |-> IF k = e THEN d ELSE devices[k]]
  <2>1. CASE e \in DOMAIN devices
    <3>1. D = (DOMAIN devices \ {e}) \cup {e}
      BY <2>1 DEF Promoted
    <3>2. d = [devices[e] EXCEPT !.nodeID = n]
      BY <2>1 DEF Before
    <3> HIDE DEF d, D
    <3> QED
      BY <2>1, <3>1, <3>2, Zenon DEF Observe
  <2>2. CASE e \notin DOMAIN devices
    BY <2>2 DEF Observe, Before, Promoted
  <2> QED
    BY <2>1, <2>2
<1>2. devices' = [Observe(e, n) EXCEPT ![e].facts = @ \cup {f}]
  BY DEF RecordJoin
<1>3. [d EXCEPT !.facts = @ \cup {f}] = [Before(e, n) EXCEPT !.nodeID = n, !.facts = @ \cup {f}]
  OBVIOUS
<1> HIDE DEF d
<1>4. devices' = [k \in D |-> IF k = e THEN [d EXCEPT !.facts = @ \cup {f}] ELSE devices[k]]
  BY <1>1, <1>2
<1> QED
  BY <1>3, <1>4 DEF Put

\* Only devices with an address of their own are named.
LEMMA NamesWrite ==
    ASSUME RegistryAssumption, IInv, NEW k \in Keys, NEW name, SetName(k, name) \/ ClearName(k)
    PROVE  /\ k \in DOMAIN devices /\ k \in EUIs
           /\ SetName(k, name) => Put({}, k, [devices[k] EXCEPT !.name = name])
           /\ ClearName(k) => Put({}, k, [devices[k] EXCEPT !.name = None])
<1>0. IsRegistry(devices)
  BY DEF IInv, TypeOK
<1>1. k \in DOMAIN devices /\ ToUpper(k) \in DOMAIN devices /\ ToUpper(k) \in Keys
  BY <1>0 DEF SetName, ClearName, IsRegistry
<1>2. k \in EUIs
  BY <1>1, Placeholders DEF Keys
<1>3. ToUpper(k) = k
  BY <1>2 DEF ToUpper
<1> QED
  BY <1>0, <1>1, <1>2, <1>3, Rewrites DEF SetName, ClearName

\* An interview goes to a record with the address it asked.
LEMMA InterviewWrites ==
    ASSUME IInv, NEW i \in Interviewers, RecordInterview(i)
    PROVE  \/ UNCHANGED <<devices, disk, told>>
           \/ /\ iv[i].pc = "record" /\ LearnedSomething(iv[i])
              /\ \E k \in ByNodeID(iv[i].node) :
                    /\ Put({}, k, ApplyInterview(devices[k], iv[i]))
                    /\ \/ /\ SaveOk
                          /\ told' = IF k \in EUIs /\ iv[i].structure # None
                                     THEN told \cup {<<k, "interviewed">>} ELSE told
                       \/ SaveFails /\ UNCHANGED told
<1>0. IsRegistry(devices)
  BY DEF IInv, TypeOK
<1> QED
  BY <1>0, Rewrites DEF RecordInterview, ByNodeID

(***************************************************************************)
(* The map and its records agree                                           *)
(***************************************************************************)
Good(db) == IsRegistry(db) /\ Filed(db) /\ NamesDiffer(db)

\* The types of new and promoted records.
LEMMA NewDeviceType ==
    ASSUME NEW k \in Keys, NEW n \in NodeIds
    PROVE  /\ NewDevice(k, n) \in Device
           /\ NewDevice(k, n).ieee = k /\ NewDevice(k, n).nodeID = n /\ NewDevice(k, n).name = None
           /\ NewDevice(k, n).readings = {} /\ NewDevice(k, n).structure = None
           /\ NewDevice(k, n).model = None /\ NewDevice(k, n).inheritedFrom = None
  BY DEF NewDevice, Device

\* What is known before an observation is a record.
LEMMA BeforeType ==
    ASSUME RegistryAssumption, IInv, NEW e \in EUIs, NEW n \in NodeIds
    PROVE  /\ Before(e, n) \in Device /\ Before(e, n).ieee = e
           /\ e \in Keys
<1>1. e \in Keys /\ IsRegistry(devices) /\ Filed(devices)
  BY DEF IInv, TypeOK, Keys
<1>2. CASE e \in DOMAIN devices
  BY <1>1, <1>2 DEF Before, IsRegistry, Filed
<1>3. CASE e \notin DOMAIN devices /\ unknownIEEE(n) \in DOMAIN devices
  <2>1. devices[unknownIEEE(n)] \in Device
    BY <1>1, <1>3 DEF IsRegistry
  <2> QED
    BY <1>1, <1>3, <2>1 DEF Before, Promote, Device
<1>4. CASE e \notin DOMAIN devices /\ unknownIEEE(n) \notin DOMAIN devices
  BY <1>1, <1>4, NewDeviceType DEF Before
<1> QED
  BY <1>1, <1>2, <1>3, <1>4

\* A record that keeps its key, its address and its name.
LEMMA GoodUpdate ==
    ASSUME Good(devices), NEW k \in DOMAIN devices, NEW d \in Device, Put({}, k, d),
           d.ieee = devices[k].ieee, d.nodeID = devices[k].nodeID, d.name = devices[k].name
    PROVE  Good(devices')
<1>1. /\ DOMAIN devices' = DOMAIN devices /\ devices'[k] = d
      /\ \A j \in DOMAIN devices \ {k} : devices'[j] = devices[j]
  BY PutSame
<1>2. IsRegistry(devices')
  <2>1. \A j \in DOMAIN devices' : devices'[j] \in Device
    BY <1>1 DEF Good, IsRegistry
  <2>2. devices' = [j \in DOMAIN devices' |-> devices'[j]]
    BY DEF Put
  <2> QED
    BY <1>1, <2>1, <2>2 DEF Good, IsRegistry
<1>3. Filed(devices')
  BY <1>1 DEF Good, Filed
<1>4. NamesDiffer(devices')
  <2>1. \A j \in DOMAIN devices' : devices'[j].name = devices[j].name
    BY <1>1
  <2> QED
    BY <1>1, <2>1 DEF Good, NamesDiffer
<1> QED
  BY <1>2, <1>3, <1>4 DEF Good

\* A reading keeps the records in agreement.
LEMMA GoodReading ==
    ASSUME RegistryAssumption, IInv, NEW e \in EUIs, NEW n \in NodeIds, RecordReadings(e, n)
    PROVE  Good(devices')
<1>0. Good(devices)
  BY DEF IInv, TypeOK, Good
<1>1. PICK k \in Keys :
         \/ /\ k \in ByNodeID(n)
            /\ Put({}, k, [devices[k] EXCEPT !.readings = @ \cup {e}])
         \/ /\ ByNodeID(n) = {} /\ k = unknownIEEE(n) /\ k \notin DOMAIN devices
            /\ Put({}, k, [NewDevice(k, n) EXCEPT !.readings = {e}])
  BY ReadingWrites
<1>2. CASE k \in ByNodeID(n) /\ Put({}, k, [devices[k] EXCEPT !.readings = @ \cup {e}])
  <2>1. k \in DOMAIN devices /\ devices[k] \in Device
    BY <1>0, <1>2 DEF ByNodeID, Good, IsRegistry
  <2>2. [devices[k] EXCEPT !.readings = @ \cup {e}] \in Device
    BY <2>1 DEF Device
  <2> QED
    BY <1>0, <1>2, <2>1, <2>2, GoodUpdate DEF Device
<1>3. CASE /\ k = unknownIEEE(n) /\ k \notin DOMAIN devices
           /\ Put({}, k, [NewDevice(k, n) EXCEPT !.readings = {e}])
  <2> DEFINE d == [NewDevice(k, n) EXCEPT !.readings = {e}]
  <2>1. d \in Device /\ d.ieee = k /\ d.nodeID = n /\ d.name = None
    BY NewDeviceType DEF Device
  <2> HIDE DEF d
  <2>2. /\ DOMAIN devices' = DOMAIN devices \cup {k} /\ devices'[k] = d
        /\ \A j \in DOMAIN devices' \ {k} : j \in DOMAIN devices /\ devices'[j] = devices[j]
    <3>1. Put({}, k, d)
      BY <1>3 DEF d
    <3> QED
      BY <1>3, <3>1, PutNew
  <2>3. IsRegistry(devices')
    <3>1. \A j \in DOMAIN devices' : devices'[j] \in Device
      BY <1>0, <2>1, <2>2 DEF Good, IsRegistry
    <3>2. devices' = [j \in DOMAIN devices' |-> devices'[j]]
      BY <1>3 DEF Put
    <3> QED
      BY <1>0, <2>2, <3>1, <3>2 DEF Good, IsRegistry
  <2>4. Filed(devices')
    BY <1>0, <1>3, <2>1, <2>2 DEF Good, Filed
  <2>5. NamesDiffer(devices')
    BY <1>0, <2>1, <2>2 DEF Good, NamesDiffer
  <2> QED
    BY <2>3, <2>4, <2>5 DEF Good
<1> QED
  BY <1>1, <1>2, <1>3

\* Values that were read keep the records in agreement.
LEMMA GoodValues ==
    ASSUME RegistryAssumption, IInv, NEW e \in EUIs, NEW basic \in BOOLEAN, RecordValues(e, basic)
    PROVE  Good(devices')
<1>0. Good(devices)
  BY DEF IInv, TypeOK, Good
<1>1. CASE UNCHANGED devices
  BY <1>0, <1>1
<1>2. ASSUME NEW k \in ByNodeID(addr[e]),
             Put({}, k, IF basic THEN [devices[k] EXCEPT !.model = ModelOf[e]]
                                 ELSE [devices[k] EXCEPT !.readings = @ \cup {e}])
      PROVE  Good(devices')
  <2> DEFINE d == IF basic THEN [devices[k] EXCEPT !.model = ModelOf[e]]
                           ELSE [devices[k] EXCEPT !.readings = @ \cup {e}]
  <2>1. k \in DOMAIN devices /\ devices[k] \in Device
    BY <1>0, <1>2 DEF ByNodeID, Good, IsRegistry
  <2>2. d \in Device /\ d.ieee = devices[k].ieee /\ d.nodeID = devices[k].nodeID /\ d.name = devices[k].name
    <3>1. ModelOf[e] \in Models
      BY DEF Models
    <3> QED
      BY <2>1, <3>1 DEF Device
  <2>3. Put({}, k, d)
    BY <1>2
  <2> HIDE DEF d
  <2> QED
    BY <1>0, <2>1, <2>2, <2>3, GoodUpdate
<1> QED
  BY <1>1, <1>2, ValuesWrite

\* A join keeps the records in agreement.
LEMMA GoodJoin ==
    ASSUME RegistryAssumption, IInv, NEW e \in EUIs, NEW n \in NodeIds, NEW f \in Facts, RecordJoin(e, n, f)
    PROVE  Good(devices')
<1> DEFINE d == [Before(e, n) EXCEPT !.nodeID = n, !.facts = @ \cup {f}]
           u == unknownIEEE(n)
<1>0. Good(devices)
  BY DEF IInv, TypeOK, Good
<1>1. d \in Device /\ d.ieee = e /\ d.nodeID = n /\ d.name = Before(e, n).name /\ e \in Keys
  <2>1. Before(e, n) \in Device /\ Before(e, n).ieee = e /\ e \in Keys
    BY BeforeType
  <2> QED
    BY <2>1 DEF Device
<1>2. Put(Promoted(e, n), e, d)
  BY JoinWrites
<1> HIDE DEF d
<1>3. /\ DOMAIN devices' = (DOMAIN devices \ Promoted(e, n)) \cup {e} /\ devices'[e] = d
      /\ \A j \in DOMAIN devices' \ {e} : j \in DOMAIN devices /\ devices'[j] = devices[j]
  BY <1>2, PutFacts
<1>4. IsRegistry(devices')
  <2>1. \A j \in DOMAIN devices' : devices'[j] \in Device
    BY <1>0, <1>1, <1>3 DEF Good, IsRegistry
  <2>2. devices' = [j \in DOMAIN devices' |-> devices'[j]]
    BY <1>2 DEF Put
  <2> QED
    BY <1>0, <1>1, <1>3, <2>1, <2>2 DEF Good, IsRegistry
<1>5. Filed(devices')
  BY <1>0, <1>1, <1>3 DEF Good, Filed
<1>6. NamesDiffer(devices')
  <2>1. CASE e \in DOMAIN devices
    <3>1. \A j \in DOMAIN devices' : j \in DOMAIN devices /\ devices'[j].name = devices[j].name
      BY <1>1, <1>3, <2>1 DEF Before
    <3> QED
      BY <1>0, <3>1 DEF Good, NamesDiffer
  <2>2. CASE e \notin DOMAIN devices /\ u \in DOMAIN devices
    <3>1. d.name = devices[u].name
      BY <1>1, <2>2 DEF Before, Promote
    <3>2. u \notin DOMAIN devices' \ {e}
      BY <1>3, <2>2 DEF Promoted
    <3> HIDE DEF u
    <3> QED
      BY <1>0, <1>3, <2>2, <3>1, <3>2 DEF Good, NamesDiffer
  <2>3. CASE e \notin DOMAIN devices /\ u \notin DOMAIN devices
    <3>1. d.name = None
      BY <1>1, <2>3, NewDeviceType DEF Before
    <3> QED
      BY <1>0, <1>3, <3>1 DEF Good, NamesDiffer
  <2> QED
    BY <2>1, <2>2, <2>3
<1> QED
  BY <1>4, <1>5, <1>6 DEF Good

\* Naming keeps the records in agreement.
LEMMA GoodNaming ==
    ASSUME RegistryAssumption, IInv, NEW k \in Keys, NEW name \in Names \cup {None},
           SetName(k, name) \/ ClearName(k)
    PROVE  Good(devices')
<1>0. Good(devices)
  BY DEF IInv, TypeOK, Good
<1>1. PICK called \in {name, None} :
        /\ Put({}, k, [devices[k] EXCEPT !.name = called])
        /\ called # None => NameFree(called, k)
  BY NamesWrite DEF SetName
<1> DEFINE d == [devices[k] EXCEPT !.name = called]
<1>2. k \in DOMAIN devices /\ devices[k] \in Device
  BY <1>0, NamesWrite DEF Good, IsRegistry
<1>3. d \in Device /\ d.ieee = devices[k].ieee /\ d.nodeID = devices[k].nodeID /\ d.name = called
  BY <1>2 DEF Device
<1> HIDE DEF d
<1>4. /\ DOMAIN devices' = DOMAIN devices /\ devices'[k] = d
      /\ \A j \in DOMAIN devices \ {k} : devices'[j] = devices[j]
  <2>1. Put({}, k, d)
    BY <1>1 DEF d
  <2> QED
    BY <1>2, <2>1, PutSame
<1>5. IsRegistry(devices')
  <2>1. \A j \in DOMAIN devices' : devices'[j] \in Device
    BY <1>0, <1>3, <1>4 DEF Good, IsRegistry
  <2>2. devices' = [j \in DOMAIN devices' |-> devices'[j]]
    BY <1>1 DEF Put
  <2> QED
    BY <1>0, <1>4, <2>1, <2>2 DEF Good, IsRegistry
<1>6. Filed(devices')
  BY <1>0, <1>3, <1>4 DEF Good, Filed
<1>7. NamesDiffer(devices')
  <2>1. \A j \in DOMAIN devices : devices[j].name # None /\ called # None
                                     /\ Fold[devices[j].name] = Fold[called] => j = k
    BY <1>0, <1>1, <1>2 DEF NameFree, Good, Filed
  <2> QED
    BY <1>0, <1>3, <1>4, <2>1 DEF Good, NamesDiffer
<1> QED
  BY <1>5, <1>6, <1>7 DEF Good

\* What ApplyInterview leaves alone.
LEMMA Applied ==
    ASSUME NEW d \in Device, NEW desc \in Description
    PROVE  /\ ApplyInterview(d, desc) \in Device
           /\ ApplyInterview(d, desc).ieee = d.ieee /\ ApplyInterview(d, desc).nodeID = d.nodeID
           /\ ApplyInterview(d, desc).name = d.name /\ ApplyInterview(d, desc).readings = d.readings
           /\ ApplyInterview(d, desc).model = IF desc.model # None THEN desc.model ELSE d.model
           /\ ApplyInterview(d, desc).facts =
                 IF desc.facts # {} THEN (d.facts \ Described) \cup desc.facts ELSE d.facts
           /\ ApplyInterview(d, desc).structure =
                 IF desc.structure # None THEN desc.structure ELSE d.structure
           /\ ApplyInterview(d, desc).inheritedFrom =
                 IF desc.structure # None THEN desc.from ELSE d.inheritedFrom
<1> DEFINE facts == IF desc.facts # {} THEN (d.facts \ Described) \cup desc.facts ELSE d.facts
<1>1. facts \subseteq Facts
  BY DEF Device, Description, Described
<1>2. ApplyInterview(d, desc) =
        [d EXCEPT !.model = IF desc.model # None THEN desc.model ELSE d.model,
                  !.facts = facts,
                  !.structure = IF desc.structure # None THEN desc.structure ELSE d.structure,
                  !.inheritedFrom = IF desc.structure # None THEN desc.from ELSE d.inheritedFrom]
  BY DEF ApplyInterview
<1> HIDE DEF facts
<1>0. /\ (IF desc.model # None THEN desc.model ELSE d.model) \in Models \cup {None}
      /\ (IF desc.structure # None THEN desc.structure ELSE d.structure) \in EUIs \cup {None}
      /\ (IF desc.structure # None THEN desc.from ELSE d.inheritedFrom) \in EUIs \cup {None}
  BY DEF Device, Description
<1>3. /\ ApplyInterview(d, desc) \in Device
      /\ ApplyInterview(d, desc).ieee = d.ieee /\ ApplyInterview(d, desc).nodeID = d.nodeID
      /\ ApplyInterview(d, desc).name = d.name /\ ApplyInterview(d, desc).readings = d.readings
      /\ ApplyInterview(d, desc).facts = facts
  BY <1>0, <1>1, <1>2 DEF Device
<1>4. /\ ApplyInterview(d, desc).model = IF desc.model # None THEN desc.model ELSE d.model
      /\ ApplyInterview(d, desc).structure = IF desc.structure # None THEN desc.structure ELSE d.structure
      /\ ApplyInterview(d, desc).inheritedFrom = IF desc.structure # None THEN desc.from ELSE d.inheritedFrom
  BY <1>2 DEF Device
<1> QED
  BY <1>3, <1>4 DEF facts

\* What an interview records keeps the records in agreement.
LEMMA GoodInterview ==
    ASSUME RegistryAssumption, IInv, NEW i \in Interviewers, RecordInterview(i)
    PROVE  Good(devices')
<1>0. Good(devices) /\ iv[i] \in [pc: {"idle"}, left: Nat] \cup Description
  BY DEF IInv, TypeOK, Good
<1>1. CASE UNCHANGED devices
  BY <1>0, <1>1
<1>2. ASSUME iv[i].pc = "record", NEW k \in ByNodeID(iv[i].node), Put({}, k, ApplyInterview(devices[k], iv[i]))
      PROVE  Good(devices')
  <2>1. k \in DOMAIN devices /\ devices[k] \in Device
    BY <1>0, <1>2 DEF ByNodeID, Good, IsRegistry
  <2>2. iv[i] \in Description
    BY <1>0, <1>2
  <2> QED
    BY <1>0, <1>2, <2>1, <2>2, Applied, GoodUpdate
<1> QED
  BY <1>1, <1>2, InterviewWrites

\* No interview is ever in a state it has no handler for.
LEMMA InterviewType ==
    ASSUME RegistryAssumption, TypeOK, NEW i \in Interviewers,
           \/ \E n \in NodeIds, full \in BOOLEAN : InterviewStart(i, n, full)
           \/ Identify(i) \/ IdentifyFails(i) \/ InheritFromPeer(i)
           \/ Describe(i) \/ DescribeFails(i) \/ IdentifyAgain(i) \/ RecordInterview(i)
    PROVE  iv' \in [Interviewers -> [pc: {"idle"}, left: Nat] \cup Description]
<1> DEFINE Kind == [pc: {"idle"}, left: Nat] \cup Description
<1>0. iv \in [Interviewers -> Kind] /\ IsRegistry(devices)
  BY DEF TypeOK
<1>1. \A d \in Description, at \in {"inherit", "describe", "again", "record"} :
         [d EXCEPT !.pc = at] \in Description
  BY DEF Description
<1>2. \A d \in Description, at \in {"describe", "inherit", "record"}, m \in Models :
         [d EXCEPT !.model = m, !.pc = at] \in Description
  BY DEF Description
<1>3. \A d \in Description, at \in {"again", "record"}, s \in EUIs \cup {None}, F \in SUBSET Described :
         [d EXCEPT !.structure = s, !.facts = F, !.pc = at] \in Description
  BY DEF Description
<1>4. \A d \in Description, s, p \in EUIs \cup {None}, F \in SUBSET Described :
         [d EXCEPT !.pc = "record", !.from = p, !.facts = F, !.structure = s] \in Description
  BY DEF Description
<1>5. \A d \in Kind : d.pc # "idle" => d \in Description
  OBVIOUS
<1>6. \A d \in Kind : d.left \in Nat /\ d.pc = d.pc
  BY DEF Description
<1>7. \A e \in EUIs : ModelOf[e] \in Models
  BY DEF Models
<1> SUFFICES ASSUME NEW v \in Kind, iv' = [iv EXCEPT ![i] = v] PROVE iv' \in [Interviewers -> Kind]
  <2>1. ASSUME NEW n \in NodeIds, NEW full \in BOOLEAN, InterviewStart(i, n, full)
        PROVE  \E v \in Kind : iv' = [iv EXCEPT ![i] = v]
    <3> DEFINE v == [pc |-> "identify", left |-> iv[i].left - 1, node |-> n, full |-> full,
                     model |-> None, facts |-> {}, structure |-> None, from |-> None]
    <3>1. iv[i].left - 1 \in Nat
      BY <1>0, <1>6, <2>1 DEF InterviewStart
    <3>2. v \in Description
      BY <3>1 DEF Description
    <3>3. iv' = [iv EXCEPT ![i] = v]
      BY <2>1 DEF InterviewStart
    <3> HIDE DEF v
    <3> QED
      BY <3>2, <3>3
  <2>2. ASSUME Identify(i)
        PROVE  \E v \in Kind : iv' = [iv EXCEPT ![i] = v]
    <3>1. PICK e \in EUIs :
             iv' = [iv EXCEPT ![i].model = ModelOf[e],
                              ![i].pc = IF iv[i].full THEN "describe" ELSE "inherit"]
      BY <2>2 DEF Identify
    <3> DEFINE v == [iv[i] EXCEPT !.model = ModelOf[e],
                                  !.pc = IF iv[i].full THEN "describe" ELSE "inherit"]
    <3>2. iv[i] \in Description
      BY <1>0, <1>5, <2>2 DEF Identify
    <3>3. v \in Kind
      BY <1>2, <1>7, <3>2
    <3>4. iv' = [iv EXCEPT ![i] = v]
      BY <1>0, <3>1, <3>2 DEF Description
    <3> QED
      BY <3>3, <3>4
  <2>3. ASSUME IdentifyFails(i) \/ DescribeFails(i)
        PROVE  \E v \in Kind : iv' = [iv EXCEPT ![i] = v]
    <3>1. iv[i] \in Description
      BY <1>0, <1>5, <2>3 DEF IdentifyFails, DescribeFails
    <3>2. PICK at \in {"describe", "record"} : iv' = [iv EXCEPT ![i] = [iv[i] EXCEPT !.pc = at]]
      BY <1>0, <2>3 DEF IdentifyFails, DescribeFails
    <3> QED
      BY <1>1, <3>1, <3>2
  <2>4. ASSUME InheritFromPeer(i)
        PROVE  \E v \in Kind : iv' = [iv EXCEPT ![i] = v]
    <3>1. iv[i] \in Description
      BY <1>0, <1>5, <2>4 DEF InheritFromPeer
    <3>2. CASE iv' = [iv EXCEPT ![i].pc = "describe"]
      <4>1. iv' = [iv EXCEPT ![i] = [iv[i] EXCEPT !.pc = "describe"]]
        BY <1>0, <3>2
      <4> QED
        BY <1>1, <3>1, <4>1
    <3>3. ASSUME NEW k \in DOMAIN devices, NEW p \in PeerOfModel(iv[i].model, devices[k].ieee),
                 iv' = [iv EXCEPT ![i].pc = "record", ![i].from = devices[p].ieee,
                                  ![i].facts = devices[p].facts \cap Described,
                                  ![i].structure = devices[p].structure]
          PROVE  \E v \in Kind : iv' = [iv EXCEPT ![i] = v]
      <4>1. p \in DOMAIN devices /\ devices[p].ieee \in EUIs /\ devices[p] \in Device
        BY <1>0, <3>3 DEF PeerOfModel, QualifiesAsPeer, Identified, IsRegistry
      <4>2. devices[p].structure \in EUIs \cup {None}
        BY <4>1 DEF Device
      <4> DEFINE v == [iv[i] EXCEPT !.pc = "record", !.from = devices[p].ieee,
                                    !.facts = devices[p].facts \cap Described,
                                    !.structure = devices[p].structure]
      <4>3. v \in Kind
        BY <1>4, <3>1, <4>1, <4>2
      <4>4. iv' = [iv EXCEPT ![i] = v]
        BY <1>0, <3>1, <3>3 DEF Description
      <4> QED
        BY <4>3, <4>4
    <3> QED
      BY <2>4, <3>2, <3>3 DEF InheritFromPeer, ByNodeID
  <2>5. ASSUME Describe(i)
        PROVE  \E v \in Kind : iv' = [iv EXCEPT ![i] = v]
    <3>1. iv[i] \in Description
      BY <1>0, <1>5, <2>5 DEF Describe
    <3>2. PICK F \in {{}, Described}, s \in EUIs \cup {None} :
             iv' = [iv EXCEPT ![i].structure = s, ![i].facts = F,
                              ![i].pc = IF iv[i].model = None /\ s # None THEN "again" ELSE "record"]
      BY <2>5 DEF Describe
    <3> DEFINE v == [iv[i] EXCEPT !.structure = s, !.facts = F,
                                  !.pc = IF iv[i].model = None /\ s # None THEN "again" ELSE "record"]
    <3>3. v \in Kind
      BY <1>3, <3>1
    <3>4. iv' = [iv EXCEPT ![i] = v]
      BY <1>0, <3>1, <3>2 DEF Description
    <3> QED
      BY <3>3, <3>4
  <2>6. ASSUME IdentifyAgain(i)
        PROVE  \E v \in Kind : iv' = [iv EXCEPT ![i] = v]
    <3>1. iv[i] \in Description
      BY <1>0, <1>5, <2>6 DEF IdentifyAgain
    <3>2. CASE iv' = [iv EXCEPT ![i].pc = "record"]
      <4>1. iv' = [iv EXCEPT ![i] = [iv[i] EXCEPT !.pc = "record"]]
        BY <1>0, <3>2
      <4> QED
        BY <1>1, <3>1, <4>1
    <3>3. ASSUME NEW e \in EUIs, iv' = [iv EXCEPT ![i].model = ModelOf[e], ![i].pc = "record"]
          PROVE  \E v \in Kind : iv' = [iv EXCEPT ![i] = v]
      <4>1. iv' = [iv EXCEPT ![i] = [iv[i] EXCEPT !.model = ModelOf[e], !.pc = "record"]]
        BY <1>0, <3>1, <3>3 DEF Description
      <4> QED
        BY <1>2, <1>7, <3>1, <4>1
    <3> QED
      BY <2>6, <3>2, <3>3 DEF IdentifyAgain
  <2>7. ASSUME RecordInterview(i)
        PROVE  \E v \in Kind : iv' = [iv EXCEPT ![i] = v]
    <3>1. [pc |-> "idle", left |-> iv[i].left] \in Kind
      BY <1>0, <1>6
    <3> QED
      BY <2>7, <3>1 DEF RecordInterview
  <2> QED
    BY <2>1, <2>2, <2>3, <2>4, <2>5, <2>6, <2>7
<1> QED
  BY <1>0

\* Whatever the records are after a step, the file is as it was or as they are.
Written == disk' \in {disk, devices, devices'}

\* The invariant holds at first.
LEMMA InitIInv == ASSUME RegistryAssumption, Init PROVE IInv
<1>1. devices = [k \in {} |-> None] /\ disk = devices
  BY DEF Init
<1>2. Good(devices) /\ Good(disk)
  BY <1>1 DEF Good, IsRegistry, Filed, NamesDiffer
<1>3. iv \in [Interviewers -> [pc: {"idle"}, left: Nat] \cup Description]
  BY DEF Init, RegistryAssumption
<1>4. addr \in [EUIs -> NodeIds] /\ held \in [EUIs -> SUBSET NodeIds] /\ \A e \in EUIs : addr[e] \in held[e]
  BY DEF Init
<1>5. crashes \in Nat
  BY DEF Init
<1> QED
  BY <1>2, <1>3, <1>4, <1>5 DEF IInv, TypeOK, Good

\* What every step does to the records, whichever goroutine takes it.
LEMMA RecordsStep ==
    ASSUME RegistryAssumption, IInv, [Next]_vars
    PROVE  Good(devices') /\ Written
<1>0. Good(devices) /\ Good(disk) /\ addr \in [EUIs -> NodeIds]
  BY DEF IInv, TypeOK, Good
<1>1. ASSUME NEW e \in Reporters, NEW n \in NodeIds, RecordReadings(e, n)
      PROVE  Good(devices') /\ Written
  <2>1. e \in EUIs
    BY DEF RegistryAssumption
  <2> QED
    BY <1>1, <2>1, GoodReading DEF RecordReadings, Written
<1>2. ASSUME NEW e \in Reporters, ReadAttributes(e)
      PROVE  Good(devices') /\ Written
  <2>1. e \in EUIs /\ RecordValues(e, FALSE)
    BY <1>2 DEF RegistryAssumption, ReadAttributes
  <2> QED
    BY <1>2, <2>1, GoodValues DEF ReadAttributes, Written
<1>3. ASSUME NEW e \in EUIs, NEW n \in NodeIds, NEW f \in Facts, RecordJoin(e, n, f)
      PROVE  Good(devices') /\ Written
  BY <1>3, GoodJoin DEF RecordJoin, Written, SaveOk, SaveFails
<1>4. ASSUME NEW k \in Keys, NEW name \in Names, SetName(k, name)
      PROVE  Good(devices') /\ Written
  BY <1>4, GoodNaming DEF SetName, Written, SaveOk, SaveFails
<1>5. ASSUME NEW k \in Keys, ClearName(k)
      PROVE  Good(devices') /\ Written
  BY <1>5, GoodNaming DEF ClearName, Written, SaveOk, SaveFails
<1>6. ASSUME NEW i \in Interviewers, NEW n \in NodeIds, NEW full \in BOOLEAN, InterviewStart(i, n, full)
      PROVE  Good(devices') /\ Written
  BY <1>0, <1>6 DEF InterviewStart, Written
<1>7. ASSUME NEW i \in Interviewers, Identify(i) \/ IdentifyAgain(i)
      PROVE  Good(devices') /\ Written
  <2>1. UNCHANGED devices \/ \E e \in EUIs : RecordValues(e, TRUE)
    BY <1>7 DEF Identify, IdentifyAgain
  <2>2. disk' = disk
    BY <1>7 DEF Identify, IdentifyAgain
  <2> QED
    BY <1>0, <2>1, <2>2, GoodValues DEF Written
<1>8. ASSUME NEW i \in Interviewers,
             IdentifyFails(i) \/ InheritFromPeer(i) \/ Describe(i) \/ DescribeFails(i)
      PROVE  Good(devices') /\ Written
  BY <1>0, <1>8 DEF IdentifyFails, InheritFromPeer, Describe, DescribeFails, Written
<1>9. ASSUME NEW i \in Interviewers, RecordInterview(i)
      PROVE  Good(devices') /\ Written
  BY <1>9, GoodInterview DEF RecordInterview, SaveOk, SaveFails, Written
<1>10. ASSUME Flush \/ Crash
       PROVE  Good(devices') /\ Written
  BY <1>0, <1>10 DEF Flush, Crash, SaveOk, Written
<1>11. ASSUME NEW e \in EUIs, Readdress(e)
       PROVE  Good(devices') /\ Written
  BY <1>0, <1>11 DEF Readdress, Written
<1>12. CASE UNCHANGED vars
  BY <1>0, <1>12 DEF vars, Written
<1> QED
  BY <1>1, <1>2, <1>3, <1>4, <1>5, <1>6, <1>7, <1>8, <1>9, <1>10, <1>11, <1>12 DEF Next

\* Addresses handed out are remembered; nothing else touches the network.
LEMMA NetworkStep ==
    ASSUME RegistryAssumption, TypeOK, [Next]_vars
    PROVE  /\ addr' \in [EUIs -> NodeIds] /\ held' \in [EUIs -> SUBSET NodeIds]
           /\ \A e \in EUIs : held[e] \subseteq held'[e] /\ addr'[e] \in held'[e]
<1>0. /\ addr \in [EUIs -> NodeIds] /\ held \in [EUIs -> SUBSET NodeIds]
      /\ \A e \in EUIs : addr[e] \in held[e]
  BY DEF TypeOK
<1>1. CASE UNCHANGED <<addr, held>>
  BY <1>0, <1>1
<1>2. ASSUME NEW e \in EUIs, NEW n \in NodeIds,
             addr' = [addr EXCEPT ![e] = n], held' = [held EXCEPT ![e] = @ \cup {n}]
      PROVE  /\ addr' \in [EUIs -> NodeIds] /\ held' \in [EUIs -> SUBSET NodeIds]
             /\ \A d \in EUIs : held[d] \subseteq held'[d] /\ addr'[d] \in held'[d]
  BY <1>0, <1>2
<1>3. \/ UNCHANGED <<addr, held>>
      \/ \E e \in EUIs : Readdress(e)
  BY DEF Next, vars, RecordReadings, ReadAttributes, RecordJoin, SetName, ClearName, InterviewStart, Identify,
         IdentifyFails, InheritFromPeer, Describe, DescribeFails, IdentifyAgain, RecordInterview,
         Flush, Crash, network
<1> QED
  BY <1>1, <1>2, <1>3 DEF Readdress

\* Every step keeps the interviews well formed.
LEMMA InterviewsStep ==
    ASSUME RegistryAssumption, TypeOK, [Next]_vars
    PROVE  iv' \in [Interviewers -> [pc: {"idle"}, left: Nat] \cup Description]
<1> DEFINE Kind == [pc: {"idle"}, left: Nat] \cup Description
<1>0. iv \in [Interviewers -> Kind] /\ \A d \in Kind : d.left \in Nat
  BY DEF TypeOK, Description
<1>1. CASE Crash
  BY <1>0, <1>1 DEF Crash
<1>2. CASE UNCHANGED iv
  BY <1>0, <1>2
<1>3. \/ UNCHANGED iv \/ Crash
      \/ \E i \in Interviewers :
           \/ \E n \in NodeIds, full \in BOOLEAN : InterviewStart(i, n, full)
           \/ Identify(i) \/ IdentifyFails(i) \/ InheritFromPeer(i)
           \/ Describe(i) \/ DescribeFails(i) \/ IdentifyAgain(i) \/ RecordInterview(i)
  BY DEF Next, vars, RecordReadings, ReadAttributes, RecordJoin, SetName, ClearName, Flush, Readdress
<1> QED
  BY <1>1, <1>2, <1>3, InterviewType

\* Every step keeps the invariant.
LEMMA StepIInv == ASSUME RegistryAssumption, IInv, [Next]_vars PROVE IInv'
<1>1. Good(devices') /\ Written
  BY RecordsStep
<1>2. Good(devices) /\ Good(disk) /\ TypeOK
  BY DEF IInv, TypeOK, Good
<1>3. Good(disk')
  BY <1>1, <1>2 DEF Written
<1>4. /\ iv' \in [Interviewers -> [pc: {"idle"}, left: Nat] \cup Description]
      /\ addr' \in [EUIs -> NodeIds] /\ held' \in [EUIs -> SUBSET NodeIds]
      /\ \A e \in EUIs : addr'[e] \in held'[e]
  BY <1>2, InterviewsStep, NetworkStep
<1>5. crashes' \in Nat
  <2>1. crashes' = crashes \/ crashes' = crashes + 1
    BY DEF Next, vars, RecordReadings, ReadAttributes, RecordJoin, SetName, ClearName, InterviewStart, Identify,
           IdentifyFails, InheritFromPeer, Describe, DescribeFails, IdentifyAgain, RecordInterview,
           Flush, Crash, Readdress, network
  <2> QED
    BY <1>2, <2>1 DEF TypeOK
<1> QED
  BY <1>1, <1>3, <1>4, <1>5 DEF IInv, TypeOK, Good

\* The invariant holds in every reachable state.
LEMMA SpecIInv == RegistryAssumption => (Spec => []IInv)
<1>1. ASSUME RegistryAssumption
      PROVE  Spec => []IInv
  <2>1. Init => IInv
    BY <1>1, InitIInv
  <2>2. IInv /\ [Next]_vars => IInv'
    BY <1>1, StepIInv
  <2> QED
    BY <2>1, <2>2, PTL DEF Spec
<1> QED
  BY <1>1

\* Records, interviews and addresses have the types they should have in every state.
THEOREM TypeCorrect == RegistryAssumption => (Spec => []TypeOK)
<1>1. IInv => TypeOK
  BY DEF IInv
<1> QED
  BY <1>1, SpecIInv, PTL

\* The map and its records agree: a record lies under its own address, a placeholder under the
\* network address it stands for, and no two devices answer to one name (Observe, Promote,
\* SetName), through every promotion, crash and change of address.
THEOREM RecordsAgreeHolds == RegistryAssumption => (Spec => []RecordsAgree)
<1>1. IInv => RecordsAgree
  BY DEF IInv, Filed, NamesDiffer, RecordsAgree
<1> QED
  BY <1>1, SpecIInv, PTL

(***************************************************************************)
(* Nothing is forgotten                                                    *)
(***************************************************************************)
\* A node descriptor carries no fact but one.
OneFact == \A f, g \in Described : f = g

\* All that d holds, later does.
Extends(later, d) ==
    /\ d.readings \subseteq later.readings
    /\ d.structure # None => later.structure # None
    /\ d.facts # {} => later.facts # {}
    /\ OneFact => d.facts \subseteq later.facts

\* Where the record of k went: nowhere, if k is the address of a device.
Kept(k, j) ==
    /\ j \in DOMAIN devices'
    /\ k \in EUIs => j = k
    /\ Extends(devices'[j], devices[k])
    /\ devices[k].name # None => devices'[j].name # None \/ ClearName(k)

\* A record that is extended keeps what it knew.
LEMMA KeptByPut ==
    ASSUME NEW k \in DOMAIN devices, NEW d, Put({}, k, d), Extends(d, devices[k]),
           devices[k].name # None => d.name # None \/ ClearName(k)
    PROVE  \A j \in DOMAIN devices : Kept(j, j)
<1>1. /\ DOMAIN devices' = DOMAIN devices /\ devices'[k] = d
      /\ \A j \in DOMAIN devices \ {k} : devices'[j] = devices[j]
  BY PutSame
<1>2. \A r : Extends(r, r)
  BY DEF Extends
<1> QED
  BY <1>1, <1>2 DEF Kept

\* A record that an interview is applied to keeps what it had.
LEMMA AppliedExtends ==
    ASSUME NEW d \in Device, NEW desc \in Description
    PROVE  Extends(ApplyInterview(d, desc), d)
<1> DEFINE a == ApplyInterview(d, desc)
<1>0. /\ a.readings = d.readings
      /\ a.facts = IF desc.facts # {} THEN (d.facts \ Described) \cup desc.facts ELSE d.facts
      /\ a.structure = IF desc.structure # None THEN desc.structure ELSE d.structure
  BY Applied, Zenon
<1> HIDE DEF a
<1>1. desc.facts \subseteq Described
  BY DEF Description
<1>2. ASSUME OneFact PROVE d.facts \subseteq a.facts
  <2>1. CASE desc.facts = {}
    BY <1>0, <2>1
  <2>2. CASE desc.facts # {}
    <3>1. desc.facts = Described
      BY <1>1, <1>2, <2>2 DEF OneFact
    <3> QED
      BY <1>0, <2>2, <3>1
  <2> QED
    BY <2>1, <2>2
<1>3. d.facts # {} => a.facts # {}
  BY <1>0
<1> QED
  BY <1>0, <1>2, <1>3 DEF Extends, a

\* Short of a crash every step keeps what a record knew.
LEMMA KeptByStep ==
    ASSUME RegistryAssumption, IInv, [Next]_vars, ~Crash, NEW j \in DOMAIN devices
    PROVE  \E l : Kept(j, l)
<1>0. Good(devices) /\ IsRegistry(devices)
  BY DEF IInv, TypeOK, Good
<1>1. ASSUME NEW k \in DOMAIN devices, NEW e \in EUIs,
             Put({}, k, [devices[k] EXCEPT !.readings = @ \cup {e}])
      PROVE  Kept(j, j)
  <2> DEFINE d == [devices[k] EXCEPT !.readings = @ \cup {e}]
  <2>1. Extends(d, devices[k]) /\ d.name = devices[k].name
    BY <1>0 DEF Extends, Device, IsRegistry
  <2> HIDE DEF d
  <2> QED
    BY <1>1, <2>1, KeptByPut DEF d
<1>2. ASSUME NEW k \in DOMAIN devices, NEW m, Put({}, k, [devices[k] EXCEPT !.model = m])
      PROVE  Kept(j, j)
  <2> DEFINE d == [devices[k] EXCEPT !.model = m]
  <2>1. Extends(d, devices[k]) /\ d.name = devices[k].name
    BY <1>0 DEF Extends, Device, IsRegistry
  <2> HIDE DEF d
  <2> QED
    BY <1>2, <2>1, KeptByPut DEF d
<1>3. ASSUME NEW k \in DOMAIN devices, NEW m, m # None \/ ClearName(k),
             Put({}, k, [devices[k] EXCEPT !.name = m])
      PROVE  Kept(j, j)
  <2> DEFINE d == [devices[k] EXCEPT !.name = m]
  <2>1. Extends(d, devices[k]) /\ d.name = m
    BY <1>0 DEF Extends, Device, IsRegistry
  <2>2. Put({}, k, d)
    BY <1>3
  <2> HIDE DEF d
  <2> QED
    BY <1>3, <2>1, <2>2, KeptByPut
<1>4. CASE UNCHANGED devices
  BY <1>4 DEF Kept, Extends
<1>5. ASSUME NEW e \in EUIs, NEW n \in NodeIds, RecordReadings(e, n)
      PROVE  \E l : Kept(j, l)
  <2>1. PICK k \in Keys :
           \/ /\ k \in ByNodeID(n)
              /\ Put({}, k, [devices[k] EXCEPT !.readings = @ \cup {e}])
           \/ /\ ByNodeID(n) = {} /\ k = unknownIEEE(n) /\ k \notin DOMAIN devices
              /\ Put({}, k, [NewDevice(k, n) EXCEPT !.readings = {e}])
    BY <1>5, ReadingWrites
  <2>2. CASE k \in ByNodeID(n) /\ Put({}, k, [devices[k] EXCEPT !.readings = @ \cup {e}])
    BY <1>1, <2>2 DEF ByNodeID
  <2>3. CASE k \notin DOMAIN devices /\ Put({}, k, [NewDevice(k, n) EXCEPT !.readings = {e}])
    <3>1. j \in DOMAIN devices' /\ devices'[j] = devices[j]
      BY <2>3 DEF Put
    <3> QED
      BY <3>1 DEF Kept, Extends
  <2> QED
    BY <2>1, <2>2, <2>3
<1>6. ASSUME NEW e \in EUIs, NEW basic \in BOOLEAN, RecordValues(e, basic)
      PROVE  \E l : Kept(j, l)
  <2>1. \/ UNCHANGED devices
        \/ \E k \in DOMAIN devices :
              Put({}, k, IF basic THEN [devices[k] EXCEPT !.model = ModelOf[e]]
                                  ELSE [devices[k] EXCEPT !.readings = @ \cup {e}])
    BY <1>6, ValuesWrite DEF ByNodeID
  <2> QED
    BY <1>1, <1>2, <1>4, <2>1
<1>7. ASSUME NEW e \in EUIs, NEW n \in NodeIds, NEW f \in Facts, RecordJoin(e, n, f)
      PROVE  \E l : Kept(j, l)
  <2> DEFINE d == [Before(e, n) EXCEPT !.nodeID = n, !.facts = @ \cup {f}]
             u == unknownIEEE(n)
  <2>1. Extends(d, Before(e, n)) /\ d.name = Before(e, n).name
    BY BeforeType, <1>7 DEF Extends, Device
  <2>2. Put(Promoted(e, n), e, d)
    BY <1>7, JoinWrites
  <2> HIDE DEF d
  <2>3. /\ DOMAIN devices' = (DOMAIN devices \ Promoted(e, n)) \cup {e} /\ devices'[e] = d
        /\ \A l \in DOMAIN devices' \ {e} : devices'[l] = devices[l]
    BY <2>2, PutFacts
  <2>4. CASE j = e
    <3>1. Before(e, n) = devices[j]
      BY <2>4 DEF Before
    <3> QED
      BY <2>1, <2>3, <2>4, <3>1 DEF Kept
  <2>5. CASE j # e /\ j \notin Promoted(e, n)
    <3>1. j \in DOMAIN devices' /\ devices'[j] = devices[j]
      BY <2>3, <2>5
    <3> QED
      BY <3>1 DEF Kept, Extends
  <2>6. CASE j # e /\ j \in Promoted(e, n)
    <3>1. e \notin DOMAIN devices /\ j = u
      BY <2>6 DEF Promoted
    <3>2. devices[j] \in Device
      BY <1>0 DEF IsRegistry
    <3>3. /\ Before(e, n).readings = devices[j].readings /\ Before(e, n).facts = devices[j].facts
          /\ Before(e, n).structure = devices[j].structure /\ Before(e, n).name = devices[j].name
      BY <3>1, <3>2 DEF Before, Promote, Device
    <3>4. j \notin EUIs
      BY <3>1, Placeholders
    <3>5. Extends(d, devices[j]) /\ d.name = devices[j].name
      BY <2>1, <3>3 DEF Extends
    <3> QED
      BY <2>3, <3>4, <3>5 DEF Kept
  <2> QED
    BY <2>4, <2>5, <2>6
<1>8. ASSUME NEW k \in Keys, NEW name \in Names, SetName(k, name)
      PROVE  \E l : Kept(j, l)
  <2>1. name # None
    BY DEF RegistryAssumption
  <2>2. k \in DOMAIN devices /\ Put({}, k, [devices[k] EXCEPT !.name = name])
    BY <1>8, NamesWrite
  <2> QED
    BY <1>3, <2>1, <2>2
<1>9. ASSUME NEW k \in Keys, ClearName(k)
      PROVE  \E l : Kept(j, l)
  BY <1>3, <1>9, NamesWrite
<1>10. ASSUME NEW i \in Interviewers, RecordInterview(i)
       PROVE  \E l : Kept(j, l)
  <2>1. ASSUME iv[i].pc = "record", NEW k \in DOMAIN devices, Put({}, k, ApplyInterview(devices[k], iv[i]))
        PROVE  Kept(j, j)
    <3>1. iv[i] \in Description /\ devices[k] \in Device
      BY <1>0, <2>1 DEF IInv, TypeOK, IsRegistry
    <3>2. ApplyInterview(devices[k], iv[i]).name = devices[k].name
      BY <3>1, Applied, Zenon
    <3> QED
      BY <2>1, <3>1, <3>2, AppliedExtends, KeptByPut
  <2> QED
    BY <1>4, <1>10, <2>1, InterviewWrites DEF ByNodeID
<1> QED
  BY <1>4, <1>5, <1>6, <1>7, <1>8, <1>9, <1>10
     DEF Next, vars, RegistryAssumption, ReadAttributes, InterviewStart, Identify, IdentifyFails, InheritFromPeer,
         Describe, DescribeFails, IdentifyAgain, Flush, Readdress

\* Sightings are merged, never overwritten: short of a crash no step loses a reading, a fact or
\* a structure, and a placeholder's move to its device's record (Observe, Promote,
\* applyInterview), where a node descriptor carries one fact at most (OneFact): one that
\* carries more replaces facts it does not have (ApplyInterview).
THEOREM NothingForgottenHolds == RegistryAssumption /\ OneFact => (Spec => NothingForgotten)
<1>1. ASSUME RegistryAssumption, OneFact, IInv, [Next]_vars PROVE NothingForgottenStep
  <2> SUFFICES ASSUME crashes' = crashes, NEW k \in DOMAIN devices
               PROVE  \E j \in DOMAIN devices' :
                         /\ k \in EUIs => j = k
                         /\ devices[k].readings \subseteq devices'[j].readings
                         /\ devices[k].facts \subseteq devices'[j].facts
                         /\ devices[k].structure # None => devices'[j].structure # None
    BY DEF NothingForgottenStep
  <2>1. PICK j : Kept(k, j)
    BY <1>1, KeptByStep DEF Crash, IInv, TypeOK
  <2> QED
    BY <1>1, <2>1 DEF Kept, Extends
<1>2. ASSUME RegistryAssumption, OneFact
      PROVE  Spec => NothingForgotten
  <2>1. IInv /\ [Next]_vars => NothingForgottenStep
    BY <1>1, <1>2
  <2> QED
    BY <1>2, <2>1, SpecIInv, PTL DEF Spec, NothingForgotten
<1> QED
  BY <1>2

(***************************************************************************)
(* What callers were told is in the file                                   *)
(***************************************************************************)
\* db has what a caller was told.
Has(db, t) ==
    /\ t[1] \in DOMAIN db
    /\ t[2] = "joined" => db[t[1]].facts # {}
    /\ t[2] = "named" => db[t[1]].name # None
    /\ t[2] = "interviewed" => db[t[1]].structure # None

\* The registry in memory has it as well: the file is only ever replaced by that.
ToldTrue ==
    /\ told \subseteq EUIs \X {"joined", "named", "interviewed"}
    /\ \A t \in told : Has(devices, t) /\ Has(disk, t)

\* A caller is told of a change only with the file that has it.
LEMMA Telling ==
    ASSUME RegistryAssumption, IInv, [Next]_vars
    PROVE  /\ \/ told' \subseteq told
              \/ \E t \in EUIs \X {"joined", "named", "interviewed"} :
                    told' = told \cup {t} /\ disk' = devices' /\ Has(devices', t)
           /\ \A k : ClearName(k) => <<k, "named">> \notin told'
<1> DEFINE Told == \/ told' \subseteq told
                   \/ \E t \in EUIs \X {"joined", "named", "interviewed"} :
                         told' = told \cup {t} /\ disk' = devices' /\ Has(devices', t)
<1>0. Good(devices)
  BY DEF IInv, TypeOK, Good
<1>1. \A k : ClearName(k) => <<k, "named">> \notin told'
  BY DEF ClearName
<1>2. ASSUME NEW e \in EUIs, NEW n \in NodeIds, NEW f \in Facts, RecordJoin(e, n, f)
      PROVE  Told
  <2> DEFINE d == [Before(e, n) EXCEPT !.nodeID = n, !.facts = @ \cup {f}]
  <2>1. d.facts # {}
    <3>1. Before(e, n) \in Device
      BY BeforeType
    <3> QED
      BY <3>1 DEF Device
  <2>2. Put(Promoted(e, n), e, d)
    BY <1>2, JoinWrites
  <2> HIDE DEF d
  <2>3. e \in DOMAIN devices' /\ devices'[e] = d
    BY <2>2 DEF Put
  <2>4. Has(devices', <<e, "joined">>)
    BY <2>1, <2>3 DEF Has
  <2>5. told' = told \/ (told' = told \cup {<<e, "joined">>} /\ disk' = devices')
    BY <1>2 DEF RecordJoin, SaveOk
  <2> QED
    BY <2>4, <2>5
<1>3. ASSUME NEW k \in Keys, NEW name \in Names, SetName(k, name)
      PROVE  Told
  <2>1. k \in EUIs /\ k \in DOMAIN devices /\ Put({}, k, [devices[k] EXCEPT !.name = name])
    BY <1>3, NamesWrite
  <2>2. [devices[k] EXCEPT !.name = name].name # None
    BY <1>0, <2>1 DEF Good, IsRegistry, Device, RegistryAssumption
  <2>3. k \in DOMAIN devices' /\ devices'[k].name # None
    BY <2>1, <2>2 DEF Put
  <2>4. Has(devices', <<k, "named">>)
    BY <2>3 DEF Has
  <2>5. told' = told \/ (told' = told \cup {<<k, "named">>} /\ disk' = devices')
    BY <1>3 DEF SetName, SaveOk
  <2> QED
    BY <2>1, <2>4, <2>5
<1>4. ASSUME NEW k \in Keys, ClearName(k)
      PROVE  Told
  BY <1>4 DEF ClearName
<1>5. ASSUME NEW i \in Interviewers, RecordInterview(i)
      PROVE  Told
  <2>1. ASSUME iv[i].pc = "record", NEW k \in DOMAIN devices, Put({}, k, ApplyInterview(devices[k], iv[i])),
               SaveOk, k \in EUIs, iv[i].structure # None, told' = told \cup {<<k, "interviewed">>}
        PROVE  Told
    <3>1. iv[i] \in Description /\ devices[k] \in Device
      BY <1>0, <2>1 DEF IInv, TypeOK, Good, IsRegistry
    <3>2. ApplyInterview(devices[k], iv[i]).structure # None
      <4>1. ApplyInterview(devices[k], iv[i]).structure =
               IF iv[i].structure # None THEN iv[i].structure ELSE devices[k].structure
        BY <3>1, Applied, Zenon
      <4> QED
        BY <2>1, <4>1
    <3>3. k \in DOMAIN devices' /\ devices'[k] = ApplyInterview(devices[k], iv[i])
      BY <2>1 DEF Put
    <3>4. Has(devices', <<k, "interviewed">>)
      BY <3>2, <3>3 DEF Has
    <3> QED
      BY <2>1, <3>4 DEF SaveOk
  <2> QED
    BY <1>5, <2>1, InterviewWrites DEF ByNodeID
<1>6. ASSUME UNCHANGED told
      PROVE  Told
  BY <1>6
<1>7. Told
  BY <1>2, <1>3, <1>4, <1>5, <1>6
     DEF Next, vars, RecordReadings, ReadAttributes, InterviewStart, Identify, IdentifyFails, InheritFromPeer,
         Describe, DescribeFails, IdentifyAgain, Flush, Crash, Readdress
<1> QED
  BY <1>1, <1>7

\* Every step keeps what was told true.
LEMMA StepTold == ASSUME RegistryAssumption, IInv, ToldTrue, [Next]_vars PROVE ToldTrue'
<1>1. told' \subseteq EUIs \X {"joined", "named", "interviewed"}
  BY Telling DEF ToldTrue
<1>2. ASSUME NEW t \in told, t \in told' PROVE Has(devices', t)
  <2>1. CASE Crash
    BY <2>1 DEF Crash, ToldTrue
  <2>2. CASE ~Crash
    <3>1. t[1] \in EUIs /\ t[1] \in DOMAIN devices /\ t = <<t[1], t[2]>> /\ Has(devices, t)
      BY DEF ToldTrue, Has
    <3>2. Kept(t[1], t[1])
      BY <2>2, <3>1, KeptByStep DEF Kept
    <3>3. t[2] = "named" => ~ClearName(t[1])
      BY <1>2, <3>1, Telling
    <3> QED
      BY <3>1, <3>2, <3>3 DEF Kept, Has, Extends
  <2> QED
    BY <2>1, <2>2
<1>3. CASE told' \subseteq told
  <2>1. \A t \in told' : Has(devices', t)
    BY <1>2, <1>3
  <2>2. \A t \in told' : Has(devices, t) /\ Has(disk, t)
    BY <1>3 DEF ToldTrue
  <2>3. disk' \in {disk, devices, devices'}
    BY RecordsStep DEF Written
  <2>4. \A t \in told' : Has(disk', t)
    BY <2>1, <2>2, <2>3
  <2> QED
    BY <1>1, <2>1, <2>4 DEF ToldTrue
<1>4. ASSUME NEW t \in EUIs \X {"joined", "named", "interviewed"},
             told' = told \cup {t}, disk' = devices', Has(devices', t)
      PROVE  ToldTrue'
  BY <1>1, <1>2, <1>4 DEF ToldTrue
<1> QED
  BY <1>3, <1>4, Telling

\* What Joins, SetName and Interview reported without an error is in the registry file
\* (recordJoin, SetName, recordInterview, Save), whatever was written since, by any of the
\* goroutines, and however often the process has died: for any devices and bounds.
THEOREM DurableHolds == RegistryAssumption => (Spec => []Durable)
<1>1. ASSUME RegistryAssumption
      PROVE  Spec => []Durable
  <2>1. Init => ToldTrue
    BY DEF Init, ToldTrue
  <2>2. IInv /\ ToldTrue /\ [Next]_vars => ToldTrue'
    BY <1>1, StepTold
  <2>3. ToldTrue => Durable
    BY DEF ToldTrue, Has, Durable
  <2> QED
    BY <1>1, <2>1, <2>2, <2>3, SpecIInv, PTL DEF Spec
<1> QED
  BY <1>1

(***************************************************************************)
(* Whose record it is                                                      *)
(***************************************************************************)
\* No address is handed out again.
AddressesApart == \A d, e \in EUIs : d # e => held[d] \cap held[e] = {}

\* A device that is asked whether it may inherit is known as one device: it has not left a record
\* behind under its IEEE address while a new address of its has a placeholder.
OneRecord ==
    \A i \in Interviewers, e \in EUIs :
        iv[i].pc = "inherit" /\ iv[i].node \in held[e]
            => \A j, k \in DOMAIN devices \cap RecordOf(e) : j = k

\* The network, and what is known of it, tell one device from another.
Unambiguous == AddressesApart /\ OneRecord

\* model and structure are the answers of device e, or those of a sibling that answered itself.
Answers(model, structure, from, e) ==
    /\ model \in {None, ModelOf[e]}
    /\ structure # None =>
          IF from = None THEN structure = e
          ELSE from = structure /\ structure # e /\ ModelOf[structure] = ModelOf[e] /\ model = ModelOf[e]

\* The record d, filed under k, is of device e.
Belongs(d, k, e) ==
    /\ k \in RecordOf(e)
    /\ d.nodeID \in held[e]
    /\ d.readings \subseteq {e}
    /\ Answers(d.model, d.structure, d.inheritedFrom, e)

Owned(db) == \A k \in DOMAIN db : \E e \in EUIs : Belongs(db[k], k, e)

\* What an interview has learned is of a device that has had the address.
Heard(v) ==
    /\ v.pc \in {"identify", "inherit", "describe"} => v.structure = None
    /\ v.pc \in {"identify", "inherit", "describe", "again"} => v.from = None
    /\ v.pc # "idle" /\ (v.model # None \/ v.structure # None) =>
          \E e \in EUIs : v.node \in held[e] /\ Answers(v.model, v.structure, v.from, e)

ProvenanceInv ==
    /\ Owned(devices) /\ Owned(disk)
    /\ \A i \in Interviewers : Heard(iv[i])

\* A key is of one device.
LEMMA OneOwner ==
    ASSUME RegistryAssumption, TypeOK, AddressesApart, NEW d \in EUIs, NEW e \in EUIs, NEW k,
           k \in RecordOf(d), k \in RecordOf(e)
    PROVE  d = e
<1>1. held[d] \subseteq NodeIds /\ held[e] \subseteq NodeIds
  BY DEF TypeOK
<1>2. CASE k \in EUIs
  BY <1>1, <1>2, Placeholders DEF RecordOf
<1>3. CASE k \notin EUIs
  <2>1. PICK m \in held[d] : k = unknownIEEE(m)
    BY <1>3 DEF RecordOf
  <2>2. PICK n \in held[e] : k = unknownIEEE(n)
    BY <1>3 DEF RecordOf
  <2>3. m = n
    BY <1>1, <2>1, <2>2, Placeholders
  <2> QED
    BY <2>1, <2>2, <2>3 DEF AddressesApart
<1> QED
  BY <1>2, <1>3

\* A record of device e written over.
LEMMA OwnedPut ==
    ASSUME Owned(devices), NEW gone, NEW k, NEW d, NEW e \in EUIs, Put(gone, k, d), Belongs(d, k, e)
    PROVE  Owned(devices')
<1>1. /\ DOMAIN devices' = (DOMAIN devices \ gone) \cup {k} /\ devices'[k] = d
      /\ \A j \in DOMAIN devices' \ {k} : j \in DOMAIN devices /\ devices'[j] = devices[j]
  BY PutFacts, Zenon
<1> QED
  BY <1>1 DEF Owned

\* The record with an address is of the device that has had it.
LEMMA OwnerByNodeID ==
    ASSUME AddressesApart, Owned(devices), NEW e \in EUIs, NEW n \in held[e], NEW k \in ByNodeID(n)
    PROVE  Belongs(devices[k], k, e)
  BY DEF Owned, Belongs, ByNodeID, AddressesApart

\* A reading goes to a record of the device that sent it.
LEMMA OwnedReading ==
    ASSUME RegistryAssumption, IInv, AddressesApart, Owned(devices),
           NEW e \in EUIs, NEW n \in NodeIds, RecordReadings(e, n)
    PROVE  Owned(devices')
<1>0. Good(devices) /\ IsRegistry(devices) /\ n \in held[e]
  BY DEF IInv, TypeOK, Good, RecordReadings
<1>1. PICK k \in Keys :
         \/ /\ k \in ByNodeID(n)
            /\ Put({}, k, [devices[k] EXCEPT !.readings = @ \cup {e}])
         \/ /\ ByNodeID(n) = {} /\ k = unknownIEEE(n) /\ k \notin DOMAIN devices
            /\ Put({}, k, [NewDevice(k, n) EXCEPT !.readings = {e}])
  BY ReadingWrites
<1>2. CASE k \in ByNodeID(n) /\ Put({}, k, [devices[k] EXCEPT !.readings = @ \cup {e}])
  <2> DEFINE d == [devices[k] EXCEPT !.readings = @ \cup {e}]
  <2>1. Belongs(devices[k], k, e) /\ devices[k] \in Device
    BY <1>0, <1>2, OwnerByNodeID DEF ByNodeID, IsRegistry
  <2>2. Belongs(d, k, e)
    BY <2>1 DEF Belongs, Device
  <2>3. Put({}, k, d)
    BY <1>2
  <2> HIDE DEF d
  <2> QED
    BY <2>2, <2>3, OwnedPut
<1>3. CASE k = unknownIEEE(n) /\ Put({}, k, [NewDevice(k, n) EXCEPT !.readings = {e}])
  <2> DEFINE d == [NewDevice(k, n) EXCEPT !.readings = {e}]
  <2>1. k \in RecordOf(e)
    BY <1>0, <1>3 DEF RecordOf
  <2>2. d.nodeID = n /\ d.readings = {e} /\ d.model = None /\ d.structure = None
    BY DEF NewDevice
  <2>3. Put({}, k, d)
    BY <1>3
  <2> HIDE DEF d
  <2>4. Belongs(d, k, e)
    BY <1>0, <2>1, <2>2 DEF Belongs, Answers
  <2> QED
    BY <2>3, <2>4, OwnedPut
<1> QED
  BY <1>1, <1>2, <1>3

\* So do values that were read.
LEMMA OwnedValues ==
    ASSUME RegistryAssumption, IInv, AddressesApart, Owned(devices),
           NEW e \in EUIs, NEW basic \in BOOLEAN, RecordValues(e, basic)
    PROVE  Owned(devices')
<1>0. IsRegistry(devices) /\ addr[e] \in held[e]
  BY DEF IInv, TypeOK
<1>1. CASE UNCHANGED devices
  BY <1>1
<1>2. ASSUME NEW k \in ByNodeID(addr[e]),
             Put({}, k, IF basic THEN [devices[k] EXCEPT !.model = ModelOf[e]]
                                 ELSE [devices[k] EXCEPT !.readings = @ \cup {e}])
      PROVE  Owned(devices')
  <2> DEFINE d == IF basic THEN [devices[k] EXCEPT !.model = ModelOf[e]]
                           ELSE [devices[k] EXCEPT !.readings = @ \cup {e}]
  <2>1. Belongs(devices[k], k, e) /\ devices[k] \in Device
    BY <1>0, OwnerByNodeID DEF ByNodeID, IsRegistry
  <2>2. Belongs(d, k, e)
    <3>1. CASE basic
      BY <2>1, <3>1 DEF Belongs, Answers, Device
    <3>2. CASE ~basic
      BY <2>1, <3>2 DEF Belongs, Device
    <3> QED
      BY <3>1, <3>2
  <2>3. Put({}, k, d)
    BY <1>2
  <2> HIDE DEF d
  <2> QED
    BY <2>2, <2>3, OwnedPut
<1> QED
  BY <1>1, <1>2, ValuesWrite

\* A join goes to a record of the device that joined.
LEMMA OwnedJoin ==
    ASSUME RegistryAssumption, IInv, AddressesApart, Owned(devices),
           NEW e \in EUIs, NEW n \in NodeIds, NEW f \in Facts, RecordJoin(e, n, f)
    PROVE  Owned(devices')
<1> DEFINE d == [Before(e, n) EXCEPT !.nodeID = n, !.facts = @ \cup {f}]
           u == unknownIEEE(n)
<1>0. IsRegistry(devices) /\ n \in held[e] /\ TypeOK
  BY DEF IInv, TypeOK, RecordJoin
<1>1. Put(Promoted(e, n), e, d)
  BY JoinWrites
<1>2. /\ Before(e, n).readings \subseteq {e}
      /\ Answers(Before(e, n).model, Before(e, n).structure, Before(e, n).inheritedFrom, e)
  <2>1. ASSUME NEW k \in DOMAIN devices, k \in RecordOf(e)
        PROVE  Belongs(devices[k], k, e)
    BY <1>0, <2>1, OneOwner DEF Owned, Belongs
  <2>2. e \in RecordOf(e) /\ u \in RecordOf(e)
    BY <1>0 DEF RecordOf
  <2>3. CASE e \in DOMAIN devices
    BY <2>1, <2>2, <2>3 DEF Before, Belongs
  <2>4. CASE e \notin DOMAIN devices /\ u \in DOMAIN devices
    <3>1. devices[u] \in Device /\ Belongs(devices[u], u, e)
      BY <1>0, <2>1, <2>2, <2>4 DEF IsRegistry
    <3>2. /\ Before(e, n).readings = devices[u].readings /\ Before(e, n).model = devices[u].model
          /\ Before(e, n).structure = devices[u].structure
          /\ Before(e, n).inheritedFrom = devices[u].inheritedFrom
      BY <2>4, <3>1 DEF Before, Promote, Device
    <3> QED
      BY <3>1, <3>2 DEF Belongs
  <2>5. CASE e \notin DOMAIN devices /\ u \notin DOMAIN devices
    BY <2>5 DEF Before, NewDevice, Answers
  <2> QED
    BY <2>3, <2>4, <2>5
<1>3. Belongs(d, e, e)
  <2>1. Before(e, n) \in Device
    BY BeforeType
  <2> QED
    BY <1>0, <1>2, <2>1 DEF Belongs, RecordOf, Device
<1> HIDE DEF d
<1> QED
  BY <1>1, <1>3, OwnedPut

\* Naming leaves a record to its device.
LEMMA OwnedNaming ==
    ASSUME RegistryAssumption, IInv, Owned(devices), NEW k \in Keys, NEW name, SetName(k, name) \/ ClearName(k)
    PROVE  Owned(devices')
<1>1. k \in DOMAIN devices /\ devices[k] \in Device
  BY NamesWrite DEF IInv, TypeOK, IsRegistry
<1>2. PICK e \in EUIs : Belongs(devices[k], k, e)
  BY <1>1 DEF Owned
<1>3. ASSUME NEW called, Put({}, k, [devices[k] EXCEPT !.name = called])
      PROVE  Owned(devices')
  <2> DEFINE d == [devices[k] EXCEPT !.name = called]
  <2>1. Belongs(d, k, e)
    BY <1>1, <1>2 DEF Belongs, Device
  <2>2. Put({}, k, d)
    BY <1>3
  <2> HIDE DEF d
  <2> QED
    BY <2>1, <2>2, OwnedPut
<1> QED
  BY <1>3, NamesWrite

\* An interview is recorded with the device that was asked.
LEMMA OwnedInterview ==
    ASSUME RegistryAssumption, IInv, AddressesApart, ProvenanceInv, NEW i \in Interviewers, RecordInterview(i)
    PROVE  Owned(devices')
<1>1. CASE UNCHANGED devices
  BY <1>1 DEF ProvenanceInv
<1>2. ASSUME iv[i].pc = "record", NEW k \in ByNodeID(iv[i].node), Put({}, k, ApplyInterview(devices[k], iv[i]))
      PROVE  Owned(devices')
  <2> DEFINE v == iv[i]
             d == devices[k]
             a == ApplyInterview(d, v)
  <2>1. k \in DOMAIN devices /\ d \in Device /\ v \in Description /\ d.nodeID = v.node
    BY <1>2 DEF IInv, TypeOK, IsRegistry, ByNodeID
  <2>2. PICK e \in EUIs : Belongs(d, k, e)
    BY <2>1 DEF ProvenanceInv, Owned
  <2>3. v.model # None \/ v.structure # None => Answers(v.model, v.structure, v.from, e)
    <3> SUFFICES ASSUME v.model # None \/ v.structure # None
                 PROVE  Answers(v.model, v.structure, v.from, e)
      OBVIOUS
    <3>1. PICK f \in EUIs : v.node \in held[f] /\ Answers(v.model, v.structure, v.from, f)
      BY <1>2 DEF ProvenanceInv, Heard
    <3>2. f = e
      BY <2>1, <2>2, <3>1 DEF Belongs, AddressesApart
    <3> QED
      BY <3>1, <3>2
  <2>4. /\ a.nodeID = d.nodeID /\ a.readings = d.readings
        /\ a.model = IF v.model # None THEN v.model ELSE d.model
        /\ a.structure = IF v.structure # None THEN v.structure ELSE d.structure
        /\ a.inheritedFrom = IF v.structure # None THEN v.from ELSE d.inheritedFrom
    BY <2>1, Applied, Zenon
  <2>5. Put({}, k, a)
    BY <1>2
  <2> HIDE DEF a, d, v
  <2>6. Answers(a.model, a.structure, a.inheritedFrom, e)
    BY <2>2, <2>3, <2>4 DEF Belongs, Answers
  <2>7. Belongs(a, k, e)
    BY <2>2, <2>4, <2>6 DEF Belongs
  <2> QED
    BY <2>5, <2>7, OwnedPut DEF ProvenanceInv
<1> QED
  BY <1>1, <1>2, InterviewWrites

\* Each question of an interview is answered by the device with the address, and what a peer lends
\* is its own.
LEMMA HeardStep ==
    ASSUME RegistryAssumption, IInv, Unambiguous, ProvenanceInv, NEW i \in Interviewers,
           \/ \E n \in NodeIds, full \in BOOLEAN : InterviewStart(i, n, full)
           \/ Identify(i) \/ IdentifyFails(i) \/ InheritFromPeer(i)
           \/ Describe(i) \/ DescribeFails(i) \/ IdentifyAgain(i) \/ RecordInterview(i)
    PROVE  Heard(iv'[i]) /\ \A j \in Interviewers \ {i} : iv'[j] = iv[j]
<1> DEFINE v == iv[i]
           w == iv'[i]
           Others == \A j \in Interviewers \ {i} : iv'[j] = iv[j]
<1>0. /\ v \in [pc: {"idle"}, left: Nat] \cup Description
      /\ DOMAIN iv = Interviewers
      /\ \A e \in EUIs : addr[e] \in held[e]
      /\ IsRegistry(devices)
      /\ AddressesApart
      /\ Heard(v)
  BY DEF IInv, TypeOK, Unambiguous, ProvenanceInv
<1>1. v.pc # "idle" => v \in Description
  BY <1>0
<1>2. ASSUME NEW n \in NodeIds, NEW full \in BOOLEAN, InterviewStart(i, n, full)
      PROVE  Heard(w) /\ Others
  <2>1. Others /\ w.pc = "identify" /\ w.model = None /\ w.structure = None /\ w.from = None
    BY <1>0, <1>2 DEF InterviewStart
  <2> QED
    BY <2>1 DEF Heard
<1>3. ASSUME Identify(i) \/ (IdentifyAgain(i) /\ w.model # v.model)
      PROVE  Heard(w) /\ Others
  <2>1. v \in Description /\ v.pc \in {"identify", "again"}
    BY <1>1, <1>3 DEF Identify, IdentifyAgain
  <2>2. PICK e \in EUIs, at \in {"describe", "inherit", "record"} :
           /\ addr[e] = v.node
           /\ iv' = [iv EXCEPT ![i].model = ModelOf[e], ![i].pc = at]
           /\ v.pc = "again" => at = "record"
    <3>1. CASE Identify(i)
      <4>1. PICK e \in EUIs :
               /\ addr[e] = v.node
               /\ iv' = [iv EXCEPT ![i].model = ModelOf[e],
                                   ![i].pc = IF v.full THEN "describe" ELSE "inherit"]
               /\ v.pc = "identify"
        BY <3>1 DEF Identify
      <4> QED
        BY <4>1
    <3>2. CASE IdentifyAgain(i) /\ w.model # v.model
      <4>1. iv' # [iv EXCEPT ![i].pc = "record"]
        BY <1>0, <2>1, <3>2 DEF Description
      <4> QED
        BY <3>2, <4>1 DEF IdentifyAgain
    <3> QED
      BY <1>3, <3>1, <3>2
  <2>3. /\ Others /\ w.model = ModelOf[e] /\ w.pc = at /\ w.node = v.node
        /\ w.structure = v.structure /\ w.from = v.from
    BY <1>0, <2>1, <2>2 DEF Description
  <2>4. w.node \in held[e]
    BY <1>0, <2>2, <2>3
  <2>5. Answers(w.model, w.structure, w.from, e)
    <3>1. CASE v.structure = None
      BY <2>3, <3>1 DEF Answers
    <3>2. CASE v.structure # None
      <4>1. PICK f \in EUIs : v.node \in held[f] /\ Answers(v.model, v.structure, v.from, f)
        BY <1>0, <2>1, <3>2 DEF Heard
      <4>2. f = e
        BY <1>0, <2>3, <2>4, <4>1 DEF AddressesApart
      <4> QED
        BY <2>3, <4>1, <4>2 DEF Answers
    <3> QED
      BY <3>1, <3>2
  <2>6. /\ w.pc \in {"identify", "inherit", "describe"} => w.structure = None
        /\ w.pc \in {"identify", "inherit", "describe", "again"} => w.from = None
    <3>1. v.pc = "identify" => v.structure = None /\ v.from = None
      BY <1>0 DEF Heard
    <3> QED
      BY <2>1, <2>2, <2>3, <3>1
  <2> HIDE DEF w
  <2> QED
    BY <2>3, <2>4, <2>5, <2>6 DEF Heard
<1>4. ASSUME \/ IdentifyFails(i) \/ DescribeFails(i) \/ (IdentifyAgain(i) /\ w.model = v.model)
             \/ (InheritFromPeer(i) /\ w.pc = "describe")
      PROVE  Heard(w) /\ Others
  <2>1. v \in Description /\ v.pc \in {"identify", "inherit", "describe", "again"}
    BY <1>1, <1>4 DEF IdentifyFails, DescribeFails, IdentifyAgain, InheritFromPeer
  <2>2. /\ Others /\ w.model = v.model /\ w.node = v.node /\ w.structure = v.structure /\ w.from = v.from
        /\ w.pc \in {"describe", "record"} /\ (v.pc = "again" => w.pc = "record")
    <3>1. CASE IdentifyFails(i) \/ DescribeFails(i)
      BY <1>0, <2>1, <3>1 DEF IdentifyFails, DescribeFails, Description
    <3>2. CASE IdentifyAgain(i) /\ w.model = v.model
      <4>1. Others /\ w.node = v.node /\ w.structure = v.structure /\ w.from = v.from /\ w.pc = "record"
        <5>1. CASE iv' = [iv EXCEPT ![i].pc = "record"]
          BY <1>0, <2>1, <5>1 DEF Description
        <5>2. ASSUME NEW e \in EUIs, iv' = [iv EXCEPT ![i].model = ModelOf[e], ![i].pc = "record"]
              PROVE  Others /\ w.node = v.node /\ w.structure = v.structure /\ w.from = v.from /\ w.pc = "record"
          BY <1>0, <2>1, <5>2 DEF Description
        <5> QED
          BY <3>2, <5>1, <5>2 DEF IdentifyAgain
      <4> QED
        BY <3>2, <4>1
    <3>3. CASE InheritFromPeer(i) /\ w.pc = "describe"
      <4>1. iv' = [iv EXCEPT ![i].pc = "describe"]
        <5>1. ASSUME NEW k, NEW p,
                     iv' = [iv EXCEPT ![i].pc = "record", ![i].from = devices[p].ieee,
                                      ![i].facts = devices[p].facts \cap Described,
                                      ![i].structure = devices[p].structure]
              PROVE  FALSE
          <6>1. w.pc = "record"
            BY <1>0, <2>1, <5>1 DEF Description
          <6> QED
            BY <3>3, <6>1
        <5> QED
          BY <3>3, <5>1 DEF InheritFromPeer
      <4>2. v.pc = "inherit"
        BY <3>3 DEF InheritFromPeer
      <4> QED
        BY <1>0, <2>1, <4>1, <4>2 DEF Description
    <3> QED
      BY <1>4, <3>1, <3>2, <3>3
  <2>3. v.pc # "again" => v.structure = None /\ v.from = None
    BY <1>0, <2>1 DEF Heard
  <2> HIDE DEF w
  <2> QED
    BY <1>0, <2>1, <2>2, <2>3 DEF Heard
<1>5. ASSUME InheritFromPeer(i), w.pc # "describe"
      PROVE  Heard(w) /\ Others
  <2>1. v \in Description /\ v.pc = "inherit"
    BY <1>1, <1>5 DEF InheritFromPeer
  <2>2. PICK k \in ByNodeID(v.node) : \E p \in PeerOfModel(v.model, devices[k].ieee) :
           iv' = [iv EXCEPT ![i].pc = "record", ![i].from = devices[p].ieee,
                            ![i].facts = devices[p].facts \cap Described,
                            ![i].structure = devices[p].structure]
    <3>1. iv' # [iv EXCEPT ![i].pc = "describe"]
      BY <1>0, <1>5, <2>1 DEF Description
    <3> QED
      BY <1>5, <3>1 DEF InheritFromPeer
  <2>p. PICK p \in PeerOfModel(v.model, devices[k].ieee) :
         iv' = [iv EXCEPT ![i].pc = "record", ![i].from = devices[p].ieee,
                          ![i].facts = devices[p].facts \cap Described,
                          ![i].structure = devices[p].structure]
    BY <2>2
  <2>3. /\ Others /\ w.pc = "record" /\ w.from = devices[p].ieee /\ w.structure = devices[p].structure
        /\ w.model = v.model /\ w.node = v.node
    BY <1>0, <2>1, <2>p DEF Description
  <2>4. /\ p \in DOMAIN devices /\ devices[p].ieee # devices[k].ieee /\ devices[p].ieee \in EUIs
        /\ devices[p].inheritedFrom = None /\ devices[p].model = v.model /\ v.model # None
        /\ devices[p].structure # None
    BY DEF PeerOfModel, QualifiesAsPeer, Identified
  <2>5. /\ devices[p].ieee = p /\ k \in DOMAIN devices /\ devices[k].nodeID = v.node /\ p # k
        /\ p # None
    BY <2>2, <2>4 DEF ByNodeID, IInv, Filed, RegistryAssumption
  <2>6. PICK f \in EUIs : Belongs(devices[p], p, f)
    BY <2>4 DEF ProvenanceInv, Owned
  <2>7. f = p
    <3>1. p \in RecordOf(p)
      BY DEF RecordOf
    <3> QED
      BY <1>0, <2>4, <2>5, <2>6, <3>1, OneOwner DEF Belongs, IInv
  <2>8. devices[p].structure = p /\ ModelOf[p] = v.model
    BY <2>4, <2>6, <2>7 DEF Belongs, Answers
  <2>9. PICK e \in EUIs : Belongs(devices[k], k, e)
    BY <2>5 DEF ProvenanceInv, Owned
  <2>10. v.model = ModelOf[e]
    <3>1. PICK g \in EUIs : v.node \in held[g] /\ Answers(v.model, v.structure, v.from, g)
      BY <1>0, <2>1, <2>4 DEF Heard
    <3>2. g = e
      BY <1>0, <2>5, <2>9, <3>1 DEF Belongs, AddressesApart
    <3> QED
      BY <2>4, <3>1, <3>2 DEF Answers
  <2>11. p # e
    <3>1. ASSUME p = e PROVE FALSE
      <4>1. p \in RecordOf(e) /\ k \in RecordOf(e) /\ v.node \in held[e]
        BY <2>5, <2>9, <3>1 DEF Belongs, RecordOf
      <4> QED
        BY <2>1, <2>4, <2>5, <4>1 DEF Unambiguous, OneRecord
    <3> QED
      BY <3>1
  <2>12. w.node \in held[e]
    BY <2>3, <2>5, <2>9 DEF Belongs
  <2> HIDE DEF w
  <2>13. Answers(w.model, w.structure, w.from, e)
    BY <2>3, <2>4, <2>5, <2>8, <2>10, <2>11 DEF Answers
  <2> QED
    BY <2>3, <2>12, <2>13 DEF Heard
<1>6. ASSUME Describe(i)
      PROVE  Heard(w) /\ Others
  <2>1. v \in Description /\ v.pc = "describe"
    BY <1>1, <1>6 DEF Describe
  <2>2. PICK e \in EUIs, F \in {{}, Described}, s \in EUIs \cup {None} :
           /\ s \in {e, None}
           /\ addr[e] = v.node
           /\ iv' = [iv EXCEPT ![i].structure = s, ![i].facts = F,
                               ![i].pc = IF v.model = None /\ s # None THEN "again" ELSE "record"]
    BY <1>6 DEF Describe
  <2>3. /\ Others /\ w.pc \in {"again", "record"} /\ w.structure = s
        /\ w.model = v.model /\ w.node = v.node /\ w.from = v.from
    BY <1>0, <2>1, <2>2 DEF Description
  <2>4. w.from = None
    BY <1>0, <2>1, <2>3 DEF Heard
  <2>5. w.node \in held[e]
    BY <1>0, <2>2, <2>3
  <2>6. w.model \in {None, ModelOf[e]}
    <3>1. CASE v.model # None
      <4>1. PICK g \in EUIs : v.node \in held[g] /\ Answers(v.model, v.structure, v.from, g)
        BY <1>0, <2>1, <3>1 DEF Heard
      <4>2. g = e
        BY <1>0, <2>3, <2>5, <4>1 DEF AddressesApart
      <4> QED
        BY <2>3, <4>1, <4>2 DEF Answers
    <3> QED
      BY <2>3, <3>1
  <2> HIDE DEF w
  <2> QED
    BY <2>2, <2>3, <2>4, <2>5, <2>6 DEF Heard, Answers
<1>7. ASSUME RecordInterview(i)
      PROVE  Heard(w) /\ Others
  BY <1>0, <1>7 DEF RecordInterview, Heard
<1> QED
  BY <1>2, <1>3, <1>4, <1>5, <1>6, <1>7

\* The records are their devices' after every step.
LEMMA OwnedStep ==
    ASSUME RegistryAssumption, IInv, AddressesApart, ProvenanceInv, [Next]_vars
    PROVE  Owned(devices')
<1>0. Owned(devices) /\ Owned(disk) /\ Reporters \subseteq EUIs
  BY DEF ProvenanceInv, RegistryAssumption
<1>1. ASSUME NEW e \in EUIs, NEW n \in NodeIds, RecordReadings(e, n)
      PROVE  Owned(devices')
  BY <1>0, <1>1, OwnedReading, Zenon DEF Unambiguous
<1>2. ASSUME NEW e \in EUIs, NEW basic \in BOOLEAN, RecordValues(e, basic)
      PROVE  Owned(devices')
  BY <1>0, <1>2, OwnedValues
<1>3. ASSUME NEW e \in EUIs, NEW n \in NodeIds, NEW f \in Facts, RecordJoin(e, n, f)
      PROVE  Owned(devices')
  BY <1>0, <1>3, OwnedJoin
<1>4. ASSUME NEW k \in Keys, NEW name \in Names, SetName(k, name)
      PROVE  Owned(devices')
  BY <1>0, <1>4, OwnedNaming
<1>5. ASSUME NEW k \in Keys, ClearName(k)
      PROVE  Owned(devices')
  BY <1>0, <1>5, OwnedNaming
<1>6. ASSUME NEW i \in Interviewers, RecordInterview(i)
      PROVE  Owned(devices')
  BY <1>6, OwnedInterview
<1>7. CASE UNCHANGED devices
  BY <1>0, <1>7
<1>8. CASE Crash
  BY <1>0, <1>8 DEF Crash
<1> QED
  BY <1>0, <1>1, <1>2, <1>3, <1>4, <1>5, <1>6, <1>7, <1>8
     DEF Next, vars, ReadAttributes, InterviewStart, Identify, IdentifyFails, InheritFromPeer,
         Describe, DescribeFails, IdentifyAgain, Flush, Readdress

\* Every step keeps records with their devices.
LEMMA StepProvenance ==
    ASSUME RegistryAssumption, IInv, Unambiguous, ProvenanceInv, [Next]_vars
    PROVE  ProvenanceInv'
<1>0. TypeOK /\ AddressesApart
  BY DEF IInv, Unambiguous
<1>1. Owned(devices) /\ Owned(disk) /\ Owned(devices')
  BY <1>0, OwnedStep DEF ProvenanceInv
<1>2. Owned(disk')
  BY <1>1, RecordsStep DEF Written
<1>3. ASSUME NEW i \in Interviewers PROVE Heard(iv'[i])
  <2>0. iv[i] \in [pc: {"idle"}, left: Nat] \cup Description /\ Heard(iv[i])
    BY <1>0 DEF TypeOK, ProvenanceInv
  <2>1. ASSUME NEW j \in Interviewers,
               \/ \E n \in NodeIds, full \in BOOLEAN : InterviewStart(j, n, full)
               \/ Identify(j) \/ IdentifyFails(j) \/ InheritFromPeer(j)
               \/ Describe(j) \/ DescribeFails(j) \/ IdentifyAgain(j) \/ RecordInterview(j)
        PROVE  Heard(iv'[i])
    BY <2>0, <2>1, HeardStep, Zenon
  <2>2. CASE UNCHANGED iv
    BY <2>0, <2>2
  <2>3. CASE Crash
    BY <2>3 DEF Crash, Heard
  <2> QED
    BY <2>1, <2>2, <2>3
       DEF Next, vars, RecordReadings, ReadAttributes, RecordJoin, SetName, ClearName, Flush, Readdress
<1>4. \A e \in EUIs : held[e] \subseteq held'[e] /\ RecordOf(e) \subseteq RecordOf(e)'
  BY <1>0, NetworkStep DEF RecordOf
<1>5. \A d, k : \A e \in EUIs :
         Belongs(d, k, e) => /\ k \in RecordOf(e)' /\ d.nodeID \in held'[e] /\ d.readings \subseteq {e}
                             /\ Answers(d.model, d.structure, d.inheritedFrom, e)
  BY <1>4 DEF Belongs
<1>6. Owned(devices)' /\ Owned(disk)'
  BY <1>1, <1>2, <1>5 DEF Owned, Belongs
<1>7. ASSUME NEW i \in Interviewers PROVE Heard(iv[i])'
  BY <1>3, <1>4 DEF Heard
<1> QED
  BY <1>6, <1>7 DEF ProvenanceInv

\* Records belong to their devices at first.
LEMMA InitProvenance == ASSUME RegistryAssumption, Init PROVE ProvenanceInv
<1>1. Owned(devices) /\ Owned(disk)
  BY DEF Init, Owned
<1>2. ASSUME NEW i \in Interviewers PROVE Heard(iv[i])
  BY DEF Init, Heard
<1> QED
  BY <1>1, <1>2 DEF ProvenanceInv

\* As long as the network and the registry tell one device from another.
LEMMA SpecProvenance == RegistryAssumption => (Spec /\ []Unambiguous => []ProvenanceInv)
<1>1. ASSUME RegistryAssumption
      PROVE  Spec /\ []Unambiguous => []ProvenanceInv
  <2>1. Init => ProvenanceInv
    BY <1>1, InitProvenance
  <2>2. IInv /\ Unambiguous /\ ProvenanceInv /\ [Next]_vars => ProvenanceInv'
    BY <1>1, StepProvenance
  <2> QED
    BY <1>1, <2>1, <2>2, SpecIInv, PTL DEF Spec
<1> QED
  BY <1>1

\* The property follows.
LEMMA OwnedIsProvenance ==
    ASSUME RegistryAssumption, IInv, Unambiguous, ProvenanceInv
    PROVE  Provenance
<1> SUFFICES ASSUME NEW k \in DOMAIN devices
             PROVE  LET d == devices[k] IN
                    /\ \A e \in d.readings : k \in RecordOf(e)
                    /\ d.structure # None =>
                          IF d.inheritedFrom = None THEN k \in RecordOf(d.structure)
                          ELSE /\ d.inheritedFrom = d.structure
                               /\ ModelOf[d.structure] = d.model
                               /\ k \notin RecordOf(d.structure)
  BY DEF Provenance
<1> DEFINE d == devices[k]
<1>1. PICK e \in EUIs : Belongs(d, k, e)
  BY DEF ProvenanceInv, Owned
<1>2. d \in Device
  BY DEF IInv, TypeOK, IsRegistry
<1>3. ASSUME d.structure # None, d.inheritedFrom # None PROVE k \notin RecordOf(d.structure)
  <2>1. d.structure \in EUIs /\ d.structure # e /\ k \in RecordOf(e)
    BY <1>1, <1>2, <1>3 DEF Belongs, Answers, Device
  <2> QED
    BY <2>1, OneOwner DEF IInv, Unambiguous
<1> HIDE DEF d
<1>4. \A f \in d.readings : k \in RecordOf(f)
  BY <1>1 DEF Belongs
<1>5. d.structure # None =>
         IF d.inheritedFrom = None THEN k \in RecordOf(d.structure)
         ELSE d.inheritedFrom = d.structure /\ ModelOf[d.structure] = d.model /\ k \notin RecordOf(d.structure)
  BY <1>1, <1>3 DEF Belongs, Answers
<1> QED
  BY <1>4, <1>5 DEF d

\* What is known of a device is its own, or says whose it is (RecordReading, Promote,
\* QualifiesAsPeer, Inherit), as long as no address is handed out twice and no device that is
\* interviewed has a second record: for any number of devices, changes of address, interviews
\* and crashes, where TLC has at most one change of address.
THEOREM ProvenanceHolds == RegistryAssumption => (Spec /\ []Unambiguous => []Provenance)
<1>1. ASSUME RegistryAssumption
      PROVE  Spec /\ []Unambiguous => []Provenance
  <2>1. IInv /\ Unambiguous /\ ProvenanceInv => Provenance
    BY <1>1, OwnedIsProvenance
  <2> QED
    BY <1>1, <2>1, SpecIInv, SpecProvenance, PTL
<1> QED
  BY <1>1

(***************************************************************************)
(* A network no device leaves: there the condition holds by itself         *)
(***************************************************************************)
\* A device has one record: its own, or a placeholder.
Single(db) == \A e \in EUIs : ~(e \in DOMAIN db /\ unknownIEEE(addr[e]) \in DOMAIN db)

Settled ==
    /\ readdressed = 0
    /\ \A e \in EUIs : held[e] = {addr[e]}
    /\ \A d, e \in EUIs : addr[d] = addr[e] => d = e
    /\ Single(devices) /\ Single(disk)

\* Devices that keep their addresses are not taken for each other.
LEMMA SettledIsUnambiguous == ASSUME IInv, Settled PROVE Unambiguous
<1>1. AddressesApart
  BY DEF Settled, AddressesApart
<1>2. ASSUME NEW e \in EUIs, NEW j \in DOMAIN devices \cap RecordOf(e), NEW k \in DOMAIN devices \cap RecordOf(e)
      PROVE  j = k
  BY DEF Settled, Single, RecordOf
<1> QED
  BY <1>1, <1>2 DEF Unambiguous, OneRecord

\* Every step leaves a settled device one record.
LEMMA SingleStep ==
    ASSUME RegistryAssumption, IInv, ProvenanceInv, Settled, [Next]_vars
    PROVE  Single(devices')
<1>0. /\ Single(devices) /\ Single(disk) /\ TypeOK /\ IsRegistry(devices)
      /\ \A e \in EUIs : held[e] = {addr[e]} /\ addr[e] \in NodeIds
      /\ \A d, e \in EUIs : addr[d] = addr[e] => d = e
  BY DEF Settled, IInv, TypeOK
<1>1. CASE DOMAIN devices' \subseteq DOMAIN devices
  BY <1>0, <1>1 DEF Single
<1>2. ASSUME NEW k \in DOMAIN devices, NEW d, Put({}, k, d)
      PROVE  DOMAIN devices' = DOMAIN devices
  BY <1>2, PutSame
<1>3. ASSUME NEW e \in EUIs, NEW n \in NodeIds, RecordReadings(e, n)
      PROVE  Single(devices')
  <2>1. n = addr[e]
    BY <1>0, <1>3 DEF RecordReadings
  <2>2. PICK k \in Keys :
           \/ /\ k \in ByNodeID(n)
              /\ Put({}, k, [devices[k] EXCEPT !.readings = @ \cup {e}])
           \/ /\ ByNodeID(n) = {} /\ k = unknownIEEE(n) /\ k \notin DOMAIN devices
              /\ Put({}, k, [NewDevice(k, n) EXCEPT !.readings = {e}])
    BY <1>3, ReadingWrites
  <2>3. CASE k \in ByNodeID(n) /\ Put({}, k, [devices[k] EXCEPT !.readings = @ \cup {e}])
    BY <1>1, <1>2, <2>3 DEF ByNodeID
  <2>4. CASE ByNodeID(n) = {} /\ k = unknownIEEE(n) /\ Put({}, k, [NewDevice(k, n) EXCEPT !.readings = {e}])
    <3>1. DOMAIN devices' = DOMAIN devices \cup {k}
      BY <2>4 DEF Put
    <3>2. e \notin DOMAIN devices
      <4>1. ASSUME e \in DOMAIN devices PROVE FALSE
        <5>1. PICK f \in EUIs : Belongs(devices[e], e, f)
          BY <4>1 DEF ProvenanceInv, Owned
        <5>2. f = e
          BY <1>0, <5>1, OneOwner, SettledIsUnambiguous DEF Belongs, RecordOf, Unambiguous
        <5>3. devices[e].nodeID = n
          BY <1>0, <2>1, <5>1, <5>2 DEF Belongs
        <5> QED
          BY <2>4, <4>1, <5>3 DEF ByNodeID
      <4> QED
        BY <4>1
    <3>3. k \notin EUIs
      BY <2>4, Placeholders
    <3>4. ASSUME NEW d \in EUIs, d \in DOMAIN devices', unknownIEEE(addr[d]) \in DOMAIN devices'
          PROVE  FALSE
      <4>1. d \in DOMAIN devices /\ d # e
        BY <3>1, <3>2, <3>3, <3>4
      <4>2. unknownIEEE(addr[d]) = k
        BY <1>0, <3>1, <3>4, <4>1 DEF Single
      <4>3. addr[d] = n
        BY <2>4, <4>2, Placeholders
      <4> QED
        BY <1>0, <2>1, <4>1, <4>3
    <3> QED
      BY <3>4 DEF Single
  <2> QED
    BY <2>2, <2>3, <2>4
<1>4. ASSUME NEW e \in EUIs, NEW basic \in BOOLEAN, RecordValues(e, basic)
      PROVE  Single(devices')
  BY <1>1, <1>2, <1>4, ValuesWrite DEF ByNodeID
<1>5. ASSUME NEW e \in EUIs, NEW n \in NodeIds, NEW f \in Facts, RecordJoin(e, n, f)
      PROVE  Single(devices')
  <2>1. n = addr[e]
    BY <1>0, <1>5 DEF RecordJoin
  <2>2. DOMAIN devices' = (DOMAIN devices \ Promoted(e, n)) \cup {e}
    BY <1>5, JoinWrites DEF Put
  <2>3. unknownIEEE(n) \notin DOMAIN devices'
    <3>1. unknownIEEE(n) \notin EUIs
      BY Placeholders
    <3>2. CASE e \in DOMAIN devices
      BY <1>0, <2>1, <2>2, <3>1, <3>2 DEF Single
    <3>3. CASE e \notin DOMAIN devices
      BY <2>2, <3>1, <3>3 DEF Promoted
    <3> QED
      BY <3>2, <3>3
  <2>4. ASSUME NEW d \in EUIs, d \in DOMAIN devices', unknownIEEE(addr[d]) \in DOMAIN devices'
        PROVE  FALSE
    <3>1. d # e
      BY <2>1, <2>3, <2>4
    <3>2. unknownIEEE(addr[d]) # e
      BY <1>0, Placeholders
    <3> QED
      BY <1>0, <2>2, <2>4, <3>1, <3>2 DEF Single
  <2> QED
    BY <2>4 DEF Single
<1>6. ASSUME NEW k \in Keys, NEW name \in Names, SetName(k, name)
      PROVE  Single(devices')
  BY <1>1, <1>2, <1>6, NamesWrite
<1>7. ASSUME NEW k \in Keys, ClearName(k)
      PROVE  Single(devices')
  BY <1>1, <1>2, <1>7, NamesWrite
<1>8. ASSUME NEW i \in Interviewers, RecordInterview(i)
      PROVE  Single(devices')
  BY <1>1, <1>2, <1>8, InterviewWrites DEF ByNodeID
<1>9. CASE Crash
  BY <1>0, <1>9 DEF Crash
<1>10. Reporters \subseteq EUIs
  BY DEF RegistryAssumption
<1> QED
  BY <1>1, <1>3, <1>4, <1>5, <1>6, <1>7, <1>8, <1>9, <1>10
     DEF Next, vars, ReadAttributes, InterviewStart, Identify, IdentifyFails, InheritFromPeer,
         Describe, DescribeFails, IdentifyAgain, Flush, Readdress

\* Every step keeps the devices settled.
LEMMA StepSettled ==
    ASSUME RegistryAssumption, MaxReaddress = 0, IInv, ProvenanceInv, Settled, [Next]_vars
    PROVE  Settled'
<1>1. UNCHANGED <<readdressed, addr, held>>
  <2>1. ~(readdressed < MaxReaddress)
    BY DEF Settled
  <2> QED
    BY <2>1
       DEF Next, vars, RecordReadings, ReadAttributes, RecordJoin, SetName, ClearName, InterviewStart, Identify,
           IdentifyFails, InheritFromPeer, Describe, DescribeFails, IdentifyAgain, RecordInterview,
           Flush, Crash, Readdress, network
<1>2. Single(devices')
  BY SingleStep
<1>3. Single(disk')
  BY <1>2, RecordsStep DEF Written, Settled
<1> QED
  BY <1>1, <1>2, <1>3 DEF Settled, Single

\* In a network whose devices keep their addresses, nothing has to be assumed of it: what is
\* known of a device is its own, or says whose it is, whoever is interviewed, however often.
THEOREM ProvenanceWithoutRejoins == RegistryAssumption /\ MaxReaddress = 0 => (Spec => []Provenance)
<1>1. ASSUME RegistryAssumption, MaxReaddress = 0
      PROVE  Spec => []Provenance
  <2>1. Init => Settled /\ ProvenanceInv
    <3>1. Init => Settled
      BY DEF Init, Settled, Single
    <3> QED
      BY <1>1, <3>1, InitProvenance
  <2>2. IInv /\ Settled /\ ProvenanceInv /\ [Next]_vars => Settled' /\ ProvenanceInv'
    BY <1>1, StepSettled, StepProvenance, SettledIsUnambiguous
  <2>3. IInv /\ Settled /\ ProvenanceInv => Provenance
    BY <1>1, OwnedIsProvenance, SettledIsUnambiguous
  <2> QED
    BY <1>1, <2>1, <2>2, <2>3, SpecIInv, PTL DEF Spec
<1> QED
  BY <1>1

(***************************************************************************)
(* A device's own answers                                                  *)
(***************************************************************************)
\* A device is interviewed by one goroutine at a time.
OneInterview ==
    \A i, j \in Interviewers, e \in EUIs :
        /\ iv[i].pc # "idle" /\ iv[j].pc # "idle"
        /\ iv[i].node \in held[e] /\ iv[j].node \in held[e]
        => i = j

\* A sibling's answers are on their way to a device with none of its own.
Lends(v) ==
    v.pc = "record" /\ v.from # None =>
        \E e \in EUIs :
            /\ v.node \in held[e]
            /\ \A k \in DOMAIN devices : MayInherit(devices[k]) \/ \E f \in EUIs \ {e} : k \in RecordOf(f)

\* What a step may do to records, if it is not an interview's end: no answer of a device is
\* replaced, and new and promoted records have only what they had.
LEMMA AnswersKept ==
    ASSUME RegistryAssumption, IInv, AddressesApart, ProvenanceInv, [Next]_vars, ~Crash,
           \A i \in Interviewers : ~RecordInterview(i), NEW k \in DOMAIN devices'
    PROVE  \/ k \notin DOMAIN devices /\ MayInherit(devices'[k])
           \/ /\ k \in DOMAIN devices
              /\ devices'[k].structure = devices[k].structure
              /\ devices'[k].inheritedFrom = devices[k].inheritedFrom
           \/ \E e \in EUIs, j \in DOMAIN devices :
                 /\ k = e /\ k \notin DOMAIN devices /\ j \in RecordOf(e)
                 /\ devices'[k].structure = devices[j].structure
                 /\ devices'[k].inheritedFrom = devices[j].inheritedFrom
<1> DEFINE Same(j) == /\ devices'[k].structure = devices[j].structure
                      /\ devices'[k].inheritedFrom = devices[j].inheritedFrom
           Goal == \/ k \notin DOMAIN devices /\ MayInherit(devices'[k])
                   \/ k \in DOMAIN devices /\ Same(k)
                   \/ \E e \in EUIs, j \in DOMAIN devices :
                         k = e /\ k \notin DOMAIN devices /\ j \in RecordOf(e) /\ Same(j)
<1>0. IsRegistry(devices) /\ TypeOK
  BY DEF IInv, TypeOK
<1>1. ASSUME NEW j \in DOMAIN devices, NEW d, Put({}, j, d),
             d.structure = devices[j].structure, d.inheritedFrom = devices[j].inheritedFrom
      PROVE  Goal
  BY <1>1, PutSame
<1>2. ASSUME NEW j \in DOMAIN devices, NEW x,
             \/ Put({}, j, [devices[j] EXCEPT !.readings = x])
             \/ Put({}, j, [devices[j] EXCEPT !.model = x])
             \/ Put({}, j, [devices[j] EXCEPT !.name = x])
      PROVE  Goal
  <2>1. devices[j] \in Device
    BY <1>0 DEF IsRegistry
  <2>2. \A F \in {[devices[j] EXCEPT !.readings = x], [devices[j] EXCEPT !.model = x],
                  [devices[j] EXCEPT !.name = x]} :
           F.structure = devices[j].structure /\ F.inheritedFrom = devices[j].inheritedFrom
    BY <2>1 DEF Device
  <2>3. PICK d : /\ Put({}, j, d) /\ d.structure = devices[j].structure
                 /\ d.inheritedFrom = devices[j].inheritedFrom
    BY <1>2, <2>2
  <2> QED
    BY <1>1, <2>3
<1>3. ASSUME UNCHANGED devices
      PROVE  Goal
  BY <1>3
<1>4. ASSUME NEW e \in EUIs, NEW n \in NodeIds, RecordReadings(e, n)
      PROVE  Goal
  <2>1. PICK j \in Keys :
           \/ /\ j \in ByNodeID(n)
              /\ Put({}, j, [devices[j] EXCEPT !.readings = @ \cup {e}])
           \/ /\ ByNodeID(n) = {} /\ j = unknownIEEE(n) /\ j \notin DOMAIN devices
              /\ Put({}, j, [NewDevice(j, n) EXCEPT !.readings = {e}])
    BY <1>4, ReadingWrites
  <2>2. CASE j \in ByNodeID(n) /\ Put({}, j, [devices[j] EXCEPT !.readings = @ \cup {e}])
    BY <1>2, <2>2 DEF ByNodeID
  <2>3. CASE j \notin DOMAIN devices /\ Put({}, j, [NewDevice(j, n) EXCEPT !.readings = {e}])
    <3> DEFINE d == [NewDevice(j, n) EXCEPT !.readings = {e}]
    <3>1. d.structure = None
      BY DEF NewDevice
    <3>2. Put({}, j, d)
      BY <2>3
    <3> HIDE DEF d
    <3>3. devices'[j] = d /\ (k # j => k \in DOMAIN devices /\ devices'[k] = devices[k])
      BY <2>3, <3>2, PutNew
    <3> QED
      BY <2>3, <3>1, <3>3 DEF MayInherit
  <2> QED
    BY <2>1, <2>2, <2>3
<1>5. ASSUME NEW e \in EUIs, NEW basic \in BOOLEAN, RecordValues(e, basic)
      PROVE  Goal
  <2>1. \/ UNCHANGED devices
        \/ \E j \in DOMAIN devices :
              \/ Put({}, j, [devices[j] EXCEPT !.model = ModelOf[e]])
              \/ Put({}, j, [devices[j] EXCEPT !.readings = @ \cup {e}])
    <3>1. \/ UNCHANGED devices
          \/ \E j \in DOMAIN devices :
                Put({}, j, IF basic THEN [devices[j] EXCEPT !.model = ModelOf[e]]
                                    ELSE [devices[j] EXCEPT !.readings = @ \cup {e}])
      BY <1>5, ValuesWrite DEF ByNodeID
    <3> QED
      BY <3>1
  <2> QED
    BY <1>2, <1>3, <2>1
<1>6. ASSUME NEW e \in EUIs, NEW n \in NodeIds, NEW f \in Facts, RecordJoin(e, n, f)
      PROVE  Goal
  <2> DEFINE d == [Before(e, n) EXCEPT !.nodeID = n, !.facts = @ \cup {f}]
             u == unknownIEEE(n)
  <2>1. /\ d.structure = Before(e, n).structure
        /\ d.inheritedFrom = Before(e, n).inheritedFrom
    <3>1. Before(e, n) \in Device
      BY BeforeType
    <3> QED
      BY <3>1 DEF Device
  <2>2. Put(Promoted(e, n), e, d)
    BY <1>6, JoinWrites
  <2> HIDE DEF d
  <2>3. devices'[e] = d /\ (k # e => k \in DOMAIN devices /\ devices'[k] = devices[k])
    <3>1. /\ devices'[e] = d
          /\ \A j \in DOMAIN devices' \ {e} : j \in DOMAIN devices /\ devices'[j] = devices[j]
      BY <2>2, PutFacts, Zenon
    <3> QED
      BY <3>1
  <2>4. CASE k # e
    BY <2>3, <2>4
  <2>5. CASE k = e /\ e \in DOMAIN devices
    BY <2>1, <2>3, <2>5 DEF Before
  <2>6. CASE k = e /\ e \notin DOMAIN devices /\ u \in DOMAIN devices
    <3>1. devices[u] \in Device
      BY <1>0, <2>6 DEF IsRegistry
    <3>2. /\ Before(e, n).structure = devices[u].structure
          /\ Before(e, n).inheritedFrom = devices[u].inheritedFrom
      BY <2>6, <3>1 DEF Before, Promote, Device
    <3>3. u \in RecordOf(e)
      BY <1>6 DEF RecordJoin, RecordOf
    <3>4. Same(u)
      BY <2>1, <2>3, <2>6, <3>2
    <3> QED
      BY <2>6, <3>3, <3>4
  <2>7. CASE k = e /\ e \notin DOMAIN devices /\ u \notin DOMAIN devices
    BY <2>1, <2>3, <2>7 DEF Before, NewDevice, MayInherit
  <2> QED
    BY <2>4, <2>5, <2>6, <2>7
<1>7. ASSUME NEW j \in Keys, NEW name, SetName(j, name) \/ ClearName(j)
      PROVE  Goal
  <2>1. j \in DOMAIN devices /\ \E x : Put({}, j, [devices[j] EXCEPT !.name = x])
    BY <1>7, NamesWrite
  <2> QED
    BY <1>2, <2>1
<1>8. Reporters \subseteq EUIs
  BY DEF RegistryAssumption
<1> QED
  BY <1>3, <1>4, <1>5, <1>6, <1>7, <1>8
     DEF Next, vars, ReadAttributes, InterviewStart, Identify, IdentifyFails, InheritFromPeer,
         Describe, DescribeFails, IdentifyAgain, Flush, Readdress

Lent == \A i \in Interviewers : Lends(iv[i])

\* An interview may end in a sibling's answers only where its device had none when it was asked.
LEMMA LendingStarts ==
    ASSUME RegistryAssumption, IInv, Unambiguous, ProvenanceInv, NEW i \in Interviewers, Lends(iv[i]),
           \/ \E n \in NodeIds, full \in BOOLEAN : InterviewStart(i, n, full)
           \/ Identify(i) \/ IdentifyFails(i) \/ InheritFromPeer(i)
           \/ Describe(i) \/ DescribeFails(i) \/ IdentifyAgain(i) \/ RecordInterview(i)
    PROVE  Lends(iv'[i])
<1> DEFINE v == iv[i]
           w == iv'[i]
<1>0. /\ v \in [pc: {"idle"}, left: Nat] \cup Description
      /\ DOMAIN iv = Interviewers /\ Heard(v) /\ AddressesApart
  BY DEF IInv, TypeOK, ProvenanceInv, Unambiguous
<1>1. v.pc # "idle" => v \in Description
  BY <1>0
<1>2. ASSUME NEW n \in NodeIds, NEW full \in BOOLEAN, InterviewStart(i, n, full)
      PROVE  w.from = None
  BY <1>0, <1>2 DEF InterviewStart
<1>3. ASSUME Identify(i)
      PROVE  w.from = None
  <2>1. PICK e \in EUIs : iv' = [iv EXCEPT ![i].model = ModelOf[e],
                                           ![i].pc = IF iv[i].full THEN "describe" ELSE "inherit"]
    BY <1>3 DEF Identify
  <2> QED
    BY <1>0, <1>1, <1>3, <2>1 DEF Identify, Heard, Description
<1>4. ASSUME IdentifyFails(i) \/ DescribeFails(i)
      PROVE  w.from = None
  BY <1>0, <1>1, <1>4 DEF IdentifyFails, DescribeFails, Heard, Description
<1>5. ASSUME IdentifyAgain(i)
      PROVE  w.from = None
  <2>1. v \in Description /\ v.from = None
    BY <1>0, <1>1, <1>5 DEF IdentifyAgain, Heard
  <2>2. CASE iv' = [iv EXCEPT ![i].pc = "record"]
    BY <1>0, <2>1, <2>2 DEF Description
  <2>3. ASSUME NEW m, iv' = [iv EXCEPT ![i].model = m, ![i].pc = "record"]
        PROVE  w.from = None
    BY <1>0, <2>1, <2>3 DEF Description
  <2> QED
    BY <1>5, <2>2, <2>3 DEF IdentifyAgain
<1>6. ASSUME Describe(i)
      PROVE  w.from = None
  <2>1. v \in Description /\ v.from = None
    BY <1>0, <1>1, <1>6 DEF Describe, Heard
  <2>2. PICK F \in {{}, Described}, s \in EUIs \cup {None} :
           iv' = [iv EXCEPT ![i].structure = s, ![i].facts = F,
                            ![i].pc = IF v.model = None /\ s # None THEN "again" ELSE "record"]
    BY <1>6 DEF Describe
  <2> QED
    BY <1>0, <2>1, <2>2 DEF Description
<1>7. ASSUME RecordInterview(i)
      PROVE  w.pc = "idle"
  BY <1>0, <1>7 DEF RecordInterview
<1>8. ASSUME InheritFromPeer(i)
      PROVE  Lends(w)
  <2>1. v \in Description /\ v.pc = "inherit"
    BY <1>1, <1>8 DEF InheritFromPeer
  <2>2. CASE iv' = [iv EXCEPT ![i].pc = "describe"]
    <3>1. w.pc = "describe"
      BY <1>0, <2>1, <2>2 DEF Description
    <3> QED
      BY <3>1 DEF Lends
  <2>3. ASSUME NEW k \in ByNodeID(v.node), MayInherit(devices[k]), NEW p,
               iv' = [iv EXCEPT ![i].pc = "record", ![i].from = devices[p].ieee,
                                ![i].facts = devices[p].facts \cap Described,
                                ![i].structure = devices[p].structure]
        PROVE  Lends(w)
    <3>1. w.node = v.node
      BY <1>0, <2>1, <2>3 DEF Description
    <3>2. k \in DOMAIN devices /\ devices[k].nodeID = v.node
      BY DEF ByNodeID
    <3>3. PICK e \in EUIs : Belongs(devices[k], k, e)
      BY <3>2 DEF ProvenanceInv, Owned
    <3>4. ASSUME NEW l \in DOMAIN devices
          PROVE  MayInherit(devices[l]) \/ \E f \in EUIs \ {e} : l \in RecordOf(f)
      <4>1. PICK f \in EUIs : Belongs(devices[l], l, f)
        BY DEF ProvenanceInv, Owned
      <4>2. CASE f # e
        BY <4>1, <4>2 DEF Belongs
      <4>3. CASE f = e
        <5>1. k \in RecordOf(e) /\ l \in RecordOf(e) /\ v.node \in held[e]
          BY <3>2, <3>3, <4>1, <4>3 DEF Belongs
        <5>2. k = l
          BY <2>1, <3>2, <5>1 DEF Unambiguous, OneRecord
        <5> QED
          BY <2>3, <5>2
      <4> QED
        BY <4>2, <4>3
    <3>5. w.node \in held[e]
      BY <3>1, <3>2, <3>3 DEF Belongs
    <3> HIDE DEF w
    <3> QED
      BY <3>4, <3>5 DEF Lends
  <2> QED
    BY <1>8, <2>2, <2>3 DEF InheritFromPeer
<1> HIDE DEF w
<1>9. (w.from = None \/ w.pc = "idle") => Lends(w)
  BY DEF Lends
<1> QED
  BY <1>2, <1>3, <1>4, <1>5, <1>6, <1>7, <1>8, <1>9 DEF w

\* Every step keeps lent answers from replacing own ones.
LEMMA StepLent ==
    ASSUME RegistryAssumption, IInv, Unambiguous, OneInterview, ProvenanceInv, Lent, [Next]_vars
    PROVE  Lent'
<1>0. TypeOK /\ AddressesApart /\ \A e \in EUIs : held[e] \subseteq held'[e]
  BY NetworkStep DEF IInv, Unambiguous
<1>1. \A e \in EUIs : RecordOf(e) \subseteq RecordOf(e)'
  BY <1>0 DEF RecordOf
<1>2. SUFFICES ASSUME NEW i \in Interviewers, iv'[i].pc = "record", iv'[i].from # None
               PROVE  \E e \in EUIs :
                         /\ iv'[i].node \in held'[e]
                         /\ \A k \in DOMAIN devices' :
                               MayInherit(devices'[k]) \/ \E f \in EUIs \ {e} : k \in RecordOf(f)'
  BY DEF Lent, Lends, MayInherit
<1>3. ~Crash
  BY <1>2 DEF Crash
<1>4. Lends(iv'[i])
  <2>1. ASSUME NEW j \in Interviewers,
               \/ \E n \in NodeIds, full \in BOOLEAN : InterviewStart(j, n, full)
               \/ Identify(j) \/ IdentifyFails(j) \/ InheritFromPeer(j)
               \/ Describe(j) \/ DescribeFails(j) \/ IdentifyAgain(j) \/ RecordInterview(j)
        PROVE  Lends(iv'[i])
    <3>1. CASE j = i
      BY <2>1, <3>1, LendingStarts, Zenon DEF Lent
    <3>2. CASE j # i
      <4>1. iv'[i] = iv[i]
        BY <2>1, <3>2, HeardStep
      <4> QED
        BY <4>1 DEF Lent
    <3> QED
      BY <3>1, <3>2
  <2>2. CASE UNCHANGED iv
    BY <2>2 DEF Lent
  <2> QED
    BY <1>3, <2>1, <2>2
       DEF Next, vars, RecordReadings, ReadAttributes, RecordJoin, SetName, ClearName, Flush, Readdress
<1>5. PICK e \in EUIs :
         /\ iv'[i].node \in held[e]
         /\ \A k \in DOMAIN devices : MayInherit(devices[k]) \/ \E f \in EUIs \ {e} : k \in RecordOf(f)
  BY <1>2, <1>4 DEF Lends
<1>6. ASSUME NEW k \in DOMAIN devices'
      PROVE  MayInherit(devices'[k]) \/ \E f \in EUIs \ {e} : k \in RecordOf(f)
  <2>1. CASE \A j \in Interviewers : ~RecordInterview(j)
    <3>1. CASE MayInherit(devices'[k])
      BY <3>1
    <3>2. CASE /\ k \in DOMAIN devices
               /\ devices'[k].structure = devices[k].structure
               /\ devices'[k].inheritedFrom = devices[k].inheritedFrom
      BY <1>5, <3>2 DEF MayInherit
    <3>3. ASSUME NEW d \in EUIs, NEW j \in DOMAIN devices, k = d, j \in RecordOf(d),
                 devices'[k].structure = devices[j].structure,
                 devices'[k].inheritedFrom = devices[j].inheritedFrom
          PROVE  MayInherit(devices'[k]) \/ \E f \in EUIs \ {e} : k \in RecordOf(f)
      <4>1. CASE MayInherit(devices[j])
        BY <3>3, <4>1 DEF MayInherit
      <4>2. ASSUME NEW f \in EUIs \ {e}, j \in RecordOf(f)
            PROVE  k \in RecordOf(f)
        <5>1. f = d
          BY <1>0, <3>3, <4>2, OneOwner
        <5> QED
          BY <3>3, <5>1 DEF RecordOf
      <4> QED
        BY <1>5, <4>1, <4>2
    <3> QED
      BY <1>0, <1>3, <2>1, <3>1, <3>2, <3>3, AnswersKept
  <2>2. ASSUME NEW j \in Interviewers, RecordInterview(j)
        PROVE  MayInherit(devices'[k]) \/ \E f \in EUIs \ {e} : k \in RecordOf(f)
    <3>1. CASE UNCHANGED devices
      BY <1>5, <3>1
    <3>2. ASSUME iv[j].pc = "record", NEW l \in ByNodeID(iv[j].node), Put({}, l, ApplyInterview(devices[l], iv[j]))
          PROVE  MayInherit(devices'[k]) \/ \E f \in EUIs \ {e} : k \in RecordOf(f)
      <4>1. l \in DOMAIN devices /\ devices[l].nodeID = iv[j].node
        BY DEF ByNodeID
      <4>2. k \in DOMAIN devices /\ (k # l => devices'[k] = devices[k])
        BY <3>2, <4>1, PutSame
      <4>3. CASE k # l
        BY <1>5, <4>2, <4>3
      <4>4. CASE k = l
        <5>1. PICK g \in EUIs : Belongs(devices[l], l, g)
          BY <4>1 DEF ProvenanceInv, Owned
        <5>2. g # e
          <6>1. ASSUME g = e PROVE FALSE
            <7>1. i # j
              BY <1>2, <2>2 DEF RecordInterview, TypeOK, IInv
            <7>2. iv'[i] = iv[i]
              BY <2>2, <7>1, HeardStep
            <7>3. iv[j].node \in held[e] /\ iv[i].node \in held[e]
              BY <1>5, <4>1, <5>1, <6>1, <7>2 DEF Belongs
            <7> QED
              BY <1>2, <3>2, <7>1, <7>2, <7>3 DEF OneInterview
          <6> QED
            BY <6>1
        <5> QED
          BY <4>4, <5>1, <5>2 DEF Belongs
      <4> QED
        BY <4>3, <4>4
    <3> QED
      BY <2>2, <3>1, <3>2, InterviewWrites
  <2> QED
    BY <2>1, <2>2
<1>7. \A f, k : f \in EUIs /\ k \in RecordOf(f) => k \in RecordOf(f)'
  BY <1>1
<1> QED
  BY <1>0, <1>5, <1>6, <1>7

\* A device that has answered for itself is never given a sibling's answers (inheritFromPeer,
\* applyInterview), whatever joins, reports, is renamed or crashes between the question and
\* the record, as long as one goroutine at a time interviews a device.  Two that interview the
\* same one may: what the first learns is replaced by what the second was lent.
THEOREM OwnAnswersStayHolds ==
    RegistryAssumption => (Spec /\ []Unambiguous /\ []OneInterview => OwnAnswersStay)
<1>1. ASSUME RegistryAssumption, IInv, Unambiguous, ProvenanceInv, Lent, [Next]_vars
      PROVE  OwnAnswersStayStep
  <2> SUFFICES ASSUME NEW k \in DOMAIN devices \cap DOMAIN devices', crashes' = crashes,
                      devices[k].structure # None, devices[k].inheritedFrom = None
               PROVE  devices'[k].inheritedFrom = None
    BY DEF OwnAnswersStayStep
  <2>0. AddressesApart /\ TypeOK /\ ~MayInherit(devices[k])
    BY <1>1 DEF Unambiguous, IInv, MayInherit
  <2>1. ~Crash
    BY <2>0 DEF Crash, TypeOK
  <2>2. CASE \A i \in Interviewers : ~RecordInterview(i)
    BY <1>1, <2>0, <2>1, <2>2, AnswersKept
  <2>3. ASSUME NEW i \in Interviewers, RecordInterview(i)
        PROVE  devices'[k].inheritedFrom = None
    <3>1. CASE UNCHANGED devices
      BY <3>1
    <3>2. ASSUME iv[i].pc = "record", NEW l \in ByNodeID(iv[i].node), Put({}, l, ApplyInterview(devices[l], iv[i]))
          PROVE  devices'[k].inheritedFrom = None
      <4>1. /\ l \in DOMAIN devices /\ devices[l].nodeID = iv[i].node /\ devices[l] \in Device
            /\ iv[i] \in Description
        BY <2>0, <3>2 DEF ByNodeID, TypeOK, IsRegistry
      <4>2. CASE k # l
        BY <3>2, <4>1, <4>2, PutSame
      <4>3. CASE k = l
        <5>1. devices'[k] = ApplyInterview(devices[k], iv[i])
          BY <3>2, <4>1, <4>3, PutSame
        <5>2. ApplyInterview(devices[k], iv[i]).inheritedFrom =
                 IF iv[i].structure # None THEN iv[i].from ELSE devices[k].inheritedFrom
          BY <4>1, <4>3, Applied, Zenon
        <5>3. iv[i].from = None
          <6>1. ASSUME iv[i].from # None PROVE FALSE
            <7>1. PICK e \in EUIs :
                     iv[i].node \in held[e] /\ \E f \in EUIs \ {e} : k \in RecordOf(f)
              BY <1>1, <2>0, <3>2, <6>1 DEF Lent, Lends
            <7>2. PICK f \in EUIs \ {e} : k \in RecordOf(f)
              BY <7>1
            <7>3. PICK g \in EUIs : Belongs(devices[k], k, g)
              BY <1>1 DEF ProvenanceInv, Owned
            <7>4. g = f
              BY <1>1, <2>0, <7>2, <7>3, OneOwner DEF Belongs
            <7> QED
              BY <2>0, <4>1, <4>3, <7>1, <7>2, <7>3, <7>4 DEF Belongs, AddressesApart
          <6> QED
            BY <6>1
        <5> QED
          BY <5>1, <5>2, <5>3
      <4> QED
        BY <4>2, <4>3
    <3> QED
      BY <1>1, <2>3, <3>1, <3>2, InterviewWrites
  <2> QED
    BY <2>2, <2>3
<1>2. ASSUME RegistryAssumption
      PROVE  Spec /\ []Unambiguous /\ []OneInterview => OwnAnswersStay
  <2>1. Init => Lent
    BY DEF Init, Lent, Lends
  <2>2. IInv /\ Unambiguous /\ OneInterview /\ ProvenanceInv /\ Lent /\ [Next]_vars => Lent'
    BY <1>2, StepLent
  <2>3. IInv /\ Unambiguous /\ ProvenanceInv /\ Lent /\ [Next]_vars => OwnAnswersStayStep
    BY <1>1, <1>2
  <2> QED
    BY <1>2, <2>1, <2>2, <2>3, SpecIInv, SpecProvenance, PTL DEF Spec, OwnAnswersStay
<1> QED
  BY <1>2

(***************************************************************************)
(* RegistryFile: the file is always readable, and keeps what was saved      *)
(* while processes take turns.                                              *)
(***************************************************************************)
Content == [Entries -> Nat]

File == [whole: BOOLEAN, entries: Content]

FileTypeOK ==
    /\ file \in File
    /\ temp \in [Processes -> File]
    /\ pc \in [Processes -> {"stopped", "running", "created", "written", "unreadable"}]
    /\ memory \in [Processes -> Content]
    /\ reported \in Content
    /\ overlapped \in BOOLEAN
    /\ changes \in Nat /\ failures \in Nat

\* What is about to be renamed is a whole file with all the process holds.
TempInv ==
    \A p \in Processes : pc[p] = "written" => temp[p] = Whole(memory[p])

\* Nothing comes from a change that was not made yet.
MadeInv ==
    \A e \in Entries :
        /\ file.entries[e] <= changes
        /\ \A p \in Processes : memory[p][e] <= changes

\* What Open drops or renames is in no process and was reported by none, but for
\* illuminance, which is written again.
Clean(content) == \A e \in Dropped \ {"illuminance"} : content[e] = Absent

CleanInv == Clean(reported) /\ \A p \in Processes : Clean(memory[p])

\* Where what was reported is found again.
SavedIn(content) == \A e \in Entries \ {"illuminance"} : reported[e] <= content[e]

\* While processes take turns at most one runs, and the file and its copy both
\* have what was reported.
TurnInv ==
    ~overlapped =>
        /\ SavedIn(file.entries)
        /\ \A p \in Processes : Running(p) => SavedIn(memory[p])
        /\ \A p, q \in Processes : Running(p) /\ Running(q) => p = q

FileInv == FileTypeOK /\ AlwaysReadable /\ TempInv /\ MadeInv /\ CleanInv /\ TurnInv

\* An empty registry is a content, and has nothing that Open drops.
LEMMA NothingIsClean == Nothing \in Content /\ Clean(Nothing) /\ \A e \in Entries : Nothing[e] = 0
  BY DEF Nothing, Content, Clean, Absent, Dropped, Entries, Current, Statistics, Ambiguous

\* The program starts in a state that satisfies the invariant.
LEMMA InitFileInv == FileInit => FileInv
<1> SUFFICES ASSUME FileInit PROVE FileInv
  OBVIOUS
<1>1. PICK left \in SUBSET OldEntries :
          file = Whole([e \in Entries |-> IF e \in left THEN Old ELSE Absent])
  BY DEF FileInit
<1>2. file.whole /\ file.entries \in Content /\ (\A e \in Entries : file.entries[e] <= Old)
      /\ file \in File
  BY <1>1 DEF Whole, Old, Absent, Content, File
<1>3. FileTypeOK
  BY <1>2, NothingIsClean DEF FileInit, FileTypeOK, File, Partial, Old
<1>4. AlwaysReadable /\ TempInv
  BY <1>2 DEF FileInit, AlwaysReadable, TempInv
<1>5. MadeInv
  BY <1>2, NothingIsClean DEF FileInit, MadeInv, Old
<1>6. CleanInv
  BY NothingIsClean DEF FileInit, CleanInv
<1>7. TurnInv
  BY <1>2, NothingIsClean DEF FileInit, TurnInv, SavedIn, Running, Content
<1> QED
  BY <1>3, <1>4, <1>5, <1>6, <1>7 DEF FileInv

\* Migrating drops no entry of this version but illuminance, and makes no
\* entry newer than those it found.
LEMMA MigratedKeeps ==
  ASSUME NEW c \in Content, NEW n \in Nat, \A e \in Entries : c[e] <= n
  PROVE  /\ Migrated(c) \in Content
         /\ Clean(Migrated(c))
         /\ \A e \in Entries : Migrated(c)[e] <= n
         /\ \A e \in Entries \ Dropped : c[e] <= Migrated(c)[e]
<1>1. \A e \in DOMAIN LegacyOf : LegacyOf[e] \in Entries
  BY DEF LegacyOf, Entries, Ambiguous
<1>2. \A e \in Entries : c[e] \in Nat
  BY DEF Content
<1>3. \A e \in Entries : Migrated(c)[e] = IF e \in Dropped THEN Absent
            ELSE IF e \in DOMAIN LegacyOf /\ c[e] = Absent THEN c[LegacyOf[e]] ELSE c[e]
  BY DEF Migrated
<1>4. \A e \in Entries : Migrated(c)[e] \in Nat /\ Migrated(c)[e] <= n
  BY <1>1, <1>2, <1>3 DEF Absent
<1>5. Migrated(c) \in Content
  BY <1>4 DEF Migrated, Content
<1>6. Clean(Migrated(c))
  BY <1>3 DEF Clean, Dropped, Entries, Current, Statistics, Ambiguous
<1>7. \A e \in Entries \ Dropped : c[e] <= Migrated(c)[e]
  BY <1>1, <1>2, <1>3 DEF Absent
<1> QED
  BY <1>4, <1>5, <1>6, <1>7

\* Every step of every process keeps it.
LEMMA StepFileInv == FileInv /\ [FileNext]_fileVars => FileInv'
<1> SUFFICES ASSUME FileInv, [FileNext]_fileVars PROVE FileInv'
  OBVIOUS
<1> USE DEF FileInv
<1>1. CASE UNCHANGED fileVars
  BY <1>1 DEF fileVars, FileTypeOK, AlwaysReadable, TempInv, MadeInv, CleanInv, Clean, TurnInv, SavedIn, Running
<1>2. ASSUME NEW p \in Processes, Open(p) PROVE FileInv'
  <2>0. file.whole /\ pc[p] = "stopped"
    BY <1>2 DEF Open, AlwaysReadable
  <2>1. /\ pc' = [pc EXCEPT ![p] = "running"]
        /\ memory' = [memory EXCEPT ![p] = Migrated(file.entries)]
        /\ overlapped' = (overlapped \/ \E q \in Processes \ {p} : Running(q))
        /\ UNCHANGED <<file, temp, reported, changes, failures>>
    BY <1>2, <2>0 DEF Open
  <2>2. /\ Migrated(file.entries) \in Content
        /\ Clean(Migrated(file.entries))
        /\ \A e \in Entries : Migrated(file.entries)[e] <= changes
        /\ \A e \in Entries \ Dropped : file.entries[e] <= Migrated(file.entries)[e]
    <3>1. file.entries \in Content /\ changes \in Nat /\ \A e \in Entries : file.entries[e] <= changes
      BY DEF FileTypeOK, File, MadeInv
    <3> QED
      BY <3>1, MigratedKeeps
  <2>3. FileTypeOK'
    <3>1. overlapped' \in BOOLEAN
      BY <2>1
    <3> QED
      BY <2>1, <2>2, <3>1 DEF FileTypeOK
  <2>4. AlwaysReadable' /\ TempInv'
    BY <2>0, <2>1 DEF FileTypeOK, AlwaysReadable, TempInv
  <2>5. MadeInv' /\ CleanInv'
    BY <2>1, <2>2 DEF FileTypeOK, MadeInv, CleanInv, Clean
  <2>6. TurnInv'
    <3> SUFFICES ASSUME ~overlapped' PROVE
          /\ SavedIn(file.entries)'
          /\ \A x \in Processes : Running(x)' => SavedIn(memory[x])'
          /\ \A x, y \in Processes : Running(x)' /\ Running(y)' => x = y
      BY DEF TurnInv
    <3>1. ~overlapped /\ \A q \in Processes \ {p} : ~Running(q)
      BY <2>1
    <3>2. \A q \in Processes : Running(q)' => q = p
      BY <2>1, <3>1 DEF Running, FileTypeOK
    <3>3. memory'[p] = Migrated(file.entries)
      BY <2>1 DEF FileTypeOK
    <3>4. \A e \in Entries \ {"illuminance"} : reported[e] <= Migrated(file.entries)[e]
      <4>1. TAKE e \in Entries \ {"illuminance"}
      <4>2. /\ reported[e] \in Nat /\ file.entries[e] \in Nat /\ Migrated(file.entries)[e] \in Nat
            /\ reported[e] <= file.entries[e]
        BY <2>2, <3>1 DEF TurnInv, SavedIn, FileTypeOK, File, Content
      <4>3. CASE e \in Dropped
        BY <4>2, <4>3 DEF CleanInv, Clean, Absent
      <4>4. CASE e \notin Dropped
        BY <2>2, <4>2, <4>4
      <4> QED
        BY <4>3, <4>4
    <3> QED
      BY <2>1, <3>1, <3>2, <3>3, <3>4 DEF TurnInv, SavedIn
  <2> QED
    BY <2>3, <2>4, <2>5, <2>6
<1>3. ASSUME NEW p \in Processes, Change(p) PROVE FileInv'
  <2>1. PICK e \in Current : memory' = [memory EXCEPT ![p] = [memory[p] EXCEPT ![e] = changes']]
    BY <1>3 DEF Change
  <2>2. /\ pc[p] = "running" /\ changes' = changes + 1 /\ changes' \in Nat
        /\ UNCHANGED <<file, temp, pc, reported, failures, overlapped>>
    BY <1>3 DEF Change, FileTypeOK
  <2>3. e \in Entries /\ (e \notin Dropped \/ e = "illuminance")
    BY DEF Entries, Dropped, Statistics, Current
  <2>4. /\ memory \in [Processes -> Content] /\ memory' \in [Processes -> Content]
        /\ \A q \in Processes \ {p} : memory'[q] = memory[q]
        /\ \A f \in Entries : memory'[p][f] = IF f = e THEN changes' ELSE memory[p][f]
    BY <2>1, <2>2, <2>3 DEF FileTypeOK, Content
  <2>5. FileTypeOK'
    BY <2>2, <2>4 DEF FileTypeOK
  <2>6. AlwaysReadable' /\ TempInv'
    BY <2>2, <2>4 DEF FileTypeOK, AlwaysReadable, TempInv
  <2>7. MadeInv'
    <3>1. \A f \in Entries : file.entries[f] \in Nat /\ file.entries[f] <= changes
      BY DEF MadeInv, FileTypeOK, File, Content
    <3>2. \A f \in Entries, q \in Processes : memory[q][f] \in Nat /\ memory[q][f] <= changes
      BY <2>4 DEF MadeInv, Content
    <3>3. \A f \in Entries : file'.entries[f] <= changes'
      BY <2>2, <3>1 DEF FileTypeOK
    <3>4. \A f \in Entries, q \in Processes : memory'[q][f] <= changes'
      BY <2>2, <2>4, <3>2 DEF FileTypeOK
    <3> QED
      BY <3>3, <3>4 DEF MadeInv
  <2>8. CleanInv'
    <3>1. \A f \in Dropped : f \in Entries \/ f = "illuminance"
      BY DEF Dropped, Entries, Statistics, Ambiguous
    <3> QED
      BY <2>2, <2>3, <2>4, <3>1 DEF CleanInv, Clean
  <2>9. TurnInv'
    <3>1. \A q \in Processes : Running(q)' <=> Running(q)
      BY <2>2 DEF Running
    <3>2. ASSUME ~overlapped PROVE SavedIn(memory[p])'
      <4>1. \A f \in Entries \ {"illuminance"} :
                reported[f] <= memory[p][f] /\ memory[p][f] <= changes
                /\ reported[f] \in Nat /\ memory[p][f] \in Nat
        BY <2>2, <2>4, <3>2 DEF TurnInv, SavedIn, Running, MadeInv, FileTypeOK, Content
      <4> QED
        BY <2>2, <2>4, <4>1 DEF SavedIn, FileTypeOK
    <3> QED
      BY <2>2, <2>4, <3>1, <3>2 DEF TurnInv, SavedIn
  <2> QED
    BY <2>5, <2>6, <2>7, <2>8, <2>9
<1>4. ASSUME NEW p \in Processes, CreateTemp(p) PROVE FileInv'
  <2>1. Partial \in File
    BY NothingIsClean DEF Partial, File
  <2> QED
    BY <1>4, <2>1 DEF CreateTemp, FileTypeOK, AlwaysReadable, TempInv, MadeInv, CleanInv, Clean, TurnInv, SavedIn, Running
<1>5. ASSUME NEW p \in Processes, WriteTemp(p) PROVE FileInv'
  <2>1. Whole(memory[p]) \in File
    BY DEF FileTypeOK, Whole, File
  <2> QED
    BY <1>5, <2>1 DEF WriteTemp, FileTypeOK, AlwaysReadable, TempInv, MadeInv, CleanInv, Clean, TurnInv, SavedIn, Running
<1>6. ASSUME NEW p \in Processes, Rename(p) PROVE FileInv'
  <2>1. /\ file' = Whole(memory[p]) /\ memory[p] \in Content /\ reported \in Content
        /\ UNCHANGED <<memory, changes, failures, overlapped>>
    BY <1>6 DEF Rename, TempInv, FileTypeOK
  <2>2. file'.whole /\ file'.entries = memory[p] /\ file' \in File
    BY <2>1 DEF Whole, File
  <2>3. /\ reported' \in Content
        /\ \A e \in Entries : reported'[e] = IF memory[p][e] > reported[e] THEN memory[p][e] ELSE reported[e]
    BY <1>6, <2>1 DEF Rename, Content
  <2>4. FileTypeOK'
    <3>1. Partial \in File
      BY NothingIsClean DEF Partial, File
    <3> QED
      BY <1>6, <2>2, <2>3, <3>1 DEF Rename, FileTypeOK
  <2>5. AlwaysReadable' /\ TempInv'
    BY <1>6, <2>2 DEF Rename, FileTypeOK, AlwaysReadable, TempInv
  <2>6. MadeInv'
    BY <2>1, <2>2 DEF MadeInv
  <2>7. CleanInv'
    <3>1. \A e \in Dropped : e \in Entries \/ e = "illuminance"
      BY DEF Dropped, Entries, Statistics, Ambiguous
    <3> QED
      BY <2>1, <2>3, <3>1 DEF CleanInv, Clean
  <2>8. TurnInv'
    <3> SUFFICES ASSUME ~overlapped PROVE
          /\ SavedIn(file.entries)'
          /\ \A x \in Processes : Running(x)' => SavedIn(memory[x])'
          /\ \A x, y \in Processes : Running(x)' /\ Running(y)' => x = y
      BY <2>1 DEF TurnInv
    <3>1. Running(p)
      BY <1>6 DEF Rename, Running
    <3>2. \A q \in Processes : Running(q)' <=> Running(q)
      BY <1>6 DEF Rename, Running, FileTypeOK
    <3>3. \A e \in Entries \ {"illuminance"} :
              reported[e] \in Nat /\ memory[p][e] \in Nat /\ reported[e] <= memory[p][e]
      BY <2>1, <3>1 DEF TurnInv, SavedIn, Content
    <3>4. \A e \in Entries \ {"illuminance"} : reported'[e] = memory[p][e]
      BY <2>3, <3>3
    <3>5. \A q \in Processes : Running(q) => q = p
      BY <3>1 DEF TurnInv
    <3>6. SavedIn(file.entries)' /\ SavedIn(memory[p])'
      BY <2>1, <2>2, <3>3, <3>4 DEF SavedIn
    <3> QED
      BY <3>2, <3>5, <3>6
  <2> QED
    BY <2>4, <2>5, <2>6, <2>7, <2>8
<1>7. ASSUME NEW p \in Processes, SaveFailed(p) PROVE FileInv'
  <2>1. Partial \in File
    BY NothingIsClean DEF Partial, File
  <2> QED
    BY <1>7, <2>1 DEF SaveFailed, FileTypeOK, AlwaysReadable, TempInv, MadeInv, CleanInv, Clean, TurnInv, SavedIn, Running
<1>8. ASSUME NEW p \in Processes,
             pc' = [pc EXCEPT ![p] = "stopped"], memory' = [memory EXCEPT ![p] = Nothing],
             UNCHANGED <<file, temp, reported, changes, overlapped>>, failures' \in Nat
      PROVE  FileInv'
  <2>1. FileTypeOK'
    BY <1>8, NothingIsClean DEF FileTypeOK
  <2>2. AlwaysReadable' /\ TempInv'
    BY <1>8 DEF FileTypeOK, AlwaysReadable, TempInv
  <2>3. MadeInv' /\ CleanInv'
    BY <1>8, NothingIsClean DEF FileTypeOK, MadeInv, CleanInv, Clean
  <2>4. TurnInv'
    BY <1>8 DEF FileTypeOK, TurnInv, SavedIn, Running
  <2> QED
    BY <2>1, <2>2, <2>3, <2>4
<1>9. ASSUME NEW p \in Processes, Exit(p) \/ Kill(p) PROVE FileInv'
  BY <1>8, <1>9 DEF Exit, Kill, FileTypeOK
<1> QED
  BY <1>1, <1>2, <1>3, <1>4, <1>5, <1>6, <1>7, <1>9 DEF FileNext

\* The invariant holds throughout.
THEOREM FileInductive == FileSpec => []FileInv
  BY InitFileInv, StepFileInv, PTL DEF FileSpec

\* Save never leaves a registry that store.Open cannot parse, wherever it fails
\* and whichever processes are killed.
THEOREM AlwaysReadableHolds == FileSpec => []AlwaysReadable
<1>1. FileInv => AlwaysReadable
  BY DEF FileInv
<1> QED
  BY <1>1, FileInductive, PTL

\* What Save reported as saved stays in the file while processes take turns,
\* whatever Open migrates; only illuminance, which Open drops, is left out.
THEOREM SavedAloneHolds == FileSpec => []SavedAlone
<1>1. FileInv => SavedAlone
  BY DEF FileInv, TurnInv, SavedIn, SavedAlone
<1> QED
  BY <1>1, FileInductive, PTL
=============================================================================
