---------------------------- MODULE RegistryFile ----------------------------
(***************************************************************************)
(* The registry file and the processes that share it: store.Open and        *)
(* Store.Save, step by step.  A process (gzb monitor, gzb name, gzb         *)
(* interview, an application) reads the file when it starts, works on its   *)
(* copy, and writes the whole copy back: to a temporary file first, which   *)
(* is then renamed over the registry.  Any step may fail, and a process     *)
(* may be killed between any two.  The content says, for each entry, which  *)
(* change wrote it last.  Opening migrates: entries an earlier version of   *)
(* gzb left behind are renamed or dropped, on every start.                  *)
(***************************************************************************)
EXTENDS Naturals, FiniteSets

CONSTANTS
    Processes,      \* processes that open the registry
    OldEntries,     \* entries that may be in a file an earlier version left
    MaxChanges,     \* bound: changes made in all
    MaxFailures     \* bound: failed file operations and killed processes

\* What a device's record holds.  "temperature" stands for all that no
\* migration touches: most readings, the name, the structure.  "statistic" is
\* an extreme a display sensor keeps.  The ambiguous "battery" is told apart
\* by its unit.
Current == {"temperature", "illuminance", "batteryVoltage", "batteryPercentage"}
Statistics == {"statistic"}
Ambiguous == {"batteryInVolts", "batteryInPercent", "batteryInOtherUnit"}
Entries == Current \cup Statistics \cup Ambiguous

ASSUME RegistryFileAssumption ==
    /\ OldEntries \subseteq Entries
    /\ MaxChanges \in Nat /\ MaxFailures \in Nat /\ IsFiniteSet(Processes)

VARIABLES
    file,           \* the registry file: [whole, entries]
    temp,           \* temporary files by the process that created them
    pc,             \* where each process is
    memory,         \* each process's copy: the change that wrote each entry
    reported,       \* history: the latest of each entry in a Save that returned nil
    overlapped,     \* history: a process opened the file while another was running
    changes,        \* number of the latest change
    failures

fileVars == <<file, temp, pc, memory, reported, overlapped, changes, failures>>

\* An entry is numbered by the change that wrote it; an earlier version's
\* entries come before all of this version's.
Absent == 0
Old == 1
Nothing == [e \in Entries |-> Absent]

\* A file has all its bytes, or is empty or cut off half way.
Whole(content) == [whole |-> TRUE, entries |-> content]
Partial == [whole |-> FALSE, entries |-> Nothing]

\* No file, which opens as an empty registry, or one of an earlier version.  A
\* record has at most one "battery".
FileInit ==
    /\ \E left \in SUBSET OldEntries :
          /\ Cardinality(left \cap Ambiguous) <= 1
          /\ file = Whole([e \in Entries |-> IF e \in left THEN Old ELSE Absent])
    /\ temp = [p \in Processes |-> Partial]
    /\ pc = [p \in Processes |-> "stopped"]
    /\ memory = [p \in Processes |-> Nothing]
    /\ reported = Nothing
    /\ overlapped = FALSE
    /\ changes = Old
    /\ failures = 0

Running(p) == pc[p] \in {"running", "created", "written"}

\* migrateLegacyBatteryReading: the name a "battery" in each unit is given,
\* unless the record has an entry of that name.
LegacyOf == [e \in {"batteryVoltage", "batteryPercentage"} |->
                IF e = "batteryVoltage" THEN "batteryInVolts" ELSE "batteryInPercent"]

\* Mutant of Dropped: the voltage is taken for one of the statistics.
DroppedVoltage == Statistics \cup {"illuminance", "batteryInVolts", "batteryInPercent", "batteryVoltage"}

\* What no record has after it was opened: dropRecordedStatistics,
\* dropRawIlluminance, and the "battery" that was renamed.
Dropped == Statistics \cup {"illuminance", "batteryInVolts", "batteryInPercent"}

Migrated(entries) ==
    [e \in Entries |->
        IF e \in Dropped THEN Absent
        ELSE IF e \in DOMAIN LegacyOf /\ entries[e] = Absent THEN entries[LegacyOf[e]]
        ELSE entries[e]]

\* Open: the file is read, parsed and migrated; a file that does not parse is
\* an error the program cannot get past.
Open(p) ==
    /\ pc[p] = "stopped"
    /\ IF file.whole
       THEN /\ pc' = [pc EXCEPT ![p] = "running"]
            /\ memory' = [memory EXCEPT ![p] = Migrated(file.entries)]
       ELSE /\ pc' = [pc EXCEPT ![p] = "unreadable"]
            /\ UNCHANGED memory
    /\ overlapped' = (overlapped \/ \E q \in Processes \ {p} : Running(q))
    /\ UNCHANGED <<file, temp, reported, changes, failures>>

\* A reading, a join, a name given or cleared: any operation on the copy in
\* memory.  This version writes no statistics and no "battery".
Change(p) ==
    /\ pc[p] = "running"
    /\ changes < Old + MaxChanges
    /\ changes' = changes + 1
    /\ \E e \in Current : memory' = [memory EXCEPT ![p][e] = changes']
    /\ UNCHANGED <<file, temp, pc, reported, failures, overlapped>>

\* Mutant of CreateTemp: the registry itself is opened for writing.
CreateTruncating(p) ==
    /\ pc[p] = "running"
    /\ pc' = [pc EXCEPT ![p] = "created"]
    /\ temp' = [temp EXCEPT ![p] = Partial]
    /\ file' = Partial
    /\ UNCHANGED <<memory, reported, changes, failures, overlapped>>

\* Save: os.CreateTemp, in the registry's own directory.
CreateTemp(p) ==
    /\ pc[p] = "running"
    /\ pc' = [pc EXCEPT ![p] = "created"]
    /\ temp' = [temp EXCEPT ![p] = Partial]
    /\ UNCHANGED <<file, memory, reported, changes, failures, overlapped>>

\* Save: tmp.Write and tmp.Close.
WriteTemp(p) ==
    /\ pc[p] = "created"
    /\ pc' = [pc EXCEPT ![p] = "written"]
    /\ temp' = [temp EXCEPT ![p] = Whole(memory[p])]
    /\ UNCHANGED <<file, memory, reported, changes, failures, overlapped>>

\* Save: os.Rename, and the return.
Rename(p) ==
    /\ pc[p] = "written"
    /\ pc' = [pc EXCEPT ![p] = "running"]
    /\ file' = temp[p]
    /\ temp' = [temp EXCEPT ![p] = Partial]
    /\ reported' = [e \in Entries |->
                      IF memory[p][e] > reported[e] THEN memory[p][e] ELSE reported[e]]
    /\ UNCHANGED <<memory, changes, failures, overlapped>>

\* Save: any step fails; the deferred os.Remove takes the temporary file away.
SaveFailed(p) ==
    /\ pc[p] \in {"created", "written"}
    /\ failures < MaxFailures
    /\ failures' = failures + 1
    /\ pc' = [pc EXCEPT ![p] = "running"]
    /\ temp' = [temp EXCEPT ![p] = Partial]
    /\ UNCHANGED <<file, memory, reported, changes, overlapped>>

\* The command ends: it has nothing more to do.
Exit(p) ==
    /\ pc[p] = "running"
    /\ pc' = [pc EXCEPT ![p] = "stopped"]
    /\ memory' = [memory EXCEPT ![p] = Nothing]
    /\ UNCHANGED <<file, temp, reported, changes, failures, overlapped>>

\* The process is killed, in the middle of Save or not.
Kill(p) ==
    /\ Running(p)
    /\ failures < MaxFailures
    /\ failures' = failures + 1
    /\ pc' = [pc EXCEPT ![p] = "stopped"]
    /\ memory' = [memory EXCEPT ![p] = Nothing]
    /\ UNCHANGED <<file, temp, reported, changes, overlapped>>

FileNext ==
    \E p \in Processes :
        \/ Open(p) \/ Change(p) \/ CreateTemp(p) \/ WriteTemp(p) \/ Rename(p)
        \/ SaveFailed(p) \/ Exit(p) \/ Kill(p)

FileSpec == FileInit /\ [][FileNext]_fileVars

(***************************************************************************)
(* Properties                                                              *)
(***************************************************************************)

\* An interrupted save cannot leave a half-written registry behind: whatever
\* processes are killed and wherever, the file parses.
AlwaysReadable ==
    /\ file.whole
    /\ \A p \in Processes : pc[p] # "unreadable"

\* As long as no process has opened the registry while another was using it,
\* what a Save that returned nil wrote stays in the file until a later change of
\* the same entry replaces it: through failed saves, killed processes and the
\* migrations of later sessions.  Illuminance is the exception: every Open
\* drops it, though this version records it (dropRawIlluminance).
SavedAlone ==
    ~overlapped => \A e \in Entries \ {"illuminance"} : reported[e] <= file.entries[e]
=============================================================================
