----------------------------- MODULE MCRegistry -----------------------------
(***************************************************************************)
(* The registry in three situations: a disk that fails, a crash, names that *)
(* differ only in case and a change of address; interviews of several       *)
(* devices; and its file, shared by processes (RegistryFile).  A behaviour  *)
(* is one of the three.                                                     *)
(***************************************************************************)
EXTENDS Registry, RegistryFile, TLC

CONSTANTS e1, e2, e4, n1, n2, n3, n4, p1, p2

VARIABLE part

partVars == <<part, vars, fileVars>>

ASSUME RegistryAssumption

\* "lamp" and "LAMP" are one name to strings.EqualFold; the devices are units of one model.
FoldCase == [n \in Names |-> "lamp"]
OneModel == [e \in EUIs |-> "m1"]

\* Two devices and three addresses: e4 is switched off, under an address of its own.
Naming ==
    /\ Next
    /\ UNCHANGED iv
    /\ e4 \notin DOMAIN devices'
    /\ addr'[e4] = n4

\* What is never changed without a save.
Saved(d) == <<d.nodeID, d.facts, d.structure, d.inheritedFrom>>

\* A step that leaves the file behind is one that does not save.
DiskWorks ==
    disk' # devices' =>
        /\ \A i \in Interviewers : iv[i].pc = "record" /\ LearnedSomething(iv[i]) => iv' = iv
        /\ \A k \in DOMAIN devices' :
              IF k \in DOMAIN devices THEN Saved(devices'[k]) = Saved(devices[k])
              ELSE k \notin EUIs

\* e4 sends no reports: it is known from its join, or as a placeholder from its
\* interview.  Nobody is at n4, nothing has a name, and the disk works.
Interviewing ==
    /\ Next
    /\ UNCHANGED addr
    /\ \A k \in DOMAIN devices' : devices'[k].name = None
    /\ \A i \in Interviewers : iv'[i].pc # "idle" => iv'[i].node # n4
    /\ DiskWorks

PartInit ==
    /\ Init
    /\ FileInit
    /\ \/ part \in {"naming", "file"} /\ addr[e4] = n4
       \/ part = "interviewing" /\ \A e \in EUIs : addr[e] # n4
    /\ part # "file" => file = Whole(Nothing)

PartNext ==
    /\ UNCHANGED part
    /\ \/ part = "naming" /\ Naming /\ UNCHANGED fileVars
       \/ part = "interviewing" /\ Interviewing /\ UNCHANGED fileVars
       \/ part = "file" /\ FileNext /\ UNCHANGED vars

PartSpec == PartInit /\ [][PartNext]_partVars

Symmetry == Permutations({n1, n2, n3}) \cup Permutations({p1, p2})
=============================================================================
