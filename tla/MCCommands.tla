----------------------------- MODULE MCCommands -----------------------------
(***************************************************************************)
(* What a person types: who reads the keys and what interrupts a command     *)
(* (Shell), which device a line names and what Tab completes (Prompt), what  *)
(* a light is told (Lights), what is read, written and asked to be reported  *)
(* (Attributes).  A behaviour is one of the four.                            *)
(***************************************************************************)
EXTENDS Integers, Sequences, FiniteSets, TLC

CONSTANTS
    Phrases, Abilities, Transitions, MaxCopies,
    Devices, NodeOf, IEEEs, Lower, NewNames, Lines, Typed, CommandTable, Clusters, ActionWords,
    MaxNames, MaxTabs, MaxLine,
    Types, AttributeType, Device, Values, Arguments, TypedValues, Flags,
    HalfWord, Never, Second, MaxAsked,
    Typeable, Targets, KeySlots, SinkSlots, MaxKeys, MaxReports

VARIABLES
    part,
    said, persist, transition, can, says, actions, at, caps, light, lamp, repeated,
    names, line, tabs, entered, ran, renames,
    held, config, asked, typed, request, reply, refused, shown,
    input, keys, eof, pressed, phase, cmd, step, left, stopped, ended, watching, ncp, window,
    outcome, sink, lock, reports, keysTyped

lightsVars == <<said, persist, transition, can, says, actions, at, caps, light, lamp, repeated>>
promptVars == <<names, line, tabs, entered, ran, renames>>
attributesVars == <<held, config, asked, typed, request, reply, refused, shown>>
shellVars == <<input, keys, eof, pressed, phase, cmd, step, left, stopped, ended, watching, ncp,
               window, outcome, sink, lock, reports, keysTyped>>

\* The words of the phrases; their numbers are what the parsers read, two hexadecimal
\* digits for a part of a colour.
Words == UNION {{p[i] : i \in DOMAIN p} : p \in Phrases}

ASSUME PhrasesAssumption ==
    /\ Phrases \subseteq Seq(Words)
    /\ \A w \in Words :
          /\ w[1] \in {"level:", "%", "k"} => w[2] \in Int
          /\ w[1] = "hue:" => w = <<"hue:", w[2], w[3]>> /\ w[2] \in Int /\ w[3] \in Int
          /\ w[1] = "#" => {w[2], w[3], w[4]} \subseteq Nat
    /\ Transitions \subseteq Nat /\ MaxCopies \in Nat

L == INSTANCE Lights
P == INSTANCE Prompt
A == INSTANCE Attributes WITH said <- shown
S == INSTANCE Shell WITH line <- pressed, typed <- keysTyped

\* What is typed and what may be put there: symbols.  A device has the address of a network
\* node and an IEEE address, unless that is not known yet.  An address is a text of its own,
\* and case makes none and unmakes none.  A command takes at least the word of a device.
Text == Seq(STRING)
Addresses == DOMAIN NodeOf \cup IEEEs

ASSUME PromptAssumption ==
    /\ Devices \in Seq([ieee : IEEEs \cup {P!NoIEEE}, node : {NodeOf[s] : s \in DOMAIN NodeOf},
                        endpoints : Seq([id : Nat, input : SUBSET Text])])
    /\ Addresses \subseteq STRING
    /\ \A c \in DOMAIN Lower : {c, Lower[c]} \subseteq STRING \ Addresses
    /\ \A n \in NewNames : n \in Text /\ \A i \in DOMAIN n : n[i] # P!NoIEEE
    /\ {P!Dash, P!Space, P!Quote} \cup Lines \cup Typed \cup DOMAIN CommandTable
          \cup DOMAIN Clusters \cup DOMAIN ActionWords \subseteq Text
    /\ \A c \in DOMAIN CommandTable : /\ CommandTable[c].least \in Nat \ {0}
                                      /\ CommandTable[c].switches \cup CommandTable[c].valued
                                            \subseteq Text
    /\ \A c \in DOMAIN Clusters : /\ DOMAIN Clusters[c] \subseteq Text
                                 /\ \A a \in DOMAIN Clusters[c] : Clusters[c][a] \subseteq Text

\* The tables of the data types and of the attributes, what a device has, and what may be
\* typed: a word is one number at most, a change is an int64.
ASSUME AttributesAssumption ==
    /\ HalfWord \in Nat /\ Never \in Nat /\ Second \in Nat \ {0}
    /\ DOMAIN Types \subseteq Nat
    /\ Types \in [DOMAIN Types -> [half : Nat, signed : BOOLEAN, bool : BOOLEAN, analog : BOOLEAN]]
    /\ \A t \in DOMAIN Types : Types[t].bool => Types[t].half > 1 /\ ~Types[t].signed
    /\ DOMAIN AttributeType \subseteq Nat /\ IsFiniteSet(DOMAIN AttributeType)
    /\ AttributeType \in [DOMAIN AttributeType -> DOMAIN Types]
    /\ DOMAIN Device \subseteq Nat
    /\ Device \in [DOMAIN Device -> [type : DOMAIN Types, writable : BOOLEAN,
                                    default : [min : Nat, max : Nat, change : Nat]]]
    /\ \A a \in DOMAIN Device : \A v \in Values[a] :
          v \in Nat /\ (Types[Device[a].type].half > 0 => v < 2 * Types[Device[a].type].half)
    /\ Arguments \subseteq Seq(Nat)
    /\ \A w \in DOMAIN TypedValues :
          /\ TypedValues[w].int \subseteq Int /\ \A m, n \in TypedValues[w].int : m = n
          /\ TypedValues[w].bool \subseteq BOOLEAN /\ \A b, c \in TypedValues[w].bool : b = c
    /\ Flags \subseteq [type : Nat, min : Int, max : Int, change : {n \in Int : n < HalfWord},
                      off : BOOLEAN, defaults : BOOLEAN]

LightRest ==
    /\ said = (CHOOSE p \in Phrases : TRUE) /\ persist = FALSE /\ says = "bits"
    /\ transition = (CHOOSE t \in Transitions : TRUE) /\ can = {}
    /\ L!LightInit

PromptRest == line = (CHOOSE l \in Lines : TRUE) /\ P!PromptInit

AttrRest == held = [a \in DOMAIN Device |-> CHOOSE v \in Values[a] : TRUE] /\ A!AttrInit

PartInit ==
    \/ part = "shell" /\ S!ShellInit /\ LightRest /\ PromptRest /\ AttrRest
    \/ part = "prompt" /\ P!PromptInit /\ LightRest /\ AttrRest /\ S!ShellInit
    \/ part = "lights" /\ L!LightInit /\ PromptRest /\ AttrRest /\ S!ShellInit
    \/ part = "attributes" /\ A!AttrInit /\ LightRest /\ PromptRest /\ S!ShellInit

PartNext ==
    /\ UNCHANGED part
    /\ \/ part = "shell" /\ S!ShellNext /\ UNCHANGED <<lightsVars, promptVars, attributesVars>>
       \/ part = "prompt" /\ P!PromptNext /\ UNCHANGED <<lightsVars, attributesVars, shellVars>>
       \/ part = "lights" /\ L!LightNext /\ UNCHANGED <<promptVars, attributesVars, shellVars>>
       \/ part = "attributes" /\ A!AttrNext /\ UNCHANGED <<lightsVars, promptVars, shellVars>>

partVars == <<part, lightsVars, promptVars, attributesVars, shellVars>>

\* A goroutine of a session at the terminal, a timeout or the NCP takes a step.
InShell == part = "shell" /\ UNCHANGED <<part, lightsVars, promptVars, attributesVars>>

Fairness ==
    /\ WF_partVars(InShell /\ S!Pump) /\ WF_partVars(InShell /\ S!Watch)
    /\ WF_partVars(InShell /\ S!WatchEnds) /\ WF_partVars(InShell /\ S!Command)
    /\ WF_partVars(InShell /\ S!Ncp) /\ WF_partVars(InShell /\ S!Deliver)

PartSpec == PartInit /\ [][PartNext]_partVars /\ Fairness

(***************************************************************************)
(* Lights: a word of each kind, in phrases of up to two, and some of three.  *)
(***************************************************************************)
MCWords ==
    {<<"on">>, <<"toggle">>, <<"dim">>, <<"brighter">>, <<"dimmer">>, <<"level:", 0>>,
     <<"level:", 255>>, <<"%", 33>>, <<"purple">>, <<"pink">>, <<"warm">>, <<"hue:", 254, 7>>,
     <<"k", 2222>>, <<"#", 100, 30, 7>>, <<"#", 0, 0, 0>>}

MCPhrases ==
    UNION {[1..n -> MCWords] : n \in 0..2}
        \cup [1..3 -> {<<"on">>, <<"dim">>, <<"%", 33>>, <<"purple">>, <<"warm">>}]

(***************************************************************************)
(* Prompt: two devices that have endpoints and one known by its address      *)
(* alone, that of the first; two commands, one for each kind of argument.    *)
(***************************************************************************)
Ep(id, input_) == [id |-> id, input |-> input_]

MCDevices ==
    <<[ieee |-> "I1", node |-> 7, endpoints |-> <<Ep(1, {<<"temp">>}), Ep(3, {<<"onoff">>})>>],
      [ieee |-> "I2", node |-> 8, endpoints |-> <<Ep(1, {<<"onoff">>, <<"temp">>})>>],
      [ieee |-> "", node |-> 7, endpoints |-> <<>>]>>

MCNodeOf == [n7 |-> 7, n8 |-> 8, n9 |-> 9]
MCLower == [A |-> "a", B |-> "b"]

MCNewNames ==
    {<<>>, <<"A">>, <<"a", " ", " ", "b">>, <<"b", "a">>, <<"a", "b">>, <<"b", "\"", "a">>, <<"n7">>,
     <<"a", " ", "I9">>}

LightCommand ==
    [scope |-> <<"onoff">>, shape |-> <<"device", "action">>, repeatFrom |-> 1, least |-> 2,
     pairs |-> FALSE, lights |-> <<<<"onoff">>>>, switches |-> {<<"p">>}, valued |-> {<<"t">>}]

WriteCommand ==
    [scope |-> <<>>, shape |-> <<"device", "cluster", "attribute", "value">>, repeatFrom |-> 2,
     least |-> 4, pairs |-> TRUE, lights |-> <<>>, switches |-> {}, valued |-> {<<"t">>}]

MCCommandTable == <<"l">> :> LightCommand @@ <<"w">> :> WriteCommand

MCClusters ==
    <<"onoff">> :> (<<"o">> :> {<<"t">>, <<"f">>}) @@ <<"temp">> :> (<<"m">> :> {} @@ <<"m", "x">> :> {})

MCActionWords == <<"d">> :> <<"onoff">> @@ <<"c", "r">> :> <<"color">>

LightArguments ==
    {<<>>, <<"A">>, <<"b">>, <<"\"", "b">>, <<"-">>, <<"-", "-">>, <<"n7">>, <<"n9">>, <<"I1">>,
     <<"I9", " ", "d">>, <<"-", "-", " ">>,
     <<"A", " ", "d", " ">>, <<"b", " ", "d">>, <<"\"", "A", " ", "b", "\"", " ", "d">>}

MCLines ==
    {<<" ", "l">>, <<"l", " ", "-", "t", " ", "5", " ">>, <<"l", " ", "-", "p", " ">>,
     <<"w", " ">>, <<"w", " ", "a">>, <<"w", " ", "n7">>, <<"w", " ", "b", " ">>, <<"w", " ", "b", " ", "onoff", " ">>}
        \cup {<<"l", " ">> \o a : a \in LightArguments}

MCTyped == {<<"a">>, <<"\"">>, <<"t">>, <<"5", " ">>, <<"temp", " ", "m", " ", "5">>}

(***************************************************************************)
(* Attributes: a bool, a signed number wider than a word typed for it, an    *)
(* unsigned one that cannot be written, and one of a type gzb cannot decode.  *)
(***************************************************************************)
Ty(half, signed, bool, analog) == [half |-> half, signed |-> signed, bool |-> bool, analog |-> analog]

MCTypes ==
    1 :> Ty(2, FALSE, TRUE, FALSE) @@ 2 :> Ty(2, FALSE, FALSE, TRUE)
        @@ 3 :> Ty(4, TRUE, FALSE, TRUE) @@ 4 :> Ty(0, FALSE, FALSE, FALSE)

MCAttributeType == 1 :> 1 @@ 2 :> 3 @@ 3 :> 2

Every(min, max, change) == [min |-> min, max |-> max, change |-> change]

MCDevice ==
    1 :> [type |-> 1, writable |-> TRUE, default |-> Every(0, 3, 0)]
        @@ 2 :> [type |-> 3, writable |-> TRUE, default |-> Every(1, 2, 1)]
        @@ 3 :> [type |-> 2, writable |-> FALSE, default |-> Every(0, 1, 0)]
        @@ 4 :> [type |-> 4, writable |-> FALSE, default |-> Every(0, 1, 0)]

MCValues == 1 :> {0, 3} @@ 2 :> {2, 6} @@ 3 :> {3} @@ 4 :> {0}

MCArguments == {<<>>, <<1>>, <<2>>, <<3, 1>>, <<2, 1>>, <<1, 5>>, <<2, 4>>, <<2, 2>>}

Word(int, bool) == [int |-> int, bool |-> bool]

MCTypedValues ==
    [one |-> Word({1}, {TRUE}), minus |-> Word({-3}, {}), on |-> Word({}, {TRUE}),
     big |-> Word({9}, {}), zero |-> Word({0}, {FALSE}), huge |-> Word({40}, {})]

Given(type, min, max, change, off, defaults) ==
    [type |-> type, min |-> min, max |-> max, change |-> change, off |-> off, defaults |-> defaults]

MCFlags ==
    {Given(0, 2, 4, 1, FALSE, FALSE), Given(0, 2, 4, 0, TRUE, FALSE), Given(0, 2, 4, 0, FALSE, TRUE),
     Given(2, 0, 2, 2, FALSE, FALSE), Given(0, 4, 2, 0, FALSE, FALSE), Given(0, 1, 4, 0, FALSE, FALSE),
     Given(0, 0, 6, 5, FALSE, FALSE), Given(0, 6, 6, 0, TRUE, FALSE), Given(0, 2, 8, 0, FALSE, FALSE),
     Given(0, 2, 4, -1, FALSE, FALSE), Given(0, -2, 4, 0, FALSE, FALSE)}

(***************************************************************************)
(* The properties, where they apply.                                       *)
(***************************************************************************)

\* The lamp ends as the phrase said, the last word about a thing winning (ParseActions, Apply).
LightAsTold == part = "lights" => L!LightAsTold

\* What the lamp starts with after a power cut is the last level asked for (runLight, SetOnLevel).
PersistedAsTold == part = "lights" => L!PersistedAsTold

\* A command goes to the one device its word stands for, or to none (findDevice, Resolve).
NeverGuesses == part = "prompt" => P!NeverGuesses /\ P!NameReaches

\* A word that Tab completed is taken for the device it stood for (complete, resolveDevice).
CompletedIsResolved == part = "prompt" => P!CompletedIsResolved

\* What is said of an attribute is what the device holds, or was told (ReadAttributes,
\* WriteAttributes).
AnswersAreTheDevices == part = "attributes" => A!AnswersAreTheDevices

\* A device reports as it was asked to, and what is shown of it is so (ConfigureReporting,
\* ReportingConfiguration).
ReportingAsAsked == part = "attributes" => A!ReportingAsAsked

\* A join that was told its window is shut leaves nothing that opens it (closeJoinWindow).
WindowShut == part = "shell" => S!WindowShut

\* Ctrl-C brings the prompt back (watch, setSinks).
PromptReturns == part = "shell" /\ phase = "running" /\ S!Stop ~> phase \in {"prompt", "over"} \/ eof

\* A device's name is as good as its address (README.md on `name`).
NameIsAddress == part = "prompt" => P!NameIsAddress

\* However runJoin exits, the window is not left open (the comment in runJoin).
WindowNotLeft == part = "shell" => S!WindowNotLeft
=============================================================================
