----------------------------- MODULE Attributes -----------------------------
(***************************************************************************)
(* read, write and reporting on one cluster of one device: what is typed,   *)
(* the request it becomes, the device's answer, and what is said of each    *)
(* attribute.  How a request finds its answer is module Request.            *)
(*                                                                         *)
(* A request is a sequence of records; an answer is a sequence of fields,    *)
(* walked with a cursor.  HalfWord stands for 2^63, half the values of Go's   *)
(* int64 and uint64; an interval counts up to Never for 0xFFFF seconds.      *)
(***************************************************************************)
EXTENDS Integers, SequencesExt

CONSTANTS
    Types,          \* code of a data type -> [half, signed, bool, analog]: half the number of
                    \*   its values, 0 if its size is not known
    AttributeType,  \* attribute gzb knows -> code of its type
    Device,         \* attribute of the device -> [type, writable, default: [min, max, change]]
    Values,         \* attribute of the device -> what it may hold at first, unsigned
    Arguments,      \* what may be named on the command line: sequences of attributes
    TypedValues,          \* a typed value -> [int, bool]: what it is as either, a set of at most one
    Flags,          \* what `reporting` may be given: [type, min, max, change, off, defaults]
    HalfWord, Never, Second, MaxAsked

VARIABLES
    held, config,   \* the device: attribute -> its value, and its reporting configuration
    asked, typed,   \* questions put to the device, and the command in progress
    request,        \* what was sent: [kind, records]
    reply,          \* the answer: [kind, payload, whole]
    refused,        \* attributes whose record the device turned down
    said            \* what is said of the command: [error, results]

attrVars == <<held, config, asked, typed, request, reply, refused, said>>

Nothing == [kind |-> "none"]

\* Status codes: 0 is StatusSuccess.
Success == 0
InvalidDataType == 1
ReadOnly == 2
Unsupported == 3

\* reportDirectionSend, and the other one.
SendDirection == 0
ReceiveDirection == 1

-----------------------------------------------------------------------------
(***************************************************************************)
(* Values.                                                                 *)
(***************************************************************************)
\* parseValue: the type decides how the word is read.
parseValue(t, w) ==
    IF Types[t].bool THEN {IF b THEN 1 ELSE 0 : b \in TypedValues[w].bool}
    ELSE {n \in TypedValues[w].int : IF Types[t].signed
                               THEN n \in -HalfWord .. HalfWord - 1
                               ELSE n \in 0 .. 2 * HalfWord - 1}

\* asInt: a uint64 is converted.
asInt(n) == IF n >= HalfWord THEN n - 2 * HalfWord ELSE n

\* Mutant of encodeValue: a value too wide is cut to size.
encodeLowBits(t, n) == {n % (2 * Types[t].half)}

\* encodeValue, with boundedUint and boundedInt: the value without its sign, if it fits.  A
\* reportable change, a number, is no bool.
encodeValue(t, n) ==
    LET half == Types[t].half
        fits == IF Types[t].signed THEN asInt(n) \in -half .. half - 1
                ELSE n \in 0 .. 2 * half - 1
    IN  IF fits THEN {n % (2 * half)} ELSE {}

\* decodeValue: nothing for a bool that is the invalid marker.
decodeValue(t, v) ==
    LET half == Types[t].half
    IN  IF Types[t].bool THEN IF v = 2 * half - 1 THEN {} ELSE {IF v = 0 THEN 0 ELSE 1}
        ELSE {IF Types[t].signed /\ v >= half THEN v - 2 * half ELSE v}

\* attributeType: the flag decides if it is given; 0 is not given.
attributeType(a, flag) ==
    IF flag # 0 THEN {flag} \cap DOMAIN Types
    ELSE IF a \in DOMAIN AttributeType THEN {AttributeType[a]} ELSE {}

\* reportInterval: whole seconds, as many as the field holds.
reportInterval(d) ==
    IF d >= 0 /\ d % Second = 0 /\ d \div Second <= Never THEN {d \div Second} ELSE {}

-----------------------------------------------------------------------------
(***************************************************************************)
(* Requests: for each attribute a set of at most one record, and nothing is  *)
(* sent unless there is one for each.                                       *)
(***************************************************************************)
\* The elements of a set, in any order.
Orders(S) == {s \in [1..Cardinality(S) -> S] : Range(s) = S}

\* KnownAttributes: what gzb knows of the cluster, in ascending order.
KnownAttributes ==
    CHOOSE s \in Orders(DOMAIN AttributeType) : \A i, j \in DOMAIN s : i < j => s[i] < s[j]

\* parseAttributes: all that gzb knows if none is named.
parseAttributes(args) == IF args = <<>> THEN KnownAttributes ELSE args

\* parseWrites and WriteAttributesRequest.
WriteRecord(a, w, flag) ==
    UNION {{[id |-> a, type |-> t, value |-> v] : v \in UNION {encodeValue(t, n) : n \in parseValue(t, w)}}
           : t \in attributeType(a, flag)}

\* Mutant of ReportConfig: off reverts, as default does.
ReportConfigOff(f) ==
    LET off == Never * Second
    IN  IF f.defaults \/ f.off THEN [min |-> off, max |-> off, change |-> {}]
        ELSE [min |-> f.min, max |-> f.max, change |-> {f.change}]

\* What the flags ask for: ReportDefaults is longest in both fields, off in one.
ReportConfig(f) ==
    LET off == Never * Second
    IN  IF f.defaults THEN [min |-> off, max |-> off, change |-> {}]
        ELSE [min |-> f.min, max |-> IF f.off THEN off ELSE f.max, change |-> {f.change}]

\* parseArgs, ConfigureReporting and ConfigureReportingRequest.  A change left out is 0.
ReportRecord(a, f) ==
    LET c == ReportConfig(f)
        change(t) == IF ~Types[t].analog THEN {0}
                     ELSE encodeValue(t, IF c.change = {} THEN 0 ELSE f.change)
        max == {m \in reportInterval(c.max) : m = Never \/ c.min <= m * Second}
    IN  UNION {{[id |-> a, type |-> t, min |-> n, max |-> m, change |-> b] :
                   n \in reportInterval(c.min), m \in max, b \in change(t)}
               : t \in attributeType(a, f.type)}

Complete(sets) == \A i \in DOMAIN sets : sets[i] # {}
Records(sets) == [i \in DOMAIN sets |-> CHOOSE r \in sets[i] : TRUE]

Said == [error |-> TRUE, results |-> <<>>]

\* A command is carried out, or refused before anything is sent.
Ask(command, kind, sets) ==
    /\ typed = Nothing /\ asked < MaxAsked
    /\ asked' = asked + 1
    /\ refused' = {}
    /\ typed' = command
    /\ IF sets # <<>> /\ Complete(sets)
       THEN request' = [kind |-> kind, records |-> Records(sets)] /\ UNCHANGED said
       ELSE request' = Nothing /\ said' = Said
    /\ UNCHANGED <<held, config, reply>>

Read == \E args \in Arguments :
    LET attrs == parseAttributes(args)
    IN  Ask([kind |-> "read", attrs |-> attrs], "read",
            [i \in DOMAIN attrs |-> {[id |-> attrs[i]]}])

Write == \E args \in Arguments, flag \in {0} \cup {f.type : f \in Flags} :
         \E words \in [DOMAIN args -> DOMAIN TypedValues] :
    /\ args # <<>>
    /\ Ask([kind |-> "write", attrs |-> args, words |-> words], "write",
           [i \in DOMAIN args |-> WriteRecord(args[i], words[i], flag)])

\* A negative change, and off with default, are refused.
Reporting == \E args \in Arguments, f \in Flags :
    /\ args # <<>>
    /\ Ask([kind |-> "reporting", attrs |-> args, flags |-> f], "reporting",
           IF f.change < 0 \/ (f.off /\ f.defaults) THEN <<>>
           ELSE [i \in DOMAIN args |-> ReportRecord(args[i], f)])

\* -show still wants the type of what it asks about.
Show == \E args \in Arguments, f \in Flags :
    /\ args # <<>>
    /\ Ask([kind |-> "show", attrs |-> args], "show",
           IF f.change < 0 \/ f.off \/ f.defaults THEN <<>>
           ELSE [i \in DOMAIN args |-> IF attributeType(args[i], f.type) = {} THEN {}
                                       ELSE {[id |-> args[i]]}])

-----------------------------------------------------------------------------
(***************************************************************************)
(* The device (external): what it makes of each record, in order.          *)
(***************************************************************************)
StatusOf(r) ==
    IF r.id \notin DOMAIN Device THEN Unsupported
    ELSE IF request.kind \in {"write", "reporting"} /\ r.type # Device[r.id].type THEN InvalidDataType
    ELSE IF request.kind = "write" /\ ~Device[r.id].writable THEN ReadOnly
    ELSE Success

Configured(r) == IF r.max = Never /\ r.min = Never THEN Device[r.id].default
                 ELSE [min |-> r.min, max |-> r.max, change |-> r.change]

\* The last record about an attribute decides.
Apply(records) ==
    LET done(a) == {i \in DOMAIN records : records[i].id = a /\ StatusOf(records[i]) = Success}
        last(a) == records[Max(done(a))]
    IN  /\ held' = IF request.kind # "write" THEN held
                   ELSE [a \in DOMAIN Device |-> IF done(a) = {} THEN held[a] ELSE last(a).value]
        /\ config' = IF request.kind # "reporting" THEN config
                     ELSE [a \in DOMAIN Device |->
                              IF done(a) = {} THEN config[a] ELSE Configured(last(a))]
        /\ refused' = {records[i].id : i \in {k \in DOMAIN records : StatusOf(records[k]) # Success}}

\* One record of the answer, in fields.
Fields(r) ==
    CASE request.kind = "read" /\ StatusOf(r) = Success ->
            <<r.id, Success, Device[r.id].type, held[r.id]>>
      [] request.kind = "read" /\ StatusOf(r) # Success -> <<r.id, StatusOf(r)>>
      [] request.kind = "write" -> <<StatusOf(r), r.id>>
      [] request.kind = "reporting" -> <<StatusOf(r), SendDirection, r.id>>
      [] request.kind = "show" /\ StatusOf(r) # Success -> <<StatusOf(r), SendDirection, r.id>>
      [] OTHER -> LET c == config[r.id]
                  IN  <<Success, SendDirection, r.id, Device[r.id].type, c.min, c.max>>
                      \o IF Types[Device[r.id].type].analog THEN <<c.change>> ELSE <<>>

\* A write or a configuration names what was refused, or answers one success for all; the
\* others name each attribute, in any order.
Payload(records) ==
    LET bad == {i \in DOMAIN records : StatusOf(records[i]) # Success}
        short == request.kind \in {"write", "reporting"}
        named == IF short /\ bad # {} THEN bad ELSE DOMAIN records
    IN  {FlattenSeq([i \in DOMAIN s |-> Fields(records[s[i]])]) : s \in Orders(named)}
            \cup IF short /\ bad = {} THEN {<<Success>>} ELSE {}

Answer ==
    /\ request # Nothing /\ reply = Nothing
    /\ Apply(request.records)
    /\ \E p \in Payload(request.records) :
          reply' \in {[kind |-> request.kind, payload |-> p, whole |-> TRUE],
                     [kind |-> request.kind, payload |-> Front(p), whole |-> FALSE]}
    /\ UNCHANGED <<asked, typed, request, said>>

\* A Default Response: an acknowledgement or a refusal, of what was or was not done; and
\* a record for the other direction, which was not asked about.
AnswerOther ==
    /\ request # Nothing /\ reply = Nothing
    /\ \/ Apply(request.records) \/ UNCHANGED <<held, config, refused>>
    /\ \/ \E status \in {Success, Unsupported} :
             reply' = [kind |-> "default", payload |-> <<status>>, whole |-> FALSE]
       \/ /\ request.kind = "show"
          /\ reply' = [kind |-> "show", whole |-> FALSE,
                       payload |-> <<Success, ReceiveDirection, request.records[1].id, 1>>]
    /\ UNCHANGED <<asked, typed, request, said>>

-----------------------------------------------------------------------------
(***************************************************************************)
(* Decoding the answer.                                                    *)
(***************************************************************************)
\* How many fields the record that begins what remains should have, and what it says.
\* Frame.Attributes, and the value ReadAttributes makes of each.
AttributeSize(r) ==
    IF Len(r) < 2 \/ r[2] # Success THEN 2
    ELSE IF Len(r) > 2 /\ Types[r[3]].half = 0 THEN Len(r) + 1 ELSE 4

Attribute(r) == [id |-> r[1], status |-> r[2],
                 value |-> IF r[2] # Success THEN {} ELSE decodeValue(r[3], r[4])]

\* Reporting unless the maximum says never; a record for the other direction is left empty.
ReportingSize(r) ==
    IF Len(r) < 3 \/ r[1] # Success THEN 3
    ELSE IF r[2] # SendDirection THEN 4
    ELSE IF Len(r) < 4 \/ ~Types[r[4]].analog THEN 6
    ELSE IF Types[r[4]].half = 0 THEN Len(r) + 1 ELSE 7

ReportingStatus(r) ==
    LET own == r[1] = Success /\ r[2] = SendDirection
        max == IF own THEN r[6] ELSE 0
        on == r[1] = Success /\ max # Never
    IN  [id |-> r[3], status |-> r[1], reporting |-> on,
         min |-> IF own /\ on THEN r[5] ELSE 0, max |-> IF on THEN max ELSE 0,
         change |-> IF own /\ on /\ Types[r[4]].analog THEN {r[7]} ELSE {}]

Size(kind, r) == CASE kind = "read" -> AttributeSize(r)
                   [] kind = "write" -> 2
                   [] kind = "reporting" -> 3
                   [] kind = "show" -> ReportingSize(r)

Result(kind, r) == CASE kind = "read" -> Attribute(r)
                     [] kind = "write" -> [id |-> r[2], status |-> r[1]]
                     [] kind = "reporting" -> [id |-> r[3], status |-> r[1]]
                     [] kind = "show" -> ReportingStatus(r)

\* cursor: a record that does not fit in what remains latches an error.
Turn(kind, payload, c) ==
    LET rest == SubSeq(payload, c.at + 1, Len(payload)) IN
    IF c.error \/ rest = <<>> THEN c
    ELSE IF Size(kind, rest) > Len(rest) THEN [c EXCEPT !.error = TRUE]
    ELSE [c EXCEPT !.at = @ + Size(kind, rest), !.results = Append(@, Result(kind, rest))]

\* The loop of the decoders; what was decoded before an error is not used.
Walked(kind, payload) ==
    LET cursor[n \in 0..Len(payload)] ==
            IF n = 0 THEN [at |-> 0, error |-> FALSE, results |-> <<>>]
            ELSE Turn(kind, payload, cursor[n - 1])
        end == cursor[Len(payload)]
    IN  IF end.error THEN Said ELSE [error |-> FALSE, results |-> end.results]

\* The single success byte stands for every attribute requested.
Shorthand == [error |-> FALSE,
              results |-> [i \in DOMAIN typed.attrs |-> [id |-> typed.attrs[i], status |-> Success]]]

WriteResponse(p) == IF p = <<Success>> THEN Shorthand ELSE Walked("write", p)

ConfigureReportingResponse(p) == IF p = <<Success>> THEN Shorthand ELSE Walked("reporting", p)

\* refusal: a Default Response is an error, even when it says success.
Heard == CASE reply.kind = "read" -> Walked("read", reply.payload)
           [] reply.kind = "write" -> WriteResponse(reply.payload)
           [] reply.kind = "reporting" -> ConfigureReportingResponse(reply.payload)
           [] reply.kind = "show" -> Walked("show", reply.payload)
           [] OTHER -> Said

Receive ==
    /\ reply # Nothing /\ request # Nothing
    /\ said' = Heard
    /\ request' = Nothing
    /\ UNCHANGED <<held, config, asked, typed, reply, refused>>

Finish == /\ typed # Nothing /\ request = Nothing
          /\ typed' = Nothing /\ reply' = Nothing /\ said' = Said
          /\ UNCHANGED <<held, config, asked, request, refused>>

AttrInit ==
    /\ held \in [DOMAIN Device -> UNION {Values[a] : a \in DOMAIN Device}]
    /\ \A a \in DOMAIN Device : held[a] \in Values[a]
    /\ config = [a \in DOMAIN Device |-> Device[a].default]
    /\ asked = 0 /\ typed = Nothing /\ request = Nothing /\ reply = Nothing
    /\ refused = {} /\ said = Said

AttrNext == Read \/ Write \/ Reporting \/ Show \/ Answer \/ AnswerOther \/ Receive \/ Finish

-----------------------------------------------------------------------------
(***************************************************************************)
(* Properties                                                              *)
(***************************************************************************)
Concluded(kind) == typed # Nothing /\ request = Nothing /\ typed.kind = kind /\ ~said.error

\* The number that what the device holds stands for; a bool that is neither stands for none.
Meaning(a) ==
    LET t == Types[Device[a].type]
    IN  IF t.bool /\ held[a] = 2 * t.half - 1 THEN {}
        ELSE IF t.bool THEN {IF held[a] = 0 THEN 0 ELSE 1}
        ELSE IF t.signed THEN {n \in -t.half .. t.half - 1 : (n - held[a]) % (2 * t.half) = 0}
        ELSE {held[a]}

\* The last word typed for an attribute, as a number.
Wanted(a) ==
    LET w == TypedValues[typed.words[Max({i \in DOMAIN typed.attrs : typed.attrs[i] = a})]]
    IN  IF Types[Device[a].type].bool THEN {IF b THEN 1 ELSE 0 : b \in w.bool} ELSE w.int

\* What is said of an attribute is what became of it at the device: one said to be written
\* holds the number that was typed, never the low bits of it or one of another sign, one
\* read is said to have the number it has, and one is said to be refused if and only if the
\* device refused it, however the answer is abridged and in whatever order it lists them
\* (boundedUint's comment, WriteResponse, ReadAttributes, refusal).
AnswersAreTheDevices ==
    /\ Concluded("write") =>
          /\ \A i \in DOMAIN said.results :
                LET r == said.results[i] IN
                IF r.status = Success THEN r.id \notin refused /\ Meaning(r.id) = Wanted(r.id)
                ELSE r.id \in refused
          /\ reply.whole => \A a \in refused : \E i \in DOMAIN said.results : said.results[i].id = a
    /\ Concluded("read") =>
          /\ \A i \in DOMAIN said.results :
                LET r == said.results[i] IN
                IF r.status = Success THEN r.id \in DOMAIN Device /\ r.value = Meaning(r.id)
                ELSE r.id \notin DOMAIN Device
          /\ reply.whole => {said.results[i].id : i \in DOMAIN said.results} = Range(typed.attrs)

Reports(c) == c.max # Never

\* An attribute whose reporting was configured reports as it was asked to: off means never,
\* default means as it shipped, and otherwise the intervals are those of the flags to the
\* second; and -show tells of exactly the configuration the device holds (reportInterval,
\* ReportDefaults, ReportingStatus).  An -off whose -min is itself never is a default.
ReportingAsAsked ==
    /\ Concluded("reporting") =>
          \A i \in DOMAIN said.results :
             LET a == said.results[i].id
                 f == typed.flags
             IN  said.results[i].status = Success =>
                    IF f.defaults THEN config[a] = Device[a].default
                    ELSE IF f.off THEN Reports(config[a]) => f.min = Never * Second
                    ELSE \/ f.max = Never * Second
                         \/ /\ config[a].min * Second = f.min /\ config[a].max * Second = f.max
                            /\ Types[Device[a].type].analog => config[a].change = f.change
    /\ Concluded("show") /\ reply.whole =>
          \A i \in DOMAIN said.results :
             LET r == said.results[i] IN
             r.status = Success =>
                /\ r.reporting = Reports(config[r.id])
                /\ r.reporting => /\ r.min = config[r.id].min /\ r.max = config[r.id].max
                                  /\ r.change = IF Types[Device[r.id].type].analog
                                                THEN {config[r.id].change} ELSE {}
=============================================================================
