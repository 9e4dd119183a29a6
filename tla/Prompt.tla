------------------------------- MODULE Prompt -------------------------------
(***************************************************************************)
(* What is typed at the prompt of a session, and the device it means: names, *)
(* the words of a line, what Tab puts there, and what Enter makes of it.     *)
(*                                                                         *)
(* Text is a sequence of symbols, compared without case by Fold.  An         *)
(* address is a single symbol, of NodeOf or of IEEEs.  A device that was not *)
(* interviewed has no endpoints.                                            *)
(***************************************************************************)
EXTENDS Integers, SequencesExt

CONSTANTS
    Devices,        \* as Devices lists them, the last seen first: [ieee, node, endpoints]
    NodeOf,         \* symbol of a network address -> address
    IEEEs,          \* symbols of IEEE addresses
    Lower,          \* symbol -> the same in lower case, for those that are not
    NewNames,       \* what `name` is asked to call a device
    Lines,          \* what may be on the line before Tab or Enter
    Typed,          \* what may be typed after a Tab
    CommandTable,   \* command word -> [scope, shape, repeatFrom, least, pairs, lights, switches,
                    \*   valued]: the fewest arguments, whether they come in pairs, the clusters
                    \*   that decide the endpoint, the flags without and with a value
    Clusters,       \* word of a cluster -> [attribute word -> the words of its values]
    ActionWords,    \* word of the light grammar -> cluster it is sent to
    MaxNames, MaxTabs, MaxLine    \* bounds

VARIABLES
    names,          \* device -> its name, or <<>>
    line,           \* the line, up to the cursor
    tabs,           \* the sole candidates Tab has put on the line
    entered, ran,   \* whether Enter was pressed, and what it made of the line
    renames

promptVars == <<names, line, tabs, entered, ran, renames>>

NoIEEE == ""        \* of a device that is known by its network address alone

None == [ok |-> FALSE, device |-> 0, node |-> 0, endpoint |-> 0, args |-> <<>>]

Has(d, cluster) == \E i \in DOMAIN Devices[d].endpoints : cluster \in Devices[d].endpoints[i].input

\* Device.Endpoint: the first that carries the cluster.
Endpoint(d, cluster) ==
    LET eps == Devices[d].endpoints
    IN  eps[SelectInSeq(eps, LAMBDA ep : cluster \in ep.input)].id

-----------------------------------------------------------------------------
(***************************************************************************)
(* Text.                                                                   *)
(***************************************************************************)
Fold(s) == [i \in DOMAIN s |-> IF s[i] \in DOMAIN Lower THEN Lower[s[i]] ELSE s[i]]

IsInfix(p, s) == \E i \in 0..(Len(s) - Len(p)) : SubSeq(s, i + 1, i + Len(p)) = p

IsSpace(c) == c = " "
IsQuote(c) == c = "\""
Space == <<" ">>
Quote == <<"\"">>

\* A word of a line, while it is read.
Reading(acc, c) ==
    IF ~acc.open /\ IsSpace(c)
    THEN [acc EXCEPT !.word = FALSE, !.at = @ + 1]
    ELSE LET words == IF acc.word THEN acc.words
                      ELSE Append(acc.words, [text |-> <<>>, start |-> acc.at, end |-> 0])
             n == Len(words)
         IN  [words |-> [words EXCEPT ![n].text = IF IsQuote(c) THEN @ ELSE Append(@, c),
                                      ![n].end = acc.at + 1],
              word |-> TRUE, open |-> acc.open # IsQuote(c), at |-> acc.at + 1]

\* The words of a line: double quotes group, and are dropped.
tokenize(s) ==
    LET read[i \in 0..Len(s)] ==
            IF i = 0 THEN [words |-> <<>>, word |-> FALSE, open |-> FALSE, at |-> 0]
            ELSE Reading(read[i - 1], s[i])
    IN  read[Len(s)].words

Texts(words) == [i \in DOMAIN words |-> words[i].text]

\* strings.Fields joined by single spaces.
NormalizeName(s) ==
    LET keep(i) == ~IsSpace(s[i]) \/ (i > 1 /\ i < Len(s) /\ ~IsSpace(s[i + 1])
                                      /\ \E j \in 1..i : ~IsSpace(s[j]))
        upTo[i \in 0..Len(s)] ==
            IF i = 0 THEN <<>> ELSE IF keep(i) THEN Append(upTo[i - 1], s[i]) ELSE upTo[i - 1]
    IN  upTo[Len(s)]

TrimSpace(s) ==
    LET kept == {i \in DOMAIN s : ~IsSpace(s[i])}
    IN  SubSeq(s, Min(kept \cup {Len(s) + 1}), Max(kept \cup {0}))

IsNode(s) == Len(s) = 1 /\ Head(s) \in DOMAIN NodeOf
IsIEEE(s) == Len(s) = 1 /\ Head(s) \in IEEEs

ValidateName(s) == s # <<>> /\ ~IsNode(s) /\ ~IsIEEE(s)

-----------------------------------------------------------------------------
(***************************************************************************)
(* Resolving.  A result is a device, or 0 for none, or -1 for several.      *)
(***************************************************************************)
noDevice == 0
ambiguous == -1

Named(pool, P(_, _), q) == {d \in pool : names[d] # <<>> /\ P(q, Fold(names[d]))}

\* Mutant of Pick: the first device of the best tier is as good as any.
PickFirst(groups) ==
    LET i == SelectInSeq(groups, LAMBDA g : g # {})
    IN  IF i = 0 THEN noDevice ELSE Min(groups[i])

\* The first group that is not empty, if it holds one device.
Pick(groups) ==
    LET i == SelectInSeq(groups, LAMBDA g : g # {})
    IN  IF i = 0 THEN noDevice
        ELSE IF \E d \in groups[i] : groups[i] = {d} THEN CHOOSE d \in groups[i] : TRUE
        ELSE ambiguous

ByAddress(pool, q) ==
    LET is(d) == IF IsNode(q) THEN Devices[d].node = NodeOf[q[1]] ELSE <<Devices[d].ieee>> = q
    IN  Min({d \in pool : is(d)} \cup {Len(Devices) + 1}) % (Len(Devices) + 1)

IsExact(q, n) == q = n

findDevice(pool, query) ==
    LET q == TrimSpace(query)
        fold == Fold(NormalizeName(q))
    IN  IF q = <<>> THEN noDevice
        ELSE IF IsNode(q) \/ ByAddress(pool, q) # noDevice THEN ByAddress(pool, q)
        ELSE Pick(<<Named(pool, IsExact, fold), Named(pool, IsPrefix, fold),
                    Named(pool, IsSuffix, fold), Named(pool, IsInfix, fold)>>)

All == DOMAIN Devices

withCluster(scope) == {d \in All : Has(d, scope)}

\* resolveDevice: among those that carry the cluster first; <<>> is any device.
resolveDevice(arg, scope) ==
    LET scoped == IF scope = <<>> THEN noDevice ELSE findDevice(withCluster(scope), arg)
    IN  IF scoped = noDevice THEN findDevice(All, arg) ELSE scoped

\* Store.Resolve, for the other commands: it has no tier for suffixes.
Resolve(query) ==
    LET q == TrimSpace(query)
        fold == Fold(NormalizeName(q))
        exact == Named(All, IsExact, fold)
    IN  IF q = <<>> THEN noDevice
        ELSE IF IsNode(q) \/ ByAddress(All, q) # noDevice THEN ByAddress(All, q)
        ELSE IF exact # {} THEN CHOOSE d \in exact : TRUE
        ELSE Pick(<<Named(All, IsPrefix, fold), Named(All, IsInfix, fold)>>)

\* An address the registry does not know is talked to all the same, at endpoint 1;
\* resolveTarget asks for one cluster, resolveLight for the light's in turn.
Target(arg, scope, clusters) ==
    LET d == resolveDevice(arg, scope)
        i == SelectInSeq(clusters, LAMBDA c : Has(d, c))
    IN  IF d \in All
        THEN [ok |-> TRUE, device |-> d, node |-> Devices[d].node,
              endpoint |-> IF i = 0 THEN 1 ELSE Endpoint(d, clusters[i]), args |-> <<>>]
        ELSE IF d = noDevice /\ IsNode(arg)
        THEN [None EXCEPT !.ok = TRUE, !.node = NodeOf[arg[1]], !.endpoint = 1]
        ELSE None

-----------------------------------------------------------------------------
(***************************************************************************)
(* Flags, as completion walks them and as the flag package parses them:     *)
(* both take the words after the command, and agree on what is positional.  *)
(***************************************************************************)
Dash == <<"-">>
isFlag(s) == Len(s) > 1 /\ s[1] = "-"
FlagName(s) == SelectSeq(s, LAMBDA c : c # "-")

Walk(cmd, words) ==
    FoldLeft(LAMBDA acc, w :
                IF acc.value THEN [acc EXCEPT !.value = FALSE]
                ELSE IF ~acc.done /\ w = <<"-", "-">> THEN [acc EXCEPT !.done = TRUE]
                ELSE IF ~acc.done /\ isFlag(w)
                     THEN [acc EXCEPT !.value = FlagName(w) \in cmd.valued]
                ELSE [acc EXCEPT !.args = Append(@, w)],
             [args |-> <<>>, done |-> FALSE, value |-> FALSE], words)

\* flag.Parse (external): it stops at the first word that is no flag.
Parsing(cmd, acc, w) ==
    IF acc.done THEN [acc EXCEPT !.args = Append(@, w)]
    ELSE IF acc.value THEN [acc EXCEPT !.value = FALSE]
    ELSE IF w = <<"-", "-">> THEN [acc EXCEPT !.done = TRUE]
    ELSE IF isFlag(w)
         THEN [acc EXCEPT !.value = FlagName(w) \in cmd.valued,
                          !.bad = @ \/ FlagName(w) \notin cmd.valued \cup cmd.switches
                                    \/ IsPrefix(<<"-", "-", "-">>, w)]
    ELSE [acc EXCEPT !.args = Append(@, w), !.done = TRUE]

Parse(cmd, words) ==
    LET after[i \in 0..Len(words)] ==
            IF i = 0 THEN [args |-> <<>>, done |-> FALSE, value |-> FALSE, bad |-> FALSE]
            ELSE Parsing(cmd, after[i - 1], words[i])
    IN  after[Len(words)]

\* kindAt, counting from 0: positions past the end repeat from repeatFrom.
kindAt(cmd, index) ==
    IF index < Len(cmd.shape) THEN cmd.shape[index + 1]
    ELSE IF cmd.repeatFrom < 0 THEN "none"
    ELSE LET span == Len(cmd.shape) - cmd.repeatFrom
         IN  cmd.shape[cmd.repeatFrom + 1 + ((index - cmd.repeatFrom) % span)]

At(cmd, kind, args) ==
    LET i == SelectInSeq(cmd.shape, LAMBDA k : k = kind)
    IN  IF i \in 1..Len(args) THEN args[i] ELSE <<>>

-----------------------------------------------------------------------------
(***************************************************************************)
(* Completion.                                                             *)
(***************************************************************************)
\* A device is typed by its name, or by the address that identifies it.
deviceWord(d) ==
    IF names[d] # <<>> THEN names[d]
    ELSE IF Devices[d].ieee # NoIEEE THEN <<Devices[d].ieee>>
    ELSE <<CHOOSE s \in DOMAIN NodeOf : NodeOf[s] = Devices[d].node>>

deviceCandidates(scope) ==
    {deviceWord(d) : d \in IF scope = <<>> THEN All ELSE withCluster(scope)}

\* The device already typed: its clusters and words, or all there are.
Knows(cmd, args, cluster) ==
    LET d == resolveDevice(At(cmd, "device", args), cmd.scope)
    IN  d \in All /\ Devices[d].endpoints # <<>> => Has(d, cluster)

attributesAt(cmd, args) ==
    {Fold(args[i]) : i \in {j \in DOMAIN args : kindAt(cmd, j - 1) = "attribute"}}

Offered(cmd, args) ==
    LET cluster == Fold(At(cmd, "cluster", args))
        kind == kindAt(cmd, Len(args))
    IN  CASE kind = "device" -> deviceCandidates(cmd.scope)
          [] kind = "cluster" -> {c \in DOMAIN Clusters : Knows(cmd, args, c)}
          [] kind = "attribute" /\ cluster \in DOMAIN Clusters ->
                DOMAIN Clusters[cluster] \ attributesAt(cmd, args)
          [] kind = "value" /\ cluster \in DOMAIN Clusters
                /\ Fold(Last(args)) \in DOMAIN Clusters[cluster] -> Clusters[cluster][Fold(Last(args))]
          [] kind = "action" -> {w \in DOMAIN ActionWords : Knows(cmd, args, ActionWords[w])}
          [] kind = "command" -> DOMAIN CommandTable
          [] OTHER -> {}

flagCandidates(cmd, current) ==
    LET dashes == IF IsPrefix(Dash \o Dash, current) THEN Dash \o Dash ELSE Dash
    IN  {dashes \o f : f \in cmd.switches \cup cmd.valued}

arguments(cmd, words, current) ==
    LET walk == Walk(cmd, words)
    IN  IF walk.value THEN {}
        ELSE IF ~walk.done /\ walk.args = <<>> /\ IsPrefix(Dash, current)
             THEN flagCandidates(cmd, current)
        ELSE Offered(cmd, walk.args)

\* The word at the cursor: where it starts, its text, and the words before it.
Cursor ==
    LET words == tokenize(line)
        n == Len(words)
    IN  IF n > 0 /\ words[n].end = Len(line)
        THEN [start |-> words[n].start, text |-> words[n].text, before |-> Texts(Front(words))]
        ELSE [start |-> Len(line), text |-> <<>>, before |-> Texts(words)]

\* complete, with filterPrefix.
complete ==
    LET before == Cursor.before
        all == IF before = <<>> THEN DOMAIN CommandTable
               ELSE IF before[1] \in DOMAIN CommandTable
               THEN arguments(CommandTable[before[1]], Tail(before), Cursor.text)
               ELSE {}
    IN  {c \in all : IsPrefix(Fold(Cursor.text), Fold(c))}

\* The kind of argument the word at the cursor is, if it is one.
Completing ==
    LET before == Cursor.before
        walk == Walk(CommandTable[before[1]], Tail(before))
    IN  IF before = <<>> THEN "command" ELSE kindAt(CommandTable[before[1]], Len(walk.args))

Quotable(s) == \E i \in DOMAIN s : IsSpace(s[i]) \/ IsQuote(s[i])

\* Mutant of quoteWord: a name is written as it is.
quoteNothing(s) == s

quoteWord(s) == IF Quotable(s) THEN Quote \o s \o Quote ELSE s

quotePartial(s, candidates) ==
    IF \E c \in candidates : Quotable(c) THEN Quote \o s ELSE s

\* completeAt, with the cursor at the end of the line.
Completed(cs) ==
    LET keep == SubSeq(line, 1, Cursor.start)
        typed == SelectSeq(SubSeq(line, Cursor.start + 1, Len(line)), LAMBDA c : ~IsQuote(c))
        prefix == LongestCommonPrefix(cs)
    IN  IF Cardinality(cs) = 1
        THEN keep \o quoteWord(CHOOSE c \in cs : TRUE) \o Space
        ELSE IF Len(prefix) > Len(typed) THEN keep \o quotePartial(prefix, cs)
        ELSE line                       \* the candidates are shown

-----------------------------------------------------------------------------
\* What Enter makes of a line: a target and what it is told, or a refusal.  Devices are
\* resolved once the rest has been understood.
Run(words) ==
    IF words = <<>> \/ words[1] \notin DOMAIN CommandTable THEN None
    ELSE LET cmd == CommandTable[words[1]]
             parsed == Parse(cmd, Tail(words))
             args == parsed.args
             few == Len(args) < cmd.least \/ (cmd.pairs /\ Len(args) % 2 # 0)
             cluster == Fold(At(cmd, "cluster", args))
             Good(i) == CASE kindAt(cmd, i - 1) = "action" -> Fold(args[i]) \in DOMAIN ActionWords
                          [] kindAt(cmd, i - 1) = "cluster" -> cluster \in DOMAIN Clusters
                          [] kindAt(cmd, i - 1) = "attribute" ->
                                Fold(args[i]) \in DOMAIN Clusters[cluster]
                          [] kindAt(cmd, i - 1) = "value" ->
                                LET a == Clusters[cluster][Fold(args[i - 1])]
                                IN  a = {} \/ args[i] \in a
                          [] OTHER -> TRUE
             named == "cluster" \in Range(cmd.shape)
             clusters == IF named THEN <<cluster>> ELSE cmd.lights
         IN  IF parsed.bad \/ parsed.value \/ few \/ ~\A i \in DOMAIN args : Good(i)
             THEN None
             ELSE [Target(args[1], IF named THEN cluster ELSE cmd.scope, clusters)
                   EXCEPT !.args = Tail(args)]

PromptInit ==
    /\ names = [d \in All |-> <<>>]
    /\ line \in Lines /\ tabs = <<>> /\ renames = 0
    /\ entered = FALSE /\ ran = None

\* Who has this name already, ignoring case.
byName(fold) == {d \in All : names[d] # <<>> /\ Fold(names[d]) = fold}

\* name: SetName and ClearName, which refuse what could not be looked up again.
SetName ==
    /\ renames < MaxNames /\ tabs = <<>> /\ ~entered
    /\ \E d \in All, text \in NewNames :
          LET name == NormalizeName(text) IN
          /\ text = <<>> \/ (ValidateName(name) /\ byName(Fold(name)) \subseteq {d})
          /\ names' = [names EXCEPT ![d] = name]
    /\ renames' = renames + 1
    /\ UNCHANGED <<line, tabs, entered, ran>>

Tab ==
    /\ ~entered /\ Len(tabs) < MaxTabs
    /\ complete # {}
    /\ line' = Completed(complete)
    /\ tabs' = IF Cardinality(complete) = 1
               THEN Append(tabs, [word |-> CHOOSE c \in complete : TRUE, at |-> Len(Cursor.before),
                                  device |-> Completing = "device"])
               ELSE tabs
    /\ UNCHANGED <<names, entered, ran, renames>>

Type ==
    /\ ~entered /\ tabs # <<>>
    /\ \E s \in Typed : line' = line \o s /\ Len(line') <= MaxLine
    /\ tabs' = Append(tabs, [word |-> <<>>, at |-> 0, device |-> FALSE])
    /\ Len(tabs) < MaxTabs
    /\ UNCHANGED <<names, entered, ran, renames>>

Enter ==
    /\ ~entered /\ entered' = TRUE
    /\ ran' = Run(Texts(tokenize(line)))
    /\ UNCHANGED <<names, line, tabs, renames>>

PromptNext == SetName \/ Tab \/ Type \/ Enter

-----------------------------------------------------------------------------
(***************************************************************************)
(* Properties                                                              *)
(***************************************************************************)
Words == Texts(tokenize(line))

Command == IF Words # <<>> /\ Words[1] \in DOMAIN CommandTable
           THEN CommandTable[Words[1]] ELSE CommandTable[CHOOSE c \in DOMAIN CommandTable : TRUE]

\* The argument that names a device, once a line has been carried out.
Argument == Parse(Command, Tail(Words)).args[1]

\* The cluster it was resolved for: the light's, or the one that was named.
Scope == IF "cluster" \in Range(Command.shape)
         THEN Fold(At(Command, "cluster", Parse(Command, Tail(Words)).args)) ELSE Command.scope

\* A device is acted on only if its address or its name was said (an IEEE address that
\* finds no device is looked for in names), and every other device
\* whose name has the same in it, of those that carry the cluster if any of them does,
\* has it in a worse place; and the registry's own Resolve, if it finds one, finds the
\* same (resolveDevice, findDevice, Store.Resolve).
NeverGuesses ==
    ran.ok /\ ran.device # 0 =>
        LET q == Fold(NormalizeName(TrimSpace(Argument)))
            d == ran.device
            pool == IF d \in withCluster(Scope) THEN withCluster(Scope) ELSE All
            name(e) == Fold(names[e])
            rank(e) == IF names[e] = <<>> \/ ~IsInfix(q, name(e)) THEN 5
                       ELSE IF q = name(e) THEN 1
                       ELSE IF IsPrefix(q, name(e)) THEN 2
                       ELSE IF IsSuffix(q, name(e)) THEN 3 ELSE 4
        IN  \/ <<Devices[d].ieee>> = TrimSpace(Argument)
            \/ IsNode(q) /\ Devices[d].node = NodeOf[q[1]]
            \/ /\ ~IsNode(q)
               /\ rank(d) < 5 /\ \A e \in pool \ {d} : rank(d) < rank(e)
               /\ pool = All /\ Resolve(Argument) > 0 => Resolve(Argument) = d

\* A name that was accepted finds its device again, however many times devices have been
\* renamed since, whichever of the two resolvers is asked (SetName, ValidateName).
NameReaches ==
    \A d \in All : names[d] # <<>> =>
        /\ findDevice(All, names[d]) = d /\ Resolve(names[d]) = d
        /\ \A scope \in UNION {Devices[d].endpoints[i].input : i \in DOMAIN Devices[d].endpoints} :
              resolveDevice(names[d], scope) = d

\* What quoteWord and the flag package can carry: quoteWord's comment makes no exception
\* for a name with a quote in it, nor ValidateName for one with a leading dash.
Plain(w) == ~(\E i \in DOMAIN w : IsQuote(w[i])) /\ ~IsPrefix(Dash, w)

\* Every word of the line came from Tab, and none of them is missing.
ByTabAlone ==
    LET args == Tail(Words) IN
    /\ Words # <<>> /\ \A k \in DOMAIN Words : \E i \in DOMAIN tabs :
          tabs[i].word = Words[k] /\ tabs[i].at = k - 1 /\ Plain(tabs[i].word)
    /\ Len(args) >= Command.least /\ (Command.pairs => Len(args) % 2 = 0)

\* A word that Tab has completed is still that word when the line is read, and a device
\* it has completed is the device the command is carried out on, or one at the network
\* address that was completed (quoteWord, tokenize, arguments).  A line made by Tab alone is
\* refused only if it is too short (the comment at the head of repl_grammar.go).  It is
\* otherwise where the cluster is said after the device: Tab offers every device, and
\* resolution looks among those that carry the cluster first (resolveDevice).  A completed
\* device that does not carry it may lose to one that does, or to several.
CompletedIsResolved ==
    /\ \A i \in DOMAIN tabs : tabs[i].word # <<>> /\ Plain(tabs[i].word) =>
          /\ tabs[i].at < Len(Words) /\ Words[tabs[i].at + 1] = tabs[i].word
          /\ tabs[i].device /\ ran.ok =>
                /\ ran.device # 0
                /\ IF IsNode(tabs[i].word) THEN Devices[ran.device].node = NodeOf[tabs[i].word[1]]
                   ELSE \/ deviceWord(ran.device) = tabs[i].word
                        \/ /\ Scope # Command.scope
                           /\ \A d \in withCluster(Scope) : deviceWord(d) # tabs[i].word
                           /\ ran.device \in withCluster(Scope)
    /\ entered /\ ~ran.ok /\ ByTabAlone =>
          Scope # Command.scope /\ resolveDevice(Argument, Scope) = ambiguous

\* Refuted: that the name of a device and its address are interchangeable wherever a device
\* can be given.  A device that carries the cluster is found first, by a longer name that has
\* the name in it; it does not have the address.
NameIsAddress ==
    ran.ok => \A d \in All : names[d] # <<>> /\ names[d] = Argument => ran.device = d
=============================================================================
