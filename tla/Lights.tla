------------------------------- MODULE Lights -------------------------------
(***************************************************************************)
(* `light <device> <what>...`: the words a person says to a lamp, the        *)
(* commands they become, and the lamp they leave behind.                    *)
(*                                                                         *)
(* A word is a tuple: <<"dim">>, <<"%", n>>, <<"level:", n>>,               *)
(* <<"hue:", h, s>>, <<"k", kelvin>>, <<"#", r, g, b>>.  Its letters are     *)
(* left out.  Chromaticity is named by the colour it belongs to; how close   *)
(* planckianXY and the sRGB matrix come is not modelled.  A command reaches  *)
(* the lamp as Request has it: perhaps several times, perhaps not at all.    *)
(***************************************************************************)
EXTENDS Integers, Sequences, FiniteSetsExt

CONSTANTS
    Phrases,        \* sequences of words a person may say
    Abilities,      \* sets of what a lamp can be told: "hs", "xy", "ct"
    Transitions,    \* milliseconds
    MaxCopies       \* bound: copies of a request the lamp carries out

VARIABLES
    said, persist, transition,    \* the command line
    can, says,                    \* what the lamp can do; how it answers when asked
    actions, at, caps,            \* runLight: the parsed phrase, the action in hand, caps
    light,                        \* "typed" ... "done", "refused" or "failed"
    lamp,
    repeated                      \* a toggle or a step was carried out twice

lightVars == <<said, persist, transition, can, says, actions, at, caps, light, lamp, repeated>>

MinLevel == 1
MaxLevel == 254
levelStep == 64

clampLevel(n) == Max({MinLevel, Min({MaxLevel, n})})

\* math.Round of num / den, for what is not negative.
Round(num, den) == (2 * num + den) \div (2 * den)

tenths(ms) == Min({65535, Round(ms, 100)})

levelFromPercent(n) == clampLevel(Round(n * MaxLevel, 100))

-----------------------------------------------------------------------------
(***************************************************************************)
(* Colour.  hue and sat are fractions: degrees, and 0 to 1.                 *)
(***************************************************************************)
Hue(hue, sat) == [mireds |-> 0, hue |-> hue, sat |-> sat, exact |-> <<>>]
White(mireds) == [mireds |-> mireds, hue |-> <<0, 1>>, sat |-> <<0, 1>>, exact |-> <<>>]

ExactHueSaturation(h, s) ==
    [mireds |-> 0, hue |-> <<h * 360, 254>>, sat |-> <<s, 254>>, exact |-> <<h, s>>]

Saturated(deg) == Hue(<<deg, 1>>, <<1, 1>>)

namedColors ==
    [red |-> Saturated(0), orange |-> Saturated(30), yellow |-> Saturated(60),
     green |-> Saturated(120), cyan |-> Saturated(180), blue |-> Saturated(240),
     purple |-> Saturated(270), magenta |-> Saturated(300), pink |-> Hue(<<330, 1>>, <<1, 2>>),
     candle |-> White(500), warm |-> White(370), soft |-> White(313),
     white |-> White(250), cool |-> White(200), day |-> White(154)]

IsWhitePoint(c) == c.mireds # 0

\* The hue and saturation of an sRGB triplet that is not black; its brightness is dropped.
parseHexColor(r, g, b) ==
    LET max == Max({r, g, b})
        d == max - Min({r, g, b})
        hue == IF d = 0 THEN <<0, 1>>
               ELSE IF max = r THEN <<60 * (((g - b) + 6 * d) % (6 * d)), d>>
               ELSE IF max = g THEN <<60 * ((b - r) + 2 * d), d>>
               ELSE <<60 * ((r - g) + 4 * d), d>>
    IN  Hue(hue, <<d, max>>)

\* In the cluster's units, 0 to 254.  A white point travels by its chromaticity, which
\* is named by its mireds.
HueSaturation(c) ==
    IF c.exact # <<>> THEN c.exact
    ELSE IF IsWhitePoint(c) THEN <<0, 0>>
    ELSE <<Round((c.hue[1] % (360 * c.hue[2])) * 254, 360 * c.hue[2]),
           Round(c.sat[1] * 254, c.sat[2])>>

-----------------------------------------------------------------------------
(***************************************************************************)
(* The grammar.                                                            *)
(***************************************************************************)
switchWords == {"on", "off", "toggle"}

levelWords == [full |-> MaxLevel, bright |-> MaxLevel, half |-> MaxLevel \div 2,
               dim |-> MaxLevel \div 4, low |-> MaxLevel \div 4,
               min |-> MinLevel, faint |-> MinLevel]

stepWords == [brighter |-> levelStep, up |-> levelStep,
              dimmer |-> -levelStep, darker |-> -levelStep, down |-> -levelStep]

Understood(w) ==
    \/ w[1] \in switchWords \cup DOMAIN levelWords \cup DOMAIN stepWords \cup DOMAIN namedColors
    \/ w[1] = "level:" /\ w[2] \in 0..MaxLevel
    \/ w[1] = "hue:" /\ w[2] \in 0..254 /\ w[3] \in 0..254
    \/ w[1] = "%" /\ w[2] \in 0..100
    \/ w[1] = "k" /\ w[2] >= 1000 /\ w[2] <= 40000
    \/ w[1] = "#" /\ {w[2], w[3], w[4]} # {0}

Act(verb, n, color) == [verb |-> verb, n |-> n, color |-> color]

\* What an understood word asks for.
ParseAction(w) ==
    LET head == w[1]
        Level(n) == Act("level", n, White(0))
        Colour(c) == Act("color", 0, c)
    IN  CASE head \in switchWords -> Act(head, 0, White(0))
          [] head \in DOMAIN levelWords -> Level(levelWords[head])
          [] head \in DOMAIN stepWords -> Act("step", stepWords[head], White(0))
          [] head = "level:" -> Level(w[2])
          [] head = "hue:" -> Colour(ExactHueSaturation(w[2], w[3]))
          [] head = "%" -> Level(levelFromPercent(w[2]))
          [] head = "k" -> Colour(White(Round(1000000, w[2])))
          [] head = "#" -> Colour(parseHexColor(w[2], w[3], w[4]))
          [] OTHER -> Colour(namedColors[head])

Absolute == {i \in DOMAIN actions : actions[i].verb = "level"}

\* Mutant: the first brightness said is the one that is kept.
firstAbsoluteLevel == actions[Min(Absolute)].n

lastAbsoluteLevel == actions[Max(Absolute)].n

-----------------------------------------------------------------------------
(***************************************************************************)
(* The commands, by what a lamp does with them (external, ZCL).             *)
(***************************************************************************)
Switch(l, on) == [l EXCEPT !.on = on]
Toggle(l) == [l EXCEPT !.on = ~@]

\* Mutant: the command with on/off is the one that is sent.
SetLevelOnOff(l, n) ==
    [l EXCEPT !.level = clampLevel(n), !.fade = tenths(transition), !.on = TRUE]

\* Move to Level, which leaves the switch alone.
SetLevel(l, n) == [l EXCEPT !.level = clampLevel(n), !.fade = tenths(transition)]

\* A direction and a size; the lamp does the arithmetic.
StepLevel(l, delta) ==
    LET up == delta >= 0
        size == Min({MaxLevel, IF up THEN delta ELSE -delta})
    IN  [l EXCEPT !.level = clampLevel(IF up THEN @ + size ELSE @ - size),
                  !.fade = tenths(transition)]

\* How SetColor tells the lamp, of what the lamp said it can be told.
Way(c) ==
    IF IsWhitePoint(c) /\ "ct" \in caps THEN "ct"
    ELSE IF "hs" \in caps THEN "hs"
    ELSE IF "xy" \in caps THEN "xy"
    ELSE "none"

SetColor(l, c) ==
    [l EXCEPT !.color = [way |-> Way(c), mireds |-> c.mireds,
                         hue |-> HueSaturation(c)[1], sat |-> HueSaturation(c)[2]],
              !.fade = tenths(transition)]

Obey(l, a) ==
    CASE a.verb = "on" -> Switch(l, TRUE)
      [] a.verb = "off" -> Switch(l, FALSE)
      [] a.verb = "toggle" -> Toggle(l)
      [] a.verb = "level" -> SetLevel(l, a.n)
      [] a.verb = "step" -> StepLevel(l, a.n)
      [] a.verb = "color" -> SetColor(l, a.color)

-----------------------------------------------------------------------------
FirstLamp == [on |-> FALSE, level |-> 200, onLevel |-> 255, fade |-> 0,
              color |-> [way |-> "none", mireds |-> 0, hue |-> 0, sat |-> 0]]

LightInit ==
    /\ said \in Phrases /\ persist \in BOOLEAN /\ transition \in Transitions
    /\ can \in Abilities /\ says \in {"bits", "nothing"}
    /\ actions = <<>> /\ at = 0 /\ caps = {}
    /\ light = "typed" /\ lamp = FirstLamp /\ repeated = FALSE

heard == <<said, persist, transition, can, says>>

\* ParseActions, and the refusal of a --persist that has nothing to write.
LightParse ==
    /\ light = "typed"
    /\ IF said # <<>> /\ \A i \in DOMAIN said : Understood(said[i])
       THEN /\ actions' = [i \in DOMAIN said |-> ParseAction(said[i])]
            /\ light' = IF persist /\ Absolute' = {} THEN "refused" ELSE "telling"
       ELSE light' = "refused" /\ UNCHANGED actions
    /\ at' = 1
    /\ UNCHANGED <<heard, caps, lamp, repeated>>

\* Apply goes on to the next action, to SetOnLevel, or to the end.
GoesOn ==
    /\ at' = at + 1
    /\ light' = IF at < Len(actions) THEN "telling" ELSE IF persist THEN "persisting" ELSE "done"

\* ColorCapabilities: a lamp that does not know the attribute does hue and saturation;
\* one that does not answer ends the phrase.
LightAsk ==
    /\ light = "telling" /\ actions[at].verb = "color"
    /\ \/ /\ light' = "coloring"
          /\ caps' = IF says = "bits" THEN can ELSE {"hs"}
       \/ light' = "failed" /\ UNCHANGED caps
    /\ UNCHANGED <<heard, actions, at, lamp, repeated>>

Ready == light = "coloring" \/ (light = "telling" /\ actions[at].verb # "color")

Color == actions[at].verb = "color"

\* The lamp carried the action out n times, and said so in time or did not.
LightTell ==
    /\ Ready /\ (Color => Way(actions[at].color) \in can)
    /\ \E n \in 0..MaxCopies :
          LET after[k \in 0..n] == IF k = 0 THEN lamp ELSE Obey(after[k - 1], actions[at])
          IN  /\ lamp' = after[n]
              /\ repeated' = (repeated \/ (n > 1 /\ actions[at].verb \in {"toggle", "step"}))
              /\ \/ n > 0 /\ GoesOn
                 \/ light' = "failed" /\ UNCHANGED at
    /\ UNCHANGED <<heard, actions, caps>>

\* The lamp refuses the command, or cannot be told this colour at all.
LightRefused ==
    /\ Ready
    /\ light' = "failed"
    /\ UNCHANGED <<heard, actions, at, caps, lamp, repeated>>

\* The attribute is written once for all: repeating the write changes nothing.
SetOnLevel ==
    /\ light = "persisting"
    /\ \/ /\ lamp' = [lamp EXCEPT !.onLevel = clampLevel(lastAbsoluteLevel)]
          /\ light' \in {"done", "failed"}
       \/ light' = "failed" /\ UNCHANGED lamp
    /\ UNCHANGED <<heard, actions, at, caps, repeated>>

LightNext == LightParse \/ LightAsk \/ LightTell \/ LightRefused \/ SetOnLevel

-----------------------------------------------------------------------------
(***************************************************************************)
(* What was asked, from the usage text: a plain word is a place to go to,   *)
(* its comparative is a distance to move, "only on, off and toggle touch    *)
(* the switch".                                                            *)
(***************************************************************************)
Places == [full |-> 100, bright |-> 100, half |-> 50, dim |-> 25, low |-> 25, min |-> 0, faint |-> 0]

Place(w) ==   \* in hundredths of a level
    IF w[1] \in DOMAIN Places THEN Places[w[1]] * MaxLevel
    ELSE IF w[1] = "%" THEN w[2] * MaxLevel
    ELSE w[2] * 100

IsPlace(w) == w[1] \in DOMAIN Places \cup {"%", "level:"}
IsDistance(w) == w[1] \in DOMAIN stepWords
IsColor(w) == ~IsPlace(w) /\ ~IsDistance(w) /\ w[1] \notin switchWords

Within(n, a, b) == a - b <= n /\ b - a <= n

LastOf(P(_), k) == Max({0} \cup {i \in 1..k : P(said[i])})

KeepWithin(level) == Max({100 * MinLevel, Min({100 * MaxLevel, level})})

\* What a word makes of a level, in hundredths: a place is gone to, a distance moved.
LevelAsked(w, level) ==
    IF IsPlace(w) THEN Place(w)
    ELSE IF IsDistance(w) THEN KeepWithin(level + 100 * stepWords[w[1]]) ELSE level

\* And of the switch, which only its own words touch.
SwitchAsked(w, on) == CASE w[1] = "on" -> TRUE
                        [] w[1] = "off" -> FALSE
                        [] w[1] = "toggle" -> ~on
                        [] OTHER -> on

\* The level and the switch after k words.
After(words, k) ==
    LET asked[i \in 0..k] ==
            IF i = 0 THEN [level |-> FirstLamp.level * 100, on |-> FirstLamp.on]
            ELSE [level |-> LevelAsked(words[i], asked[i - 1].level),
                  on |-> SwitchAsked(words[i], asked[i - 1].on)]
    IN  asked[k]

\* The angle between what is shown and what was named is at most half a unit.
Near(shown, c) ==
    LET off == (shown * 360 * c.hue[2] - c.hue[1] * 254) % (254 * 360 * c.hue[2])
    IN  2 * Min({off, 254 * 360 * c.hue[2] - off}) <= 360 * c.hue[2]

\* The colour that is shown is the one a word named, told in a way the lamp has.
Shows(color, w) ==
    LET c == ParseAction(w).color
    IN  /\ color.way \in can
        /\ color.mireds = c.mireds
        /\ w[1] = "k" => Within(w[2], color.mireds * w[2], 1000000)
        /\ w[1] = "hue:" => <<color.hue, color.sat>> = <<w[2], w[3]>>
        /\ IsWhitePoint(c) \/ Near(color.hue, c)
        \* a triplet twice as bright is the same colour
        /\ w[1] = "#" => HueSaturation(parseHexColor(2 * w[2], 2 * w[3], 2 * w[4])) = <<color.hue, color.sat>>

ColorAsked(k) ==
    LET i == LastOf(IsColor, k)
    IN  IF i = 0 THEN lamp.color = FirstLamp.color ELSE Shows(lamp.color, said[i])

Asked(k) ==
    /\ Within(100, lamp.level * 100, After(said, k).level)
    /\ lamp.on = After(said, k).on
    /\ ColorAsked(k)

\* A phrase that is carried out leaves the lamp as its words say, in words the lamp has,
\* whatever was repeated unless it was a toggle or a step; one that is refused sends
\* nothing; one that fails leaves it as far as the phrase had got (ParseActions, Apply,
\* SetColor, runLight).
LightAsTold ==
    /\ light \in {"typed", "refused"} => lamp = FirstLamp
    /\ light = "done" /\ ~repeated => Asked(Len(said))
    /\ light = "failed" /\ ~repeated => \E k \in {at - 1, at} \cap 0..Len(said) : Asked(k)
    /\ light = "done" /\ lamp.fade # 0 => lamp.fade * 100 >= Min({transition, 6553500}) - 50

\* What a switch that is not gzb's will bring the lamp back at is the brightness the
\* phrase last named, as it was sent, and is left alone by a phrase that fails before
\* the end or was not asked to persist (runLight, lastAbsoluteLevel, SetOnLevel).
PersistedAsTold ==
    LET place == LastOf(IsPlace, Len(said))
    IN  /\ lamp.onLevel # FirstLamp.onLevel =>
              /\ persist /\ at > Len(said) /\ light \in {"done", "failed"}
              /\ Within(100, lamp.onLevel * 100, Place(said[place]))
              /\ (\A i \in place..Len(said) : ~IsDistance(said[i])) => lamp.onLevel = lamp.level
        /\ light = "done" /\ persist => lamp.onLevel # FirstLamp.onLevel
=============================================================================
