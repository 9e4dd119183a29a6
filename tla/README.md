# A TLA+ verification of gzb

gzb talks to a Zigbee radio (an EmberZNet network co-processor, the *NCP*) over a
serial port, keeps a registry of the devices it has met, and offers the whole as a
Go library (`zigbee/`) and a command (`cmd/gzb`).  This directory holds TLA+ models
of it, the TLC runs that check them, and TLAPS proofs of what matters most.

## 1. The system

| Component | Code | State | Operations |
|---|---|---|---|
| ASH framing | `internal/ash/frame.go`, `scanner` in `conn.go` | partial frame, corrupt flag | `Encode`, `Decode`, `stuff`, `randomize`, `crc16`, `next` |
| ASH session | `internal/ash/conn.go` | `txSeq`, `rxSeq`, three bounded channels, `closed` | `Reset`, `Send`, `readPump`/`handle`, `Close` |
| EZSP session | `internal/ezsp/conn.go` | `seq`, `version`, `pending`, `subs`, `closed` | `Open`, `command`, `route`, `Subscribe`, `Close` |
| EZSP commands | `internal/ezsp/{network,policy,config,endpoint,scan,join,send}.go` | none of their own; drive the NCP's | form/join/leave, permit joining, configuration, endpoints, scans, `Request` with resends |
| Registry | `internal/store/` | devices by EUI-64, names, one JSON file | `Open`, `Observe*`, `SetName`, `Resolve`, `PeerOfModel`, `Save` |
| Coordinator | `zigbee/coordinator.go`, `readings.go`, `joins.go` | `closed`, `readingsActive`, the registry under `dbMu` | `Open`, `Readings`, `Joins`, `PermitJoin`, `Close` |
| Interview, attributes, lights | `zigbee/{interview,attributes,commands,lights,color}.go` | a transaction counter; the registry | `Interview`, `ReadAttributes`, `WriteAttributes`, `ConfigureReporting`, `Apply` |
| ZCL, ZDO | `internal/zcl`, `internal/zdo` | none | encoders and decoders |
| Command line | `cmd/gzb` | a session: line, keys, sinks | grammar, completion, resolution, commands, a key pump |

How they interact.  `ezsp.Conn` owns one `ash.Conn`: commands go down through
`ash.Conn.Send`, payloads come up through `dataCh`, a Go channel of 64.  Each layer
has a read pump goroutine that never blocks: a full channel drops and counts.  The
coordinator subscribes to callbacks of `ezsp.Conn`; its loops write the registry,
which every operation shares and saves to one file.  A session at a terminal runs one
command at a time; keys, reports and the command's own waits meet in it.

What is hard.  Three goroutines share an `ash.Conn`; the line loses and corrupts
bytes; the NCP restarts, answers late or not at all; bounded channels drop; both
`Close`s wait for a pump that needs the locks callers hold; a session inherits frames
of the one before it.  Above, replies outlive the commands they answer, subscriptions
are cancelled while callbacks are routed, sleepy devices answer after the resend,
several processes may write one registry file, devices answer a write with one byte for
everything, and a person interrupts a command whose request the NCP already has.

## 2. Modules

### The serial line

`AshFrame.tla` is `frame.go` on real bytes, CRC and LFSR included, and `scanner.next` as
a state machine with one action per kind of byte.  The line (external) delivers frames of
the NCP, may insert a flow-control byte, damage or lose a byte, or carry junk before a
frame; reads cut the bytes anywhere.

`AshLink.tla` is the ASH session.  Variables are the fields of `ash.Conn` (`txSeq`,
`rxSeq`, `ackCh`, `dataCh`, `resetCh`, `closed`), the caller that holds `sendMu` (`pc`,
`attempt`, `frame`), the read pump (`pump`, `held`, `expect`), the line (`toNcp`,
`toHost`), the NCP, and history.  `Reset` is `ResetStart`, `ResetAnswered`,
`ResetFails`; `Send` is `SendStart`, `SendDrain`, `SendWrite` and one action per case of
`awaitAck`'s select; `handle` is `PumpRecv` and, for a DATA frame, `PumpCheck`, because
it releases the lock between reading `rxSeq` and advancing it.  The NCP and the port
are external and modelled from what conn.go expects of them: go-back-N towards the host
with window `NcpWindow`, one expected frame from it, restarts at any time.  That a frame
is whole or not there is what `AshFrame` shows.

`StopAndWait.tla` is what `Send` promises: payloads are offered, accepted at most once
and in order, and confirmed; the NCP is never more than one payload ahead, and takes
nothing offered before the last confirmed one.

### The NCP

`EzspConn.tla` is the EZSP session after negotiation.  Its link *is* `StopAndWait`
(`INSTANCE`), so it is built on what `AshLink` is proved to implement, including that a
nil result may be the acceptance of an earlier, abandoned payload.  `command` is
`CommandStart`, `SendOk`/`SendFails`, `WaitReply`, `WaitEnds`, `CommandReturn` (the
deferred reset of `c.pending`); `readPump` and `route` are `PumpTake`, `RouteReply`,
`RouteEvent`, `PumpEnd`; then `Subscribe`, `Unsubscribe`, `Close`.  Messages are numbers:
what their parameters say does not matter to routing.

`Network.tla` is a session from `ezsp.Open` to `Close`: the reset, `negotiate`,
`applyConfiguration`, `registerEndpoints`, `restoreNetwork`, then `FormNetwork`,
`JoinNetwork`, `LeaveNetwork` and `PermitJoin` with `AllowJoins`.  An operation is a row of
commands: `Ask` sends one, `Answer` ends it with its own answer or an error, as `EzspConn`
shows of `command`, and after an error the NCP may still carry it out.  `pc` names the
command that is waited for.  Answers and stack status callbacks share `wire`, in order;
`Route` puts callbacks into the subscription `up` while there is one.  The NCP (`ncp`) is
external: its tokens survive a restart and nothing else does, it refuses configuration
and endpoints while the stack runs, and where the comments leave open whether it refuses
something, both are possible.

`Scan.tla` is `ScanNetworks` with `mergeNetwork`, and the commands around it: what
`network join` makes of the result (`chooseNetwork`), and what `form` and `leave` look at
before they act.  A network is what `SameNetwork` compares; of the signal only the link
quality is kept.

### Requests to devices

`Request.tla` is a question to a device and its answer: `nextSequence`, the match
functions of `zclRequest` and `zdoQuery`, `Request`/`awaitReply` with its resends, and the
callers that ask several questions in turn (`Apply` stops at the first failure,
`Interview` goes on).  Request *n* has copies `<<n, k>>` that sit in the NCP, are carried
out, answered, lost or late.  `Enqueue` is separate from `Sent` because a device may
answer before the send returns.  A question keeps the four things the match and the
verdict look at: device, cluster, wanted response, what is asked.

`ResendTimer.tla` is the clock of `awaitReply`: the ticker with its channel of one, sends
that take up to `MaxSend` and may fail, and when the NCP was given its last copy.

`Attributes.tla` is `read`, `write` and `reporting` from the typed words to what is said of
each attribute: `parseValue`, `encodeValue`, the request's records, the device's answer in
fields (whole, abridged, in another order, cut short, or a Default Response), the cursor
that decodes it record by record, and `decodeValue`.  A type is the half of the number of its
values, so that signs and widths are arithmetic, and zero stands for a type the cursor cannot
step over.  The device is external: it judges each record by type and access, and keeps values
and reporting configurations.

`Lights.tla` is `light <device> <what>...`: `ParseAction` on words, levels and colours in
the units of the wire with their rounding, the choice of the colour command, `Apply` one
action at a time with a lamp that carries a request out any number of times up to
`MaxCopies`, and `--persist`.

### What gzb keeps

`Registry.tla` is the registry of one process: one action per hold of `dbMu`.  A record
keeps what identity, naming and interviews need; a reading *is* the device that sent it
and a structure *is* the device that described itself, so that the properties can ask
whose they are.  `Interview` is one action per lock hold, with the network changing in
between; `Flush` and `Crash` separate memory from the file.

`RegistryFile.tla` is `store.Open` and `Store.Save` as file-system steps (`CreateTemp`,
`WriteTemp`, `Rename`, a failure of each, `Kill`), for several processes.  The content says
of each entry of a record which change wrote it last.  `Open` migrates what it has read, on
every start: `Dropped` entries go, the ambiguous "battery" is renamed by its unit
(`Migrated`); the file may be one an earlier version left (`OldEntries`).

`Coordinator.tla` is the life of a `zigbee.Coordinator`: the `Readings` goroutine, `Joins`
with `WatchJoins` under it, and `Close`, which meet in `c.mu`, in subscriptions and in the
channels the application reads.  Messages are counted; what they say is Registry's part.

### The prompt

`Prompt.tla` is a line and the device it means: `tokenize`, the walk of the flags,
`complete` and what Tab writes, `findDevice` and `resolveDevice`, `Store.Resolve` beside
them, and names as `SetName` and `ClearName` leave them.  Text is a sequence of symbols
with a map to lower case; an address is one symbol.  `flag.Parse` is external.

`Shell.tla` is the session: the key pump, `ReadLine` and `watch`, which take keys in turn;
`run` and the contexts; the sinks under `sinkMu`; `monitor`, `interview` and `join`, with
the join window as commands the NCP carries out in order, also when nobody waits for them
any more.

### Putting them together

`MC*.tla` and the `.cfg` files are the instances TLC checks.  `AshLinkProofs.tla`,
`EzspConnProofs.tla`, `NetworkProofs.tla` (with the scan), `RequestProofs.tla` (with the
clock), `RegistryProofs.tla` (with the file), `CoordinatorProofs.tla`, `CommandsProofs.tla`
(the lamp, the line and the session) and `AttributesProofs.tla` hold the proofs.
Operators marked *Mutant* are faulty variants of the definition that follows them; each
shows that a property notices that fault.

`AshLink` takes whole frames for granted, which `AshFrame` shows, and implements
`StopAndWait` (proved); `EzspConn` instantiates `StopAndWait` as its link; `Network`,
`Scan`, `Request` and `Coordinator` use of `EzspConn` what its run shows (a command
returns; `route` never blocks, drops on a full channel and delivers nothing after
`Close`); `Scan` ends in an operation of `Network`; `Lights` and `Attributes` use of
`Request` that a request is answered by its own answer and may be carried out more than
once; `Registry` and `RegistryFile` split one file into what is recorded and how it is
written; `Prompt` says what a line means and `Shell` when it is read and what ends it.

Four runs check several modules that share no variable.  Their MC module is the disjoint
sum of the specifications: a variable `part`, fixed initially, says which one the
behaviour is of, and the others rest.  The modules that declare the same names, or are
needed with several values of a constant, are taken with `INSTANCE ... WITH`.

## 3. Runs

| Run | Parts | Asks |
|---|---|---|
| `ash_send` | `AshLink` | Is a payload taken once and in order, delivered when acknowledged, as `StopAndWait` promises, and does every `Send` and `Close` return? |
| `ash_receive` | `AshLink` | Is what the NCP sends handed over once, in order, and acknowledged only when taken; does it arrive in the end? |
| `ezsp_session` | `EzspConn` | Do replies reach their own commands; are losses counted, channels closed once, and do `command` and `Close` return? |
| `network` | `Network`, `Scan` | Does the stack run only prepared, keep the network it has, and report what it heard; does every operation return? |
| `request` | `Request`, `ResendTimer`, `AshFrame` | Does a light act in the order it was told; is an answer its own request's; is a live copy always waiting; are whole frames, and only those, handed over? |
| `registry` | `Registry`, `RegistryFile` | Do records agree, survive, name their sources; is the file readable at every moment? |
| `coordinator` | `Coordinator` | One `Readings` at a time, everything saved once the first `Close` has returned, and does everything end? |
| `commands` | `Lights`, `Prompt`, `Attributes`, `Shell` | Does what was typed come to what it says, to the device it names, and does Ctrl-C leave nothing behind? |
| `ezsp_stale_reply` | `EzspConn` | "A reply to the command in flight takes precedence" — **no** |
| `request_toggle_twice` | `Request` | "a request must be safe to deliver more than once" — **no**, `Toggle` is not |
| `join_window_left` | `Shell` | "However this function exits, the window must not be left open" — **no**, not when Ctrl-C comes while it opens |
| `prompt_name_for_address` | `Prompt` | "an IEEE address, a `0xNNNN` network address and a name are interchangeable" — **no**, for a cluster a name may find another device |

The runs that end in **no** check what a comment of the repository says; `PROJECT.json`
quotes it under `findings`.  All others pass.  Every property of a passing run has a
mutant in `PROJECT.json`: a small fault of the code under which the run finds the property
violated.

### Where the conditions come from

Some properties hold under a condition.  It is part of what they say:

- `AckedIsDelivered` is about sessions in which no `Send` was abandoned: after one, the
  acknowledgement of its payload may be taken for the next one's (`conn.go:322`).
- `ReceivedInOrder` needs an NCP that does not send DATA before it has heard the host's
  first frame (`NcpEager = FALSE`): `Reset` zeroes `rxSeq` after it has seen RSTACK
  (`ash/conn.go:268`), and frames may already have been handled.  It also needs that no `Send`
  is held up for long between reading `rxSeq` and writing its frame (`ash/conn.go:295`): an
  NCP with a window of *w* that has had `8 - w` more of its frames acknowledged in between
  takes the stale three-bit number for a later one, and forgets frames it still has to
  repeat.  The theorem states it as `Prompt`; the run sends too few frames for it to fail.
- `OwnReply` and `NoSilentLoss` speak of what is routed; that a late reply takes the slot
  of the next command's is the finding of `ezsp_stale_reply`.
- `HoldsItsNetwork` and `ResultIsHeld` excuse the moments between a command and the stack
  status it causes (`protocol.go:298`, `network.go:413`).  `Open` fails when the answer to
  `addEndpoint` is lost, because the second attempt is refused (`endpoint.go:138`).
- `FoundIsHeard` excuses beacons that met a full channel of 64.  `NwkUpdateID` and the
  stack profile are those of the first beacon of a network, and `--pan-id 0` reads as an
  option that was not given.
- `IntactFramesArrive` is about frames whose escaped body fits `MaxFrameLen`; `Encode`
  accepts some that the scanner then drops.
- `CopyAlive` needs at most `Tolerated` failed sends in a row.
- `Provenance` needs that no address is handed out again (`AddressesApart`): `ByNodeID` may
  then find an earlier owner's record (`store.go:268`).  It also needs that a device being
  interviewed has one record (`OneRecord`): one that comes back under a new address, and
  reports before it is announced, has a placeholder beside its record, and could inherit
  from itself.  In the run no device that changes its address is interviewed, so that
  neither condition can fail; the theorem states both.  A placeholder's promotion (`store.go:264`) is not forgetting, and an
  interview that learned nothing writes nothing.
- `OwnAnswersStay` needs one interviewer of a device: between `inheritFromPeer` and
  `recordInterview` another's answers may be recorded (`interview.go:343`), and are then
  replaced by the lent ones.  `NothingForgotten` checks one fact at a time: a peer that
  knows a node type but no capability, or the reverse, hands down an empty one
  (`interview.go:459`).
- `SavedAlone` is about processes that take turns; `Save` writes what its process
  has in memory (`store.go:390`), so two sessions at once undo each other's changes.  It is
  about every entry but illuminance, which `dropRawIlluminance` (`store.go:219`) deletes on
  every `Open`, though this version records it (`zcl/attributes.go:95`).  The comment speaks of
  readings "recorded before gzb knew the measurement was logarithmic" (`store.go:208`), but a
  true one is gone as well after the next session's save, and
  `TestOpenDropsIlluminanceRecordedAsRaw` pins that.
- `SavedAtClose` is about the `Close` that found the session open.  Any other returns nil at
  once (`coordinator.go:234`), while the first still waits or saves, or when its save failed:
  that `Close` "saves the device registry" and "is safe to call more than once"
  (`coordinator.go:230`) does not mean that whoever has nil finds the readings in the file.
- `SetName` upper-cases the key it is given (`name.go:96`), so that a placeholder, whose
  key has lower-case letters, gets no name.
- `CallsReturn` of `Coordinator` excuses an application that stopped reading
  (`readings.go:83`) and a watch subscribed after `Close`, whose channel is never closed
  (`joins.go:92`).  `ArrivalsRecorded` is about arrivals that are handed on: what a full
  subscription drops is neither recorded nor handed on.
- `LightAsTold` leaves toggles and steps out, which repeat with the copies; `level:0` and
  `0%` are sent as 1, on purpose.
- `CompletedIsResolved` is about names without a quotation mark, which `quoteWord` cannot
  write, and that do not begin with `-`, which reads as a flag.  A word that is a network
  address stands for a device at that address, and no more: `deviceWord` calls it "the
  address that identifies it" (`repl_grammar.go:312`), which it is not once a known device
  has rejoined at the address of one that was only heard (`Observe`, `store.go:264`, leaves
  both records) and `findDevice` takes the first.
- It also excepts a command whose cluster is said after the device (`read`, `write`,
  `reporting`).  Tab then offers every device, but `resolveDevice` looks among those that
  carry the cluster first (`resolve.go:58`), by all four tiers: a completed device that does
  not carry it may lose to one that does and has the name in its own, or the line may be
  refused because two do.  The property says that nothing else goes wrong: the device acted
  on then carries the cluster, no carrier is called what was completed, and a line made by
  Tab alone is refused for an ambiguity in scope and for nothing else.
  `prompt_name_for_address` shows the first case.  The second is against "Nothing that
  resolved before stops resolving" (`resolve.go:24`).
- `NeverGuesses` counts as "said" an IEEE address that no device has and that stands in a
  name: `ValidateName` refuses a name that is an address, not one that has one in it, so that
  a name can change what such an address means (`resolve.go:101` says none can).
- `AnswersAreTheDevices` is about the results there are.  A device that refuses part of a
  write may name only that part, and `WriteResponse` (`zcl.go:451`) then gives the other
  attributes no result, where `attributes.go:252` promises one for each.
- `ReportingAsAsked` is about intervals other than 65535 s: `-min 65535s` with `-off` goes
  back to the default and `-max 65535s` is the value that means "off".
- `PromptReturns` asks for Ctrl-C; a SIGTERM at an idle prompt is noticed with the next
  line.  The watch of a running command picks at random between keys and its end, so that a
  key typed ahead may be discarded; `Shell!KeysDiscarded` says so and no run asks it.

### Bounds

Every capacity is 1 or 2 instead of 64 or 16, so that it is reached within a few steps.

| Run | Bounds, and the case they let happen |
|---|---|
| `ash_send` | two `Send`s, one retry: an abandoned payload whose late acknowledgement meets the next; a frame of the session before |
| `ash_receive` | two payloads, window of two, `dataCh` of one: a full channel with a frame behind it |
| `ezsp_session` | three commands, sequence numbers modulo 2: a number used again while its first reply is late |
| `network` | two boots and two operations: leave and form again, a restore after a restart; a legacy version and a current one. Three networks of which two share a PAN ID and one has PAN ID zero; three beacons into a channel of two |
| `request` | a phrase of two commands with two copies each and a reader; sequence numbers modulo 2. Interval 3, patience 10, sends up to 2 and one failure, to time 24 (in the code 10 s, 30 s, and sends bounded by `sendMu`, ASH's retries and `CommandTimeout`). Three frames, one fault, reads of 4 bytes or all |
| `registry` | two devices, two spellings of one name, a change of address, a failing disk and a crash; or three devices of one model, three interviews and a crash; or two processes, two changes, three failures, and a file that an earlier version left with a statistic, a "battery" in volts or one in another unit |
| `coordinator` | two `Readings` calls and one `Close`, one call and two `Close`s, or one watch and one `Close`; two messages |
| `commands` | fifteen words, phrases of up to three, two copies of each request; three devices, two renamings, four Tabs, names that end in one another or have the address of no device in them, a command for devices of one cluster and one whose cluster follows the device; four attribute types, numbers of 32 values for Go's 2^64, two questions; three keys, two reports |

Deadlock is checked in `ash_send`, `ash_receive`, `ezsp_session` and `request`; the others
may really stop: a session that is closed, a scan that is over, a line that was read.
Symmetry is used in `registry`, over processes and three addresses, which no constant tells
apart (the fourth parks a device that is switched off); its action properties speak of
single steps.

### Fairness

Goroutines that can run do (`WF` on each of their steps), expired timers are noticed, and
a call into the layer below returns, which is what that layer's run shows.  The line does
not lose for ever (`SF` on a frame's reception): `NcpDataArrives` needs it and nothing
else does.  In `Shell` the NCP carries out the commands it has been given.  Nothing is
assumed of what devices answer, of when the application reads, or of what a person types.

## 4. Proofs

All are checked by TLAPS for every value of the constants that satisfies the module's
named assumptions.

**`AshLinkProofs`.**  `TypeCorrect` is type correctness, including the
bounds of the three channels.  The safety of `Send` is not inductive by itself: that no
payload is taken twice depends on what is still on the wire.  `IInv` adds what each phase
of a `Send` knows (`PhaseInv`), that host and NCP differ by at most the frame in flight
(`CountInv`), that an acknowledgement on the wire or in `ackCh` is of the frame in flight or
older (`AckInv`), that a DATA frame on the wire that the NCP would take carries the
payload of its number (`DataInv`, `PayloadInv`).  From it follow `WindowOfOneHolds`,
`AtMostOnceHolds`, `AckedHolds`, and `Refinement`: `Spec => StopAndWait!Spec`, one step of
the proof per action.

`ReceivedInOrderHolds` is the other direction.  `WindowInv` says that `rxSeq` and the NCP's
counters are counts of what was taken, also between the two holds of the lock.  A three-bit
number stands for one count only while the counts that could be meant lie within eight of
each other: `FreshInv` says so of the DATA frames in flight, each of which is at most six
behind anything before it, so that the frame the pump expects carries the next payload;
`RoundInv` says so of acknowledgements, which fall back by at most `7 - NcpWindow`, so that
the NCP takes each for what it is or ignores it (`AckIsCount`).  `RoundInv` is where `Prompt`
is needed; `FewReceivedInOrder` shows that a session of at most `7 - NcpWindow` payloads
meets it.  `StaleInv` keeps the frame of an earlier session out of this one.

**`EzspConnProofs`.**  `OwnReplyHolds`: the NCP answers in the order of the commands it
accepted, so the replies in `dataCh`, at the pump and with the command are in that order
too, and all later than the last command that returned a result (`Ordered`).  Every command
since then has failed (`Settled`), and `EzspAssumption` says that fewer than `SeqMod` fail in
a row: a reply whose sequence number matches is therefore the command's own (`Apart`).  The
same order shows that what is in the way of a reply belongs to a command that failed.

`ClosedOnceHolds` and `NoSilentLossHolds` are about subscriptions.  The second is not
inductive: what will turn out to be a gap is missing before the next callback arrives.
`Counted` is the strengthening: the callbacks after the last one a subscription was given
that are neither in `dataCh` nor at the pump are within the two counters, and those after
a callback still in flight within `dropData` alone, so that a callback given to a
subscription starts from an account that balances.  `Carried` says callbacks keep their
order on the way.

**`CoordinatorProofs`.**  `OneLoopHolds` and `SavedAtCloseHolds`: the fields under `c.mu` name
the one loop there is (`LoopInv`); of any number of `Close`s one does the work, waits for the
loop it found and saves when there is none (`CloseInv`), and the others promise nothing.  `ArrivalsRecordedHolds`: until a watch has ended,
what is owed lies in `WatchJoins`' channel or is being recorded (`WatchInv`).

**`NetworkProofs`.**  `PreparedBeforeUseHolds`, `HoldsItsNetworkHolds` and
`ResultIsHeldHolds`, for any configuration, versions and capacity of the subscription, and
any number of boots and calls.  None is inductive, because commands whose answers nobody waits for
any more are still carried out.  `Lined` says that answers on the line are to earlier
commands than those still on their way, so that whoever has been answered finds the request
queue empty.  `Queue` says which commands can still be in it at each place of the host, with
`Current` for the one that is waited for: no `networkInit` is left once an operation can
start, no `form` while keys are set.  `Agreement` is about layouts.  `Prepared` says what the
NCP has at each step of `Open` and of `AllowJoins`, *as long as it listens*: after a restart
on its own it agrees to no layout (`Deaf`), carries nothing out, and what was prepared is
gone.  `Restored` and `Found` say that what `networkInit` and `NetworkState` answered
is still so when it matters; for `Found`, that a call which saw no network has none under it
until its own command starts one.  `Answering` follows such a call to its result: every "up"
on the line or in the subscription is its own network's, and the keys are its keys.

Of the scan, `FoundIsHeardHolds`: what was heard since the sweep began is in the list or
still in the channel, or met a full one, and the end of the sweep is the last message, so
that a list which is returned has seen the others.  `JoinIsForcedHolds`: `chooseNetwork`
counts entries and the property counts networks; the two agree because entries and the
networks heard are in one-to-one correspondence.

**`RequestProofs`.**  `OwnAnswerHolds`: `NearInv` says that everything that can reach a
waiting request, its copies, answers under way and in its channel, is of a request less than
a round of sequence numbers away, which `Ask` starts from (`SequenceFree`); a match
on the sequence number is then a match on the request (`NearAndEqual`).  `DoneInv` says that
an answer "done" was sent after doing it, and `NoAnswerMissed` that no answer arrived before
the subscription that waits for it.  `InOrderHolds` adds `PhraseInv`: a caller that stops at
a failure has only its last request in doubt.  `CopyStaysAlive`: a resend begins at most one
interval after the one before it began, failed or not, since a send takes no longer than the
interval; so the last good copy is never older than `(Tolerated + 1) * Interval + 2 * MaxSend`,
which the assumption puts within the NCP's patience.

**`RegistryProofs`.**  `RecordsAgreeHolds`: the map is filed by address (`Filed`) and names
differ after folding, in memory and in the file, whatever is promoted.  `DurableHolds`: what
was told is in the file *and* in memory (`ToldTrue`), since every later save writes memory.
`NothingForgottenHolds`: each operation extends the record it touches (`Extends`).
`ProvenanceHolds`: every record belongs to a device that has had its address (`Owned`), in
memory and file, and what an interview has heard so far is of the device it asks (`Heard`),
under the two conditions above; `ProvenanceWithoutRejoins` shows that devices that keep their
addresses meet them.  `OwnAnswersStayHolds`: while a sibling's answers are on their way to a
record, the record has none of its own (`Lent`), which needs the one interviewer.
`AlwaysReadableHolds`, of `RegistryFile`: only `Rename` changes the file, and it puts a
temporary in place that was written completely (`TempInv`).  `SavedAloneHolds` adds what a
process that has the turn knows about the file (`TurnInv`), also after `Open` has migrated
it: what this version wrote is not among what is `Dropped`, illuminance aside, and a renamed
"battery" takes the place of no entry.

**`CommandsProofs`.**  `LightAsToldHolds` and `PersistedAsToldHolds`: phrases of any length
over any numbers, any transition, any number of copies of each request; `PhrasesAssumption`
says that what the parsers read are numbers.  `Heeded` is the heart: while the lamp is being
told, it is as the first words asked, up to the word before the one in hand.  `Copies` shows
that several copies of an action do what one does, unless it is a toggle or a step, and
`HeardAfter` what the words ask for, one word after the other; both compute along a
sequence and are proved by induction (`Induction`, `Recursion`) over the *set* of numbers a
fact holds of, which needs the well-foundedness of `<` and no theorem with an operator
parameter.  That a level in whole units stays within one unit of what was asked, however
many steps and clamps follow, is `StaysWithin`.  The colours are lemmas about division: what
is sent is the nearest unit to the angle (`HueIsNear`), a triplet twice as bright has the same
hue and saturation (`TripletHue`), mireds are rounded within a unit (`KelvinIsNear`).  For
`--persist` the invariant is `LightInv`: the phrase was understood before any of it was sent
(`Parsed`), the lamp stands where its last place left it (`Standing`), and what is kept is the
level `lastAbsoluteLevel` finds, at the end and not before (`Persisted`).

`NeverGuessesHolds`: any devices, names, lines and commands.  `PromptAssumption` types them
and says that an address is one symbol, that case neither makes nor unmakes one, and that a command takes at least
the word of a device.  (Its line on `Dash`, `Space` and `Quote` is there because no prover
knows that a literal is a string.)  The invariant `PromptInv` is that names are in order,
one device's each after folding, and no addresses, though they may have one in them (`NamesInv`), that the line is text,
which takes every candidate Tab can offer (`CompletedText`), and that once Enter is pressed
nothing moves.  `SetName` keeps it because `NormalizeName` only drops spaces and leaves
what is in order alone (`NormalIsNeat`, `NeatIsNormal`), so that `ValidateName` judges what
will be looked up.  Then the argument of a line is text, read character by character
(`Tokenized`, `ParsedText`); the first tier that is not empty holds the best names, since
each tier is within the last (`Tiers`, `FoundByName`); `Store.Resolve`, which has no tier for
suffixes, can find nothing else (`ResolversAgree`); and a device's own name is found in the
first tier of every pool that has the device (`NameFinds`).

`WindowShutHolds`, for any keys, reports and joins: commands to the NCP are carried out in
order, and while the answer to a shutting is waited for, that shutting is the last of them or
has been done (`ShutLast`), so that an opening which nobody waits for any more comes before it.

**`AttributesProofs`.**  `AnswersAreTheDevicesHolds` and `ReportingAsAskedHolds`: any device,
any data types, values, flags and number of attributes.  `AttributesAssumption` types the
tables and says what Go's types do: a typed word is one number at most, a change is an
`int64`, a bool has room for its invalid marker and no sign.  The invariant `AttrInv` is that
the device holds values of its types (`DeviceInv`), that what was sent has one record for each
attribute named, encoded from what was typed for it (`RequestInv`), and that what *will* be
heard of an answer that has been sent is true of the device already (`AnswerInv`): the device
decides when it answers, and `typed`, `held` and `config` stay still until the answer is read.
The step that needs the work is `Answer`, in three parts.

- *The answer is what is decoded from it* (`Walking`, `Listing`, `Outcome`).  An answer is
  records of different lengths laid end to end, in any order, possibly cut short in its last
  field.  The cursor's position after `k` turns is where record `k + 1` begins (`Offsets`,
  `Begins`), because each record's size can be told from its own first fields (`Readable`),
  until a record of a type that cannot be stepped over, or the cut, latches the error.  So the
  results are those of all the records, or there are none; and the single byte that stands
  for success is never a part of a longer answer (`Listing`, last conjunct).
- *What was encoded stands for what was typed* (`Encoded`, `Written`, `Reported`).  A value that
  fits its type's width and sign, cut to that width, has no other number it could mean: this
  is where `boundedInt` and `boundedUint` are needed.  An interval of whole seconds is the one
  asked for (`Interval`).
- *The last record about an attribute decides* (`Applied`).  The device takes all the records
  about one attribute or none (`SameStatus`), as they carry one type (`OneType`), so that "refused"
  is a fact about the attribute and not about a record.

`KnownAttributes` is a `CHOOSE` of the ascending order; that there is one, for any finite table,
is `Ascending`.  The loop of the decoders is a recursive function on the places of the payload,
so that `Recursion` (of `CommandsProofs`) shows that it exists and `Looped` unfolds it.

Only model-checked: liveness under fairness, which is out of the prover's reach;
`IntactFramesArrive`, whose CRC and randomisation are computed bit by bit on real bytes; and
`CompletedIsResolved` (the words Tab wrote earlier are followed through every later reading of
the line).  The runs that end in **no** have nothing to prove.

## 5. Not modelled, and the plan

Not modelled:

- the layouts of EZSP commands (`internal/ezsp/protocol.go`, `wire.go`): tables of fields,
  whose decoders the repository tests against captures;
- ZCL clusters and types beyond what `Attributes` and `Lights` need: strings, floats,
  times, IEEE addresses; the ZDO tables;
- the matrices of `color.go` between sRGB, xy and the black-body curve: real arithmetic;
- what commands print, JSON, the `=` of flags, the history of lines;
- errors on the way through `cmd/gzb`'s `open`; `serveTimeRead`; capture scripts.

What would come next, in this order:

1. a proof of `CompletedIsResolved`: `tokenize` undoes `quoteWord`, for any name that can be
   quoted;
2. a `Shell` in which each key is followed, for the keys typed ahead.
