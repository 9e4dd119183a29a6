------------------------------ MODULE AshFrame ------------------------------
(***************************************************************************)
(* ASH framing: Encode and Decode of internal/ash/frame.go on real bytes,   *)
(* and the byte scanner of internal/ash/conn.go as a state machine.         *)
(*                                                                         *)
(* The NCP writes frames; the line inserts flow-control bytes and damages   *)
(* or loses a byte; reads return the bytes in pieces.  What AshLink takes   *)
(* for granted, that a frame arrives whole or not at all, is the property.  *)
(***************************************************************************)
EXTENDS Naturals, Sequences

LOCAL INSTANCE SequencesExt

CONSTANTS
    Frames,        \* the frames the NCP writes
    Damage,        \* the bytes a damaged byte turns into
    Junk,          \* what the line may carry before a frame: sequences of bytes
    ReadSizes,     \* how many bytes a read may return (512, or fewer)
    MaxFrameLen,   \* 256
    MaxFrames,     \* bound: frames written
    MaxFaults      \* bound: faults of the line

Byte == 0..255

ASSUME AshFrameAssumption ==
    /\ Damage \subseteq Byte /\ Junk \subseteq Seq(Byte)
    /\ ReadSizes \subseteq Nat \ {0}
    /\ MaxFrameLen \in Nat \ {0} /\ MaxFrames \in Nat /\ MaxFaults \in Nat

(***************************************************************************)
(* Bytes                                                                   *)
(***************************************************************************)
FlagByte   == 126
EscapeByte == 125
XOnByte    == 17
XOffByte   == 19
SubstByte  == 24
CancelByte == 26
escapeMask == 32

Least(m, n) == IF m < n THEN m ELSE n

Bit(n, i) == (n \div 2^i) % 2

XorNibble ==
    [x, y \in 0..15 |-> FoldLeft(+, 0, [i \in 1..4 |->
        IF Bit(x, i - 1) # Bit(y, i - 1) THEN 2^(i - 1) ELSE 0])]

Xor(x, y) == 16 * XorNibble[x \div 16, y \div 16] + XorNibble[(x % 16), (y % 16)]

\* One shift of the CRC register; the polynomial is 0x1021.
CrcShift(crc) ==
    LET shifted == (crc * 2) % 65536
    IN  IF crc < 32768 THEN shifted
        ELSE 256 * Xor(shifted \div 256, 16) + Xor((shifted % 256), 33)

\* crc16: CRC-16/CCITT-FALSE.
crc16(data) ==
    FoldLeft(LAMBDA crc, b :
                 FoldLeft(LAMBDA c, i : CrcShift(c),
                          256 * Xor(crc \div 256, b) + (crc % 256), [i \in 1..8 |-> i]),
             65535, data)

\* randomize: XOR with an eight-bit LFSR seeded with 0x42.  Its own inverse.
Lfsr[i \in Nat] ==
    IF i = 1 THEN 66
    ELSE LET r == Lfsr[i - 1] IN IF r % 2 = 0 THEN r \div 2 ELSE Xor(r \div 2, 184)

randomize(data) == [i \in DOMAIN data |-> Xor(data[i], Lfsr[i])]

needsEscape(b) == b \in {FlagByte, EscapeByte, XOnByte, XOffByte, SubstByte, CancelByte}

\* stuff: escape what is reserved, and end with the flag.
stuff(body) ==
    Append(FlattenSeq([i \in DOMAIN body |->
               IF needsEscape(body[i]) THEN <<EscapeByte, Xor(body[i], escapeMask)>>
               ELSE <<body[i]>>]),
           FlagByte)

\* unstuff, as one pass that remembers an escape byte.
Unstuffed(body) ==
    FoldLeft(LAMBDA s, b :
                 IF s.escape THEN [escape |-> FALSE, out |-> Append(s.out, Xor(b, escapeMask))]
                 ELSE IF b = EscapeByte THEN [s EXCEPT !.escape = TRUE]
                 ELSE [s EXCEPT !.out = Append(@, b)],
             [escape |-> FALSE, out |-> <<>>], body)

(***************************************************************************)
(* Frames                                                                  *)
(***************************************************************************)
WireFrame(type, frm, ack, reTx, notReady, data) ==
    [type |-> type, frmNum |-> frm, ackNum |-> ack, reTx |-> reTx, notReady |-> notReady,
     data |-> data]

Flag(b, n) == IF b THEN n ELSE 0

controlByte(f) ==
    CASE f.type = "DATA"   -> 16 * f.frmNum + Flag(f.reTx, 8) + f.ackNum
      [] f.type = "ACK"    -> 128 + Flag(f.notReady, 16) + f.ackNum
      [] f.type = "NAK"    -> 160 + Flag(f.notReady, 16) + f.ackNum
      [] f.type = "RST"    -> 192
      [] f.type = "RSTACK" -> 193
      [] f.type = "ERROR"  -> 194

\* Encode, where the frame is not too long for it.
Encode(f) ==
    LET body == <<controlByte(f)>> \o IF f.type = "DATA" THEN randomize(f.data) ELSE f.data
        crc == crc16(body)
    IN  stuff(body \o <<crc \div 256, (crc % 256)>>)

\* What the control byte says of the rest.
Parse(ctrl, data) ==
    LET ack == ctrl % 8
        notReady == Bit(ctrl, 4) = 1
    IN  CASE ctrl < 128 ->
                WireFrame("DATA", ((ctrl \div 16) % 8), ack, Bit(ctrl, 3) = 1, FALSE, randomize(data))
          [] ctrl \div 32 = 4 -> WireFrame("ACK", 0, ack, FALSE, notReady, <<>>)
          [] ctrl \div 32 = 5 -> WireFrame("NAK", 0, ack, FALSE, notReady, <<>>)
          [] ctrl = 192 -> WireFrame("RST", 0, 0, FALSE, FALSE, <<>>)
          [] ctrl = 193 -> WireFrame("RSTACK", 0, 0, FALSE, FALSE, data)
          [] ctrl = 194 -> WireFrame("ERROR", 0, 0, FALSE, FALSE, data)
          [] OTHER -> WireFrame("unrecognised", 0, 0, FALSE, FALSE, <<>>)

\* Decode: the frame as a sequence of one, or none.
Decode(raw) ==
    LET s == Unstuffed(raw)
        n == Len(s.out)
        f == Parse(s.out[1], SubSeq(s.out, 2, n - 2))
    IN  IF \/ s.escape
           \/ n < 3
           \/ crc16(SubSeq(s.out, 1, n - 2)) # 256 * s.out[n - 1] + s.out[n]
           \/ f.type = "unrecognised"
        THEN <<>> ELSE <<f>>

-----------------------------------------------------------------------------
VARIABLES
    wire,      \* bytes on the way
    pend,      \* bytes read and not consumed
    partial,   \* the frame in progress
    corrupt,   \* it is to be dropped at its flag
    reading,   \* the first read has begun
    err,       \* a read has failed
    decoded,   \* the frames Decode gave to handle
    due,       \* history: the frames that should be given to it
    clean,     \* history: nothing precedes the next frame in its body
    written, faults

frameVars == <<wire, pend, partial, corrupt, reading, err, decoded, due, clean, written, faults>>
scanner == <<pend, partial, corrupt, reading, err, decoded>>

FrameInit ==
    /\ wire = <<>> /\ pend = <<>> /\ partial = <<>>
    /\ corrupt = FALSE /\ reading = FALSE /\ err = FALSE
    /\ decoded = <<>> /\ due = <<>> /\ clean = TRUE
    /\ written = 0 /\ faults = 0

\* The frame fits into the scanner's buffer, which holds it escaped and without
\* the flag.
Fits(bytes) == Len(bytes) - 1 <= MaxFrameLen

\* f is written, a RSTACK perhaps after a Cancel, and the line delivers the bytes.
\* All is written before the first read: when bytes come only decides how reads cut
\* them, and they may cut them anywhere.
OnWire(f, cancel, bytes) ==
    /\ ~reading /\ written < MaxFrames
    /\ cancel => f.type = "RSTACK"
    /\ written' = written + 1
    /\ wire' = wire \o (IF cancel THEN <<CancelByte>> ELSE <<>>) \o bytes
    /\ UNCHANGED scanner

Owed(f, cancel) ==
    /\ due' = IF (clean \/ cancel) /\ Fits(Encode(f)) THEN Append(due, f) ELSE due
    /\ clean' = TRUE

Write(f, cancel) == OnWire(f, cancel, Encode(f)) /\ Owed(f, cancel) /\ UNCHANGED faults

Fault == faults < MaxFaults /\ faults' = faults + 1

\* With a flow-control byte somewhere in it.
WriteFlowControlled(f, cancel) ==
    /\ Fault
    /\ \E i \in DOMAIN Encode(f), b \in {XOnByte, XOffByte} :
          OnWire(f, cancel, InsertAt(Encode(f), i, b))
    /\ Owed(f, cancel)

\* A byte is lost or turned into another.  If it was the flag, what follows joins
\* this frame's body, unless the byte became a Cancel.
WriteDamaged(f, cancel) ==
    /\ Fault
    /\ \E i \in DOMAIN Encode(f) :
          \/ /\ OnWire(f, cancel, RemoveAt(Encode(f), i))
             /\ clean' = (i < Len(Encode(f)))
          \/ \E b \in Damage \ {Encode(f)[i]} :
                /\ OnWire(f, cancel, ReplaceAt(Encode(f), i, b))
                /\ clean' = (i < Len(Encode(f)) \/ b = CancelByte)
    /\ UNCHANGED due

\* Junk without a flag, as long as it likes.
Noise ==
    /\ Fault /\ ~reading
    /\ \E j \in Junk : wire' = wire \o j
    /\ clean' = FALSE
    /\ UNCHANGED <<scanner, due, written>>

line == <<wire, due, clean, written, faults>>

\* A read returns up to n bytes; none, or an error, ends the stream once the bytes
\* before it have been consumed.
Read(n, fails) ==
    /\ pend = <<>> /\ ~err
    /\ reading' = TRUE
    /\ pend' = SubSeq(wire, 1, Least(n, Len(wire)))
    /\ wire' = SubSeq(wire, n + 1, Len(wire))
    /\ err' = (fails \/ wire = <<>>)
    /\ UNCHANGED <<partial, corrupt, decoded, due, clean, written, faults>>

\* next takes a byte: one of the six kinds below.
Take(b) == pend # <<>> /\ Head(pend) = b /\ pend' = Tail(pend)

Cancel ==
    /\ Take(CancelByte)
    /\ partial' = <<>> /\ corrupt' = FALSE
    /\ UNCHANGED <<reading, err, decoded, line>>

Substitute ==
    /\ Take(SubstByte)
    /\ corrupt' = TRUE
    /\ UNCHANGED <<partial, reading, err, decoded, line>>

FlowControl ==
    /\ Take(XOnByte) \/ Take(XOffByte)
    /\ UNCHANGED <<partial, corrupt, reading, err, decoded, line>>

\* Mutant of EndOfFrame: what follows the flag in this read is forgotten.
EndOfFrameRereads ==
    /\ pend # <<>> /\ Head(pend) = FlagByte /\ pend' = <<>>
    /\ partial' = <<>> /\ corrupt' = FALSE
    /\ decoded' = IF corrupt \/ partial = <<>> THEN decoded ELSE decoded \o Decode(partial)
    /\ UNCHANGED <<reading, err, line>>

\* The flag: the body is decoded, unless it is empty or marked corrupt.
EndOfFrame ==
    /\ Take(FlagByte)
    /\ partial' = <<>> /\ corrupt' = FALSE
    /\ decoded' = IF corrupt \/ partial = <<>> THEN decoded ELSE decoded \o Decode(partial)
    /\ UNCHANGED <<reading, err, line>>

\* Any other byte.  A runaway frame is dropped up to its flag.
Content ==
    /\ \E b \in Byte \ {FlagByte, XOnByte, XOffByte, SubstByte, CancelByte} :
          /\ Take(b)
          /\ IF Len(partial) >= MaxFrameLen
             THEN partial' = <<>> /\ corrupt' = TRUE
             ELSE partial' = Append(partial, b) /\ UNCHANGED corrupt
    /\ UNCHANGED <<reading, err, decoded, line>>

FrameNext ==
    \/ \E f \in Frames, cancel \in BOOLEAN : 
          Write(f, cancel) \/ WriteFlowControlled(f, cancel) \/ WriteDamaged(f, cancel)
    \/ Noise
    \/ \E n \in ReadSizes, fails \in BOOLEAN : Read(n, fails)
    \/ Cancel \/ Substitute \/ FlowControl \/ EndOfFrame \/ Content

-----------------------------------------------------------------------------
\* A frame the line left alone is handed over as it was encoded, however reads
\* cut the bytes; a damaged one is not, and costs at most the frame it runs into.
\* (scanner.next, Encode, Decode: nothing else, nothing twice, in order.)
IntactFramesArrive ==
    /\ IsPrefix(decoded, due)
    /\ wire = <<>> /\ pend = <<>> => decoded = due
=============================================================================
