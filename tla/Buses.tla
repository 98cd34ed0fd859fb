-------------------------------- MODULE Buses ---------------------------------
(* The two buses of the board and the register-file devices on them:           *)
(* sim-core/src/bus/spi.ts, bus/i2c.ts and bus/registers.ts.  An SPI device is *)
(* addressed by the voltage of its chip select, which the board has the bus    *)
(* look at after every solve; an I2C device by the first byte on the wire.     *)
(*                                                                            *)
(* A byte is a number below 2 * Size and a device has as many addresses; the   *)
(* upper half of the bytes are those with the read bit set.                    *)
EXTENDS Integers, Sequences, SequencesExt, FiniteSetsExt

CONSTANTS
    SpiOrder,   \* the SPI devices, in the order they were attached
    ActiveLow,  \* those selected by a low level
    Streams,    \* those without addresses
    Unfit,      \* those the sketch's mode, bit order or clock does not suit
    I2cDevices, \* the devices on the I2C bus, each its own address
    Absent,     \* an address nobody has
    Size, Specs,\* half the bytes; the registers of every device
    LogLimit,   \* transfers the analyser keeps
    MaxSaid     \* bound: what happens on the wires

SpiDevices == ToSet(SpiOrder)
Devices == SpiDevices \cup I2cDevices
Byte == 0 .. 2 * Size - 1
Next(address) == (address + 1) % (2 * Size)

RegisterSchema == [address : Byte, bytes : 1 .. 4, reset : Byte, readOnly : BOOLEAN, fromState : BOOLEAN]

BusesAssumption ==
    /\ ActiveLow \subseteq SpiDevices /\ Streams \subseteq SpiDevices /\ Unfit \subseteq SpiDevices
    /\ SpiDevices \cap I2cDevices = {} /\ Absent \notin Devices
    /\ SpiOrder \in Seq(SpiDevices) /\ IsFiniteSet(I2cDevices)
    /\ Size \in Nat \ {0} /\ LogLimit \in Nat \ {0} /\ MaxSaid \in Nat
    /\ Specs \subseteq RegisterSchema
ASSUME BusesAssumption

VARIABLES
    level,      \* what is on each chip select: "low", "mid" or "high"
    selected,   \* the devices selected
    device,     \* pointer, awaitingCommand or awaitingPointer, reading, bytes, frames
    log, issues,
    active, writing, lastAddress,   \* the I2C transaction: with whom, which way, with whom last
    measured,   \* the state variable the measured registers show
    said,       \* history: what was said to each device
    chattered   \* history: those selected by a high level, left between the rails
                \* since they were last clearly let go

busVars == <<level, selected, device, log, issues, active, writing, lastAddress, measured, said, chattered>>

FloatingByte == 2 * Size - 1

-------------------------------------------------------------------------------
(* RegisterFile.                                                               *)

Covers(r, address) == address \in r.address .. r.address + r.bytes - 1

PowerOn ==
    [address \in Byte |->
        IF \E r \in Specs : Covers(r, address)
        THEN (CHOOSE r \in Specs : Covers(r, address)).reset ELSE 0]

(* byteAt: a register backed by a state variable shows it, in all its bytes.   *)
ByteAt(bytes, address) ==
    IF \E r \in Specs : Covers(r, address) /\ r.fromState THEN measured ELSE bytes[address]

(* write: read-only is a matter of the register that begins at the address.    *)
Written(bytes, address, byte) ==
    IF \E r \in Specs : r.address = address /\ r.readOnly THEN bytes
    ELSE [bytes EXCEPT ![address] = byte]

-------------------------------------------------------------------------------
(* The chip selects.                                                           *)

(* Half way between the rails a line counts as it did before, for a device     *)
(* that is selected by a low level; for one selected by a high level the two   *)
(* thresholds are the wrong way round, and it counts as it did not.            *)
High(lv, d, was) == lv = "high" \/ (lv = "mid" /\ ~was)
Selects(lv, d, was) == IF d \in ActiveLow THEN ~High(lv, d, was) ELSE High(lv, d, was)

OnSelect(r) == [r EXCEPT !.awaiting = TRUE, !.frame = <<>>]
OnDeselect(r) == [r EXCEPT !.awaiting = TRUE, !.lastFrame = r.frame]

NowSelected(lv) == {d \in SpiDevices : Selects(lv[d], d, d \in selected)}

(* selected[0]: the one attached first.                                        *)
First(now) ==
    CHOOSE d \in now : \E i \in DOMAIN SpiOrder :
        SpiOrder[i] = d /\ \A j \in 1 .. i - 1 : SpiOrder[j] \notin now

(* updateChipSelects, as it finds the wires.                                   *)
Edges(now) ==
    [d \in Devices |->
        IF d \in now \ selected THEN OnSelect(device[d])
        ELSE IF d \in selected \ now THEN OnDeselect(device[d])
        ELSE device[d]]

(* transfer: full duplex, the answer is to what was said before.               *)
Transferred(r, d, mosi) ==
    LET heard == [r EXCEPT !.frame = Append(@, mosi)]
    IN  IF d \in Streams
        THEN <<[heard EXCEPT !.bytes = Written(@, r.pointer, mosi), !.pointer = Next(@)],
               ByteAt(r.bytes, r.pointer)>>
        ELSE IF r.awaiting
        THEN <<[heard EXCEPT !.reading = mosi >= Size, !.pointer = mosi % Size, !.awaiting = FALSE], 0>>
        ELSE IF r.reading
        THEN <<[heard EXCEPT !.pointer = Next(@)], ByteAt(r.bytes, r.pointer)>>
        ELSE <<[heard EXCEPT !.bytes = Written(@, r.pointer, mosi), !.pointer = Next(@)], 0>>

Logged(entry) ==
    LET all == Append(log, entry)
    IN  log' = IF Len(all) > LogLimit THEN Tail(all) ELSE all

-------------------------------------------------------------------------------
Byted(b) == [what |-> "byte", byte |-> b]
Event(what) == [what |-> what, byte |-> 0]

(* A device fresh from its constructor, on either bus.                         *)
RegisterFilePeripheral ==
    [pointer |-> 0, awaiting |-> TRUE, reading |-> FALSE,
     bytes |-> PowerOn, frame |-> <<>>, lastFrame |-> <<>>]

(* The first solve has found the chip selects at some level.                   *)
SpiInit ==
    /\ level \in [SpiDevices -> {"low", "high"}]
    /\ selected = {d \in SpiDevices : Selects(level[d], d, FALSE)}
    /\ log = <<>> /\ issues = {}

I2cInit == active = Absent /\ writing = TRUE /\ lastAddress = Absent

BusesInit ==
    /\ SpiInit /\ I2cInit
    /\ device = [d \in Devices |-> RegisterFilePeripheral]
    /\ measured = 0
    /\ said = [d \in Devices |-> IF d \in SpiDevices THEN <<Event(level[d])>> ELSE <<>>]
    /\ chattered = {}

Spoken == FoldSet(LAMBDA d, n : Len(said[d]) + n, 0, Devices)
Quiet == Spoken < MaxSaid

(* What the wire of a chip select says.                                        *)
SaidBy(lv) == IF lv = "mid" THEN <<>> ELSE <<Event(lv)>>

On(d)  == IF d \in ActiveLow THEN "low" ELSE "high"
Off(d) == IF d \in ActiveLow THEN "high" ELSE "low"

Chattering(d, lv) ==
    IF lv = "mid" /\ d \notin ActiveLow THEN chattered \cup {d}
    ELSE IF lv = Off(d) THEN chattered \ {d} ELSE chattered

(* A pin is written or let go, and the board solves.                           *)
(* Mutant: the chip selects are looked at when a byte is sent, not before.     *)
DriveUnnoticed(d, lv) ==
    /\ lv # level[d] /\ Quiet
    /\ level' = [level EXCEPT ![d] = lv]
    /\ said' = [said EXCEPT ![d] = @ \o SaidBy(lv)]
    /\ chattered' = Chattering(d, lv)
    /\ UNCHANGED <<selected, device, log, issues, active, writing, lastAddress, measured>>

Drive(d, lv) ==
    /\ lv # level[d] /\ Quiet
    /\ level' = [level EXCEPT ![d] = lv]
    /\ selected' = NowSelected(level')
    /\ device' = Edges(selected')
    /\ said' = [said EXCEPT ![d] = @ \o SaidBy(lv)]
    /\ chattered' = Chattering(d, lv)
    /\ UNCHANGED <<log, issues, active, writing, lastAddress, measured>>

(* The board solves again although no pin has changed.                         *)
SolveAgain ==
    /\ selected' = NowSelected(level)
    /\ device' = Edges(selected')
    /\ UNCHANGED <<level, log, issues, active, writing, lastAddress, measured, said, chattered>>

(* onByte: the first device that is selected answers, nobody hears the others. *)
OnByte(mosi) ==
    LET now == NowSelected(level)
        edged == Edges(now)
    IN  /\ Quiet
        /\ selected' = now
        /\ IF now = {}
           THEN /\ device' = edged
                /\ issues' = issues \cup {<<"no-device-selected", Absent>>}
                /\ Logged([device |-> Absent, byte |-> mosi, answer |-> FloatingByte])
                /\ UNCHANGED said
           ELSE LET d == First(now)
                    t == Transferred(edged[d], d, mosi)
                IN  /\ device' = [edged EXCEPT ![d] = t[1]]
                    /\ issues' = issues
                         \cup (IF now # {d} THEN {<<"multiple-selected", d>>} ELSE {})
                         \cup (IF d \in Unfit THEN {<<"mode-mismatch", d>>} ELSE {})
                    /\ Logged([device |-> d, byte |-> mosi, answer |-> t[2]])
                    /\ said' = [said EXCEPT ![d] = Append(@, Byted(mosi))]
        /\ UNCHANGED <<level, active, writing, lastAddress, measured, chattered>>

-------------------------------------------------------------------------------
(* I2C.                                                                        *)

Chat == UNCHANGED <<level, selected, issues, measured, chattered>>

(* connectToSlave, after a start or a repeated start.                          *)
Connect(address, write) ==
    /\ Quiet
    /\ lastAddress' = address
    /\ active' = address /\ writing' = write
    /\ IF address # Absent /\ write
       THEN /\ device' = [device EXCEPT ![address].awaiting = TRUE]
            /\ said' = [said EXCEPT ![address] = Append(@, Event("write"))]
       ELSE UNCHANGED <<device, said>>
    /\ UNCHANGED log /\ Chat

Stop ==
    /\ active # Absent /\ active' = Absent
    /\ UNCHANGED <<device, log, writing, lastAddress, said>> /\ Chat

(* onWrite: the first byte of a write is the pointer.                          *)
Taken(r, byte) ==
    IF r.awaiting THEN [r EXCEPT !.pointer = byte, !.awaiting = FALSE]
    ELSE [r EXCEPT !.bytes = Written(@, r.pointer, byte), !.pointer = Next(@)]

WriteByte(byte) ==
    /\ writing /\ Quiet
    /\ IF active = Absent THEN UNCHANGED <<device, said>>
       ELSE /\ device' = [device EXCEPT ![active] = Taken(@, byte)]
            /\ said' = [said EXCEPT ![active] = Append(@, Byted(byte))]
    /\ Logged([device |-> lastAddress, byte |-> byte, answer |-> IF active = Absent THEN 0 ELSE 1])
    /\ UNCHANGED <<active, writing, lastAddress>> /\ Chat

ReadByte ==
    /\ ~writing /\ Quiet
    /\ IF active = Absent
       THEN /\ Logged([device |-> lastAddress, byte |-> 0, answer |-> FloatingByte])
            /\ UNCHANGED <<device, said>>
       ELSE /\ Logged([device |-> active, byte |-> 0,
                       answer |-> ByteAt(device[active].bytes, device[active].pointer)])
            /\ device' = [device EXCEPT ![active].pointer = Next(@)]
            /\ said' = [said EXCEPT ![active] = Append(@, Event("read"))]
    /\ UNCHANGED <<active, writing, lastAddress>> /\ Chat

(* The world moves on.                                                         *)
Measure ==
    /\ Quiet /\ measured' = 1 - measured
    /\ UNCHANGED <<level, selected, device, log, issues, active, writing, lastAddress, said, chattered>>

SpiNext ==
    \/ \E d \in SpiDevices, lv \in {"low", "mid", "high"} : Drive(d, lv)
    \/ SolveAgain
    \/ \E mosi \in Byte : OnByte(mosi)

I2cNext ==
    \/ \E address \in I2cDevices \cup {Absent}, write \in BOOLEAN : Connect(address, write)
    \/ Stop
    \/ \E byte \in Byte : WriteByte(byte)
    \/ ReadByte

BusesNext == SpiNext \/ I2cNext \/ Measure

BusesSpec == BusesInit /\ [][BusesNext]_busVars

-------------------------------------------------------------------------------
(* What is on record as said, read the way the data sheets have it.            *)

(* Whether a chip select is asserted: by the last level that was clear.        *)
Asserted(d) ==
    \E i \in DOMAIN said[d] : /\ said[d][i].what = On(d)
                              /\ \A j \in DOMAIN said[d] : said[d][j].what = Off(d) => j < i

(* The bytes since it last was not, in order.                                  *)
BytesAfter(s, off) ==
    {i \in DOMAIN s : s[i].what = "byte" /\ \A j \in DOMAIN s : s[j].what = off => j < i}
Ranked(S, i) == {k \in S : Cardinality({j \in S : j <= k}) = i}

FrameOf(d) ==
    LET since == BytesAfter(said[d], Off(d))
    IN  [i \in 1 .. Cardinality(since) |-> said[d][CHOOSE k \in Ranked(since, i) : TRUE].byte]

(* The address an I2C host means: the byte after the last write that brought   *)
(* one, and one on for everything written and read since.                      *)
Begun(s) == {i \in DOMAIN s : s[i].what = "write" /\ i < Len(s) /\ s[i + 1].what = "byte"}
Moved(s, from) == Cardinality({i \in DOMAIN s : i > from /\ s[i].what # "write"})
Meant(d) ==
    LET s == said[d]
    IN  IF Begun(s) = {} THEN Moved(s, 0) % (2 * Size)
        ELSE LET b == CHOOSE i \in Begun(s) : \A j \in Begun(s) : j <= i
             IN  (s[b + 1].byte + Moved(s, b + 1)) % (2 * Size)

SpiUnderstood(d, byte) ==
    LET f == FrameOf(d)
        at == (f[1] + Len(f) - 1) % (2 * Size)
        readAt == (f[1] - Size + Len(f) - 1) % (2 * Size)
        was == device[d].bytes
    IN  /\ Asserted(d)
        /\ d \notin Streams =>
             /\ Last(log').answer = (IF f # <<>> /\ f[1] >= Size THEN ByteAt(was, readAt) ELSE 0)
             /\ device'[d].bytes = (IF f # <<>> /\ f[1] < Size THEN Written(was, at, byte) ELSE was)

I2cUnderstood(d, event) ==
    LET was == device[d].bytes
        first == said[d] # <<>> /\ Last(said[d]).what = "write"
    IN  /\ event.what = "read" => Last(log').answer = ByteAt(was, Meant(d))
        /\ device'[d].bytes = (IF event.what = "byte" /\ ~first
                                THEN Written(was, Meant(d), event.byte) ELSE was)

(* Every byte means to a device what its data sheet says it means to the host: *)
(* a command, a pointer, or the contents of the register that the command and  *)
(* the bytes since then have come to, whatever else was selected, called,      *)
(* broken off or left between the rails.  And who is not selected hears        *)
(* nothing.  Only a device that is selected by a high level may misunderstand, *)
(* once its line was left between the rails.                                   *)
HostIsUnderstood ==
    [][/\ \A d \in Devices :
            Len(said'[d]) > Len(said[d]) /\ Last(said'[d]).what \in {"byte", "read"} =>
              IF d \in SpiDevices THEN d \in chattered \/ SpiUnderstood(d, Last(said'[d]).byte)
              ELSE I2cUnderstood(d, Last(said'[d]))
       /\ \A d \in SpiDevices \ chattered : device[d].frame = FrameOf(d) \/ ~Asserted(d)
      ]_busVars
===============================================================================
