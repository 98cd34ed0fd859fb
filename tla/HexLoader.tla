------------------------------- MODULE HexLoader -------------------------------
(* The Intel HEX loader (sim-core/src/mcu/hex.ts): the lines of a file, one    *)
(* record each, become an image of the flash or an error.  Addresses are small *)
(* here: a segment record moves by paragraphs and a linear one by pages, each  *)
(* as large as the flash at least; a page number whose sign bit is set makes a *)
(* negative address, as it does in a 32-bit shift.                             *)
EXTENDS Integers, Sequences, FiniteSetsExt

CONSTANTS
    FlashBytes,     \* size of the flash
    Paragraph,      \* bytes a segment record's unit stands for,
    Page,           \* and a linear record's
    SignBit,        \* the page number from which an address is negative
    Records,        \* the lines a file may have, each a record of
                    \* [type, count, address, value, carries, sums]
    MaxLines        \* bound: lines of a file

ASSUME HexAssumption ==
    /\ {FlashBytes, Paragraph, Page, SignBit} \subseteq Nat \ {0} /\ FlashBytes <= Page
    /\ Records \subseteq [type : STRING, count : Nat, address : 0..Page - 1,
                          value : 0..2 * SignBit - 1, carries : Nat, sums : BOOLEAN]

VARIABLES
    image,          \* flash: who wrote each byte, a line and a place in it
    highAddress, highestWritten, verdict,
    linesRead       \* the records that have been read

hexVars == <<image, highAddress, highestWritten, verdict, linesRead>>

Unwritten == <<0, 0>>

HexInit ==
    /\ image = [b \in 0..FlashBytes - 1 |-> Unwritten]
    /\ highAddress = 0 /\ highestWritten = 0
    /\ verdict = "reading" /\ linesRead = <<>>

(* A line that is a record, of the length it states, and adds up.              *)
WellFormed(r) == r.carries = r.count /\ r.sums

Max0(m, n) == IF m > n THEN m ELSE n

PlaceOf(r) == highAddress + r.address

(* A data record is written where it says, or refused when it is too far; a    *)
(* negative place makes the copy itself throw.                                 *)
WriteData(r) ==
    LET base == PlaceOf(r)
    IN  IF base + r.count > FlashBytes \/ base < 0
        THEN verdict' = "error" /\ UNCHANGED <<image, highestWritten>>
        ELSE /\ image' = [b \in DOMAIN image |->
                            IF b \in base..base + r.count - 1 THEN <<Len(linesRead) + 1, b - base>> ELSE image[b]]
             /\ highestWritten' = Max0(highestWritten, base + r.count)
             /\ UNCHANGED verdict

(* An address record carries two bytes.                                        *)
MoveBase(r) ==
    /\ IF r.count # 2 THEN verdict' = "error" /\ UNCHANGED highAddress
       ELSE /\ highAddress' = IF r.type = "segment" THEN r.value * Paragraph
                              ELSE (IF r.value >= SignBit THEN r.value - 2 * SignBit ELSE r.value) * Page
            /\ UNCHANGED verdict
    /\ UNCHANGED <<image, highestWritten>>

ReadRecord(r) ==
    /\ verdict = "reading" /\ Len(linesRead) < MaxLines
    /\ linesRead' = Append(linesRead, r)
    /\ CASE ~WellFormed(r) -> verdict' = "error" /\ UNCHANGED <<image, highAddress, highestWritten>>
         [] WellFormed(r) /\ r.type = "data" -> WriteData(r) /\ UNCHANGED highAddress
         [] WellFormed(r) /\ r.type = "end" ->
                /\ verdict' = IF highestWritten = 0 THEN "error" ELSE "loaded"
                /\ UNCHANGED <<image, highAddress, highestWritten>>
         [] WellFormed(r) /\ r.type \in {"segment", "linear"} -> MoveBase(r)
         [] OTHER -> verdict' = "error" /\ UNCHANGED <<image, highAddress, highestWritten>>

(* The file is over before its end record.                                     *)
RunOut ==
    /\ verdict = "reading" /\ verdict' = "error"
    /\ UNCHANGED <<image, highAddress, highestWritten, linesRead>>

HexNext == (\E r \in Records : ReadRecord(r)) \/ RunOut

HexSpec == HexInit /\ [][HexNext]_hexVars
-------------------------------------------------------------------------------
(* Where the byte k of line i belongs: at the address of its record, past that *)
(* of the last address record above it.                                        *)
Belongs(i, k) ==
    LET above == {j \in 1..i - 1 : linesRead[j].type \in {"segment", "linear"}}
        base  == IF above = {} THEN 0
                 ELSE LET r == linesRead[Max(above)]
                      IN  r.value * (IF r.type = "segment" THEN Paragraph ELSE Page)
    IN  base + linesRead[i].address + k

(* An image that is loaded has every byte of every record at the place the     *)
(* file gives it, the later of two at one place, and nothing else; and it came *)
(* of a file without a fault, none of it past the end of the flash.            *)
ImageIsAsWritten ==
    verdict = "loaded" =>
        /\ \A i \in DOMAIN linesRead :
              WellFormed(linesRead[i]) /\ linesRead[i].type \in {"data", "end", "segment", "linear"}
        /\ \A i \in DOMAIN linesRead : linesRead[i].type = "data" =>
              \A k \in 0..linesRead[i].count - 1 :
                  Belongs(i, k) \in DOMAIN image /\ image[Belongs(i, k)][1] >= i
        /\ \A b \in DOMAIN image : image[b] # Unwritten => Belongs(image[b][1], image[b][2]) = b
===============================================================================
