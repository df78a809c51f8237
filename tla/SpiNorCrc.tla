----------------------------- MODULE SpiNorCrc -----------------------------
(***************************************************************************)
(* ch32v0/spi_nor_crc: probe a SPI NOR flash, report it and print the      *)
(* CRC-32 of its first pages.  The CPU exchanges one byte at a time with a *)
(* flash chip that parses what it is sent since chip select fell.  The     *)
(* chip, the SPI peripheral and the pins are external.  A CRC register is  *)
(* the set of its bits that are 1.                                         *)
(***************************************************************************)
EXTENDS Integers, Sequences

CONSTANTS
    PageSize,   \* FLASH_PAGE_SIZE: 4096 in the code
    ChunkSize,  \* FLASH_CHUNK_SIZE: 128 in the code
    PageCount,  \* FLASH_PAGE_COUNT: 16 unless the build overrides it
    Radix,      \* an address byte holds a digit of this base: 256 in the code
    Images,     \* the flash contents considered, sequences of bytes
    Chips       \* the chips considered: [id, status, sfdp]

ASSUME SpiNorCrcAssumption ==
    /\ PageSize \in Nat \ {0}
    /\ ChunkSize \in Nat \ {0}
    /\ PageCount \in Nat
    /\ Radix \in 2..256
    /\ Images \subseteq Seq(0..255) \ {<<>>}
    /\ Chips \subseteq [id : [1..3 -> 0..255], status : 0..255, sfdp : BOOLEAN]
    /\ \A c \in Chips : \A b \in {0, 255} : c.id # <<b, b, b>>

Byte == 0..255
SPI_FLASH_CMD_READ == 3
SPI_FLASH_CMD_RDSR1 == 5
SPI_FLASH_CMD_SFDP == 90
SPI_FLASH_CMD_RDID == 159
None == [id |-> <<>>, status |-> 0, sfdp |-> FALSE]   \* no chip is fitted

VARIABLES
    pc,       \* the step of spi_flash_init(), then what main() is doing
    spi,      \* SPI1: software NSS, NSS level, master (no mode fault)
    nss,      \* the level of the NSS pin, which nothing drives
    cs,       \* TRUE: the chip is deselected
    tx, rx,   \* the bytes of this frame still to send, those received
    model,    \* the chip that is fitted
    image,    \* what it holds
    idle,     \* the level MISO floats at when no chip drives it
    heard,    \* the bytes the chip received since chip select fell
    answers,  \* what the probes found
    page, offset, length, crc, flash_buffer   \* main(), crc32_page()

wires == <<nss, model, image, idle>>
frame == <<tx, rx, heard>>
job == <<page, offset, length, crc, flash_buffer>>
vars == <<pc, spi, cs, wires, frame, answers, job>>

Setup == {"cs_mode", "cs_high", "ssm", "nss_high", "master", "enable"}
Frames == {"rdid", "status", "sfdp", "read"}

-----------------------------------------------------------------------------
(* CRC-32.                                                                 *)

Word == 0..31
Bits(byte) == {b \in 0..7 : (byte \div 2^b) % 2 = 1}
Xor(a, b) == (a \ b) \cup (b \ a)
ShiftRight(a) == {b - 1 : b \in a \ {0}}

\* 0xedb88320
CRC32_REFLECTED_POLYNOMIAL == {5, 8, 9, 15, 19, 20, 21, 23, 24, 26, 27, 29, 30, 31}
CRC32_INIT == Word
CRC32_XOROUT == Word

\* One turn of the loop.  (c is bound to its value, or TLC would evaluate the
\* turns before it again at each of its uses.)
crc_bit(c) ==
    UNION {Xor(ShiftRight(r), IF 0 \in r THEN CRC32_REFLECTED_POLYNOMIAL ELSE {}) :
             r \in {c}}

\* The register after each turn, and after the last.
crc_turns(c, data) ==
    LET turn[n \in 0..8] ==
            IF n = 0 THEN Xor(c, Bits(data)) ELSE crc_bit(turn[n - 1])
    IN  turn
crc32_soft_update(c, data) == crc_turns(c, data)[8]

-----------------------------------------------------------------------------
(* The flash chip (external).                                              *)

\* The three bytes of a 24-bit address: (uint8_t)(address >> 16) and so on.
Digit(a, place) == (a \div place) % Radix

\* A chip ignores the address bits beyond its capacity and wraps at its end.
Cell(a) == image[(a % Len(image)) + 1]

Signature == <<83, 70, 68, 80>>   \* "SFDP"

\* What the chip shifts out while it receives its n-th byte since chip select
\* fell: nothing (the line floats) until it has a command and, for the
\* commands that take them, an address and a dummy byte.
Answer(h) ==
    LET n == Len(h)
        address == (h[2] * Radix + h[3]) * Radix + h[4]
    IN  IF model = None \/ n = 0 THEN idle
        ELSE CASE h[1] = SPI_FLASH_CMD_RDID ->
                    IF n <= 3 THEN model.id[n] ELSE idle
               [] h[1] = SPI_FLASH_CMD_RDSR1 -> model.status
               [] h[1] = SPI_FLASH_CMD_SFDP ->
                    IF model.sfdp /\ n \in 5..8 THEN Signature[n - 4] ELSE 255
               [] h[1] = SPI_FLASH_CMD_READ ->
                    IF n >= 4 THEN Cell(address + n - 4) ELSE idle

-----------------------------------------------------------------------------

Init ==
    /\ pc = "cs_mode"
    /\ spi = [ssm |-> FALSE, ssi |-> FALSE, on |-> FALSE]
    /\ nss \in BOOLEAN
    /\ cs = TRUE
    /\ tx = <<>> /\ rx = <<>> /\ heard = <<>>
    /\ model \in Chips \cup {None}
    /\ image \in Images
    /\ idle \in {0, 255}
    /\ answers = None
    /\ page = 0 /\ offset = 0 /\ length = 0 /\ crc = CRC32_INIT
    /\ flash_buffer = [n \in 1..ChunkSize |-> 0]

\* spi_flash_init(): the chip select pin, then SPI1.  Made an output, the pin
\* is low until it is set.  With hardware NSS, or software NSS left low, going
\* master while NSS is low is a mode fault, and SPI1 never transfers.
InitOrder_MasterFirst ==
    [cs_mode |-> "cs_high", cs_high |-> "master", master |-> "ssm",
     ssm |-> "nss_high", nss_high |-> "enable", enable |-> "rdid"]
InitOrder ==
    [cs_mode |-> "cs_high", cs_high |-> "ssm", ssm |-> "nss_high",
     nss_high |-> "master", master |-> "enable", enable |-> "rdid"]

spi_flash_init ==
    /\ pc \in Setup
    /\ pc' = InitOrder[pc]
    /\ cs' = CASE pc = "cs_mode" -> FALSE [] pc = "cs_high" -> TRUE
               [] OTHER -> cs
    /\ spi' = CASE pc = "ssm" -> [spi EXCEPT !.ssm = TRUE]
                [] pc = "nss_high" -> [spi EXCEPT !.ssi = TRUE]
                [] pc = "master" ->
                     [spi EXCEPT !.on = IF spi.ssm THEN spi.ssi ELSE nss]
                [] OTHER -> spi
    /\ UNCHANGED <<wires, frame, answers, job>>

Filler(n) == [k \in 1..n |-> 255]

ChunkLength_NotCapped == PageSize - offset
\* crc32_page(): the last chunk of a page may be shorter.
ChunkLength == IF PageSize - offset > ChunkSize THEN ChunkSize
               ELSE PageSize - offset

Address == page * PageSize + offset

sfdp_bytes_NoDummy == <<SPI_FLASH_CMD_SFDP, 0, 0, 0>> \o Filler(4)
sfdp_bytes == <<SPI_FLASH_CMD_SFDP, 0, 0, 0>> \o Filler(5)

read_bytes ==
    <<SPI_FLASH_CMD_READ, Digit(Address, Radix * Radix),
      Digit(Address, Radix), Digit(Address, 1)>> \o Filler(ChunkLength)

Bytes ==
    CASE pc = "rdid" -> <<SPI_FLASH_CMD_RDID>> \o Filler(3)
      [] pc = "status" -> <<SPI_FLASH_CMD_RDSR1>> \o Filler(1)
      [] pc = "sfdp" -> sfdp_bytes
      [] pc = "read" -> read_bytes

spi_flash_cs_low ==
    /\ pc \in Frames /\ cs
    /\ cs' = FALSE
    /\ heard' = <<>>
    /\ tx' = Bytes
    /\ rx' = <<>>
    /\ UNCHANGED <<pc, spi, wires, answers, job>>

\* spi_xfer() waits until the byte has been exchanged.
spi_flash_xfer ==
    /\ pc \in Frames /\ ~cs /\ tx # <<>> /\ spi.on
    /\ rx' = Append(rx, Answer(heard))
    /\ heard' = Append(heard, Head(tx))
    /\ tx' = Tail(tx)
    /\ UNCHANGED <<pc, spi, cs, wires, answers, job>>

\* spi_flash_cs_high() and what the caller does next.
EndFrame(which) ==
    /\ pc = which /\ ~cs /\ tx = <<>>
    /\ cs' = TRUE
    /\ UNCHANGED <<spi, wires, frame>>

NoAnswer(id) == \E b \in {0, 255} : id = <<b, b, b>>

spi_flash_read_id ==
    /\ EndFrame("rdid")
    /\ answers' = [answers EXCEPT !.id = SubSeq(rx, 2, 4)]
    /\ pc' = IF NoAnswer(answers'.id) THEN "not_detected" ELSE "status"
    /\ UNCHANGED job

spi_flash_read_status1 ==
    /\ EndFrame("status")
    /\ answers' = [answers EXCEPT !.status = rx[2]]
    /\ pc' = "sfdp"
    /\ UNCHANGED job

LastFour(s) == SubSeq(s, Len(s) - 3, Len(s))

spi_flash_sfdp_present ==
    /\ EndFrame("sfdp")
    /\ answers' = [answers EXCEPT !.sfdp = LastFour(rx) = Signature]
    /\ pc' = IF PageCount = 0 THEN "done" ELSE "read"
    /\ UNCHANGED job

\* spi_flash_read() fills the front of the buffer.
spi_flash_read ==
    /\ EndFrame("read")
    /\ flash_buffer' = [n \in 1..ChunkSize |->
                          IF n <= ChunkLength THEN rx[n + 4]
                          ELSE flash_buffer[n]]
    /\ length' = 0
    /\ pc' = "crc"
    /\ UNCHANGED <<answers, page, offset, crc>>

\* crc32_update() adds the bytes read, and no more of the buffer.
crc32_update ==
    /\ pc = "crc" /\ length < ChunkLength
    /\ length' = length + 1
    /\ crc' = crc32_soft_update(crc, flash_buffer[length + 1])
    /\ UNCHANGED <<pc, spi, cs, wires, frame, answers, page, offset,
                   flash_buffer>>

crc32_page ==
    /\ pc = "crc" /\ length = ChunkLength
    /\ offset' = offset + ChunkSize
    /\ \/ offset' < PageSize /\ pc' = "read" /\ UNCHANGED crc
       \/ offset' >= PageSize /\ pc' = "print" /\ crc' = Xor(crc, CRC32_XOROUT)
    /\ UNCHANGED <<spi, cs, wires, frame, answers, page, length, flash_buffer>>

\* main() prints the page's CRC and goes on to the next page.
StartPage_CrcKept == offset' = 0 /\ UNCHANGED crc
StartPage == offset' = 0 /\ crc' = CRC32_INIT

PrintPage ==
    /\ pc = "print"
    /\ page' = page + 1
    /\ StartPage
    /\ pc' = IF page' < PageCount THEN "read" ELSE "done"
    /\ UNCHANGED <<spi, cs, wires, frame, answers, length, flash_buffer>>

Next ==
    \/ spi_flash_init
    \/ spi_flash_cs_low
    \/ spi_flash_xfer
    \/ spi_flash_read_id
    \/ spi_flash_read_status1
    \/ spi_flash_sfdp_present
    \/ spi_flash_read
    \/ crc32_update
    \/ crc32_page
    \/ PrintPage

Spec == Init /\ [][Next]_vars
\* One thread of control with no interrupts: it keeps running.
FairSpec == Spec /\ WF_vars(Next)

-----------------------------------------------------------------------------
(* Properties.                                                             *)

TypeOK ==
    /\ pc \in Setup \cup Frames \cup {"crc", "print", "done", "not_detected"}
    /\ cs \in BOOLEAN
    /\ \A n \in DOMAIN rx : rx[n] \in Byte
    /\ ~cs => Len(tx) + Len(rx) <= IF pc = "read" THEN 4 + ChunkSize ELSE 9
    /\ Len(heard) = Len(rx)
    /\ page \in 0..PageCount
    /\ offset \in 0..PageSize - 1 + ChunkSize
    /\ length \in 0..ChunkSize
    /\ crc \subseteq Word
    /\ flash_buffer \in [1..ChunkSize -> Byte]

\* The CRC the file's header defines (main.c:33-37): poly 0x04c11db7 in normal
\* form, init and xorout all ones, input bytes and result reflected.
Polynomial == {0, 1, 2, 4, 5, 7, 8, 10, 11, 12, 16, 22, 23, 26}
ShiftLeft(a) == {b + 1 : b \in a \ {31}}
DivideBit(reg, bit) ==
    UNION {Xor(ShiftLeft(r), IF (31 \in r) # bit THEN Polynomial ELSE {}) :
             r \in {reg}}
DivideTurns(reg, byte) ==
    LET turn[n \in 0..8] ==
            IF n = 0 THEN reg ELSE DivideBit(turn[n - 1], n - 1 \in Bits(byte))
    IN  turn
DivideByte(reg, byte) == DivideTurns(reg, byte)[8]
Remainder(bytes) ==
    LET front[n \in 0..Len(bytes)] ==
            IF n = 0 THEN Word ELSE DivideByte(front[n - 1], bytes[n])
    IN  front
Mirror(a) == {31 - b : b \in a}
ReferenceCrc(bytes) == Word \ Mirror(Remainder(bytes)[Len(bytes)])

\* The job lies within the chip and within what three address bytes reach.
Fits ==
    /\ PageCount * PageSize <= (Radix * Radix) * Radix
    /\ \A im \in Images : PageCount * PageSize <= Len(im)

\* The CRC of every page of every image.
PageBytes(im, p) == [n \in 1..PageSize |-> im[p * PageSize + n]]
PageCrc ==
    [im \in Images |->
        [p \in 0..PageCount - 1 |-> ReferenceCrc(PageBytes(im, p))]]

\* "It then reads FLASH_PAGE_COUNT 4 KiB pages from address zero and prints
\* the CRC-32 of each page": every CRC it is about to print is that of the page
\* it prints.
CrcIsOfPage == pc = "print" /\ model # None => crc = PageCrc[image][page]

\* The program reports a flash exactly when one is fitted, and what it reports
\* is the chip's: no byte of an answer is taken from the command, address or
\* dummy part of a frame.
ReportIsTheChips ==
    /\ pc = "not_detected" => model = None
    /\ pc \in {"read", "crc", "print", "done"} => answers = model

\* The program always ends, whatever level the NSS pin floats at.
Finishes == <>(pc \in {"done", "not_detected"})

=============================================================================
