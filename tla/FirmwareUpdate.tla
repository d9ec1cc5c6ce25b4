--------------------------- MODULE FirmwareUpdate ---------------------------
(***************************************************************************)
(* The update of the firmware through the debug UART: the bootloader       *)
(* (Core/Src/bootloader.c), the protocol it speaks byte by byte            *)
(* (stm32_bootloader_host_protocol.c), the driver that programs the flash  *)
(* (bsp_flash.c) and the way from the running application back into the    *)
(* bootloader (cmd_line_receive of cmd_line.c).                            *)
(*                                                                         *)
(* The bytes on the line are those of the protocol.  The host is external: *)
(* it sends the packets of an update one after the other, each when the    *)
(* one before is acknowledged, and begins again from the synchronisation   *)
(* when it is refused or hears nothing.  The line loses bytes in both      *)
(* directions and the supply fails at any moment, in the middle of an      *)
(* erase or of a double word too.                                          *)
(*                                                                         *)
(* The application is a few double words of flash: the first stands for    *)
(* the vector table and the information block, which bsp_launch_app and    *)
(* _is_current_app_crc_corrupted look at, the last of an image holds the   *)
(* word at crc_data_len.                                                   *)
(***************************************************************************)
EXTENDS Integers, Sequences, FiniteSets

CONSTANTS
  Words,      \* how many double words the application's flash has
  OldImage,   \* the double words of the image with a CRC
  NewImage,   \* the double words of the image the host installs, without one
  EraseLists, \* payloads of an ERASE of the application: pages with their
              \* number, or 0xFF for all
  Broken,     \* a double word whose programming was interrupted
  MaxLost,    \* bound: bytes the line loses
  MaxCuts     \* bound: failures of the supply

SYNC == 127                \* 0x7F
ERASE_ALL == 255           \* 0xFF
APP_ADDR == 134250496      \* FLASH_APP_PAGE_ADDR, 0x08008000
APP_PAGE == 16             \* 0x8000 / BSP_FLASH_SETTINGS_PAGE_SIZE
MaxWords == 108 * 256      \* FLASH_APP_PAGE_COUNT pages, 256 double words each
GET == 0
GET_VERSION == 1
GET_ID == 2
READ_MEMORY == 17
GO == 33
WRITE_MEMORY == 49
ERASE == 67
Supported == {GET, GET_VERSION, GET_ID, READ_MEMORY, GO, WRITE_MEMORY, ERASE}

Byte == 0 .. 255
Cells == 0 .. Words - 1
Erased == [i \in 1..8 |-> 255]

(* An image in the flash, the rest erased. *)
Installed(image) ==
  [c \in Cells |-> IF c < Len(image) THEN image[c + 1] ELSE Erased]

ASSUME FirmwareUpdateAssumption ==
  /\ Words \in 0 .. MaxWords /\ MaxLost \in Nat /\ MaxCuts \in Nat
  /\ EraseLists \subseteq Seq(Byte)
  /\ \A list \in EraseLists :
       \/ list = <<ERASE_ALL, 0>>
       \/ /\ Len(list) >= 4 /\ list[1] # ERASE_ALL /\ Len(list) = list[1] + 3
          /\ \E i \in 2 .. Len(list) - 1 : list[i] \in {APP_PAGE, ERASE_ALL}
  /\ \A image \in {OldImage, NewImage} :
       /\ image \in Seq([1..8 -> Byte])
       /\ Len(image) \in 2 .. Words
  /\ NewImage[1][5] \div 8 = Len(NewImage) - 1

VARIABLES
  running,        \* "app", "bootloader", or "off": a reset or no supply
  mailbox,        \* register 0 holds the command to stay in the bootloader
  flash,          \* Cells -> double words
  previous_byte,  \* of cmd_line_receive, in the application
  context,        \* of the protocol, in the bootloader; the buffer holds the
                  \* received bytes, those behind them are never read
  line,           \* bytes on their way to the device
  replies,        \* "ack", "nack" on their way to the host
  erase_list,     \* the payload of this host's ERASE
  step,           \* the packet of Script the host is at
  waiting,        \* acknowledgements the host waits for
  misheard,       \* history: the device acknowledged a synchronisation or a
                  \* command it heard in a packet that is neither
  lost, cuts

device == <<running, mailbox, flash, previous_byte, context>>
host == <<erase_list, step, waiting>>
vars == <<device, line, replies, host, misheard, lost, cuts>>

-----------------------------------------------------------------------------
(***************************************************************************)
(* The flash.  An operation is what it leaves and the states the supply    *)
(* may fail in.                                                            *)
(***************************************************************************)
(* HAL_FLASHEx_Erase goes from the first page to the last; a version that  *)
(* goes the other way (a mistake, ErasedUpTo_Backwards).                   *)
ErasedUpTo_Backwards(k) ==
  [c \in Cells |-> IF c >= Words - k THEN Erased ELSE flash[c]]
ErasedUpTo(k) == [c \in Cells |-> IF c < k THEN Erased ELSE flash[c]]

EraseApp == [final |-> ErasedUpTo(Words),
             partial |-> {ErasedUpTo(k) : k \in 0 .. Words}]

(* HAL_FLASH_Program refuses a double word that is not erased, and nobody  *)
(* looks at its result.  A rest of less than eight bytes is filled with    *)
(* what the flash holds.                                                   *)
Programmed(cell, bytes) ==
  IF flash[cell] # Erased THEN flash[cell]
  ELSE [i \in 1..8 |-> IF i <= Len(bytes) THEN bytes[i] ELSE flash[cell][i]]

FlashWrite(offset, data) ==
  LET first == offset \div 8
      count == (Len(data) + 7) \div 8
      Chunk(c) == SubSeq(data, 8 * (c - first) + 1, Len(data))
      Written(k) == [c \in Cells |-> IF c \in first .. first + k - 1
                                     THEN Programmed(c, Chunk(c)) ELSE flash[c]]
      Torn(k) == [Written(k) EXCEPT ![first + k] =
                    IF @ = Erased THEN Broken ELSE @]
  IN  [final |-> Written(count),
       partial |-> {Written(k) : k \in 0 .. count}
                     \cup {Torn(k) : k \in 0 .. count - 1}]

NoFlash == [final |-> flash, partial |-> {flash}]

(* _write_mem: outside the application, or not aligned, nothing happens. *)
WriteMem(addr, data) ==
  IF \/ addr < APP_ADDR
     \/ addr + Len(data) > APP_ADDR + 8 * Words
     \/ (addr - APP_ADDR) % 8 # 0
  THEN NoFlash ELSE FlashWrite(addr - APP_ADDR, data)

(* _erase_page: only the first page of the application, or all; a version  *)
(* that knows no page (a mistake, ErasesApp_AllOnly).                      *)
ErasesApp_AllOnly(page) == page = ERASE_ALL
ErasesApp(page) == page \in {APP_PAGE, ERASE_ALL}

ErasePages(pages) == IF \E p \in pages : ErasesApp(p) THEN EraseApp ELSE NoFlash

-----------------------------------------------------------------------------
(***************************************************************************)
(* The protocol.  byte_handle gives the context, the answers, what it does *)
(* to the flash, and whether it resets the device.                         *)
(***************************************************************************)

(* The exclusive or: a bit is set when it is set in an odd number of bytes.*)
Odd(bytes, bit) ==
  Cardinality({i \in 1 .. Len(bytes) : (bytes[i] \div 2^bit) % 2 = 1}) % 2
Checksum(bytes) ==
  Odd(bytes, 0) + 2 * Odd(bytes, 1) + 4 * Odd(bytes, 2) + 8 * Odd(bytes, 3)
    + 16 * Odd(bytes, 4) + 32 * Odd(bytes, 5) + 64 * Odd(bytes, 6)
    + 128 * Odd(bytes, 7)
CommandValid(bytes) == bytes[1] + bytes[2] = 255
DataValid(bytes) == Checksum(bytes) = 0
Address(bytes) ==
  ((bytes[1] * 256 + bytes[2]) * 256 + bytes[3]) * 256 + bytes[4]

(* _reset_rx_context; without the reset of received: Cleared_StateOnly.    *)
Cleared_StateOnly(c) == [c EXCEPT !.state = "wait"]
Cleared(c) == [c EXCEPT !.state = "wait", !.buffer = <<>>]

Outcome(c, answers, operation, reset) ==
  [context |-> c, answers |-> answers, operation |-> operation, reset |-> reset]
Wait(c) == Outcome(c, <<>>, NoFlash, FALSE)
Answer(c, answers) == Outcome(c, answers, NoFlash, FALSE)
Nack(c) == Answer(Cleared(c), <<"nack">>)

CommandCheck(c) ==
  LET cmd == c.buffer[1]
      d == [Cleared(c) EXCEPT !.command = cmd]
  IN  CASE c.buffer = <<SYNC>> -> Answer(Cleared(c), <<"ack">>)
        [] c.buffer # <<SYNC>> /\ Len(c.buffer) < 2 -> Wait(c)
        [] Len(c.buffer) >= 2 /\ ~CommandValid(c.buffer) -> Nack(c)
        [] OTHER ->
             IF cmd \notin Supported THEN Answer(d, <<"nack">>)
             ELSE IF cmd \in {GET, GET_VERSION, GET_ID}
             THEN Answer(d, <<"ack", "ack">>)
             ELSE Answer([d EXCEPT !.state = "process"], <<"ack">>)

(* The address of READ and WRITE. *)
AddressCheck(c) == IF DataValid(c.buffer) THEN Answer(c, <<"ack">>) ELSE Nack(c)

Behind(c, from) == SubSeq(c.buffer, from, Len(c.buffer))

ProcessRead(c) ==
  LET n == Len(c.buffer)
  IN  CASE n = 5 -> AddressCheck(c)
        [] n = 7 -> IF CommandValid(Behind(c, 6))
                    THEN Answer(Cleared(c), <<"ack">>) ELSE Nack(c)
        [] OTHER -> Wait(c)

ProcessWrite(c) ==
  LET n == Len(c.buffer)
      operation == WriteMem(Address(c.buffer), SubSeq(c.buffer, 7, n - 1))
  IN  CASE n = 5 -> AddressCheck(c)
        [] n >= 6 /\ n = c.buffer[6] + 8 ->
             IF DataValid(Behind(c, 6))
             THEN Outcome(Cleared(c), <<"ack">>, operation, FALSE) ELSE Nack(c)
        [] OTHER -> Wait(c)

ProcessErase(c) ==
  LET n == Len(c.buffer)
      Erasing(pages) == Outcome(Cleared(c), <<"ack">>, ErasePages(pages), FALSE)
  IN  CASE n = 2 /\ c.buffer[1] = ERASE_ALL -> Erasing({ERASE_ALL})
        [] n = c.buffer[1] + 3 ->
             IF DataValid(c.buffer)
             THEN Erasing({c.buffer[i] : i \in 2 .. n - 1}) ELSE Nack(c)
        [] OTHER -> Wait(c)

ProcessGo(c) ==
  IF Len(c.buffer) # 5 THEN Wait(c)
  ELSE IF DataValid(c.buffer)
  THEN Outcome(Cleared(c), <<"ack">>, NoFlash, TRUE) ELSE Nack(c)

Process(c) ==
  CASE c.command = READ_MEMORY -> ProcessRead(c)
    [] c.command = WRITE_MEMORY -> ProcessWrite(c)
    [] c.command = ERASE -> ProcessErase(c)
    [] c.command = GO -> ProcessGo(c)

byte_handle(byte) ==
  LET c == [context EXCEPT !.buffer = Append(@, byte)]
  IN  IF c.state = "wait" THEN CommandCheck(c) ELSE Process(c)

-----------------------------------------------------------------------------
(***************************************************************************)
(* The host's packets.                                                     *)
(***************************************************************************)
Packet(bytes, acks) == [bytes |-> bytes, acks |-> acks]
Command(cmd) == Packet(<<cmd, 255 - cmd>>, IF cmd = GET THEN 2 ELSE 1)
Checked(bytes) == Packet(Append(bytes, Checksum(bytes)), 1)
AddressBytes(low) == <<8, low \div 65536, (low \div 256) % 256, low % 256>>
At(offset) == Checked(AddressBytes((APP_ADDR % 16777216) + offset))

(* The k-th packet of the writes, three to a double word. *)
Write(k) ==
  LET word == k \div 3
  IN  CASE k % 3 = 0 -> Command(WRITE_MEMORY)
        [] k % 3 = 1 -> At(8 * word)
        [] k % 3 = 2 -> Checked(<<7>> \o NewImage[word + 1])

BeforeErase ==
  <<Packet(<<SYNC>>, 1), Command(GET),
    Command(READ_MEMORY), At(0), Packet(<<7, 248>>, 1), Command(ERASE)>>
AfterErase ==
  [i \in 1 .. 3 * Len(NewImage) |-> Write(i - 1)] \o <<Command(GO), At(0)>>

ErasePayload == Len(BeforeErase) + 1
LastPacket == ErasePayload + Len(AfterErase)
Script(i) ==
  IF i < ErasePayload THEN BeforeErase[i]
  ELSE IF i = ErasePayload THEN Packet(erase_list, 1)
  ELSE AfterErase[i - ErasePayload]

Done == step > LastPacket

(* The packet that opens the exchange the i-th packet belongs to: the      *)
(* synchronisation, or a command.                                          *)
CommandOf(i) ==
  CASE i < 3 -> i
    [] i \in 3 .. 5 -> 3
    [] i \in 6 .. ErasePayload -> 6
    [] i > ErasePayload -> i - ((i - ErasePayload - 1) % 3)
Commanding == CommandOf(step) = step

-----------------------------------------------------------------------------
(***************************************************************************)
(* The start of the bootloader.                                            *)
(***************************************************************************)
NO_CRC == <<120, 86, 52, 18>>      \* 0x12345678
SIGNATURE == <<0, 161, 192, 16>>   \* 0x10C0A100
CrcCell == flash[0][5] \div 8      \* crc_data_len

(* _is_current_app_crc_corrupted: a CRC is right for the image it was      *)
(* computed for and for no other.  Without a look at the CRC where there   *)
(* is none in the flash yet: Corrupted_Erased.                             *)
Corrupted_Erased ==
  \/ flash[0] = Broken
  \/ SubSeq(flash[0], 1, 4) # SIGNATURE
  \/ /\ flash[CrcCell] \notin {Broken, Erased}
     /\ SubSeq(flash[CrcCell], 1, 4) # NO_CRC
     /\ flash # Installed(OldImage)
Corrupted ==
  \/ flash[0] = Broken
  \/ SubSeq(flash[0], 1, 4) # SIGNATURE
  \/ /\ \/ flash[CrcCell] = Broken
        \/ SubSeq(flash[CrcCell], 1, 4) # NO_CRC
     /\ flash # Installed(OldImage)

Boot ==
  /\ running = "off"
  /\ running' = IF ~mailbox /\ ~Corrupted THEN "app" ELSE "bootloader"
  /\ mailbox' = FALSE
  /\ previous_byte' = 0
  /\ context' = [state |-> "wait", command |-> 0, buffer |-> <<>>]
  /\ UNCHANGED <<flash, line, replies, host, misheard, lost, cuts>>

(* Bytes that arrive while nothing runs. *)
Unheard ==
  /\ running = "off" /\ line # <<>>
  /\ line' = <<>>
  /\ UNCHANGED <<device, replies, host, misheard, lost, cuts>>

BootloaderReceive ==
  /\ running = "bootloader" /\ line # <<>>
  /\ LET o == byte_handle(Head(line))
     IN  /\ context' = o.context
         /\ replies' = replies \o o.answers
         /\ flash' = o.operation.final
         /\ running' = IF o.reset THEN "off" ELSE running
         /\ misheard' = (misheard \/ (/\ context.state = "wait" /\ ~Commanding
                                      /\ o.answers # <<>> /\ Head(o.answers) = "ack"))
  /\ line' = Tail(line)
  /\ UNCHANGED <<mailbox, previous_byte, host, lost, cuts>>

(* cmd_line_receive: two bytes of synchronisation in a row are answered,   *)
(* and the device resets with the command for the bootloader; a version    *)
(* that listens to neither (a mistake, Enters_Never).                      *)
Enters_Never(byte) == FALSE
Enters(byte) == byte = SYNC /\ previous_byte = SYNC

AppReceive ==
  /\ running = "app" /\ line # <<>>
  /\ line' = Tail(line)
  /\ IF Enters(Head(line))
     THEN /\ replies' = Append(replies, "ack")
          /\ misheard' = (misheard \/ ~Commanding)
          /\ mailbox' = TRUE
          /\ running' = "off"
          /\ UNCHANGED previous_byte
     ELSE /\ previous_byte' = Head(line)
          /\ UNCHANGED <<replies, misheard, mailbox, running>>
  /\ UNCHANGED <<flash, context, host, lost, cuts>>

-----------------------------------------------------------------------------
(***************************************************************************)
(* Faults.                                                                 *)
(***************************************************************************)
LoseByte ==
  /\ lost < MaxLost
  /\ lost' = lost + 1
  /\ \/ line # <<>> /\ line' = Tail(line) /\ UNCHANGED replies
     \/ replies # <<>> /\ replies' = Tail(replies)
        /\ UNCHANGED line
  /\ UNCHANGED <<device, host, misheard, cuts>>

(* The supply fails, between two bytes or while one is handled. *)
PowerCut ==
  /\ cuts < MaxCuts
  /\ cuts' = cuts + 1
  /\ running' = "off"
  /\ mailbox' \in {mailbox, FALSE}
  /\ \/ UNCHANGED <<flash, line>>
     \/ /\ running = "bootloader" /\ line # <<>>
        /\ flash' \in byte_handle(Head(line)).operation.partial
        /\ line' = Tail(line)
  /\ UNCHANGED <<previous_byte, context, replies, host, misheard, lost>>

-----------------------------------------------------------------------------
(***************************************************************************)
(* The host.                                                               *)
(***************************************************************************)
Heard == IF replies = <<>> THEN "nothing" ELSE Head(replies)

Send ==
  /\ ~Done /\ waiting = 0
  /\ line' = line \o Script(step).bytes
  /\ waiting' = Script(step).acks
  /\ UNCHANGED <<device, erase_list, replies, step, misheard, lost, cuts>>

Acknowledged ==
  /\ waiting > 0
  /\ Heard = "ack"
  /\ replies' = Tail(replies)
  /\ waiting' = waiting - 1
  /\ step' = IF waiting = 1 THEN step + 1 ELSE step
  /\ UNCHANGED <<device, erase_list, line, misheard, lost, cuts>>

(* Refused, or nothing heard for longer than anything takes. *)
StartAgain ==
  /\ waiting > 0
  /\ line = <<>>
  /\ Heard \in {"nack", "nothing"}
  /\ replies' = <<>>
  /\ step' = 1 /\ waiting' = 0
  /\ UNCHANGED <<device, erase_list, line, misheard, lost, cuts>>

(* The next update of the same device. *)
UpdateAgain ==
  /\ Done
  /\ step' = 1
  /\ replies' = <<>>
  /\ UNCHANGED <<device, erase_list, line, waiting, misheard, lost, cuts>>

-----------------------------------------------------------------------------
Init ==
  /\ running = "off" /\ mailbox = FALSE
  /\ flash = Installed(OldImage)
  /\ previous_byte = 0
  /\ context = [state |-> "wait", command |-> 0, buffer |-> <<>>]
  /\ line = <<>> /\ replies = <<>>
  /\ erase_list \in EraseLists
  /\ step = 1 /\ waiting = 0 /\ misheard = FALSE
  /\ lost = 0 /\ cuts = 0

Device == Unheard \/ BootloaderReceive \/ AppReceive
Host == Send \/ Acknowledged \/ StartAgain
Next == Boot \/ Device \/ Host \/ UpdateAgain \/ LoseByte \/ PowerCut

Spec == Init /\ [][Next]_vars
FairSpec == Spec /\ WF_vars(Boot) /\ WF_vars(Device) /\ WF_vars(Host)

-----------------------------------------------------------------------------
Contents == [Cells -> [1..8 -> Byte] \cup {Broken}]
Contexts == [state : {"wait", "process"}, command : Byte, buffer : Seq(Byte)]
Replies == {"ack", "nack"}

(* Every variable holds what it is declared to hold.                       *)
TypeOK ==
  /\ running \in {"app", "bootloader", "off"}
  /\ mailbox \in BOOLEAN
  /\ flash \in Contents /\ previous_byte \in Byte
  /\ context \in Contexts
  /\ line \in Seq(Byte) /\ replies \in Seq(Replies)
  /\ erase_list \in EraseLists
  /\ step \in 1 .. LastPacket + 1 /\ waiting \in 0 .. 2
  /\ misheard \in BOOLEAN
  /\ lost \in 0 .. MaxLost /\ cuts \in 0 .. MaxCuts

(* How many bytes the buffer holds between two calls of byte_handle.  The  *)
(* protocol waits for exact lengths: a context that went past one of them  *)
(* would take bytes for ever.                                              *)
Within(c) ==
  LET n == Len(c.buffer)
  IN  /\ c.state = "wait" => n <= 1
      /\ c.state = "process" =>
           \/ c.command = READ_MEMORY /\ n <= 6
           \/ c.command = WRITE_MEMORY /\ (n <= 5 \/ n < c.buffer[6] + 8)
           \/ c.command = ERASE /\ (n = 0 \/ n < c.buffer[1] + 3)
           \/ c.command = GO /\ n <= 4

(* The host waits for acknowledgements of packets of its script only. *)
HostInv == waiting > 0 => ~Done

(* The inductive invariant: types, what the protocol has received of a     *)
(* packet, and where the host is.                                          *)
IInv == TypeOK /\ Within(context) /\ HostInv

(***************************************************************************)
(* Where the host and the device stand while every byte has arrived and    *)
(* the device took none for a command that was not one.                    *)
(***************************************************************************)
(* Behind the i-th packet the command it belongs to still goes on. *)
GoesOn(i) == i < LastPacket /\ CommandOf(i + 1) <= i

(* What the protocol has received behind the command, up to packet i. *)
Flow(i) ==
  CASE i = CommandOf(i) -> <<>>
    [] i = CommandOf(i) + 1 -> Script(i).bytes
    [] i = CommandOf(i) + 2 -> Script(i - 1).bytes \o Script(i).bytes

InProcess == running = "bootloader" /\ context.state = "process"
InFlow(i) == context.command = Script(CommandOf(i)).bytes[1]

(* The device has done what the packets up to the i-th ask for; it may     *)
(* have been started anew since.                                           *)
Reached(i) ==
  /\ i >= ErasePayload =>
       flash = Installed(SubSeq(NewImage, 1, (i - ErasePayload) \div 3))
  /\ InProcess => GoesOn(i) /\ InFlow(i) /\ context.buffer = Flow(i)
  /\ running = "bootloader" /\ context.state = "wait" /\ i > 0
       => context.buffer = <<>>

Idle == waiting = 0 /\ line = <<>> /\ replies = <<>> /\ Reached(step - 1)

Answered ==
  /\ waiting > 0 /\ line = <<>>
  /\ replies = [k \in 1 .. waiting |-> "ack"]
  /\ Reached(step)

(* The device is on the packet of the host, and has not heard all of it.   *)
Hearing ==
  /\ waiting > 0 /\ waiting = Script(step).acks
  /\ line # <<>> /\ Len(line) <= Len(Script(step).bytes) /\ replies = <<>>
  /\ step > ErasePayload =>
       flash = Installed(SubSeq(NewImage, 1, (step - 1 - ErasePayload) \div 3))
  /\ \/ InProcess /\ ~Commanding /\ InFlow(step) /\ context.buffer \o line = Flow(step)
     \/ ~InProcess /\ step = 1 /\ line = <<SYNC>>
     \/ /\ Commanding /\ ~InProcess /\ step > 1
        /\ Script(step).bytes =
             IF running = "bootloader" THEN context.buffer \o line ELSE line

(* The device is not: the host has no answer to wait for but a refusal.    *)
Silent ==
  /\ waiting > 0 /\ ~InProcess
  /\ \A k \in 1 .. Len(replies) : replies[k] = "nack"
  /\ step = 1 => line = <<>>
  /\ Commanding /\ step > 1 =>
       /\ SYNC \notin {line[k] : k \in 1 .. Len(line)}
       /\ Len(line) <= IF running = "bootloader" THEN 1 - Len(context.buffer) ELSE 1

(* All of an image is in the flash. *)
Whole == flash \in {Installed(OldImage), Installed(NewImage)}

(* The host and the device agree on the packet, or the device refuses it;  *)
(* and what is in the flash is not started or is all of an image.          *)
TrackInv ==
  lost = 0 /\ ~misheard =>
    /\ Idle \/ Answered \/ Hearing \/ Silent
    /\ Corrupted \/ Whole
    /\ running = "app" => Whole

UpdateInv == IInv /\ TrackInv

(* No command fills the buffer: the guard of byte_handle that starts it    *)
(* anew at 288 bytes never acts.                                           *)
BufferNeverFull == Len(context.buffer) < 288

(* A double word that is programmed, or whose programming was interrupted, *)
(* is lost only to an erase, and that has taken the first double word, the *)
(* information block, before: no write and no failure of the supply leaves *)
(* a block that calls itself valid before words of another image.          *)
Follows(content) ==
  \A c \in Cells : content[c] # flash[c] =>
    flash[c] = Erased \/ (content[c] = Erased /\ content[0] = Erased)
EraseFromFront == [][Follows(flash')]_vars

(* When the host has every acknowledgement, the image it sent is in the    *)
(* flash, although the bootloader acknowledges writes that it refused, and *)
(* whatever the line lost and wherever the supply failed.  The protocol    *)
(* leaves one way out: a bootloader that restarts in the middle of a packet*)
(* and hears in the rest of it 0x7F, or two bytes of a command, answers    *)
(* them.                                                                   *)
TruthfulEnd == Done /\ ~misheard => flash = Installed(NewImage)

(* An application is started only when all of it is there, although the    *)
(* image of a build without a CRC is started without one being computed:   *)
(* an erase takes its information block first, and the word that says that *)
(* there is no CRC is the last that is written.                            *)
NoPartialLaunch == running = "app" /\ ~misheard => Whole

(* An update that is interrupted can always be brought to its end: no loss *)
(* leaves the protocol waiting for ever, and no failure leaves a device    *)
(* that cannot be reached.                                                 *)
UpdateCompletes == []<>Done
=============================================================================
