------------------------ MODULE FirmwareUpdateProofs ------------------------
(***************************************************************************)
(* That the types of FirmwareUpdate hold, that no command fills the buffer *)
(* of the protocol, and that what is in the flash is lost only to an erase *)
(* that took the information block before: whatever bytes reach the        *)
(* bootloader, whatever the line loses and wherever the supply fails.      *)
(*                                                                         *)
(* Then that a host which has every acknowledgement has its image in the   *)
(* flash, and that no part of an image is started, for every image and     *)
(* wherever the supply fails, while the line loses nothing.                *)
(***************************************************************************)
EXTENDS FirmwareUpdate, FiniteSetTheorems, SequenceTheorems, TLAPS

-----------------------------------------------------------------------------
(* What is on the line are bytes.                                          *)

(* A function on 1 .. n is a sequence.                                   *)
LEMMA FunctionIsSeq ==
  ASSUME NEW n \in Nat, NEW S, NEW f \in [1 .. n -> S]
  PROVE  f \in Seq(S) /\ Len(f) = n
OBVIOUS

(* One bit of the checksum is 0 or 1.                                    *)
LEMMA OddType ==
  ASSUME NEW s \in Seq(Byte), NEW bit
  PROVE  Odd(s, bit) \in {0, 1}
<1> DEFINE set == {i \in 1 .. Len(s) : (s[i] \div 2^bit) % 2 = 1}
<1>1. IsFiniteSet(1 .. Len(s))
  BY FS_Interval
<1>2. set \subseteq 1 .. Len(s)
  OBVIOUS
<1>3. IsFiniteSet(set)
  BY <1>1, <1>2, FS_Subset
<1>4. Cardinality(set) \in Nat
  BY <1>3, FS_CardinalityType
<1> HIDE DEF set
<1>5. Cardinality(set) % 2 \in {0, 1}
  BY <1>4
<1>6. QED
  BY <1>5 DEF Odd, set

(* The checksum is a byte.                                               *)
LEMMA ChecksumType ==
  ASSUME NEW s \in Seq(Byte)
  PROVE  Checksum(s) \in Byte
<1>1. \A bit : Odd(s, bit) \in Nat /\ Odd(s, bit) <= 1
  BY OddType
<1>2. ASSUME NEW a \in Nat, NEW b \in Nat, NEW c \in Nat, NEW d \in Nat, NEW e \in Nat,
             NEW f \in Nat, NEW g \in Nat, NEW h \in Nat,
             a <= 1, b <= 1, c <= 1, d <= 1, e <= 1, f <= 1, g <= 1, h <= 1
      PROVE  a + 2 * b + 4 * c + 8 * d + 16 * e + 32 * f + 64 * g + 128 * h \in 0 .. 255
  BY <1>2
<1>3. Checksum(s) \in 0 .. 255
  <2>1. PICK a, b, c, d, e, f, g, h :
             /\ a = Odd(s, 0) /\ b = Odd(s, 1) /\ c = Odd(s, 2) /\ d = Odd(s, 3)
             /\ e = Odd(s, 4) /\ f = Odd(s, 5) /\ g = Odd(s, 6) /\ h = Odd(s, 7)
    OBVIOUS
  <2>2. Checksum(s) = a + 2 * b + 4 * c + 8 * d + 16 * e + 32 * f + 64 * g + 128 * h
    BY <2>1 DEF Checksum
  <2>3. /\ a \in Nat /\ a <= 1 /\ b \in Nat /\ b <= 1
        /\ c \in Nat /\ c <= 1 /\ d \in Nat /\ d <= 1
        /\ e \in Nat /\ e <= 1 /\ f \in Nat /\ f <= 1
        /\ g \in Nat /\ g <= 1 /\ h \in Nat /\ h <= 1
    BY <1>1, <2>1
  <2>4. QED
    BY ONLY <1>2, <2>2, <2>3
<1>4. QED
  BY <1>3 DEF Byte

Packets == [bytes : Seq(Byte), acks : 1 .. 2]

(* A packet with its checksum is made of bytes.                          *)
LEMMA CheckedPacket ==
  ASSUME NEW s \in Seq(Byte)
  PROVE  Checked(s) \in Packets
BY ChecksumType DEF Checked, Packet, Packets

(* How many double words the application has at most.                    *)
LEMMA MaxWordsType == MaxWords \in Nat
BY SMT DEF MaxWords

(* An address in the flash of the application has four bytes.            *)
LEMMA AddressPacket ==
  ASSUME NEW offset \in Nat, offset <= 8 * MaxWords
  PROVE  At(offset) \in Packets
<1>1. APP_ADDR % 16777216 = 32768 /\ offset <= 221184
  BY SMT DEF APP_ADDR, MaxWords
<1>2. PICK low \in Nat : low = (APP_ADDR % 16777216) + offset /\ low <= 253952
  BY <1>1, SMT
<1>3. /\ 8 \in Byte /\ low \div 65536 \in Byte
      /\ (low \div 256) % 256 \in Byte /\ low % 256 \in Byte
  <2>1. low \div 65536 \in Nat /\ low \div 65536 < 256
    BY <1>2, SMT
  <2>2. low \div 256 \in Nat
    BY <1>2, SMT
  <2>3. QED
    BY <2>1, <2>2, SMT DEF Byte
<1>4. AddressBytes(low) \in Seq(Byte)
  BY <1>3, SMT DEF AddressBytes
<1>5. Checked(AddressBytes(low)) \in Packets
  BY <1>4, CheckedPacket
<1>6. QED
  BY <1>2, <1>5, SMT DEF At

(* A command and its complement.                                         *)
LEMMA CommandPacket ==
  ASSUME NEW cmd \in Byte
  PROVE  Command(cmd) \in Packets
BY DEF Command, Packet, Packets, Byte

(* The packets that write the image.                                     *)
LEMMA WritePacket ==
  ASSUME NEW k \in 0 .. 3 * Len(NewImage) - 1
  PROVE  Write(k) \in Packets
<1> DEFINE word == k \div 3
<1>1. Len(NewImage) \in 2 .. Words /\ Words \in 0 .. MaxWords
      /\ NewImage \in Seq([1..8 -> Byte])
  BY FirmwareUpdateAssumption
<1>2. word \in 0 .. Len(NewImage) - 1 /\ k % 3 \in {0, 1, 2}
  <2>1. Len(NewImage) \in Nat /\ k \in Nat /\ k < 3 * Len(NewImage)
    BY <1>1
  <2>2. QED
    BY <2>1
<1> HIDE DEF word
<1>3. 8 * word \in Nat /\ 8 * word <= 8 * MaxWords
  BY <1>1, <1>2, MaxWordsType
<1>4. At(8 * word) \in Packets
  BY <1>3, AddressPacket
<1>5. Command(WRITE_MEMORY) \in Packets
  BY CommandPacket DEF WRITE_MEMORY, Byte
<1>6. Checked(<<7>> \o NewImage[word + 1]) \in Packets
  <2>1. NewImage[word + 1] \in [1..8 -> Byte]
    BY <1>1, <1>2
  <2>2. NewImage[word + 1] \in Seq(Byte)
    BY <2>1, FunctionIsSeq
  <2>3. <<7>> \o NewImage[word + 1] \in Seq(Byte)
    BY <2>2 DEF Byte
  <2>4. QED
    BY <2>3, CheckedPacket
<1>7. QED
  BY <1>2, <1>4, <1>5, <1>6 DEF Write, word

(* Every packet of the host is made of bytes.                            *)
LEMMA ScriptPacket ==
  ASSUME erase_list \in EraseLists, NEW i \in 1 .. LastPacket
  PROVE  Script(i) \in Packets
<1>1. /\ Len(NewImage) \in Nat /\ Len(NewImage) >= 2
      /\ EraseLists \subseteq Seq(Byte)
  BY FirmwareUpdateAssumption
<1> DEFINE n == Len(NewImage)
           writes == [j \in 1 .. 3 * n |-> Write(j - 1)]
           end == <<Command(GO), At(0)>>
<1>2. writes \in Seq(Packets) /\ Len(writes) = 3 * n
  <2>1. \A j \in 1 .. 3 * n : Write(j - 1) \in Packets
    <3>1. SUFFICES ASSUME NEW j \in 1 .. 3 * n PROVE Write(j - 1) \in Packets
      OBVIOUS
    <3>2. j - 1 \in 0 .. 3 * n - 1
      BY <1>1
    <3>3. QED
      BY <3>2, WritePacket
  <2>2. 3 * n \in Nat
    BY <1>1
  <2>3. QED
    BY <2>1, <2>2
<1>3. At(0) \in Packets
  <2>1. 0 \in Nat /\ 0 <= 8 * MaxWords
    BY MaxWordsType
  <2>2. QED
    BY <2>1, AddressPacket
<1>4. end \in Seq(Packets) /\ Len(end) = 2
  BY <1>3, CommandPacket DEF GO, Byte
<1>5. AfterErase \in Seq(Packets) /\ Len(AfterErase) = 3 * n + 2
  <2>1. AfterErase = writes \o end
    BY DEF AfterErase
  <2> HIDE DEF n, writes, end
  <2>2. AfterErase \in Seq(Packets) /\ Len(AfterErase) = Len(writes) + Len(end)
    BY ONLY <1>2, <1>4, <2>1, ConcatProperties
  <2>3. QED
    BY <1>2, <1>4, <2>2
<1>6. BeforeErase \in Seq(Packets) /\ Len(BeforeErase) = 6
  <2>1. /\ Packet(<<SYNC>>, 1) \in Packets
        /\ Packet(<<7, 248>>, 1) \in Packets
    BY DEF Packet, Packets, SYNC, Byte
  <2>2. /\ Command(GET) \in Packets
        /\ Command(READ_MEMORY) \in Packets
        /\ Command(ERASE) \in Packets
    BY CommandPacket DEF GET, READ_MEMORY, ERASE, Byte
  <2>3. QED
    BY <1>3, <2>1, <2>2 DEF BeforeErase
<1>7. ErasePayload = 7 /\ LastPacket = 3 * n + 9
  BY <1>1, <1>5, <1>6 DEF ErasePayload, LastPacket
<1>8. CASE i < 7
  <2>1. i \in 1 .. Len(BeforeErase)
    BY <1>1, <1>6, <1>7, <1>8
  <2>2. BeforeErase[i] \in Packets
    BY ONLY <1>6, <2>1, ElementOfSeq
  <2>3. Script(i) = BeforeErase[i]
    BY <1>7, <1>8 DEF Script
  <2>4. QED
    BY <2>2, <2>3
<1>9. CASE i = 7
  BY <1>1, <1>7, <1>9 DEF Script, Packet, Packets
<1>10. CASE i > 7
  <2>1. i - 7 \in 1 .. Len(AfterErase)
    BY <1>1, <1>5, <1>7, <1>10
  <2>2. QED
    BY <1>5, <1>7, <1>10, <2>1 DEF Script
<1>11. QED
  BY <1>7, <1>8, <1>9, <1>10

(* The host's script ends somewhere.                                     *)
LEMMA LastPacketType == LastPacket \in Nat /\ LastPacket >= 7
<1>1. Len(NewImage) \in Nat
  BY FirmwareUpdateAssumption
<1>2. Len(AfterErase) \in Nat
  <2>1. AfterErase = [j \in 1 .. 3 * Len(NewImage) |-> Write(j - 1)] \o <<Command(GO), At(0)>>
    BY DEF AfterErase
  <2>2. QED
    BY <1>1, <2>1
<1>3. Len(BeforeErase) = 6
  BY DEF BeforeErase
<1>4. QED
  BY <1>2, <1>3 DEF LastPacket, ErasePayload

-----------------------------------------------------------------------------
(* What is in the flash are double words, or such as were interrupted.     *)
Kept(content) == content \in Contents /\ Follows(content)
Safe(operation) ==
  Kept(operation.final) /\ \A content \in operation.partial : Kept(content)

(* An image fills the flash with double words.                           *)
LEMMA InstalledType ==
  ASSUME NEW image \in {OldImage, NewImage}
  PROVE  Installed(image) \in Contents
<1>1. image \in Seq([1..8 -> Byte])
  BY FirmwareUpdateAssumption
<1>2. Erased \in [1..8 -> Byte]
  BY DEF Erased, Byte
<1>3. ASSUME NEW c \in Cells, c < Len(image) PROVE image[c + 1] \in [1..8 -> Byte]
  <2>1. c + 1 \in 1 .. Len(image)
    BY <1>1, <1>3, FirmwareUpdateAssumption DEF Cells
  <2>2. QED
    BY ONLY <1>1, <2>1, ElementOfSeq
<1>4. QED
  BY <1>2, <1>3 DEF Installed, Contents

(* Nothing to do is safe.                                                *)
LEMMA NoFlashSafe ==
  ASSUME flash \in Contents
  PROVE  Safe(NoFlash)
BY DEF NoFlash, Safe, Kept, Follows

(* An erase, however far it went.                                        *)
LEMMA EraseSafe ==
  ASSUME flash \in Contents
  PROVE  Safe(EraseApp)
<1>1. Words \in Nat /\ Words >= 2
  BY FirmwareUpdateAssumption
<1>2. Erased \in [1..8 -> Byte]
  BY DEF Erased, Byte
<1>3. ASSUME NEW k \in 0 .. Words PROVE Kept(ErasedUpTo(k))
  <2>1. ErasedUpTo(k) \in Contents
    BY <1>2 DEF ErasedUpTo, Contents
  <2>2. ASSUME NEW c \in Cells, ErasedUpTo(k)[c] # flash[c]
        PROVE  ErasedUpTo(k)[c] = Erased /\ ErasedUpTo(k)[0] = Erased
    <3>1. c < k /\ c >= 0 /\ 0 \in Cells
      BY <1>1, <2>2 DEF ErasedUpTo, Cells
    <3>2. 0 < k
      BY <1>1, <3>1 DEF Cells
    <3>3. QED
      BY <3>1, <3>2 DEF ErasedUpTo
  <2>3. QED
    BY <2>1, <2>2 DEF Kept, Follows
<1>4. Words \in 0 .. Words
  BY <1>1
<1>5. QED
  BY <1>3, <1>4 DEF EraseApp, Safe

(* A double word that is programmed.                                     *)
LEMMA ProgrammedType ==
  ASSUME flash \in Contents, NEW cell \in Cells, NEW bytes \in Seq(Byte)
  PROVE  Programmed(cell, bytes) \in [1..8 -> Byte] \cup {Broken}
<1>1. CASE flash[cell] # Erased
  BY <1>1 DEF Programmed, Contents
<1>2. CASE flash[cell] = Erased
  <2>1. \A i \in 1..8 : flash[cell][i] \in Byte
    BY <1>2 DEF Erased, Byte
  <2>2. ASSUME NEW i \in 1..8, i <= Len(bytes) PROVE bytes[i] \in Byte
    <3>1. i \in 1 .. Len(bytes)
      BY <2>2
    <3>2. QED
      BY ONLY <3>1, ElementOfSeq, bytes \in Seq(Byte)
  <2>3. QED
    BY <1>2, <2>1, <2>2 DEF Programmed
<1>3. QED
  BY <1>1, <1>2

(* A write, whatever it was told to write and wherever it stopped.       *)
LEMMA WriteSafe ==
  ASSUME flash \in Contents, NEW offset \in Nat, NEW data \in Seq(Byte)
  PROVE  Safe(FlashWrite(offset, data))
<1> DEFINE first == offset \div 8
           count == (Len(data) + 7) \div 8
           Chunk(c) == SubSeq(data, 8 * (c - first) + 1, Len(data))
           Written(k) == [c \in Cells |-> IF c \in first .. first + k - 1
                                          THEN Programmed(c, Chunk(c)) ELSE flash[c]]
           Torn(k) == [Written(k) EXCEPT ![first + k] =
                         IF @ = Erased THEN Broken ELSE @]
<1>1. first \in Nat
  OBVIOUS
<1>2. ASSUME NEW c \in Cells, c >= first PROVE Chunk(c) \in Seq(Byte)
  <2>1. 8 * (c - first) + 1 \in Nat /\ 8 * (c - first) + 1 >= 1
    BY <1>1, <1>2, FirmwareUpdateAssumption DEF Cells
  <2>2. QED
    BY <2>1, SubSeqProperties
<1> HIDE DEF first, count, Chunk
<1> DEFINE U == [1..8 -> Byte] \cup {Broken}
<1>3. \A c \in Cells : flash[c] \in U /\ (c >= first => Programmed(c, Chunk(c)) \in U)
  BY <1>2, ProgrammedType DEF Contents
<1>4. Contents = [Cells -> U] /\ Broken \in U
  BY DEF Contents
<1> HIDE DEF U
<1>5. ASSUME NEW k \in Nat PROVE Written(k) \in Contents
  <2>1. \A c \in Cells : c \in first .. first + k - 1 => c >= first
    BY <1>1 DEF Cells
  <2>2. QED
    BY <1>3, <1>4, <2>1
<1>6. ASSUME NEW k \in Nat PROVE Torn(k) \in Contents
  <2>1. PICK w : w = Written(k)
    OBVIOUS
  <2>2. Torn(k) = [w EXCEPT ![first + k] = IF w[first + k] = Erased THEN Broken
                                           ELSE w[first + k]]
    BY <2>1
  <2>3. w \in [Cells -> U]
    BY <1>4, <1>5, <2>1
  <2> HIDE DEF Written, Torn
  <2>4. QED
    BY <1>4, <2>2, <2>3
<1>7. ASSUME NEW k \in Nat PROVE Follows(Written(k)) /\ Follows(Torn(k))
  <2>1. PICK w : w = Written(k)
    OBVIOUS
  <2>2. ASSUME NEW c \in Cells, w[c] # flash[c] PROVE flash[c] = Erased
    BY <2>1, <2>2 DEF Programmed
  <2>3. PICK t : t = [w EXCEPT ![first + k] = IF w[first + k] = Erased THEN Broken
                                              ELSE w[first + k]]
    OBVIOUS
  <2>4. Torn(k) = t
    BY <2>1, <2>3
  <2>5. w \in [Cells -> U]
    BY <1>4, <1>5, <2>1
  <2>6. ASSUME NEW c \in Cells, t[c] # flash[c] PROVE flash[c] = Erased
    <3>1. t[c] = w[c] \/ w[c] = Erased
      BY <2>3, <2>5
    <3>2. QED
      BY <2>2, <2>6, <3>1
  <2>7. QED
    BY ONLY <2>1, <2>2, <2>4, <2>6 DEF Follows
<1>8. count \in Nat
  <2>1. Len(data) \in Nat
    OBVIOUS
  <2>2. QED
    BY <2>1 DEF count
<1>9. /\ FlashWrite(offset, data).final = Written(count)
      /\ FlashWrite(offset, data).partial = {Written(k) : k \in 0 .. count}
                                              \cup {Torn(k) : k \in 0 .. count - 1}
  BY DEF FlashWrite, first, count, Chunk
<1> HIDE DEF Written, Torn
<1>10. \A k \in 0 .. count : Kept(Written(k)) /\ Kept(Torn(k))
  BY <1>5, <1>6, <1>8, <1>7 DEF Kept
<1>11. QED
  BY <1>8, <1>9, <1>10 DEF Safe

(* _write_mem, for any address.                                          *)
LEMMA WriteMemSafe ==
  ASSUME flash \in Contents, NEW addr \in Nat, NEW data \in Seq(Byte)
  PROVE  Safe(WriteMem(addr, data))
<1>1. APP_ADDR \in Nat
  BY SMT DEF APP_ADDR
<1>2. CASE addr < APP_ADDR
  BY <1>2, NoFlashSafe DEF WriteMem
<1>3. CASE ~(addr < APP_ADDR)
  <2>1. addr - APP_ADDR \in Nat
    BY <1>1, <1>3
  <2>2. Safe(FlashWrite(addr - APP_ADDR, data))
    BY <2>1, WriteSafe
  <2>3. QED
    BY <2>2, NoFlashSafe DEF WriteMem
<1>4. QED
  BY <1>2, <1>3

(* _erase_page, for any pages.                                           *)
LEMMA ErasePagesSafe ==
  ASSUME flash \in Contents, NEW pages
  PROVE  Safe(ErasePages(pages))
BY EraseSafe, NoFlashSafe DEF ErasePages

-----------------------------------------------------------------------------
(* What byte_handle gives, for any byte in any context.                    *)
Handled(o) ==
  /\ o.context \in Contexts /\ Within(o.context)
  /\ o.answers \in Seq(Replies)
  /\ Safe(o.operation)

(* A context that is cleared waits for a command.                        *)
LEMMA ClearedType ==
  ASSUME NEW c \in Contexts
  PROVE  Cleared(c) \in Contexts /\ Within(Cleared(c)) /\ Cleared(c).buffer = <<>>
<1>1. <<>> \in Seq(Byte)
  BY EmptySeq
<1>2. /\ c.state \in {"wait", "process"} /\ c.command \in Byte /\ c.buffer \in Seq(Byte)
  BY DEF Contexts
<1>3. Cleared(c) \in Contexts
  BY <1>1 DEF Cleared, Contexts
<1>4. Cleared(c).state = "wait" /\ Cleared(c).buffer = <<>>
  BY DEF Cleared, Contexts
<1>5. QED
  BY <1>3, <1>4 DEF Within

(* An outcome is made of a context, answers and an operation.            *)
LEMMA OutcomeHandled ==
  ASSUME NEW c \in Contexts, Within(c), NEW answers \in Seq(Replies),
         NEW operation, Safe(operation), NEW reset
  PROVE  Handled(Outcome(c, answers, operation, reset))
BY DEF Outcome, Handled

(* An answer that touches no flash.                                      *)
LEMMA AnswerHandled ==
  ASSUME flash \in Contents, NEW c \in Contexts, Within(c), NEW answers \in Seq(Replies)
  PROVE  Handled(Answer(c, answers)) /\ Handled(Wait(c)) /\ Handled(Nack(c))
<1>1. <<>> \in Seq(Replies) /\ <<"nack">> \in Seq(Replies)
  BY DEF Replies
<1>2. Cleared(c) \in Contexts /\ Within(Cleared(c))
  BY ClearedType
<1>3. QED
  BY <1>1, <1>2, OutcomeHandled, NoFlashSafe DEF Answer, Wait, Nack

(* A refusal, of a context however long.                                 *)
LEMMA NackHandled ==
  ASSUME flash \in Contents, NEW c \in Contexts
  PROVE  Handled(Nack(c))
<1>1. <<"nack">> \in Seq(Replies)
  BY DEF Replies
<1>2. Cleared(c) \in Contexts /\ Within(Cleared(c))
  BY ClearedType
<1>3. QED
  BY <1>1, <1>2, OutcomeHandled, NoFlashSafe DEF Answer, Nack

(* _command_check, for the first or the second byte.                     *)
LEMMA CommandHandled ==
  ASSUME flash \in Contents, NEW c \in Contexts,
         c.state = "wait", Len(c.buffer) \in 1 .. 2
  PROVE  Handled(CommandCheck(c))
<1> DEFINE cmd == c.buffer[1]
           d == [Cleared(c) EXCEPT !.command = cmd]
           e == [d EXCEPT !.state = "process"]
<1>1. /\ <<"ack">> \in Seq(Replies) /\ <<"nack">> \in Seq(Replies)
      /\ <<"ack", "ack">> \in Seq(Replies)
  BY DEF Replies
<1>2. Cleared(c) \in Contexts /\ Within(Cleared(c))
  BY ClearedType
<1>3. cmd \in Byte
  BY DEF Contexts
<1>4. d \in Contexts /\ d.state = "wait" /\ d.buffer = <<>> /\ d.command = cmd
  BY <1>2, <1>3 DEF Contexts, Cleared
<1>5. Within(d)
  BY <1>4 DEF Within
<1>6. e \in Contexts /\ e.state = "process" /\ e.buffer = <<>> /\ e.command = cmd
  BY <1>4 DEF Contexts
<1>7. ASSUME cmd \in Supported, cmd \notin {GET, GET_VERSION, GET_ID} PROVE Within(e)
  BY <1>6, <1>7 DEF Within, Supported, READ_MEMORY, WRITE_MEMORY, ERASE, GO
<1> HIDE DEF d, e, cmd
<1>8. Handled(Answer(Cleared(c), <<"ack">>)) /\ Handled(Nack(c))
  BY <1>1, <1>2, AnswerHandled, NackHandled
<1>9. Handled(Answer(d, <<"nack">>)) /\ Handled(Answer(d, <<"ack", "ack">>))
  BY <1>1, <1>4, <1>5, AnswerHandled
<1>10. ASSUME cmd \in Supported, cmd \notin {GET, GET_VERSION, GET_ID}
       PROVE  Handled(Answer(e, <<"ack">>))
  BY <1>1, <1>6, <1>7, <1>10, AnswerHandled
<1>11. ASSUME Len(c.buffer) < 2 PROVE Handled(Wait(c))
  <2>1. Within(c)
    BY <1>11 DEF Within
  <2>2. QED
    BY <1>1, <2>1, AnswerHandled
<1>12. QED
  BY <1>8, <1>9, <1>10, <1>11 DEF CommandCheck, cmd, d, e

(* A command that takes one byte more and waits stays within its length.   *)
LEMMA LongerWithin ==
  ASSUME NEW b, NEW c, Within(b), b.state = "process", c.state = "process",
         c.command = b.command, NEW m \in Nat, NEW n \in Nat,
         m = Len(b.buffer), n = Len(c.buffer), n = m + 1,
         \A i \in 1 .. m : c.buffer[i] = b.buffer[i],
         \A i \in 1 .. n : c.buffer[i] \in 0 .. 255,
         ~(c.command = READ_MEMORY /\ n = 7),
         ~(c.command = WRITE_MEMORY /\ n >= 6 /\ n = c.buffer[6] + 8),
         ~(c.command = ERASE /\ n = c.buffer[1] + 3),
         ~(c.command = GO /\ n = 5)
  PROVE  Within(c)
<1>1. \/ b.command = READ_MEMORY /\ m <= 6
      \/ b.command = WRITE_MEMORY /\ (m <= 5 \/ m < b.buffer[6] + 8)
      \/ b.command = ERASE /\ (m = 0 \/ m < b.buffer[1] + 3)
      \/ b.command = GO /\ m <= 4
  BY DEF Within
<1>2. CASE b.command = READ_MEMORY /\ m <= 6
  BY <1>2 DEF Within
<1>3. CASE b.command = WRITE_MEMORY /\ (m <= 5 \/ m < b.buffer[6] + 8)
  <2>1. CASE n <= 5
    BY <1>3, <2>1 DEF Within
  <2>2. CASE n > 5
    <3>1. 6 \in 1 .. n /\ (n > 6 => 6 \in 1 .. m)
      BY <2>2
    <3>2. PICK k : k = c.buffer[6]
      OBVIOUS
    <3>3. k \in 0 .. 255 /\ n # k + 8 /\ (n > 6 => b.buffer[6] = k)
      BY <1>3, <2>2, <3>1, <3>2
    <3>4. n < k + 8
      BY <1>3, <2>2, <3>3
    <3>5. QED
      BY <1>3, <3>2, <3>4 DEF Within
  <2>3. QED
    BY <2>1, <2>2
<1>4. CASE b.command = ERASE /\ (m = 0 \/ m < b.buffer[1] + 3)
  <2>1. 1 \in 1 .. n /\ (n > 1 => 1 \in 1 .. m)
    OBVIOUS
  <2>2. PICK k : k = c.buffer[1]
    OBVIOUS
  <2>3. k \in 0 .. 255 /\ n # k + 3 /\ (n > 1 => b.buffer[1] = k)
    BY <1>4, <2>1, <2>2
  <2>4. n < k + 3
    BY <1>4, <2>3
  <2>5. QED
    BY <1>4, <2>2, <2>4 DEF Within
<1>5. CASE b.command = GO /\ m <= 4
  BY <1>5 DEF Within
<1>6. QED
  BY <1>1, <1>2, <1>3, <1>4, <1>5

(* The packets behind a command: c is the context b with one byte more.    *)
LEMMA PacketHandled ==
  ASSUME flash \in Contents,
         NEW b, Within(b), b.state = "process",
         NEW c \in Contexts, c.state = "process", c.command = b.command,
         NEW m \in Nat, m = Len(b.buffer), NEW n \in Nat, n = Len(c.buffer), n = m + 1,
         \A i \in 1 .. m : c.buffer[i] = b.buffer[i],
         \A i \in 1 .. n : c.buffer[i] \in Byte,
         NEW done, done = Cleared(c)
  PROVE  Handled(Process(c))
<1>1. <<"ack">> \in Seq(Replies)
  BY DEF Replies
<1>2. c.command \in {READ_MEMORY, WRITE_MEMORY, ERASE, GO}
  BY DEF Within
<1>3. done \in Contexts /\ Within(done)
  BY ClearedType
<1>4. \A i \in 1 .. n : c.buffer[i] \in 0 .. 255
  BY DEF Byte
<1>5. Handled(Nack(c)) /\ Handled(Answer(done, <<"ack">>))
  BY <1>1, <1>3, AnswerHandled, NackHandled
<1>6. ASSUME NEW operation, NEW reset, Safe(operation)
      PROVE  Handled(Outcome(done, <<"ack">>, operation, reset))
  BY <1>1, <1>3, <1>6, OutcomeHandled
<1>7. ASSUME \/ c.command = READ_MEMORY /\ n = 5
             \/ c.command = WRITE_MEMORY /\ n = 5
       PROVE  Handled(AddressCheck(c))
  <2>1. Within(c)
    BY <1>7 DEF Within
  <2>2. Handled(Answer(c, <<"ack">>))
    BY <1>1, <2>1, AnswerHandled
  <2>3. QED
    BY <1>5, <2>2 DEF AddressCheck
<1>8. ASSUME ~(c.command = READ_MEMORY /\ n = 7),
              ~(c.command = WRITE_MEMORY /\ n >= 6 /\ n = c.buffer[6] + 8),
              ~(c.command = ERASE /\ n = c.buffer[1] + 3),
              ~(c.command = GO /\ n = 5)
       PROVE  Handled(Wait(c))
  <2>1. Within(c)
    BY <1>4, <1>8, LongerWithin
  <2>2. QED
    BY <1>1, <2>1, AnswerHandled
<1>9. /\ READ_MEMORY # WRITE_MEMORY /\ READ_MEMORY # ERASE /\ READ_MEMORY # GO
      /\ WRITE_MEMORY # ERASE /\ WRITE_MEMORY # GO /\ ERASE # GO
  BY DEF READ_MEMORY, WRITE_MEMORY, ERASE, GO
<1>10. CASE c.command = READ_MEMORY
  <2>1. /\ n = 5 => ProcessRead(c) = AddressCheck(c)
        /\ n = 7 => ProcessRead(c) \in {Answer(done, <<"ack">>), Nack(c)}
        /\ n # 5 /\ n # 7 => ProcessRead(c) = Wait(c)
    <3>1. n = 5 => ProcessRead(c) = AddressCheck(c)
      BY ONLY n = Len(c.buffer) DEF ProcessRead
    <3>2. n = 7 => ProcessRead(c) \in {Answer(done, <<"ack">>), Nack(c)}
      BY ONLY n = Len(c.buffer), done = Cleared(c) DEF ProcessRead
    <3>3. n # 5 /\ n # 7 => ProcessRead(c) = Wait(c)
      BY ONLY n = Len(c.buffer) DEF ProcessRead
    <3>4. QED
      BY ONLY <3>1, <3>2, <3>3
  <2>2. Handled(ProcessRead(c))
    BY <1>5, <1>7, <1>8, <1>9, <1>10, <2>1
  <2>3. QED
    BY <1>9, <1>10, <2>2 DEF Process
<1>11. CASE c.command = WRITE_MEMORY
  <2>1. PICK operation : operation = WriteMem(Address(c.buffer), SubSeq(c.buffer, 7, n - 1))
    OBVIOUS
  <2>2. ASSUME n >= 6, n = c.buffer[6] + 8 PROVE Safe(operation)
    <3>1. 6 \in 1 .. n
      BY ONLY <2>2, n \in Nat
    <3>2. c.buffer[6] \in 0 .. 255
      BY ONLY <1>4, <3>1
    <3>3. n >= 8 /\ 1 \in 1 .. n /\ 2 \in 1 .. n /\ 3 \in 1 .. n /\ 4 \in 1 .. n
      BY ONLY <2>2, <3>2, n \in Nat
    <3>4. /\ c.buffer[1] \in Nat /\ c.buffer[2] \in Nat
          /\ c.buffer[3] \in Nat /\ c.buffer[4] \in Nat
      <4>1. 0 .. 255 \subseteq Nat
        OBVIOUS
      <4>2. QED
        BY ONLY <1>4, <3>3, <4>1, Zenon
    <3>5. Address(c.buffer) \in Nat
      <4>1. \A i \in Nat, j \in Nat : i * 256 + j \in Nat
        OBVIOUS
      <4>2. c.buffer[1] * 256 + c.buffer[2] \in Nat
        BY ONLY <3>4, <4>1, Zenon
      <4>3. (c.buffer[1] * 256 + c.buffer[2]) * 256 + c.buffer[3] \in Nat
        BY ONLY <3>4, <4>1, <4>2, Zenon
      <4>4. QED
        BY ONLY <3>4, <4>1, <4>3, ZenonT(30) DEF Address
    <3>6. SubSeq(c.buffer, 7, n - 1) \in Seq(Byte)
      <4>1. \A i \in 7 .. n - 1 : c.buffer[i] \in Byte
        OBVIOUS
      <4>2. 7 \in Int /\ n - 1 \in Int
        OBVIOUS
      <4>3. QED
        BY ONLY <4>1, <4>2, SubSeqProperties
    <3>7. QED
      BY <2>1, <3>5, <3>6, WriteMemSafe
  <2>3. /\ n = 5 => ProcessWrite(c) = AddressCheck(c)
        /\ n >= 6 /\ n = c.buffer[6] + 8 =>
             ProcessWrite(c) \in {Outcome(done, <<"ack">>, operation, FALSE), Nack(c)}
        /\ n # 5 /\ ~(n >= 6 /\ n = c.buffer[6] + 8) => ProcessWrite(c) = Wait(c)
    <3>1. n = 5 => ProcessWrite(c) = AddressCheck(c)
      BY ONLY n = Len(c.buffer) DEF ProcessWrite
    <3>2. n >= 6 /\ n = c.buffer[6] + 8 =>
             ProcessWrite(c) \in {Outcome(done, <<"ack">>, operation, FALSE), Nack(c)}
      <4>1. n >= 6 /\ n = c.buffer[6] + 8 => n # 5
        OBVIOUS
      <4>2. QED
        BY ONLY <2>1, <4>1, n = Len(c.buffer), done = Cleared(c) DEF ProcessWrite
    <3>3. n # 5 /\ ~(n >= 6 /\ n = c.buffer[6] + 8) => ProcessWrite(c) = Wait(c)
      BY ONLY n = Len(c.buffer) DEF ProcessWrite
    <3>4. QED
      BY ONLY <3>1, <3>2, <3>3
  <2>4. Handled(ProcessWrite(c))
    BY <1>5, <1>6, <1>7, <1>8, <1>9, <1>11, <2>2, <2>3
  <2>5. QED
    BY <1>9, <1>11, <2>4 DEF Process
<1>12. CASE c.command = ERASE
  <2>1. \A pages : Handled(Outcome(done, <<"ack">>, ErasePages(pages), FALSE))
    BY <1>6, ErasePagesSafe
  <2>2. \/ \E pages : ProcessErase(c) = Outcome(done, <<"ack">>, ErasePages(pages), FALSE)
        \/ ProcessErase(c) = Nack(c)
        \/ ProcessErase(c) = Wait(c) /\ n # c.buffer[1] + 3
    <3>1. n = 2 /\ c.buffer[1] = ERASE_ALL =>
            ProcessErase(c) = Outcome(done, <<"ack">>, ErasePages({ERASE_ALL}), FALSE)
      BY ONLY n = Len(c.buffer), done = Cleared(c) DEF ProcessErase, ERASE_ALL
    <3>2. ~(n = 2 /\ c.buffer[1] = ERASE_ALL) /\ n = c.buffer[1] + 3 =>
            ProcessErase(c) \in
              {Outcome(done, <<"ack">>, ErasePages({c.buffer[i] : i \in 2 .. n - 1}), FALSE),
               Nack(c)}
      BY ONLY n = Len(c.buffer), done = Cleared(c) DEF ProcessErase
    <3>3. ~(n = 2 /\ c.buffer[1] = ERASE_ALL) /\ n # c.buffer[1] + 3 =>
            ProcessErase(c) = Wait(c)
      BY ONLY n = Len(c.buffer) DEF ProcessErase
    <3>4. QED
      BY ONLY <3>1, <3>2, <3>3
  <2>3. Handled(ProcessErase(c))
    BY <1>5, <1>8, <1>9, <1>12, <2>1, <2>2
  <2>4. QED
    BY <1>9, <1>12, <2>3 DEF Process
<1>13. CASE c.command = GO
  <2>1. Handled(Outcome(done, <<"ack">>, NoFlash, TRUE))
    BY <1>6, NoFlashSafe
  <2>2. Handled(ProcessGo(c))
    BY <1>5, <1>8, <1>9, <1>13, <2>1 DEF ProcessGo
  <2>3. QED
    BY <1>9, <1>13, <2>2 DEF Process
<1>14. QED
  BY <1>2, <1>10, <1>11, <1>12, <1>13

(* A command of several packets, for its next byte.                        *)
LEMMA ProcessHandled ==
  ASSUME flash \in Contents, NEW b \in Contexts, NEW byte \in Byte,
         b.state = "process", Within(b),
         NEW c, c = [b EXCEPT !.buffer = Append(@, byte)]
  PROVE  Handled(Process(c))
<1>1. b.buffer \in Seq(Byte) /\ Len(b.buffer) \in Nat
  BY DEF Contexts
<1>2. /\ c.state = "process" /\ c.command = b.command
      /\ c.buffer = Append(b.buffer, byte)
  BY DEF Contexts
<1>3. c.buffer \in Seq(Byte) /\ Len(c.buffer) = Len(b.buffer) + 1
      /\ \A i \in 1 .. Len(b.buffer) : c.buffer[i] = b.buffer[i]
  BY ONLY <1>1, <1>2, byte \in Byte
<1>4. c \in Contexts
  BY <1>1, <1>2, <1>3 DEF Contexts
<1>5. PICK m \in Nat, n \in Nat :
        m = Len(b.buffer) /\ n = Len(c.buffer) /\ n = m + 1
  BY ONLY <1>1, <1>3
<1>6. PICK done : done = Cleared(c)
  OBVIOUS
<1>7. \A i \in 1 .. n : c.buffer[i] \in Byte
  BY ONLY <1>3, <1>5, ElementOfSeq
<1>8. \A i \in 1 .. m : c.buffer[i] = b.buffer[i]
  BY ONLY <1>3, <1>5
<1>9. QED
  BY ONLY <1>2, <1>4, <1>5, <1>6, <1>7, <1>8, PacketHandled, flash \in Contents,
          Within(b), b.state = "process"

(* byte_handle, for any byte.                                            *)
LEMMA ByteHandled ==
  ASSUME IInv, NEW byte \in Byte
  PROVE  Handled(byte_handle(byte))
<1> DEFINE c == [context EXCEPT !.buffer = Append(@, byte)]
<1>1. /\ context \in Contexts /\ Within(context) /\ flash \in Contents
      /\ context.state \in {"wait", "process"}
  BY DEF IInv, TypeOK, Contexts
<1>2. CASE context.state = "wait"
  <2>1. /\ c \in Contexts /\ c.state = "wait"
        /\ Len(c.buffer) = Len(context.buffer) + 1 /\ Len(context.buffer) \in Nat
    BY <1>1, <1>2 DEF Contexts
  <2>2. Len(c.buffer) \in 1 .. 2
    BY <1>1, <1>2, <2>1 DEF Within
  <2> HIDE DEF c
  <2>3. Handled(CommandCheck(c))
    BY <1>1, <2>1, <2>2, CommandHandled
  <2>4. QED
    BY <2>1, <2>3 DEF byte_handle, c
<1>3. CASE context.state = "process"
  <2>1. c.state = "process"
    BY <1>1, <1>3 DEF Contexts
  <2>2. Handled(Process(c))
    BY <1>1, <1>3, ProcessHandled
  <2> HIDE DEF c
  <2>3. QED
    BY <2>1, <2>2 DEF byte_handle, c
<1>4. QED
  BY <1>1, <1>2, <1>3

-----------------------------------------------------------------------------
(* The invariant.                                                          *)

(* It holds when the device is delivered with its image.                 *)
LEMMA InvariantInit == Init => IInv
<1> SUFFICES ASSUME Init PROVE IInv
  OBVIOUS
<1>1. flash \in Contents
  BY InstalledType DEF Init
<1>2. <<>> \in Seq(Byte) /\ <<>> \in Seq(Replies)
  BY EmptySeq
<1>3. context \in Contexts /\ Within(context)
  BY <1>2 DEF Init, Contexts, Within, Byte
<1>4. MaxLost \in Nat /\ MaxCuts \in Nat
  BY FirmwareUpdateAssumption
<1>5. step \in 1 .. LastPacket + 1
  BY LastPacketType DEF Init
<1>6. 0 \in Byte /\ 0 \in 0 .. MaxLost /\ 0 \in 0 .. MaxCuts
  BY <1>4 DEF Byte
<1>7. TypeOK
  <2>1. /\ running = "off" /\ mailbox = FALSE /\ previous_byte = 0
        /\ line = <<>> /\ replies = <<>> /\ erase_list \in EraseLists
        /\ waiting = 0 /\ misheard = FALSE /\ lost = 0 /\ cuts = 0
    BY DEF Init
  <2>2. running \in {"app", "bootloader", "off"} /\ waiting \in 0 .. 2
    BY ONLY <2>1
  <2>3. /\ previous_byte \in Byte /\ lost \in 0 .. MaxLost /\ cuts \in 0 .. MaxCuts
        /\ line \in Seq(Byte) /\ replies \in Seq(Replies)
    BY ONLY <1>2, <1>6, <2>1
  <2>4. mailbox \in BOOLEAN /\ misheard \in BOOLEAN
    BY ONLY <2>1, Zenon
  <2>5. QED
    BY ONLY <1>1, <1>3, <1>5, <2>1, <2>2, <2>3, <2>4 DEF TypeOK
<1>8. HostInv
  BY DEF Init, HostInv
<1>9. QED
  BY <1>3, <1>7, <1>8 DEF IInv

(* Every step preserves it.                                              *)
LEMMA InvariantStep == IInv /\ [Next]_vars => IInv'
<1> SUFFICES ASSUME IInv, [Next]_vars PROVE IInv'
  OBVIOUS
<1>1. TypeOK /\ Within(context) /\ HostInv
  BY DEF IInv
<1>2. <<>> \in Seq(Byte) /\ <<>> \in Seq(Replies)
  BY EmptySeq
<1>3. ASSUME line # <<>>
      PROVE  Head(line) \in Byte /\ Tail(line) \in Seq(Byte)
             /\ Handled(byte_handle(Head(line)))
  <2>1. Head(line) \in Byte /\ Tail(line) \in Seq(Byte)
    BY <1>1, <1>3 DEF TypeOK
  <2>2. QED
    BY <2>1, ByteHandled
<1>4. MaxLost \in Nat /\ MaxCuts \in Nat
  BY FirmwareUpdateAssumption
<1>5. CASE Boot
  <2>1. context' \in Contexts /\ Within(context')
    BY <1>2, <1>5 DEF Boot, Contexts, Within, Byte
  <2>2. running' \in {"app", "bootloader"} /\ previous_byte' \in Byte
    BY <1>5 DEF Boot, Byte
  <2>3. QED
    BY <1>1, <1>5, <2>1, <2>2 DEF Boot, IInv, TypeOK, HostInv, Done, host
<1>6. CASE Unheard
  BY <1>1, <1>2, <1>6 DEF Unheard, IInv, TypeOK, HostInv, Done, device, host
<1>7. CASE BootloaderReceive
  <2>1. PICK o : /\ o = byte_handle(Head(line))
                 /\ context' = o.context
                 /\ replies' = replies \o o.answers
                 /\ flash' = o.operation.final
                 /\ running' = IF o.reset THEN "off" ELSE running
    BY <1>7 DEF BootloaderReceive
  <2>2. Handled(o) /\ Tail(line) \in Seq(Byte)
    BY <1>3, <1>7, <2>1 DEF BootloaderReceive
  <2>3. replies' \in Seq(Replies)
    BY <1>1, <2>1, <2>2 DEF Handled, TypeOK
  <2>4. context' \in Contexts /\ Within(context') /\ flash' \in Contents
    BY <2>1, <2>2 DEF Handled, Safe, Kept
  <2>5. running' \in {"app", "bootloader", "off"}
    BY <1>1, <2>1 DEF TypeOK
  <2>6. QED
    BY <1>1, <1>7, <2>2, <2>3, <2>4, <2>5
       DEF BootloaderReceive, IInv, TypeOK, HostInv, Done, host
<1>8. CASE AppReceive
  <2>1. replies' \in Seq(Replies)
    <3>1. replies \in Seq(Replies) /\ "ack" \in Replies
      BY <1>1 DEF TypeOK, Replies
    <3>2. replies' = replies \/ replies' = Append(replies, "ack")
      BY <1>8 DEF AppReceive
    <3>3. QED
      BY ONLY <3>1, <3>2
  <2>2. QED
    BY <1>1, <1>3, <1>8, <2>1 DEF AppReceive, IInv, TypeOK, HostInv, Done, host
<1>9. CASE Send
  <2>1. step \in 1 .. LastPacket
    BY <1>1, <1>9, LastPacketType DEF Send, Done, TypeOK
  <2>2. Script(step) \in Packets
    BY <1>1, <2>1, ScriptPacket DEF TypeOK
  <2>3. line' \in Seq(Byte) /\ waiting' \in 0 .. 2
    BY <1>1, <1>9, <2>2 DEF Send, Packets, TypeOK
  <2>4. QED
    BY <1>1, <1>9, <2>3 DEF Send, IInv, TypeOK, HostInv, Done, device
<1>10. CASE Acknowledged
  <2>1. replies # <<>> => Tail(replies) \in Seq(Replies)
    BY <1>1 DEF TypeOK
  <2>2. replies' \in Seq(Replies)
    BY <1>10, <2>1 DEF Acknowledged, Heard
  <2>3. waiting' \in 0 .. 2
    BY <1>1, <1>10 DEF Acknowledged, TypeOK
  <2>4. step' \in 1 .. LastPacket + 1
    <3>1. /\ waiting > 0 /\ step' = IF waiting = 1 THEN step + 1 ELSE step
          /\ step \in 1 .. LastPacket + 1 /\ step <= LastPacket
      BY <1>1, <1>10, LastPacketType DEF Acknowledged, TypeOK, HostInv, Done
    <3>2. QED
      BY ONLY <3>1, LastPacketType
  <2>5. QED
    BY <1>1, <1>10, <2>2, <2>3, <2>4 DEF Acknowledged, IInv, TypeOK, HostInv, Done, device
<1>11. CASE StartAgain
  BY <1>1, <1>2, <1>11, LastPacketType DEF StartAgain, IInv, TypeOK, HostInv, Done, device
<1>12. CASE UpdateAgain
  BY <1>1, <1>2, <1>12, LastPacketType DEF UpdateAgain, IInv, TypeOK, HostInv, Done, device
<1>13. CASE LoseByte
  <2>1. replies # <<>> => Tail(replies) \in Seq(Replies)
    BY <1>1 DEF TypeOK
  <2>2. lost' \in 0 .. MaxLost
    BY <1>1, <1>4, <1>13 DEF LoseByte, TypeOK
  <2>3. line' \in Seq(Byte) /\ replies' \in Seq(Replies)
    BY <1>1, <1>3, <1>13, <2>1 DEF LoseByte, TypeOK
  <2>4. QED
    BY <1>1, <1>13, <2>2, <2>3 DEF LoseByte, IInv, TypeOK, HostInv, Done, device, host
<1>14. CASE PowerCut
  <2>1. cuts' \in 0 .. MaxCuts
    BY <1>1, <1>4, <1>14 DEF PowerCut, TypeOK
  <2>2. flash' \in Contents /\ line' \in Seq(Byte)
    BY <1>1, <1>3, <1>14 DEF PowerCut, TypeOK, Handled, Safe, Kept
  <2>3. mailbox' \in BOOLEAN
    BY <1>1, <1>14 DEF PowerCut, TypeOK
  <2>4. QED
    BY <1>1, <1>14, <2>1, <2>2, <2>3 DEF PowerCut, IInv, TypeOK, HostInv, Done, host
<1>15. CASE UNCHANGED vars
  BY <1>1, <1>15 DEF vars, device, host, IInv, TypeOK, HostInv, Done
<1>16. QED
  BY <1>5, <1>6, <1>7, <1>8, <1>9, <1>10, <1>11, <1>12, <1>13, <1>14, <1>15
     DEF Next, Device, Host

(* The context of the protocol never holds more bytes than its state and   *)
(* its command wait for (byte_handle of the host protocol).                *)
THEOREM InvariantHolds == Spec => []IInv
<1>1. QED
  BY InvariantInit, InvariantStep, PTL DEF Spec

(* The types: what is in the flash are double words or such as were        *)
(* interrupted, what is on the line are bytes, whatever is lost or cut.    *)
THEOREM TypeCorrect == Spec => []TypeOK
<1>1. IInv => TypeOK
  BY DEF IInv
<1>2. QED
  BY <1>1, InvariantHolds, PTL

(* No command fills the buffer: the guard of byte_handle against more than *)
(* 288 bytes never acts, so no packet is ever begun anew in the middle.    *)
THEOREM BufferHolds == Spec => []BufferNeverFull
<1>1. IInv => BufferNeverFull
  <2> SUFFICES ASSUME IInv PROVE Len(context.buffer) < 288
    BY DEF BufferNeverFull
  <2>1. /\ context.buffer \in Seq(Byte) /\ Within(context)
        /\ context.state \in {"wait", "process"}
    BY DEF IInv, TypeOK, Contexts
  <2>2. PICK n \in Nat : n = Len(context.buffer)
    BY <2>1
  <2>3. \A i \in 1 .. n : context.buffer[i] \in Byte
    BY ONLY <2>1, <2>2, ElementOfSeq
  <2>4. \A i \in 1 .. n : context.buffer[i] \in 0 .. 255
    BY ONLY <2>3 DEF Byte
  <2>5. CASE n >= 6
    <3>1. 1 \in 1 .. n /\ 6 \in 1 .. n
      BY <2>5
    <3>2. PICK i \in 0 .. 255, k \in 0 .. 255 :
            i = context.buffer[1] /\ k = context.buffer[6]
      BY ONLY <2>4, <3>1
    <3>3. n <= 6 \/ n < i + 3 \/ n < k + 8
      BY <2>1, <2>2, <2>5, <3>2 DEF Within
    <3>4. i + 3 < 288 /\ k + 8 < 288
      OBVIOUS
    <3>5. QED
      BY <2>2, <3>3, <3>4
  <2>6. QED
    BY <2>2, <2>5
<1>2. QED
  BY <1>1, InvariantHolds, PTL

-----------------------------------------------------------------------------
(* What is programmed is lost only to an erase, which took the information *)
(* block first (mcu_flash_erase_app, _flash_write of bsp_flash.c).         *)
THEOREM EraseOrder == Spec => EraseFromFront
<1>1. ASSUME IInv, [Next]_vars PROVE [Follows(flash')]_vars
  <2>1. CASE flash' = flash
    BY <2>1 DEF Follows
  <2>2. CASE flash' # flash
    <3>1. CASE BootloaderReceive
      <4>1. Handled(byte_handle(Head(line)))
        <5>1. Head(line) \in Byte
          BY <1>1, <3>1 DEF BootloaderReceive, IInv, TypeOK
        <5>2. QED
          BY <1>1, <5>1, ByteHandled
      <4>2. flash' = byte_handle(Head(line)).operation.final
        BY <3>1 DEF BootloaderReceive
      <4>3. QED
        BY <4>1, <4>2 DEF Handled, Safe, Kept
    <3>2. CASE PowerCut
      <4>1. line # <<>> /\ flash' \in byte_handle(Head(line)).operation.partial
        BY <2>2, <3>2 DEF PowerCut
      <4>2. Handled(byte_handle(Head(line)))
        <5>1. Head(line) \in Byte
          BY <1>1, <4>1 DEF IInv, TypeOK
        <5>2. QED
          BY <1>1, <5>1, ByteHandled
      <4>3. QED
        BY <4>1, <4>2 DEF Handled, Safe, Kept
    <3>3. QED
      BY <1>1, <2>2, <3>1, <3>2
         DEF Next, Device, Host, Boot, Unheard, AppReceive, Send, Acknowledged,
             StartAgain, UpdateAgain, LoseByte, vars, device
  <2>3. QED
    BY <2>1, <2>2
<1>2. QED
  BY <1>1, InvariantHolds, PTL DEF Spec, EraseFromFront

-----------------------------------------------------------------------------
(***************************************************************************)
(* What the host gets acknowledged.  The packets of the script.            *)
(***************************************************************************)
N == Len(NewImage)

(* The image has two double words or more.                                 *)
LEMMA ImageType ==
  /\ N \in Nat /\ N >= 2 /\ Words \in Nat /\ N <= Words /\ Words <= MaxWords
  /\ NewImage \in Seq([1..8 -> Byte])
  /\ \A w \in 0 .. N - 1 : NewImage[w + 1] \in [1..8 -> Byte]
<1>1. /\ N \in Nat /\ N >= 2 /\ Words \in Nat /\ N <= Words /\ Words <= MaxWords
      /\ NewImage \in Seq([1..8 -> Byte])
  BY FirmwareUpdateAssumption, MaxWordsType DEF N
<1>2. ASSUME NEW w \in 0 .. N - 1 PROVE NewImage[w + 1] \in [1..8 -> Byte]
  <2>1. w + 1 \in 1 .. Len(NewImage)
    BY <1>1 DEF N
  <2>2. QED
    BY <1>1, <2>1, ElementOfSeq
<1>3. QED
  BY <1>1, <1>2

(* How long the script is.                                                 *)
LEMMA ScriptLength ==
  /\ ErasePayload = 7 /\ LastPacket = 3 * N + 9
  /\ Len(AfterErase) = 3 * N + 2
  /\ \A j \in 1 .. 3 * N : AfterErase[j] = Write(j - 1)
  /\ AfterErase[3 * N + 1] = Command(GO) /\ AfterErase[3 * N + 2] = At(0)
<1> DEFINE writes == [j \in 1 .. 3 * N |-> Write(j - 1)]
           end == <<Command(GO), At(0)>>
<1>1. 3 * N \in Nat
  BY ImageType
<1>2. PICK M \in Nat : M = 3 * N
  BY <1>1
<1>3. AfterErase = writes \o end
  BY DEF AfterErase, N
<1>4. /\ Len(writes) = M /\ Len(end) = 2
      /\ \A j \in 1 .. M : writes[j] = Write(j - 1)
      /\ end[1] = Command(GO) /\ end[2] = At(0)
  BY <1>2
<1>5. \E S : writes \in Seq(S) /\ end \in Seq(S)
  <2> DEFINE S == {writes[j] : j \in 1 .. M} \cup {Command(GO), At(0)}
  <2>1. writes \in Seq(S) /\ end \in Seq(S)
    BY <1>2
  <2>2. QED
    BY <2>1
<1> HIDE DEF writes, end
<1>6. /\ Len(AfterErase) = M + 2
      /\ \A j \in 1 .. M : AfterErase[j] = writes[j]
      /\ AfterErase[M + 1] = end[1] /\ AfterErase[M + 2] = end[2]
  <2>1. PICK S : writes \in Seq(S) /\ end \in Seq(S)
    BY <1>5
  <2>2. /\ Len(writes \o end) = Len(writes) + Len(end)
        /\ \A i \in 1 .. Len(writes) + Len(end) :
             (writes \o end)[i] = IF i <= Len(writes) THEN writes[i]
                                  ELSE end[i - Len(writes)]
    BY <2>1, ConcatProperties
  <2>3. QED
    BY <1>3, <1>4, <2>2
<1>7. ErasePayload = 7
  BY DEF ErasePayload, BeforeErase
<1>8. QED
  BY <1>2, <1>4, <1>6, <1>7 DEF LastPacket

(* Which packet the host sends at which place.                             *)
LEMMA ScriptPackets ==
  /\ Script(1) = Packet(<<SYNC>>, 1)
  /\ Script(2) = Command(GET)
  /\ Script(3) = Command(READ_MEMORY)
  /\ Script(4) = At(0)
  /\ Script(5) = Packet(<<7, 248>>, 1)
  /\ Script(6) = Command(ERASE)
  /\ Script(7) = Packet(erase_list, 1)
  /\ \A w \in 0 .. N - 1 :
       /\ Script(3 * w + 8) = Command(WRITE_MEMORY)
       /\ Script(3 * w + 9) = At(8 * w)
       /\ Script(3 * w + 10) = Checked(<<7>> \o NewImage[w + 1])
  /\ Script(3 * N + 8) = Command(GO)
  /\ Script(3 * N + 9) = At(0)
<1>1. /\ Script(1) = Packet(<<SYNC>>, 1) /\ Script(2) = Command(GET)
      /\ Script(3) = Command(READ_MEMORY) /\ Script(4) = At(0)
      /\ Script(5) = Packet(<<7, 248>>, 1) /\ Script(6) = Command(ERASE)
      /\ Script(7) = Packet(erase_list, 1)
  BY ScriptLength DEF Script, BeforeErase
<1>2. ASSUME NEW i \in Nat, i > 7 PROVE Script(i) = AfterErase[i - 7]
  BY <1>2, ScriptLength DEF Script
<1>3. ASSUME NEW w \in 0 .. N - 1
      PROVE  /\ Script(3 * w + 8) = Command(WRITE_MEMORY)
             /\ Script(3 * w + 9) = At(8 * w)
             /\ Script(3 * w + 10) = Checked(<<7>> \o NewImage[w + 1])
  <2>1. /\ 3 * w + 1 \in 1 .. 3 * N /\ 3 * w + 2 \in 1 .. 3 * N
        /\ 3 * w + 3 \in 1 .. 3 * N /\ w \in Nat
    BY ImageType
  <2>2. /\ Script(3 * w + 8) = Write(3 * w)
        /\ Script(3 * w + 9) = Write(3 * w + 1)
        /\ Script(3 * w + 10) = Write(3 * w + 2)
    <3>1. \A j \in 1 .. 3 * N : Script(j + 7) = Write(j - 1)
      <4>1. ASSUME NEW j \in 1 .. 3 * N PROVE Script(j + 7) = Write(j - 1)
        <5>1. j + 7 \in Nat /\ j + 7 > 7 /\ j + 7 - 7 = j
          BY ImageType
        <5>2. QED
          BY <1>2, <5>1, ScriptLength
      <4>2. QED
        BY <4>1
    <3>2. /\ (3 * w + 1) + 7 = 3 * w + 8 /\ (3 * w + 1) - 1 = 3 * w
          /\ (3 * w + 2) + 7 = 3 * w + 9 /\ (3 * w + 2) - 1 = 3 * w + 1
          /\ (3 * w + 3) + 7 = 3 * w + 10 /\ (3 * w + 3) - 1 = 3 * w + 2
      BY <2>1
    <3>3. QED
      BY ONLY <2>1, <3>1, <3>2, Zenon
  <2>3. /\ (3 * w) \div 3 = w /\ (3 * w) % 3 = 0
        /\ (3 * w + 1) \div 3 = w /\ (3 * w + 1) % 3 = 1
        /\ (3 * w + 2) \div 3 = w /\ (3 * w + 2) % 3 = 2
    BY ONLY <2>1
  <2>4. QED
    BY ONLY <2>2, <2>3 DEF Write
<1>4. Script(3 * N + 8) = Command(GO) /\ Script(3 * N + 9) = At(0)
  <2>1. Script(3 * N + 8) = AfterErase[3 * N + 1] /\ Script(3 * N + 9) = AfterErase[3 * N + 2]
    <3>1. PICK M \in Nat : M = 3 * N
      BY ImageType
    <3>2. Script(M + 8) = AfterErase[M + 1]
      <4>1. M + 8 \in Nat /\ M + 8 > 7 /\ (M + 8) - 7 = M + 1
        OBVIOUS
      <4>2. QED
        BY ONLY <1>2, <4>1
    <3>3. Script(M + 9) = AfterErase[M + 2]
      <4>1. M + 9 \in Nat /\ M + 9 > 7 /\ (M + 9) - 7 = M + 2
        OBVIOUS
      <4>2. QED
        BY ONLY <1>2, <4>1
    <3>4. QED
      BY ONLY <3>1, <3>2, <3>3
  <2>2. QED
    BY ONLY <2>1, ScriptLength
<1>5. QED
  BY <1>1, <1>3, <1>4

(* A place in the script is one of these.                                  *)
LEMMA Places ==
  ASSUME NEW i \in 1 .. LastPacket
  PROVE  \/ i \in 1 .. 7
         \/ \E w \in 0 .. N - 1 : i \in {3 * w + 8, 3 * w + 9, 3 * w + 10}
         \/ i = 3 * N + 8 \/ i = 3 * N + 9
<1>1. i \in Nat /\ i >= 1 /\ i <= 3 * N + 9 /\ N \in Nat
  BY ScriptLength, ImageType
<1>2. CASE i > 7 /\ i < 3 * N + 8
  <2>1. PICK w \in Nat : w = (i - 8) \div 3
    BY <1>1, <1>2
  <2>2. 3 * w + 8 <= i /\ i < 3 * w + 11
    BY ONLY <1>1, <1>2, <2>1
  <2>3. w \in 0 .. N - 1 /\ (i = 3 * w + 8 \/ i = 3 * w + 9 \/ i = 3 * w + 10)
    BY ONLY <1>1, <1>2, <2>1, <2>2
  <2>4. QED
    BY <2>3
<1>3. QED
  BY <1>1, <1>2

(* Where the command of a packet is, and whether it goes on behind it.     *)
LEMMA Commands ==
  /\ \A i \in 1 .. 3 : CommandOf(i) = i
  /\ CommandOf(4) = 3 /\ CommandOf(5) = 3 /\ CommandOf(6) = 6 /\ CommandOf(7) = 6
  /\ \A w \in Nat : /\ CommandOf(3 * w + 8) = 3 * w + 8
                    /\ CommandOf(3 * w + 9) = 3 * w + 8
                    /\ CommandOf(3 * w + 10) = 3 * w + 8
<1>1. /\ \A i \in 1 .. 3 : CommandOf(i) = i
      /\ CommandOf(4) = 3 /\ CommandOf(5) = 3 /\ CommandOf(6) = 6 /\ CommandOf(7) = 6
  BY ScriptLength DEF CommandOf
<1>2. ASSUME NEW i \in Nat, i > 7 PROVE CommandOf(i) = i - ((i - 8) % 3)
  BY <1>2, ScriptLength DEF CommandOf
<1>3. ASSUME NEW w \in Nat
      PROVE  /\ CommandOf(3 * w + 8) = 3 * w + 8
             /\ CommandOf(3 * w + 9) = 3 * w + 8
             /\ CommandOf(3 * w + 10) = 3 * w + 8
  <2>1. /\ CommandOf(3 * w + 8) = 3 * w + 8 - ((3 * w + 8 - 8) % 3)
        /\ CommandOf(3 * w + 9) = 3 * w + 9 - ((3 * w + 9 - 8) % 3)
        /\ CommandOf(3 * w + 10) = 3 * w + 10 - ((3 * w + 10 - 8) % 3)
    BY <1>2
  <2>2. (3 * w) % 3 = 0 /\ (3 * w + 1) % 3 = 1 /\ (3 * w + 2) % 3 = 2
    OBVIOUS
  <2>3. QED
    BY <2>1, <2>2
<1>4. QED
  BY <1>1, <1>3

(* Behind which packets the command they belong to goes on.                *)
LEMMA GoingOn ==
  /\ ~GoesOn(1) /\ ~GoesOn(2) /\ GoesOn(3) /\ GoesOn(4)
  /\ ~GoesOn(5) /\ GoesOn(6) /\ ~GoesOn(7)
  /\ \A w \in 0 .. N - 1 :
       GoesOn(3 * w + 8) /\ GoesOn(3 * w + 9) /\ ~GoesOn(3 * w + 10)
  /\ GoesOn(3 * N + 8) /\ ~GoesOn(3 * N + 9)
<1>1. N \in Nat /\ N >= 2 /\ LastPacket = 3 * N + 9
  BY ScriptLength, ImageType
<1>2. CommandOf(8) = 8
  <2>1. 3 * 0 + 8 = 8
    OBVIOUS
  <2>2. QED
    BY <2>1, Commands
<1>3. /\ ~GoesOn(1) /\ ~GoesOn(2) /\ GoesOn(3) /\ GoesOn(4)
      /\ ~GoesOn(5) /\ GoesOn(6) /\ ~GoesOn(7)
  BY <1>1, <1>2, Commands DEF GoesOn
<1>4. ASSUME NEW w \in 0 .. N
      PROVE  /\ CommandOf((3 * w + 8) + 1) = 3 * w + 8
             /\ CommandOf((3 * w + 9) + 1) = 3 * w + 8
             /\ CommandOf((3 * w + 10) + 1) = 3 * w + 11
  <2>1. w \in Nat /\ w + 1 \in Nat
    BY <1>1
  <2>2. /\ (3 * w + 8) + 1 = 3 * w + 9 /\ (3 * w + 9) + 1 = 3 * w + 10
        /\ (3 * w + 10) + 1 = 3 * (w + 1) + 8 /\ 3 * w + 11 = 3 * (w + 1) + 8
    BY <1>1
  <2>3. QED
    BY ONLY <2>1, <2>2, Commands
<1>5. ASSUME NEW w \in 0 .. N - 1
      PROVE  GoesOn(3 * w + 8) /\ GoesOn(3 * w + 9) /\ ~GoesOn(3 * w + 10)
  <2>1. w \in 0 .. N
    BY <1>1
  <2>2. 3 * w + 9 < 3 * N + 9
    BY <1>1
  <2>3. QED
    BY <1>1, <1>4, <2>1, <2>2 DEF GoesOn
<1>6. GoesOn(3 * N + 8) /\ ~GoesOn(3 * N + 9)
  <2>1. N \in 0 .. N
    BY <1>1
  <2>2. QED
    BY <1>1, <1>4, <2>1 DEF GoesOn
<1>7. QED
  BY <1>3, <1>5, <1>6

(* The places of commands.                                                 *)
LEMMA CommandPlaces ==
  ASSUME NEW i \in 2 .. LastPacket, CommandOf(i) = i
  PROVE  \E cmd \in {GET, READ_MEMORY, ERASE, WRITE_MEMORY, GO} :
           /\ Script(i) = Command(cmd)
           /\ GoesOn(i) <=> cmd # GET
           /\ i # 7 /\ (i > 7 => i - 1 >= 7 /\ (i - 7) \div 3 = (i - 1 - 7) \div 3)
<1>1. N \in Nat /\ i \in 1 .. LastPacket /\ i \in Nat
  BY ImageType, ScriptLength
<1>2. i \notin {4, 5, 7}
  BY Commands
<1>3. GET # READ_MEMORY /\ GET # ERASE /\ GET # WRITE_MEMORY /\ GET # GO
  BY DEF GET, READ_MEMORY, ERASE, WRITE_MEMORY, GO
<1>4. CASE i \in 1 .. 7
  <2>1. i = 2 \/ i = 3 \/ i = 6
    BY <1>1, <1>2, <1>4
  <2>2. QED
    BY <1>3, <2>1, ScriptPackets, GoingOn
<1>5. ASSUME NEW w \in Nat, i = 3 * w + 8
      PROVE  i > 7 /\ i - 1 >= 7 /\ (i - 7) \div 3 = (i - 1 - 7) \div 3
  BY <1>5
<1>6. CASE \E w \in 0 .. N - 1 : i \in {3 * w + 8, 3 * w + 9, 3 * w + 10}
  <2>1. PICK w \in 0 .. N - 1 : i \in {3 * w + 8, 3 * w + 9, 3 * w + 10}
    BY <1>6
  <2>2. w \in Nat
    BY <1>1
  <2>3. i = 3 * w + 8
    BY <2>1, <2>2, Commands
  <2>4. QED
    BY <1>3, <1>5, <2>2, <2>3, ScriptPackets, GoingOn
<1>7. CASE i = 3 * N + 8
  BY <1>1, <1>3, <1>5, <1>7, ScriptPackets, GoingOn
<1>8. i # 3 * N + 9
  <2>1. CommandOf(3 * N + 9) = 3 * N + 8
    BY <1>1, Commands
  <2>2. 3 * N + 8 # 3 * N + 9
    BY <1>1
  <2>3. QED
    BY <2>1, <2>2
<1>9. QED
  BY <1>1, <1>4, <1>6, <1>7, <1>8, Places

(* The places of an address.                                               *)
AddressPlace(i, offset, cmd) ==
  /\ i - 1 \in 1 .. LastPacket /\ CommandOf(i) = i - 1 /\ CommandOf(i - 1) = i - 1
  /\ GoesOn(i - 1)
  /\ offset \in Nat /\ offset <= 8 * MaxWords
  /\ Script(i - 1) = Command(cmd) /\ Script(i) = At(offset)
  /\ \/ cmd = READ_MEMORY /\ i = 4
     \/ cmd = WRITE_MEMORY /\ i > 7 /\ GoesOn(i)
     \/ cmd = GO /\ i > 7 /\ ~GoesOn(i)
  /\ i # 7 /\ (i > 7 => i - 1 >= 7 /\ (i - 7) \div 3 = (i - 1 - 7) \div 3)

(* The place of the data for double word w.                                *)
DataPlace(i, w) ==
  /\ w \in 0 .. N - 1 /\ i = 3 * w + 10
  /\ CommandOf(i) = i - 2 /\ CommandOf(i - 1) = i - 2
  /\ GoesOn(i - 1) /\ ~GoesOn(i)
  /\ Script(i - 2) = Command(WRITE_MEMORY) /\ Script(i - 1) = At(8 * w)
  /\ Script(i) = Checked(<<7>> \o NewImage[w + 1])
  /\ (i - 1 - 7) \div 3 = w /\ (i - 7) \div 3 = w + 1

(* A packet that is not a command carries an address, the count of a read, *)
(* the list of an erase, or a double word.                                 *)
LEMMA OtherPlaces ==
  ASSUME NEW i \in 1 .. LastPacket, CommandOf(i) # i
  PROVE  \/ \E offset, cmd : AddressPlace(i, offset, cmd)
         \/ i = 5 \/ i = 7
         \/ \E w : DataPlace(i, w)
<1>1. N \in Nat /\ N <= MaxWords /\ MaxWords \in Nat /\ i \in Nat /\ LastPacket = 3 * N + 9
  BY ImageType, ScriptLength, MaxWordsType
<1>2. CASE i \in 1 .. 7
  <2>1. i = 4 \/ i = 5 \/ i = 7
    BY <1>1, <1>2, Commands
  <2>2. CASE i = 4
    <3>1. AddressPlace(4, 0, READ_MEMORY)
      BY <1>1, Commands, GoingOn, ScriptPackets DEF AddressPlace
    <3>2. QED
      BY <2>2, <3>1
  <2>3. QED
    BY <2>1, <2>2
<1>3. ASSUME NEW w \in Nat, w <= N, i = 3 * w + 9, NEW cmd, NEW offset,
             offset \in Nat, offset <= 8 * MaxWords,
             GoesOn(3 * w + 8),
             Script(3 * w + 8) = Command(cmd), Script(3 * w + 9) = At(offset),
             (cmd = WRITE_MEMORY /\ GoesOn(3 * w + 9)) \/ (cmd = GO /\ ~GoesOn(3 * w + 9))
      PROVE  AddressPlace(i, offset, cmd)
  <2>1. i - 1 = 3 * w + 8 /\ i - 1 \in 1 .. LastPacket /\ i > 7 /\ i # 7 /\ i - 1 >= 7
    BY <1>1, <1>3
  <2>2. (3 * w + 9 - 7) \div 3 = w /\ (3 * w + 9 - 1 - 7) \div 3 = w
    BY ONLY w \in Nat
  <2>3. CommandOf(i) = i - 1 /\ CommandOf(i - 1) = i - 1
    BY <1>3, <2>1, Commands
  <2>4. QED
    BY <1>3, <2>1, <2>2, <2>3 DEF AddressPlace
<1>4. CASE \E w \in 0 .. N - 1 : i \in {3 * w + 8, 3 * w + 9, 3 * w + 10}
  <2>1. PICK w \in 0 .. N - 1 : i \in {3 * w + 8, 3 * w + 9, 3 * w + 10}
    BY <1>4
  <2>2. w \in Nat /\ w <= N /\ 8 * w \in Nat /\ 8 * w <= 8 * MaxWords
    BY <1>1
  <2>3. i = 3 * w + 9 \/ i = 3 * w + 10
    BY <2>1, <2>2, Commands
  <2>4. CASE i = 3 * w + 9
    <3>1. AddressPlace(i, 8 * w, WRITE_MEMORY)
      BY <1>3, <2>2, <2>4, ScriptPackets, GoingOn
    <3>2. QED
      BY <3>1
  <2>5. CASE i = 3 * w + 10
    <3>1. i - 1 = 3 * w + 9 /\ i - 2 = 3 * w + 8
      BY <2>2, <2>5
    <3>2. (3 * w + 10 - 7) \div 3 = w + 1 /\ (3 * w + 10 - 1 - 7) \div 3 = w
      BY ONLY <2>2
    <3>3. DataPlace(i, w)
      BY <2>2, <2>5, <3>1, <3>2, Commands, ScriptPackets, GoingOn DEF DataPlace
    <3>4. QED
      BY <3>3
  <2>6. QED
    BY <2>3, <2>4, <2>5
<1>5. CASE i = 3 * N + 9
  <2>1. AddressPlace(i, 0, GO)
    <3>1. 0 \in Nat /\ 0 <= 8 * MaxWords /\ N <= N
      BY <1>1
    <3>2. QED
      BY <1>1, <1>3, <1>5, <3>1, ScriptPackets, GoingOn
  <2>2. QED
    BY <2>1
<1>6. i # 3 * N + 8
  BY <1>1, Commands
<1>7. QED
  BY <1>1, <1>2, <1>4, <1>5, <1>6, Places

(* The bytes of an address, and what Address makes of them.                *)
LEMMA AddressBytesOf ==
  ASSUME NEW offset \in Nat, offset <= 8 * MaxWords
  PROVE  /\ At(offset).bytes \in Seq(Byte) /\ Len(At(offset).bytes) = 5
         /\ At(offset).acks = 1
         /\ Address(At(offset).bytes) = APP_ADDR + offset
<1>1. APP_ADDR % 16777216 = 32768 /\ offset <= 221184 /\ APP_ADDR = 134250496
  BY SMT DEF APP_ADDR, MaxWords
<1>2. PICK low \in Nat : low = 32768 + offset /\ low <= 253952
  BY <1>1, SMT
<1>3. PICK a, b, r : a = low \div 65536 /\ b = (low \div 256) % 256 /\ r = low % 256
  OBVIOUS
<1>4. /\ a \in 0 .. 255 /\ b \in 0 .. 255 /\ r \in 0 .. 255
      /\ low = 65536 * a + 256 * b + r
  <2>1. PICK q \in Nat : q = low \div 256
    BY <1>2, SMT
  <2>2. low = 256 * q + r /\ r \in 0 .. 255
    BY <1>2, <1>3, <2>1, SMT
  <2>3. q \div 256 = a
    BY <1>2, <1>3, <2>1, SMT
  <2>4. q = 256 * a + b /\ b \in 0 .. 255 /\ a \in Nat /\ a < 256
    BY <1>2, <1>3, <2>1, <2>2, <2>3, SMT
  <2>5. QED
    BY ONLY <2>2, <2>4, <2>1, SMT
<1>5. AddressBytes(low) = <<8, a, b, r>> /\ AddressBytes(low) \in Seq(Byte)
  BY <1>3, <1>4, SMT DEF AddressBytes, Byte
<1>6. PICK x \in Byte : x = Checksum(AddressBytes(low))
  BY <1>5, ChecksumType
<1>7. PICK s, t : s = <<8, a, b, r>> /\ t = Append(s, x)
  OBVIOUS
<1>8. At(offset) = Packet(t, 1)
  <2>1. At(offset) = Checked(AddressBytes(low))
    BY <1>1, <1>2, SMT DEF At
  <2>2. QED
    BY <1>5, <1>6, <1>7, <2>1 DEF Checked
<1>9. /\ t \in Seq(Byte) /\ Len(t) = 5
      /\ t[1] = 8 /\ t[2] = a /\ t[3] = b /\ t[4] = r
  <2>1. /\ s \in Seq(Byte) /\ Len(s) = 4
        /\ s[1] = 8 /\ s[2] = a /\ s[3] = b /\ s[4] = r
    BY <1>5, <1>7
  <2>2. QED
    BY ONLY <1>7, <2>1, x \in Byte, AppendProperties
<1>10. ((8 * 256 + a) * 256 + b) * 256 + r = APP_ADDR + offset
  BY ONLY <1>1, <1>2, <1>4, offset \in Nat, SMT
<1>11. Address(t) = APP_ADDR + offset
  BY ONLY <1>9, <1>10 DEF Address
<1>12. QED
  BY ONLY <1>8, <1>9, <1>11 DEF Packet

(* The bytes that carry a double word.                                     *)
LEMMA DataBytesOf ==
  ASSUME NEW word \in [1..8 -> Byte]
  PROVE  LET p == Checked(<<7>> \o word)
         IN  /\ p.bytes \in Seq(Byte) /\ Len(p.bytes) = 10 /\ p.acks = 1
             /\ p.bytes[1] = 7
             /\ \A i \in 1..8 : p.bytes[i + 1] = word[i]
<1>1. word \in Seq(Byte) /\ Len(word) = 8
  BY FunctionIsSeq
<1>2. <<7>> \in Seq(Byte)
  BY DEF Byte
<1>3. PICK s : s = <<7>> \o word
  OBVIOUS
<1>4. /\ s \in Seq(Byte) /\ Len(s) = 9 /\ s[1] = 7
      /\ \A i \in 1..8 : s[i + 1] = word[i]
  <2>1. Len(<<7>>) = 1 /\ <<7>>[1] = 7
    OBVIOUS
  <2>0. PICK h : h = <<7>>
    OBVIOUS
  <2>b. /\ s \in Seq(Byte) /\ Len(s) = Len(h) + Len(word)
        /\ \A i \in 1 .. Len(h) + Len(word) :
             s[i] = IF i <= Len(h) THEN h[i] ELSE word[i - Len(h)]
    <3>1. h \in Seq(Byte) /\ word \in Seq(Byte)
      BY ONLY <1>1, <1>2, <2>0, Zenon
    <3>2. /\ h \o word \in Seq(Byte) /\ Len(h \o word) = Len(h) + Len(word)
          /\ \A i \in 1 .. Len(h) + Len(word) :
               (h \o word)[i] = IF i <= Len(h) THEN h[i] ELSE word[i - Len(h)]
      BY ONLY <3>1, ConcatProperties, Zenon
    <3>3. s = h \o word
      BY ONLY <1>3, <2>0, Zenon
    <3>4. QED
      BY ONLY <3>2, <3>3, Zenon
  <2>2. /\ s \in Seq(Byte) /\ Len(s) = 9
        /\ \A i \in 1..9 : s[i] = IF i <= 1 THEN <<7>>[i] ELSE word[i - 1]
    BY ONLY <1>1, <2>1, <2>0, <2>b
  <2>3. \A i \in 1..8 : i + 1 \in 1..9 /\ ~(i + 1 <= 1) /\ (i + 1) - 1 = i
    OBVIOUS
  <2>4. \A i \in 1..8 : s[i + 1] = word[i]
    BY ONLY <2>2, <2>3
  <2>5. s[1] = 7
    BY ONLY <2>1, <2>2
  <2>6. QED
    BY ONLY <2>2, <2>4, <2>5
<1>5. Checksum(s) \in Byte
  BY <1>4, ChecksumType
<1>6. Checked(s).bytes = Append(s, Checksum(s)) /\ Checked(s).acks = 1
  BY DEF Checked, Packet
<1>7. PICK t : t = Append(s, Checksum(s))
  OBVIOUS
<1>8. /\ t \in Seq(Byte) /\ Len(t) = 10
      /\ \A i \in 1..9 : t[i] = s[i]
  <2>1. PICK x \in Byte : x = Checksum(s)
    BY <1>5
  <2>2. /\ t \in Seq(Byte) /\ Len(t) = Len(s) + 1
        /\ \A i \in 1 .. Len(s) : t[i] = s[i]
    <3>1. s \in Seq(Byte)
      BY <1>4
    <3>2. /\ Append(s, x) \in Seq(Byte) /\ Len(Append(s, x)) = Len(s) + 1
          /\ \A i \in 1 .. Len(s) : Append(s, x)[i] = s[i]
      BY ONLY <3>1, x \in Byte, AppendProperties
    <3>3. QED
      BY ONLY <1>7, <2>1, <3>2, Zenon
  <2>3. QED
    BY ONLY <1>4, <2>2
<1>9. t[1] = 7 /\ \A i \in 1..8 : t[i + 1] = word[i]
  BY ONLY <1>4, <1>8
<1>10. QED
  BY ONLY <1>3, <1>6, <1>7, <1>8, <1>9

(* The bytes of a command.                                                 *)
LEMMA CommandBytesOf ==
  ASSUME NEW cmd \in {GET, READ_MEMORY, ERASE, WRITE_MEMORY, GO}
  PROVE  /\ Command(cmd).bytes = <<cmd, 255 - cmd>>
         /\ Command(cmd).bytes[1] = cmd
         /\ Command(cmd).acks = IF cmd = GET THEN 2 ELSE 1
         /\ cmd \in Byte /\ 255 - cmd \in Byte /\ cmd # SYNC /\ 255 - cmd # SYNC
         /\ cmd \in Supported /\ cmd + (255 - cmd) = 255
         /\ cmd \in {GET, GET_VERSION, GET_ID} <=> cmd = GET
BY DEF Command, Packet, Byte, SYNC, Supported,
       GET, READ_MEMORY, ERASE, WRITE_MEMORY, GO, GET_VERSION, GET_ID

(* What the protocol has received behind a command.                        *)
LEMMA Flows ==
  ASSUME erase_list \in EraseLists, NEW i \in 1 .. LastPacket
  PROVE  /\ CommandOf(i) = i => Flow(i) = <<>>
         /\ \A offset, cmd : AddressPlace(i, offset, cmd) =>
              /\ Flow(i) = At(offset).bytes /\ Flow(i - 1) = <<>>
              /\ Script(i).bytes = At(offset).bytes
              /\ InFlow(i) <=> context.command = cmd
         /\ i = 5 => /\ Flow(i) = At(0).bytes \o <<7, 248>> /\ Flow(i - 1) = At(0).bytes
                     /\ InFlow(i) <=> context.command = READ_MEMORY
         /\ i = 7 => /\ Flow(i) = erase_list /\ Flow(i - 1) = <<>>
                     /\ InFlow(i) <=> context.command = ERASE
         /\ \A w : DataPlace(i, w) =>
              /\ Flow(i) = At(8 * w).bytes \o Checked(<<7>> \o NewImage[w + 1]).bytes
              /\ Flow(i - 1) = At(8 * w).bytes
              /\ InFlow(i) <=> context.command = WRITE_MEMORY
<1>1. i \in Int /\ \A cmd \in {GET, READ_MEMORY, ERASE, WRITE_MEMORY, GO} :
                     Command(cmd).bytes[1] = cmd
  BY ScriptLength, ImageType, CommandBytesOf
<1>2. CommandOf(i) = i => Flow(i) = <<>>
  BY <1>1 DEF Flow
<1>3. ASSUME NEW offset, NEW cmd, AddressPlace(i, offset, cmd)
      PROVE  /\ Flow(i) = At(offset).bytes /\ Flow(i - 1) = <<>>
             /\ Script(i).bytes = At(offset).bytes
             /\ InFlow(i) <=> context.command = cmd
  <2>1. /\ CommandOf(i) = i - 1 /\ CommandOf(i - 1) = i - 1 /\ Script(i) = At(offset)
        /\ Script(i - 1) = Command(cmd) /\ Command(cmd).bytes[1] = cmd
    BY <1>1, <1>3 DEF AddressPlace
  <2>2. Flow(i - 1) = <<>>
    BY <1>1, <2>1 DEF Flow
  <2>3. i # i - 1 /\ i = (i - 1) + 1
    BY <1>1
  <2>4. QED
    BY <2>1, <2>2, <2>3 DEF Flow, InFlow
<1>4. ASSUME i = 5
      PROVE  /\ Flow(i) = At(0).bytes \o <<7, 248>> /\ Flow(i - 1) = At(0).bytes
             /\ InFlow(i) <=> context.command = READ_MEMORY
  <2>1. /\ CommandOf(4) = 3 /\ CommandOf(5) = 3
        /\ Script(4) = At(0) /\ Script(5).bytes = <<7, 248>>
    BY Commands, ScriptPackets DEF Packet
  <2>2. Flow(4) = At(0).bytes
    BY ONLY <2>1 DEF Flow
  <2>3. Flow(5) = Script(4).bytes \o Script(5).bytes
    <3>1. 5 # 3 /\ 5 # 3 + 1 /\ 5 = 3 + 2 /\ 5 - 1 = 4
      OBVIOUS
    <3>2. CommandOf(5) = 3
      BY <2>1
    <3>3. Flow(5) = Script(5 - 1).bytes \o Script(5).bytes
      BY ONLY <3>1, <3>2, Zenon DEF Flow
    <3>4. QED
      BY ONLY <3>1, <3>3, Zenon
  <2>4. InFlow(5) <=> context.command = READ_MEMORY
    <3>1. Script(CommandOf(5)).bytes[1] = READ_MEMORY
      BY <1>1, <2>1, ScriptPackets
    <3>2. QED
      BY ONLY <3>1, Zenon DEF InFlow
  <2>5. 5 - 1 = 4
    OBVIOUS
  <2>6. QED
    BY ONLY <1>4, <2>1, <2>2, <2>3, <2>4, <2>5, Zenon
<1>5. ASSUME i = 7
      PROVE  /\ Flow(i) = erase_list /\ Flow(i - 1) = <<>>
             /\ InFlow(i) <=> context.command = ERASE
  <2>1. CommandOf(6) = 6 /\ CommandOf(7) = 6 /\ Script(7).bytes = erase_list
    BY Commands, ScriptPackets DEF Packet
  <2>2. Flow(6) = <<>>
    BY ONLY <2>1 DEF Flow
  <2>3. Flow(7) = Script(7).bytes
    BY ONLY <2>1 DEF Flow
  <2>4. QED
    BY <1>1, <1>5, <2>1, <2>2, <2>3, Commands, ScriptPackets DEF InFlow
<1>6. ASSUME NEW w, DataPlace(i, w)
      PROVE  /\ Flow(i) = At(8 * w).bytes \o Checked(<<7>> \o NewImage[w + 1]).bytes
             /\ Flow(i - 1) = At(8 * w).bytes
             /\ InFlow(i) <=> context.command = WRITE_MEMORY
  <2>1. /\ CommandOf(i) = i - 2 /\ CommandOf(i - 1) = i - 2
        /\ Script(i) = Checked(<<7>> \o NewImage[w + 1]) /\ Script(i - 1) = At(8 * w)
        /\ Script(i - 2) = Command(WRITE_MEMORY)
        /\ Command(WRITE_MEMORY).bytes[1] = WRITE_MEMORY
    BY <1>1, <1>6 DEF DataPlace
  <2>2. i # i - 2 /\ i # (i - 2) + 1 /\ i = (i - 2) + 2 /\ i - 1 # i - 2 /\ i - 1 = (i - 2) + 1
    BY <1>1
  <2>3. Flow(i - 1) = Script(i - 1).bytes
    BY <2>1, <2>2 DEF Flow
  <2>4. QED
    BY <2>1, <2>2, <2>3 DEF Flow, InFlow
<1>7. QED
  BY ONLY <1>2, <1>3, <1>4, <1>5, <1>6

(* The same, for each kind of packet.                                      *)
LEMMA AddressFlow ==
  ASSUME erase_list \in EraseLists, NEW i \in 1 .. LastPacket,
         NEW offset, NEW cmd, AddressPlace(i, offset, cmd)
  PROVE  /\ Flow(i) = At(offset).bytes /\ Flow(i - 1) = <<>>
         /\ Script(i).bytes = At(offset).bytes
         /\ InFlow(i) <=> context.command = cmd
<1>1. \A o, k : AddressPlace(i, o, k) =>
        /\ Flow(i) = At(o).bytes /\ Flow(i - 1) = <<>>
        /\ Script(i).bytes = At(o).bytes
        /\ InFlow(i) <=> context.command = k
  BY Flows
<1>2. QED
  BY ONLY <1>1, AddressPlace(i, offset, cmd), Zenon

(* The count of a read.                                                  *)
LEMMA CountFlow ==
  ASSUME erase_list \in EraseLists, NEW i \in 1 .. LastPacket, i = 5
  PROVE  /\ Flow(i) = At(0).bytes \o <<7, 248>> /\ Flow(i - 1) = At(0).bytes
         /\ InFlow(i) <=> context.command = READ_MEMORY
BY Flows, Zenon

(* The list of an erase.                                                 *)
LEMMA EraseFlow ==
  ASSUME erase_list \in EraseLists, NEW i \in 1 .. LastPacket, i = 7
  PROVE  /\ Flow(i) = erase_list /\ Flow(i - 1) = <<>>
         /\ InFlow(i) <=> context.command = ERASE
BY Flows, Zenon

(* A double word.                                                        *)
LEMMA DataFlow ==
  ASSUME erase_list \in EraseLists, NEW i \in 1 .. LastPacket, NEW w, DataPlace(i, w)
  PROVE  /\ Flow(i) = At(8 * w).bytes \o Checked(<<7>> \o NewImage[w + 1]).bytes
         /\ Flow(i - 1) = At(8 * w).bytes
         /\ InFlow(i) <=> context.command = WRITE_MEMORY
BY Flows, Zenon

(* A buffer b takes the first byte of a line l and becomes c; f is what    *)
(* both are together.                                                      *)
Hears(b, l, c, f) ==
  /\ c \in Seq(Byte) /\ Len(c) = Len(b) + 1
  /\ Tail(l) \in Seq(Byte) /\ Len(l) >= 1 /\ Len(Tail(l)) = Len(l) - 1
  /\ f \in Seq(Byte) /\ Len(f) = Len(b) + Len(l)
  /\ c \o Tail(l) = f
  /\ \A k \in 1 .. Len(c) : c[k] = f[k]
  /\ Tail(l) = <<>> <=> Len(c) = Len(f)

(* What a byte does to the buffer that takes it and to the line it leaves. *)
LEMMA HearByte ==
  ASSUME NEW b \in Seq(Byte), NEW l \in Seq(Byte), l # <<>>,
         NEW c, c = Append(b, Head(l)), NEW f, f = b \o l
  PROVE  Hears(b, l, c, f)
<1>1. /\ Head(l) \in Byte /\ Tail(l) \in Seq(Byte) /\ Len(Tail(l)) = Len(l) - 1
      /\ \A i \in 1 .. Len(Tail(l)) : Tail(l)[i] = l[i + 1]
  BY HeadTailProperties
<1>2. Len(l) \in Nat /\ Len(l) >= 1 /\ Len(b) \in Nat /\ Head(l) = l[1]
  BY LenProperties, EmptySeq
<1>3. /\ c \in Seq(Byte) /\ Len(c) = Len(b) + 1
      /\ \A i \in 1 .. Len(b) : c[i] = b[i]
      /\ c[Len(b) + 1] = Head(l)
  BY <1>1, AppendProperties
<1>4. /\ f \in Seq(Byte) /\ Len(f) = Len(b) + Len(l)
      /\ \A i \in 1 .. Len(b) + Len(l) : f[i] = IF i <= Len(b) THEN b[i] ELSE l[i - Len(b)]
  BY ConcatProperties
<1>5. PICK g : g = c \o Tail(l)
  OBVIOUS
<1>6. /\ g \in Seq(Byte) /\ Len(g) = Len(c) + Len(Tail(l))
      /\ \A i \in 1 .. Len(c) + Len(Tail(l)) :
           g[i] = IF i <= Len(c) THEN c[i] ELSE Tail(l)[i - Len(c)]
  BY <1>1, <1>3, <1>5, ConcatProperties
<1>7. ASSUME NEW k \in 1 .. Len(c) PROVE c[k] = f[k]
  <2>1. CASE k <= Len(b)
    <3>1. k \in 1 .. Len(b) /\ k \in 1 .. Len(b) + Len(l)
      BY ONLY <1>2, <1>3, <2>1, k \in 1 .. Len(c)
    <3>2. QED
      BY ONLY <1>3, <1>4, <2>1, <3>1
  <2>2. CASE k = Len(b) + 1
    <3>1. k \in 1 .. Len(b) + Len(l) /\ ~(k <= Len(b)) /\ k - Len(b) = 1
      BY ONLY <1>2, <2>2
    <3>2. f[k] = l[k - Len(b)]
      BY ONLY <1>4, <3>1
    <3>3. QED
      BY ONLY <1>2, <1>3, <2>2, <3>1, <3>2
  <2>3. k <= Len(b) \/ k = Len(b) + 1
    BY ONLY <1>2, <1>3, k \in 1 .. Len(c)
  <2>4. QED
    BY ONLY <2>1, <2>2, <2>3
<1>8. ASSUME NEW k \in 1 .. Len(f) PROVE g[k] = f[k]
  <2>1. CASE k <= Len(c)
    <3>1. k \in 1 .. Len(c) /\ k \in 1 .. Len(c) + Len(Tail(l))
      BY ONLY <1>1, <1>2, <1>3, <1>4, <2>1, k \in 1 .. Len(f)
    <3>2. QED
      BY ONLY <1>6, <1>7, <2>1, <3>1
  <2>2. CASE k > Len(c)
    <3>1. PICK i : i = k - Len(c)
      OBVIOUS
    <3>2. /\ i \in 1 .. Len(Tail(l)) /\ i + 1 = k - Len(b) /\ ~(k <= Len(b)) /\ ~(k <= Len(c))
          /\ k \in 1 .. Len(b) + Len(l) /\ k \in 1 .. Len(c) + Len(Tail(l))
      BY ONLY <1>1, <1>2, <1>3, <1>4, <2>2, <3>1, k \in 1 .. Len(f)
    <3>3. f[k] = l[i + 1] /\ g[k] = Tail(l)[i]
      BY ONLY <1>4, <1>6, <3>1, <3>2
    <3>4. QED
      BY ONLY <1>1, <3>2, <3>3
  <2>3. k <= Len(c) \/ k > Len(c)
    BY ONLY <1>2, <1>3, <1>4, k \in 1 .. Len(f)
  <2>4. QED
    BY ONLY <2>1, <2>2, <2>3
<1>9. Len(g) = Len(f)
  BY ONLY <1>1, <1>2, <1>3, <1>4, <1>6
<1>10. g = f
  BY ONLY <1>4, <1>6, <1>8, <1>9, SeqEqual
<1>11. Tail(l) = <<>> <=> Len(Tail(l)) = 0
  BY <1>1, EmptySeq
<1>12. Tail(l) = <<>> <=> Len(c) = Len(f)
  BY ONLY <1>1, <1>2, <1>3, <1>4, <1>11
<1>13. c \o Tail(l) = f
  BY <1>5, <1>10
<1>14. QED
  BY ONLY <1>1, <1>2, <1>3, <1>4, <1>7, <1>12, <1>13, Zenon DEF Hears

-----------------------------------------------------------------------------
(* The command of the context decides who takes the byte.                  *)
LEMMA ProcessOf ==
  ASSUME NEW c
  PROVE  /\ c.command = READ_MEMORY => Process(c) = ProcessRead(c)
         /\ c.command = WRITE_MEMORY => Process(c) = ProcessWrite(c)
         /\ c.command = ERASE => Process(c) = ProcessErase(c)
         /\ c.command = GO => Process(c) = ProcessGo(c)
<1>1. /\ READ_MEMORY # WRITE_MEMORY /\ READ_MEMORY # ERASE /\ READ_MEMORY # GO
      /\ WRITE_MEMORY # ERASE /\ WRITE_MEMORY # GO /\ ERASE # GO
  BY DEF READ_MEMORY, WRITE_MEMORY, ERASE, GO
<1>2. c.command = READ_MEMORY => Process(c) = ProcessRead(c)
  BY ONLY <1>1 DEF Process
<1>3. c.command = WRITE_MEMORY => Process(c) = ProcessWrite(c)
  BY ONLY <1>1 DEF Process
<1>4. c.command = ERASE => Process(c) = ProcessErase(c)
  BY ONLY <1>1 DEF Process
<1>5. c.command = GO => Process(c) = ProcessGo(c)
  BY ONLY <1>1 DEF Process
<1>6. QED
  BY ONLY <1>2, <1>3, <1>4, <1>5

(* What the packet at place i makes the device do.                         *)
Effect(i, operation) ==
  \/ operation = NoFlash /\ (i = 5 \/ \E offset, cmd : AddressPlace(i, offset, cmd))
  \/ operation = EraseApp /\ i = 7
  \/ \E w : operation = FlashWrite(8 * w, NewImage[w + 1]) /\ DataPlace(i, w)

(* How the protocol answers the last byte of the packet at place i.        *)
Ends(i, c, o) ==
  \/ o = Nack(c)
  \/ \E operation, reset :
       /\ o = Outcome(IF GoesOn(i) THEN c ELSE Cleared(c), <<"ack">>, operation, reset)
       /\ Effect(i, operation)

(* A context that has received n bytes of a flow f.                        *)
Received(c, f, n) ==
  /\ c \in Contexts /\ c.state = "process" /\ n \in Nat /\ Len(c.buffer) = n
  /\ f \in Seq(Byte) /\ Len(f) \in Nat /\ n <= Len(f)
  /\ \A k \in 1 .. n : c.buffer[k] = f[k]

(* An address is answered with its checksum, and waited for until then.    *)
LEMMA AddressHeard ==
  ASSUME NEW c, NEW i \in 1 .. LastPacket, NEW offset, NEW cmd, AddressPlace(i, offset, cmd),
         NEW f, Len(f) = 5, NEW n, Received(c, f, n), n >= 1, c.command = cmd
  PROVE  /\ n < 5 => Process(c) = Wait(c)
         /\ n = 5 => Ends(i, c, Process(c))
<1>1. n \in Nat /\ n <= 5 /\ Len(c.buffer) = n
  BY DEF Received
<1>2. Effect(i, NoFlash)
  BY DEF Effect
<1>3. \A d : Ends(i, c, Nack(d)) \/ d # c
  BY DEF Ends
<1>4. Answer(c, <<"ack">>) = Outcome(c, <<"ack">>, NoFlash, FALSE)
  BY DEF Answer
<1>5. READ_MEMORY # WRITE_MEMORY /\ READ_MEMORY # GO /\ WRITE_MEMORY # GO /\ GO # ERASE
  BY DEF READ_MEMORY, WRITE_MEMORY, GO, ERASE
<1>6. CASE cmd = READ_MEMORY
  <2>1. GoesOn(i)
    BY <1>5, <1>6, GoingOn DEF AddressPlace
  <2>2. Process(c) = ProcessRead(c)
    BY <1>6, ProcessOf
  <2>3. n < 5 => ProcessRead(c) = Wait(c)
    BY ONLY <1>1 DEF ProcessRead
  <2>4. n = 5 => ProcessRead(c) \in {Answer(c, <<"ack">>), Nack(c)}
    BY <1>1 DEF ProcessRead, AddressCheck
  <2>5. QED
    BY <1>2, <1>4, <2>1, <2>2, <2>3, <2>4 DEF Ends
<1>7. CASE cmd = WRITE_MEMORY
  <2>1. GoesOn(i)
    BY <1>5, <1>7 DEF AddressPlace
  <2>2. Process(c) = ProcessWrite(c)
    BY <1>7, ProcessOf
  <2>3. n < 5 => ProcessWrite(c) = Wait(c)
    <3>1. n < 5 => Len(c.buffer) # 5 /\ ~(Len(c.buffer) >= 6)
      BY ONLY <1>1
    <3>2. QED
      BY ONLY <3>1, Zenon DEF ProcessWrite
  <2>4. n = 5 => ProcessWrite(c) \in {Answer(c, <<"ack">>), Nack(c)}
    BY <1>1 DEF ProcessWrite, AddressCheck
  <2>5. QED
    BY <1>2, <1>4, <2>1, <2>2, <2>3, <2>4 DEF Ends
<1>8. CASE cmd = GO
  <2>1. ~GoesOn(i)
    BY <1>5, <1>8 DEF AddressPlace
  <2>2. Process(c) = ProcessGo(c)
    BY <1>8, ProcessOf
  <2>3. n < 5 => ProcessGo(c) = Wait(c)
    <3>1. n < 5 => Len(c.buffer) # 5 /\ ~(Len(c.buffer) >= 6)
      BY ONLY <1>1
    <3>2. QED
      BY ONLY <3>1, Zenon DEF ProcessGo
  <2>4. n = 5 => ProcessGo(c) \in {Outcome(Cleared(c), <<"ack">>, NoFlash, TRUE), Nack(c)}
    BY <1>1 DEF ProcessGo
  <2>5. QED
    BY <1>2, <2>1, <2>2, <2>3, <2>4 DEF Ends
<1>9. QED
  BY <1>6, <1>7, <1>8 DEF AddressPlace

(* The count of a read, behind its address.                                *)
LEMMA CountHeard ==
  ASSUME NEW c, NEW f, Len(f) = 7, NEW n, Received(c, f, n), n >= 6,
         c.command = READ_MEMORY
  PROVE  /\ n < 7 => Process(c) = Wait(c)
         /\ n = 7 => Ends(5, c, Process(c))
<1>1. n \in Nat /\ n <= 7 /\ Len(c.buffer) = n
  BY DEF Received
<1>2. Effect(5, NoFlash) /\ ~GoesOn(5)
  BY GoingOn DEF Effect
<1>3. Answer(Cleared(c), <<"ack">>) = Outcome(Cleared(c), <<"ack">>, NoFlash, FALSE)
  BY DEF Answer
<1>4. Process(c) = ProcessRead(c)
  BY ProcessOf
<1>5. n < 7 => ProcessRead(c) = Wait(c)
  BY <1>1 DEF ProcessRead
<1>6. n = 7 => ProcessRead(c) \in {Answer(Cleared(c), <<"ack">>), Nack(c)}
  BY <1>1 DEF ProcessRead
<1>7. QED
  BY <1>2, <1>3, <1>4, <1>5, <1>6 DEF Ends

(* The list of an erase: answered when as many bytes are there as it says. *)
LEMMA EraseHeard ==
  ASSUME NEW c, NEW f \in EraseLists, NEW n, Received(c, f, n), n >= 1,
         c.command = ERASE
  PROVE  /\ n < Len(f) => Process(c) = Wait(c)
         /\ n = Len(f) => Ends(7, c, Process(c))
<1>1. n \in Nat /\ n <= Len(f) /\ Len(c.buffer) = n /\ Len(f) \in Nat /\ f \in Seq(Byte)
      /\ \A k \in 1 .. n : c.buffer[k] = f[k]
  BY DEF Received
<1>2. c.buffer[1] = f[1]
  BY <1>1
<1>3. Effect(7, EraseApp) /\ ~GoesOn(7)
  BY GoingOn DEF Effect
<1>4. Process(c) = ProcessErase(c)
  BY ProcessOf
<1>5. ASSUME NEW pages, \E p \in pages : p \in {APP_PAGE, ERASE_ALL}
      PROVE  Ends(7, c, Outcome(Cleared(c), <<"ack">>, ErasePages(pages), FALSE))
  <2>1. ErasePages(pages) = EraseApp
    BY <1>5 DEF ErasePages, ErasesApp
  <2>2. QED
    BY <1>3, <2>1 DEF Ends
<1>6. \/ f = <<ERASE_ALL, 0>>
      \/ /\ Len(f) >= 4 /\ f[1] # ERASE_ALL /\ Len(f) = f[1] + 3
         /\ \E i \in 2 .. Len(f) - 1 : f[i] \in {APP_PAGE, ERASE_ALL}
  BY FirmwareUpdateAssumption
<1>7. CASE f = <<ERASE_ALL, 0>>
  <2>1. Len(f) = 2 /\ f[1] = ERASE_ALL
    BY <1>7
  <2>2. n < 2 => ProcessErase(c) = Wait(c)
    <3>1. n < 2 => n # 2 /\ n # c.buffer[1] + 3
      BY <1>1, <1>2, <2>1 DEF ERASE_ALL
    <3>2. QED
      BY ONLY <1>1, <3>1 DEF ProcessErase
  <2>3. n = 2 => ProcessErase(c)
                   = Outcome(Cleared(c), <<"ack">>, ErasePages({ERASE_ALL}), FALSE)
    <3>1. n = 2 => /\ Len(c.buffer) = 2 /\ c.buffer[1] = ERASE_ALL
                   /\ Len(c.buffer) # c.buffer[1] + 3
      BY ONLY <1>1, <1>2, <2>1 DEF ERASE_ALL
    <3>2. QED
      BY ONLY <3>1, Zenon DEF ProcessErase
  <2>4. Ends(7, c, Outcome(Cleared(c), <<"ack">>, ErasePages({ERASE_ALL}), FALSE))
    BY <1>5
  <2>5. QED
    BY <1>4, <2>1, <2>2, <2>3, <2>4
<1>8. CASE /\ Len(f) >= 4 /\ f[1] # ERASE_ALL /\ Len(f) = f[1] + 3
           /\ \E i \in 2 .. Len(f) - 1 : f[i] \in {APP_PAGE, ERASE_ALL}
  <2>1. ~(n = 2 /\ c.buffer[1] = ERASE_ALL)
    BY <1>2, <1>8
  <2>2. n < Len(f) => ProcessErase(c) = Wait(c)
    <3>1. n < Len(f) => n # c.buffer[1] + 3
      BY <1>1, <1>2, <1>8
    <3>2. QED
      BY ONLY <1>1, <2>1, <3>1 DEF ProcessErase
  <2>3. PICK pages : pages = {c.buffer[i] : i \in 2 .. n - 1}
    OBVIOUS
  <2>4. n = Len(f) => ProcessErase(c) \in
          {Outcome(Cleared(c), <<"ack">>, ErasePages(pages), FALSE), Nack(c)}
    <3>1. n = Len(f) => n = c.buffer[1] + 3
      BY <1>1, <1>2, <1>8
    <3>2. QED
      BY ONLY <1>1, <2>1, <2>3, <3>1 DEF ProcessErase
  <2>5. n = Len(f) => \E p \in pages : p \in {APP_PAGE, ERASE_ALL}
    <3>1. PICK i \in 2 .. Len(f) - 1 : f[i] \in {APP_PAGE, ERASE_ALL}
      BY <1>8
    <3>2. n = Len(f) => i \in 2 .. n - 1 /\ i \in 1 .. n
      BY <1>1
    <3>3. QED
      BY <1>1, <2>3, <3>1, <3>2
  <2>6. QED
    BY <1>4, <1>5, <2>2, <2>4, <2>5 DEF Ends
<1>9. QED
  BY <1>6, <1>7, <1>8

(* A double word written to its place in the application.                  *)
LEMMA WriteMemOfWord ==
  ASSUME NEW w \in 0 .. N - 1, NEW data \in Seq(Byte), Len(data) = 8
  PROVE  WriteMem(APP_ADDR + 8 * w, data) = FlashWrite(8 * w, data)
<1>1. PICK A \in Nat : A = APP_ADDR
  BY SMT DEF APP_ADDR
<1>2. /\ ~(A + 8 * w < A) /\ ~((A + 8 * w) + Len(data) > A + 8 * Words)
      /\ ((A + 8 * w) - A) % 8 = 0 /\ (A + 8 * w) - A = 8 * w
  <2>1. w \in Nat /\ w + 1 <= Words /\ Words \in Nat
    BY ImageType
  <2>2. (A + 8 * w) - A = 8 * w /\ (8 * w) % 8 = 0
    BY ONLY <2>1, A \in Nat
  <2>3. QED
    BY ONLY <2>1, <2>2, A \in Nat, Len(data) = 8
<1>3. QED
  BY ONLY <1>1, <1>2, Zenon DEF WriteMem

(* The data of a write, behind its address.                                *)
LEMMA DataHeard ==
  ASSUME NEW c, NEW i \in 1 .. LastPacket, NEW w, DataPlace(i, w),
         NEW f, f = At(8 * w).bytes \o Checked(<<7>> \o NewImage[w + 1]).bytes,
         NEW n, Received(c, f, n), n >= 6, c.command = WRITE_MEMORY
  PROVE  /\ Len(f) = 15
         /\ n < 15 => Process(c) = Wait(c)
         /\ n = 15 => Ends(i, c, Process(c))
<1> DEFINE word == NewImage[w + 1]
<1>1. w \in 0 .. N - 1 /\ word \in [1..8 -> Byte] /\ w \in Nat
      /\ 8 * w \in Nat /\ 8 * w <= 8 * MaxWords
  BY ImageType, MaxWordsType DEF DataPlace
<1>2. PICK a, d : a = At(8 * w).bytes /\ d = Checked(<<7>> \o word).bytes
  OBVIOUS
<1>3. a \in Seq(Byte) /\ Len(a) = 5 /\ Address(a) = APP_ADDR + 8 * w
  BY <1>1, <1>2, AddressBytesOf
<1>4. /\ d \in Seq(Byte) /\ Len(d) = 10 /\ d[1] = 7
      /\ \A j \in 1..8 : d[j + 1] = word[j]
  BY <1>1, <1>2, DataBytesOf
<1>5. f = a \o d
  BY <1>2
<1>6. /\ Len(f) = 15
      /\ \A k \in 1..15 : f[k] = IF k <= 5 THEN a[k] ELSE d[k - 5]
  <2>1. /\ Len(f) = Len(a) + Len(d)
        /\ \A k \in 1 .. Len(a) + Len(d) :
             f[k] = IF k <= Len(a) THEN a[k] ELSE d[k - Len(a)]
    BY ONLY <1>3, <1>4, <1>5, ConcatProperties
  <2>2. QED
    BY ONLY <1>3, <1>4, <2>1
<1>7. /\ n \in Nat /\ n <= 15 /\ Len(c.buffer) = n /\ c.buffer \in Seq(Byte)
      /\ \A k \in 1 .. n : c.buffer[k] = f[k]
  BY <1>6 DEF Received, Contexts
<1>8. c.buffer[6] = 7
  <2>1. 6 \in 1 .. n /\ 6 \in 1..15 /\ ~(6 <= 5) /\ 6 - 5 = 1
    BY <1>7
  <2>2. f[6] = d[6 - 5]
    BY ONLY <1>6, <2>1
  <2>3. QED
    BY ONLY <1>4, <1>7, <2>1, <2>2
<1>9. Process(c) = ProcessWrite(c)
  BY ProcessOf
<1>10. n < 15 => ProcessWrite(c) = Wait(c)
  <2>1. n < 15 => Len(c.buffer) # 5 /\ Len(c.buffer) # c.buffer[6] + 8
    BY <1>7, <1>8
  <2>2. QED
    BY ONLY <2>1, Zenon DEF ProcessWrite
<1>11. ASSUME n = 15 PROVE Ends(i, c, Process(c))
  <2>1. Address(c.buffer) = APP_ADDR + 8 * w
    <3>1. \A k \in 1..4 : c.buffer[k] = a[k]
      <4>1. \A k \in 1..4 : k \in 1..15 /\ k \in 1 .. n /\ k <= 5
        BY <1>11
      <4>2. \A k \in 1..15 : k <= 5 => f[k] = a[k]
        BY ONLY <1>6
      <4>3. QED
        BY ONLY <1>7, <4>1, <4>2, Zenon
    <3>2. /\ c.buffer[1] = a[1] /\ c.buffer[2] = a[2]
          /\ c.buffer[3] = a[3] /\ c.buffer[4] = a[4]
      BY ONLY <3>1
    <3>3. QED
      BY ONLY <1>3, <3>2 DEF Address
  <2>2. PICK s : s = SubSeq(c.buffer, 7, n - 1)
    OBVIOUS
  <2>3. /\ s \in Seq(Byte) /\ Len(s) = 8
        /\ \A j \in 1..8 : s[j] = c.buffer[7 + j - 1]
    <3>1. \A k \in 7 .. 14 : c.buffer[k] \in Byte
      <4>1. \A k \in 7 .. 14 : k \in 1 .. Len(c.buffer)
        BY ONLY <1>7, <1>11
      <4>2. c.buffer \in Seq(Byte)
        BY <1>7
      <4>3. QED
        BY ONLY <4>1, <4>2, ElementOfSeq, Zenon
    <3>2. n - 1 = 14
      BY <1>11
    <3>3. /\ s \in Seq(Byte) /\ Len(s) = 14 - 7 + 1
          /\ \A j \in 1 .. 14 - 7 + 1 : s[j] = c.buffer[7 + j - 1]
      BY ONLY <2>2, <3>1, <3>2, SubSeqProperties
    <3>4. QED
      BY ONLY <3>3
  <2>4. word \in Seq(Byte) /\ Len(word) = 8
    BY ONLY <1>1, FunctionIsSeq
  <2>5. ASSUME NEW j \in 1..8 PROVE s[j] = word[j]
    <3>1. /\ 7 + j - 1 \in 1..15 /\ ~(7 + j - 1 <= 5) /\ (7 + j - 1) - 5 = j + 1
          /\ 7 + j - 1 \in 1 .. n
      BY <1>11
    <3>2. f[7 + j - 1] = d[j + 1]
      BY ONLY <1>6, <3>1
    <3>3. QED
      BY ONLY <1>4, <1>7, <2>3, <3>1, <3>2, j \in 1..8
  <2>6. s = word
    <3>1. Len(s) = Len(word) /\ \A j \in 1 .. Len(s) : s[j] = word[j]
      BY ONLY <2>3, <2>4, <2>5
    <3>2. QED
      BY ONLY <2>3, <2>4, <3>1, SeqEqual, Zenon
  <2>7. WriteMem(Address(c.buffer), s) = FlashWrite(8 * w, word)
    <3>1. WriteMem(APP_ADDR + 8 * w, word) = FlashWrite(8 * w, word)
      BY ONLY <1>1, <2>4, WriteMemOfWord
    <3>2. QED
      BY ONLY <2>1, <2>6, <3>1, Zenon
  <2>8. ProcessWrite(c) \in
          {Outcome(Cleared(c), <<"ack">>, WriteMem(Address(c.buffer), s), FALSE), Nack(c)}
    <3>1. Len(c.buffer) # 5 /\ Len(c.buffer) >= 6 /\ Len(c.buffer) = c.buffer[6] + 8
      BY ONLY <1>7, <1>8, <1>11
    <3>2. s = SubSeq(c.buffer, 7, Len(c.buffer) - 1)
      BY ONLY <1>7, <2>2, Zenon
    <3>3. QED
      BY ONLY <3>1, <3>2 DEF ProcessWrite
  <2>9. Effect(i, FlashWrite(8 * w, word)) /\ ~GoesOn(i)
    BY DEF Effect, DataPlace
  <2>10. QED
    BY ONLY <1>9, <2>7, <2>8, <2>9 DEF Ends
<1>12. QED
  BY <1>6, <1>9, <1>10, <1>11

(* A packet that is not a command follows those behind its command.        *)
FlowStep(i) ==
  /\ i - 1 \in 1 .. LastPacket /\ GoesOn(i - 1)
  /\ InFlow(i) <=> InFlow(i - 1)
  /\ Flow(i - 1) \in Seq(Byte) /\ Script(i).bytes \in Seq(Byte)
  /\ Flow(i) = Flow(i - 1) \o Script(i).bytes
  /\ Len(Script(i).bytes) >= 1
  /\ Script(i).acks = 1

(* What makes a packet one that follows.                                   *)
LEMMA FlowStepOf ==
  ASSUME NEW i, NEW b \in Seq(Byte), NEW s \in Seq(Byte), Len(s) >= 1,
         Flow(i - 1) = b, Script(i).bytes = s, Flow(i) = b \o s, Script(i).acks = 1,
         i - 1 \in 1 .. LastPacket, GoesOn(i - 1), CommandOf(i) = CommandOf(i - 1)
  PROVE  FlowStep(i)
<1>1. InFlow(i) <=> InFlow(i - 1)
  BY ONLY CommandOf(i) = CommandOf(i - 1), Zenon DEF InFlow
<1>2. QED
  BY <1>1, Zenon DEF FlowStep

(* Each packet that is not a command follows the one before it.            *)
LEMMA NextInFlow ==
  ASSUME erase_list \in EraseLists, NEW i \in 1 .. LastPacket, CommandOf(i) # i
  PROVE  FlowStep(i)
<1>1. /\ LastPacket \in Nat /\ LastPacket = 3 * N + 9 /\ N \in Nat
  BY ScriptLength, ImageType
<1>2. EraseLists \subseteq Seq(Byte)
  BY FirmwareUpdateAssumption
<1>3. <<>> \in Seq(Byte) /\ \A s \in Seq(Byte) : <<>> \o s = s
  BY EmptySeq, ConcatEmptySeq
<1>4. CASE \E offset, cmd : AddressPlace(i, offset, cmd)
  <2>1. PICK offset, cmd : AddressPlace(i, offset, cmd)
    BY <1>4
  <2>2. PICK a : a = At(offset).bytes
    OBVIOUS
  <2>3. /\ offset \in Nat /\ offset <= 8 * MaxWords /\ Script(i) = At(offset)
        /\ i - 1 \in 1 .. LastPacket /\ GoesOn(i - 1) /\ CommandOf(i) = CommandOf(i - 1)
    BY ONLY <2>1, Zenon DEF AddressPlace
  <2>4. a \in Seq(Byte) /\ Len(a) = 5 /\ At(offset).acks = 1
    BY ONLY <2>2, <2>3, AddressBytesOf
  <2>5. Flow(i - 1) = <<>> /\ Flow(i) = a /\ Script(i).bytes = a
    BY ONLY <2>1, <2>2, AddressFlow, erase_list \in EraseLists, i \in 1 .. LastPacket, Zenon
  <2>6. Flow(i) = <<>> \o a /\ Len(a) >= 1
    <3>1. Flow(i) = <<>> \o a
      BY ONLY <1>3, <2>4, <2>5, Zenon
    <3>2. QED
      BY ONLY <2>4, <3>1
  <2>7. QED
    BY ONLY <1>3, <2>3, <2>4, <2>5, <2>6, FlowStepOf
<1>5. CASE i = 5
  <2>1. At(0).bytes \in Seq(Byte)
    <3>1. 0 \in Nat /\ 0 <= 8 * MaxWords
      BY MaxWordsType
    <3>2. QED
      BY <3>1, AddressBytesOf
  <2>2. PICK s : s = <<7, 248>>
    OBVIOUS
  <2>3. s \in Seq(Byte) /\ Len(s) >= 1 /\ Script(5).bytes = s /\ Script(5).acks = 1
    BY <2>2, ScriptPackets DEF Byte, Packet
  <2>4. Flow(5) = At(0).bytes \o s /\ Flow(5 - 1) = At(0).bytes
    BY ONLY <1>5, <2>2, CountFlow, erase_list \in EraseLists, i \in 1 .. LastPacket, Zenon
  <2>5. 5 - 1 \in 1 .. LastPacket /\ GoesOn(5 - 1) /\ CommandOf(5) = CommandOf(5 - 1)
    <3>1. 5 - 1 = 4 /\ 4 \in 1 .. LastPacket
      BY <1>1
    <3>2. QED
      BY ONLY <3>1, GoingOn, Commands
  <2>6. FlowStep(5)
    BY ONLY <2>1, <2>3, <2>4, <2>5, FlowStepOf
  <2>7. QED
    BY <1>5, <2>6
<1>6. CASE i = 7
  <2>1. Script(7).bytes = erase_list /\ Script(7).acks = 1
    BY ScriptPackets DEF Packet
  <2>2. erase_list \in Seq(Byte) /\ Len(erase_list) >= 1
    <3>1. erase_list = <<ERASE_ALL, 0>> \/ Len(erase_list) >= 4
      BY FirmwareUpdateAssumption
    <3>2. erase_list = <<ERASE_ALL, 0>> => Len(erase_list) = 2
      OBVIOUS
    <3>3. erase_list \in Seq(Byte)
      BY <1>2
    <3>4. Len(erase_list) \in Nat
      BY ONLY <3>3, LenProperties
    <3>5. Len(erase_list) >= 1
      BY ONLY <3>1, <3>2, <3>4
    <3>6. QED
      BY ONLY <3>3, <3>5
  <2>3. Flow(7) = erase_list /\ Flow(7 - 1) = <<>>
    BY ONLY <1>6, EraseFlow, erase_list \in EraseLists, i \in 1 .. LastPacket, Zenon
  <2>4. 7 - 1 \in 1 .. LastPacket /\ GoesOn(7 - 1) /\ CommandOf(7) = CommandOf(7 - 1)
    <3>1. 7 - 1 = 6 /\ 6 \in 1 .. LastPacket
      BY <1>1
    <3>2. QED
      BY ONLY <3>1, GoingOn, Commands
  <2>5. Flow(7) = <<>> \o erase_list
    BY ONLY <1>3, <2>2, <2>3, Zenon
  <2>6. FlowStep(7)
    BY ONLY <1>3, <2>1, <2>2, <2>3, <2>4, <2>5, FlowStepOf
  <2>7. QED
    BY <1>6, <2>6
<1>7. CASE \E w : DataPlace(i, w)
  <2>1. PICK w : DataPlace(i, w)
    BY <1>7
  <2>2. w \in 0 .. N - 1 /\ i = 3 * w + 10
    BY <2>1 DEF DataPlace
  <2>3. NewImage[w + 1] \in [1..8 -> Byte]
    BY ONLY <2>2, ImageType
  <2>4. 8 * w \in Nat /\ 8 * w <= 8 * MaxWords
    BY <2>2, ImageType, MaxWordsType
  <2>5. PICK a, p : a = At(8 * w).bytes /\ p = Checked(<<7>> \o NewImage[w + 1])
    OBVIOUS
  <2>6. p.bytes \in Seq(Byte) /\ Len(p.bytes) >= 1 /\ p.acks = 1
    BY <2>3, <2>5, DataBytesOf
  <2>7. a \in Seq(Byte)
    BY ONLY <2>4, <2>5, AddressBytesOf
  <2>8. Flow(i) = a \o p.bytes /\ Flow(i - 1) = a
    BY ONLY <2>1, <2>5, DataFlow, erase_list \in EraseLists, i \in 1 .. LastPacket, Zenon
  <2>9. Script(i) = p /\ GoesOn(i - 1) /\ CommandOf(i) = CommandOf(i - 1)
    BY ONLY <2>1, <2>5, Zenon DEF DataPlace
  <2>10. i - 1 \in 1 .. LastPacket
    BY ONLY <1>1, <2>2
  <2>11. QED
    BY ONLY <2>6, <2>7, <2>8, <2>9, <2>10, FlowStepOf
<1>8. QED
  BY <1>4, <1>5, <1>6, <1>7, OtherPlaces

(* The packet the host is at, for its next byte: the device waits for the  *)
(* rest of it, or answers it.                                              *)
LEMMA PacketHeard ==
  ASSUME erase_list \in EraseLists, context \in Contexts, context.state = "process",
         line \in Seq(Byte), line # <<>>,
         NEW i \in 1 .. LastPacket, CommandOf(i) # i, InFlow(i),
         context.buffer \o line = Flow(i), Len(line) <= Len(Script(i).bytes),
         NEW c, c = [context EXCEPT !.buffer = Append(@, Head(line))]
  PROVE  /\ c.state = "process" /\ c.command = context.command
         /\ c.buffer \o Tail(line) = Flow(i)
         /\ Tail(line) # <<>> => byte_handle(Head(line)) = Wait(c)
         /\ Tail(line) = <<>> => /\ Ends(i, c, byte_handle(Head(line)))
                                 /\ c.buffer = Flow(i)
<1>1. PICK b, f, n : b = context.buffer /\ f = Flow(i) /\ n = Len(c.buffer)
  OBVIOUS
<1>2. /\ b \in Seq(Byte) /\ c.state = "process" /\ c.command = context.command
      /\ c.buffer = Append(b, Head(line)) /\ context.command \in Byte
  BY <1>1 DEF Contexts
<1>3. /\ c.buffer \in Seq(Byte) /\ n = Len(b) + 1 /\ Len(line) >= 1
      /\ f \in Seq(Byte) /\ Len(f) = Len(b) + Len(line)
      /\ c.buffer \o Tail(line) = f
      /\ \A k \in 1 .. n : c.buffer[k] = f[k]
      /\ Tail(line) = <<>> <=> n = Len(f)
  <2>1. PICK d, l : d = c.buffer /\ l = line
    OBVIOUS
  <2>2. /\ l \in Seq(Byte) /\ l # <<>> /\ b \in Seq(Byte)
        /\ d = Append(b, Head(l)) /\ f = b \o l
    BY <1>1, <1>2, <2>1
  <2>5. Hears(b, l, d, f)
    BY ONLY <2>2, HearByte
  <2>3. /\ d \in Seq(Byte) /\ Len(d) = Len(b) + 1 /\ Len(l) >= 1
        /\ f \in Seq(Byte) /\ Len(f) = Len(b) + Len(l)
        /\ d \o Tail(l) = f
        /\ \A k \in 1 .. Len(d) : d[k] = f[k]
        /\ Tail(l) = <<>> <=> Len(d) = Len(f)
    BY ONLY <2>5, Zenon DEF Hears
  <2>4. QED
    BY ONLY <1>1, <2>1, <2>3
<1>4. Len(b) \in Nat /\ Len(line) \in Nat /\ n \in Nat /\ Len(f) \in Nat /\ n <= Len(f) /\ n >= 1
  BY <1>2, <1>3, LenProperties
<1>5. c \in Contexts
  BY <1>2, <1>3 DEF Contexts
<1>6. Received(c, f, n)
  BY ONLY <1>1, <1>2, <1>3, <1>4, <1>5 DEF Received
<1>7. PICK m : m = Len(Script(i).bytes)
  OBVIOUS
<1>8. FlowStep(i)
  BY NextInFlow
<1>15. PICK q : q = Len(Flow(i - 1))
  OBVIOUS
<1>9. m \in Nat /\ m >= 1 /\ Len(f) = q + m /\ q \in Nat
  <2>1. /\ Flow(i - 1) \in Seq(Byte) /\ Script(i).bytes \in Seq(Byte)
        /\ Flow(i) = Flow(i - 1) \o Script(i).bytes /\ Len(Script(i).bytes) >= 1
    BY ONLY <1>8, Zenon DEF FlowStep
  <2>2. Len(Flow(i)) = Len(Flow(i - 1)) + Len(Script(i).bytes)
    BY ONLY <2>1, ConcatProperties
  <2>3. QED
    BY ONLY <1>1, <1>7, <1>15, <2>1, <2>2, LenProperties
<1>10. n >= q + 1
  <2>1. Len(line) <= m
    BY <1>7
  <2>2. QED
    BY ONLY <1>3, <1>4, <1>9, <2>1
<1>11. /\ n < Len(f) => Process(c) = Wait(c)
       /\ n = Len(f) => Ends(i, c, Process(c))
  <2>1. CASE \E offset, cmd : AddressPlace(i, offset, cmd)
    <3>1. PICK offset, cmd : AddressPlace(i, offset, cmd)
      BY <2>1
    <3>2. f = At(offset).bytes /\ c.command = cmd
      BY ONLY <1>1, <1>2, <3>1, InFlow(i), AddressFlow,
         erase_list \in EraseLists, i \in 1 .. LastPacket, Zenon
    <3>3. Len(f) = 5
      BY <3>1, <3>2, AddressBytesOf DEF AddressPlace
    <3>4. QED
      BY <1>4, <1>6, <3>1, <3>2, <3>3, AddressHeard
  <2>2. CASE i = 5
    <3>1. c.command = READ_MEMORY /\ f = At(0).bytes \o <<7, 248>> /\ Flow(i - 1) = At(0).bytes
      BY ONLY <1>1, <1>2, <2>2, InFlow(i), CountFlow,
         erase_list \in EraseLists, i \in 1 .. LastPacket, Zenon
    <3>2. Len(At(0).bytes) = 5
      <4>1. 0 \in Nat /\ 0 <= 8 * MaxWords
        BY MaxWordsType
      <4>2. QED
        BY <4>1, AddressBytesOf
    <3>3. m = 2
      BY <1>7, <2>2, ScriptPackets DEF Packet
    <3>4. Len(f) = 7 /\ n >= 6
      <4>1. q = 5
        BY <1>15, <3>1, <3>2
      <4>2. QED
        BY ONLY <1>4, <1>9, <1>10, <3>3, <4>1
    <3>5. /\ n < 7 => Process(c) = Wait(c)
          /\ n = 7 => Ends(5, c, Process(c))
      BY ONLY <1>6, <3>1, <3>4, CountHeard, Zenon
    <3>6. QED
      BY ONLY <2>2, <3>4, <3>5, Zenon
  <2>3. CASE i = 7
    <3>1. f \in EraseLists /\ c.command = ERASE
      BY ONLY <1>1, <1>2, <2>3, InFlow(i), EraseFlow,
         erase_list \in EraseLists, i \in 1 .. LastPacket, Zenon
    <3>2. /\ n < Len(f) => Process(c) = Wait(c)
          /\ n = Len(f) => Ends(7, c, Process(c))
      BY ONLY <1>4, <1>6, <3>1, EraseHeard, Zenon
    <3>3. QED
      BY ONLY <2>3, <3>2, Zenon
  <2>4. CASE \E w : DataPlace(i, w)
    <3>1. PICK w : DataPlace(i, w)
      BY <2>4
    <3>2. /\ f = At(8 * w).bytes \o Checked(<<7>> \o NewImage[w + 1]).bytes
          /\ Flow(i - 1) = At(8 * w).bytes /\ c.command = WRITE_MEMORY
      BY ONLY <1>1, <1>2, <3>1, InFlow(i), DataFlow,
         erase_list \in EraseLists, i \in 1 .. LastPacket, Zenon
    <3>3. Len(At(8 * w).bytes) = 5
      <4>1. 8 * w \in Nat /\ 8 * w <= 8 * MaxWords
        <5>1. w \in 0 .. N - 1
          BY ONLY <3>1, Zenon DEF DataPlace
        <5>2. QED
          BY ONLY <5>1, ImageType, MaxWordsType
      <4>2. QED
        BY <4>1, AddressBytesOf
    <3>4. n >= 6
      <4>1. q = 5
        BY <1>15, <3>2, <3>3
      <4>2. QED
        BY ONLY <1>4, <1>10, <4>1
    <3>5. /\ Len(f) = 15 /\ (n < 15 => Process(c) = Wait(c))
          /\ n = 15 => Ends(i, c, Process(c))
      BY ONLY <1>6, <3>1, <3>2, <3>4, DataHeard, Zenon
    <3>6. QED
      BY ONLY <3>5, Zenon
  <2>5. QED
    BY <2>1, <2>2, <2>3, <2>4, OtherPlaces
<1>12. byte_handle(Head(line)) = Process(c)
  BY <1>2 DEF byte_handle
<1>13. n = Len(f) => c.buffer = f
  BY ONLY <1>1, <1>3, SeqEqual
<1>14. QED
  <2>1. Tail(line) # <<>> => n < Len(f)
    BY ONLY <1>3, <1>4
  <2>2. Tail(line) = <<>> => n = Len(f)
    BY ONLY <1>3
  <2>3. /\ c.state = "process" /\ c.command = context.command
        /\ c.buffer \o Tail(line) = Flow(i)
    BY ONLY <1>1, <1>2, <1>3
  <2>4. Tail(line) # <<>> => byte_handle(Head(line)) = Wait(c)
    BY ONLY <1>11, <1>12, <2>1, Zenon
  <2>5. Tail(line) = <<>> => Ends(i, c, byte_handle(Head(line))) /\ c.buffer = Flow(i)
    BY ONLY <1>1, <1>11, <1>12, <1>13, <2>2, Zenon
  <2>6. QED
    BY ONLY <2>3, <2>4, <2>5, Zenon

-----------------------------------------------------------------------------
(* The image in the flash, as far as it has been written.                  *)
Beginning(w) == Installed(SubSeq(NewImage, 1, w))

(* A content of the flash that is not started, or is all of an image.      *)
Refused(content) ==
  \/ content[0] = Broken
  \/ SubSeq(content[0], 1, 4) # SIGNATURE
  \/ /\ \/ content[content[0][5] \div 8] = Broken
        \/ SubSeq(content[content[0][5] \div 8], 1, 4) # NO_CRC
     /\ content # Installed(OldImage)
Launchable(content) ==
  Refused(content) \/ content \in {Installed(OldImage), Installed(NewImage)}

(* Corrupted looks at nothing but the flash.                               *)
LEMMA RefusedIsCorrupted == Corrupted <=> Refused(flash)
BY DEF Corrupted, Refused, CrcCell

(* The double words of an image that is written in part.                   *)
LEMMA BeginningWords ==
  ASSUME NEW w \in 0 .. N
  PROVE  /\ Beginning(w) = [c \in Cells |-> IF c < w THEN NewImage[c + 1] ELSE Erased]
         /\ Beginning(N) = Installed(NewImage)
<1>1. /\ N \in Nat /\ N <= Words /\ Words \in Nat /\ w \in Nat
      /\ NewImage \in Seq([1..8 -> Byte])
  BY ImageType
<1>2. ASSUME NEW v \in 0 .. N
      PROVE  /\ Len(SubSeq(NewImage, 1, v)) = v
             /\ \A c \in 0 .. v - 1 : SubSeq(NewImage, 1, v)[c + 1] = NewImage[c + 1]
  <2>1. \A i \in 1 .. v : NewImage[i] \in [1..8 -> Byte]
    BY <1>1, ElementOfSeq DEF N
  <2>2. PICK s : s = SubSeq(NewImage, 1, v)
    OBVIOUS
  <2>3. /\ Len(s) = IF 1 <= v THEN v - 1 + 1 ELSE 0
        /\ \A i \in 1 .. v - 1 + 1 : s[i] = NewImage[1 + i - 1]
    BY ONLY <2>1, <2>2, v \in 0 .. N, <1>1, SubSeqProperties
  <2>4. Len(s) = v
    BY ONLY <1>1, <2>3, v \in 0 .. N
  <2>5. ASSUME NEW c \in 0 .. v - 1 PROVE s[c + 1] = NewImage[c + 1]
    <3>1. c + 1 \in 1 .. v - 1 + 1 /\ 1 + (c + 1) - 1 = c + 1
      BY ONLY <1>1, v \in 0 .. N, c \in 0 .. v - 1
    <3>2. QED
      BY ONLY <2>3, <3>1
  <2>6. QED
    BY ONLY <2>2, <2>4, <2>5
<1>3. ASSUME NEW v \in 0 .. N
      PROVE  Beginning(v) = [c \in Cells |-> IF c < v THEN NewImage[c + 1] ELSE Erased]
  <2>1. PICK s : s = SubSeq(NewImage, 1, v)
    OBVIOUS
  <2>2. Len(s) = v /\ \A c \in 0 .. v - 1 : s[c + 1] = NewImage[c + 1]
    BY <1>2, <2>1
  <2>3. \A c \in Cells : c < v => c \in 0 .. v - 1
    BY <1>1 DEF Cells
  <2>4. Installed(s) = [c \in Cells |-> IF c < v THEN NewImage[c + 1] ELSE Erased]
    BY ONLY <2>2, <2>3 DEF Installed
  <2>5. QED
    BY ONLY <2>1, <2>4 DEF Beginning
<1>4. Beginning(N) = Installed(NewImage)
  <2>1. N \in 0 .. N
    BY <1>1
  <2>2. QED
    BY <1>3, <2>1 DEF Installed, N
<1>5. QED
  BY <1>3, <1>4

(* An erased double word is neither a signature nor the mark of an image   *)
(* without a CRC.                                                          *)
LEMMA ErasedWords ==
  SubSeq(Erased, 1, 4) # SIGNATURE /\ SubSeq(Erased, 1, 4) # NO_CRC
<1>1. PICK s : s = SubSeq(Erased, 1, 4)
  OBVIOUS
<1>2. \A i \in 1 .. 4 : Erased[i] = 255 /\ Erased[i] \in Nat
  BY DEF Erased
<1>3. \A i \in 1 .. 4 - 1 + 1 : s[i] = Erased[1 + i - 1]
  <2>1. 1 \in Int /\ 4 \in Int /\ \A i \in 1 .. 4 : Erased[i] \in Nat
    BY <1>2
  <2>2. QED
    BY ONLY <1>1, <2>1, SubSeqProperties
<1>4. s[1] = 255
  BY ONLY <1>2, <1>3
<1>5. SIGNATURE[1] # 255 /\ NO_CRC[1] # 255
  BY DEF SIGNATURE, NO_CRC
<1>6. QED
  BY <1>1, <1>4, <1>5

(* An image written in part is not started, nor when the next double word  *)
(* was cut short: the word that says there is no CRC is the last one.      *)
LEMMA BeginningRefused ==
  ASSUME NEW w \in 0 .. N
  PROVE  /\ Launchable(Beginning(w))
         /\ w < N => Launchable([Beginning(w) EXCEPT ![w] = Broken])
<1>1. /\ N \in Nat /\ N >= 2 /\ N <= Words /\ Words \in Nat /\ w \in Nat
      /\ NewImage[1] \in [1..8 -> Byte]
      /\ NewImage[1][5] \div 8 = N - 1
  <2>1. 0 \in 0 .. N - 1 /\ 0 + 1 = 1
    BY ImageType
  <2>2. NewImage[1] \in [1..8 -> Byte]
    BY ONLY <2>1, ImageType
  <2>3. QED
    BY <2>2, ImageType, FirmwareUpdateAssumption DEF N
<1>2. /\ Beginning(w) = [c \in Cells |-> IF c < w THEN NewImage[c + 1] ELSE Erased]
      /\ Beginning(N) = Installed(NewImage)
  BY BeginningWords
<1>3. 0 \in Cells /\ N - 1 \in Cells
  BY <1>1 DEF Cells
<1>4. SubSeq(Erased, 1, 4) # SIGNATURE /\ SubSeq(Erased, 1, 4) # NO_CRC
  BY ErasedWords
<1>5. CASE w = N
  BY <1>2, <1>5 DEF Launchable
<1>6. ASSUME w < N, NEW x, x \in {Beginning(w), [Beginning(w) EXCEPT ![w] = Broken]}
      PROVE  Launchable(x)
  <2>1. /\ x[0] = Broken \/ x[0] = Erased \/ (x[0] = NewImage[1] /\ w > 0)
        /\ x[N - 1] = Broken \/ x[N - 1] = Erased
    <3>1. \A c \in Cells : x[c] = Beginning(w)[c] \/ x[c] = Broken
      BY <1>2, <1>6
    <3>2. Beginning(w)[N - 1] = Erased
      BY <1>1, <1>2, <1>3, <1>6
    <3>3. Beginning(w)[0] = IF 0 < w THEN NewImage[1] ELSE Erased
      BY <1>1, <1>2, <1>3
    <3>4. QED
      BY <1>1, <1>3, <3>1, <3>2, <3>3
  <2>2. CASE x[0] = NewImage[1]
    <3>1. x[x[0][5] \div 8] = x[N - 1]
      BY <1>1, <2>2
    <3>2. QED
      BY ONLY <1>4, <2>1, <3>1 DEF Launchable, Refused
  <2>3. QED
    BY ONLY <1>4, <2>1, <2>2 DEF Launchable, Refused
<1>7. QED
  BY <1>1, <1>5, <1>6

(* An erase that was cut short leaves nothing that is started.             *)
LEMMA EraseRefused ==
  ASSUME flash \in Contents, Launchable(flash)
  PROVE  /\ \A content \in EraseApp.partial : Launchable(content)
         /\ EraseApp.final = Beginning(0)
<1>1. Words \in Nat /\ Words >= 2 /\ N \in Nat /\ 0 \in 0 .. N
  BY ImageType
<1>2. SubSeq(Erased, 1, 4) # SIGNATURE
  BY ErasedWords
<1>3. ASSUME NEW k \in 0 .. Words PROVE Launchable(ErasedUpTo(k))
  <2>1. CASE k = 0
    <3>1. \A c \in Cells : ~(c < 0)
      BY <1>1 DEF Cells
    <3>2. ErasedUpTo(0) = [c \in Cells |-> flash[c]]
      BY <3>1 DEF ErasedUpTo
    <3>3. ErasedUpTo(0) = flash
      BY <3>2 DEF Contents
    <3>4. QED
      BY <2>1, <3>3
  <2>2. CASE k > 0
    <3>1. ErasedUpTo(k)[0] = Erased
      BY <1>1, <2>2 DEF ErasedUpTo, Cells
    <3>2. QED
      BY <1>2, <3>1 DEF Launchable, Refused
  <2>3. QED
    BY <2>1, <2>2
<1>4. ErasedUpTo(Words) = Beginning(0)
  <2>1. \A c \in Cells : c < Words /\ ~(c < 0)
    BY <1>1 DEF Cells
  <2>2. Beginning(0) = [c \in Cells |-> IF c < 0 THEN NewImage[c + 1] ELSE Erased]
    BY <1>1, BeginningWords
  <2>3. QED
    BY ONLY <2>1, <2>2 DEF ErasedUpTo
<1>5. QED
  BY <1>3, <1>4 DEF EraseApp

(* A double word written behind the beginning of the image.                *)
LEMMA WordRefused ==
  ASSUME NEW w \in 0 .. N - 1, flash = Beginning(w),
         NEW o, o = FlashWrite(8 * w, NewImage[w + 1])
  PROVE  /\ \A content \in o.partial : Launchable(content)
         /\ o.final = Beginning(w + 1)
<1> DEFINE data == NewImage[w + 1]
           Chunk(c) == SubSeq(data, 8 * (c - w) + 1, 8)
           Written(k) == [c \in Cells |-> IF c \in w .. w + k - 1
                                          THEN Programmed(c, Chunk(c)) ELSE flash[c]]
           Torn(k) == [Written(k) EXCEPT ![w + k] = IF @ = Erased THEN Broken ELSE @]
<1>1. /\ w \in Nat /\ N \in Nat /\ w < N /\ w + 1 \in 0 .. N /\ w \in 0 .. N
      /\ w \in Cells /\ Cells \subseteq Nat
      /\ data \in [1..8 -> Byte] /\ data \in Seq(Byte) /\ Len(data) = 8
  <2>1. /\ N \in Nat /\ N <= Words /\ Words \in Nat
        /\ data \in [1..8 -> Byte]
    BY ImageType
  <2>2. data \in Seq(Byte) /\ Len(data) = 8
    BY ONLY <2>1, FunctionIsSeq
  <2>3. Cells = 0 .. Words - 1
    BY DEF Cells
  <2> HIDE DEF data
  <2>4. QED
    BY ONLY <2>1, <2>2, <2>3, w \in 0 .. N - 1
<1>2. /\ o.final = Written(1)
      /\ o.partial = {Written(k) : k \in 0 .. 1} \cup {Torn(k) : k \in 0 .. 1 - 1}
  <2>1. (8 * w) \div 8 = w /\ (Len(data) + 7) \div 8 = 1
    BY <1>1
  <2>2. /\ FlashWrite(8 * w, data).final = Written(1)
        /\ FlashWrite(8 * w, data).partial
             = {Written(k) : k \in 0 .. 1} \cup {Torn(k) : k \in 0 .. 1 - 1}
    <3> HIDE DEF data
    <3>1. Len(data) = 8
      BY <1>1
    <3>2. PICK o1 : o1 = FlashWrite(8 * w, data)
      OBVIOUS
    <3>3. /\ o1.final = Written((Len(data) + 7) \div 8)
          /\ o1.partial = {Written(k) : k \in 0 .. (Len(data) + 7) \div 8}
                            \cup {Torn(k) : k \in 0 .. (Len(data) + 7) \div 8 - 1}
      BY ONLY <2>1, <3>1, <3>2 DEF FlashWrite
    <3>4. QED
      BY ONLY <2>1, <3>2, <3>3
  <2>3. QED
    BY <2>2
<1>3. /\ flash = [c \in Cells |-> IF c < w THEN NewImage[c + 1] ELSE Erased]
      /\ Beginning(w + 1) = [c \in Cells |-> IF c < w + 1 THEN NewImage[c + 1] ELSE Erased]
  BY <1>1, BeginningWords
<1>4. Programmed(w, Chunk(w)) = data
  <2>1. flash[w] = Erased
    BY <1>1, <1>3
  <2>2. Chunk(w) = data
    <3>1. 8 * (w - w) + 1 = 1
      BY <1>1
    <3>2. SubSeq(data, 1, Len(data)) = data
      BY ONLY <1>1, SubSeqFull
    <3>3. QED
      BY ONLY <1>1, <3>1, <3>2
  <2>3. Programmed(w, data) = [i \in 1..8 |-> data[i]]
    <3>1. \A i \in 1..8 : i <= Len(data)
      BY <1>1
    <3>2. QED
      BY ONLY <2>1, <3>1 DEF Programmed
  <2>4. QED
    BY ONLY <1>1, <2>2, <2>3
<1>5. Written(0) = flash
  <2>1. \A c \in Cells : c \notin w .. w + 0 - 1
    BY <1>1
  <2>2. flash = [c \in Cells |-> flash[c]]
    BY ONLY <1>3
  <2>3. QED
    BY ONLY <2>1, <2>2
<1>6. Written(1) = Beginning(w + 1)
  <2>1. \A c \in Cells : c \in w .. w + 1 - 1 <=> c = w
    BY <1>1
  <2>2. Written(1) = [c \in Cells |-> IF c = w THEN data ELSE flash[c]]
    BY ONLY <1>4, <2>1
  <2>3. \A c \in Cells : (IF c = w THEN data ELSE flash[c])
                           = IF c < w + 1 THEN NewImage[c + 1] ELSE Erased
    BY <1>1, <1>3
  <2>4. QED
    BY ONLY <1>3, <2>2, <2>3
<1>7. Torn(0) = [Beginning(w) EXCEPT ![w] = Broken]
  <2>1. w + 0 = w /\ flash[w] = Erased
    BY <1>1, <1>3
  <2>2. QED
    BY ONLY <1>5, <2>1, flash = Beginning(w)
<1> HIDE DEF Written, Torn, data
<1>8. \A k \in 0 .. 1 : k = 0 \/ k = 1
  OBVIOUS
<1>9. /\ Launchable(Beginning(w)) /\ Launchable(Beginning(w + 1))
      /\ Launchable([Beginning(w) EXCEPT ![w] = Broken])
  BY <1>1, BeginningRefused
<1>10. \A content \in o.partial :
         content = Written(0) \/ content = Written(1) \/ content = Torn(0)
  BY <1>2, <1>8
<1>11. QED
  BY <1>2, <1>5, <1>6, <1>7, <1>9, <1>10

-----------------------------------------------------------------------------
(***************************************************************************)
(* Where the host and the device stand, for any values of the variables:   *)
(* k, w, l and a are the host's place, the acknowledgements it waits for,  *)
(* the bytes and the answers on their way; r, c and x the device's         *)
(* running, its context and its flash.                                     *)
(***************************************************************************)
Processing(r, c) == r = "bootloader" /\ c.state = "process"
CommandAt(i) == Script(CommandOf(i)).bytes[1]

ReachedAt(i, r, c, x) ==
  /\ i >= 7 => x = Beginning((i - 7) \div 3)
  /\ Processing(r, c) => GoesOn(i) /\ c.command = CommandAt(i) /\ c.buffer = Flow(i)
  /\ r = "bootloader" /\ c.state = "wait" /\ i > 0 => c.buffer = <<>>

IdleAt(k, w, l, a, r, c, x) ==
  w = 0 /\ l = <<>> /\ a = <<>> /\ ReachedAt(k - 1, r, c, x)

AnsweredAt(k, w, l, a, r, c, x) ==
  w > 0 /\ l = <<>> /\ a = [n \in 1 .. w |-> "ack"] /\ ReachedAt(k, r, c, x)

InPacket(k, l, r, c) ==
  Processing(r, c) /\ CommandOf(k) # k /\ c.command = CommandAt(k)
    /\ c.buffer \o l = Flow(k)
AtSync(k, l, r, c) == ~Processing(r, c) /\ k = 1 /\ l = <<SYNC>>
InCommand(k, l, r, c) ==
  CommandOf(k) = k /\ ~Processing(r, c) /\ k > 1
    /\ Script(k).bytes = IF r = "bootloader" THEN c.buffer \o l ELSE l

HearingAt(k, w, l, a, r, c, x) ==
  /\ w > 0 /\ w = Script(k).acks
  /\ l # <<>> /\ Len(l) <= Len(Script(k).bytes) /\ a = <<>>
  /\ k > 7 => x = Beginning((k - 1 - 7) \div 3)
  /\ InPacket(k, l, r, c) \/ AtSync(k, l, r, c) \/ InCommand(k, l, r, c)

SilentAt(k, w, l, a, r, c) ==
  /\ w > 0 /\ ~Processing(r, c)
  /\ \A n \in 1 .. Len(a) : a[n] = "nack"
  /\ k = 1 => l = <<>>
  /\ CommandOf(k) = k /\ k > 1 =>
       /\ SYNC \notin {l[n] : n \in 1 .. Len(l)}
       /\ Len(l) <= IF r = "bootloader" THEN 1 - Len(c.buffer) ELSE 1

PlacedAt(k, w, l, a, r, c, x) ==
  \/ IdleAt(k, w, l, a, r, c, x) \/ AnsweredAt(k, w, l, a, r, c, x)
  \/ HearingAt(k, w, l, a, r, c, x) \/ SilentAt(k, w, l, a, r, c)

Placed == Idle \/ Answered \/ Hearing \/ Silent

(* The four places, in a state and in the next one.                        *)
LEMMA PlacedNow ==
  Placed <=> PlacedAt(step, waiting, line, replies, running, context, flash)
<1>1. ErasePayload = 7
  BY ScriptLength
<1>2. ASSUME NEW i PROVE Reached(i) <=> ReachedAt(i, running, context, flash)
  BY <1>1, Zenon DEF Reached, ReachedAt, InProcess, Processing, InFlow, CommandAt, Beginning
<1>3. Idle <=> IdleAt(step, waiting, line, replies, running, context, flash)
  BY <1>2, Zenon DEF Idle, IdleAt
<1>4. Answered <=> AnsweredAt(step, waiting, line, replies, running, context, flash)
  BY <1>2, Zenon DEF Answered, AnsweredAt
<1>5. Hearing <=> HearingAt(step, waiting, line, replies, running, context, flash)
  BY <1>1, Zenon DEF Hearing, HearingAt, InProcess, Processing, Commanding, InFlow,
     CommandAt, Beginning, InPacket, AtSync, InCommand
<1>6. Silent <=> SilentAt(step, waiting, line, replies, running, context)
  BY Zenon DEF Silent, SilentAt, InProcess, Processing, Commanding
<1>7. QED
  BY ONLY <1>3, <1>4, <1>5, <1>6, Zenon DEF Placed, PlacedAt

(* The same in the next state.                                             *)
LEMMA PlacedNext ==
  ASSUME erase_list' = erase_list
  PROVE  Placed' <=> PlacedAt(step', waiting', line', replies', running', context', flash')
<1>1. ErasePayload = 7
  BY ScriptLength
<1>2. \A i : Script(i)' = Script(i) /\ Flow(i)' = Flow(i)
  BY Zenon DEF Script, Flow
<1>3. Reached(step - 1)' <=> ReachedAt(step' - 1, running', context', flash')
  BY <1>1, <1>2, Zenon DEF Reached, ReachedAt, InProcess, Processing, InFlow, CommandAt, Beginning
<1>8. Reached(step)' <=> ReachedAt(step', running', context', flash')
  BY <1>1, <1>2, Zenon DEF Reached, ReachedAt, InProcess, Processing, InFlow, CommandAt, Beginning
<1>4. Idle' <=> IdleAt(step', waiting', line', replies', running', context', flash')
  BY <1>3, Zenon DEF Idle, IdleAt
<1>5. Answered' <=> AnsweredAt(step', waiting', line', replies', running', context', flash')
  BY <1>8, Zenon DEF Answered, AnsweredAt
<1>6. Hearing' <=> HearingAt(step', waiting', line', replies', running', context', flash')
  BY <1>1, <1>2, Zenon DEF Hearing, HearingAt, InProcess, Processing, Commanding, InFlow,
     CommandAt, Beginning, InPacket, AtSync, InCommand
<1>7. Silent' <=> SilentAt(step', waiting', line', replies', running', context')
  BY Zenon DEF Silent, SilentAt, InProcess, Processing, Commanding
<1>9. QED
  BY ONLY <1>4, <1>5, <1>6, <1>7, Zenon DEF Placed, PlacedAt

(* What is not yet told to the processor.                                  *)
LEMMA LaunchableNow ==
  /\ Corrupted \/ Whole <=> Launchable(flash)
  /\ (Corrupted \/ Whole)' <=> Launchable(flash')
BY Zenon DEF Corrupted, CrcCell, Whole, Launchable, Refused

PlacedHere == PlacedAt(step, waiting, line, replies, running, context, flash)
PlacedThen == PlacedAt(step', waiting', line', replies', running', context', flash')

(* The place of a command.                                                 *)
CommandPlace(i, cmd) ==
  /\ Script(i).bytes = <<cmd, 255 - cmd>>
  /\ Script(i).acks = IF cmd = GET THEN 2 ELSE 1
  /\ GoesOn(i) <=> cmd # GET
  /\ CommandAt(i) = cmd /\ Flow(i) = <<>>
  /\ i # 7 /\ (i > 7 => i - 1 >= 7 /\ (i - 7) \div 3 = (i - 1 - 7) \div 3)

(* Each command is one of these.                                           *)
LEMMA CommandFor ==
  ASSUME NEW i \in 2 .. LastPacket, CommandOf(i) = i
  PROVE  \E cmd \in {GET, READ_MEMORY, ERASE, WRITE_MEMORY, GO} : CommandPlace(i, cmd)
<1>1. PICK cmd \in {GET, READ_MEMORY, ERASE, WRITE_MEMORY, GO} :
           /\ Script(i) = Command(cmd)
           /\ GoesOn(i) <=> cmd # GET
           /\ i # 7 /\ (i > 7 => i - 1 >= 7 /\ (i - 7) \div 3 = (i - 1 - 7) \div 3)
  BY CommandPlaces
<1>2. /\ Command(cmd).bytes = <<cmd, 255 - cmd>> /\ Command(cmd).bytes[1] = cmd
      /\ Command(cmd).acks = IF cmd = GET THEN 2 ELSE 1
  BY CommandBytesOf
<1>3. Flow(i) = <<>>
  BY ONLY CommandOf(i) = i DEF Flow
<1>4. CommandAt(i) = cmd
  BY ONLY CommandOf(i) = i, <1>1, <1>2, Zenon DEF CommandAt
<1>5. CommandPlace(i, cmd)
  BY ONLY <1>1, <1>2, <1>3, <1>4, ZenonT(30) DEF CommandPlace
<1>6. QED
  BY ONLY <1>1, <1>5

(* Where the host is while it waits.                                       *)
LEMMA HostPlace ==
  ASSUME IInv
  PROVE  /\ step \in 1 .. LastPacket + 1 /\ LastPacket \in Nat /\ LastPacket >= 7
         /\ waiting \in 0 .. 2
         /\ waiting > 0 => step \in 1 .. LastPacket
         /\ ~Done => step \in 1 .. LastPacket
         /\ step \in 1 .. LastPacket /\ step # 1 => step \in 2 .. LastPacket
         /\ CommandOf(1) = 1
BY LastPacketType, Commands DEF IInv, TypeOK, HostInv, Done

(* Boot: the bootloader or the application starts with nothing received.   *)
LEMMA BootPlaced ==
  ASSUME IInv, PlacedHere, Boot
  PROVE  PlacedThen
<1>1. /\ step' = step /\ waiting' = waiting /\ line' = line /\ replies' = replies
      /\ flash' = flash /\ running = "off" /\ running' \in {"app", "bootloader"}
      /\ context'.state = "wait" /\ context'.buffer = <<>>
  BY DEF Boot, host
<1>2. ~Processing(running, context) /\ ~Processing(running', context')
  BY ONLY <1>1 DEF Processing
<1>3. \A i : ReachedAt(i, running, context, flash) => ReachedAt(i, running', context', flash)
  BY ONLY <1>1, <1>2 DEF ReachedAt
<1>4. <<>> \o line = line
  BY ConcatEmptySeq DEF IInv, TypeOK
<1>5. ASSUME HearingAt(step, waiting, line, replies, running, context, flash)
      PROVE  HearingAt(step, waiting, line, replies, running', context', flash)
  <2>1. ~InPacket(step, line, running, context)
    BY ONLY <1>2, Zenon DEF InPacket
  <2>2. AtSync(step, line, running, context) => AtSync(step, line, running', context')
    BY ONLY <1>2, Zenon DEF AtSync
  <2>3. InCommand(step, line, running, context) => InCommand(step, line, running', context')
    <3>1. running # "bootloader"
      BY <1>1
    <3>2. (IF running' = "bootloader" THEN context'.buffer \o line ELSE line) = line
      BY ONLY <1>1, <1>4
    <3>3. QED
      BY ONLY <1>2, <3>1, <3>2 DEF InCommand
  <2>4. QED
    BY ONLY <1>5, <2>1, <2>2, <2>3, Zenon DEF HearingAt
<1>6. ASSUME SilentAt(step, waiting, line, replies, running, context)
      PROVE  SilentAt(step, waiting, line, replies, running', context')
  <2>1. running # "bootloader" /\ Len(context'.buffer) = 0
    BY ONLY <1>1
  <2>2. (IF running' = "bootloader" THEN 1 - Len(context'.buffer) ELSE 1) = 1
    BY ONLY <2>1
  <2>3. QED
    BY ONLY <1>2, <1>6, <2>1, <2>2, Zenon DEF SilentAt
<1>7. QED
  BY ONLY <1>1, <1>3, <1>5, <1>6, PlacedHere, Zenon
     DEF PlacedHere, PlacedThen, PlacedAt, IdleAt, AnsweredAt

(* Bytes that arrive while nothing runs are a packet that has no answer.   *)
LEMMA UnheardPlaced ==
  ASSUME IInv, PlacedHere, Unheard
  PROVE  PlacedThen
<1>1. /\ step' = step /\ waiting' = waiting /\ line' = <<>> /\ replies' = replies
      /\ flash' = flash /\ running = "off" /\ running' = "off" /\ line # <<>>
      /\ context' = context
  BY DEF Unheard, host, device
<1>2. ~Processing(running, context)
  BY ONLY <1>1 DEF Processing
<1>3. waiting > 0 /\ \A n \in 1 .. Len(replies) : replies[n] = "nack"
  <2>1. HearingAt(step, waiting, line, replies, running, context, flash)
          \/ SilentAt(step, waiting, line, replies, running, context)
    BY ONLY <1>1, PlacedHere, Zenon DEF PlacedHere, PlacedAt, IdleAt, AnsweredAt
  <2>2. CASE HearingAt(step, waiting, line, replies, running, context, flash)
    <3>1. waiting > 0 /\ replies = <<>>
      BY ONLY <2>2, Zenon DEF HearingAt
    <3>2. QED
      BY ONLY <3>1
  <2>3. CASE SilentAt(step, waiting, line, replies, running, context)
    BY ONLY <2>3, Zenon DEF SilentAt
  <2>4. QED
    BY ONLY <2>1, <2>2, <2>3
<1>4. SilentAt(step, waiting, <<>>, replies, running, context)
  <2>1. Len(<<>>) = 0 /\ {(<<>>)[n] : n \in 1 .. 0} = {}
    OBVIOUS
  <2>2. SYNC \notin {(<<>>)[n] : n \in 1 .. Len(<<>>)}
    BY ONLY <2>1
  <2>3. running # "bootloader"
    BY <1>1
  <2>4. Len(<<>>) <= IF running = "bootloader" THEN 1 - Len(context.buffer) ELSE 1
    BY ONLY <2>1, <2>3
  <2>5. QED
    BY ONLY <1>2, <1>3, <2>2, <2>4, Zenon DEF SilentAt
<1>5. SilentAt(step', waiting', line', replies', running', context')
  BY ONLY <1>1, <1>4, Zenon
<1>6. QED
  BY ONLY <1>5, Zenon DEF PlacedThen, PlacedAt

(* The next packet.                                                        *)
LEMMA SendPlaced ==
  ASSUME IInv, PlacedHere, Send
  PROVE  PlacedThen
<1> DEFINE p == Script(step)
<1>1. /\ ~Done /\ waiting = 0 /\ line' = line \o p.bytes /\ waiting' = p.acks
      /\ running' = running /\ context' = context /\ flash' = flash
      /\ replies' = replies /\ step' = step
  BY DEF Send, device
<1>2. /\ step \in 1 .. LastPacket /\ step \in Nat /\ CommandOf(1) = 1
      /\ step = 1 \/ step \in 2 .. LastPacket
  <2>1. step = 1 \/ step \in 2 .. LastPacket
    BY ONLY IInv, <1>1, HostPlace, Zenon
  <2>2. step \in 1 .. LastPacket /\ CommandOf(1) = 1
    BY ONLY IInv, <1>1, HostPlace, Zenon
  <2>3. QED
    BY ONLY <2>1, <2>2, LastPacketType
<1>3. /\ line = <<>> /\ replies = <<>>
      /\ ReachedAt(step - 1, running, context, flash)
  <2>1. ~(waiting > 0)
    BY <1>1
  <2>2. QED
    BY ONLY <2>1, PlacedHere, Zenon
       DEF PlacedHere, PlacedAt, IdleAt, AnsweredAt, HearingAt, SilentAt
<1>4. p.bytes \in Seq(Byte) /\ p.acks \in 1 .. 2 /\ Len(p.bytes) \in Nat
  <2>1. p \in Packets
    BY <1>2, ScriptPacket DEF IInv, TypeOK
  <2>2. QED
    BY ONLY <2>1 DEF Packets
<1>5. line' = p.bytes
  BY ONLY <1>1, <1>3, <1>4, ConcatEmptySeq
<1> HIDE DEF p
<1>6. step > 7 => flash = Beginning((step - 1 - 7) \div 3)
  <2>1. step > 7 => step - 1 >= 7
    BY ONLY <1>2
  <2>2. QED
    BY ONLY <1>3, <2>1, Zenon DEF ReachedAt
<1>7. waiting' > 0 /\ waiting' = Script(step).acks /\ Len(line') <= Len(Script(step).bytes)
  BY ONLY <1>1, <1>4, <1>5 DEF p
<1>8. SUFFICES \/ line' # <<>> /\ \/ InPacket(step, line', running, context)
                                  \/ AtSync(step, line', running, context)
                                  \/ InCommand(step, line', running, context)
               \/ ~Processing(running, context) /\ CommandOf(step) # step
  <2>1. CASE line' # <<>> /\ \/ InPacket(step, line', running, context)
                             \/ AtSync(step, line', running, context)
                             \/ InCommand(step, line', running, context)
    <3>1. HearingAt(step', waiting', line', replies', running', context', flash')
      BY ONLY <1>1, <1>3, <1>6, <1>7, <2>1, Zenon DEF HearingAt
    <3>2. QED
      BY ONLY <3>1, Zenon DEF PlacedThen, PlacedAt
  <2>2. CASE ~Processing(running, context) /\ CommandOf(step) # step
    <3>1. \A n \in 1 .. Len(<<>>) : (<<>>)[n] = "nack"
      OBVIOUS
    <3>2. step # 1
      BY <1>2, <2>2
    <3>3. SilentAt(step', waiting', line', replies', running', context')
      BY ONLY <1>1, <1>3, <1>7, <2>2, <3>1, <3>2, Zenon DEF SilentAt
    <3>4. QED
      BY ONLY <3>3, Zenon DEF PlacedThen, PlacedAt
  <2>3. QED
    BY <2>1, <2>2
<1>9. CASE step = 1
  <2>1. line' = <<SYNC>> /\ <<SYNC>> # <<>>
    <3>1. Script(1).bytes = <<SYNC>>
      BY ScriptPackets DEF Packet
    <3>2. QED
      BY <1>5, <1>9, <3>1 DEF p
  <2>2. ~GoesOn(0)
    BY <1>2 DEF GoesOn
  <2>3. ~Processing(running, context)
    <3>1. step - 1 = 0
      BY <1>9
    <3>2. QED
      BY ONLY <1>3, <2>2, <3>1, Zenon DEF ReachedAt
  <2>4. QED
    BY ONLY <1>9, <2>1, <2>3, Zenon DEF AtSync
<1>10. CASE step # 1 /\ CommandOf(step) = step
  <2>1. step \in 2 .. LastPacket
    BY <1>2, <1>10
  <2>2. PICK cmd : Script(step).bytes = <<cmd, 255 - cmd>>
    BY <1>10, <2>1, CommandFor DEF CommandPlace
  <2>3. line' # <<>>
    BY ONLY <1>5, <2>2 DEF p
  <2>4. ~GoesOn(step - 1)
    <3>1. step - 1 + 1 = step /\ ~(step <= step - 1)
      BY ONLY <1>2
    <3>2. QED
      BY ONLY <1>10, <3>1, Zenon DEF GoesOn
  <2>5. ~Processing(running, context)
    BY ONLY <1>3, <2>4, Zenon DEF ReachedAt
  <2>6. running = "bootloader" => context.buffer = <<>>
    <3>1. running = "bootloader" => context.state = "wait"
      BY <2>5 DEF Processing, IInv, TypeOK, Contexts
    <3>2. step - 1 > 0 /\ step > 1
      BY ONLY <2>1, LastPacketType
    <3>3. QED
      BY ONLY <1>3, <3>1, <3>2, Zenon DEF ReachedAt
  <2>7. (IF running = "bootloader" THEN context.buffer \o line' ELSE line') = p.bytes
    BY ONLY <1>4, <1>5, <2>6, ConcatEmptySeq
  <2>8. step > 1
    BY ONLY <2>1, LastPacketType
  <2>9. InCommand(step, line', running, context)
    BY ONLY <1>10, <2>5, <2>7, <2>8, Zenon DEF InCommand, p
  <2>10. QED
    BY ONLY <2>3, <2>9
<1>11. CASE CommandOf(step) # step /\ Processing(running, context)
  <2>1. erase_list \in EraseLists
    BY DEF IInv, TypeOK
  <2>2. FlowStep(step)
    BY ONLY <1>2, <1>11, <2>1, NextInFlow
  <2>3. context.command = CommandAt(step - 1) /\ context.buffer = Flow(step - 1)
    BY ONLY <1>3, <1>11, Zenon DEF ReachedAt
  <2>4. context.command = CommandAt(step)
    BY ONLY <2>2, <2>3, Zenon DEF FlowStep, InFlow, CommandAt
  <2>5. context.buffer \o line' = Flow(step)
    BY ONLY <1>5, <2>2, <2>3, Zenon DEF FlowStep, p
  <2>6. line' # <<>>
    <3>1. Len(p.bytes) >= 1
      BY ONLY <2>2, Zenon DEF FlowStep, p
    <3>2. QED
      BY ONLY <1>4, <1>5, <3>1
  <2>7. InPacket(step, line', running, context)
    BY ONLY <1>11, <2>4, <2>5, Zenon DEF InPacket
  <2>8. QED
    BY ONLY <2>6, <2>7
<1>12. QED
  BY ONLY <1>9, <1>10, <1>11

(* An acknowledgement is one the device gave.                              *)
LEMMA AcknowledgedPlaced ==
  ASSUME IInv, PlacedHere, Acknowledged
  PROVE  PlacedThen
<1>1. /\ waiting > 0 /\ Heard = "ack" /\ replies' = Tail(replies) /\ waiting' = waiting - 1
      /\ step' = IF waiting = 1 THEN step + 1 ELSE step
      /\ running' = running /\ context' = context /\ flash' = flash /\ line' = line
  BY DEF Acknowledged, device
<1>2. replies # <<>> /\ Head(replies) = "ack" /\ replies \in Seq(Replies)
  BY <1>1 DEF Heard, IInv, TypeOK
<1>3. /\ waiting \in 1 .. 2 /\ step \in Nat
  BY <1>1, HostPlace
<1>4. AnsweredAt(step, waiting, line, replies, running, context, flash)
  <2>1. ~IdleAt(step, waiting, line, replies, running, context, flash)
    BY ONLY <1>2, Zenon DEF IdleAt
  <2>2. ~HearingAt(step, waiting, line, replies, running, context, flash)
    BY ONLY <1>2, Zenon DEF HearingAt
  <2>3. ~SilentAt(step, waiting, line, replies, running, context)
    <3>1. 1 \in 1 .. Len(replies) /\ replies[1] # "nack"
      BY ONLY <1>2
    <3>2. QED
      BY ONLY <3>1, Zenon DEF SilentAt
  <2>4. QED
    BY ONLY <2>1, <2>2, <2>3, PlacedHere, Zenon DEF PlacedHere, PlacedAt
<1>5. /\ line = <<>> /\ replies = [n \in 1 .. waiting |-> "ack"]
      /\ ReachedAt(step, running, context, flash)
  BY ONLY <1>4, Zenon DEF AnsweredAt
<1>6. replies' = [n \in 1 .. waiting - 1 |-> "ack"]
  <2>1. PICK a, t : a = replies /\ t = Tail(a)
    OBVIOUS
  <2>2. a \in Seq(Replies) /\ a # <<>> /\ Len(a) = waiting /\ \A n \in 1 .. waiting : a[n] = "ack"
    BY ONLY <1>2, <1>3, <1>5, <2>1
  <2>3. t \in Seq(Replies) /\ Len(t) = Len(a) - 1 /\ \A i \in 1 .. Len(t) : t[i] = a[i + 1]
    BY ONLY <2>1, <2>2, HeadTailProperties
  <2>4. \A i \in 1 .. waiting - 1 : t[i] = "ack"
    BY ONLY <1>3, <2>2, <2>3
  <2>5. t = [n \in 1 .. waiting - 1 |-> "ack"]
    BY ONLY <1>3, <2>2, <2>3, <2>4
  <2>6. QED
    BY ONLY <1>1, <2>1, <2>5
<1>7. CASE waiting = 1
  <2>1. waiting' = 0 /\ step' - 1 = step /\ replies' = <<>>
    BY ONLY <1>1, <1>3, <1>6, <1>7
  <2>2. IdleAt(step', waiting', line', replies', running', context', flash')
    BY ONLY <1>1, <1>5, <2>1, Zenon DEF IdleAt
  <2>3. QED
    BY ONLY <2>2, Zenon DEF PlacedThen, PlacedAt
<1>8. CASE waiting # 1
  <2>1. waiting' > 0 /\ step' = step /\ replies' = [n \in 1 .. waiting' |-> "ack"]
    <3>1. waiting' > 0 /\ step' = step /\ waiting' = waiting - 1
      BY ONLY <1>1, <1>3, <1>8
    <3>2. replies' = [n \in 1 .. waiting' |-> "ack"]
      BY ONLY <1>6, <3>1, Zenon
    <3>3. QED
      BY <3>1, <3>2
  <2>2. AnsweredAt(step', waiting', line', replies', running', context', flash')
    BY ONLY <1>1, <1>5, <2>1, Zenon DEF AnsweredAt
  <2>3. QED
    BY ONLY <2>2, Zenon DEF PlacedThen, PlacedAt
<1>9. QED
  BY <1>7, <1>8

(* The host starts again only when the device is not on its packet: nothing*)
(* the device still works at is left behind.                               *)
LEMMA StartAgainPlaced ==
  ASSUME IInv, PlacedHere, StartAgain
  PROVE  PlacedThen
<1>1. /\ waiting > 0 /\ line = <<>> /\ Heard \in {"nack", "nothing"}
      /\ replies' = <<>> /\ step' = 1 /\ waiting' = 0
      /\ running' = running /\ context' = context /\ flash' = flash /\ line' = line
  BY DEF StartAgain, device
<1>2. ~Processing(running, context)
  <2>1. ~IdleAt(step, waiting, line, replies, running, context, flash)
    <3>1. waiting # 0
      BY <1>1
    <3>2. QED
      BY ONLY <3>1, Zenon DEF IdleAt
  <2>2. ~HearingAt(step, waiting, line, replies, running, context, flash)
    BY ONLY <1>1, Zenon DEF HearingAt
  <2>3. ~AnsweredAt(step, waiting, line, replies, running, context, flash)
    <3>1. waiting \in 1 .. 2
      BY <1>1, HostPlace
    <3>2. replies = [n \in 1 .. waiting |-> "ack"] => replies # <<>> /\ Head(replies) = "ack"
      BY ONLY <3>1
    <3>3. ~(replies # <<>> /\ Head(replies) = "ack")
      BY <1>1 DEF Heard
    <3>4. QED
      BY ONLY <3>2, <3>3, Zenon DEF AnsweredAt
  <2>4. QED
    BY ONLY <2>1, <2>2, <2>3, PlacedHere, Zenon DEF PlacedHere, PlacedAt, SilentAt
<1>3. ReachedAt(0, running, context, flash)
  <2>1. ~(0 >= 7) /\ ~(0 > 0)
    OBVIOUS
  <2>2. QED
    BY ONLY <1>2, <2>1, Zenon DEF ReachedAt
<1>4. 1 - 1 = 0
  OBVIOUS
<1>5. IdleAt(step', waiting', line', replies', running', context', flash')
  BY ONLY <1>1, <1>3, <1>4, Zenon DEF IdleAt
<1>6. QED
  BY ONLY <1>5, Zenon DEF PlacedThen, PlacedAt

(* Behind the last packet no command goes on.                              *)
LEMMA UpdateAgainPlaced ==
  ASSUME IInv, PlacedHere, UpdateAgain
  PROVE  PlacedThen
<1>1. /\ Done /\ replies' = <<>> /\ step' = 1 /\ waiting' = waiting
      /\ running' = running /\ context' = context /\ flash' = flash /\ line' = line
  BY DEF UpdateAgain, device
<1>2. waiting = 0 /\ ~(waiting > 0) /\ step - 1 = LastPacket
  BY <1>1, HostPlace DEF Done, IInv, HostInv
<1>3. line = <<>> /\ ReachedAt(step - 1, running, context, flash)
  BY ONLY <1>2, PlacedHere, Zenon
     DEF PlacedHere, PlacedAt, IdleAt, AnsweredAt, HearingAt, SilentAt
<1>4. ~GoesOn(LastPacket)
  BY LastPacketType DEF GoesOn
<1>5. ~Processing(running, context)
  BY ONLY <1>2, <1>3, <1>4, Zenon DEF ReachedAt
<1>6. ReachedAt(0, running, context, flash)
  <2>1. ~(0 >= 7) /\ ~(0 > 0)
    OBVIOUS
  <2>2. QED
    BY ONLY <1>5, <2>1, Zenon DEF ReachedAt
<1>7. 1 - 1 = 0
  OBVIOUS
<1>8. IdleAt(step', waiting', line', replies', running', context', flash')
  BY ONLY <1>1, <1>2, <1>3, <1>6, <1>7, Zenon DEF IdleAt
<1>9. QED
  BY ONLY <1>8, Zenon DEF PlacedThen, PlacedAt

-----------------------------------------------------------------------------
(* The bytes behind the first one of a line without a synchronisation.     *)
LEMMA NoSync ==
  ASSUME NEW l \in Seq(Byte), l # <<>>, SYNC \notin {l[n] : n \in 1 .. Len(l)}
  PROVE  /\ Head(l) # SYNC /\ Tail(l) \in Seq(Byte) /\ Len(Tail(l)) = Len(l) - 1
         /\ SYNC \notin {Tail(l)[n] : n \in 1 .. Len(Tail(l))}
<1>1. /\ Tail(l) \in Seq(Byte) /\ Len(Tail(l)) = Len(l) - 1
      /\ \A i \in 1 .. Len(Tail(l)) : Tail(l)[i] = l[i + 1]
  BY HeadTailProperties
<1>2. Len(l) \in Nat /\ Len(l) >= 1 /\ Head(l) = l[1]
  BY LenProperties, EmptySeq
<1>3. \A i \in 1 .. Len(l) : l[i] # SYNC
  OBVIOUS
<1>4. \A i \in 1 .. Len(Tail(l)) : i + 1 \in 1 .. Len(l)
  BY ONLY <1>1, <1>2
<1>5. \A i \in 1 .. Len(Tail(l)) : Tail(l)[i] # SYNC
  BY ONLY <1>1, <1>3, <1>4
<1>6. QED
  BY ONLY <1>1, <1>2, <1>3, <1>5

(* The bytes of a command, and what is left of it behind the first.        *)
WithoutSync(l) ==
  /\ Head(l) # SYNC /\ Len(Tail(l)) = 1
  /\ SYNC \notin {Tail(l)[n] : n \in 1 .. Len(Tail(l))}

(* No command begins or ends with a synchronisation.                       *)
LEMMA CommandLine ==
  ASSUME NEW cmd \in {GET, READ_MEMORY, ERASE, WRITE_MEMORY, GO}, NEW l, l = <<cmd, 255 - cmd>>
  PROVE  WithoutSync(l)
<1>1. cmd # SYNC /\ 255 - cmd # SYNC
  BY CommandBytesOf
<1>2. Head(l) = cmd /\ Tail(l) = <<255 - cmd>>
  OBVIOUS
<1>3. PICK e : e = 255 - cmd
  OBVIOUS
<1>4. Len(<<e>>) = 1 /\ \A n \in 1 .. 1 : (<<e>>)[n] = e
  OBVIOUS
<1>5. Len(Tail(l)) = 1 /\ \A n \in 1 .. 1 : Tail(l)[n] # SYNC
  <2>1. Tail(l) = <<e>> /\ e # SYNC
    BY ONLY <1>1, <1>2, <1>3, Zenon
  <2>2. QED
    BY ONLY <1>4, <2>1, Zenon
<1>6. SYNC \notin {Tail(l)[n] : n \in 1 .. Len(Tail(l))}
  BY ONLY <1>5
<1>7. QED
  BY ONLY <1>1, <1>2, <1>5, <1>6 DEF WithoutSync

(* A device that listens, and whose next byte begins no command, stays     *)
(* silent.                                                                 *)
LEMMA StaysSilent ==
  ASSUME NEW k, NEW w, NEW l \in Seq(Byte), l # <<>>, NEW a, NEW r, NEW c, NEW d,
         SilentAt(k, w, l, a, r, c),
         ~Processing(r, d), r = "bootloader" => Len(d.buffer) \in 0 .. 1,
         CommandOf(k) = k /\ k > 1 => (r = "bootloader" => Len(d.buffer) <= Len(c.buffer) + 1),
         Len(c.buffer) \in Nat,
         NEW b, b = a \/ b = a \o <<"nack">>, a \in Seq(Replies)
  PROVE  SilentAt(k, w, Tail(l), b, r, d)
<1>1. /\ w > 0 /\ \A n \in 1 .. Len(a) : a[n] = "nack"
      /\ k = 1 => l = <<>>
      /\ CommandOf(k) = k /\ k > 1 =>
           /\ SYNC \notin {l[n] : n \in 1 .. Len(l)}
           /\ Len(l) <= IF r = "bootloader" THEN 1 - Len(c.buffer) ELSE 1
  BY ONLY SilentAt(k, w, l, a, r, c), Zenon DEF SilentAt
<1>2. k # 1
  BY <1>1
<1>3. \A n \in 1 .. Len(b) : b[n] = "nack"
  <2>1. CASE b = a
    BY ONLY <1>1, <2>1
  <2>2. CASE b = a \o <<"nack">>
    <3>1. PICK s : s = <<"nack">>
      OBVIOUS
    <3>2. s \in Seq(Replies) /\ Len(s) = 1 /\ s[1] = "nack"
      BY ONLY <3>1 DEF Replies
    <3>3. /\ Len(b) = Len(a) + Len(s)
          /\ \A i \in 1 .. Len(a) + Len(s) : b[i] = IF i <= Len(a) THEN a[i] ELSE s[i - Len(a)]
      BY ONLY <2>2, <3>1, <3>2, a \in Seq(Replies), ConcatProperties
    <3>4. Len(a) \in Nat
      BY ONLY a \in Seq(Replies), LenProperties
    <3>5. ASSUME NEW n \in 1 .. Len(b) PROVE b[n] = "nack"
      <4>1. n \in 1 .. Len(a) + Len(s) /\ (n \in 1 .. Len(a) \/ (n = Len(a) + 1 /\ ~(n <= Len(a)) /\ n - Len(a) = 1))
        BY ONLY <3>2, <3>3, <3>4, n \in 1 .. Len(b)
      <4>2. n \in 1 .. Len(a) => n <= Len(a)
        BY ONLY <3>4
      <4>3. QED
        BY ONLY <1>1, <3>2, <3>3, <4>1, <4>2
    <3>6. QED
      BY <3>5
  <2>3. QED
    BY <2>1, <2>2
<1>4. ASSUME CommandOf(k) = k /\ k > 1
      PROVE  /\ SYNC \notin {Tail(l)[n] : n \in 1 .. Len(Tail(l))}
             /\ Len(Tail(l)) <= IF r = "bootloader" THEN 1 - Len(d.buffer) ELSE 1
  <2>1. /\ SYNC \notin {l[n] : n \in 1 .. Len(l)}
        /\ Len(l) <= IF r = "bootloader" THEN 1 - Len(c.buffer) ELSE 1
    BY ONLY <1>1, <1>4, Zenon
  <2>2. /\ Len(Tail(l)) = Len(l) - 1
        /\ SYNC \notin {Tail(l)[n] : n \in 1 .. Len(Tail(l))}
    BY ONLY <2>1, NoSync, l \in Seq(Byte), l # <<>>
  <2>3. Len(l) \in Nat /\ Len(l) >= 1
    BY LenProperties, EmptySeq
  <2>4. r = "bootloader" => Len(l) = 1 /\ Len(c.buffer) = 0 /\ Len(d.buffer) \in 0 .. 1
    <3>1. SUFFICES ASSUME r = "bootloader"
                   PROVE  Len(l) = 1 /\ Len(c.buffer) = 0 /\ Len(d.buffer) \in 0 .. 1
      OBVIOUS
    <3>2. PICK p, q : p = Len(l) /\ q = Len(c.buffer)
      OBVIOUS
    <3>3. p <= 1 - q
      BY ONLY <2>1, <3>1, <3>2, Zenon
    <3>4. p = 1 /\ q = 0
      BY ONLY <2>3, <3>2, <3>3, Len(c.buffer) \in Nat
    <3>5. QED
      BY <3>1, <3>2, <3>4
  <2>5. Len(Tail(l)) <= IF r = "bootloader" THEN 1 - Len(d.buffer) ELSE 1
    BY ONLY <2>1, <2>2, <2>3, <2>4
  <2>6. QED
    BY <2>2, <2>5
<1>5. QED
  BY ONLY <1>1, <1>2, <1>3, <1>4, ~Processing(r, d), Zenon DEF SilentAt

(* The application hears a synchronisation, or nothing it listens to.      *)
LEMMA AppReceivePlaced ==
  ASSUME IInv, PlacedHere, AppReceive, ~misheard'
  PROVE  PlacedThen
<1>1. /\ running = "app" /\ line # <<>> /\ line' = Tail(line) /\ line \in Seq(Byte)
      /\ step' = step /\ waiting' = waiting
      /\ context' = context /\ flash' = flash
      /\ \/ /\ Enters(Head(line)) /\ replies' = Append(replies, "ack") /\ running' = "off"
            /\ Commanding
         \/ ~Enters(Head(line)) /\ replies' = replies /\ running' = running
      /\ replies \in Seq(Replies) /\ step \in Int
      /\ waiting > 0 => step \in 1 .. LastPacket
      /\ step \in 1 .. LastPacket /\ step # 1 => step \in 2 .. LastPacket
      /\ Len(context.buffer) \in Nat
  <2>1. /\ running = "app" /\ line # <<>> /\ line' = Tail(line)
        /\ step' = step /\ waiting' = waiting
        /\ context' = context /\ flash' = flash
        /\ \/ /\ Enters(Head(line)) /\ replies' = Append(replies, "ack") /\ running' = "off"
              /\ Commanding
           \/ ~Enters(Head(line)) /\ replies' = replies /\ running' = running
    BY Zenon DEF AppReceive, host
  <2>2. line \in Seq(Byte) /\ replies \in Seq(Replies) /\ context.buffer \in Seq(Byte)
    BY DEF IInv, TypeOK, Contexts
  <2>3. Len(context.buffer) \in Nat
    BY ONLY <2>2, LenProperties
  <2>4. /\ step \in 1 .. LastPacket + 1
        /\ waiting > 0 => step \in 1 .. LastPacket
        /\ step \in 1 .. LastPacket /\ step # 1 => step \in 2 .. LastPacket
    BY ONLY IInv, HostPlace, Zenon
  <2>5. step \in Int
    BY ONLY <2>4, LastPacketType
  <2>6. QED
    BY ONLY <2>1, <2>2, <2>3, <2>4, <2>5, Zenon
<1>2. /\ running # "bootloader" /\ running' # "bootloader"
      /\ ~Processing(running, context) /\ ~Processing(running', context)
  <2>1. running # "bootloader" /\ running' # "bootloader"
    BY ONLY <1>1
  <2>2. QED
    BY ONLY <2>1, Zenon DEF Processing
<1>3. CASE SilentAt(step, waiting, line, replies, running, context)
  <2>1. ~Enters(Head(line))
    <3>1. SUFFICES ASSUME Enters(Head(line)), Commanding PROVE FALSE
      BY <1>1
    <3>2. step # 1 /\ step \in 2 .. LastPacket
      <4>1. waiting > 0 /\ step # 1
        BY ONLY <1>1, <1>3, Zenon DEF SilentAt
      <4>2. QED
        BY ONLY <1>1, <4>1, Zenon
    <3>3. CommandOf(step) = step /\ step > 1
      <4>1. CommandOf(step) = step
        BY ONLY <3>1, Zenon DEF Commanding
      <4>2. QED
        BY ONLY <3>2, <4>1, LastPacketType
    <3>4. SYNC \notin {line[n] : n \in 1 .. Len(line)}
      BY ONLY <1>3, <3>3, Zenon DEF SilentAt
    <3>5. Head(line) # SYNC
      BY ONLY <1>1, <3>4, NoSync
    <3>6. QED
      BY ONLY <3>1, <3>5, Zenon DEF Enters
  <2>2. SilentAt(step, waiting, Tail(line), replies, running, context)
    BY ONLY <1>1, <1>2, <1>3, StaysSilent
  <2>3. SilentAt(step', waiting', line', replies', running', context')
    BY ONLY <1>1, <2>1, <2>2, Zenon
  <2>4. QED
    BY ONLY <2>3, Zenon DEF PlacedThen, PlacedAt
<1>4. CASE HearingAt(step, waiting, line, replies, running, context, flash)
  <2>1. /\ waiting > 0 /\ waiting = Script(step).acks /\ replies = <<>>
        /\ AtSync(step, line, running, context) \/ InCommand(step, line, running, context)
    BY ONLY <1>2, <1>4, Zenon DEF HearingAt, InPacket
  <2>2. CASE AtSync(step, line, running, context)
    <3>1. step = 1 /\ line = <<SYNC>>
      BY ONLY <2>2, Zenon DEF AtSync
    <3>2. Tail(line) = <<>>
      BY ONLY <3>1
    <3>3. CASE Enters(Head(line))
      <4>1. waiting = 1
        BY <2>1, <3>1, ScriptPackets DEF Packet
      <4>2. replies' = [n \in 1 .. waiting |-> "ack"]
        <5>1. replies' = <<"ack">>
          BY ONLY <1>1, <2>1, <3>3
        <5>2. QED
          BY ONLY <4>1, <5>1
      <4>3. ReachedAt(1, running', context, flash)
        <5>1. ~(1 >= 7)
          OBVIOUS
        <5>2. QED
          BY ONLY <1>2, <5>1, Zenon DEF ReachedAt
      <4>4. AnsweredAt(step', waiting', line', replies', running', context', flash')
        BY ONLY <1>1, <2>1, <3>1, <3>2, <4>2, <4>3, Zenon DEF AnsweredAt
      <4>5. QED
        BY ONLY <4>4, Zenon DEF PlacedThen, PlacedAt
    <3>4. CASE ~Enters(Head(line))
      <4>1. ~(1 > 1) /\ \A n \in 1 .. Len(<<>>) : (<<>>)[n] = "nack"
        OBVIOUS
      <4>2. SilentAt(step', waiting', line', replies', running', context')
        BY ONLY <1>1, <1>2, <2>1, <3>1, <3>2, <3>4, <4>1, Zenon DEF SilentAt
      <4>3. QED
        BY ONLY <4>2, Zenon DEF PlacedThen, PlacedAt
    <3>5. QED
      BY <3>3, <3>4
  <2>3. CASE InCommand(step, line, running, context)
    <3>1. CommandOf(step) = step /\ step > 1 /\ Script(step).bytes = line
      BY ONLY <1>2, <2>3, Zenon DEF InCommand
    <3>2. step \in 2 .. LastPacket /\ step # 1
      <4>1. step # 1
        BY ONLY <1>1, <3>1
      <4>2. QED
        BY ONLY <1>1, <2>1, <4>1, Zenon
    <3>3. PICK cmd \in {GET, READ_MEMORY, ERASE, WRITE_MEMORY, GO} : CommandPlace(step, cmd)
      BY ONLY <3>1, <3>2, CommandFor
    <3>11. line = <<cmd, 255 - cmd>>
      BY ONLY <3>1, <3>3, Zenon DEF CommandPlace
    <3>4. /\ Head(line) # SYNC /\ Len(Tail(line)) = 1
          /\ SYNC \notin {Tail(line)[n] : n \in 1 .. Len(Tail(line))}
      <4>1. WithoutSync(line)
        BY <3>11, CommandLine
      <4>2. QED
        BY ONLY <4>1, Zenon DEF WithoutSync
    <3>5. ~Enters(Head(line))
      BY ONLY <3>4, Zenon DEF Enters
    <3>6. Len(Tail(line)) <= IF running = "bootloader" THEN 1 - Len(context.buffer) ELSE 1
      <4>1. (IF running = "bootloader" THEN 1 - Len(context.buffer) ELSE 1) = 1
        BY ONLY <1>2, Zenon
      <4>2. PICK m : m = Len(Tail(line))
        OBVIOUS
      <4>3. m = 1 /\ m <= 1
        BY ONLY <3>4, <4>2
      <4>4. QED
        BY ONLY <4>1, <4>2, <4>3, Zenon
    <3>7. \A n \in 1 .. Len(<<>>) : (<<>>)[n] = "nack"
      OBVIOUS
    <3>8. SilentAt(step, waiting, Tail(line), <<>>, running, context)
      BY ONLY <1>2, <2>1, <3>2, <3>4, <3>6, <3>7, Zenon DEF SilentAt
    <3>9. SilentAt(step', waiting', line', replies', running', context')
      BY ONLY <1>1, <2>1, <3>5, <3>8, Zenon
    <3>10. QED
      BY ONLY <3>9, Zenon DEF PlacedThen, PlacedAt
  <2>4. QED
    BY ONLY <2>1, <2>2, <2>3
<1>5. QED
  BY ONLY <1>1, <1>3, <1>4, PlacedHere, Zenon DEF PlacedHere, PlacedAt, IdleAt, AnsweredAt

(* What the protocol makes of one or two bytes of a command.               *)
CommandChecked(c, o) ==
  /\ o.operation = NoFlash /\ o.reset = FALSE
  /\ \/ o.context = c /\ o.answers = <<>> /\ Len(c.buffer) = 1 /\ c.buffer # <<SYNC>>
     \/ o.context.state = "wait" /\ o.context.buffer = <<>>
        /\ o.answers = <<"nack">> /\ Len(c.buffer) = 2
        /\ ~(CommandValid(c.buffer) /\ c.buffer[1] \in Supported)
     \/ o.context.state = "wait" /\ o.context.buffer = <<>>
        /\ o.answers = <<"ack">> /\ c.buffer = <<SYNC>>
     \/ /\ o.context.command = c.buffer[1] /\ o.context.buffer = <<>>
        /\ CommandValid(c.buffer) /\ c.buffer[1] \in Supported /\ Len(c.buffer) = 2
        /\ IF c.buffer[1] \in {GET, GET_VERSION, GET_ID}
           THEN o.context.state = "wait" /\ o.answers = <<"ack", "ack">>
           ELSE o.context.state = "process" /\ o.answers = <<"ack">>

(* CommandCheck does one of these.                                         *)
LEMMA CommandCheckOf ==
  ASSUME NEW c \in Contexts, c.state = "wait", Len(c.buffer) \in 1 .. 2
  PROVE  CommandChecked(c, CommandCheck(c))
<1> DEFINE d == [Cleared(c) EXCEPT !.command = c.buffer[1]]
           e == [d EXCEPT !.state = "process"]
<1>1. /\ Cleared(c).state = "wait" /\ Cleared(c).buffer = <<>>
      /\ d.state = "wait" /\ d.buffer = <<>> /\ d.command = c.buffer[1]
      /\ e.state = "process" /\ e.buffer = <<>> /\ e.command = c.buffer[1]
  BY DEF Contexts, Cleared
<1>2. \A x, a : /\ Answer(x, a).context = x /\ Answer(x, a).answers = a
                /\ Answer(x, a).operation = NoFlash /\ Answer(x, a).reset = FALSE
  BY DEF Answer, Outcome
<1>3. Wait(c) = Answer(c, <<>>) /\ Nack(c) = Answer(Cleared(c), <<"nack">>)
  BY DEF Wait, Nack, Answer
<1>4. CASE c.buffer = <<SYNC>>
  <2>1. CommandCheck(c) = Answer(Cleared(c), <<"ack">>)
    <3>1. Len(c.buffer) = 1
      BY <1>4
    <3>2. ~(Len(c.buffer) >= 2)
      BY ONLY <3>1
    <3>3. QED
      BY ONLY <1>4, <3>2, Zenon DEF CommandCheck
  <2>2. QED
    BY ONLY <1>1, <1>2, <1>4, <2>1 DEF CommandChecked
<1>5. CASE c.buffer # <<SYNC>> /\ Len(c.buffer) = 1
  <2>1. CommandCheck(c) = Wait(c)
    <3>1. Len(c.buffer) < 2 /\ ~(Len(c.buffer) >= 2)
      BY ONLY <1>5
    <3>2. QED
      BY ONLY <1>5, <3>1, Zenon DEF CommandCheck
  <2>2. QED
    BY ONLY <1>2, <1>3, <1>5, <2>1 DEF CommandChecked
<1>6. CASE c.buffer # <<SYNC>> /\ Len(c.buffer) = 2
  <2>1. Len(c.buffer) >= 2 /\ ~(Len(c.buffer) < 2)
    BY ONLY <1>6
  <2>2. CASE ~CommandValid(c.buffer)
    <3>1. CommandCheck(c) = Nack(c)
      BY ONLY <1>6, <2>1, <2>2, Zenon DEF CommandCheck
    <3>2. QED
      BY ONLY <1>1, <1>2, <1>3, <1>6, <2>2, <3>1 DEF CommandChecked
  <2>3. CASE CommandValid(c.buffer)
    <3>1. CommandCheck(c) =
            IF c.buffer[1] \notin Supported THEN Answer(d, <<"nack">>)
            ELSE IF c.buffer[1] \in {GET, GET_VERSION, GET_ID}
            THEN Answer(d, <<"ack", "ack">>)
            ELSE Answer(e, <<"ack">>)
      BY ONLY <1>6, <2>1, <2>3, Zenon DEF CommandCheck
    <3> HIDE DEF d, e
    <3>2. CASE c.buffer[1] \notin Supported
      BY ONLY <1>1, <1>2, <1>6, <3>1, <3>2 DEF CommandChecked
    <3>3. CASE c.buffer[1] \in Supported /\ c.buffer[1] \in {GET, GET_VERSION, GET_ID}
      <4>1. CommandCheck(c) = Answer(d, <<"ack", "ack">>)
        BY ONLY <3>1, <3>3, Zenon
      <4>2. QED
        BY ONLY <1>1, <1>2, <1>6, <2>3, <3>3, <4>1 DEF CommandChecked
    <3>4. CASE c.buffer[1] \in Supported /\ c.buffer[1] \notin {GET, GET_VERSION, GET_ID}
      <4>1. CommandCheck(c) = Answer(e, <<"ack">>)
        BY ONLY <3>1, <3>4, Zenon
      <4>2. QED
        BY ONLY <1>1, <1>2, <1>6, <2>3, <3>4, <4>1 DEF CommandChecked
    <3>5. QED
      BY <3>2, <3>3, <3>4
  <2>4. QED
    BY <2>2, <2>3
<1>7. QED
  BY <1>4, <1>5, <1>6

(* byte_handle while it waits for a command.                               *)
LEMMA CommandByte ==
  ASSUME IInv, line # <<>>, context.state = "wait",
         NEW c, c = [context EXCEPT !.buffer = Append(@, Head(line))]
  PROVE  /\ c.state = "wait" /\ Len(context.buffer) \in 0 .. 1
         /\ Len(c.buffer) = Len(context.buffer) + 1
         /\ c.buffer = Append(context.buffer, Head(line))
         /\ CommandChecked(c, byte_handle(Head(line)))
<1>1. /\ context \in Contexts /\ context.buffer \in Seq(Byte) /\ line \in Seq(Byte)
      /\ Within(context)
  BY DEF IInv, TypeOK, Contexts
<1>2. Head(line) \in Byte
  BY ONLY <1>1, line # <<>>, HeadTailProperties
<1>3. Len(context.buffer) \in 0 .. 1
  <2>1. Len(context.buffer) <= 1
    BY <1>1 DEF Within
  <2>2. QED
    <3>1. Len(context.buffer) \in Nat
      BY ONLY <1>1, LenProperties
    <3>2. PICK n : n = Len(context.buffer)
      OBVIOUS
    <3>3. n \in Nat /\ n <= 1
      BY ONLY <2>1, <3>1, <3>2
    <3>4. n \in 0 .. 1
      BY ONLY <3>3
    <3>5. QED
      BY ONLY <3>2, <3>4, Zenon
<1>4. /\ c.state = "wait" /\ c.buffer = Append(context.buffer, Head(line))
      /\ c.command = context.command
  BY <1>1 DEF Contexts
<1>5. c.buffer \in Seq(Byte) /\ Len(c.buffer) = Len(context.buffer) + 1
  BY ONLY <1>1, <1>2, <1>4, AppendProperties
<1>6. c \in Contexts
  BY <1>1, <1>4, <1>5 DEF Contexts
<1>7. byte_handle(Head(line)) = CommandCheck(c)
  BY <1>4 DEF byte_handle
<1>8. CommandChecked(c, CommandCheck(c))
  <2>1. Len(c.buffer) \in 1 .. 2
    <3>1. PICK n : n = Len(context.buffer)
      OBVIOUS
    <3>4. n \in 0 .. 1
      BY ONLY <1>3, <3>1, Zenon
    <3>2. n + 1 \in 1 .. 2
      BY ONLY <3>4
    <3>3. QED
      BY ONLY <1>5, <3>1, <3>2, Zenon
  <2>2. QED
    BY ONLY <1>4, <1>6, <2>1, CommandCheckOf
<1>9. QED
  BY ONLY <1>3, <1>4, <1>5, <1>7, <1>8, Zenon

(* What a packet does to the flash, and what is left when it is cut short. *)
LEMMA EffectOf ==
  ASSUME flash \in Contents, Launchable(flash), NEW i \in 1 .. LastPacket, NEW operation,
         Effect(i, operation), i > 7 => flash = Beginning((i - 1 - 7) \div 3)
  PROVE  /\ \A x \in operation.partial : Launchable(x)
         /\ Launchable(operation.final)
         /\ i >= 7 => operation.final = Beginning((i - 7) \div 3)
<1>1. i \in Nat /\ N \in Nat /\ \A w \in 0 .. N : Launchable(Beginning(w))
  <2>1. i \in Nat /\ N \in Nat
    BY ImageType, LastPacketType
  <2>2. \A w \in 0 .. N : Launchable(Beginning(w))
    BY ONLY BeginningRefused
  <2>3. QED
    BY <2>1, <2>2
<1>2. CASE operation = NoFlash /\ (i = 5 \/ \E offset, cmd : AddressPlace(i, offset, cmd))
  <2>1. operation.final = flash /\ operation.partial = {flash}
    BY <1>2 DEF NoFlash
  <2>2. i >= 7 => flash = Beginning((i - 7) \div 3)
    <3>1. i # 7 /\ (i > 7 => (i - 7) \div 3 = (i - 1 - 7) \div 3)
      <4>1. CASE i = 5
        BY <4>1
      <4>2. CASE \E offset, cmd : AddressPlace(i, offset, cmd)
        BY <4>2, Zenon DEF AddressPlace
      <4>3. QED
        BY <1>2, <4>1, <4>2
    <3>2. i >= 7 => i > 7
      BY ONLY <1>1, <3>1
    <3>3. QED
      BY ONLY <3>1, <3>2, i > 7 => flash = Beginning((i - 1 - 7) \div 3), Zenon
  <2>3. QED
    BY <2>1, <2>2
<1>3. CASE operation = EraseApp /\ i = 7
  <2>1. (\A x \in EraseApp.partial : Launchable(x)) /\ EraseApp.final = Beginning(0)
    BY EraseRefused
  <2>2. (7 - 7) \div 3 = 0 /\ 0 \in 0 .. N
    BY ONLY <1>1
  <2>3. QED
    BY ONLY <1>1, <1>3, <2>1, <2>2, Zenon
<1>4. CASE \E w : operation = FlashWrite(8 * w, NewImage[w + 1]) /\ DataPlace(i, w)
  <2>1. PICK w : operation = FlashWrite(8 * w, NewImage[w + 1]) /\ DataPlace(i, w)
    BY <1>4
  <2>2. /\ w \in 0 .. N - 1 /\ i = 3 * w + 10
        /\ (i - 1 - 7) \div 3 = w /\ (i - 7) \div 3 = w + 1
    BY ONLY <2>1, Zenon DEF DataPlace
  <2>3. i > 7 /\ w + 1 \in 0 .. N
    BY ONLY <1>1, <2>2
  <2>4. flash = Beginning(w)
    BY ONLY <2>2, <2>3, i > 7 => flash = Beginning((i - 1 - 7) \div 3), Zenon
  <2>5. /\ \A x \in operation.partial : Launchable(x)
        /\ operation.final = Beginning(w + 1)
    BY ONLY <2>1, <2>2, <2>4, WordRefused
  <2>6. QED
    BY ONLY <1>1, <2>2, <2>3, <2>5, Zenon
<1>5. QED
  BY <1>2, <1>3, <1>4 DEF Effect

(* The device takes the next byte of the host's packet.                    *)
LEMMA PacketByte ==
  ASSUME IInv, Launchable(flash), running = "bootloader", line # <<>>,
         HearingAt(step, waiting, line, replies, running, context, flash),
         InPacket(step, line, running, context),
         NEW o, o = byte_handle(Head(line))
  PROVE  /\ PlacedAt(step, waiting, Tail(line), replies \o o.answers,
                     IF o.reset THEN "off" ELSE running, o.context, o.operation.final)
         /\ Launchable(o.operation.final)
         /\ \A x \in o.operation.partial : Launchable(x)
<1> DEFINE c == [context EXCEPT !.buffer = Append(@, Head(line))]
           r == IF o.reset THEN "off" ELSE running
<1>1. /\ context \in Contexts /\ line \in Seq(Byte) /\ flash \in Contents
      /\ erase_list \in EraseLists /\ context.buffer \in Seq(Byte)
  BY DEF IInv, TypeOK, Contexts
<1>2. /\ waiting > 0 /\ waiting = Script(step).acks /\ replies = <<>>
      /\ Len(line) <= Len(Script(step).bytes)
      /\ step > 7 => flash = Beginning((step - 1 - 7) \div 3)
  BY ONLY HearingAt(step, waiting, line, replies, running, context, flash), Zenon DEF HearingAt
<1>3. /\ context.state = "process" /\ CommandOf(step) # step
      /\ context.command = CommandAt(step) /\ context.buffer \o line = Flow(step)
  BY ONLY InPacket(step, line, running, context), Zenon DEF InPacket, Processing
<1>4. step \in 1 .. LastPacket
  BY ONLY IInv, <1>2, HostPlace, Zenon
<1>5. InFlow(step)
  BY ONLY <1>3, Zenon DEF InFlow, CommandAt
<1>6. PICK b : b = c
  OBVIOUS
<1>7. /\ b.state = "process" /\ b.command = context.command
      /\ b.buffer \o Tail(line) = Flow(step)
      /\ Tail(line) # <<>> => o = Wait(b)
      /\ Tail(line) = <<>> => Ends(step, b, o) /\ b.buffer = Flow(step)
  BY ONLY <1>1, <1>2, <1>3, <1>4, <1>5, <1>6, line # <<>>, o = byte_handle(Head(line)), PacketHeard
<1>8. Tail(line) \in Seq(Byte) /\ Len(Tail(line)) <= Len(line)
      /\ Len(Tail(line)) \in Nat /\ Len(line) \in Nat
  BY ONLY <1>1, line # <<>>, HeadTailProperties, LenProperties
<1>9. Script(step).bytes \in Seq(Byte) /\ Len(Script(step).bytes) \in Nat
      /\ Script(step).acks = 1
  <2>1. FlowStep(step)
    BY ONLY <1>1, <1>3, <1>4, NextInFlow
  <2>2. Script(step).bytes \in Seq(Byte) /\ Script(step).acks = 1
    BY ONLY <2>1, Zenon DEF FlowStep
  <2>3. QED
    BY ONLY <2>2, LenProperties
<1>10. step # 1
  BY <1>3, HostPlace
<1>11. b \in Contexts
  <2>1. Head(line) \in Byte
    BY ONLY <1>1, line # <<>>, HeadTailProperties
  <2>2. b.buffer \in Seq(Byte)
    <3>1. b.buffer = Append(context.buffer, Head(line))
      BY <1>1, <1>6 DEF Contexts
    <3>2. QED
      BY ONLY <1>1, <2>1, <3>1, AppendProperties
  <2>3. QED
    BY <1>1, <1>6, <2>2 DEF Contexts
<1>12. NoFlash.final = flash /\ NoFlash.partial = {flash}
  BY DEF NoFlash
<1> HIDE DEF c
<1>13. CASE Tail(line) # <<>>
  <2>1. /\ o.context = b /\ o.answers = <<>> /\ o.operation = NoFlash /\ o.reset = FALSE
    BY ONLY <1>7, <1>13 DEF Wait, Outcome
  <2>2. replies \o o.answers = <<>> /\ r = running
    BY ONLY <1>2, <2>1
  <2>3. InPacket(step, Tail(line), running, b)
    BY ONLY <1>3, <1>7, running = "bootloader", Zenon DEF InPacket, Processing
  <2>4. Len(Tail(line)) <= Len(Script(step).bytes)
    BY ONLY <1>2, <1>8, <1>9
  <2>5. HearingAt(step, waiting, Tail(line), <<>>, running, b, flash)
    BY ONLY <1>2, <1>13, <2>3, <2>4, Zenon DEF HearingAt
  <2>6. PlacedAt(step, waiting, Tail(line), <<>>, running, b, flash)
    BY ONLY <2>5, Zenon DEF PlacedAt
  <2>7. o.operation.final = flash /\ o.operation.partial = {flash}
    BY ONLY <1>12, <2>1
  <2>8. PlacedAt(step, waiting, Tail(line), replies \o o.answers, r, o.context, o.operation.final)
    BY ONLY <2>1, <2>2, <2>6, <2>7
  <2>9. QED
    BY ONLY <2>7, <2>8, Launchable(flash)
<1>14. CASE Tail(line) = <<>> /\ o = Nack(b)
  <2>1. /\ o.context = Cleared(b) /\ o.answers = <<"nack">> /\ o.operation = NoFlash
        /\ o.reset = FALSE
    BY ONLY <1>14 DEF Nack, Answer, Outcome
  <2>2. PICK a : a = replies \o o.answers
    OBVIOUS
  <2>3. a = <<"nack">> /\ r = running
    BY ONLY <1>2, <2>1, <2>2
  <2>4. \A n \in 1 .. Len(a) : a[n] = "nack"
    BY ONLY <2>3
  <2>5. Cleared(b).state # "process"
    BY <1>11 DEF Cleared, Contexts
  <2>6. SilentAt(step, waiting, Tail(line), a, r, o.context)
    BY ONLY <1>2, <1>3, <1>10, <2>1, <2>4, <2>5, Zenon DEF SilentAt, Processing
  <2>7. o.operation.final = flash /\ o.operation.partial = {flash}
    BY ONLY <1>12, <2>1
  <2>8. PlacedAt(step, waiting, Tail(line), a, r, o.context, o.operation.final)
    BY ONLY <2>6, Zenon DEF PlacedAt
  <2>9. QED
    BY ONLY <2>2, <2>7, <2>8, Launchable(flash)
<1>15. CASE Tail(line) = <<>> /\ o # Nack(b)
  <2>1. PICK operation, reset :
          /\ o = Outcome(IF GoesOn(step) THEN b ELSE Cleared(b), <<"ack">>, operation, reset)
          /\ Effect(step, operation)
    BY ONLY <1>7, <1>15, Zenon DEF Ends
  <2>2. /\ o.context = (IF GoesOn(step) THEN b ELSE Cleared(b)) /\ o.answers = <<"ack">>
        /\ o.operation = operation
    BY ONLY <2>1 DEF Outcome
  <2>3. /\ \A x \in operation.partial : Launchable(x)
        /\ Launchable(operation.final)
        /\ step >= 7 => operation.final = Beginning((step - 7) \div 3)
    BY ONLY <1>1, <1>2, <1>4, <2>1, EffectOf, Launchable(flash)
  <2>4. Cleared(b).state # "process" /\ Cleared(b).state = "wait" /\ Cleared(b).buffer = <<>>
    BY <1>11 DEF Cleared, Contexts
  <2>5. ReachedAt(step, r, o.context, operation.final)
    <3>1. CASE GoesOn(step)
      <4>1. o.context = b
        BY ONLY <2>2, <3>1, Zenon
      <4>2. b.state # "wait"
        BY ONLY <1>7
      <4>3. b.command = CommandAt(step) /\ b.buffer = Flow(step)
        BY ONLY <1>3, <1>7, <1>15, Zenon
      <4>4. QED
        BY ONLY <2>3, <3>1, <4>1, <4>2, <4>3, Zenon DEF ReachedAt, Processing
    <3>2. CASE ~GoesOn(step)
      <4>1. o.context = Cleared(b)
        BY ONLY <2>2, <3>2, Zenon
      <4>2. QED
        BY ONLY <2>3, <2>4, <4>1, Zenon DEF ReachedAt, Processing
    <3>3. QED
      BY <3>1, <3>2
  <2>6. replies \o o.answers = [n \in 1 .. waiting |-> "ack"]
    <3>1. replies \o o.answers = <<"ack">>
      BY ONLY <1>2, <2>2
    <3>2. waiting = 1
      BY ONLY <1>2, <1>9
    <3>3. QED
      BY ONLY <3>1, <3>2
  <2>7. AnsweredAt(step, waiting, Tail(line), replies \o o.answers, r, o.context, operation.final)
    BY ONLY <1>2, <1>15, <2>5, <2>6, Zenon DEF AnsweredAt
  <2>8. PlacedAt(step, waiting, Tail(line), replies \o o.answers, r, o.context, operation.final)
    BY ONLY <2>7, Zenon DEF PlacedAt
  <2>9. QED
    BY ONLY <2>2, <2>3, <2>8
<1>16. QED
  BY <1>13, <1>14, <1>15

(* The device takes a byte while it waits for a command.                   *)
LEMMA CommandBytePlaced ==
  ASSUME IInv, PlacedHere, running = "bootloader", context.state = "wait", line # <<>>,
         NEW o, o = byte_handle(Head(line)),
         o.answers # <<>> /\ Head(o.answers) = "ack" => Commanding
  PROVE  /\ PlacedAt(step, waiting, Tail(line), replies \o o.answers, running, o.context, flash)
         /\ o.operation = NoFlash /\ o.reset = FALSE
<1>1. PICK c : c = [context EXCEPT !.buffer = Append(@, Head(line))]
  OBVIOUS
<1>2. PICK b : b = context.buffer
  OBVIOUS
<1>3. /\ c.state = "wait" /\ Len(b) \in 0 .. 1 /\ Len(c.buffer) = Len(b) + 1
      /\ c.buffer = Append(b, Head(line))
      /\ CommandChecked(c, o)
  BY ONLY <1>1, <1>2, IInv, context.state = "wait", line # <<>>, o = byte_handle(Head(line)),
     CommandByte
<1>4. /\ b \in Seq(Byte) /\ line \in Seq(Byte) /\ replies \in Seq(Replies)
      /\ Len(b) \in Nat /\ Len(context.buffer) = Len(b) /\ step \in Int
      /\ waiting > 0 => step \in 1 .. LastPacket
      /\ step \in 1 .. LastPacket /\ step # 1 => step \in 2 .. LastPacket
  <2>1. b \in Seq(Byte) /\ line \in Seq(Byte) /\ replies \in Seq(Replies)
    BY <1>2 DEF IInv, TypeOK, Contexts
  <2>2. Len(b) \in Nat
    BY ONLY <2>1, LenProperties
  <2>3. /\ step \in 1 .. LastPacket + 1
        /\ waiting > 0 => step \in 1 .. LastPacket
        /\ step \in 1 .. LastPacket /\ step # 1 => step \in 2 .. LastPacket
    BY ONLY IInv, HostPlace, Zenon
  <2>4. step \in Int
    BY ONLY <2>3, LastPacketType
  <2>5. Len(context.buffer) = Len(b)
    BY <1>2
  <2>6. QED
    BY ONLY <2>1, <2>2, <2>3, <2>4, <2>5, Zenon
<1>5. o.operation = NoFlash /\ o.reset = FALSE
  BY ONLY <1>3, Zenon DEF CommandChecked
<1>6. ~Processing(running, context)
  BY ONLY context.state = "wait" DEF Processing
<1>7. Len(b) = 0 => b = <<>>
  BY ONLY <1>4, EmptySeq
<1>8. CASE SilentAt(step, waiting, line, replies, running, context)
  <2>1. \/ o.answers = <<>> /\ o.context = c
        \/ o.answers = <<"nack">> /\ o.context.state = "wait" /\ o.context.buffer = <<>>
    <3>1. SUFFICES ASSUME Commanding, ~(o.answers = <<>> /\ o.context = c) PROVE FALSE
      <4>1. \/ o.answers # <<>> /\ Head(o.answers) = "ack"
            \/ o.answers = <<>> /\ o.context = c
            \/ o.answers = <<"nack">> /\ o.context.state = "wait" /\ o.context.buffer = <<>>
        <5>1. /\ Head(<<"ack">>) = "ack" /\ <<"ack">> # <<>>
              /\ Head(<<"ack", "ack">>) = "ack" /\ <<"ack", "ack">> # <<>>
          OBVIOUS
        <5>2. QED
          <6>1. \/ o.answers = <<>> /\ o.context = c
                \/ o.answers = <<"nack">> /\ o.context.state = "wait" /\ o.context.buffer = <<>>
                \/ o.answers = <<"ack">> \/ o.answers = <<"ack", "ack">>
            BY ONLY <1>3, Zenon DEF CommandChecked
          <6>2. \A x : x = <<"ack">> \/ x = <<"ack", "ack">> => x # <<>> /\ Head(x) = "ack"
            BY ONLY <5>1, Zenon
          <6>3. QED
            BY ONLY <6>1, <6>2, Zenon
      <4>2. QED
        BY <4>1
    <3>2. CommandOf(step) = step /\ step > 1
      <4>1. CommandOf(step) = step
        BY ONLY <3>1, Zenon DEF Commanding
      <4>2. waiting > 0 /\ step # 1
        BY ONLY <1>8, line # <<>>, Zenon DEF SilentAt
      <4>3. step \in 2 .. LastPacket
        BY ONLY <1>4, <4>2, Zenon
      <4>4. QED
        BY ONLY <4>1, <4>3, LastPacketType
    <3>3. /\ SYNC \notin {line[n] : n \in 1 .. Len(line)}
          /\ Len(line) <= 1 - Len(context.buffer)
      BY ONLY <1>8, <3>2, running = "bootloader", Zenon DEF SilentAt
    <3>4. Len(line) \in Nat /\ Len(line) >= 1
      BY ONLY <1>4, line # <<>>, LenProperties, EmptySeq
    <3>5. Len(c.buffer) = 1
      <4>1. PICK m, n : m = Len(line) /\ n = Len(b)
        OBVIOUS
      <4>2. m <= 1 - n /\ m \in Nat /\ m >= 1 /\ n \in Nat
        BY ONLY <1>4, <3>3, <3>4, <4>1
      <4>3. n + 1 = 1
        BY ONLY <4>2
      <4>4. QED
        BY ONLY <1>3, <4>1, <4>3, Zenon
    <3>6. c.buffer # <<SYNC>>
      <4>1. Head(line) # SYNC
        BY ONLY <1>4, <3>3, line # <<>>, NoSync
      <4>2. b = <<>>
        BY ONLY <1>3, <1>4, <1>7, <3>5
      <4>3. c.buffer = <<Head(line)>>
        BY ONLY <1>3, <4>2
      <4>4. QED
        BY ONLY <4>1, <4>3
    <3>7. Len(c.buffer) # 2
      BY ONLY <3>5
    <3>8. QED
      BY ONLY <1>3, <3>1, <3>6, <3>7, Zenon DEF CommandChecked
  <2>2. ~Processing(running, o.context)
    BY ONLY <1>3, <2>1 DEF Processing
  <2>3. Len(o.context.buffer) \in 0 .. 1
    <3>1. CASE o.answers = <<>> /\ o.context = c
      <4>1. Len(c.buffer) = 1
        <5>1. <<>> # <<"nack">> /\ <<>> # <<"ack">> /\ <<>> # <<"ack", "ack">>
          OBVIOUS
        <5>2. QED
          BY ONLY <1>3, <3>1, <5>1, Zenon DEF CommandChecked
      <4>2. QED
        BY ONLY <3>1, <4>1
    <3>2. CASE o.context.buffer = <<>>
      BY ONLY <3>2
    <3>3. QED
      BY ONLY <2>1, <3>1, <3>2
  <2>4. Len(o.context.buffer) <= Len(context.buffer) + 1
    <3>1. PICK m, n : m = Len(o.context.buffer) /\ n = Len(context.buffer)
      OBVIOUS
    <3>2. m \in 0 .. 1 /\ n \in Nat
      BY ONLY <1>4, <2>3, <3>1
    <3>3. m <= n + 1
      BY ONLY <3>2
    <3>4. QED
      BY ONLY <3>1, <3>3, Zenon
  <2>5. \/ replies \o o.answers = replies
        \/ replies \o o.answers = replies \o <<"nack">>
    <3>1. replies \o <<>> = replies
      BY ONLY <1>4, ConcatEmptySeq
    <3>2. QED
      BY ONLY <2>1, <3>1, Zenon
  <2>6. SilentAt(step, waiting, Tail(line), replies \o o.answers, running, o.context)
    <3>1. Len(context.buffer) \in Nat
      BY ONLY <1>4
    <3>2. QED
      BY ONLY <1>4, <1>8, <2>2, <2>3, <2>4, <2>5, <3>1, line # <<>>, StaysSilent
  <2>7. QED
    BY ONLY <1>5, <2>6, Zenon DEF PlacedAt
<1>9. CASE HearingAt(step, waiting, line, replies, running, context, flash)
  <2>1. /\ waiting > 0 /\ waiting = Script(step).acks /\ replies = <<>>
        /\ Len(line) <= Len(Script(step).bytes)
        /\ step > 7 => flash = Beginning((step - 1 - 7) \div 3)
        /\ AtSync(step, line, running, context) \/ InCommand(step, line, running, context)
    BY ONLY <1>6, <1>9, Zenon DEF HearingAt, InPacket
  <2>2. PICK a : a = replies \o o.answers
    OBVIOUS
  <2>3. a = o.answers
    <3>1. o.answers = <<>> \/ o.answers = <<"nack">> \/ o.answers = <<"ack">> \/ o.answers = <<"ack", "ack">>
      BY ONLY <1>3, Zenon DEF CommandChecked
    <3>2. QED
      BY ONLY <2>1, <2>2, <3>1
  <2>4. SUFFICES PlacedAt(step, waiting, Tail(line), a, running, o.context, flash)
    BY ONLY <1>5, <2>2, <2>4, Zenon
  <2>5. CASE AtSync(step, line, running, context)
    <3>1. step = 1 /\ line = <<SYNC>>
      BY ONLY <2>5, Zenon DEF AtSync
    <3>2. Tail(line) = <<>> /\ Head(line) = SYNC
      BY ONLY <3>1
    <3>3. o.context.state = "wait" /\ o.context.buffer = <<>>
          /\ (o.answers = <<"ack">> \/ o.answers = <<"nack">>)
      <4>1. ~(Len(c.buffer) = 1 /\ c.buffer # <<SYNC>>)
        <5>1. Len(c.buffer) = 1 => Len(b) = 0
          BY ONLY <1>3
        <5>2. b = <<>> => c.buffer = <<SYNC>>
          BY ONLY <1>3, <3>2
        <5>3. QED
          BY ONLY <1>7, <5>1, <5>2
      <4>2. ~(CommandValid(c.buffer) /\ c.buffer[1] \in Supported /\ Len(c.buffer) = 2)
        <5>1. SUFFICES ASSUME CommandValid(c.buffer), c.buffer[1] \in Supported, Len(c.buffer) = 2
                       PROVE  FALSE
          OBVIOUS
        <5>2. Len(b) = 1
          BY ONLY <1>3, <5>1
        <5>3. PICK e : e = c.buffer
          OBVIOUS
        <5>4. Head(line) \in Byte
          BY ONLY <1>4, line # <<>>, HeadTailProperties
        <5>5. e[Len(b) + 1] = Head(line)
          BY ONLY <1>3, <1>4, <5>3, <5>4, AppendProperties
        <5>6. e[2] = 127
          <6>1. Len(b) + 1 = 2
            BY ONLY <5>2
          <6>2. e[2] = Head(line)
            BY ONLY <5>5, <6>1, Zenon
          <6>3. QED
            BY ONLY <3>2, <6>2 DEF SYNC
        <5>7. e[1] + e[2] = 255 /\ e[1] \in Supported
          BY ONLY <5>1, <5>3 DEF CommandValid
        <5>8. e[1] \in {0, 1, 2, 17, 33, 49, 67}
          BY ONLY <5>7 DEF Supported, GET, GET_VERSION, GET_ID, READ_MEMORY, GO, WRITE_MEMORY, ERASE
        <5>9. QED
          BY ONLY <5>6, <5>7, <5>8
      <4>3. QED
        BY ONLY <1>3, <4>1, <4>2, Zenon DEF CommandChecked
    <3>4. CASE o.answers = <<"ack">>
      <4>1. waiting = 1
        BY <2>1, <3>1, ScriptPackets DEF Packet
      <4>2. a = [n \in 1 .. waiting |-> "ack"]
        BY ONLY <2>3, <3>4, <4>1
      <4>3. ReachedAt(1, running, o.context, flash)
        <5>1. ~(1 >= 7) /\ o.context.state # "process"
          BY ONLY <3>3
        <5>2. QED
          BY ONLY <3>3, <5>1, Zenon DEF ReachedAt, Processing
      <4>4. AnsweredAt(step, waiting, Tail(line), a, running, o.context, flash)
        BY ONLY <2>1, <3>1, <3>2, <4>2, <4>3, Zenon DEF AnsweredAt
      <4>5. QED
        BY ONLY <4>4, Zenon DEF PlacedAt
    <3>5. CASE o.answers = <<"nack">>
      <4>1. ~(1 > 1) /\ \A n \in 1 .. Len(<<"nack">>) : (<<"nack">>)[n] = "nack"
        OBVIOUS
      <4>2. o.context.state # "process" /\ a = <<"nack">>
        BY ONLY <2>3, <3>3, <3>5
      <4>3. SilentAt(step, waiting, Tail(line), a, running, o.context)
        BY ONLY <2>1, <3>1, <3>2, <4>1, <4>2, Zenon DEF SilentAt, Processing
      <4>4. QED
        BY ONLY <4>3, Zenon DEF PlacedAt
    <3>6. QED
      BY <3>3, <3>4, <3>5
  <2>6. CASE InCommand(step, line, running, context)
    <3>1. CommandOf(step) = step /\ step > 1 /\ Script(step).bytes = b \o line
      BY ONLY <1>2, <2>6, running = "bootloader", Zenon DEF InCommand
    <3>2. step \in 2 .. LastPacket /\ step # 1
      <4>1. step # 1
        BY ONLY <1>4, <3>1
      <4>2. QED
        BY ONLY <1>4, <2>1, <4>1, Zenon
    <3>3. PICK cmd \in {GET, READ_MEMORY, ERASE, WRITE_MEMORY, GO} : CommandPlace(step, cmd)
      BY ONLY <3>1, <3>2, CommandFor
    <3>4. PICK s : s = <<cmd, 255 - cmd>>
      OBVIOUS
    <3>5. /\ s = b \o line
          /\ Script(step).acks = IF cmd = GET THEN 2 ELSE 1
          /\ GoesOn(step) <=> cmd # GET
          /\ CommandAt(step) = cmd /\ Flow(step) = <<>>
          /\ step # 7 /\ (step > 7 => (step - 7) \div 3 = (step - 1 - 7) \div 3)
      BY ONLY <3>1, <3>3, <3>4, Zenon DEF CommandPlace
    <3>6. /\ cmd \in Byte /\ 255 - cmd \in Byte /\ cmd # SYNC /\ 255 - cmd # SYNC
          /\ cmd \in Supported /\ cmd + (255 - cmd) = 255
      BY ONLY cmd \in {GET, READ_MEMORY, ERASE, WRITE_MEMORY, GO}, CommandBytesOf
    <3>7. PICK d, l, t : d = c.buffer /\ l = line /\ t = Tail(l)
      OBVIOUS
    <3>8. Hears(b, l, d, s)
      BY ONLY <1>3, <1>4, <3>5, <3>7, line # <<>>, HearByte
    <3>9. /\ Len(d) = Len(b) + 1 /\ Len(t) = Len(l) - 1 /\ Len(s) = Len(b) + Len(l)
          /\ d \o t = s /\ \A k \in 1 .. Len(d) : d[k] = s[k]
          /\ Len(l) >= 1 /\ t \in Seq(Byte) /\ l \in Seq(Byte)
          /\ t = <<>> <=> Len(d) = Len(s)
      BY ONLY <1>4, <3>7, <3>8, Zenon DEF Hears
    <3>10. Len(s) = 2 /\ s[1] = cmd /\ s[2] = 255 - cmd
      BY ONLY <3>4
    <3>11. CASE Len(b) = 0
      <4>1. Len(d) = 1 /\ d[1] = cmd /\ t # <<>>
        <5>1. Len(d) = 1 /\ 1 \in 1 .. 1 /\ 1 # 2
          BY ONLY <3>9, <3>11
        <5>2. d[1] = s[1]
          BY ONLY <3>9, <5>1, Zenon
        <5>3. t # <<>>
          <6>1. Len(d) # Len(s)
            BY ONLY <3>10, <5>1
          <6>2. QED
            BY ONLY <3>9, <6>1, Zenon
        <5>4. QED
          BY ONLY <3>10, <5>1, <5>2, <5>3, Zenon
      <4>2. d # <<SYNC>> /\ Len(c.buffer) = 1 /\ c.buffer # <<SYNC>> /\ Len(c.buffer) # 2
        BY ONLY <3>6, <3>7, <4>1
      <4>3. o.context = c /\ o.answers = <<>>
        BY ONLY <1>3, <4>2, Zenon DEF CommandChecked
      <4>4. InCommand(step, Tail(line), running, c)
        <5>1. c.state # "process"
          BY ONLY <1>3
        <5>2. c.buffer \o Tail(line) = Script(step).bytes
          BY ONLY <3>1, <3>5, <3>7, <3>9, Zenon
        <5>3. QED
          BY ONLY <3>1, <5>1, <5>2, running = "bootloader", Zenon DEF InCommand, Processing
      <4>5. Len(Tail(line)) <= Len(Script(step).bytes)
        <5>1. PICK p, q : p = Len(line) /\ q = Len(t)
          OBVIOUS
        <5>2. p \in Nat /\ q = p - 1 /\ Script(step).bytes = s
          <6>1. Len(line) \in Nat
            BY ONLY <1>4, LenProperties
          <6>2. Len(t) = Len(line) - 1
            BY ONLY <3>7, <3>9, Zenon
          <6>3. QED
            BY ONLY <3>1, <3>5, <5>1, <6>1, <6>2, Zenon
        <5>3. p = 2
          <6>1. Len(s) = Len(b) + Len(line)
            BY ONLY <3>7, <3>9, Zenon
          <6>2. 2 = 0 + p
            BY ONLY <3>10, <3>11, <5>1, <6>1, Zenon
          <6>3. QED
            BY ONLY <5>2, <6>2
        <5>4. q <= 2
          BY ONLY <5>2, <5>3
        <5>5. QED
          BY ONLY <3>7, <3>10, <5>1, <5>2, <5>4, Zenon
      <4>6. HearingAt(step, waiting, Tail(line), a, running, o.context, flash)
        BY ONLY <2>1, <2>3, <3>7, <4>1, <4>3, <4>4, <4>5, Zenon DEF HearingAt
      <4>7. QED
        BY ONLY <4>6, Zenon DEF PlacedAt
    <3>12. CASE Len(b) = 1
      <4>1. Len(d) = 2 /\ d[1] = cmd /\ d[2] = 255 - cmd /\ t = <<>>
        BY ONLY <3>9, <3>10, <3>12
      <4>2. /\ d # <<SYNC>> /\ Len(c.buffer) = 2 /\ c.buffer # <<SYNC>> /\ Len(c.buffer) # 1
            /\ CommandValid(c.buffer) /\ c.buffer[1] = cmd
        BY ONLY <3>6, <3>7, <4>1 DEF CommandValid
      <4>3. /\ o.context.command = cmd /\ o.context.buffer = <<>>
            /\ IF cmd \in {GET, GET_VERSION, GET_ID}
               THEN o.context.state = "wait" /\ o.answers = <<"ack", "ack">>
               ELSE o.context.state = "process" /\ o.answers = <<"ack">>
        BY ONLY <1>3, <3>6, <4>2 DEF CommandChecked
      <4>4. step >= 7 => flash = Beginning((step - 7) \div 3)
        <5>1. step >= 7 => step > 7
          BY ONLY <1>4, <3>5
        <5>2. QED
          BY ONLY <2>1, <3>5, <5>1, Zenon
      <4>5. ReachedAt(step, running, o.context, flash)
            /\ a = [n \in 1 .. waiting |-> "ack"]
        <5>1. CASE cmd = GET
          <6>1. o.context.state = "wait" /\ a = <<"ack", "ack">> /\ waiting = 2
            BY ONLY <2>1, <2>3, <3>5, <4>3, <5>1
          <6>2. o.context.state # "process" /\ a = [n \in 1 .. waiting |-> "ack"]
            BY ONLY <6>1
          <6>3. QED
            BY ONLY <4>3, <4>4, <6>2, Zenon DEF ReachedAt, Processing
        <5>2. CASE cmd # GET
          <6>1. cmd \notin {GET, GET_VERSION, GET_ID}
            BY <5>2, CommandBytesOf
          <6>2. o.context.state = "process" /\ a = <<"ack">> /\ waiting = 1
            BY ONLY <2>1, <2>3, <3>5, <4>3, <5>2, <6>1
          <6>3. o.context.state # "wait" /\ a = [n \in 1 .. waiting |-> "ack"]
            BY ONLY <6>2
          <6>4. GoesOn(step) /\ o.context.command = CommandAt(step) /\ o.context.buffer = Flow(step)
            BY ONLY <3>5, <4>3, <5>2, Zenon
          <6>5. QED
            BY ONLY <4>4, <6>3, <6>4, Zenon DEF ReachedAt, Processing
        <5>3. QED
          BY <5>1, <5>2
      <4>6. AnsweredAt(step, waiting, Tail(line), a, running, o.context, flash)
        BY ONLY <2>1, <3>7, <4>1, <4>5, Zenon DEF AnsweredAt
      <4>7. QED
        BY ONLY <4>6, Zenon DEF PlacedAt
    <3>13. QED
      BY ONLY <1>3, <3>11, <3>12
  <2>7. QED
    BY ONLY <2>1, <2>5, <2>6
<1>10. QED
  BY ONLY <1>5, <1>8, <1>9, PlacedHere, line # <<>>, Zenon
     DEF PlacedHere, PlacedAt, IdleAt, AnsweredAt

(* The bootloader takes a byte, whatever it waits for.                     *)
LEMMA BootloaderReceivePlaced ==
  ASSUME IInv, PlacedHere, Launchable(flash), BootloaderReceive, ~misheard'
  PROVE  PlacedThen /\ Launchable(flash') /\ running' # "app"
<1>1. PICK o :
        /\ o = byte_handle(Head(line))
        /\ context' = o.context /\ replies' = replies \o o.answers
        /\ flash' = o.operation.final
        /\ running' = IF o.reset THEN "off" ELSE running
        /\ misheard' = (misheard \/ (/\ context.state = "wait" /\ ~Commanding
                                     /\ o.answers # <<>> /\ Head(o.answers) = "ack"))
  BY DEF BootloaderReceive
<1>2. /\ running = "bootloader" /\ line # <<>> /\ line' = Tail(line)
      /\ step' = step /\ waiting' = waiting
  BY DEF BootloaderReceive, host
<1>3. running' # "app"
  BY ONLY <1>1, <1>2
<1>4. CASE context.state = "wait"
  <2>1. o.answers # <<>> /\ Head(o.answers) = "ack" => Commanding
    BY ONLY <1>1, <1>4, ~misheard', Zenon
  <2>2. /\ PlacedAt(step, waiting, Tail(line), replies \o o.answers, running, o.context, flash)
        /\ o.operation = NoFlash /\ o.reset = FALSE
    BY ONLY <1>1, <1>2, <1>4, <2>1, IInv, PlacedHere, CommandBytePlaced
  <2>3. flash' = flash /\ running' = running
    BY ONLY <1>1, <2>2 DEF NoFlash
  <2>4. PlacedThen
    BY ONLY <1>1, <1>2, <2>2, <2>3, Zenon DEF PlacedThen
  <2>5. QED
    BY ONLY <1>3, <2>3, <2>4, Launchable(flash), Zenon
<1>5. CASE context.state # "wait"
  <2>1. Processing(running, context)
    BY <1>2, <1>5 DEF IInv, TypeOK, Contexts, Processing
  <2>2. HearingAt(step, waiting, line, replies, running, context, flash)
    BY ONLY <1>2, <2>1, PlacedHere, Zenon
       DEF PlacedHere, PlacedAt, IdleAt, AnsweredAt, SilentAt
  <2>3. InPacket(step, line, running, context)
    BY ONLY <2>1, <2>2, Zenon DEF HearingAt, AtSync, InCommand
  <2>4. /\ PlacedAt(step, waiting, Tail(line), replies \o o.answers,
                    IF o.reset THEN "off" ELSE running, o.context, o.operation.final)
        /\ Launchable(o.operation.final)
    BY ONLY <1>1, <1>2, <2>2, <2>3, IInv, Launchable(flash), PacketByte
  <2>5. PlacedThen
    BY ONLY <1>1, <1>2, <2>4, Zenon DEF PlacedThen
  <2>6. QED
    BY ONLY <1>1, <1>3, <2>4, <2>5, Zenon
<1>6. QED
  BY <1>4, <1>5

(* A device without supply is silent on a packet it had heard a part of;   *)
(* what its flash holds is refused.                                        *)
LEMMA PowerCutPlaced ==
  ASSUME IInv, PlacedHere, Launchable(flash), PowerCut
  PROVE  PlacedThen /\ Launchable(flash') /\ running' # "app"
<1>1. /\ running' = "off" /\ running' # "app" /\ running' # "bootloader"
      /\ step' = step /\ waiting' = waiting /\ replies' = replies /\ context' = context
      /\ \/ flash' = flash /\ line' = line
         \/ /\ running = "bootloader" /\ line # <<>> /\ line' = Tail(line)
            /\ flash' \in byte_handle(Head(line)).operation.partial
  BY DEF PowerCut, host
<1>2. /\ context.buffer \in Seq(Byte) /\ line \in Seq(Byte) /\ Within(context)
      /\ context.state \in {"wait", "process"} /\ Len(context.buffer) \in Nat /\ step \in Int
      /\ Len(line) \in Nat /\ (line # <<>> => Len(line) >= 1)
      /\ waiting > 0 => step \in 1 .. LastPacket
      /\ step \in 1 .. LastPacket /\ step # 1 => step \in 2 .. LastPacket
      /\ CommandOf(1) = 1
  <2>1. /\ context.buffer \in Seq(Byte) /\ line \in Seq(Byte) /\ Within(context)
        /\ context.state \in {"wait", "process"}
    BY DEF IInv, TypeOK, Contexts
  <2>2. Len(context.buffer) \in Nat /\ Len(line) \in Nat /\ (line # <<>> => Len(line) >= 1)
    BY ONLY <2>1, LenProperties, EmptySeq
  <2>3. /\ step \in 1 .. LastPacket + 1
        /\ waiting > 0 => step \in 1 .. LastPacket
        /\ step \in 1 .. LastPacket /\ step # 1 => step \in 2 .. LastPacket
        /\ CommandOf(1) = 1
    BY ONLY IInv, HostPlace, Zenon
  <2>4. step \in Int
    BY ONLY <2>3, LastPacketType
  <2>5. QED
    BY ONLY <2>1, <2>2, <2>3, <2>4, Zenon
<1>3. ~Processing(running', context)
  BY ONLY <1>1, Zenon DEF Processing
<1>4. \A i : ReachedAt(i, running, context, flash) => ReachedAt(i, running', context, flash)
  BY ONLY <1>1, <1>3, Zenon DEF ReachedAt
<1>5. (IF running' = "bootloader" THEN 1 - Len(context.buffer) ELSE 1) = 1
  BY ONLY <1>1, Zenon
<1>6. \A n \in 1 .. Len(<<>>) : (<<>>)[n] = "nack"
  OBVIOUS
<1>7. ASSUME SilentAt(step, waiting, line, replies, running, context),
             NEW l, l = line \/ (line # <<>> /\ l = Tail(line))
      PROVE  SilentAt(step, waiting, l, replies, running', context)
  <2>1. /\ waiting > 0
        /\ \A n \in 1 .. Len(replies) : replies[n] = "nack"
        /\ step = 1 => line = <<>>
        /\ CommandOf(step) = step /\ step > 1 =>
             /\ SYNC \notin {line[n] : n \in 1 .. Len(line)}
             /\ Len(line) <= IF running = "bootloader" THEN 1 - Len(context.buffer) ELSE 1
    BY ONLY <1>7, Zenon DEF SilentAt
  <2>2. step = 1 => l = <<>>
    BY ONLY <1>7, <2>1
  <2>3. ASSUME CommandOf(step) = step /\ step > 1
        PROVE  SYNC \notin {l[n] : n \in 1 .. Len(l)} /\ Len(l) <= 1
    <3>1. SYNC \notin {line[n] : n \in 1 .. Len(line)}
      BY ONLY <2>1, <2>3, Zenon
    <3>2. Len(line) <= 1
      <4>1. PICK m, n : m = Len(line) /\ n = Len(context.buffer)
        OBVIOUS
      <4>2. m <= 1 - n \/ m <= 1
        BY ONLY <2>1, <2>3, <4>1
      <4>3. m <= 1
        BY ONLY <1>2, <4>1, <4>2
      <4>4. QED
        BY ONLY <4>1, <4>3, Zenon
    <3>3. CASE l = line
      BY ONLY <3>1, <3>2, <3>3, Zenon
    <3>4. CASE line # <<>> /\ l = Tail(line)
      <4>1. /\ Len(Tail(line)) = Len(line) - 1
            /\ SYNC \notin {Tail(line)[n] : n \in 1 .. Len(Tail(line))}
        BY ONLY <1>2, <3>1, <3>4, NoSync
      <4>2. PICK m, n : m = Len(line) /\ n = Len(Tail(line))
        OBVIOUS
      <4>3. n <= 1
        BY ONLY <1>2, <3>2, <4>1, <4>2
      <4>4. QED
        BY ONLY <3>4, <4>1, <4>2, <4>3, Zenon
    <3>5. QED
      BY <1>7, <3>3, <3>4
  <2>4. QED
    BY ONLY <1>3, <1>5, <2>1, <2>2, <2>3, Zenon DEF SilentAt
<1>8. ASSUME HearingAt(step, waiting, line, replies, running, context, flash),
             InCommand(step, line, running, context)
      PROVE  /\ line # Script(step).bytes \/ InCommand(step, line, running', context)
             /\ \A l : \/ l = line /\ line # Script(step).bytes
                       \/ l = Tail(line)
                    => SilentAt(step, waiting, l, replies, running', context)
  <2>1. /\ waiting > 0 /\ line # <<>> /\ replies = <<>>
    BY ONLY <1>8, Zenon DEF HearingAt
  <2>2. /\ CommandOf(step) = step /\ step > 1
        /\ Script(step).bytes = IF running = "bootloader" THEN context.buffer \o line ELSE line
        /\ ~Processing(running, context)
    BY ONLY <1>8, Zenon DEF InCommand
  <2>3. step # 1 /\ step \in 2 .. LastPacket
    <3>1. step # 1
      BY ONLY <1>2, <2>2
    <3>2. QED
      BY ONLY <1>2, <2>1, <3>1, Zenon
  <2>4. PICK cmd \in {GET, READ_MEMORY, ERASE, WRITE_MEMORY, GO} : CommandPlace(step, cmd)
    BY ONLY <2>2, <2>3, CommandFor
  <2>5. PICK s : s = <<cmd, 255 - cmd>>
    OBVIOUS
  <2>6. Script(step).bytes = s
    BY ONLY <2>4, <2>5, Zenon DEF CommandPlace
  <2>7. WithoutSync(s)
    BY <2>5, CommandLine
  <2>8. line = s \/ (line # s /\ line = <<255 - cmd>>)
    <3>1. CASE running # "bootloader"
      BY ONLY <2>2, <2>6, <3>1, Zenon
    <3>2. CASE running = "bootloader"
      <4>1. s = context.buffer \o line /\ context.state = "wait"
        BY ONLY <1>2, <2>2, <2>6, <3>2 DEF Processing
      <4>2. PICK b : b = context.buffer
        OBVIOUS
      <4>3. b \in Seq(Byte) /\ Len(b) <= 1 /\ Len(b) \in Nat
        BY ONLY <1>2, <4>1, <4>2 DEF Within
      <4>4. CASE Len(b) = 0
        <5>1. b = <<>>
          BY ONLY <4>3, <4>4, EmptySeq
        <5>2. QED
          BY ONLY <1>2, <4>1, <4>2, <5>1, ConcatEmptySeq
      <4>5. CASE Len(b) = 1
        <5>1. /\ Len(s) = Len(b) + Len(line)
              /\ \A i \in 1 .. Len(b) + Len(line) :
                   s[i] = IF i <= Len(b) THEN b[i] ELSE line[i - Len(b)]
          BY ONLY <1>2, <4>1, <4>2, <4>3, ConcatProperties
        <5>2. Len(s) = 2 /\ s[2] = 255 - cmd
          BY ONLY <2>5
        <5>3. Len(line) = 1
          <6>1. PICK m : m = Len(line)
            OBVIOUS
          <6>2. 2 = 1 + m /\ m \in Nat
            BY ONLY <1>2, <4>5, <5>1, <5>2, <6>1
          <6>3. QED
            BY ONLY <6>1, <6>2
        <5>4. s[2] = line[1]
          <6>1. 2 \in 1 .. 1 + 1 /\ ~(2 <= 1) /\ 2 - 1 = 1
            OBVIOUS
          <6>2. QED
            BY ONLY <4>5, <5>1, <5>3, <6>1, Zenon
        <5>5. line # s
          BY ONLY <5>2, <5>3
        <5>6. line = <<255 - cmd>>
          <6>1. PICK e, u : e = 255 - cmd /\ u = <<e>>
            OBVIOUS
          <6>2. Len(u) = 1 /\ u[1] = e /\ e \in Byte
            BY ONLY <2>4, <6>1, CommandBytesOf
          <6>3. u \in Seq(Byte)
            BY ONLY <6>1, <6>2
          <6>4. line = u
            BY ONLY <1>2, <5>2, <5>3, <5>4, <6>1, <6>2, <6>3, SeqEqual
          <6>5. QED
            BY ONLY <6>1, <6>4, Zenon
        <5>7. QED
          BY <5>5, <5>6
      <4>6. QED
        <5>1. PICK m : m = Len(b)
          OBVIOUS
        <5>2. m = 0 \/ m = 1
          BY ONLY <4>3, <5>1
        <5>3. QED
          BY ONLY <4>4, <4>5, <5>1, <5>2, Zenon
    <3>3. QED
      BY <3>1, <3>2
  <2>9. ASSUME NEW l, l = <<255 - cmd>> \/ l = <<>>
        PROVE  SilentAt(step, waiting, l, replies, running', context)
    <3>1. PICK e : e = 255 - cmd
      OBVIOUS
    <3>2. e # SYNC
      BY <2>4, <3>1, CommandBytesOf
    <3>3. Len(l) <= 1 /\ \A n \in 1 .. Len(l) : l[n] # SYNC
      <4>1. l = <<e>> \/ l = <<>>
        BY ONLY <2>9, <3>1, Zenon
      <4>2. QED
        <5>1. CASE l = <<e>>
          <6>1. Len(<<e>>) = 1 /\ (<<e>>)[1] = e
            OBVIOUS
          <6>2. QED
            BY ONLY <3>2, <5>1, <6>1
        <5>2. CASE l = <<>>
          BY ONLY <5>2
        <5>3. QED
          BY ONLY <4>1, <5>1, <5>2
    <3>4. SYNC \notin {l[n] : n \in 1 .. Len(l)}
      BY ONLY <3>3
    <3>5. QED
      BY ONLY <1>3, <1>5, <1>6, <2>1, <2>3, <3>3, <3>4, Zenon DEF SilentAt
  <2>10. Tail(s) = <<255 - cmd>> /\ Tail(<<255 - cmd>>) = <<>>
    BY ONLY <2>5
  <2>11. Tail(line) = <<255 - cmd>> \/ Tail(line) = <<>>
    BY ONLY <2>8, <2>10, Zenon
  <2>12. line # s \/ InCommand(step, line, running', context)
    BY ONLY <1>1, <1>3, <2>2, <2>6, Zenon DEF InCommand
  <2>13. QED
    BY ONLY <2>6, <2>8, <2>9, <2>11, <2>12, Zenon
<1>9. CASE flash' = flash /\ line' = line
  <2>1. CASE HearingAt(step, waiting, line, replies, running, context, flash)
    <3>1. /\ waiting > 0 /\ waiting = Script(step).acks
          /\ line # <<>> /\ Len(line) <= Len(Script(step).bytes) /\ replies = <<>>
          /\ step > 7 => flash = Beginning((step - 1 - 7) \div 3)
          /\ \/ InPacket(step, line, running, context)
             \/ AtSync(step, line, running, context)
             \/ InCommand(step, line, running, context)
      BY ONLY <2>1, Zenon DEF HearingAt
    <3>2. CASE InPacket(step, line, running, context)
      <4>1. CommandOf(step) # step /\ step # 1
        BY ONLY <1>2, <3>2, Zenon DEF InPacket
      <4>2. SilentAt(step, waiting, line, replies, running', context)
        BY ONLY <1>3, <1>6, <3>1, <4>1, Zenon DEF SilentAt
      <4>3. PlacedThen
        BY ONLY <1>1, <1>9, <4>2, Zenon DEF PlacedThen, PlacedAt
      <4>4. QED
        BY ONLY <1>1, <1>9, <4>3, Launchable(flash), Zenon
    <3>3. CASE AtSync(step, line, running, context) \/ InCommand(step, line, running', context)
      <4>1. AtSync(step, line, running', context) \/ InCommand(step, line, running', context)
        BY ONLY <1>3, <3>3, Zenon DEF AtSync
      <4>2. HearingAt(step, waiting, line, replies, running', context, flash)
        BY ONLY <3>1, <4>1, Zenon DEF HearingAt
      <4>3. PlacedThen
        BY ONLY <1>1, <1>9, <4>2, Zenon DEF PlacedThen, PlacedAt
      <4>4. QED
        BY ONLY <1>1, <1>9, <4>3, Launchable(flash), Zenon
    <3>4. CASE InCommand(step, line, running, context) /\ ~InCommand(step, line, running', context)
      <4>1. SilentAt(step, waiting, line, replies, running', context)
        BY ONLY <1>8, <2>1, <3>4, Zenon
      <4>2. PlacedThen
        BY ONLY <1>1, <1>9, <4>1, Zenon DEF PlacedThen, PlacedAt
      <4>3. QED
        BY ONLY <1>1, <1>9, <4>2, Launchable(flash), Zenon
    <3>5. QED
      BY ONLY <3>1, <3>2, <3>3, <3>4, Zenon
  <2>2. CASE SilentAt(step, waiting, line, replies, running, context)
    <3>1. SilentAt(step, waiting, line, replies, running', context)
      BY ONLY <1>7, <2>2, Zenon
    <3>2. PlacedThen
      BY ONLY <1>1, <1>9, <3>1, Zenon DEF PlacedThen, PlacedAt
    <3>3. QED
      BY ONLY <1>1, <1>9, <3>2, Launchable(flash), Zenon
  <2>3. CASE IdleAt(step, waiting, line, replies, running, context, flash)
    <3>1. IdleAt(step, waiting, line, replies, running', context, flash)
      BY ONLY <1>4, <2>3, Zenon DEF IdleAt
    <3>2. PlacedThen
      BY ONLY <1>1, <1>9, <3>1, Zenon DEF PlacedThen, PlacedAt
    <3>3. QED
      BY ONLY <1>1, <1>9, <3>2, Launchable(flash), Zenon
  <2>4. CASE AnsweredAt(step, waiting, line, replies, running, context, flash)
    <3>1. AnsweredAt(step, waiting, line, replies, running', context, flash)
      BY ONLY <1>4, <2>4, Zenon DEF AnsweredAt
    <3>2. PlacedThen
      BY ONLY <1>1, <1>9, <3>1, Zenon DEF PlacedThen, PlacedAt
    <3>3. QED
      BY ONLY <1>1, <1>9, <3>2, Launchable(flash), Zenon
  <2>5. QED
    BY ONLY <2>1, <2>2, <2>3, <2>4, PlacedHere, Zenon DEF PlacedHere, PlacedAt
<1>10. CASE /\ running = "bootloader" /\ line # <<>> /\ line' = Tail(line)
            /\ flash' \in byte_handle(Head(line)).operation.partial
  <2>1. PICK o : o = byte_handle(Head(line))
    OBVIOUS
  <2>2. CASE context.state = "wait"
    <3>1. flash' = flash
      <4>1. PICK c : c = [context EXCEPT !.buffer = Append(@, Head(line))]
        OBVIOUS
      <4>2. CommandChecked(c, o)
        BY ONLY <1>10, <2>1, <2>2, <4>1, IInv, CommandByte
      <4>3. o.operation = NoFlash
        BY ONLY <4>2, Zenon DEF CommandChecked
      <4>4. QED
        BY ONLY <1>10, <2>1, <4>3 DEF NoFlash
    <3>2. ~Processing(running, context)
      BY ONLY <2>2 DEF Processing
    <3>3. SilentAt(step, waiting, Tail(line), replies, running', context)
      <4>1. CASE SilentAt(step, waiting, line, replies, running, context)
        BY ONLY <1>7, <1>10, <4>1, Zenon
      <4>2. CASE HearingAt(step, waiting, line, replies, running, context, flash)
        <5>1. /\ waiting > 0 /\ replies = <<>>
              /\ AtSync(step, line, running, context) \/ InCommand(step, line, running, context)
          BY ONLY <3>2, <4>2, Zenon DEF HearingAt, InPacket
        <5>2. CASE AtSync(step, line, running, context)
          <6>1. step = 1 /\ line = <<SYNC>>
            BY ONLY <5>2, Zenon DEF AtSync
          <6>2. Tail(line) = <<>> /\ ~(1 > 1)
            BY ONLY <6>1
          <6>3. QED
            BY ONLY <1>3, <1>6, <5>1, <6>1, <6>2, Zenon DEF SilentAt
        <5>3. CASE InCommand(step, line, running, context)
          BY ONLY <1>8, <4>2, <5>3, Zenon
        <5>4. QED
          BY ONLY <5>1, <5>2, <5>3
      <4>3. QED
        BY ONLY <1>10, <4>1, <4>2, PlacedHere, Zenon
           DEF PlacedHere, PlacedAt, IdleAt, AnsweredAt
    <3>4. PlacedThen
      BY ONLY <1>1, <1>10, <3>3, Zenon DEF PlacedThen, PlacedAt
    <3>5. QED
      BY ONLY <1>1, <3>1, <3>4, Launchable(flash), Zenon
  <2>3. CASE context.state # "wait"
    <3>1. Processing(running, context)
      BY ONLY <1>2, <1>10, <2>3 DEF Processing
    <3>2. HearingAt(step, waiting, line, replies, running, context, flash)
      BY ONLY <1>10, <3>1, PlacedHere, Zenon
         DEF PlacedHere, PlacedAt, IdleAt, AnsweredAt, SilentAt
    <3>3. InPacket(step, line, running, context)
      BY ONLY <3>1, <3>2, Zenon DEF HearingAt, AtSync, InCommand
    <3>4. \A x \in o.operation.partial : Launchable(x)
      BY ONLY <1>10, <2>1, <3>2, <3>3, IInv, Launchable(flash), PacketByte
    <3>5. waiting > 0 /\ replies = <<>> /\ CommandOf(step) # step
      BY ONLY <3>2, <3>3, Zenon DEF HearingAt, InPacket
    <3>6. step # 1
      BY ONLY <1>2, <3>5, Zenon
    <3>7. SilentAt(step, waiting, Tail(line), replies, running', context)
      BY ONLY <1>3, <1>6, <3>5, <3>6, Zenon DEF SilentAt
    <3>8. PlacedThen
      BY ONLY <1>1, <1>10, <3>7, Zenon DEF PlacedThen, PlacedAt
    <3>9. QED
      BY ONLY <1>1, <1>10, <2>1, <3>4, <3>8, Zenon
  <2>4. QED
    BY <2>2, <2>3
<1>11. QED
  BY <1>1, <1>9, <1>10

(* The device is delivered with its image, the host has not begun.         *)
LEMMA TrackInit == Init => TrackInv
<1> SUFFICES ASSUME Init PROVE TrackInv
  OBVIOUS
<1>1. /\ running = "off" /\ flash = Installed(OldImage) /\ line = <<>> /\ replies = <<>>
      /\ step = 1 /\ waiting = 0
  BY DEF Init
<1>2. ~Processing(running, context) /\ running # "bootloader" /\ running # "app"
  BY ONLY <1>1 DEF Processing
<1>3. ReachedAt(step - 1, running, context, flash)
  <2>1. step - 1 = 0 /\ ~(0 >= 7)
    BY <1>1
  <2>2. QED
    BY ONLY <1>2, <2>1, Zenon DEF ReachedAt
<1>4. Placed
  BY ONLY <1>1, <1>3, PlacedNow, Zenon DEF PlacedAt, IdleAt
<1>5. Whole
  BY <1>1 DEF Whole
<1>6. QED
  BY ONLY <1>2, <1>4, <1>5, Zenon DEF TrackInv, Placed

(* Every step of the device and of the host preserves it; a step that      *)
(* loses a byte or mishears one leaves nothing to show.                    *)
LEMMA TrackStep == IInv /\ TrackInv /\ [Next]_vars => TrackInv'
<1> SUFFICES ASSUME IInv, TrackInv, [Next]_vars, lost' = 0, ~misheard'
             PROVE  (Placed /\ (Corrupted \/ Whole) /\ (running = "app" => Whole))'
  BY Zenon DEF TrackInv, Placed
<1>1. lost = 0 /\ ~misheard
  <2>1. lost \in Nat
    BY FirmwareUpdateAssumption DEF IInv, TypeOK
  <2>2. lost' = lost /\ (misheard => misheard')
    <3>1. CASE LoseByte
      <4>1. lost' = lost + 1
        BY <3>1 DEF LoseByte
      <4>2. FALSE
        BY <2>1, <4>1
      <4>3. QED
        BY <4>2
    <3>2. CASE BootloaderReceive
      BY ONLY <3>2, Zenon DEF BootloaderReceive
    <3>3. CASE AppReceive
      BY ONLY <3>3, Zenon DEF AppReceive
    <3>4. CASE UNCHANGED vars
      <4>1. misheard' = misheard /\ lost' = lost
        BY ONLY <3>4 DEF vars, host
      <4>2. QED
        BY ONLY <4>1
    <3>5. CASE Boot \/ Unheard \/ Host \/ UpdateAgain \/ PowerCut
      <4>1. misheard' = misheard /\ lost' = lost
        BY ONLY <3>5 DEF Host, Boot, Unheard, Send, Acknowledged, StartAgain,
           UpdateAgain, PowerCut
      <4>2. QED
        BY ONLY <4>1
    <3>6. QED
      BY <3>1, <3>2, <3>3, <3>4, <3>5, Zenon DEF Next, Device
  <2>3. QED
    BY ONLY <2>2, lost' = 0, ~misheard', Zenon
<1>2. /\ PlacedHere /\ Launchable(flash)
      /\ running = "app" => Whole
  BY ONLY <1>1, TrackInv, PlacedNow, LaunchableNow, Zenon DEF TrackInv, Placed, PlacedHere
<1>3. erase_list' = erase_list
  BY Zenon DEF Next, Device, Host, Boot, Unheard, BootloaderReceive, AppReceive,
     Send, Acknowledged, StartAgain, UpdateAgain, LoseByte, PowerCut, vars, host
<1>4. SUFFICES PlacedThen /\ Launchable(flash') /\ (running' = "app" => Whole')
  BY ONLY <1>3, <1>4, PlacedNext, LaunchableNow, Zenon DEF PlacedThen
<1>5. flash' = flash => Launchable(flash') /\ (Whole => Whole')
  BY ONLY <1>2, Zenon DEF Whole
<1>6. CASE Boot
  <2>1. PlacedThen
    BY ONLY <1>2, <1>6, IInv, BootPlaced
  <2>2. flash' = flash /\ running' = IF ~mailbox /\ ~Corrupted THEN "app" ELSE "bootloader"
    BY ONLY <1>6 DEF Boot
  <2>3. running' = "app" => ~Corrupted
    BY ONLY <2>2
  <2>4. Corrupted \/ Whole
    BY ONLY <1>2, LaunchableNow, Zenon
  <2>5. QED
    BY ONLY <1>5, <2>1, <2>2, <2>3, <2>4, Zenon
<1>7. CASE Unheard
  <2>1. PlacedThen
    BY ONLY <1>2, <1>7, IInv, UnheardPlaced
  <2>2. flash' = flash /\ running' = running
    BY ONLY <1>7, Zenon DEF Unheard, device
  <2>3. QED
    BY ONLY <1>2, <1>5, <2>1, <2>2, Zenon
<1>8. CASE BootloaderReceive
  BY ONLY <1>2, <1>8, IInv, ~misheard', BootloaderReceivePlaced
<1>9. CASE AppReceive
  <2>1. PlacedThen
    BY ONLY <1>2, <1>9, IInv, ~misheard', AppReceivePlaced
  <2>2. flash' = flash /\ running = "app"
    BY ONLY <1>9, Zenon DEF AppReceive
  <2>3. QED
    BY ONLY <1>2, <1>5, <2>1, <2>2, Zenon
<1>10. CASE Send
  <2>1. PlacedThen
    BY ONLY <1>2, <1>10, IInv, SendPlaced
  <2>2. flash' = flash /\ running' = running
    BY ONLY <1>10, Zenon DEF Send, device
  <2>3. QED
    BY ONLY <1>2, <1>5, <2>1, <2>2, Zenon
<1>11. CASE Acknowledged
  <2>1. PlacedThen
    BY ONLY <1>2, <1>11, IInv, AcknowledgedPlaced
  <2>2. flash' = flash /\ running' = running
    BY ONLY <1>11, Zenon DEF Acknowledged, device
  <2>3. QED
    BY ONLY <1>2, <1>5, <2>1, <2>2, Zenon
<1>12. CASE StartAgain
  <2>1. PlacedThen
    BY ONLY <1>2, <1>12, IInv, StartAgainPlaced
  <2>2. flash' = flash /\ running' = running
    BY ONLY <1>12, Zenon DEF StartAgain, device
  <2>3. QED
    BY ONLY <1>2, <1>5, <2>1, <2>2, Zenon
<1>13. CASE UpdateAgain
  <2>1. PlacedThen
    BY ONLY <1>2, <1>13, IInv, UpdateAgainPlaced
  <2>2. flash' = flash /\ running' = running
    BY ONLY <1>13, Zenon DEF UpdateAgain, device
  <2>3. QED
    BY ONLY <1>2, <1>5, <2>1, <2>2, Zenon
<1>14. CASE LoseByte
  <2>1. lost' = lost + 1
    BY <1>14 DEF LoseByte
  <2>2. FALSE
    BY ONLY <1>1, <2>1, lost' = 0
  <2>3. QED
    BY <2>2
<1>15. CASE PowerCut
  BY ONLY <1>2, <1>15, IInv, PowerCutPlaced
<1>16. CASE UNCHANGED vars
  <2>1. /\ step' = step /\ waiting' = waiting /\ line' = line /\ replies' = replies
        /\ running' = running /\ context' = context /\ flash' = flash
    BY ONLY <1>16, Zenon DEF vars, device, host
  <2>2. PlacedThen
    BY ONLY <1>2, <2>1, Zenon DEF PlacedHere, PlacedThen
  <2>3. QED
    BY ONLY <1>2, <1>5, <2>1, <2>2, Zenon
<1>17. QED
  BY <1>6, <1>7, <1>8, <1>9, <1>10, <1>11, <1>12, <1>13, <1>14, <1>15, <1>16
     DEF Next, Device, Host

(* While the line loses nothing and the device takes no packet for another,*)
(* the two are at the same packet, or the device refuses it; the flash     *)
(* holds what the acknowledged packets wrote, and nothing that is started  *)
(* but all of an image: for every image, however often the supply fails.   *)
THEOREM UpdateHolds == Spec => []UpdateInv
<1>1. Init => UpdateInv
  BY InvariantInit, TrackInit DEF UpdateInv
<1>2. UpdateInv /\ [Next]_vars => UpdateInv'
  BY InvariantStep, TrackStep DEF UpdateInv
<1>3. QED
  BY <1>1, <1>2, PTL DEF Spec

(* A host that has every acknowledgement has its image in the flash.       *)
THEOREM TruthfulHolds == Spec => [](lost = 0 => TruthfulEnd)
<1>1. UpdateInv => (lost = 0 => TruthfulEnd)
  <2> SUFFICES ASSUME UpdateInv, lost = 0, Done, ~misheard PROVE flash = Installed(NewImage)
    BY DEF TruthfulEnd
  <2>1. IInv /\ PlacedHere
    BY PlacedNow, Zenon DEF UpdateInv, TrackInv, Placed, PlacedHere
  <2>2. ~(waiting > 0) /\ step - 1 = LastPacket
    BY <2>1, HostPlace DEF Done, IInv, HostInv
  <2>3. ReachedAt(LastPacket, running, context, flash)
    BY ONLY <2>1, <2>2, Zenon DEF PlacedHere, PlacedAt, IdleAt, AnsweredAt, HearingAt, SilentAt
  <2>4. LastPacket >= 7 /\ (LastPacket - 7) \div 3 = N /\ N \in 0 .. N
    <3>1. N \in Nat /\ LastPacket = 3 * N + 9
      BY ImageType, ScriptLength
    <3>2. QED
      BY ONLY <3>1
  <2>5. flash = Beginning(N)
    BY ONLY <2>3, <2>4, Zenon DEF ReachedAt
  <2>6. QED
    BY ONLY <2>4, <2>5, BeginningWords
<1>2. QED
  BY <1>1, UpdateHolds, PTL

(* An application that runs is all of an image.                            *)
THEOREM LaunchHolds == Spec => [](lost = 0 => NoPartialLaunch)
<1>1. UpdateInv => (lost = 0 => NoPartialLaunch)
  BY Zenon DEF UpdateInv, TrackInv, NoPartialLaunch, Whole
<1>2. QED
  BY <1>1, UpdateHolds, PTL
=============================================================================
