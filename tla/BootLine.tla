------------------------------ MODULE BootLine ------------------------------
(***************************************************************************)
(* The command that restarts the pedal in its bootloader: the USB callback *)
(* hands each packet to BootloaderCommandParser::Feed, which keeps a line  *)
(* in a fixed buffer from packet to packet (src/BootloaderCommand.cpp,     *)
(* src/main.cpp:82-89).                                                    *)
(***************************************************************************)
EXTENDS Integers, Sequences, FiniteSetsExt

CONSTANTS
  Command,    \* kBootloaderCommand
  MaxLine,    \* kMaxLine
  Char,       \* characters the host may send
  LineEnd,    \* those that end a line: '\n' and '\r'
  Nul,        \* '\0'
  PacketSize, \* bytes in a packet, at most
  MaxStream   \* bound: bytes received since power-on

ASSUME BootLineAssumption ==
  /\ LineEnd \subseteq Char /\ Nul \in Char \ LineEnd
  /\ Command \in Seq(Char \ (LineEnd \cup {Nul}))
  /\ MaxLine \in Nat /\ Len(Command) < MaxLine
  /\ PacketSize \in Nat /\ MaxStream \in Nat

VARIABLES
  line_,      \* the bytes of line_ up to length_
  rebooting,  \* System::ResetToBootloader was called
  stream      \* history: the bytes received since power-on

usb == <<line_, rebooting, stream>>

LineInit == line_ = <<>> /\ rebooting = FALSE /\ stream = <<>>

(* What strcmp sees of a row of bytes.                                     *)
CString(bytes) ==
  LET nuls == {k \in 1..Len(bytes) : bytes[k] = Nul}
  IN  IF nuls = {} THEN bytes ELSE SubSeq(bytes, 1, Min(nuls) - 1)

(* Slip: a line that is not the command is not dropped at its end.         *)
FeedByteUnended(p, ch) ==
  CASE p.matched -> p
    [] ~p.matched /\ ch \in LineEnd ->
         IF CString(p.line) = Command THEN [line |-> <<>>, matched |-> TRUE] ELSE p
    [] ~p.matched /\ ch \notin LineEnd /\ Len(p.line) + 1 >= MaxLine ->
         [line |-> <<>>, matched |-> FALSE]
    [] OTHER -> [p EXCEPT !.line = Append(@, ch)]

(* One turn of Feed's loop; a match returns, and the rest of the packet is *)
(* not looked at.  A byte that does not fit goes, and the line with it.    *)
FeedByte(p, ch) ==
  CASE p.matched -> p
    [] ~p.matched /\ ch \in LineEnd ->
         [line |-> <<>>, matched |-> CString(p.line) = Command]
    [] ~p.matched /\ ch \notin LineEnd /\ Len(p.line) + 1 >= MaxLine ->
         [line |-> <<>>, matched |-> FALSE]
    [] OTHER -> [p EXCEPT !.line = Append(@, ch)]

Feed(packet) ==
  LET after[k \in 0..Len(packet)] ==
        IF k = 0 THEN [line |-> line_, matched |-> FALSE]
                 ELSE FeedByte(after[k - 1], packet[k])
  IN  after[Len(packet)]

(* UsbReceiveCallback.                                                     *)
Receive(packet) ==
  /\ ~rebooting /\ Len(stream) + Len(packet) <= MaxStream
  /\ line_' = Feed(packet).line
  /\ rebooting' = Feed(packet).matched
  /\ stream' = stream \o packet

(* The firmware starts again, after the bootloader or a power cut.         *)
Restart == line_' = <<>> /\ rebooting' = FALSE /\ stream' = <<>>

Packets == UNION {[1..n -> Char] : n \in 1..PacketSize}

LineNext == Restart \/ \E packet \in Packets : Receive(packet)

LineSpec == LineInit /\ [][LineNext]_usb

-----------------------------------------------------------------------------
(* Properties.                                                             *)

Ends(bytes) == {k \in 1..Len(bytes) : bytes[k] \in LineEnd}

(* What lies between a line end, or the beginning, and the next line end.  *)
Between(bytes) ==
  {at \in ({0} \cup Ends(bytes)) \X Ends(bytes) :
     at[1] < at[2] /\ \A e \in Ends(bytes) : e <= at[1] \/ at[2] <= e}

Lines(bytes) == {SubSeq(bytes, at[1] + 1, at[2] - 1) : at \in Between(bytes)}

(* A line the buffer holds, with the NUL that ends it.                     *)
InBuffer(text) == Len(text) < MaxLine

IsCommand(text) == CString(text) = Command

EndsInCommand(text) ==
  \E k \in 0..Len(text) : IsCommand(SubSeq(text, k + 1, Len(text)))

(* However the host cuts the bytes into packets, and whatever it sent      *)
(* before: the command on a line of its own restarts the pedal in its      *)
(* bootloader, and no other line that fits the buffer does; of the lines   *)
(* that outgrow it only one that ends in the command can, and see          *)
(* RebootsOnWholeLine (src/BootloaderCommand.cpp:19-58).                   *)
RebootsOnCommandOnly ==
  /\ (\E text \in Lines(stream) : InBuffer(text) /\ IsCommand(text)) => rebooting
  /\ rebooting => \E text \in Lines(stream) :
                    IF InBuffer(text) THEN IsCommand(text) ELSE EndsInCommand(text)

(* docs/superpowers/plans/2026-06-25-app-triggered-bootloader-dfu.md:37,   *)
(* "Keep the serial command exact": a longer line that ends in the command *)
(* is not the command.  The code does otherwise when the rest of the line  *)
(* is one buffer long, or several.                                         *)
RebootsOnWholeLine == rebooting => \E text \in Lines(stream) : IsCommand(text)
=============================================================================
