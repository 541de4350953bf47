------------------------------ MODULE Ps2Mouse ------------------------------
(***************************************************************************)
(* The PS/2 mouse (mouse/ps2mouse.c).  The device sends a packet byte by   *)
(* byte, one interrupt per byte; ps2_mouse_handle_interrupt puts the       *)
(* packet together again in a static buffer.  A packet starts with a byte  *)
(* that has bit 3 set, which is all the handler has to find the start of a *)
(* packet after a byte was lost: a movement byte may have that bit too.    *)
(***************************************************************************)
EXTENDS Integers, Sequences

CONSTANTS Packets,     \* what the device reports: [left, right : 0..1, dx, dy : -128..127]
          PacketSizes, \* 3, or 4 for a mouse with a wheel
          MaxPackets,  \* bound: packets sent
          MaxLost      \* bound: bytes lost

Axis == {"x", "y"}

ASSUME MouseAssumption ==
    /\ Packets \subseteq [left : 0..1, right : 0..1, dx : -128..127, dy : -128..127]
    /\ PacketSizes \subseteq {3, 4}
    /\ MaxPackets \in Nat /\ MaxLost \in Nat

VARIABLES line,    \* the bytes of the packet being sent that have not arrived
          packet,  \* packet[0 .. packet_byte_count) of the handler
          size,    \* ps2_mouse_private.mouse_packet_size
          sent, lost,
          whole,   \* history: no byte of the packet being sent was lost and none
                   \* but the first has bit 3
          trusted  \* history: since the last loss such a packet has arrived

mouseVars == <<line, packet, size, sent, lost, whole, trusted>>

\* (v & mask) # 0 for a mask of one bit.
Bit(v, mask) == (v \div mask) % 2

\* (int8_t) of a byte or of a sum.
Int8(v) == IF v % 256 >= 128 THEN (v % 256) - 256 ELSE v % 256

Negative(v) == IF v < 0 THEN 1 ELSE 0

\* The bytes of a report: buttons, sign bits and bit 3, the two movements,
\* and the wheel, which does not turn here.
Encoded(p) ==
    LET bytes == <<8 + p.left + 2 * p.right + 16 * Negative(p.dx) + 32 * Negative(p.dy),
                   p.dx % 256, p.dy % 256>>
    IN  IF size = 4 THEN Append(bytes, 0) ELSE bytes

\* ps2_mouse_init: the device's id decides the size of the packets.  The
\* mouse that does not answer stops the boot and is left out.
MouseInit ==
    /\ line = <<>> /\ packet = <<>> /\ size \in PacketSizes
    /\ sent = 0 /\ lost = 0 /\ whole = TRUE /\ trusted = TRUE

\* The device starts to send a report.
Send(p) ==
    /\ line = <<>> /\ sent < MaxPackets
    /\ line' = Encoded(p)
    /\ sent' = sent + 1
    /\ whole' = \A i \in 2..Len(line') : Bit(line'[i], 8) = 0
    /\ UNCHANGED <<packet, size, lost, trusted>>

\* The next byte never reaches the handler.
Lose ==
    /\ line # <<>> /\ lost < MaxLost
    /\ line' = Tail(line)
    /\ lost' = lost + 1
    /\ whole' = FALSE /\ trusted' = FALSE
    /\ UNCHANGED <<packet, size, sent>>

\* The fault of taking any byte for the first one of a packet.
FaultWithByte(b) == Append(packet, b)

\* The handler's buffer with byte b: a byte without bit 3 cannot be the first.
WithByte(b) == IF packet = <<>> /\ Bit(b, 8) = 0 THEN <<>> ELSE Append(packet, b)

Completes(b) == Len(WithByte(b)) >= size

\* The handler takes the next byte; the buffer is empty again after the last one.
Receive ==
    /\ line # <<>>
    /\ line' = Tail(line)
    /\ packet' = IF Completes(Head(line)) THEN <<>> ELSE WithByte(Head(line))
    /\ trusted' = (trusted \/ (line' = <<>> /\ whole))
    /\ UNCHANGED <<size, sent, lost, whole>>

\* What the handler reads from a complete buffer.
Report(bytes) ==
    [clicked |-> Bit(bytes[1], 1) = 1 \/ Bit(bytes[1], 2) = 1,
     delta |-> [a \in Axis |-> IF a = "x" THEN Int8(bytes[2]) ELSE Int8(-Int8(bytes[3]))]]
=============================================================================
