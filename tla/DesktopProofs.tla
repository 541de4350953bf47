--------------------------- MODULE DesktopProofs ---------------------------
(***************************************************************************)
(* Proofs about Desktop, for every screen, window and cursor size, every   *)
(* movement and any number of packets and of lost bytes.                   *)
(*                                                                         *)
(* Two independent invariants carry them.  PacketInv follows the bytes of  *)
(* a packet from the device to the handler's buffer: what makes the        *)
(* handler find the start of a packet again is that the bytes still to     *)
(* come of a whole packet, its first one apart, cannot open a buffer, and  *)
(* that a buffer left over from before is full before the packet ends.     *)
(* DeskInv says which lists of windows and of graphics there can be at     *)
(* each step of kernel_main, that a drag names a window of both, the focus *)
(* too unless window_create has used a window that was closed under it,    *)
(* and that window_position_set leaves every window on the screen.         *)
(***************************************************************************)
EXTENDS Desktop, SequenceTheorems, TLAPS

One == <<Cursor>>
Two == <<Cursor, Main>>
Under == <<Main, Cursor>>

Byte == 0..255

PacketTypes ==
    /\ line \in Seq(Byte) /\ packet \in Seq(Byte) /\ size \in {3, 4}
    /\ whole \in BOOLEAN /\ trusted \in BOOLEAN
    /\ Len(packet) < size /\ Len(line) <= size

\* Of a whole packet only the first byte can open a buffer, and a buffer that
\* was not empty when it began is full at the latest with its last byte.
InStep ==
    /\ Len(line) = size => Bit(line[1], 8) = 1
    /\ whole => \A i \in 1..Len(line) : Bit(line[i], 8) = 1 => i = 1 /\ Len(line) = size
    /\ whole /\ line # <<>> => packet = <<>> \/ Len(packet) + Len(line) >= size

PacketInv == PacketTypes /\ InStep /\ PacketsWhole

Point == [Axis -> Nat]

Desks ==
    [windows : {<<>>, One, Two}, children : {One, Two, Under}, titled : SUBSET {Main},
     z : [Windows -> Nat], pos : [Windows -> Point],
     focused : {NoWindow, Cursor, Main}, moving : {NoWindow, Main}]

\* The children of the screen by z-index.
Sorted(s, z) == \A i, j \in 1..Len(s) : i < j => z[s[i]] <= z[s[j]]

\* The body of the main window is on the screen.
Placed(d) == \A a \in Axis : d.pos[Main][a] + MainSize[a] <= Screen[a]

Good(d) ==
    /\ d \in Desks /\ d.windows # <<>>
    /\ Sorted(d.children, d.z)
    /\ d.moving = Main => d.windows = Two
    /\ d.windows = Two => d.children # One
    /\ Placed(d)

\* Where kernel_main is decides what the two lists can be.
Phase ==
    /\ pc \in {"mouse_register", "handlers", "root", "title", "push",
               "z", "focus", "top", "print", "done"}
    /\ pc \in {"handlers", "root"} => desk.children = One /\ desk.windows = One
    /\ pc \in {"title", "push"} => desk.children # One /\ desk.windows = One
    /\ pc \in {"z", "focus", "top", "print"} /\ desk.windows = One => desk.children = One
    /\ stray \in BOOLEAN
    /\ stray => /\ pc \in {"focus", "top", "print", "done"}
                /\ desk.windows = One /\ desk.children = One
    /\ desk.focused = Main => desk.windows = Two \/ stray

DeskInv ==
    /\ Phase
    /\ coords \in Point
    /\ pc = "mouse_register" => desk = EmptyDesk /\ ~stray
    /\ pc # "mouse_register" => Good(desk)
    /\ CursorAtMouse

-----------------------------------------------------------------------------
(* The packets.                                                            *)

(* What the device sends: as many bytes as the handler expects, the first  *)
(* of them with bit 3.                                                     *)
LEMMA EncodedBytes ==
    ASSUME NEW p \in Packets, size \in {3, 4}
    PROVE  /\ Encoded(p) \in Seq(Byte)
           /\ Len(Encoded(p)) = size
           /\ Bit(Encoded(p)[1], 8) = 1
  <1>1. p \in [left : 0..1, right : 0..1, dx : -128..127, dy : -128..127]
    BY MouseAssumption
  <1> DEFINE b1 == 8 + p.left + 2 * p.right + 16 * Negative(p.dx) + 32 * Negative(p.dy)
             b2 == p.dx % 256
             b3 == p.dy % 256
  <1>2. b1 \in Byte /\ (b1 \div 8) % 2 = 1
    BY <1>1 DEF Negative, Byte
  <1>3. b2 \in Byte /\ b3 \in Byte
    BY <1>1 DEF Byte
  <1>4. Encoded(p) = IF size = 4 THEN Append(<<b1, b2, b3>>, 0) ELSE <<b1, b2, b3>>
    BY DEF Encoded
  <1> HIDE DEF b1, b2, b3
  <1>5. CASE size = 3
    <2>1. Encoded(p) = <<b1, b2, b3>>
      BY <1>2, <1>3, <1>4, <1>5
    <2> QED
      BY <1>2, <1>3, <1>5, <2>1 DEF Bit
  <1>6. CASE size = 4
    <2>0. 0 \in Byte
      BY DEF Byte
    <2> DEFINE t == <<b1, b2, b3>>
    <2>1. t \in Seq(Byte) /\ Len(t) = 3 /\ t[1] = b1
      BY <1>2, <1>3
    <2>2. Encoded(p) = Append(t, 0)
      BY <1>4, <1>6
    <2> HIDE DEF t
    <2>3. \A v \in Byte : Append(t, v) \in Seq(Byte) /\ Len(Append(t, v)) = Len(t) + 1
      BY <2>1, AppendProperties
    <2>4. Append(t, 0)[1] = b1
      BY <2>0, <2>1
    <2> QED
      BY <1>2, <1>6, <2>0, <2>1, <2>2, <2>3, <2>4 DEF Bit
  <1> QED
    BY <1>5, <1>6

(* The handler's buffer with one more byte. *)
LEMMA WithByteFacts ==
    ASSUME PacketTypes, NEW b \in Byte
    PROVE  /\ WithByte(b) \in Seq(Byte)
           /\ packet = <<>> /\ Bit(b, 8) = 0 => WithByte(b) = <<>>
           /\ packet # <<>> \/ Bit(b, 8) # 0 => Len(WithByte(b)) = Len(packet) + 1
           /\ Completes(b) <=> Len(WithByte(b)) = size
           /\ Completes(b) => packet # <<>> /\ Len(packet) = size - 1
  BY DEF PacketTypes, WithByte, Completes

(* Nothing is in the line or the buffer when the mouse is initialised. *)
LEMMA PacketInit == MouseInit => PacketInv
  BY MouseAssumption DEF MouseInit, PacketInv, PacketTypes, InStep, PacketsWhole

(* A new packet starts in step, whatever the buffer holds. *)
LEMMA PacketSend ==
    ASSUME PacketInv, NEW p \in Packets, Send(p)
    PROVE  PacketInv'
  <1>1. line' \in Seq(Byte) /\ Len(line') = size /\ Bit(line'[1], 8) = 1
    BY EncodedBytes DEF Send, PacketInv, PacketTypes
  <1>2. size' = size /\ packet' = packet /\ trusted' = trusted /\ line = <<>>
    BY DEF Send
  <1>3. \A v \in Byte : Bit(v, 8) \in {0, 1}
    BY DEF Bit, Byte
  <1>4. PacketTypes'
    BY <1>1, <1>2 DEF Send, PacketInv, PacketTypes
  <1>5. InStep'
    <2>1. whole' => \A i \in 1..Len(line') : Bit(line'[i], 8) = 1 => i = 1
      <3>1. whole' => \A i \in 2..Len(line') : Bit(line'[i], 8) = 0
        BY DEF Send
      <3>2. \A i \in 1..Len(line') : i # 1 => i \in 2..Len(line')
        BY <1>1
      <3> QED
        BY <3>1, <3>2
    <2> QED
      BY <1>1, <1>2, <2>1 DEF InStep, PacketInv, PacketTypes
  <1>6. PacketsWhole'
    BY <1>1, <1>2 DEF PacketInv, PacketTypes, PacketsWhole
  <1> QED
    BY <1>4, <1>5, <1>6 DEF PacketInv

(* After a loss nothing is claimed until a whole packet has come. *)
LEMMA PacketLose ==
    ASSUME PacketInv, Lose
    PROVE  PacketInv'
  <1>1. line' \in Seq(Byte) /\ Len(line') = Len(line) - 1
    BY DEF Lose, PacketInv, PacketTypes
  <1>2. /\ whole' = FALSE /\ trusted' = FALSE
        /\ packet' = packet /\ size' = size
    BY DEF Lose
  <1>3. PacketTypes'
    <2>1. whole' \in BOOLEAN /\ trusted' \in BOOLEAN
      BY <1>2
    <2> QED
      BY <1>1, <1>2, <2>1 DEF PacketInv, PacketTypes
  <1>4. Len(line') # size'
    BY <1>1, <1>2 DEF PacketInv, PacketTypes
  <1> QED
    BY <1>2, <1>3, <1>4 DEF PacketInv, InStep, PacketsWhole

(* The byte that arrives goes to the place it has in the packet, or, out   *)
(* of step, leads back to it.                                              *)
LEMMA PacketReceive ==
    ASSUME PacketInv, Receive
    PROVE  PacketInv'
  <1> DEFINE b == Head(line)
  <1>1. /\ line # <<>> /\ b = line[1] /\ b \in Byte
        /\ line' \in Seq(Byte) /\ Len(line') = Len(line) - 1
        /\ \A i \in 1..Len(line') : line'[i] = line[i + 1]
        /\ line' = <<>> <=> Len(line) = 1
        /\ Len(line) \in 1..size
    <2>1. line \in Seq(Byte) /\ line # <<>> /\ line' = Tail(line)
      BY DEF Receive, PacketInv, PacketTypes
    <2>2. Len(line) \in 1..size
      BY <2>1 DEF PacketInv, PacketTypes
    <2>3. b = line[1] /\ b \in Byte
      BY <2>1
    <2>4. line' \in Seq(Byte) /\ Len(line') = Len(line) - 1
      BY <2>1
    <2>5. \A i \in 1..Len(line') : line'[i] = line[i + 1]
      BY <2>1
    <2>6. line' = <<>> <=> Len(line') = 0
      BY <2>4, EmptySeq
    <2>7. line' = <<>> <=> Len(line) = 1
      BY <2>2, <2>4, <2>6 DEF PacketInv, PacketTypes
    <2> QED
      BY <2>1, <2>2, <2>3, <2>4, <2>5, <2>7, Zenon
  <1>2. /\ WithByte(b) \in Seq(Byte)
        /\ packet = <<>> /\ Bit(b, 8) = 0 => WithByte(b) = <<>>
        /\ packet # <<>> \/ Bit(b, 8) # 0 => Len(WithByte(b)) = Len(packet) + 1
        /\ Completes(b) <=> Len(WithByte(b)) = size
        /\ Completes(b) => packet # <<>> /\ Len(packet) = size - 1
    BY <1>1, WithByteFacts DEF PacketInv
  <1>3. /\ packet' = IF Completes(b) THEN <<>> ELSE WithByte(b)
        /\ trusted' = (trusted \/ (line' = <<>> /\ whole))
        /\ size' = size /\ whole' = whole
    BY DEF Receive
  <1>0. PacketTypes /\ InStep /\ PacketsWhole
    BY DEF PacketInv
  <1> HIDE DEF b
  <1>4. Bit(b, 8) \in {0, 1}
    BY <1>1 DEF Bit, Byte
  <1>5. /\ packet' \in Seq(Byte) /\ Len(packet') < size
        /\ Len(packet') = IF Completes(b) \/ (packet = <<>> /\ Bit(b, 8) = 0)
                          THEN 0 ELSE Len(packet) + 1
    BY <1>0, <1>2, <1>3 DEF PacketTypes
  <1>6. PacketTypes'
    BY <1>0, <1>1, <1>3, <1>5 DEF PacketTypes
  <1>7. whole' /\ line' # <<>> => packet' = <<>> \/ Len(packet') + Len(line') >= size
    BY <1>0, <1>1, <1>2, <1>3, <1>4, <1>5 DEF PacketTypes, InStep
  <1>8. whole' => \A i \in 1..Len(line') : Bit(line'[i], 8) # 1
    BY <1>0, <1>1, <1>3 DEF InStep
  <1>9. InStep'
    BY <1>0, <1>1, <1>3, <1>7, <1>8 DEF InStep, PacketTypes
  <1>10. PacketsWhole'
    <2>1. CASE trusted
      BY <1>0, <1>1, <1>2, <1>3, <1>4, <1>5, <2>1, SMTT(30) DEF PacketTypes, InStep, PacketsWhole
    <2>2. CASE line' = <<>> /\ whole
      <3>1. Len(line) = 1 /\ size \in {3, 4}
        BY <1>0, <1>1, <2>2 DEF PacketTypes
      <3>2. Bit(b, 8) = 1 => Len(line) = size
        BY <1>0, <1>1, <2>2, <3>1 DEF InStep
      <3>3. packet # <<>> => Len(packet) + 1 >= size
        BY <1>0, <1>1, <2>2, <3>1 DEF InStep
      <3>4. Len(packet') = 0
        BY <1>0, <1>2, <1>4, <1>5, <3>1, <3>2, <3>3 DEF PacketTypes
      <3>5. Len(line') = 0
        BY <1>1, <3>1
      <3> QED
        BY <3>4, <3>5 DEF PacketsWhole
    <2> QED
      BY <1>3, <2>1, <2>2 DEF PacketsWhole
  <1> QED
    BY <1>6, <1>9, <1>10 DEF PacketInv

(* Every step keeps the packets in step. *)
LEMMA PacketStep ==
    ASSUME PacketInv, [Next]_vars
    PROVE  PacketInv'
  <1>1. CASE UNCHANGED mouseVars
    BY <1>1 DEF mouseVars, PacketInv, PacketTypes, InStep, PacketsWhole
  <1>2. CASE \E p \in Packets : Send(p)
    BY <1>2, PacketSend
  <1>3. CASE Lose
    BY <1>3, PacketLose
  <1>4. CASE Receive
    BY <1>4, PacketReceive
  <1>5. \/ UNCHANGED mouseVars \/ (\E p \in Packets : Send(p)) \/ Lose \/ Receive
    BY DEF Next, vars, mouse_register, RegisterHandlers, CreateMainRoot, CreateMainParts,
           PushMain, SetFirstZ, SetFocus, BringToTop, PrintHello, Goto, GoOn, Device,
           MouseInterrupt
  <1> QED
    BY <1>1, <1>2, <1>3, <1>4, <1>5

(* Once a packet without a misleading bit 3 has come whole after a loss,   *)
(* the handler's buffer and the bytes to come make one packet, for every   *)
(* movement, both packet sizes and any number of losses                    *)
(* (ps2_mouse_handle_interrupt).                                           *)
THEOREM PacketsInStep == Spec => []PacketsWhole
  <1>1. Init => PacketInv
    BY PacketInit DEF Init
  <1>2. PacketInv /\ [Next]_vars => PacketInv'
    BY PacketStep
  <1>3. PacketInv => PacketsWhole
    BY DEF PacketInv
  <1> QED
    BY <1>1, <1>2, <1>3, PTL DEF Spec

-----------------------------------------------------------------------------
(* Arithmetic and the stack of graphics.                                   *)

(* A remainder is below the modulus, of a negative number too. *)
LEMMA ModRange ==
    ASSUME NEW n \in Int, NEW m \in Nat \ {0}
    PROVE  n % m \in 0 .. m - 1
  OBVIOUS

(* The stable sort of a single element. *)
LEMMA ReorderedOne ==
    ASSUME NEW z
    PROVE  Reordered(One, z) = One
  <1> DEFINE Before(i, j) == z[One[i]] < z[One[j]] \/ (z[One[i]] = z[One[j]] /\ i < j)
             order == CHOOSE f \in [DOMAIN One -> DOMAIN One] :
                          \A i, j \in DOMAIN One : i < j => Before(f[i], f[j])
  <1>1. DOMAIN One = {1} /\ One[1] = Cursor
    BY DEF One
  <1>2. [i \in {1} |-> 1] \in [DOMAIN One -> DOMAIN One]
    BY <1>1
  <1>3. \A i, j \in DOMAIN One : ~(i < j)
    BY <1>1
  <1>4. order \in [DOMAIN One -> DOMAIN One]
    BY <1>2, <1>3
  <1>5. Reordered(One, z) = [i \in DOMAIN One |-> One[order[i]]]
    BY DEF Reordered
  <1> HIDE DEF order
  <1>6. order[1] = 1
    BY <1>1, <1>4
  <1> QED
    BY <1>1, <1>5, <1>6 DEF One

(* The stable sort of two elements swaps them when the first is higher. *)
LEMMA ReorderedPair ==
    ASSUME NEW s, NEW u \in Windows, NEW v \in Windows, s = <<u, v>>,
           NEW z \in [Windows -> Nat]
    PROVE  Reordered(s, z) = IF z[v] < z[u] THEN <<v, u>> ELSE <<u, v>>
  <1> DEFINE Before(i, j) == z[s[i]] < z[s[j]] \/ (z[s[i]] = z[s[j]] /\ i < j)
             Ordered(f) == \A i, j \in DOMAIN s : i < j => Before(f[i], f[j])
             order == CHOOSE f \in [DOMAIN s -> DOMAIN s] : Ordered(f)
             witness == IF z[v] < z[u] THEN [i \in {1, 2} |-> 3 - i] ELSE [i \in {1, 2} |-> i]
  <1>1. DOMAIN s = {1, 2} /\ s[1] = u /\ s[2] = v
    OBVIOUS
  <1>2. z[u] \in Nat /\ z[v] \in Nat
    OBVIOUS
  <1>3. witness \in [DOMAIN s -> DOMAIN s] /\ Ordered(witness)
    BY <1>1, <1>2
  <1>4. order \in [DOMAIN s -> DOMAIN s] /\ Ordered(order)
    <2> HIDE DEF Ordered, witness
    <2> QED
      BY <1>3, Zenon
  <1>5. Reordered(s, z) = [i \in DOMAIN s |-> s[order[i]]]
    BY DEF Reordered
  <1> HIDE DEF order
  <1>6. Before(order[1], order[2]) /\ order[1] \in {1, 2} /\ order[2] \in {1, 2}
    BY <1>1, <1>4
  <1>7. CASE z[v] < z[u]
    <2>1. order[1] = 2 /\ order[2] = 1
      BY <1>1, <1>2, <1>6, <1>7
    <2> QED
      BY <1>1, <1>5, <1>7, <2>1
  <1>8. CASE ~(z[v] < z[u])
    <2>1. order[1] = 1 /\ order[2] = 2
      BY <1>1, <1>2, <1>6, <1>8
    <2> QED
      BY <1>1, <1>5, <1>8, <2>1
  <1> QED
    BY <1>7, <1>8

(* A reorder keeps the graphics that are listed and puts them in order. *)
LEMMA ReorderedChildren ==
    ASSUME NEW s \in {One, Two, Under}, NEW z \in [Windows -> Nat]
    PROVE  /\ Reordered(s, z) \in {One, Two, Under}
           /\ Reordered(s, z) = One <=> s = One
           /\ Sorted(Reordered(s, z), z)
  <1>0. Cursor \in Windows /\ Main \in Windows /\ z[Cursor] \in Nat /\ z[Main] \in Nat
    BY DEF Windows
  <1>1. One # Two /\ One # Under
    BY DEF One, Two, Under
  <1>2. CASE s = One
    <2>1. Sorted(One, z)
      BY DEF Sorted, One
    <2> QED
      BY <1>2, <2>1, ReorderedOne
  <1>3. ASSUME NEW u \in Windows, NEW v \in Windows, z[u] <= z[v]
        PROVE  Sorted(<<u, v>>, z)
    BY <1>3 DEF Sorted
  <1>4. CASE s = Two
    <2>1. Reordered(s, z) = IF z[Main] < z[Cursor] THEN Under ELSE Two
      BY <1>0, <1>4, ReorderedPair DEF Two, Under
    <2>2. z[Main] < z[Cursor] => Sorted(Under, z)
      BY <1>0, <1>3 DEF Under
    <2>3. ~(z[Main] < z[Cursor]) => Sorted(Two, z)
      BY <1>0, <1>3 DEF Two
    <2> QED
      BY <1>1, <1>4, <2>1, <2>2, <2>3
  <1>5. CASE s = Under
    <2>1. Reordered(s, z) = IF z[Cursor] < z[Main] THEN Two ELSE Under
      BY <1>0, <1>5, ReorderedPair DEF Two, Under
    <2>2. z[Cursor] < z[Main] => Sorted(Two, z)
      BY <1>0, <1>3 DEF Two
    <2>3. ~(z[Cursor] < z[Main]) => Sorted(Under, z)
      BY <1>0, <1>3 DEF Under
    <2> QED
      BY <1>1, <1>5, <2>1, <2>2, <2>3
  <1> QED
    BY <1>2, <1>4, <1>5

(* A new z-index changes the z-indices and the order of the graphics. *)
LEMMA SetZ ==
    ASSUME NEW d \in Desks, NEW w \in Windows, NEW k \in Nat
    PROVE  \E z \in [Windows -> Nat], c \in {One, Two, Under} :
               /\ window_set_z_index(d, w, k) = [d EXCEPT !.z = z, !.children = c]
               /\ c = One <=> d.children = One
               /\ Sorted(c, z)
  <1> DEFINE z == [d.z EXCEPT ![w] = k]
  <1>1. z \in [Windows -> Nat] /\ d.children \in {One, Two, Under}
    BY DEF Desks
  <1>2. window_set_z_index(d, w, k) = [d EXCEPT !.z = z, !.children = Reordered(d.children, z)]
    BY DEF window_set_z_index
  <1> HIDE DEF z
  <1> QED
    BY <1>1, <1>2, ReorderedChildren

-----------------------------------------------------------------------------
(* The operations on the desk.                                             *)

\* What a handler may do to the lists: nothing, or close the main window.  It
\* focuses the main window only while that is listed.
Kept(d, e) ==
    /\ e.pos[Cursor] = d.pos[Cursor]
    /\ \/ /\ e.windows = d.windows /\ (e.children = One <=> d.children = One)
          /\ e.focused = Main => d.focused = Main \/ d.windows = Two
       \/ d.windows = Two /\ e.windows = One /\ e.children = One /\ e.focused # Main

\* What window_create does to the lists once the window is in them.
SameLists(d, e) ==
    /\ e.pos[Cursor] = d.pos[Cursor] /\ e.windows = d.windows
    /\ e.children = One <=> d.children = One

PointOnScreen(p) == p \in Point /\ \A a \in Axis : p[a] <= Screen[a]

(* What the assumptions say of one axis. *)
LEMMA AxisFacts ==
    ASSUME NEW a \in Axis
    PROVE  /\ Screen[a] \in Nat /\ CursorSize[a] \in Nat /\ MainSize[a] \in Nat
           /\ MainPos[a] \in Nat
           /\ CursorSize[a] >= 1 /\ Screen[a] \div 2 + CursorSize[a] <= Screen[a]
           /\ MainSize[a] >= 1 /\ MainSize[a] < Screen[a]
           /\ Word \in Nat \ {0} /\ 2 * Screen[a] < Word
  <1>1. Screen \in [Axis -> Nat] /\ CursorSize \in [Axis -> Nat]
        /\ MainSize \in [Axis -> Nat] /\ MainPos \in [Axis -> Nat] /\ Word \in Nat
    BY DesktopAssumption
  <1>2. /\ CursorSize[a] \in 1..(Screen[a] - Screen[a] \div 2)
        /\ MainSize[a] \in 1..(Screen[a] - 1)
        /\ Word > 2 * Screen[a]
    BY DesktopAssumption
  <1>3. /\ Screen[a] \in Nat /\ CursorSize[a] \in Nat /\ MainSize[a] \in Nat
        /\ MainPos[a] \in Nat
    BY <1>1
  <1> QED
    BY <1>1, <1>2, <1>3

(* The two lists are told apart. *)
LEMMA ListsDiffer ==
    /\ One # Two /\ One # Under /\ Two # Under /\ <<>> # One /\ <<>> # Two
    /\ Cursor # Main /\ NoWindow # Cursor /\ NoWindow # Main
  BY DesktopAssumption DEF One, Two, Under

(* A new z-index leaves a good desk good. *)
LEMMA GoodSetZ ==
    ASSUME NEW d, Good(d), NEW w \in Windows, NEW k \in Nat
    PROVE  /\ Good(window_set_z_index(d, w, k))
           /\ Kept(d, window_set_z_index(d, w, k))
           /\ SameLists(d, window_set_z_index(d, w, k))
  <1>1. d \in Desks
    BY DEF Good
  <1>2. PICK z \in [Windows -> Nat], c \in {One, Two, Under} :
               /\ window_set_z_index(d, w, k) = [d EXCEPT !.z = z, !.children = c]
               /\ c = One <=> d.children = One
               /\ Sorted(c, z)
    BY <1>1, SetZ
  <1> DEFINE e == [d EXCEPT !.z = z, !.children = c]
  <1>3. /\ e \in Desks /\ e.windows = d.windows /\ e.children = c /\ e.z = z
        /\ e.pos = d.pos /\ e.focused = d.focused /\ e.moving = d.moving
    BY <1>1 DEF Desks
  <1> HIDE DEF e
  <1>4. Good(e)
    BY <1>2, <1>3 DEF Good, Placed
  <1>5. Kept(d, e) /\ SameLists(d, e)
    BY <1>2, <1>3 DEF Kept, SameLists
  <1> QED
    BY <1>2, <1>4, <1>5 DEF e

(* window_bring_to_top leaves a good desk good. *)
LEMMA GoodBringToTop ==
    ASSUME NEW d, Good(d), NEW w \in Windows
    PROVE  /\ Good(window_bring_to_top(d, w))
           /\ Kept(d, window_bring_to_top(d, w))
           /\ SameLists(d, window_bring_to_top(d, w))
  <1> DEFINE k == 1 + (IF d.children = <<>> THEN 0 ELSE d.z[Last(d.children)])
  <1>1. d.children \in {One, Two, Under} /\ d.z \in [Windows -> Nat]
    BY DEF Good, Desks
  <1>2. Last(d.children) \in Windows
    BY <1>1 DEF Last, One, Two, Under, Windows
  <1>3. k \in Nat
    BY <1>1, <1>2
  <1>4. window_bring_to_top(d, w) = window_set_z_index(d, w, k)
    BY DEF window_bring_to_top
  <1> HIDE DEF k
  <1> QED
    BY <1>3, <1>4, GoodSetZ

(* The focus may go to any window. *)
LEMMA GoodFocused ==
    ASSUME NEW d, Good(d), NEW w \in Windows
    PROVE  /\ Good([d EXCEPT !.focused = w])
           /\ (w = Main => d.windows = Two) => Kept(d, [d EXCEPT !.focused = w])
           /\ SameLists(d, [d EXCEPT !.focused = w])
  <1> DEFINE e == [d EXCEPT !.focused = w]
  <1>1. d \in Desks
    BY DEF Good
  <1>2. /\ e \in Desks /\ e.windows = d.windows /\ e.children = d.children /\ e.z = d.z
        /\ e.pos = d.pos /\ e.focused = w /\ e.moving = d.moving
    BY <1>1 DEF Desks, Windows
  <1> HIDE DEF e
  <1>3. Good(e)
    BY <1>2 DEF Good, Placed
  <1>4. SameLists(d, e) /\ ((w = Main => d.windows = Two) => Kept(d, e))
    BY <1>2 DEF Kept, SameLists
  <1> QED
    BY <1>3, <1>4 DEF e

(* Two handlers in a row may do what one may. *)
LEMMA KeptTwice ==
    ASSUME NEW d, NEW e, NEW f, Good(e), Kept(d, e), Kept(e, f)
    PROVE  Kept(d, f)
  BY ListsDiffer DEF Kept

(* window_focus leaves a good desk good. *)
LEMMA GoodFocus ==
    ASSUME NEW d, Good(d), NEW w \in Windows, w = Main => d.windows = Two
    PROVE  Good(window_focus(d, w)) /\ Kept(d, window_focus(d, w))
  <1>1. CASE d.focused = w
    BY <1>1 DEF window_focus, Kept
  <1>2. CASE d.focused # w
    <2> DEFINE e == [d EXCEPT !.focused = w]
    <2>1. Good(e) /\ Kept(d, e)
      BY GoodFocused
    <2>2. window_focus(d, w) = window_bring_to_top(e, w)
      BY <1>2 DEF window_focus
    <2> HIDE DEF e
    <2>3. Good(window_bring_to_top(e, w)) /\ Kept(e, window_bring_to_top(e, w))
      BY <2>1, GoodBringToTop
    <2> QED
      BY <2>1, <2>2, <2>3, KeptTwice
  <1> QED
    BY <1>1, <1>2

(* The smallest and the largest of a set of places in a list of windows. *)
LEMMA PlaceFound ==
    ASSUME NEW S, S \subseteq {1, 2}, S # {}
    PROVE  Min(S) \in S /\ Max(S) \in S
  <1>0. S = {1} \/ S = {2} \/ S = {1, 2}
    OBVIOUS
  <1>1. \E x \in S : \A y \in S : x =< y
    BY <1>0
  <1>2. \E x \in S : \A y \in S : x >= y
    BY <1>0
  <1> QED
    BY <1>1, <1>2 DEF Min, Max

(* A hit is the main window, which is in the list, under the pointer. *)
LEMMA HitIsMain ==
    ASSUME NEW d, NEW p, NEW s \in {<<>>, One, Two, Under}, NEW i \in Hits(d, s, p)
    PROVE  /\ i \in {1, 2} /\ s[i] = Main /\ s \in {Two, Under}
           /\ Inside(p, d.pos[Main], RootSize(Main))
  BY DEF Hits, One, Two, Under

(* A click focuses a window of windows_vector, if any. *)
LEMMA GoodWindowClick ==
    ASSUME NEW d, Good(d), NEW p
    PROVE  Good(window_click_handler(d, p)) /\ Kept(d, window_click_handler(d, p))
  <1> DEFINE hits == Hits(d, d.windows, p)
             w == window_get_at_position(d, p)
  <1>1. d.windows \in {<<>>, One, Two, Under} /\ d.windows # Under
    BY ListsDiffer DEF Good, Desks
  <1>2. w = NoWindow \/ (w = Main /\ d.windows = Two)
    <2>1. CASE hits = {}
      BY <2>1 DEF window_get_at_position
    <2>2. CASE hits # {}
      <3>1. hits \subseteq {1, 2}
        BY <1>1, HitIsMain
      <3>2. Min(hits) \in hits
        BY <2>2, <3>1, PlaceFound
      <3>3. w = d.windows[Min(hits)]
        BY <2>2 DEF window_get_at_position
      <3> QED
        BY <1>1, <3>2, <3>3, HitIsMain
    <2> QED
      BY <2>1, <2>2
  <1>3. window_click_handler(d, p) = IF w = NoWindow THEN d ELSE window_focus(d, w)
    BY DEF window_click_handler
  <1> HIDE DEF w
  <1>4. Kept(d, d)
    BY DEF Kept
  <1>5. Main \in Windows
    BY DEF Windows
  <1> QED
    BY <1>2, <1>3, <1>4, <1>5, GoodFocus

(* One of two elements is left when the other is removed. *)
LEMMA RemoveOfPair ==
    ASSUME NEW s \in Seq(Windows), Len(s) = 2
    PROVE  RemoveAt(s, 2) = <<s[1]>> /\ RemoveAt(s, 1) = <<s[2]>>
  <1>1. s[1] \in Windows /\ s[2] \in Windows
    OBVIOUS
  <1>2. SubSeq(s, 1, 0) = <<>> /\ SubSeq(s, 3, 2) = <<>>
    BY SubSeqEmpty
  <1>3. /\ SubSeq(s, 1, 1) \in Seq(Windows) /\ SubSeq(s, 2, 2) \in Seq(Windows)
        /\ Len(SubSeq(s, 1, 1)) = 1 /\ Len(SubSeq(s, 2, 2)) = 1
        /\ SubSeq(s, 1, 1)[1] = s[1] /\ SubSeq(s, 2, 2)[1] = s[2]
    BY <1>1, SubSeqProperties
  <1>4. \A v \in Windows : <<v>> \in Seq(Windows) /\ Len(<<v>>) = 1 /\ <<v>>[1] = v
    OBVIOUS
  <1>5. ASSUME NEW t \in Seq(Windows), Len(t) = 1
        PROVE  t = <<t[1]>>
    <2>1. t[1] \in Windows /\ \A i \in 1..Len(t) : i = 1
      BY <1>5
    <2>2. \A i \in 1..Len(t) : t[i] = <<t[1]>>[i]
      BY <1>4, <2>1
    <2>3. <<t[1]>> \in Seq(Windows) /\ Len(t) = Len(<<t[1]>>)
      BY <1>4, <1>5, <2>1
    <2> QED
      BY <2>2, <2>3, SeqEqual, Zenon
  <1>6. SubSeq(s, 1, 1) = <<s[1]>> /\ SubSeq(s, 2, 2) = <<s[2]>>
    BY <1>3, <1>5
  <1>7. RemoveAt(s, 2) = SubSeq(s, 1, 1) \o SubSeq(s, 3, 2)
    BY DEF RemoveAt
  <1>8. RemoveAt(s, 1) = SubSeq(s, 1, 0) \o SubSeq(s, 2, 2)
    BY DEF RemoveAt
  <1>9. <<s[1]>> \o <<>> = <<s[1]>> /\ <<>> \o <<s[2]>> = <<s[2]>>
    BY <1>1, <1>4, ConcatEmptySeq
  <1> QED
    BY <1>2, <1>6, <1>7, <1>8, <1>9

(* window_close takes the window out of both lists and out of whatever     *)
(* names it.                                                               *)
LEMMA CloseMain ==
    ASSUME NEW d, Good(d), d.windows = Two
    PROVE  /\ window_close(d, Main).windows = One
           /\ window_close(d, Main).children = One
           /\ window_close(d, Main) \in Desks
           /\ window_close(d, Main).focused # Main
           /\ window_close(d, Main).moving = NoWindow
           /\ window_close(d, Main).pos = d.pos
  <1>0. d \in Desks /\ d.children \in {Two, Under}
    BY DEF Good, Desks
  <1>1. RemoveFirst(Two, Main) = One
    <2> DEFINE I == {i \in 1..Len(Two) : Two[i] = Main}
    <2>1. Two[1] = Cursor /\ Two[2] = Main /\ Len(Two) = 2
      BY DEF Two
    <2>2. I = {2}
      BY <2>1, ListsDiffer
    <2>3. Min(I) = 2
      BY <2>2 DEF Min
    <2>4. RemoveFirst(Two, Main) = RemoveAt(Two, Min(I))
      BY <2>1, <2>2 DEF RemoveFirst, SelectInSeq
    <2>5. RemoveAt(Two, 2) = One
      <3>1. Two \in Seq(Windows)
        BY DEF Two, Windows
      <3> QED
        BY <2>1, <3>1, RemoveOfPair DEF One
    <2> QED
      BY <2>3, <2>4, <2>5
  <1>2. RemoveFirst(Under, Main) = One
    <2> DEFINE I == {i \in 1..Len(Under) : Under[i] = Main}
    <2>1. Under[1] = Main /\ Under[2] = Cursor /\ Len(Under) = 2
      BY DEF Under
    <2>2. I = {1}
      BY <2>1, ListsDiffer
    <2>3. Min(I) = 1
      BY <2>2 DEF Min
    <2>4. RemoveFirst(Under, Main) = RemoveAt(Under, Min(I))
      BY <2>1, <2>2 DEF RemoveFirst, SelectInSeq
    <2>5. RemoveAt(Under, 1) = One
      <3>1. Under \in Seq(Windows)
        BY DEF Under, Windows
      <3> QED
        BY <2>1, <3>1, RemoveOfPair DEF One
    <2> QED
      BY <2>3, <2>4, <2>5
  <1> QED
    BY <1>0, <1>1, <1>2, ListsDiffer DEF window_close, Desks

(* A click on the title bar closes the window, or starts or ends a drag. *)
LEMMA GoodTitleClick ==
    ASSUME NEW d, Good(d), NEW rel
    PROVE  /\ Good(window_title_bar_clicked(d, Main, rel))
           /\ Kept(d, window_title_bar_clicked(d, Main, rel))
  <1>0. d \in Desks
    BY DEF Good
  <1>1. \A a \in Axis : d.pos[Main][a] + MainSize[a] <= Screen[a]
    BY DEF Good, Placed
  <1>2. CASE ~Contains(d.windows, Main)
    BY <1>2 DEF window_title_bar_clicked, Kept
  <1>3. Contains(d.windows, Main) => d.windows = Two
    BY <1>0, ListsDiffer DEF Desks, Contains, One
  <1>4. CASE d.windows = Two /\ window_title_bar_clicked(d, Main, rel) = window_close(d, Main)
    <2> DEFINE e == window_close(d, Main)
    <2>1. /\ e.windows = One /\ e.children = One /\ e \in Desks /\ e.focused # Main
          /\ e.moving = NoWindow /\ e.pos = d.pos
      BY <1>4, CloseMain
    <2> HIDE DEF e
    <2>2. Sorted(e.children, e.z)
      BY <2>1 DEF Sorted, One
    <2>3. Placed(e)
      BY <1>1, <2>1 DEF Good, Placed
    <2>4. Good(e)
      BY <2>1, <2>2, <2>3, ListsDiffer DEF Good
    <2>5. Kept(d, e)
      BY <1>4, <2>1 DEF Kept
    <2> QED
      BY <1>4, <2>4, <2>5 DEF e
  <1>5. CASE /\ d.windows = Two
             /\ window_title_bar_clicked(d, Main, rel) =
                    [d EXCEPT !.moving = IF @ = Main THEN NoWindow ELSE Main]
    <2> DEFINE e == [d EXCEPT !.moving = IF @ = Main THEN NoWindow ELSE Main]
    <2>1. /\ e \in Desks /\ e.windows = d.windows /\ e.children = d.children /\ e.z = d.z
          /\ e.pos = d.pos /\ e.focused = d.focused
      BY <1>0 DEF Desks
    <2> HIDE DEF e
    <2>2. Placed(e)
      BY <1>1, <2>1 DEF Good, Placed
    <2>3. Good(e)
      BY <1>5, <2>1, <2>2 DEF Good
    <2>4. Kept(d, e)
      BY <2>1 DEF Kept
    <2> QED
      BY <1>5, <2>3, <2>4 DEF e
  <1> QED
    BY <1>2, <1>3, <1>4, <1>5 DEF window_title_bar_clicked

(* A click that reaches a title bar reaches the main window's. *)
LEMMA GoodGraphicsClick ==
    ASSUME NEW d, Good(d), NEW p, PointOnScreen(p)
    PROVE  /\ Good(graphics_mouse_click_handler(d, p))
           /\ Kept(d, graphics_mouse_click_handler(d, p))
  <1> DEFINE hits == Hits(d, d.children, p)
             w == RootAt(d, p)
             rel == [a \in Axis |-> p[a] - TitlePos(d, w)[a]]
             reached == w \in d.titled /\ Inside(p, TitlePos(d, w), TitleSize)
  <1>0. d.children \in {<<>>, One, Two, Under} /\ d.titled \subseteq {Main}
    BY DEF Good, Desks
  <1>1. w \in d.titled => w = Main
    <2>1. CASE hits = {}
      <3>1. w = NoWindow
        BY <2>1 DEF RootAt
      <3> QED
        BY <1>0, <3>1, ListsDiffer
    <2>2. CASE hits # {}
      <3>1. hits \subseteq {1, 2}
        BY <1>0, HitIsMain
      <3>2. Max(hits) \in hits
        BY <2>2, <3>1, PlaceFound
      <3>3. w = d.children[Max(hits)]
        BY <2>2 DEF RootAt
      <3> QED
        BY <1>0, <3>2, <3>3, HitIsMain
    <2> QED
      BY <2>1, <2>2
  <1>2. graphics_mouse_click_handler(d, p) =
            IF reached THEN window_title_bar_clicked(d, w, rel) ELSE d
    BY DEF graphics_mouse_click_handler
  <1> HIDE DEF w, rel
  <1>3. CASE reached
    BY <1>1, <1>2, <1>3, GoodTitleClick
  <1>4. CASE ~reached
    BY <1>2, <1>4 DEF Kept
  <1> QED
    BY <1>3, <1>4

(* Where window_position_set puts a window, whatever the request: wholly   *)
(* on the screen.                                                          *)
LEMMA GoodMove ==
    ASSUME NEW d, Good(d), NEW p, PointOnScreen(p)
    PROVE  /\ Good(window_screen_mouse_move_handler(d, p))
           /\ Kept(d, window_screen_mouse_move_handler(d, p))
  <1>0. d \in Desks
    BY DEF Good
  <1>1. CASE d.moving = NoWindow
    BY <1>1 DEF window_screen_mouse_move_handler, Kept
  <1>2. CASE d.moving # NoWindow
    <2>1. d.moving = Main
      BY <1>0, <1>2 DEF Desks
    <2> DEFINE q == [a \in Axis |-> (p[a] - TitleSize[a] \div 2) % Word]
               kept == [a \in Axis |-> IF q[a] + BodySize(Main)[a] > Screen[a]
                                       THEN Screen[a] - BodySize(Main)[a] - 1
                                       ELSE q[a]]
               e == [d EXCEPT !.pos = [@ EXCEPT ![Main] = kept]]
    <2>2. window_screen_mouse_move_handler(d, p) = e
      BY <1>2, <2>1 DEF window_screen_mouse_move_handler, window_position_set
    <2>3. BodySize(Main) = MainSize
      BY ListsDiffer DEF BodySize
    <2>4. ASSUME NEW a \in Axis
          PROVE  kept[a] \in Nat /\ kept[a] + MainSize[a] <= Screen[a]
      <3>1. TitleSize[a] \in Nat /\ p[a] \in Nat
        BY AxisFacts, DesktopAssumption DEF TitleSize, PointOnScreen, Point
      <3>2. p[a] - TitleSize[a] \div 2 \in Int
        BY <3>1
      <3>3. Word \in Nat \ {0}
        BY AxisFacts
      <3>4. q[a] \in Nat
        <4>1. (p[a] - TitleSize[a] \div 2) % Word \in 0 .. Word - 1
          BY <3>2, <3>3, ModRange
        <4> QED
          BY <3>3, <4>1
      <3> HIDE DEF q
      <3>5. kept[a] = IF q[a] + MainSize[a] > Screen[a] THEN Screen[a] - MainSize[a] - 1 ELSE q[a]
        BY <2>3
      <3> HIDE DEF kept
      <3> QED
        BY <3>4, <3>5, AxisFacts
    <2>5. kept \in Point
      BY <2>4 DEF Point
    <2> HIDE DEF q, kept
    <2>6. /\ e \in Desks /\ e.windows = d.windows /\ e.children = d.children /\ e.z = d.z
          /\ e.focused = d.focused /\ e.moving = d.moving
          /\ e.pos[Main] = kept /\ e.pos[Cursor] = d.pos[Cursor]
      BY <1>0, <2>5, ListsDiffer DEF Desks, Windows
    <2> HIDE DEF e
    <2>7. Good(e)
      BY <2>1, <2>4, <2>6 DEF Good, Placed
    <2>8. Kept(d, e)
      BY <2>6 DEF Kept
    <2> QED
      BY <2>2, <2>7, <2>8
  <1> QED
    BY <1>1, <1>2

(* All click handlers in turn leave a good desk good. *)
LEMMA GoodClicks ==
    ASSUME NEW d, Good(d), NEW p, PointOnScreen(p)
    PROVE  Good(mouse_click(d, p)) /\ Kept(d, mouse_click(d, p))
  <1> DEFINE Call(e, i) == IF i > Len(clickHandlers) THEN e
                           ELSE IF clickHandlers[i] = "window" THEN window_click_handler(e, p)
                           ELSE graphics_mouse_click_handler(e, p)
  <1>1. ASSUME NEW e, Good(e), NEW i
        PROVE  Good(Call(e, i)) /\ Kept(e, Call(e, i))
    <2>1. Kept(e, e)
      BY DEF Kept
    <2>2. Good(window_click_handler(e, p)) /\ Kept(e, window_click_handler(e, p))
      BY <1>1, GoodWindowClick
    <2>3. /\ Good(graphics_mouse_click_handler(e, p))
          /\ Kept(e, graphics_mouse_click_handler(e, p))
      BY <1>1, GoodGraphicsClick
    <2> QED
      BY <1>1, <2>1, <2>2, <2>3
  <1>2. mouse_click(d, p) = Call(Call(d, 1), 2)
    BY DEF mouse_click
  <1> HIDE DEF Call
  <1> QED
    BY <1>1, <1>2, KeptTwice

(* All move handlers in turn leave a good desk good. *)
LEMMA GoodMoves ==
    ASSUME NEW d, Good(d), NEW p, PointOnScreen(p)
    PROVE  Good(mouse_moved(d, p)) /\ Kept(d, mouse_moved(d, p))
  <1> DEFINE Call(e, i) == IF i > Len(moveHandlers) THEN e
                           ELSE IF moveHandlers[i] = "window"
                                THEN window_screen_mouse_move_handler(e, p)
                           ELSE graphics_mouse_move_handler(e, p)
  <1>1. ASSUME NEW e, Good(e), NEW i
        PROVE  Good(Call(e, i)) /\ Kept(e, Call(e, i))
    <2>1. Kept(e, e)
      BY DEF Kept
    <2>2. /\ Good(window_screen_mouse_move_handler(e, p))
          /\ Kept(e, window_screen_mouse_move_handler(e, p))
      BY <1>1, GoodMove
    <2> QED
      BY <1>1, <2>1, <2>2 DEF graphics_mouse_move_handler
  <1>2. mouse_moved(d, p) = Call(Call(d, 1), 2)
    BY DEF mouse_moved
  <1> HIDE DEF Call
  <1> QED
    BY <1>1, <1>2, KeptTwice

-----------------------------------------------------------------------------
(* The mouse interrupt.                                                    *)

(* A complete buffer gives a movement along both axes. *)
LEMMA ReportDelta ==
    ASSUME NEW bytes \in Seq(Byte), Len(bytes) >= 3
    PROVE  Report(bytes).delta \in [Axis -> Int]
  <1>1. bytes[2] \in Int /\ bytes[3] \in Int
    <2>1. bytes[2] \in Byte /\ bytes[3] \in Byte
      OBVIOUS
    <2>2. Byte \subseteq Int
      BY DEF Byte
    <2> QED
      BY <2>1, <2>2
  <1>2. \A v \in Int : Int8(v) \in Int
    BY DEF Int8
  <1>3. Int8(bytes[2]) \in Int /\ Int8(-Int8(bytes[3])) \in Int
    <2>1. Int8(bytes[2]) \in Int /\ Int8(bytes[3]) \in Int
      BY <1>1, <1>2
    <2>2. \A v \in Int : -v \in Int
      OBVIOUS
    <2>3. -Int8(bytes[3]) \in Int
      BY <2>1, <2>2
    <2> QED
      BY <1>2, <2>1, <2>3
  <1> QED
    BY <1>3 DEF Report

(* The pointer stays where all of the cursor is on the screen. *)
LEMMA MovedFits ==
    ASSUME coords \in Point, NEW delta \in [Axis -> Int]
    PROVE  /\ PointOnScreen(Moved(delta))
           /\ \A a \in Axis : Moved(delta)[a] + CursorSize[a] <= Screen[a]
  <1>1. ASSUME NEW a \in Axis
        PROVE  /\ Moved(delta)[a] \in Nat /\ Moved(delta)[a] + CursorSize[a] <= Screen[a]
               /\ Moved(delta)[a] <= Screen[a]
    <2>1. coords[a] + delta[a] \in Int
      BY DEF Point
    <2> DEFINE r == coords[a] + delta[a]
               limit == Screen[a] - CursorSize[a]
    <2>2. Moved(delta)[a] = IF r < 0 THEN 0 ELSE IF r > limit THEN limit ELSE r
      BY DEF Moved
    <2>3. limit \in Nat
      BY AxisFacts
    <2> HIDE DEF r
    <2>4. r \in Int
      BY <2>1 DEF r
    <2> QED
      BY <2>2, <2>3, <2>4, AxisFacts
  <1>2. Moved(delta) \in Point
    <2>1. Moved(delta) = [a \in Axis |-> Moved(delta)[a]]
      BY DEF Moved
    <2> QED
      BY <1>1, <2>1 DEF Point
  <1> QED
    BY <1>1, <1>2 DEF PointOnScreen

(* window_position_set puts the cursor exactly where the mouse is. *)
LEMMA CursorPlaced ==
    ASSUME NEW d, Good(d), NEW p, PointOnScreen(p),
           \A a \in Axis : p[a] + CursorSize[a] <= Screen[a]
    PROVE  /\ Good(window_position_set(d, Cursor, p))
           /\ window_position_set(d, Cursor, p).windows = d.windows
           /\ window_position_set(d, Cursor, p).children = d.children
           /\ window_position_set(d, Cursor, p).focused = d.focused
           /\ window_position_set(d, Cursor, p).pos[Cursor] = p
  <1> DEFINE kept == [a \in Axis |-> IF p[a] + BodySize(Cursor)[a] > Screen[a]
                                     THEN Screen[a] - BodySize(Cursor)[a] - 1
                                     ELSE p[a]]
             e == [d EXCEPT !.pos = [@ EXCEPT ![Cursor] = p]]
  <1>0. d \in Desks /\ p \in Point
    BY DEF Good, PointOnScreen
  <1>1. ASSUME NEW a \in Axis
        PROVE  kept[a] = p[a]
    <2>1. p[a] \in Nat /\ Screen[a] \in Nat /\ CursorSize[a] \in Nat
      BY <1>0, AxisFacts DEF Point
    <2>2. ~(p[a] + CursorSize[a] > Screen[a])
      BY <2>1
    <2> QED
      BY <2>2 DEF BodySize
  <1>2. kept = p
    BY <1>0, <1>1 DEF Point
  <1>3. window_position_set(d, Cursor, p) = [d EXCEPT !.pos = [@ EXCEPT ![Cursor] = kept]]
    BY DEF window_position_set
  <1> HIDE DEF kept
  <1>4. window_position_set(d, Cursor, p) = e
    BY <1>2, <1>3
  <1>5. /\ e \in Desks /\ e.windows = d.windows /\ e.children = d.children /\ e.z = d.z
        /\ e.focused = d.focused /\ e.moving = d.moving
        /\ e.pos[Main] = d.pos[Main] /\ e.pos[Cursor] = p
    BY <1>0, ListsDiffer DEF Desks, Windows
  <1> HIDE DEF e
  <1>6. Good(e)
    BY <1>5 DEF Good, Placed
  <1> QED
    BY <1>4, <1>5, <1>6

(* A mouse interrupt, complete packet or not, keeps the invariant. *)
LEMMA DeskInterrupt ==
    ASSUME DeskInv, PacketInv, MouseInterrupt
    PROVE  DeskInv'
  <1> DEFINE b == Head(line)
  <1>0. /\ pc # "mouse_register" /\ pc' = pc /\ stray' = stray
        /\ Phase /\ coords \in Point /\ Good(desk) /\ CursorAtMouse
    BY DEF MouseInterrupt, DeskInv
  <1>1. CASE ~Completes(b)
    <2>1. desk' = desk /\ coords' = coords
      BY <1>1 DEF MouseInterrupt
    <2> QED
      BY <1>0, <2>1 DEF DeskInv, Phase, CursorAtMouse
  <1>2. CASE Completes(b)
    <2> DEFINE r == Report(WithByte(b))
               p == Moved(r.delta)
               placed == window_position_set(desk, Cursor, p)
               clicked == IF r.clicked THEN mouse_click(placed, p) ELSE placed
               last == IF \E a \in Axis : r.delta[a] # 0 THEN mouse_moved(clicked, p) ELSE clicked
    <2>1. Handle(r)
      BY <1>2 DEF MouseInterrupt
    <2>2. coords' = p /\ desk' = last
      BY <2>1 DEF Handle
    <2>3. b \in Byte
      BY DEF MouseInterrupt, Receive, PacketInv, PacketTypes
    <2>4. WithByte(b) \in Seq(Byte) /\ Len(WithByte(b)) >= 3
      <3>1. WithByte(b) \in Seq(Byte) /\ Len(WithByte(b)) = size
        BY <1>2, <2>3, WithByteFacts DEF PacketInv
      <3> QED
        BY <3>1 DEF PacketInv, PacketTypes
    <2>5. r.delta \in [Axis -> Int]
      BY <2>4, ReportDelta
    <2> HIDE DEF r
    <2>6. PointOnScreen(p) /\ \A a \in Axis : p[a] + CursorSize[a] <= Screen[a]
      BY <1>0, <2>5, MovedFits
    <2> HIDE DEF p
    <2>7. /\ Good(placed) /\ placed.windows = desk.windows
          /\ placed.children = desk.children /\ placed.pos[Cursor] = p
          /\ placed.focused = desk.focused
      BY <1>0, <2>6, CursorPlaced
    <2> HIDE DEF placed
    <2>8. Good(clicked) /\ Kept(placed, clicked)
      <3>1. Kept(placed, placed)
        BY DEF Kept
      <3> QED
        BY <2>6, <2>7, <3>1, GoodClicks
    <2> HIDE DEF clicked
    <2>9. Good(last) /\ Kept(placed, last)
      <3>1. Good(mouse_moved(clicked, p)) /\ Kept(clicked, mouse_moved(clicked, p))
        BY <2>6, <2>8, GoodMoves
      <3> QED
        BY <2>8, <3>1, KeptTwice
    <2> HIDE DEF last
    <2>10. Phase'
      BY <1>0, <2>2, <2>7, <2>9, ListsDiffer DEF Phase, Kept
    <2>11. CursorAtMouse'
      BY <2>2, <2>6, <2>7, <2>9 DEF CursorAtMouse, Kept
    <2> QED
      BY <1>0, <2>2, <2>6, <2>9, <2>10, <2>11 DEF DeskInv, PointOnScreen
  <1> QED
    BY <1>1, <1>2

-----------------------------------------------------------------------------
(* kernel_main.                                                            *)

(* mouse_register leaves the cursor alone on the desk, in the middle of    *)
(* the screen.                                                             *)
LEMMA DeskRegister ==
    ASSUME DeskInv, mouse_register
    PROVE  DeskInv'
  <1> DEFINE middle == [a \in Axis |-> Screen[a] \div 2]
             placed == [EmptyDesk EXCEPT !.children = Append(@, Cursor),
                                         !.pos = [@ EXCEPT ![Cursor] = middle]]
             root == window_set_z_index(placed, Cursor, Len(placed.children))
             listed == [root EXCEPT !.windows = <<Cursor>>]
             made == window_set_z_index(listed, Cursor, FirstZ(Cursor))
             focus == window_focus(made, Cursor)
             last == window_set_z_index(focus, Cursor, CursorZ)
  <1>0. /\ pc' = "handlers" /\ stray' = stray /\ stray = FALSE
        /\ coords' = middle /\ desk' = last
    <2>1. ~stray
      BY DEF DeskInv, mouse_register
    <2>2. stray = FALSE
      BY <2>1 DEF DeskInv, Phase
    <2>3. root = CreateRoot(EmptyDesk, Cursor, middle)
      BY DEF CreateRoot
    <2> QED
      BY <2>2, <2>3 DEF mouse_register
  <1>1. /\ middle \in Point /\ \A a \in Axis : middle[a] + CursorSize[a] <= Screen[a]
    <2>1. \A a \in Axis : Screen[a] \div 2 \in Nat
      BY AxisFacts
    <2> QED
      BY <2>1, AxisFacts DEF Point
  <1> HIDE DEF middle
  <1>2. /\ placed \in Desks /\ placed.children = One /\ placed.windows = <<>>
        /\ placed.pos[Cursor] = middle /\ placed.focused = NoWindow
        /\ placed.moving = NoWindow /\ placed.pos[Main] = [a \in Axis |-> 0]
    <2>1. Append(<<>>, Cursor) = One
      BY DEF One
    <2>2. /\ [w \in Windows |-> [a \in Axis |-> 0]] \in [Windows -> Point]
          /\ [w \in Windows |-> 0] \in [Windows -> Nat]
      BY DEF Point
    <2> QED
      BY <1>1, <2>1, <2>2, ListsDiffer DEF EmptyDesk, Desks, Windows
  <1> HIDE DEF placed
  <1>c. Cursor \in Windows /\ Len(placed.children) \in Nat
    BY <1>2 DEF Windows, One
  <1>3. /\ root \in Desks /\ root.children = One /\ root.windows = <<>>
        /\ root.pos = placed.pos /\ root.focused = NoWindow /\ root.moving = NoWindow
        /\ Sorted(root.children, root.z)
    <2> DEFINE k == Len(placed.children)
    <2>0. k \in Nat /\ root = window_set_z_index(placed, Cursor, k)
      BY <1>c
    <2> HIDE DEF k, root
    <2>1. PICK z \in [Windows -> Nat], c \in {One, Two, Under} :
               /\ window_set_z_index(placed, Cursor, k) = [placed EXCEPT !.z = z, !.children = c]
               /\ c = One <=> placed.children = One
               /\ Sorted(c, z)
      <3>1. placed \in Desks /\ Cursor \in Windows /\ k \in Nat
        BY <1>2, <1>c, <2>0
      <3> QED
        BY <3>1, SetZ
    <2> QED
      BY <1>2, <2>0, <2>1 DEF Desks
  <1> HIDE DEF root
  <1>4. Good(listed) /\ listed.windows = One /\ listed.children = One
        /\ listed.pos = placed.pos /\ listed.focused = NoWindow
    <2>1. /\ listed \in Desks /\ listed.windows = One /\ listed.children = One
          /\ listed.pos = placed.pos /\ listed.focused = NoWindow
          /\ listed.moving = NoWindow /\ listed.z = root.z
      BY <1>3 DEF Desks, One
    <2> HIDE DEF listed
    <2>2. Placed(listed)
      <3> SUFFICES ASSUME NEW a \in Axis
                   PROVE  listed.pos[Main][a] + MainSize[a] <= Screen[a]
        BY DEF Placed
      <3>1. listed.pos[Main][a] = 0
        BY <1>2, <2>1
      <3>2. MainSize[a] \in Nat /\ MainSize[a] <= Screen[a]
        BY AxisFacts
      <3> QED
        BY <3>1, <3>2
    <2> QED
      BY <1>3, <2>1, <2>2, ListsDiffer DEF Good
  <1> HIDE DEF listed
  <1>5. Good(made) /\ Kept(listed, made)
    BY <1>4, <1>c, GoodSetZ DEF FirstZ
  <1> HIDE DEF made
  <1>6. Good(focus) /\ Kept(made, focus)
    BY <1>5, <1>c, GoodFocus, ListsDiffer
  <1> HIDE DEF focus
  <1>7. Good(last) /\ Kept(focus, last)
    <2>1. CursorZ \in Nat
      BY DesktopAssumption
    <2> QED
      BY <1>6, <1>c, <2>1, GoodSetZ
  <1> HIDE DEF last
  <1>8. /\ last.windows = One /\ last.children = One /\ last.pos[Cursor] = middle
        /\ last.focused # Main
    BY <1>2, <1>4, <1>5, <1>6, <1>7, ListsDiffer DEF Kept
  <1>9. Phase'
    BY <1>0, <1>8 DEF Phase
  <1>10. CursorAtMouse'
    BY <1>0, <1>1, <1>8 DEF CursorAtMouse
  <1> QED
    BY <1>0, <1>1, <1>7, <1>9, <1>10 DEF DeskInv

(* The main window is in windows_vector exactly when both are. *)
LEMMA MainListed ==
    ASSUME NEW d, Good(d)
    PROVE  Contains(d.windows, Main) <=> d.windows = Two
  <1>1. d.windows \in {One, Two}
    BY DEF Good, Desks
  <1>2. ~Contains(One, Main)
    BY ListsDiffer DEF Contains, One
  <1>3. Contains(Two, Main)
    <2>1. Two[2] = Main /\ 2 \in 1..Len(Two)
      BY DEF Two
    <2> QED
      BY <2>1 DEF Contains
  <1> QED
    BY <1>1, <1>2, <1>3, ListsDiffer

(* What holds of the desk and the mouse once the mouse is registered. *)
LEMMA AfterRegister ==
    ASSUME DeskInv, pc # "mouse_register"
    PROVE  /\ Phase /\ coords \in Point /\ Good(desk) /\ CursorAtMouse
           /\ desk \in Desks /\ desk.windows \in {One, Two}
  BY DEF DeskInv, Good, Desks

(* The cursor comes first in either list, the main window is appended. *)
LEMMA MainAppended == Append(One, Main) = Two
  <1>1. One \in Seq(Windows) /\ Two \in Seq(Windows) /\ Main \in Windows
    BY DEF One, Two, Windows
  <1>2. Len(One) = 1 /\ One[1] = Cursor /\ Len(Two) = 2 /\ Two[1] = Cursor /\ Two[2] = Main
    BY DEF One, Two
  <1>3. /\ Append(One, Main) \in Seq(Windows) /\ Len(Append(One, Main)) = 2
        /\ Append(One, Main)[1] = Cursor /\ Append(One, Main)[2] = Main
    <2>1. Append(One, Main) \in Seq(Windows) /\ Len(Append(One, Main)) = Len(One) + 1
      BY <1>1, AppendProperties
    <2>2. \A i \in 1..Len(One) : Append(One, Main)[i] = One[i]
      BY <1>1, AppendProperties
    <2>3. Append(One, Main)[Len(One) + 1] = Main
      BY <1>1, AppendProperties
    <2> QED
      BY <1>2, <2>1, <2>2, <2>3
  <1>4. \A i \in 1..2 : Append(One, Main)[i] = Two[i]
    BY <1>2, <1>3
  <1> QED
    BY <1>1, <1>2, <1>3, <1>4, SeqEqual

(* A step of kernel_main that leaves the mouse alone. *)
LEMMA DeskGoto ==
    ASSUME DeskInv, pc # "mouse_register", pc' # "mouse_register",
           coords' = coords,
           Good(desk'), desk'.pos[Cursor] = desk.pos[Cursor], Phase'
    PROVE  DeskInv'
  <1>1. CursorAtMouse'
    BY AfterRegister DEF CursorAtMouse
  <1> QED
    BY <1>1, AfterRegister DEF DeskInv

(* The root graphics of the main window enters the screen's children. *)
LEMMA DeskCreateRoot ==
    ASSUME DeskInv, CreateMainRoot
    PROVE  DeskInv'
  <1>0. /\ pc = "root" /\ coords' = coords /\ stray' = stray
        /\ Phase /\ Good(desk) /\ desk \in Desks
        /\ desk.children = One /\ desk.windows = One
    <2>1. pc = "root" /\ coords' = coords /\ stray' = stray
      BY DEF CreateMainRoot, Goto
    <2> QED
      BY <2>1, AfterRegister DEF Phase
  <1>1. CASE desk' = desk /\ pc' = "done"
    <2>1. Phase'
      BY <1>0, <1>1 DEF Phase
    <2> QED
      BY <1>0, <1>1, <2>1, DeskGoto
  <1>2. CASE ~OutOfBounds(Main, MainPos) /\ desk' = CreateRoot(desk, Main, MainPos) /\ pc' = "title"
    <2> DEFINE placed == [desk EXCEPT !.children = Append(@, Main),
                                      !.pos = [@ EXCEPT ![Main] = MainPos]]
               k == Len(placed.children)
    <2>1. desk' = window_set_z_index(placed, Main, k)
      BY <1>2 DEF CreateRoot
    <2>3. /\ placed \in Desks /\ placed.children = Two /\ placed.windows = One
          /\ placed.pos[Main] = MainPos /\ placed.pos[Cursor] = desk.pos[Cursor]
          /\ placed.focused = desk.focused /\ placed.moving = desk.moving
      <3>1. MainPos \in Point
        BY DesktopAssumption DEF Point
      <3> QED
        BY <1>0, <3>1, MainAppended, ListsDiffer DEF Desks, Windows
    <2>4. k \in Nat /\ Main \in Windows
      BY <2>3 DEF Two, Windows
    <2> HIDE DEF placed, k
    <2>5. PICK z \in [Windows -> Nat], c \in {One, Two, Under} :
               /\ window_set_z_index(placed, Main, k) = [placed EXCEPT !.z = z, !.children = c]
               /\ c = One <=> placed.children = One
               /\ Sorted(c, z)
      <3>1. placed \in Desks /\ Main \in Windows /\ k \in Nat
        BY <2>3, <2>4
      <3> QED
        BY <3>1, SetZ
    <2>6. /\ desk' \in Desks /\ desk'.windows = One /\ desk'.children = c /\ desk'.z = z
          /\ desk'.pos = placed.pos /\ desk'.focused = desk.focused
          /\ desk'.moving = desk.moving
      BY <2>1, <2>3, <2>5 DEF Desks
    <2>7. Placed(desk')
      <3> SUFFICES ASSUME NEW a \in Axis
                   PROVE  MainPos[a] + MainSize[a] <= Screen[a]
        BY <2>3, <2>6 DEF Placed
      <3>1. RootSize(Main)[a] \in Nat /\ RootSize(Main)[a] >= MainSize[a]
        <4>1. RootSize(Main)[a] = IF a = "x" THEN MainSize[a] + 2 * Border
                                             ELSE MainSize[a] + TitleHeight + Border
          BY ListsDiffer DEF RootSize
        <4>2. Border \in Nat /\ TitleHeight \in Nat /\ MainSize[a] \in Nat
          BY AxisFacts, DesktopAssumption
        <4> QED
          BY <4>1, <4>2
      <3> QED
        BY <1>2, <3>1, AxisFacts DEF OutOfBounds
    <2>8. Good(desk')
      BY <1>0, <2>5, <2>6, <2>7, ListsDiffer DEF Good
    <2>9. Phase'
      BY <1>0, <1>2, <2>3, <2>5, <2>6, ListsDiffer DEF Phase
    <2> QED
      BY <1>0, <1>2, <2>3, <2>6, <2>8, <2>9, DeskGoto
  <1> QED
    BY <1>1, <1>2 DEF CreateMainRoot, Goto

(* The title bar gets its handlers. *)
LEMMA DeskParts ==
    ASSUME DeskInv, CreateMainParts
    PROVE  DeskInv'
  <1> DEFINE titled == [desk EXCEPT !.titled = @ \cup {Main}]
  <1>0. /\ pc = "title" /\ coords' = coords /\ stray' = stray /\ pc' \in {"push", "done"}
        /\ desk' \in {desk, titled}
    BY DEF CreateMainParts, Goto
  <1>1. /\ Phase /\ Good(desk) /\ desk \in Desks
        /\ desk.children # One /\ desk.windows = One
    BY <1>0, AfterRegister DEF Phase
  <1>2. /\ titled \in Desks /\ titled.windows = desk.windows /\ titled.children = desk.children
        /\ titled.z = desk.z /\ titled.pos = desk.pos /\ titled.focused = desk.focused
        /\ titled.moving = desk.moving
    BY <1>1 DEF Desks
  <1> HIDE DEF titled
  <1>3. Good(titled)
    BY <1>1, <1>2 DEF Good, Placed
  <1>4. Phase'
    BY <1>0, <1>1, <1>2 DEF Phase
  <1> QED
    BY <1>0, <1>1, <1>2, <1>3, <1>4, DeskGoto

(* The main window enters windows_vector. *)
LEMMA DeskPush ==
    ASSUME DeskInv, PushMain
    PROVE  DeskInv'
  <1>0. /\ pc = "push" /\ coords' = coords /\ stray' = stray /\ pc' = "z"
        /\ desk' = [desk EXCEPT !.windows = Append(@, Main)]
    BY DEF PushMain, Goto
  <1>1. /\ Phase /\ Good(desk) /\ desk \in Desks
        /\ desk.children # One /\ desk.windows = One
    BY <1>0, AfterRegister DEF Phase
  <1>3. /\ desk' \in Desks /\ desk'.windows = Two /\ desk'.children = desk.children
        /\ desk'.z = desk.z /\ desk'.pos = desk.pos /\ desk'.focused = desk.focused
        /\ desk'.moving = desk.moving
    BY <1>0, <1>1, MainAppended DEF Desks
  <1>4. Good(desk')
    BY <1>1, <1>3, ListsDiffer DEF Good, Placed
  <1>5. Phase'
    BY <1>0, <1>1, <1>3, ListsDiffer DEF Phase
  <1> QED
    BY <1>0, <1>1, <1>3, <1>4, <1>5, DeskGoto

(* The rest of window_create and the first print, whether or not the       *)
(* window is still listed: its first z-index, the focus, the place on top. *)
LEMMA DeskFinish ==
    ASSUME DeskInv, SetFirstZ \/ SetFocus \/ BringToTop \/ PrintHello
    PROVE  DeskInv'
  <1>0. /\ pc \in {"z", "focus", "top", "print"}
        /\ pc' \in {"focus", "top", "print", "done"}
        /\ coords' = coords /\ stray' = (stray \/ ~Contains(desk.windows, Main))
    BY DEF SetFirstZ, SetFocus, BringToTop, PrintHello, GoOn
  <1>1. /\ Phase /\ Good(desk) /\ desk.windows \in {One, Two}
        /\ Contains(desk.windows, Main) <=> desk.windows = Two
    BY <1>0, AfterRegister, MainListed
  <1>2. Main \in Windows /\ FirstZ(Main) \in Nat
    BY DEF Windows, FirstZ
  <1>3. /\ Good(desk') /\ desk'.pos[Cursor] = desk.pos[Cursor]
        /\ desk'.windows = desk.windows /\ (desk'.children = One <=> desk.children = One)
    <2>1. CASE SetFirstZ
      <3>1. desk' = window_set_z_index(desk, Main, FirstZ(Main))
        BY <2>1 DEF SetFirstZ
      <3> QED
        BY <1>1, <1>2, <3>1, GoodSetZ DEF SameLists
    <2>2. CASE SetFocus
      <3>1. desk' = [desk EXCEPT !.focused = Main]
        BY <2>2 DEF SetFocus
      <3> QED
        BY <1>1, <1>2, <3>1, GoodFocused DEF SameLists
    <2>3. CASE BringToTop
      <3>1. desk' = window_bring_to_top(desk, Main)
        BY <2>3 DEF BringToTop
      <3> QED
        BY <1>1, <1>2, <3>1, GoodBringToTop DEF SameLists
    <2>4. CASE PrintHello
      BY <1>1, <2>4 DEF PrintHello
    <2> QED
      BY <2>1, <2>2, <2>3, <2>4
  <1>4. stray' \in BOOLEAN /\ (stray' \/ desk.windows = Two) /\ (stray' => desk.windows = One)
    BY <1>0, <1>1, ListsDiffer DEF Phase
  <1>5. Phase'
    BY <1>0, <1>1, <1>3, <1>4, ListsDiffer DEF Phase
  <1> QED
    BY <1>0, <1>3, <1>5, DeskGoto

(* The handlers are registered while the cursor is alone. *)
LEMMA DeskHandlers ==
    ASSUME DeskInv, RegisterHandlers
    PROVE  DeskInv'
  <1>0. /\ pc = "handlers" /\ pc' \in {"handlers", "root"} /\ stray' = stray
        /\ coords' = coords /\ desk' = desk
    BY DEF RegisterHandlers
  <1>1. Phase /\ Good(desk)
    BY <1>0, AfterRegister
  <1>2. Phase'
    BY <1>0, <1>1 DEF Phase
  <1> QED
    BY <1>0, <1>1, <1>2, DeskGoto

(* Every step keeps the invariant of the desk. *)
LEMMA DeskStep ==
    ASSUME DeskInv, PacketInv, [Next]_vars
    PROVE  DeskInv'
  <1>1. CASE UNCHANGED <<desk, coords, pc, stray>>
    BY <1>1 DEF DeskInv, Phase, CursorAtMouse
  <1>2. CASE UNCHANGED vars \/ Device
    BY <1>1, <1>2 DEF vars, Device
  <1>3. CASE Next /\ ~Device
    BY <1>3, DeskRegister, DeskHandlers, DeskCreateRoot, DeskParts, DeskPush, DeskFinish,
       DeskInterrupt DEF Next
  <1> QED
    BY <1>2, <1>3

(* The desk before mouse_register. *)
LEMMA DeskInit == Init => DeskInv
  <1> SUFFICES ASSUME Init PROVE DeskInv
    OBVIOUS
  <1>1. pc = "mouse_register" /\ desk = EmptyDesk /\ coords = [a \in Axis |-> 0]
    BY DEF Init
  <1>2. stray = FALSE
    BY DEF Init
  <1>3. coords \in Point
    BY <1>1 DEF Point
  <1>4. Phase
    BY <1>1, <1>2, ListsDiffer DEF Phase, EmptyDesk
  <1> QED
    BY <1>1, <1>2, <1>3, <1>4 DEF DeskInv, CursorAtMouse

(* The invariant of the whole desktop, for every screen, window, cursor    *)
(* and movement, with mouse interrupts between any two steps of            *)
(* kernel_main: windows_vector, the screen's children and window_moving    *)
(* agree at every step of window_create, focused_window too until          *)
(* window_create focuses a window that a click has closed, and every       *)
(* window is on the screen.                                                *)
THEOREM DesktopInvariant == Spec => [](PacketInv /\ DeskInv)
  <1>1. Init => PacketInv /\ DeskInv
    BY PacketInit, DeskInit DEF Init
  <1>2. PacketInv /\ DeskInv /\ [Next]_vars => PacketInv' /\ DeskInv'
    BY PacketStep, DeskStep
  <1> QED
    BY <1>1, <1>2, PTL DEF Spec

(* The cursor's window is where the mouse is and all of it is on the       *)
(* screen: the clamps of ps2_mouse_handle_interrupt and of                 *)
(* window_position_set agree for every screen and cursor.                  *)
THEOREM DesktopCursor == Spec => []CursorAtMouse
  <1>1. PacketInv /\ DeskInv => CursorAtMouse
    BY DEF DeskInv
  <1> QED
    BY <1>1, DesktopInvariant, PTL

(* window_moving names a window of windows_vector, and so does             *)
(* focused_window unless window_create focused the main window after a     *)
(* click had closed it (window_focus): no handler leaves either behind,    *)
(* wherever the click that closes the window comes.                        *)
THEOREM DesktopNoDangling == Spec => []NoDangling
  <1>1. DeskInv => NoDangling
    <2> SUFFICES ASSUME DeskInv PROVE NoDangling
      OBVIOUS
    <2>1. CASE pc = "mouse_register"
      BY <2>1 DEF DeskInv, EmptyDesk, NoDangling
    <2>2. CASE pc # "mouse_register"
      <3>1. Good(desk) /\ desk \in Desks /\ desk.windows \in {One, Two}
        BY <2>2, AfterRegister
      <3>2. /\ Cursor \in ToSet(One) /\ Cursor \in ToSet(Two) /\ Main \in ToSet(Two)
        BY DEF ToSet, One, Two
      <3> QED
        BY <2>2, <3>1, <3>2, AfterRegister DEF Good, Desks, Phase, NoDangling
    <2> QED
      BY <2>1, <2>2
  <1> QED
    BY <1>1, DesktopInvariant, PTL

(* Every window has all of its body on the screen, although the            *)
(* subtraction of window_screen_mouse_move_handler wraps around: the sum   *)
(* that window_position_set compares does not.                             *)
THEOREM DesktopOnScreen == Spec => []OnScreen
  <1>1. DeskInv => OnScreen
    <2> SUFFICES ASSUME DeskInv, NEW w \in ToSet(desk.windows), NEW a \in Axis
                 PROVE  desk.pos[w][a] + BodySize(w)[a] <= Screen[a]
      BY DEF OnScreen
    <2>1. pc # "mouse_register"
      BY DEF DeskInv, EmptyDesk, ToSet
    <2>2. Good(desk) /\ CursorAtMouse /\ desk.windows \in {One, Two}
      BY <2>1, AfterRegister
    <2>3. w = Cursor \/ w = Main
      BY <2>2 DEF ToSet, One, Two
    <2>4. CASE w = Cursor
      BY <2>1, <2>2, <2>4 DEF CursorAtMouse, BodySize
    <2>5. CASE w = Main
      BY <2>2, <2>5, ListsDiffer DEF Good, Placed, BodySize
    <2> QED
      BY <2>3, <2>4, <2>5
  <1> QED
    BY <1>1, DesktopInvariant, PTL

(* The screen's children are sorted by z-index, list each window once and  *)
(* nothing that was freed, at every step of window_create, window_focus    *)
(* and window_close.                                                       *)
THEOREM DesktopStack == Spec => []StackOrder
  <1>1. DeskInv => StackOrder
    <2> SUFFICES ASSUME DeskInv PROVE StackOrder
      OBVIOUS
    <2>1. CASE pc = "mouse_register"
      <3>1. desk.children = <<>> /\ desk.windows = <<>>
        BY <2>1 DEF DeskInv, EmptyDesk
      <3> QED
        BY <3>1 DEF StackOrder, IsInjective, ToSet
    <2>2. CASE pc # "mouse_register"
      <3>1. /\ Good(desk) /\ Phase /\ desk.windows \in {One, Two}
            /\ desk.children \in {One, Two, Under}
        BY <2>2, AfterRegister DEF Good, Desks
      <3>2. IsInjective(One) /\ IsInjective(Two) /\ IsInjective(Under)
        BY ListsDiffer DEF IsInjective, One, Two, Under
      <3>3. \A i, j \in 1..Len(desk.children) :
                i < j => desk.z[desk.children[i]] <= desk.z[desk.children[j]]
        BY <3>1 DEF Good, Sorted
      <3>4. /\ ToSet(One) = {Cursor} /\ ToSet(Two) = {Cursor, Main}
            /\ ToSet(Under) = {Cursor, Main}
        BY DEF ToSet, One, Two, Under
      <3>5. ToSet(desk.windows) \subseteq ToSet(desk.children)
        BY <3>1, <3>4 DEF Good
      <3>6. Main \in ToSet(desk.children) \ ToSet(desk.windows) =>
                pc \in {"title", "push", "done"} /\ ~stray
        BY <2>2, <3>1, <3>4, ListsDiffer DEF Phase
      <3> QED
        BY <3>1, <3>2, <3>3, <3>5, <3>6 DEF StackOrder
    <2> QED
      BY <2>1, <2>2
  <1> QED
    BY <1>1, DesktopInvariant, PTL
=============================================================================
