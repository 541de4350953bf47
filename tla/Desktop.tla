------------------------------ MODULE Desktop ------------------------------
(***************************************************************************)
(* The mouse, the windows and the graphics under them (mouse/mouse.c,      *)
(* graphics/window.c, graphics/graphics.c).  kernel_main creates the       *)
(* cursor's window with interrupts off, enables interrupts, registers the  *)
(* mouse handlers and creates one window with a title bar.  A mouse        *)
(* interrupt may come between any two steps of that and runs to its end.   *)
(*                                                                         *)
(* A window and its root graphics have one name.  Pixels are left out.     *)
(***************************************************************************)
EXTENDS Ps2Mouse, SequencesExt

CONSTANTS Cursor, Main, NoWindow,
          Screen,       \* [x, y] resolution
          CursorSize,   \* MOUSE_GRAPHIC_DEFAULT_WIDTH, MOUSE_GRAPHIC_DEFAULT_HEIGHT
          MainPos, MainSize,
          Border,       \* WINDOW_BORDER_PIXEL_SIZE
          TitleHeight,  \* WINDOW_TITLE_BAR_HEIGHT
          Icon,         \* width and height of the close icon
          CursorZ,      \* MOUSE_GRAPHIC_ZINDEX
          Word          \* the sizes of graphics are uint32_t: 2^32

\* The cursor fits where mouse_register puts it: its window is not made otherwise.
ASSUME DesktopAssumption ==
    /\ Cursor # Main /\ NoWindow \notin {Cursor, Main}
    /\ {Screen, CursorSize, MainPos, MainSize} \subseteq [Axis -> Nat]
    /\ \A a \in Axis : /\ CursorSize[a] \in 1..(Screen[a] - Screen[a] \div 2)
                       /\ MainSize[a] \in 1..(Screen[a] - 1)
                       /\ Word > 2 * Screen[a]
    /\ {Border, TitleHeight, Icon, CursorZ, Word} \subseteq Nat

VARIABLES desk,     \* the window system, see EmptyDesk
          coords,   \* ps2_mouse.coords
          clickHandlers, moveHandlers,
          pc,       \* where kernel_main is
          stray     \* history: kernel_main has used a window that was freed

vars == <<mouseVars, desk, coords, clickHandlers, moveHandlers, pc, stray>>

Windows == {Cursor, Main}

\* desk.windows is windows_vector, desk.children the children of the screen
\* from bottom to top, desk.titled the windows whose title bar has its handlers.
EmptyDesk ==
    [windows |-> <<>>, children |-> <<>>, titled |-> {},
     z |-> [w \in Windows |-> 0],
     pos |-> [w \in Windows |-> [a \in Axis |-> 0]],
     focused |-> NoWindow, moving |-> NoWindow]

-----------------------------------------------------------------------------
(* Geometry. *)

BodySize(w) == IF w = Cursor THEN CursorSize ELSE MainSize

\* The root graphics: the body, and the title bar and borders around it.
RootSize(w) ==
    IF w = Cursor THEN CursorSize
    ELSE [a \in Axis |-> IF a = "x" THEN MainSize[a] + 2 * Border
                                    ELSE MainSize[a] + TitleHeight + Border]

TitleSize == [a \in Axis |-> IF a = "x" THEN MainSize[a] ELSE TitleHeight]

\* The title bar after graphics_info_recalculate moved it with its root.
TitlePos(d, w) ==
    [a \in Axis |-> IF a = "x" THEN d.pos[w][a] + Border ELSE d.pos[w][a]]

\* Where the close button is drawn in the title bar.
ButtonPos ==
    [a \in Axis |-> IF a = "x" THEN MainSize[a] + 2 * Border - Icon - Icon \div 2
                              ELSE TitleHeight \div 2 - Icon \div 2]

Inside(p, from, extent) ==
    \A a \in Axis : p[a] >= from[a] /\ p[a] < from[a] + extent[a]

\* The places in a list of the windows under p; the cursor's is passed over.
Hits(d, s, p) ==
    {i \in DOMAIN s : s[i] # Cursor /\ Inside(p, d.pos[s[i]], RootSize(s[i]))}

\* window_get_at_position: the first of windows_vector, whatever is on top.
window_get_at_position(d, p) ==
    LET hits == Hits(d, d.windows, p)
    IN  IF hits = {} THEN NoWindow ELSE d.windows[Min(hits)]

\* graphics_get_at_screen_position: the topmost child of the screen.
RootAt(d, p) ==
    LET hits == Hits(d, d.children, p)
    IN  IF hits = {} THEN NoWindow ELSE d.children[Max(hits)]

-----------------------------------------------------------------------------
(* Stacking and focus. *)

\* vector_reorder with graphics_reorder: a stable sort by z-index.
Reordered(s, z) ==
    LET Before(i, j) == z[s[i]] < z[s[j]] \/ (z[s[i]] = z[s[j]] /\ i < j)
        order == CHOOSE f \in [DOMAIN s -> DOMAIN s] :
                     \A i, j \in DOMAIN s : i < j => Before(f[i], f[j])
    IN  [i \in DOMAIN s |-> s[order[i]]]

\* window_set_z_index.  The window's own zindex stays 0, so that the reorder
\* of windows_vector leaves it in the order of creation.
window_set_z_index(d, w, k) ==
    LET z == [d.z EXCEPT ![w] = k]
    IN  [d EXCEPT !.z = z, !.children = Reordered(d.children, z)]

window_bring_to_top(d, w) ==
    window_set_z_index(d, w, 1 + (IF d.children = <<>> THEN 0 ELSE d.z[Last(d.children)]))

window_focus(d, w) ==
    IF d.focused = w THEN d ELSE window_bring_to_top([d EXCEPT !.focused = w], w)

\* graphics_info_create_relative on the screen.
CreateRoot(d, w, p) ==
    LET placed == [d EXCEPT !.children = Append(@, w),
                            !.pos = [@ EXCEPT ![w] = p]]
    IN  window_set_z_index(placed, w, Len(placed.children))

OutOfBounds(w, p) == \E a \in Axis : p[a] + RootSize(w)[a] > Screen[a]

\* The root graphics of a window has a body and, with a title bar, the bar and
\* three borders: window_create sets the z-index to one more than their number.
FirstZ(w) == IF w = Cursor THEN 2 ELSE 6

-----------------------------------------------------------------------------
(* Moving and closing. *)

\* The fault of adding position and size in 32 bits.
FaultPositionSet(d, w, p) ==
    LET kept == [a \in Axis |-> IF (p[a] + BodySize(w)[a]) % Word > Screen[a]
                                THEN Screen[a] - BodySize(w)[a] - 1
                                ELSE p[a]]
    IN  [d EXCEPT !.pos = [@ EXCEPT ![w] = kept]]

\* Positions and the sizes of windows are size_t: the sum does not wrap.
window_position_set(d, w, p) ==
    LET kept == [a \in Axis |-> IF p[a] + BodySize(w)[a] > Screen[a]
                                THEN Screen[a] - BodySize(w)[a] - 1
                                ELSE p[a]]
    IN  [d EXCEPT !.pos = [@ EXCEPT ![w] = kept]]

\* The fault of freeing a window that is being dragged.
FaultClose(d, w) ==
    [d EXCEPT !.focused = IF @ = w THEN NoWindow ELSE @,
              !.windows = RemoveFirst(@, w), !.children = RemoveFirst(@, w),
              !.titled = @ \ {w}]

\* The fault of freeing root graphics that the screen still lists.
FaultCloseKeepsRoot(d, w) ==
    [d EXCEPT !.focused = IF @ = w THEN NoWindow ELSE @,
              !.moving = IF @ = w THEN NoWindow ELSE @,
              !.windows = RemoveFirst(@, w), !.titled = @ \ {w}]

\* window_close, window_free and graphics_info_free.
window_close(d, w) ==
    [d EXCEPT !.focused = IF @ = w THEN NoWindow ELSE @,
              !.moving = IF @ = w THEN NoWindow ELSE @,
              !.windows = RemoveFirst(@, w), !.children = RemoveFirst(@, w),
              !.titled = @ \ {w}]

\* A title bar whose window is not in windows_vector ignores the click.
window_title_bar_clicked(d, w, rel) ==
    IF ~Contains(d.windows, w) THEN d
    ELSE IF Inside(rel, ButtonPos, [a \in Axis |-> Icon]) THEN window_close(d, w)
    ELSE [d EXCEPT !.moving = IF @ = w THEN NoWindow ELSE w]

window_click_handler(d, p) ==
    LET w == window_get_at_position(d, p)
    IN  IF w = NoWindow THEN d ELSE window_focus(d, w)

\* Only a title bar has a click handler: a click elsewhere climbs to the
\* screen and is dropped.
graphics_mouse_click_handler(d, p) ==
    LET w == RootAt(d, p)
    IN  IF w \in d.titled /\ Inside(p, TitlePos(d, w), TitleSize)
        THEN window_title_bar_clicked(d, w, [a \in Axis |-> p[a] - TitlePos(d, w)[a]])
        ELSE d

\* The centre of the title bar follows the mouse.  The subtraction is made in
\* uint32_t and its result taken for a size_t: left of the screen and above it
\* the position is near 2^32, and window_position_set takes the window to the
\* opposite edge.
window_screen_mouse_move_handler(d, p) ==
    IF d.moving = NoWindow THEN d
    ELSE window_position_set(d, d.moving,
                             [a \in Axis |-> (p[a] - TitleSize[a] \div 2) % Word])

\* graphics_mouse_move_handler reaches the title bar's handler, which is empty.
graphics_mouse_move_handler(d, p) == d

\* Every handler in turn; each list has at most two.
mouse_click(d, p) ==
    LET Call(e, i) == IF i > Len(clickHandlers) THEN e
                      ELSE IF clickHandlers[i] = "window" THEN window_click_handler(e, p)
                      ELSE graphics_mouse_click_handler(e, p)
    IN  Call(Call(d, 1), 2)

mouse_moved(d, p) ==
    LET Call(e, i) == IF i > Len(moveHandlers) THEN e
                      ELSE IF moveHandlers[i] = "window" THEN window_screen_mouse_move_handler(e, p)
                      ELSE graphics_mouse_move_handler(e, p)
    IN  Call(Call(d, 1), 2)

-----------------------------------------------------------------------------
(* The mouse interrupt. *)

\* The fault of keeping only the pointer's hot spot on the screen.
FaultMoved(delta) ==
    [a \in Axis |-> LET r == coords[a] + delta[a]
                    IN  IF r < 0 THEN 0 ELSE IF r > Screen[a] THEN Screen[a] ELSE r]

\* The coordinates after a report, clamped so that the cursor stays visible.
Moved(delta) ==
    [a \in Axis |-> LET r == coords[a] + delta[a]
                        limit == Screen[a] - CursorSize[a]
                    IN  IF r < 0 THEN 0 ELSE IF r > limit THEN limit ELSE r]

\* What ps2_mouse_handle_interrupt does with a complete packet.
Handle(r) ==
    LET p == Moved(r.delta)
        placed == window_position_set(desk, Cursor, p)
        clicked == IF r.clicked THEN mouse_click(placed, p) ELSE placed
    IN  /\ coords' = p
        /\ desk' = IF \E a \in Axis : r.delta[a] # 0 THEN mouse_moved(clicked, p) ELSE clicked

MouseInterrupt ==
    /\ pc # "mouse_register"
    /\ Receive
    /\ IF Completes(Head(line))
       THEN Handle(Report(WithByte(Head(line))))
       ELSE UNCHANGED <<desk, coords>>
    /\ UNCHANGED <<clickHandlers, moveHandlers, pc, stray>>

-----------------------------------------------------------------------------
(* kernel_main. *)

\* mouse_register: the cursor starts in the middle of the screen.
mouse_register ==
    LET middle == [a \in Axis |-> Screen[a] \div 2]
        root == CreateRoot(EmptyDesk, Cursor, middle)
        made == window_set_z_index([root EXCEPT !.windows = <<Cursor>>], Cursor, FirstZ(Cursor))
    IN  /\ pc = "mouse_register"
        /\ coords' = middle
        /\ desk' = window_set_z_index(window_focus(made, Cursor), Cursor, CursorZ)
        /\ pc' = "handlers"
        /\ UNCHANGED <<mouseVars, clickHandlers, moveHandlers, stray>>

\* window_system_initialize_stage2, then graphics_setup_stage_two.
RegisterHandlers ==
    /\ pc = "handlers"
    /\ CASE moveHandlers = <<>> ->
              moveHandlers' = <<"window">> /\ UNCHANGED clickHandlers
         [] moveHandlers # <<>> /\ Len(clickHandlers) < 2 ->
              clickHandlers' = (IF clickHandlers = <<>> THEN <<"window">>
                                ELSE <<"window", "graphics">>) /\ UNCHANGED moveHandlers
         [] OTHER -> moveHandlers' = <<"window", "graphics">> /\ UNCHANGED clickHandlers
    /\ pc' = IF Len(clickHandlers) = 2 THEN "root" ELSE "handlers"
    /\ UNCHANGED <<mouseVars, desk, coords, stray>>

Goto(step) ==
    /\ pc' = step
    /\ UNCHANGED <<mouseVars, coords, clickHandlers, moveHandlers, stray>>

\* window_create as far as the root graphics: the screen has to hold it.
CreateMainRoot ==
    /\ pc = "root"
    /\ \/ ~OutOfBounds(Main, MainPos) /\ desk' = CreateRoot(desk, Main, MainPos) /\ Goto("title")
       \/ UNCHANGED desk /\ Goto("done")

\* The title bar, the borders, the body and the terminals.  When one of them
\* cannot be made the window is freed and its root graphics stays on the screen.
CreateMainParts ==
    /\ pc = "title"
    /\ \/ desk' = [desk EXCEPT !.titled = @ \cup {Main}] /\ Goto("push")
       \/ desk' \in {desk, [desk EXCEPT !.titled = @ \cup {Main}]} /\ Goto("done")

PushMain ==
    /\ pc = "push"
    /\ desk' = [desk EXCEPT !.windows = Append(@, Main)]
    /\ Goto("z")

\* The rest of window_create and the first print use the window whether or not
\* a click on its close button has freed it meanwhile: kfree is empty, and the
\* window's fields are still there.
GoOn(step) ==
    /\ pc' = step
    /\ stray' = (stray \/ ~Contains(desk.windows, Main))
    /\ UNCHANGED <<mouseVars, coords, clickHandlers, moveHandlers>>

\* Nobody reads the z-index of root graphics that the screen does not list.
SetFirstZ ==
    /\ pc = "z"
    /\ desk' = window_set_z_index(desk, Main, FirstZ(Main))
    /\ GoOn("focus")

\* window_focus called from window_create, in two steps.
SetFocus ==
    /\ pc = "focus"
    /\ desk' = [desk EXCEPT !.focused = Main]
    /\ GoOn(IF desk.focused = Main THEN "print" ELSE "top")

BringToTop ==
    /\ pc = "top"
    /\ desk' = window_bring_to_top(desk, Main)
    /\ GoOn("print")

PrintHello ==
    /\ pc = "print"
    /\ UNCHANGED desk
    /\ GoOn("done")

Device ==
    /\ pc # "mouse_register"
    /\ Lose \/ \E p \in Packets : Send(p)
    /\ UNCHANGED <<desk, coords, clickHandlers, moveHandlers, pc, stray>>

Init ==
    /\ MouseInit
    /\ desk = EmptyDesk
    /\ coords = [a \in Axis |-> 0]
    /\ clickHandlers = <<>> /\ moveHandlers = <<>>
    /\ pc = "mouse_register" /\ stray = FALSE

Next ==
    \/ mouse_register \/ RegisterHandlers
    \/ CreateMainRoot \/ CreateMainParts \/ PushMain \/ SetFirstZ \/ SetFocus
    \/ BringToTop \/ PrintHello
    \/ Device \/ MouseInterrupt

Spec == Init /\ [][Next]_vars

-----------------------------------------------------------------------------
(* Properties. *)

\* The handlers follow focused_window and window_moving without a test.  The
\* drag always names a window of windows_vector, and so does the focus unless
\* window_create has focused the window after a click had closed and freed it
\* (window.c:283): no click that closes, focuses or drags leaves either behind
\* on a freed window, wherever between the steps of window_create it comes.
NoDangling ==
    /\ desk.moving \in ToSet(desk.windows) \cup {NoWindow}
    /\ desk.focused \in ToSet(desk.windows) \cup {NoWindow} \/ (stray /\ desk.focused = Main)

\* A drag past the left or the upper edge makes a position near 2^32
\* (window.c:68).  No window is ever left there: all of a window's body is on
\* the screen, while it is dragged and afterwards.
OnScreen ==
    \A w \in ToSet(desk.windows) :
        \A a \in Axis : desk.pos[w][a] + BodySize(w)[a] <= Screen[a]

\* The screen lists the root graphics of each window once, from bottom to
\* top by z-index, and no other graphics than those of a window that is being
\* created or could not be: redraws and clicks reach nothing that was freed.
StackOrder ==
    /\ IsInjective(desk.children)
    /\ \A i, j \in 1..Len(desk.children) :
           i < j => desk.z[desk.children[i]] <= desk.z[desk.children[j]]
    /\ ToSet(desk.windows) \subseteq ToSet(desk.children)
    /\ Main \in ToSet(desk.children) \ ToSet(desk.windows) =>
           pc \in {"title", "push", "done"} /\ ~stray

\* The clamps of ps2_mouse_handle_interrupt and of window_position_set agree:
\* the cursor's window is where the mouse is, and all of it is on the screen.
CursorAtMouse ==
    pc # "mouse_register" =>
        \A a \in Axis : /\ desk.pos[Cursor][a] = coords[a]
                        /\ coords[a] + CursorSize[a] <= Screen[a]

\* Once a packet without a misleading bit 3 has arrived whole after a loss,
\* the handler is back in step: what it has and what is still to come are one
\* packet of the device.
PacketsWhole == trusted => Len(packet) + Len(line) \in {0, size}
=============================================================================
