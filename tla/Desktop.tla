------------------------------ MODULE Desktop ------------------------------
(***************************************************************************)
(* The window manager (user/wm): the raw events of the mouse and the       *)
(* keyboard are parsed (input.rs) and handled by the desktop (desktop.rs), *)
(* which draws what it marked dirty at the end of the turn (runtime.rs).   *)
(* The desktop keeps windows in a vector, bottom first, and names them by  *)
(* index: in the focus, in the highlighted buttons, and in the presses     *)
(* that wait for the release.  Raising a window reorders the vector,       *)
(* closing one shortens it.                                                *)
(*                                                                         *)
(* Coordinates are abstracted.  A position is the fixed part of the screen *)
(* it lies on (a zone) and the topmost window there with its part; how     *)
(* windows overlap is chosen freely, except that a maximized window covers *)
(* the work area.  The programs in the windows are abstracted to what they *)
(* may do with an event: nothing, ask to be redrawn, ask for a new window. *)
(* A device that has no free buffer drops a report: the manager does not   *)
(* read events while a program in one of its windows waits for the net.    *)
(***************************************************************************)
EXTENDS Naturals, Sequences, Functions

CONSTANTS Windows,      \* names for the windows; bound: as many at once
          NoWindow,     \* not one of them
          Icons         \* the icons of the desktop

ASSUME DesktopAssumption == NoWindow \notin Windows /\ Icons \subseteq Nat \ {0}

VARIABLES desk,         \* the fields of Desktop
          parser,       \* the fields of InputParser
          held,         \* whether the left button is down (the hand, not the code)
          stale,        \* whether a press outlived its release, or did harm
          behind        \* the areas of the screen that do not show the desktop

vars == <<desk, parser, held, stale, behind>>

None == 0
Buttons == {"tclose", "close", "min", "max"}
Kinds == Buttons \cup {"drag"}
Areas == {"icons", "windows", "taskbar", "menu"}

-----------------------------------------------------------------------------
(* input.rs *)

Raw(t, b, v) == [t |-> t, b |-> b, v |-> v]
Syn == Raw("syn", "", FALSE)
NoButton == Raw("none", "", FALSE)

Key(v) == Raw("key", "", v)
Button(b, v) == Raw("btn", b, v)
Rel == Raw("rel", "", TRUE)
Wheel == Raw("wheel", "", TRUE)

\* What a device reports at once, with the left button going to v if it is in it.
Reports(v) ==
  LET left == Button("L", v)
      right == Button("R", v)
  IN  { <<left, Syn>>, <<Rel, left, Syn>>, <<left, right, Syn>>, <<right, left, Syn>>,
        <<right, Syn>>, <<Rel, Syn>>, <<Wheel, Syn>>, <<Key(v), Syn>> }

\* The keyboard is polled first: its report can come between two events of the
\* mouse's.
Mixed(v) == {<<r[1], Key(v), Syn>> \o Tail(r) : r \in Reports(v)}

HasLeft(report) == \E i \in DOMAIN report : report[i].b = "L"

\* One raw event: the state of the parser after it and the parsed events.
MutMoveFirst(s, raw) ==
  CASE raw.t = "btn" -> [s EXCEPT !.p.btn = raw]
    [] raw.t = "rel" -> [s EXCEPT !.p.rel = TRUE]
    [] raw.t = "syn" /\ s.p.rel ->
         [p |-> [s.p EXCEPT !.rel = FALSE, !.btn = NoButton], out |-> Append(s.out, Rel)]
    [] raw.t = "syn" /\ ~s.p.rel /\ s.p.btn # NoButton ->
         [p |-> [s.p EXCEPT !.btn = NoButton], out |-> Append(s.out, s.p.btn)]
    [] OTHER -> s

ingest(s, raw) ==
  CASE raw.t = "btn" -> [s EXCEPT !.p.btn = raw]
    [] raw.t = "key" -> [s EXCEPT !.out = Append(@, raw)]
    [] raw.t = "rel" -> [s EXCEPT !.p.rel = TRUE]
    [] raw.t = "wheel" -> [s EXCEPT !.p.wheel = TRUE]
    [] raw.t = "syn" /\ s.p.btn # NoButton ->
         [p |-> [s.p EXCEPT !.btn = NoButton], out |-> Append(s.out, s.p.btn)]
    [] raw.t = "syn" /\ s.p.btn = NoButton /\ s.p.rel ->
         [p |-> [s.p EXCEPT !.rel = FALSE], out |-> Append(s.out, Rel)]
    [] raw.t = "syn" /\ s.p.btn = NoButton /\ ~s.p.rel /\ s.p.wheel ->
         [p |-> [s.p EXCEPT !.wheel = FALSE], out |-> Append(s.out, Wheel)]
    [] OTHER -> s

Parsed(p, report) ==
  LET after[n \in 0 .. Len(report)] ==
        IF n = 0 THEN [p |-> p, out |-> <<>>] ELSE ingest(after[n - 1], report[n])
  IN  after[Len(report)]

-----------------------------------------------------------------------------
(* The state of the desktop, and what marks parts of the screen dirty *)

NoPress == [idx |-> None, id |-> NoWindow]

mark(d, areas) == [d EXCEPT !.dirty = @ \cup areas]

mark_dirty(d) == mark(d, Areas)

Count(d) == Len(d.windows)

Visible(d) == {i \in 1 .. Count(d) : ~d.windows[i].minimized}

MaxOr0(S) == IF S = {} THEN None ELSE CHOOSE i \in S : \A j \in S : j <= i

topmost_visible_window_index(d) == MaxOr0(Visible(d))

refocus_after_visibility_change(d) ==
  mark_dirty([d EXCEPT !.focused = topmost_visible_window_index(d)])

\* The press of a button keeps the index of the window; its id is history.
Press(d, idx) == [idx |-> idx, id |-> d.windows[idx].id]

\* Vec::remove
Without(s, i) == [j \in 1 .. (Len(s) - 1) |-> s[IF j < i THEN j ELSE j + 1]]

focus_window(d, idx) ==
  mark_dirty([d EXCEPT !.windows = Append(Without(@, idx), [@[idx] EXCEPT !.minimized = FALSE]),
                       !.focused = Count(d)])

new_window(id) ==
  [id |-> id, minimized |-> FALSE, maximized |-> FALSE, frame |-> "placed", restore |-> "none"]

launch_app(d, id) ==
  mark_dirty([d EXCEPT !.windows = Append(@, new_window(id)), !.focused = Count(d) + 1])

\* next_window_id: no code reads it back, so any name that is free will do.
Launched(d) ==
  {launch_app(d, id) : id \in Windows \ {d.windows[i].id : i \in 1 .. Count(d)}}

MutKeepHover(d, idx) ==
  refocus_after_visibility_change(
    [d EXCEPT !.windows = Without(@, idx), !.press = [k \in Kinds |-> NoPress]])

close_window(d, idx) ==
  refocus_after_visibility_change(
    [d EXCEPT !.windows = Without(@, idx),
              !.btn = None, !.task = None,
              !.press = [k \in Kinds |-> NoPress]])

MutKeepFocus(d, idx) ==
  mark_dirty([d EXCEPT !.windows[idx].minimized = TRUE, !.press["drag"] = NoPress])

minimize_window(d, idx) ==
  refocus_after_visibility_change(
    [d EXCEPT !.windows[idx].minimized = TRUE, !.press["drag"] = NoPress])

toggle_maximize_window(d, idx) ==
  LET w == d.windows[idx] IN
  mark([d EXCEPT !.windows[idx] =
          IF w.maximized
          THEN [w EXCEPT !.frame = IF w.restore # "none" THEN w.restore ELSE @,
                         !.restore = "none", !.maximized = FALSE]
          ELSE [w EXCEPT !.restore = w.frame, !.frame = "full", !.maximized = TRUE, !.minimized = FALSE]],
       {"windows"})

-----------------------------------------------------------------------------
(* Where the mouse is *)

Zone(k, i) == [k |-> k, i |-> i]

\* The parts of the screen that do not move: the taskbar with the start button
\* and one button per window, the places of the start menu ("apps" and "down",
\* its items, "sub", those of the submenu, and the borders), and the icons.
Zones(d) ==
  {Zone(k, 0) : k \in {"start", "bar", "apps", "down", "border", "sub", "subborder", "desk"}}
    \cup {Zone(k, i) : k \in {"slot", "slotclose"}, i \in 1 .. Count(d)}
    \cup {Zone("icon", i) : i \in Icons}

InTaskbar(z) == z.k \in {"start", "bar", "slot", "slotclose"}
InMenu(z) == z.k \in {"apps", "down", "border"}

\* The hover of the menu at a place; "sub" is an item of the submenu of "apps".
MenuHover(z) ==
  CASE z.k \in {"apps", "down", "sub"} -> z.k
    [] z.k = "subborder" -> "apps"
    [] OTHER -> "none"

Covers(d, i) == ~d.windows[i].minimized /\ d.windows[i].frame = "full"

\* What visible_frame_window_at can find at a place.
visible_frame_window_at(d, z) ==
  LET above(i) == \E j \in (i + 1) .. Count(d) : Covers(d, j) IN
  IF InTaskbar(z) THEN Visible(d) \cup {None}
  ELSE {i \in Visible(d) : ~above(i)} \cup (IF above(0) THEN {} ELSE {None})

-----------------------------------------------------------------------------
(* handle_event: the desktops it can lead to *)

\* An event given to the program of a window.  A redraw it asks for only adds
\* to what is drawn.
App(d) == {d} \cup Launched(d)

update_menu_hover(d, z) ==
  IF MenuHover(z) # d.hover THEN mark([d EXCEPT !.hover = MenuHover(z)], {"menu"}) ELSE d

update_taskbar_hover(d, z) ==
  LET i == IF z.k \in {"slot", "slotclose"} THEN z.i ELSE None IN
  IF i # d.task THEN mark([d EXCEPT !.task = i], {"taskbar"}) ELSE d

update_window_button_hovers(d, i) ==
  IF i # d.btn THEN mark([d EXCEPT !.btn = i], {"windows"}) ELSE d

update_desktop_icon_hover(d, z) ==
  LET i == IF z.k = "icon" THEN z.i ELSE None IN
  IF i # d.icon THEN mark([d EXCEPT !.icon = i], {"icons"}) ELSE d

Hovered(d, z, i) ==
  update_desktop_icon_hover(
    update_window_button_hovers(
      update_taskbar_hover(update_menu_hover(d, z), z), i), z)

\* The focused window gets the motion, or else the one under the mouse.
GivenApp(d) == IF Visible(d) # {} THEN App(d) ELSE {d}

MouseMove(d) ==
  LET drag == d.press["drag"].idx IN
  IF drag # None
  THEN {IF drag <= Count(d) THEN mark([d EXCEPT !.windows[drag].frame = "placed"], {"windows"}) ELSE d}
  ELSE UNION {GivenApp(Hovered(d, z, i)) : z \in Zones(d), i \in Visible(d) \cup {None}}

MutCloseUnmarked(d) == [d EXCEPT !.open = FALSE, !.hover = "none"]

close_menu(d) == mark([d EXCEPT !.open = FALSE, !.hover = "none"], {"menu"})

\* A press on a part of window idx, already raised to the top.
press_window(d, idx, part) ==
  CASE part \in {"close", "min", "max"} -> {mark([d EXCEPT !.press[part] = Press(d, idx)], {"windows"})}
    [] part = "title" ->
         {IF d.windows[idx].maximized THEN d ELSE mark([d EXCEPT !.press["drag"] = Press(d, idx)], {"windows"})}
    [] part = "client" -> App(d)
    [] OTHER -> {d}

MutPressThenRaise(d, z) ==
  UNION {IF i = None
         THEN {IF z.k = "icon" THEN mark([d EXCEPT !.selected = z.i], {"icons"}) ELSE d}
         ELSE UNION {{focus_window(e, i) : e \in press_window(d, i, part)} :
                       part \in {"close", "min", "max", "title", "client", "edge"}}
         : i \in visible_frame_window_at(d, z)}

MouseDownWindow(d, z) ==
  UNION {IF i = None
         THEN {IF z.k = "icon" THEN mark([d EXCEPT !.selected = z.i], {"icons"}) ELSE d}
         ELSE UNION {press_window(focus_window(d, i), Count(d), part) :
                       part \in {"close", "min", "max", "title", "client", "edge"}}
         : i \in visible_frame_window_at(d, z)}

MouseDown(d, z) ==
  CASE z.k = "start" -> {mark([d EXCEPT !.open = ~@, !.hover = "none"], {"menu", "taskbar"})}
    [] z.k # "start" /\ d.open /\ InMenu(z) -> {update_menu_hover(d, z)}
    [] z.k # "start" /\ d.open /\ ~InMenu(z) ->
         {IF z.k = "sub" /\ d.hover \in {"apps", "sub"} THEN d ELSE close_menu(d)}
    [] ~d.open /\ z.k = "slotclose" -> {mark([d EXCEPT !.press["tclose"] = Press(d, z.i)], {"taskbar"})}
    [] ~d.open /\ z.k = "slot" -> {focus_window(d, z.i)}
    [] ~d.open /\ z.k = "bar" -> {d}
    [] ~d.open /\ ~InTaskbar(z) -> MouseDownWindow(d, z)

\* A release that no pressed button takes.
MouseUpElsewhere(d, z) ==
  CASE d.open /\ z.k = "down" /\ d.hover = "down" -> {close_menu(d)}
    [] d.open /\ z.k = "sub" /\ d.hover \in {"apps", "sub"} -> {close_menu(e) : e \in Launched(d)}
    [] z.k = "icon" /\ d.selected = z.i -> Launched(d)
    [] OTHER -> IF d.focused # None THEN App(d) ELSE {d}

\* The order in which a release takes the presses.
Turns == <<"tclose", "close", "min", "max">>
Rank(k) == CHOOSE n \in DOMAIN Turns : Turns[n] = k

Pressed(d) == {k \in Buttons : d.press[k].idx # None}

\* over: the buttons that are under the mouse.  The presses are taken until one
\* of them is over its button.
Release(d, over, z) ==
  LET hits == Pressed(d) \cap over
      first == CHOOSE k \in hits : \A j \in hits : Rank(k) <= Rank(j)
      taken == IF hits = {} THEN Pressed(d) ELSE {k \in Pressed(d) : Rank(k) <= Rank(first)}
      idx == d.press[first].idx
      e == mark([d EXCEPT !.press = [k \in Kinds |-> IF k \in taken THEN NoPress ELSE @[k]]],
                {IF k = "tclose" THEN "taskbar" ELSE "windows" : k \in taken \ hits})
  IN  CASE hits = {} -> MouseUpElsewhere(e, z)
        [] hits # {} /\ first \in {"tclose", "close"} -> {close_window(e, idx)}
        [] hits # {} /\ first = "min" -> {minimize_window(e, idx)}
        [] hits # {} /\ first = "max" -> {toggle_maximize_window(e, idx)}

\* Two buttons of one window are not in the same place.
Over(d, z) ==
  {S \in SUBSET {k \in {"close", "min", "max"} : d.press[k].idx # None} :
     \A j, k \in S : d.press[j].idx = d.press[k].idx => j = k}

MouseUp(d, z) ==
  LET dropped == IF d.press["drag"].idx # None THEN mark_dirty([d EXCEPT !.press["drag"] = NoPress]) ELSE d
      slot == IF z = Zone("slotclose", d.press["tclose"].idx) THEN {"tclose"} ELSE {}
  IN  UNION {Release(dropped, S \cup slot, z) : S \in Over(d, z)}

\* A press or a release comes anywhere, also where the menu's hover is not: a
\* drag that waits, its release lost, keeps the hover from following the mouse.
handle_event(d, ev) ==
  CASE ev.t = "rel" -> MouseMove(d)
    [] ev.t = "btn" /\ ev.b = "L" /\ ev.v -> UNION {MouseDown(d, z) : z \in Zones(d)}
    [] ev.t = "btn" /\ ev.b = "L" /\ ~ev.v -> UNION {MouseUp(d, z) : z \in Zones(d)}
    [] ev.t = "btn" /\ ev.b # "L" -> {d}
    [] ev.t \in {"key", "wheel"} -> IF d.focused # None THEN App(d) ELSE {d}

\* One turn of the loop: the events of a report one after the other.
Turn(d, events) ==
  LET after[n \in 0 .. Len(events)] ==
        IF n = 0 THEN {d} ELSE UNION {handle_event(e, events[n]) : e \in after[n - 1]}
  IN  after[Len(events)]

\* What is seen in an area of the screen.
Picture(d, area) ==
  CASE area = "icons" -> <<d.icon, d.selected>>
    [] area = "windows" -> <<d.windows, d.focused, d.btn>>
    [] area = "taskbar" ->
         <<[i \in 1 .. Count(d) |-> d.windows[i].id], d.focused \in Visible(d), d.focused, d.task>>
    [] area = "menu" -> <<d.open, IF d.open THEN d.hover ELSE "none">>

-----------------------------------------------------------------------------
Waiting(d) == \E k \in Kinds : d.press[k].idx # None

Init ==
  /\ \E id \in Windows : desk = [launch_app([windows |-> <<>>, focused |-> None, open |-> FALSE, hover |-> "none",
                        task |-> None, btn |-> None, icon |-> None, selected |-> None,
                        press |-> [k \in Kinds |-> NoPress], dirty |-> {}], id) EXCEPT !.dirty = {}]
  /\ parser = [btn |-> NoButton, rel |-> FALSE, wheel |-> FALSE]
  /\ held = FALSE
  /\ stale = FALSE
  /\ behind = {}

\* History: a press whose release was lost is stale, and so is what it leads to.
Settled(d) ==
  /\ d.focused = topmost_visible_window_index(d)
  /\ \A i \in 1 .. Count(d) : d.windows[i].maximized <=> d.windows[i].frame = "full"

Hold(left) == held' = IF left THEN ~held ELSE held

\* take_dirty_rect and draw at the end of a turn that led to d: the dirty areas
\* show d, the others what they did.
present(d) ==
  /\ behind' = (behind \cup {a \in Areas : Picture(d, a) # Picture(desk, a)}) \ d.dirty
  /\ stale' = ((stale \/ (Waiting(d) /\ ~held')) /\ (Waiting(d) \/ ~Settled(d) \/ behind' # {}))
  /\ desk' = [d EXCEPT !.dirty = {}, !.hover = IF d.open THEN @ ELSE "none",
                       !.press = [k \in Kinds |-> IF stale' THEN [@[k] EXCEPT !.id = NoWindow] ELSE @[k]]]

\* Bound: no second report is lost while that of the first is felt.
MayLose == ~stale

\* A report is read and handled.
Report ==
  \E left \in BOOLEAN :
    /\ Hold(left)
    /\ \E s \in {Parsed(parser, r) : r \in {x \in Reports(~held) : HasLeft(x) = left}} :
         /\ left /\ ~HasLeft(s.out) => MayLose
         /\ parser' = s.p
         /\ \E d \in Turn(desk, s.out) : present(d)

\* A report finds no buffer.
Dropped ==
  /\ MayLose
  /\ Hold(TRUE)
  /\ present(desk)
  /\ UNCHANGED parser

\* The minute changes: the clock is drawn.
ClockMinute ==
  /\ Hold(FALSE)
  /\ present(mark(desk, {"taskbar"}))
  /\ UNCHANGED parser

Next == Report \/ Dropped \/ ClockMinute

Spec == Init /\ [][Next]_vars

-----------------------------------------------------------------------------
(* Properties *)

\* The fields of the desktop and of the parser keep their types; between two
\* reports no button waits in the parser (input.rs, pending_button).
TypeOK ==
  /\ \A i \in 1 .. Count(desk) :
       desk.windows[i] \in [id : Windows, minimized : BOOLEAN, maximized : BOOLEAN,
                            frame : {"placed", "full"}, restore : {"none", "placed", "full"}]
  /\ IsInjective([i \in 1 .. Count(desk) |-> desk.windows[i].id])
  /\ desk.open \in BOOLEAN /\ desk.hover \in {"none", "apps", "sub", "down"}
  /\ parser.btn = NoButton /\ parser.rel \in BOOLEAN /\ parser.wheel \in BOOLEAN
  /\ held \in BOOLEAN /\ stale \in BOOLEAN /\ behind \subseteq Areas

\* Every index the desktop keeps is one of a window, whatever was closed,
\* raised or opened since, and even when releases are lost: the code indexes
\* the vector with the old hover without a test (button_damage_rect_for), and
\* an index past the end would end the window manager.
IndicesInRange ==
  /\ {desk.focused, desk.btn, desk.task} \subseteq 0 .. Count(desk)
  /\ \A k \in Kinds : desk.press[k].idx \in 0 .. Count(desk)

\* The window that gets the keys is the topmost one that can be seen, and no
\* window has them only if none is seen.
FocusTopmost == stale \/ desk.focused = topmost_visible_window_index(desk)

\* While the button is held, the index a press keeps names the window that was
\* pressed, although the vector has changed: the release closes, minimizes,
\* maximizes or drops that window and no other.
PressNamesWindow ==
  stale \/ \A k \in Kinds : desk.press[k].idx # None =>
             desk.windows[desk.press[k].idx].id = desk.press[k].id

\* A window has a frame to go back to exactly while it is maximized, and that
\* frame is a placed one.
RestoreKept ==
  \A i \in 1 .. Count(desk) :
    LET w == desk.windows[i] IN
    /\ w.maximized <=> w.restore # "none"
    /\ stale \/ (w.maximized <=> w.frame = "full")

\* After each turn the whole screen shows the desktop: every handler marked
\* what it changed.
ScreenCurrent == stale \/ behind = {}

\* A report with one button gives that button, whatever waits in the parser
\* and whatever the keyboard reports in between, and a motion that was not
\* given yet is kept (a second button in a report replaces the first).
NothingSwallowed ==
  \A v \in BOOLEAN : \A r \in Reports(v) \cup Mixed(v) :
    LET s == Parsed(parser, r)
        buttons(q) == SelectSeq(q, LAMBDA e : e.t = "btn")
    IN  /\ Len(buttons(r)) = 1 => buttons(s.out) = buttons(r)
        /\ parser.rel \/ Rel \in Range(r) => s.p.rel \/ Rel \in Range(s.out)

\* The desktop keeps its types, its indices are those of windows, and a window
\* knows the frame to go back to, lost reports or not.
DeskSound == TypeOK /\ IndicesInRange /\ RestoreKept

=============================================================================
