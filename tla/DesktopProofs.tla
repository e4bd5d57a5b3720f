--------------------------- MODULE DesktopProofs ---------------------------
(***************************************************************************)
(* The safety properties of Desktop, for every number of windows and every *)
(* set of icons.                                                           *)
(***************************************************************************)
EXTENDS Desktop, Integers, WellFoundedInduction, TLAPS

Hovers == {"none", "apps", "sub", "down"}

Window ==
  [id : Windows, minimized : BOOLEAN, maximized : BOOLEAN,
   frame : {"placed", "full"}, restore : {"none", "placed"}]

PressType == [idx : Nat, id : Windows \cup {NoWindow}]

DeskType ==
  [windows : Seq(Window), focused : Nat, open : BOOLEAN, hover : Hovers,
   task : Nat, btn : Nat, icon : Nat, selected : Nat,
   press : [Kinds -> PressType], dirty : SUBSET Areas]

\* The indices the desktop keeps.
Ranges(d) ==
  /\ d.focused <= Count(d) /\ d.task <= Count(d) /\ d.btn <= Count(d)
  /\ \A k \in Kinds : d.press[k].idx <= Count(d)

Distinct(d) == \A i, j \in 1 .. Count(d) : d.windows[i].id = d.windows[j].id => i = j

\* A window that fills the work area is maximized, and one that is maximized has
\* a placed frame to go back to.
WindowSound(w) == (w.maximized <=> w.restore = "placed") /\ (w.frame = "full" => w.maximized)

Restores(d) == \A i \in 1 .. Count(d) : WindowSound(d.windows[i])

\* What holds of the desktop in every history, lost reports included.
Sound(d) == d \in DeskType /\ Ranges(d) /\ Distinct(d) /\ Restores(d)

\* What a press knows of the window it was made on.
PressRight(d, k) ==
  d.press[k].idx # None =>
    /\ d.windows[d.press[k].idx].id = d.press[k].id
    /\ k = "max" => ~d.windows[d.press[k].idx].minimized
    /\ k = "drag" => ~d.windows[d.press[k].idx].maximized

\* What holds in addition while no press has outlived its release: at most one
\* press waits.
Calm(d) ==
  /\ Settled(d)
  /\ \A k \in Kinds : PressRight(d, k)
  /\ \A j, k \in Kinds : d.press[j].idx # None /\ d.press[k].idx # None => j = k

\* Between two reports no button waits in the parser.
ParserOK(p) ==
  /\ p.btn = NoButton /\ p.rel \in BOOLEAN /\ p.wheel \in BOOLEAN
  /\ p = [btn |-> p.btn, rel |-> p.rel, wheel |-> p.wheel]

\* The inductive invariant.
IInv ==
  /\ Sound(desk) /\ desk.dirty = {}
  /\ ParserOK(parser)
  /\ held \in BOOLEAN /\ stale \in BOOLEAN /\ behind \subseteq Areas
  /\ ~stale => Calm(desk) /\ behind = {} /\ (Waiting(desk) => held)


\* What e shows where it is not dirty is what d shows, and nothing that was
\* dirty has become clean.
Looks(d, e) ==
  /\ d.dirty \subseteq e.dirty
  /\ "icons" \notin e.dirty => e.icon = d.icon /\ e.selected = d.selected
  /\ "windows" \notin e.dirty => e.windows = d.windows /\ e.focused = d.focused /\ e.btn = d.btn
  /\ "taskbar" \notin e.dirty =>
       /\ e.focused = d.focused /\ e.task = d.task
       /\ Count(e) = Count(d) /\ \A i \in 1 .. Count(d) : e.windows[i].id = d.windows[i].id
       /\ e.focused \in Visible(e) <=> d.focused \in Visible(d)
  /\ "menu" \notin e.dirty => e.open = d.open /\ (e.open => e.hover = d.hover)

\* What a handler does to a desktop.
Step(d, e) == Sound(e) /\ (Calm(d) => Calm(e) /\ Looks(d, e))

\* The same windows, focus and presses.
SameCore(d, e) == e.windows = d.windows /\ e.focused = d.focused /\ e.press = d.press

-----------------------------------------------------------------------------
(* Desktops field by field *)

LEMMA MarkIs ==
  ASSUME NEW d \in DeskType, NEW areas \in SUBSET Areas
  PROVE  /\ mark(d, areas) \in DeskType /\ SameCore(d, mark(d, areas))
         /\ mark(d, areas).dirty = d.dirty \cup areas
         /\ mark(d, areas).open = d.open /\ mark(d, areas).hover = d.hover
         /\ mark(d, areas).task = d.task /\ mark(d, areas).btn = d.btn
         /\ mark(d, areas).icon = d.icon /\ mark(d, areas).selected = d.selected
BY Zenon DEF mark, DeskType, SameCore

LEMMA SoundKept ==
  ASSUME NEW d, Sound(d), NEW e \in DeskType, SameCore(d, e), e.task <= Count(d), e.btn <= Count(d)
  PROVE  Sound(e)
BY Zenon DEF Sound, SameCore, Ranges, Distinct, Restores, Count

LEMMA CalmKept ==
  ASSUME NEW d, Calm(d), NEW e, SameCore(d, e)
  PROVE  Calm(e)
BY DEF Calm, SameCore, Settled, PressRight, Count, topmost_visible_window_index, Visible

-----------------------------------------------------------------------------
(* The topmost visible window *)

LEMMA Smallest ==
  ASSUME NEW T \in SUBSET Nat, T # {}
  PROVE  \E x \in T : \A y \in T : x <= y
<1> DEFINE R == {xy \in Nat \X Nat : xy[1] < xy[2]}
<1>1. IsWellFoundedOn(R, Nat)
  BY NatLessThanWellFounded, Zenon DEF OpToRel
<1>2. PICK x \in T : \A y \in T : ~ (<<y, x>> \in R)
  BY <1>1, WFMin, Zenon
<1>3. ASSUME NEW y \in T PROVE x <= y
  <2>1. x \in Nat /\ y \in Nat /\ ~(<<y, x>> \in R)
    BY <1>2, Zenon
  <2>2. QED
    BY <2>1
<1>4. QED
  BY <1>2, <1>3, Zenon

LEMMA MaxOr0Is ==
  ASSUME NEW n \in Nat, NEW S \in SUBSET (1 .. n)
  PROVE  /\ S = {} => MaxOr0(S) = 0
         /\ S # {} => MaxOr0(S) \in S /\ \A j \in S : j <= MaxOr0(S)
<1>1. CASE S = {}
  BY <1>1, Zenon DEF MaxOr0, None
<1>2. CASE S # {}
  <2> DEFINE T == {m \in 0 .. n : n - m \in S}
  <2>1. T \in SUBSET Nat
    OBVIOUS
  <2>2. T # {}
    <3>1. PICK j \in S : TRUE
      BY <1>2, Zenon
    <3>2. j \in 1 .. n
      BY Zenon
    <3>3. n - j \in 0 .. n /\ n - (n - j) = j
      BY <3>2
    <3>4. QED
      BY <3>3, Zenon
  <2>3. PICK x \in T : \A y \in T : x <= y
    BY <2>1, <2>2, Smallest, Zenon
  <2>4. x \in 0 .. n /\ n - x \in S
    BY Zenon
  <2>5. ASSUME NEW j \in S PROVE j <= n - x
    <3>1. j \in 1 .. n
      BY Zenon
    <3>2. n - j \in 0 .. n /\ n - (n - j) = j
      BY <3>1
    <3>3. x <= n - j
      BY <2>3, <3>2, Zenon
    <3>4. QED
      BY <2>4, <3>1, <3>3
  <2>6. QED
    BY <1>2, <2>4, <2>5, Zenon DEF MaxOr0
<1>3. QED
  BY <1>1, <1>2, Zenon

\* The focus refocus_after_visibility_change gives is that of a visible window.
LEMMA TopmostIs ==
  ASSUME NEW d \in DeskType
  PROVE  /\ topmost_visible_window_index(d) \in 0 .. Count(d)
         /\ Visible(d) = {} => topmost_visible_window_index(d) = None
         /\ Visible(d) # {} => topmost_visible_window_index(d) \in Visible(d)
<1>1. Count(d) \in Nat /\ Visible(d) \in SUBSET (1 .. Count(d))
  BY DEF DeskType, Count, Visible
<1> DEFINE V == Visible(d)
<1> HIDE DEF V
<1>2. /\ V = {} => MaxOr0(V) = 0
      /\ V # {} => MaxOr0(V) \in V
  BY <1>1, MaxOr0Is, Zenon DEF V
<1>3. QED
  BY <1>1, <1>2 DEF topmost_visible_window_index, None, V

\* A visible window at the end of the vector is the topmost one.
LEMMA TopmostLast ==
  ASSUME NEW d \in DeskType, Count(d) # 0, ~d.windows[Count(d)].minimized
  PROVE  topmost_visible_window_index(d) = Count(d)
<1>1. Count(d) \in Nat /\ Visible(d) \in SUBSET (1 .. Count(d)) /\ Count(d) \in Visible(d)
  BY DEF DeskType, Count, Visible
<1> DEFINE V == Visible(d)
           n == Count(d)
<1> HIDE DEF V, n
<1>2. n \in Nat /\ V \in SUBSET (1 .. n) /\ n \in V
  BY <1>1, Zenon DEF V, n
<1>3. MaxOr0(V) \in V /\ \A j \in V : j <= MaxOr0(V)
  BY <1>2, MaxOr0Is, Zenon
<1>4. MaxOr0(V) \in 1 .. n /\ n <= MaxOr0(V)
  BY <1>2, <1>3, Zenon
<1>5. MaxOr0(V) = n
  BY <1>2, <1>4
<1>6. QED
  BY <1>5, Zenon DEF topmost_visible_window_index, V, n

-----------------------------------------------------------------------------
(* The vector of windows *)

LEMMA WithoutIs ==
  ASSUME NEW S, NEW s \in Seq(S), NEW i \in 1 .. Len(s)
  PROVE  /\ Without(s, i) \in Seq(S) /\ Len(Without(s, i)) = Len(s) - 1
         /\ \A j \in 1 .. (Len(s) - 1) : Without(s, i)[j] = s[IF j < i THEN j ELSE j + 1]
BY DEF Without

LEMMA AppendIs ==
  ASSUME NEW S, NEW s \in Seq(S), NEW x \in S
  PROVE  /\ Append(s, x) \in Seq(S) /\ Len(Append(s, x)) = Len(s) + 1
         /\ \A j \in 1 .. Len(s) : Append(s, x)[j] = s[j]
         /\ Append(s, x)[Len(s) + 1] = x
OBVIOUS

\* Raising a window is a rotation of the end of the vector.
LEMMA RaisedIs ==
  ASSUME NEW S, NEW s \in Seq(S), NEW i \in 1 .. Len(s), NEW x \in S
  PROVE  /\ Append(Without(s, i), x) \in Seq(S) /\ Len(Append(Without(s, i), x)) = Len(s)
         /\ \A j \in 1 .. (Len(s) - 1) :
              Append(Without(s, i), x)[j] = s[IF j < i THEN j ELSE j + 1]
         /\ Append(Without(s, i), x)[Len(s)] = x
<1> DEFINE t == Without(s, i)
<1>1. t \in Seq(S) /\ Len(t) = Len(s) - 1 /\ \A j \in 1 .. (Len(s) - 1) : t[j] = s[IF j < i THEN j ELSE j + 1]
  BY WithoutIs, Zenon
<1> HIDE DEF t
<1>2. /\ Append(t, x) \in Seq(S) /\ Len(Append(t, x)) = Len(t) + 1
      /\ \A j \in 1 .. Len(t) : Append(t, x)[j] = t[j]
      /\ Append(t, x)[Len(t) + 1] = x
  BY <1>1, AppendIs, Zenon
<1>3. Len(t) + 1 = Len(s)
  BY <1>1
<1>4. QED
  BY <1>1, <1>2, <1>3, Zenon DEF t

-----------------------------------------------------------------------------
(* Operations on the windows *)

\* The same for a handler that is given a desktop where no press waits.
DownStep(d, e) == Sound(e) /\ (Calm(d) /\ ~Waiting(d) => Calm(e) /\ Looks(d, e))

LEMMA AllDirty ==
  ASSUME NEW d \in DeskType, NEW e, e.dirty = Areas
  PROVE  Looks(d, e)
BY Zenon DEF Looks, DeskType, Areas

LEMMA LooksTwice ==
  ASSUME NEW d, NEW e, NEW f, Looks(d, e), Looks(e, f)
  PROVE  Looks(d, f)
BY Zenon DEF Looks, Count

LEMMA StepTwice ==
  ASSUME NEW d, NEW e, NEW f, Step(d, e), Step(e, f)
  PROVE  Step(d, f)
BY LooksTwice, Zenon DEF Step

LEMMA StepStays ==
  ASSUME NEW d, Sound(d)
  PROVE  Step(d, d)
BY Zenon DEF Step, Looks

LEMMA DownFromStep ==
  ASSUME NEW d, NEW e, Step(d, e)
  PROVE  DownStep(d, e)
BY Zenon DEF Step, DownStep

LEMMA SoundTypes ==
  ASSUME NEW d, Sound(d)
  PROVE  /\ d \in DeskType /\ d.windows \in Seq(Window) /\ Count(d) \in Nat /\ Count(d) = Len(d.windows)
         /\ \A i \in 1 .. Count(d) : d.windows[i] \in Window
         /\ d.press \in [Kinds -> PressType]
         /\ \A k \in Kinds : d.press[k].idx \in 0 .. Count(d)
BY DEF Sound, DeskType, Count, Ranges, PressType

LEMMA SetWindows ==
  ASSUME NEW d \in DeskType, NEW w \in Seq(Window)
  PROVE  LET e == [d EXCEPT !.windows = w] IN
         /\ e \in DeskType /\ e.windows = w /\ e.focused = d.focused /\ e.press = d.press
         /\ e.task = d.task /\ e.btn = d.btn /\ e.dirty = d.dirty
BY Zenon DEF DeskType

LEMMA SetFocused ==
  ASSUME NEW d \in DeskType, NEW n \in Nat
  PROVE  LET e == [d EXCEPT !.focused = n] IN
         /\ e \in DeskType /\ e.windows = d.windows /\ e.focused = n /\ e.press = d.press
         /\ e.task = d.task /\ e.btn = d.btn /\ e.dirty = d.dirty
BY Zenon DEF DeskType

LEMMA SetPress ==
  ASSUME NEW d \in DeskType, NEW p \in [Kinds -> PressType]
  PROVE  LET e == [d EXCEPT !.press = p] IN
         /\ e \in DeskType /\ e.windows = d.windows /\ e.focused = d.focused /\ e.press = p
         /\ e.task = d.task /\ e.btn = d.btn /\ e.dirty = d.dirty
         /\ e.open = d.open /\ e.hover = d.hover /\ e.icon = d.icon /\ e.selected = d.selected
BY Zenon DEF DeskType

LEMMA MarkDirtyIs ==
  ASSUME NEW d \in DeskType
  PROVE  LET e == mark_dirty(d) IN
         /\ e \in DeskType /\ e.windows = d.windows /\ e.focused = d.focused /\ e.press = d.press
         /\ e.task = d.task /\ e.btn = d.btn /\ e.dirty = Areas
BY Zenon DEF DeskType, mark_dirty, mark

\* The window launch_app adds is the last one, and has the focus.
LEMMA LaunchIs ==
  ASSUME NEW d \in DeskType, NEW id \in Windows
  PROVE  LET e == launch_app(d, id) IN
         /\ e \in DeskType /\ e.windows = Append(d.windows, new_window(id))
         /\ e.focused = Count(d) + 1 /\ e.press = d.press
         /\ e.task = d.task /\ e.btn = d.btn /\ e.dirty = Areas
<1> DEFINE w == Append(d.windows, new_window(id))
           d1 == [d EXCEPT !.windows = w]
           d2 == [d1 EXCEPT !.focused = Count(d) + 1]
<1>1. new_window(id) \in Window
  BY Zenon DEF new_window, Window
<1>2. w \in Seq(Window) /\ Count(d) + 1 \in Nat
  BY <1>1, AppendIs DEF DeskType, Count
<1> HIDE DEF w
<1>3. /\ d1 \in DeskType /\ d1.windows = w /\ d1.focused = d.focused /\ d1.press = d.press
      /\ d1.task = d.task /\ d1.btn = d.btn
  BY <1>2, SetWindows, Zenon
<1> HIDE DEF d1
<1>4. /\ d2 \in DeskType /\ d2.windows = w /\ d2.focused = Count(d) + 1 /\ d2.press = d.press
      /\ d2.task = d.task /\ d2.btn = d.btn
  BY <1>2, <1>3, SetFocused, Zenon
<1> HIDE DEF d2
<1>5. launch_app(d, id) = mark_dirty(d2)
  BY Zenon DEF launch_app, d2, d1, w
<1>6. QED
  BY <1>4, <1>5, MarkDirtyIs DEF w

\* A program's or the menu's new window: the indices of the others stay.
LEMMA LaunchStep ==
  ASSUME NEW d, Sound(d), NEW id \in Windows, \A i \in 1 .. Count(d) : d.windows[i].id # id
  PROVE  Step(d, launch_app(d, id))
<1> DEFINE e == launch_app(d, id)
           n == Count(d)
<1>1. /\ d \in DeskType /\ d.windows \in Seq(Window) /\ n \in Nat /\ n = Len(d.windows)
      /\ \A k \in Kinds : d.press[k].idx \in 0 .. n
  BY SoundTypes, Zenon
<1>2. /\ e \in DeskType /\ e.windows = Append(d.windows, new_window(id))
      /\ e.focused = n + 1 /\ e.press = d.press
      /\ e.task = d.task /\ e.btn = d.btn /\ e.dirty = Areas
  BY <1>1, LaunchIs, Zenon
<1> HIDE DEF e
<1>3. new_window(id) \in Window
  BY Zenon DEF new_window, Window
<1>4. /\ Count(e) = n + 1 /\ \A j \in 1 .. n : e.windows[j] = d.windows[j]
      /\ e.windows[n + 1] = new_window(id)
  BY <1>1, <1>2, <1>3, AppendIs DEF Count
<1> HIDE DEF n
<1>5. Ranges(e)
  BY <1>1, <1>2, <1>4 DEF Ranges, Sound, n, DeskType
<1>6. Distinct(e)
  <2>1. Distinct(d) /\ e.windows[n + 1].id = id
    BY <1>4 DEF Sound, new_window
  <2>2. \A j \in 1 .. n : e.windows[j].id = d.windows[j].id /\ e.windows[j].id # id
    BY <1>4, Zenon DEF n
  <2>3. ASSUME NEW i \in 1 .. (n + 1), NEW j \in 1 .. (n + 1), e.windows[i].id = e.windows[j].id
        PROVE  i = j
    <3>1. (i \in 1 .. n \/ i = n + 1) /\ (j \in 1 .. n \/ j = n + 1)
      BY <1>1
    <3>2. QED
      BY <2>1, <2>2, <2>3, <3>1, Zenon DEF Distinct, n
  <2>4. QED
    BY <1>4, <2>3, Zenon DEF Distinct
<1>7. Restores(e)
  BY <1>1, <1>4 DEF Restores, Sound, n, new_window, WindowSound
<1>8. ASSUME Calm(d) PROVE Calm(e)
  <2>1. e.focused = topmost_visible_window_index(e)
    BY <1>1, <1>2, <1>4, TopmostLast DEF new_window
  <2>2. Settled(e)
    BY <1>1, <1>4, <1>8, <2>1 DEF Calm, Settled, n, new_window
  <2>3. ASSUME NEW k \in Kinds PROVE PressRight(e, k)
    <3>1. PressRight(d, k) /\ d.press[k].idx \in 0 .. n
      BY <1>1, <1>8, Zenon DEF Calm
    <3>2. QED
      BY <1>1, <1>2, <1>4, <3>1 DEF PressRight, None
  <2>4. QED
    BY <1>2, <1>8, <2>2, <2>3, Zenon DEF Calm
<1>9. QED
  BY <1>1, <1>2, <1>5, <1>6, <1>7, <1>8, AllDirty, Zenon DEF Step, Sound, e

LEMMA LaunchedStep ==
  ASSUME NEW d, Sound(d), NEW e \in Launched(d)
  PROVE  Step(d, e)
BY LaunchStep, Zenon DEF Launched

LEMMA AppStep ==
  ASSUME NEW d, Sound(d), NEW e \in App(d)
  PROVE  Step(d, e)
BY LaunchedStep, StepStays, Zenon DEF App

\* focus_window moves a window to the end of the vector and shows it.
LEMMA FocusIs ==
  ASSUME NEW d \in DeskType, NEW i \in 1 .. Count(d)
  PROVE  LET e == focus_window(d, i)
             n == Count(d)
         IN  /\ e \in DeskType /\ Count(e) = n
             /\ \A j \in 1 .. (n - 1) : e.windows[j] = d.windows[IF j < i THEN j ELSE j + 1]
             /\ e.windows[n] = [d.windows[i] EXCEPT !.minimized = FALSE]
             /\ e.focused = n /\ e.press = d.press
             /\ e.task = d.task /\ e.btn = d.btn /\ e.dirty = Areas
<1> DEFINE n == Count(d)
           x == [d.windows[i] EXCEPT !.minimized = FALSE]
           w == Append(Without(d.windows, i), x)
           d1 == [d EXCEPT !.windows = w]
           d2 == [d1 EXCEPT !.focused = n]
<1>1. d.windows \in Seq(Window) /\ n \in Nat /\ n = Len(d.windows) /\ i \in 1 .. Len(d.windows)
  BY DEF DeskType, Count
<1>2. d.windows[i] \in Window
  BY <1>1
<1>3. x \in Window
  BY <1>2, Zenon DEF Window
<1> HIDE DEF x
<1>4. /\ w \in Seq(Window) /\ Len(w) = n
      /\ \A j \in 1 .. (n - 1) : w[j] = d.windows[IF j < i THEN j ELSE j + 1]
      /\ w[n] = x
  BY <1>1, <1>3, RaisedIs
<1> HIDE DEF w
<1>5. /\ d1 \in DeskType /\ d1.windows = w /\ d1.focused = d.focused /\ d1.press = d.press
      /\ d1.task = d.task /\ d1.btn = d.btn
  BY <1>4, SetWindows, Zenon
<1> HIDE DEF d1
<1>6. /\ d2 \in DeskType /\ d2.windows = w /\ d2.focused = n /\ d2.press = d.press
      /\ d2.task = d.task /\ d2.btn = d.btn
  BY <1>1, <1>5, SetFocused, Zenon
<1> HIDE DEF d2
<1>7. focus_window(d, i) = mark_dirty(d2)
  BY Zenon DEF focus_window, d2, d1, w, x, n
<1>8. LET e == focus_window(d, i) IN
      /\ e \in DeskType /\ e.windows = w /\ e.focused = n /\ e.press = d.press
      /\ e.task = d.task /\ e.btn = d.btn /\ e.dirty = Areas
  BY <1>6, <1>7, MarkDirtyIs, Zenon
<1>9. QED
  BY <1>4, <1>8, Zenon DEF Count, x

\* Raising a window keeps every index one of a window, and shows it; where no
\* press waits nothing names the windows that moved.
LEMMA FocusStep ==
  ASSUME NEW d, Sound(d), NEW i \in 1 .. Count(d)
  PROVE  DownStep(d, focus_window(d, i))
<1> DEFINE e == focus_window(d, i)
           n == Count(d)
           from(j) == IF j = n THEN i ELSE IF j < i THEN j ELSE j + 1
<1>1. /\ d \in DeskType /\ n \in Nat /\ i \in 1 .. n
      /\ \A j \in 1 .. n : d.windows[j] \in Window
      /\ \A k \in Kinds : d.press[k].idx \in 0 .. n
  BY SoundTypes, Zenon
<1>2. /\ e \in DeskType /\ Count(e) = n
      /\ \A j \in 1 .. (n - 1) : e.windows[j] = d.windows[IF j < i THEN j ELSE j + 1]
      /\ e.windows[n] = [d.windows[i] EXCEPT !.minimized = FALSE]
      /\ e.focused = n /\ e.press = d.press
      /\ e.task = d.task /\ e.btn = d.btn /\ e.dirty = Areas
  BY <1>1, FocusIs, Zenon
<1> HIDE DEF e
<1>3. ASSUME NEW j \in 1 .. n
      PROVE  /\ from(j) \in 1 .. n
             /\ e.windows[j].id = d.windows[from(j)].id
             /\ e.windows[j].maximized = d.windows[from(j)].maximized
             /\ e.windows[j].frame = d.windows[from(j)].frame
             /\ e.windows[j].restore = d.windows[from(j)].restore
  <2>1. CASE j = n
    BY <1>1, <1>2, <2>1, Zenon DEF Window
  <2>2. CASE j # n
    <3>1. j \in 1 .. (n - 1)
      BY <1>1, <2>2
    <3>2. QED
      BY <1>1, <1>2, <2>2, <3>1
  <2>3. QED
    BY <2>1, <2>2, Zenon
<1>4. \A j, k \in 1 .. n : from(j) = from(k) => j = k
  BY <1>1
<1> HIDE DEF n, from
<1>5. Ranges(e)
  BY <1>1, <1>2 DEF Ranges, Sound, n
<1>6. Distinct(e)
  BY <1>2, <1>3, <1>4 DEF Distinct, Sound, n
<1>7. Restores(e)
  BY <1>2, <1>3 DEF Restores, Sound, n, WindowSound
<1>8. ASSUME Calm(d), ~Waiting(d) PROVE Calm(e)
  <2>1. Count(e) # 0 /\ ~e.windows[Count(e)].minimized /\ e.focused = Count(e)
    BY <1>1, <1>2 DEF Window
  <2>2. e.focused = topmost_visible_window_index(e)
    BY <1>2, <2>1, TopmostLast, Zenon
  <2>3. Settled(e)
    BY <1>2, <1>3, <1>8, <2>2 DEF Calm, Settled, n
  <2>4. \A k \in Kinds : e.press[k].idx = None
    BY <1>2, <1>8, Zenon DEF Waiting
  <2>5. QED
    BY <2>3, <2>4, Zenon DEF Calm, PressRight
<1>9. QED
  BY <1>1, <1>2, <1>5, <1>6, <1>7, <1>8, AllDirty, Zenon DEF DownStep, Sound, e

\* Presses are taken: the windows stay as they are.
LEMMA TakenStep ==
  ASSUME NEW d, Sound(d), NEW p \in [Kinds -> PressType], \A k \in Kinds : p[k] \in {d.press[k], NoPress}
  PROVE  Step(d, [d EXCEPT !.press = p])
<1> DEFINE e == [d EXCEPT !.press = p]
<1>1. d \in DeskType /\ Count(d) \in Nat
  BY SoundTypes, Zenon
<1>2. /\ e \in DeskType /\ e.windows = d.windows /\ e.focused = d.focused /\ e.press = p
      /\ e.task = d.task /\ e.btn = d.btn /\ e.dirty = d.dirty
      /\ e.open = d.open /\ e.hover = d.hover /\ e.icon = d.icon /\ e.selected = d.selected
  BY <1>1, SetPress, Zenon
<1> HIDE DEF e
<1>3. Count(e) = Count(d) /\ Visible(e) = Visible(d)
  BY <1>2, Zenon DEF Count, Visible
<1>4. Ranges(e)
  BY <1>1, <1>2, <1>3 DEF Ranges, Sound, NoPress, None
<1>5. Distinct(e) /\ Restores(e)
  BY <1>2, <1>3, Zenon DEF Distinct, Restores, Sound
<1>6. Looks(d, e)
  BY <1>2, <1>3, Zenon DEF Looks
<1>7. ASSUME Calm(d) PROVE Calm(e)
  <2>1. Settled(e)
    BY <1>2, <1>3, <1>7, Zenon DEF Calm, Settled, topmost_visible_window_index
  <2>2. \A k \in Kinds : PressRight(e, k)
    BY <1>2, <1>7 DEF Calm, PressRight, NoPress
  <2>3. QED
    BY <1>2, <1>7, <2>1, <2>2 DEF Calm, NoPress
<1>8. QED
  BY <1>2, <1>4, <1>5, <1>6, <1>7, Zenon DEF Step, Sound, e

\* refocus_after_visibility_change, on a desktop whose windows are settled but
\* for the focus.
LEMMA RefocusIs ==
  ASSUME NEW d \in DeskType
  PROVE  LET e == refocus_after_visibility_change(d) IN
         /\ e \in DeskType /\ e.windows = d.windows /\ Count(e) = Count(d) /\ e.press = d.press
         /\ e.focused = topmost_visible_window_index(e) /\ e.focused \in 0 .. Count(d)
         /\ e.task = d.task /\ e.btn = d.btn /\ e.dirty = Areas
<1> DEFINE t == topmost_visible_window_index(d)
           d1 == [d EXCEPT !.focused = t]
<1>1. t \in 0 .. Count(d) /\ t \in Nat
  BY TopmostIs
<1> HIDE DEF t
<1>2. /\ d1 \in DeskType /\ d1.windows = d.windows /\ d1.focused = t /\ d1.press = d.press
      /\ d1.task = d.task /\ d1.btn = d.btn
  BY <1>1, SetFocused, Zenon
<1> HIDE DEF d1
<1>3. refocus_after_visibility_change(d) = mark_dirty(d1)
  BY Zenon DEF refocus_after_visibility_change, d1, t
<1>4. LET e == refocus_after_visibility_change(d) IN
      /\ e \in DeskType /\ e.windows = d.windows /\ e.focused = t /\ e.press = d.press
      /\ e.task = d.task /\ e.btn = d.btn /\ e.dirty = Areas
  BY <1>2, <1>3, MarkDirtyIs, Zenon
<1>5. QED
  BY <1>1, <1>4, Zenon DEF Count, topmost_visible_window_index, Visible, t

LEMMA CloseIs ==
  ASSUME NEW d \in DeskType, NEW i \in 1 .. Count(d)
  PROVE  LET e == close_window(d, i)
             n == Count(d)
         IN  /\ e \in DeskType /\ Count(e) = n - 1
             /\ \A j \in 1 .. (n - 1) : e.windows[j] = d.windows[IF j < i THEN j ELSE j + 1]
             /\ e.focused = topmost_visible_window_index(e) /\ e.focused <= n - 1
             /\ \A k \in Kinds : e.press[k] = NoPress
             /\ e.task = None /\ e.btn = None /\ e.dirty = Areas
<1> DEFINE n == Count(d)
           w == Without(d.windows, i)
           p == [k \in Kinds |-> NoPress]
           d1 == [d EXCEPT !.windows = w, !.btn = None, !.task = None, !.press = p]
<1>1. d.windows \in Seq(Window) /\ n \in Nat /\ n = Len(d.windows) /\ i \in 1 .. Len(d.windows)
  BY DEF DeskType, Count
<1>2. /\ w \in Seq(Window) /\ Len(w) = n - 1
      /\ \A j \in 1 .. (n - 1) : w[j] = d.windows[IF j < i THEN j ELSE j + 1]
  BY <1>1, WithoutIs, Zenon
<1> HIDE DEF w
<1>3. p \in [Kinds -> PressType] /\ \A k \in Kinds : p[k] = NoPress
  BY Zenon DEF NoPress, PressType, None
<1> HIDE DEF p
<1>4. /\ d1 \in DeskType /\ d1.windows = w /\ d1.press = p /\ d1.task = None /\ d1.btn = None
  BY <1>2, <1>3, Zenon DEF DeskType, None
<1> HIDE DEF d1
<1>5. close_window(d, i) = refocus_after_visibility_change(d1)
  BY Zenon DEF close_window, d1, w, p
<1> DEFINE e == close_window(d, i)
<1>6. /\ e \in DeskType /\ e.windows = w /\ Count(e) = Count(d1) /\ e.press = p
      /\ e.focused = topmost_visible_window_index(e) /\ e.focused \in 0 .. Count(d1)
      /\ e.task = None /\ e.btn = None /\ e.dirty = Areas
  BY <1>4, <1>5, RefocusIs
<1> HIDE DEF e
<1>7. Count(d1) = n - 1
  BY <1>2, <1>4, Zenon DEF Count
<1>8. QED
  BY <1>1, <1>2, <1>3, <1>6, <1>7 DEF e

\* Closing a window: every index into the vector is reset or found again.
LEMMA CloseStep ==
  ASSUME NEW d, Sound(d), NEW i \in 1 .. Count(d)
  PROVE  Step(d, close_window(d, i))
<1> DEFINE e == close_window(d, i)
           n == Count(d)
           from(j) == IF j < i THEN j ELSE j + 1
<1>1. d \in DeskType /\ n \in Nat /\ i \in 1 .. n
  BY SoundTypes, Zenon
<1>2. /\ e \in DeskType /\ Count(e) = n - 1
      /\ \A j \in 1 .. (n - 1) : e.windows[j] = d.windows[from(j)]
      /\ e.focused = topmost_visible_window_index(e) /\ e.focused <= n - 1
      /\ \A k \in Kinds : e.press[k] = NoPress
      /\ e.task = None /\ e.btn = None /\ e.dirty = Areas
  BY <1>1, CloseIs, Zenon
<1> HIDE DEF e
<1>3. \A j \in 1 .. (n - 1) : from(j) \in 1 .. n
  BY <1>1
<1>4. \A j, k \in 1 .. (n - 1) : from(j) = from(k) => j = k
  BY <1>1
<1>5. Ranges(e)
  BY <1>1, <1>2 DEF Ranges, NoPress, None
<1> HIDE DEF n, from
<1>6. Distinct(e)
  BY <1>2, <1>3, <1>4 DEF Distinct, Sound, n
<1>7. Restores(e)
  BY <1>2, <1>3, Zenon DEF Restores, Sound, n
<1>8. ASSUME Calm(d) PROVE Calm(e)
  <2>1. Settled(e)
    BY <1>2, <1>3, <1>8 DEF Calm, Settled, n
  <2>2. QED
    BY <1>2, <2>1 DEF Calm, PressRight, NoPress
<1>9. QED
  BY <1>1, <1>2, <1>5, <1>6, <1>7, <1>8, AllDirty, Zenon DEF Step, Sound, e

\* One window of the vector is changed.
LEMMA SetWindow ==
  ASSUME NEW d \in DeskType, NEW i \in 1 .. Count(d), NEW x \in Window
  PROVE  LET e == [d EXCEPT !.windows[i] = x] IN
         /\ e \in DeskType /\ Count(e) = Count(d)
         /\ \A j \in 1 .. Count(d) : e.windows[j] = IF j = i THEN x ELSE d.windows[j]
         /\ e.focused = d.focused /\ e.press = d.press
         /\ e.task = d.task /\ e.btn = d.btn /\ e.dirty = d.dirty
         /\ e.open = d.open /\ e.hover = d.hover /\ e.icon = d.icon /\ e.selected = d.selected
<1> DEFINE w == [d.windows EXCEPT ![i] = x]
           e == [d EXCEPT !.windows = w]
<1>1. /\ w \in Seq(Window) /\ Len(w) = Len(d.windows)
      /\ \A j \in 1 .. Len(d.windows) : w[j] = IF j = i THEN x ELSE d.windows[j]
  BY DEF DeskType, Count
<1> HIDE DEF w
<1>2. /\ e \in DeskType /\ e.windows = w /\ e.focused = d.focused /\ e.press = d.press
      /\ e.task = d.task /\ e.btn = d.btn /\ e.dirty = d.dirty
      /\ e.open = d.open /\ e.hover = d.hover /\ e.icon = d.icon /\ e.selected = d.selected
  BY <1>1, Zenon DEF DeskType
<1>3. QED
  BY <1>1, <1>2, Zenon DEF Count, w

\* A window keeps its name and a frame it may have.
LEMMA SetWindowSound ==
  ASSUME NEW d, Sound(d), NEW i \in 1 .. Count(d), NEW x \in Window,
         x.id = d.windows[i].id, WindowSound(x),
         NEW e \in DeskType, Count(e) = Count(d), Ranges(e),
         \A j \in 1 .. Count(d) : e.windows[j] = IF j = i THEN x ELSE d.windows[j]
  PROVE  Sound(e)
<1>1. Distinct(e)
  BY Zenon DEF Sound, Distinct
<1>2. Restores(e)
  BY Zenon DEF Sound, Restores
<1>3. QED
  BY <1>1, <1>2, Zenon DEF Sound

LEMMA MinimizeIs ==
  ASSUME NEW d \in DeskType, NEW i \in 1 .. Count(d)
  PROVE  LET e == minimize_window(d, i)
             x == [d.windows[i] EXCEPT !.minimized = TRUE]
         IN  /\ e \in DeskType /\ Count(e) = Count(d) /\ x \in Window
             /\ \A j \in 1 .. Count(d) : e.windows[j] = IF j = i THEN x ELSE d.windows[j]
             /\ e.focused = topmost_visible_window_index(e) /\ e.focused <= Count(d)
             /\ e.press = [d.press EXCEPT !["drag"] = NoPress]
             /\ e.task = d.task /\ e.btn = d.btn /\ e.dirty = Areas
<1> DEFINE x == [d.windows[i] EXCEPT !.minimized = TRUE]
           p == [d.press EXCEPT !["drag"] = NoPress]
           d1 == [d EXCEPT !.windows[i] = x]
           d2 == [d1 EXCEPT !.press = p]
           e == minimize_window(d, i)
<1>1. d.windows[i] \in Window /\ Count(d) \in Nat
  BY DEF DeskType, Count
<1>2. x \in Window
  BY <1>1, Zenon DEF Window
<1>3. p \in [Kinds -> PressType]
  BY Zenon DEF DeskType, NoPress, PressType, None
<1> HIDE DEF x, p
<1>4. /\ d1 \in DeskType /\ Count(d1) = Count(d)
      /\ \A j \in 1 .. Count(d) : d1.windows[j] = IF j = i THEN x ELSE d.windows[j]
      /\ d1.press = d.press /\ d1.task = d.task /\ d1.btn = d.btn
  BY <1>2, SetWindow, Zenon
<1>5. d2 = [d EXCEPT !.windows[i].minimized = TRUE, !.press["drag"] = NoPress]
  BY Zenon DEF x, p, DeskType
<1> HIDE DEF d1
<1>6. /\ d2 \in DeskType /\ d2.windows = d1.windows /\ d2.press = p
      /\ d2.task = d.task /\ d2.btn = d.btn
  BY <1>3, <1>4, SetPress
<1> HIDE DEF d2
<1>7. e = refocus_after_visibility_change(d2)
  BY <1>5, Zenon DEF minimize_window
<1>8. /\ e \in DeskType /\ e.windows = d2.windows /\ Count(e) = Count(d2) /\ e.press = p
      /\ e.focused = topmost_visible_window_index(e) /\ e.focused \in 0 .. Count(d2)
      /\ e.task = d.task /\ e.btn = d.btn /\ e.dirty = Areas
  BY <1>6, <1>7, RefocusIs, Zenon
<1> HIDE DEF e
<1>9. Count(d2) = Count(d)
  BY <1>4, <1>6, Zenon DEF Count
<1>10. \A j \in 1 .. Count(d) : e.windows[j] = IF j = i THEN x ELSE d.windows[j]
  BY <1>4, <1>6, <1>8, Zenon
<1>11. e.focused <= Count(d)
  BY <1>1, <1>8, <1>9
<1>12. QED
  BY <1>2, <1>8, <1>9, <1>10, <1>11, Zenon DEF e, x, p

\* Minimizing a window gives the focus to the topmost one left.
LEMMA MinimizeStep ==
  ASSUME NEW d, Sound(d), NEW i \in 1 .. Count(d)
  PROVE  DownStep(d, minimize_window(d, i))
<1> DEFINE e == minimize_window(d, i)
           x == [d.windows[i] EXCEPT !.minimized = TRUE]
<1>1. d \in DeskType /\ Count(d) \in Nat /\ d.windows[i] \in Window
      /\ d.press \in [Kinds -> PressType] /\ \A k \in Kinds : d.press[k].idx \in 0 .. Count(d)
  BY SoundTypes, Zenon
<1>2. /\ e \in DeskType /\ Count(e) = Count(d) /\ x \in Window
      /\ \A j \in 1 .. Count(d) : e.windows[j] = IF j = i THEN x ELSE d.windows[j]
      /\ e.focused = topmost_visible_window_index(e) /\ e.focused <= Count(d)
      /\ e.press = [d.press EXCEPT !["drag"] = NoPress]
      /\ e.task = d.task /\ e.btn = d.btn /\ e.dirty = Areas
  BY <1>1, MinimizeIs, Zenon
<1>3. x.id = d.windows[i].id /\ x.maximized = d.windows[i].maximized
      /\ x.frame = d.windows[i].frame /\ x.restore = d.windows[i].restore
  BY <1>1, Zenon DEF Window
<1> HIDE DEF e, x
<1>4. \A k \in Kinds : e.press[k] \in {d.press[k], NoPress}
  BY <1>1, <1>2, Zenon
<1>5. Ranges(e)
  BY <1>1, <1>2, <1>4 DEF Ranges, Sound, NoPress, None
<1>6. WindowSound(x)
  BY <1>3, Zenon DEF WindowSound, Sound, Restores
<1>7. Sound(e)
  BY <1>2, <1>3, <1>5, <1>6, SetWindowSound, Zenon
<1>8. ASSUME Calm(d), ~Waiting(d) PROVE Calm(e)
  <2>1. Settled(e)
    BY <1>2, <1>3, <1>8 DEF Calm, Settled
  <2>2. \A k \in Kinds : e.press[k].idx = None
    BY <1>4, <1>8 DEF Waiting, NoPress
  <2>3. QED
    BY <2>1, <2>2, Zenon DEF Calm, PressRight
<1>9. QED
  BY <1>1, <1>2, <1>7, <1>8, AllDirty, Zenon DEF DownStep, e

\* A step that leaves names, focus and visibility, and marks the windows: what
\* toggle_maximize_window and a drag do.
LEMMA WindowLooks ==
  ASSUME NEW d, Sound(d), NEW i \in 1 .. Count(d), NEW x \in Window,
         x.id = d.windows[i].id, x.minimized = d.windows[i].minimized,
         NEW e \in DeskType, Count(e) = Count(d),
         \A j \in 1 .. Count(d) : e.windows[j] = IF j = i THEN x ELSE d.windows[j],
         e.focused = d.focused, e.task = d.task, e.open = d.open, e.hover = d.hover,
         e.icon = d.icon, e.selected = d.selected, d.dirty \cup {"windows"} \subseteq e.dirty
  PROVE  Looks(d, e) /\ Visible(e) = Visible(d)
<1>1. Visible(e) = Visible(d)
  BY Zenon DEF Visible
<1>2. \A j \in 1 .. Count(d) : e.windows[j].id = d.windows[j].id
  BY Zenon
<1>3. QED
  BY <1>1, <1>2, Zenon DEF Looks

\* What toggle_maximize_window makes of a window.
Toggled(w) ==
  IF w.maximized
  THEN [w EXCEPT !.frame = IF w.restore # "none" THEN w.restore ELSE @,
                 !.restore = "none", !.maximized = FALSE]
  ELSE [w EXCEPT !.restore = w.frame, !.frame = "full", !.maximized = TRUE, !.minimized = FALSE]

LEMMA ToggledIs ==
  ASSUME NEW w \in Window, WindowSound(w)
  PROVE  /\ Toggled(w) \in Window /\ WindowSound(Toggled(w)) /\ Toggled(w).id = w.id
         /\ Toggled(w).maximized <=> Toggled(w).frame = "full"
         /\ ~w.minimized => ~Toggled(w).minimized
BY Zenon DEF Toggled, Window, WindowSound

LEMMA ToggleIs ==
  ASSUME NEW d \in DeskType, NEW i \in 1 .. Count(d), WindowSound(d.windows[i])
  PROVE  LET e == toggle_maximize_window(d, i) IN
         /\ e \in DeskType /\ Count(e) = Count(d)
         /\ \A j \in 1 .. Count(d) : e.windows[j] = IF j = i THEN Toggled(d.windows[i]) ELSE d.windows[j]
         /\ e.focused = d.focused /\ e.press = d.press
         /\ e.task = d.task /\ e.btn = d.btn /\ e.dirty = d.dirty \cup {"windows"}
         /\ e.open = d.open /\ e.hover = d.hover /\ e.icon = d.icon /\ e.selected = d.selected
<1> DEFINE x == Toggled(d.windows[i])
           d1 == [d EXCEPT !.windows[i] = x]
           e == toggle_maximize_window(d, i)
<1>1. d.windows[i] \in Window
  BY DEF DeskType, Count
<1>2. x \in Window
  BY <1>1, ToggledIs, Zenon
<1>3. e = mark(d1, {"windows"})
  BY Zenon DEF toggle_maximize_window, Toggled
<1> HIDE DEF x, e
<1>4. /\ d1 \in DeskType /\ Count(d1) = Count(d)
      /\ \A j \in 1 .. Count(d) : d1.windows[j] = IF j = i THEN x ELSE d.windows[j]
      /\ d1.focused = d.focused /\ d1.press = d.press
      /\ d1.task = d.task /\ d1.btn = d.btn /\ d1.dirty = d.dirty
      /\ d1.open = d.open /\ d1.hover = d.hover /\ d1.icon = d.icon /\ d1.selected = d.selected
  BY <1>2, SetWindow, Zenon
<1> HIDE DEF d1
<1>5. {"windows"} \in SUBSET Areas
  BY Zenon DEF Areas
<1>6. /\ e \in DeskType /\ SameCore(d1, e) /\ e.dirty = d1.dirty \cup {"windows"}
      /\ e.open = d1.open /\ e.hover = d1.hover /\ e.task = d1.task /\ e.btn = d1.btn
      /\ e.icon = d1.icon /\ e.selected = d1.selected
  BY <1>3, <1>4, <1>5, MarkIs, Zenon
<1>7. QED
  BY <1>4, <1>6, Zenon DEF SameCore, Count, x, e

\* Maximizing and restoring: a frame to go back to is kept exactly while the
\* window is maximized; a window that is seen stays where it is.
LEMMA ToggleStep ==
  ASSUME NEW d, Sound(d), NEW i \in 1 .. Count(d)
  PROVE  LET e == toggle_maximize_window(d, i) IN
         /\ Sound(e)
         /\ Calm(d) /\ ~Waiting(d) /\ ~d.windows[i].minimized => Calm(e) /\ Looks(d, e)
<1> DEFINE e == toggle_maximize_window(d, i)
           x == Toggled(d.windows[i])
<1>1. d \in DeskType /\ Count(d) \in Nat /\ d.windows[i] \in Window /\ WindowSound(d.windows[i])
  BY SoundTypes, Zenon DEF Sound, Restores
<1>2. /\ e \in DeskType /\ Count(e) = Count(d)
      /\ \A j \in 1 .. Count(d) : e.windows[j] = IF j = i THEN x ELSE d.windows[j]
      /\ e.focused = d.focused /\ e.press = d.press
      /\ e.task = d.task /\ e.btn = d.btn /\ e.dirty = d.dirty \cup {"windows"}
      /\ e.open = d.open /\ e.hover = d.hover /\ e.icon = d.icon /\ e.selected = d.selected
  BY <1>1, ToggleIs, Zenon
<1>3. /\ x \in Window /\ WindowSound(x) /\ x.id = d.windows[i].id
      /\ x.maximized <=> x.frame = "full"
      /\ ~d.windows[i].minimized => ~x.minimized
  BY <1>1, ToggledIs, Zenon
<1> HIDE DEF e, x
<1>4. Ranges(e)
  BY <1>2, Zenon DEF Ranges, Sound
<1>5. Sound(e)
  BY <1>2, <1>3, <1>4, SetWindowSound, Zenon
<1>6. ASSUME Calm(d), ~Waiting(d), ~d.windows[i].minimized PROVE Calm(e) /\ Looks(d, e)
  <2>1. x.minimized = d.windows[i].minimized
    BY <1>1, <1>3, <1>6, Zenon DEF Window
  <2>2. Looks(d, e) /\ Visible(e) = Visible(d)
    BY <1>2, <1>3, <2>1, WindowLooks, Zenon
  <2>3. Settled(e)
    BY <1>2, <1>3, <1>6, <2>2 DEF Calm, Settled, topmost_visible_window_index
  <2>4. \A k \in Kinds : e.press[k].idx = None
    BY <1>2, <1>6, Zenon DEF Waiting
  <2>5. QED
    BY <2>2, <2>3, <2>4, Zenon DEF Calm, PressRight
<1>7. QED
  BY <1>5, <1>6, Zenon DEF e

-----------------------------------------------------------------------------
(* Highlights, the menu and the icons *)

\* A handler that leaves the windows, the focus and the presses.
LEMMA PaintStep ==
  ASSUME NEW d, Sound(d), NEW e \in DeskType, SameCore(d, e),
         e.task <= Count(d), e.btn <= Count(d), d.dirty \subseteq e.dirty,
         "icons" \notin e.dirty => e.icon = d.icon /\ e.selected = d.selected,
         "windows" \notin e.dirty => e.btn = d.btn,
         "taskbar" \notin e.dirty => e.task = d.task,
         "menu" \notin e.dirty => e.open = d.open /\ e.hover = d.hover
  PROVE  Step(d, e)
<1>1. Sound(e) /\ (Calm(d) => Calm(e))
  BY SoundKept, CalmKept, Zenon
<1>2. Count(e) = Count(d) /\ Visible(e) = Visible(d)
  BY Zenon DEF SameCore, Count, Visible
<1>3. Looks(d, e)
  BY <1>2, Zenon DEF Looks, SameCore
<1>4. QED
  BY <1>1, <1>3, Zenon DEF Step

LEMMA SoundRanges ==
  ASSUME NEW d, Sound(d)
  PROVE  d.task \in 0 .. Count(d) /\ d.btn \in 0 .. Count(d) /\ d.focused \in 0 .. Count(d)
BY DEF Sound, Ranges, DeskType

LEMMA MarkStep ==
  ASSUME NEW d, Sound(d), NEW areas \in SUBSET Areas
  PROVE  Step(d, mark(d, areas)) /\ mark(d, areas).windows = d.windows
<1>1. d \in DeskType /\ d.task <= Count(d) /\ d.btn <= Count(d)
  BY SoundTypes, SoundRanges
<1>2. QED
  BY <1>1, MarkIs, PaintStep, Zenon DEF SameCore

LEMMA MenuHoverStep ==
  ASSUME NEW d, Sound(d), NEW z
  PROVE  Step(d, update_menu_hover(d, z)) /\ update_menu_hover(d, z).windows = d.windows
<1> DEFINE h == MenuHover(z)
           d1 == [d EXCEPT !.hover = h]
           e == mark(d1, {"menu"})
<1>1. d \in DeskType /\ d.task <= Count(d) /\ d.btn <= Count(d) /\ {"menu"} \in SUBSET Areas
  BY SoundTypes, SoundRanges DEF Areas
<1>2. h \in Hovers
  BY Zenon DEF MenuHover, Hovers
<1> HIDE DEF h
<1>3. /\ d1 \in DeskType /\ SameCore(d, d1) /\ d1.task = d.task /\ d1.btn = d.btn /\ d1.dirty = d.dirty
      /\ d1.icon = d.icon /\ d1.selected = d.selected
  BY <1>1, <1>2, Zenon DEF DeskType, SameCore
<1> HIDE DEF d1
<1>4. /\ e \in DeskType /\ SameCore(d1, e) /\ e.dirty = d1.dirty \cup {"menu"}
      /\ e.task = d1.task /\ e.btn = d1.btn /\ e.icon = d1.icon /\ e.selected = d1.selected
  BY <1>1, <1>3, MarkIs, Zenon
<1> HIDE DEF e
<1>5. Step(d, e) /\ e.windows = d.windows
  BY <1>1, <1>3, <1>4, PaintStep, Zenon DEF SameCore
<1>6. QED
  BY <1>5, StepStays, Zenon DEF update_menu_hover, e, d1, h

LEMMA TaskbarHoverStep ==
  ASSUME NEW d, Sound(d), NEW z, z.k \in {"slot", "slotclose"} => z.i \in 1 .. Count(d)
  PROVE  Step(d, update_taskbar_hover(d, z)) /\ update_taskbar_hover(d, z).windows = d.windows
<1> DEFINE i == IF z.k \in {"slot", "slotclose"} THEN z.i ELSE None
           d1 == [d EXCEPT !.task = i]
           e == mark(d1, {"taskbar"})
<1>1. d \in DeskType /\ d.btn <= Count(d) /\ {"taskbar"} \in SUBSET Areas /\ Count(d) \in Nat
  BY SoundTypes, SoundRanges DEF Areas
<1>2. i \in Nat /\ i <= Count(d)
  BY <1>1 DEF None
<1> HIDE DEF i
<1>3. /\ d1 \in DeskType /\ SameCore(d, d1) /\ d1.task = i /\ d1.btn = d.btn /\ d1.dirty = d.dirty
      /\ d1.icon = d.icon /\ d1.selected = d.selected /\ d1.open = d.open /\ d1.hover = d.hover
  BY <1>1, <1>2, Zenon DEF DeskType, SameCore
<1> HIDE DEF d1
<1>4. /\ e \in DeskType /\ SameCore(d1, e) /\ e.dirty = d1.dirty \cup {"taskbar"}
      /\ e.task = d1.task /\ e.btn = d1.btn /\ e.icon = d1.icon /\ e.selected = d1.selected
      /\ e.open = d1.open /\ e.hover = d1.hover
  BY <1>1, <1>3, MarkIs, Zenon
<1> HIDE DEF e
<1>5. Step(d, e) /\ e.windows = d.windows
  BY <1>1, <1>2, <1>3, <1>4, PaintStep, Zenon DEF SameCore
<1>6. QED
  BY <1>5, StepStays, Zenon DEF update_taskbar_hover, e, d1, i

LEMMA ButtonHoverStep ==
  ASSUME NEW d, Sound(d), NEW i \in 0 .. Count(d)
  PROVE  Step(d, update_window_button_hovers(d, i)) /\ update_window_button_hovers(d, i).windows = d.windows
<1> DEFINE d1 == [d EXCEPT !.btn = i]
           e == mark(d1, {"windows"})
<1>1. d \in DeskType /\ d.task <= Count(d) /\ {"windows"} \in SUBSET Areas /\ Count(d) \in Nat
  BY SoundTypes, SoundRanges DEF Areas
<1>2. i \in Nat /\ i <= Count(d)
  BY <1>1
<1>3. /\ d1 \in DeskType /\ SameCore(d, d1) /\ d1.task = d.task /\ d1.btn = i /\ d1.dirty = d.dirty
      /\ d1.icon = d.icon /\ d1.selected = d.selected /\ d1.open = d.open /\ d1.hover = d.hover
  BY <1>1, <1>2, Zenon DEF DeskType, SameCore
<1> HIDE DEF d1
<1>4. /\ e \in DeskType /\ SameCore(d1, e) /\ e.dirty = d1.dirty \cup {"windows"}
      /\ e.task = d1.task /\ e.btn = d1.btn /\ e.icon = d1.icon /\ e.selected = d1.selected
      /\ e.open = d1.open /\ e.hover = d1.hover
  BY <1>1, <1>3, MarkIs, Zenon
<1> HIDE DEF e
<1>5. Step(d, e) /\ e.windows = d.windows
  BY <1>1, <1>2, <1>3, <1>4, PaintStep, Zenon DEF SameCore
<1>6. QED
  BY <1>5, StepStays, Zenon DEF update_window_button_hovers, e, d1

LEMMA IconHoverStep ==
  ASSUME NEW d, Sound(d), NEW z, z.k = "icon" => z.i \in Nat
  PROVE  Step(d, update_desktop_icon_hover(d, z))
<1> DEFINE i == IF z.k = "icon" THEN z.i ELSE None
           d1 == [d EXCEPT !.icon = i]
           e == mark(d1, {"icons"})
<1>1. d \in DeskType /\ d.task <= Count(d) /\ d.btn <= Count(d) /\ {"icons"} \in SUBSET Areas
  BY SoundTypes, SoundRanges DEF Areas
<1>2. i \in Nat
  BY Zenon DEF None
<1> HIDE DEF i
<1>3. /\ d1 \in DeskType /\ SameCore(d, d1) /\ d1.task = d.task /\ d1.btn = d.btn /\ d1.dirty = d.dirty
      /\ d1.open = d.open /\ d1.hover = d.hover
  BY <1>1, <1>2, Zenon DEF DeskType, SameCore
<1> HIDE DEF d1
<1>4. /\ e \in DeskType /\ SameCore(d1, e) /\ e.dirty = d1.dirty \cup {"icons"}
      /\ e.task = d1.task /\ e.btn = d1.btn /\ e.open = d1.open /\ e.hover = d1.hover
  BY <1>1, <1>3, MarkIs, Zenon
<1> HIDE DEF e
<1>5. Step(d, e)
  BY <1>1, <1>3, <1>4, PaintStep, Zenon DEF SameCore
<1>6. QED
  BY <1>5, StepStays, Zenon DEF update_desktop_icon_hover, e, d1, i

LEMMA SelectStep ==
  ASSUME NEW d, Sound(d), NEW i \in Nat
  PROVE  Step(d, mark([d EXCEPT !.selected = i], {"icons"}))
<1> DEFINE d1 == [d EXCEPT !.selected = i]
           e == mark(d1, {"icons"})
<1>1. d \in DeskType /\ d.task <= Count(d) /\ d.btn <= Count(d) /\ {"icons"} \in SUBSET Areas
  BY SoundTypes, SoundRanges DEF Areas
<1>2. /\ d1 \in DeskType /\ SameCore(d, d1) /\ d1.task = d.task /\ d1.btn = d.btn /\ d1.dirty = d.dirty
      /\ d1.open = d.open /\ d1.hover = d.hover
  BY <1>1, Zenon DEF DeskType, SameCore
<1> HIDE DEF d1
<1>3. /\ e \in DeskType /\ SameCore(d1, e) /\ e.dirty = d1.dirty \cup {"icons"}
      /\ e.task = d1.task /\ e.btn = d1.btn /\ e.open = d1.open /\ e.hover = d1.hover
  BY <1>1, <1>2, MarkIs, Zenon
<1> HIDE DEF e
<1>4. Step(d, e)
  BY <1>1, <1>2, <1>3, PaintStep, Zenon DEF SameCore
<1>5. QED
  BY <1>4, Zenon DEF e, d1

\* The menu is opened or closed.
LEMMA MenuStep ==
  ASSUME NEW d, Sound(d), NEW b \in BOOLEAN, NEW areas \in SUBSET Areas, "menu" \in areas
  PROVE  Step(d, mark([d EXCEPT !.open = b, !.hover = "none"], areas))
<1> DEFINE d1 == [d EXCEPT !.open = b, !.hover = "none"]
           e == mark(d1, areas)
<1>1. d \in DeskType /\ d.task <= Count(d) /\ d.btn <= Count(d)
  BY SoundTypes, SoundRanges
<1>2. /\ d1 \in DeskType /\ SameCore(d, d1) /\ d1.task = d.task /\ d1.btn = d.btn /\ d1.dirty = d.dirty
      /\ d1.icon = d.icon /\ d1.selected = d.selected
  BY <1>1, Zenon DEF DeskType, SameCore, Hovers
<1> HIDE DEF d1
<1>3. /\ e \in DeskType /\ SameCore(d1, e) /\ e.dirty = d1.dirty \cup areas
      /\ e.task = d1.task /\ e.btn = d1.btn /\ e.icon = d1.icon /\ e.selected = d1.selected
  BY <1>1, <1>2, MarkIs, Zenon
<1> HIDE DEF e
<1>4. Step(d, e)
  BY <1>1, <1>2, <1>3, PaintStep, Zenon DEF SameCore
<1>5. QED
  BY <1>4, Zenon DEF e, d1

LEMMA CloseMenuStep ==
  ASSUME NEW d, Sound(d)
  PROVE  Step(d, close_menu(d))
<1>1. {"menu"} \in SUBSET Areas /\ "menu" \in {"menu"}
  BY Zenon DEF Areas
<1>2. QED
  BY <1>1, MenuStep, Zenon DEF close_menu

-----------------------------------------------------------------------------
(* The handlers of the mouse *)

\* What a zone names is there.
LEMMA ZoneIs ==
  ASSUME NEW d, NEW z \in Zones(d)
  PROVE  /\ z.k \in {"slot", "slotclose"} => z.i \in 1 .. Count(d)
         /\ z.k = "icon" => z.i \in Nat
         /\ z.k \in {"start", "bar", "apps", "down", "border", "sub", "subborder", "desk",
                     "slot", "slotclose", "icon"}
BY DesktopAssumption DEF Zones, Zone

\* A window is dragged: it was not maximized when it was pressed.
LEMMA DragStep ==
  ASSUME NEW d, Sound(d), NEW i \in 1 .. Count(d), i = d.press["drag"].idx
  PROVE  Step(d, mark([d EXCEPT !.windows[i].frame = "placed"], {"windows"}))
<1> DEFINE x == [d.windows[i] EXCEPT !.frame = "placed"]
           d1 == [d EXCEPT !.windows[i] = x]
           e == mark(d1, {"windows"})
<1>1. /\ d \in DeskType /\ Count(d) \in Nat /\ d.windows[i] \in Window /\ WindowSound(d.windows[i])
      /\ {"windows"} \in SUBSET Areas /\ "drag" \in Kinds
  BY SoundTypes, Zenon DEF Sound, Restores, Areas, Kinds
<1>2. /\ x \in Window /\ WindowSound(x) /\ x.id = d.windows[i].id /\ x.frame = "placed"
      /\ x.minimized = d.windows[i].minimized /\ x.maximized = d.windows[i].maximized
  BY <1>1, Zenon DEF Window, WindowSound
<1>3. d1 = [d EXCEPT !.windows[i].frame = "placed"]
  BY Zenon DEF DeskType
<1> HIDE DEF x
<1>4. /\ d1 \in DeskType /\ Count(d1) = Count(d)
      /\ \A j \in 1 .. Count(d) : d1.windows[j] = IF j = i THEN x ELSE d.windows[j]
      /\ d1.focused = d.focused /\ d1.press = d.press
      /\ d1.task = d.task /\ d1.btn = d.btn /\ d1.dirty = d.dirty
      /\ d1.open = d.open /\ d1.hover = d.hover /\ d1.icon = d.icon /\ d1.selected = d.selected
  BY <1>1, <1>2, SetWindow
<1> HIDE DEF d1
<1>5. /\ e \in DeskType /\ SameCore(d1, e) /\ e.dirty = d1.dirty \cup {"windows"}
      /\ e.open = d1.open /\ e.hover = d1.hover /\ e.task = d1.task /\ e.btn = d1.btn
      /\ e.icon = d1.icon /\ e.selected = d1.selected
  BY <1>1, <1>4, MarkIs, Zenon
<1> HIDE DEF e
<1>6. /\ e \in DeskType /\ Count(e) = Count(d)
      /\ \A j \in 1 .. Count(d) : e.windows[j] = IF j = i THEN x ELSE d.windows[j]
      /\ e.focused = d.focused /\ e.press = d.press
      /\ e.task = d.task /\ e.btn = d.btn /\ e.dirty = d.dirty \cup {"windows"}
      /\ e.open = d.open /\ e.hover = d.hover /\ e.icon = d.icon /\ e.selected = d.selected
  BY <1>4, <1>5, Zenon DEF SameCore, Count
<1>7. Ranges(e)
  BY <1>6, Zenon DEF Ranges, Sound
<1>8. Sound(e)
  BY <1>2, <1>6, <1>7, SetWindowSound, Zenon
<1>9. Looks(d, e) /\ Visible(e) = Visible(d)
  BY <1>2, <1>6, WindowLooks, Zenon
<1>10. ASSUME Calm(d) PROVE Calm(e)
  <2>1. ~d.windows[i].maximized
    BY <1>1, <1>10 DEF Calm, PressRight, None
  <2>2. Settled(e)
    BY <1>2, <1>6, <1>9, <1>10, <2>1 DEF Calm, Settled, topmost_visible_window_index
  <2>3. ASSUME NEW k \in Kinds PROVE PressRight(e, k)
    <3>1. PressRight(d, k) /\ d.press[k].idx \in 0 .. Count(d)
      BY <1>10, SoundTypes, Zenon DEF Calm
    <3>2. QED
      BY <1>2, <1>6, <3>1, SMTT(30) DEF PressRight, None
  <2>4. QED
    BY <1>6, <1>10, <2>2, <2>3 DEF Calm
<1>11. QED
  BY <1>3, <1>8, <1>9, <1>10, Zenon DEF Step, e

LEMMA MouseMoveStep ==
  ASSUME NEW d, Sound(d), NEW e \in MouseMove(d)
  PROVE  Step(d, e)
<1>1. "drag" \in Kinds
  BY Zenon DEF Kinds
<1>2. d.press["drag"].idx \in 0 .. Count(d) /\ Count(d) \in Nat
  BY <1>1, SoundTypes, Zenon
<1>3. CASE d.press["drag"].idx # None
  BY <1>2, <1>3, DragStep DEF MouseMove, None
<1>4. CASE d.press["drag"].idx = None
  <2>1. PICK z \in Zones(d), i \in Visible(d) \cup {None} :
          e \in GivenApp(Hovered(d, z, i))
    BY <1>4 DEF MouseMove
  <2> DEFINE d1 == update_menu_hover(d, z)
             d2 == update_taskbar_hover(d1, z)
             d3 == update_window_button_hovers(d2, i)
             d4 == Hovered(d, z, i)
  <2>2. /\ z.k \in {"slot", "slotclose"} => z.i \in 1 .. Count(d)
        /\ z.k = "icon" => z.i \in Nat
        /\ i \in 0 .. Count(d)
    BY <1>2, ZoneIs DEF Visible, None
  <2>3. Step(d, d1) /\ Count(d1) = Count(d) /\ Sound(d1)
    BY MenuHoverStep, Zenon DEF Count, Step
  <2> HIDE DEF d1
  <2>4. Step(d1, d2) /\ Count(d2) = Count(d) /\ Sound(d2)
    BY <2>2, <2>3, TaskbarHoverStep, Zenon DEF Count, Step
  <2> HIDE DEF d2
  <2>5. Step(d2, d3) /\ Sound(d3)
    BY <2>2, <2>4, ButtonHoverStep, Zenon DEF Step
  <2> HIDE DEF d3
  <2>6. Step(d3, d4) /\ Sound(d4)
    BY <2>2, <2>5, IconHoverStep, Zenon DEF d1, d2, d3, Hovered, Step
  <2>7. Step(d4, e)
    BY <2>1, <2>6, AppStep, StepStays, Zenon DEF GivenApp
  <2>8. QED
    BY <2>3, <2>4, <2>5, <2>6, <2>7, StepTwice, Zenon
<1>5. QED
  BY <1>3, <1>4, Zenon

LEMMA DownTwice ==
  ASSUME NEW d, NEW e, NEW f, DownStep(d, e), DownStep(e, f), ~Waiting(d) => ~Waiting(e)
  PROVE  DownStep(d, f)
BY LooksTwice, Zenon DEF DownStep

\* A button, or the title, of window i is pressed.
LEMMA PressStep ==
  ASSUME NEW d, Sound(d), NEW k \in Kinds, NEW i \in 1 .. Count(d), NEW areas \in SUBSET Areas,
         k = "max" => ~d.windows[i].minimized, k = "drag" => ~d.windows[i].maximized
  PROVE  DownStep(d, mark([d EXCEPT !.press[k] = Press(d, i)], areas))
<1> DEFINE p == [d.press EXCEPT ![k] = Press(d, i)]
           d1 == [d EXCEPT !.press = p]
           e == mark(d1, areas)
<1>1. /\ d \in DeskType /\ Count(d) \in Nat /\ d.windows[i] \in Window
      /\ d.press \in [Kinds -> PressType] /\ \A j \in Kinds : d.press[j].idx \in 0 .. Count(d)
  BY SoundTypes, Zenon
<1>2. Press(d, i) \in PressType /\ Press(d, i).idx = i /\ Press(d, i).id = d.windows[i].id
  BY <1>1 DEF Press, PressType, Window
<1>3. p \in [Kinds -> PressType] /\ \A j \in Kinds : p[j] = IF j = k THEN Press(d, i) ELSE d.press[j]
  BY <1>1, <1>2, Zenon
<1>4. d1 = [d EXCEPT !.press[k] = Press(d, i)]
  BY Zenon DEF DeskType
<1> HIDE DEF p
<1>5. /\ d1 \in DeskType /\ d1.windows = d.windows /\ d1.focused = d.focused /\ d1.press = p
      /\ d1.task = d.task /\ d1.btn = d.btn /\ d1.dirty = d.dirty
      /\ d1.open = d.open /\ d1.hover = d.hover /\ d1.icon = d.icon /\ d1.selected = d.selected
  BY <1>1, <1>3, SetPress, Zenon
<1> HIDE DEF d1
<1>6. /\ e \in DeskType /\ SameCore(d1, e) /\ e.dirty = d1.dirty \cup areas
      /\ e.open = d1.open /\ e.hover = d1.hover /\ e.task = d1.task /\ e.btn = d1.btn
      /\ e.icon = d1.icon /\ e.selected = d1.selected
  BY <1>5, MarkIs, Zenon
<1> HIDE DEF e
<1>7. Count(e) = Count(d) /\ Visible(e) = Visible(d) /\ e.windows = d.windows /\ e.press = p
  BY <1>5, <1>6, Zenon DEF Count, Visible, SameCore
<1>8. Ranges(e)
  BY <1>1, <1>2, <1>3, <1>5, <1>6, <1>7 DEF Ranges, Sound, SameCore
<1>9. Distinct(e) /\ Restores(e)
  BY <1>7, Zenon DEF Distinct, Restores, Sound
<1>10. Looks(d, e)
  BY <1>5, <1>6, <1>7, Zenon DEF Looks, SameCore
<1>11. ASSUME Calm(d), ~Waiting(d) PROVE Calm(e)
  <2>1. Settled(e)
    BY <1>5, <1>6, <1>7, <1>11, Zenon DEF Calm, Settled, topmost_visible_window_index, SameCore
  <2>2. \A j \in Kinds : j # k => e.press[j].idx = None
    BY <1>3, <1>7, <1>11, Zenon DEF Waiting
  <2>3. PressRight(e, k)
    BY <1>2, <1>3, <1>7, Zenon DEF PressRight
  <2>4. QED
    BY <2>1, <2>2, <2>3, Zenon DEF Calm, PressRight
<1>12. QED
  BY <1>4, <1>6, <1>8, <1>9, <1>10, <1>11, Zenon DEF DownStep, Sound, e

LEMMA DownStays ==
  ASSUME NEW d, Sound(d)
  PROVE  DownStep(d, d)
BY StepStays, DownFromStep, Zenon

\* A press on a part of a window that is seen.
LEMMA PressWindowStep ==
  ASSUME NEW d, Sound(d), NEW i \in 1 .. Count(d), ~d.windows[i].minimized, NEW part,
         NEW e \in press_window(d, i, part)
  PROVE  DownStep(d, e)
<1>1. {"windows"} \in SUBSET Areas /\ {"close", "min", "max", "drag"} \subseteq Kinds
  BY Zenon DEF Areas, Kinds, Buttons
<1>2. CASE part \in {"close", "min", "max"}
  <2>1. e = mark([d EXCEPT !.press[part] = Press(d, i)], {"windows"})
    BY <1>2, Zenon DEF press_window
  <2>2. part \in Kinds /\ part # "drag"
    BY <1>1, <1>2, Zenon
  <2>3. QED
    BY <1>1, <2>1, <2>2, PressStep, Zenon
<1>3. CASE part = "title"
  <2>1. e = IF d.windows[i].maximized THEN d ELSE mark([d EXCEPT !.press["drag"] = Press(d, i)], {"windows"})
    BY <1>3, Zenon DEF press_window
  <2>2. QED
    BY <1>1, <2>1, PressStep, DownStays, Zenon
<1>4. CASE part = "client"
  <2>1. e \in App(d)
    BY <1>4, Zenon DEF press_window
  <2>2. QED
    BY <2>1, AppStep, DownFromStep, Zenon
<1>5. CASE part \notin {"close", "min", "max", "title", "client"}
  <2>1. e = d
    BY <1>5, Zenon DEF press_window
  <2>2. QED
    BY <2>1, DownStays, Zenon
<1>6. QED
  BY <1>2, <1>3, <1>4, <1>5, Zenon

LEMMA MouseDownWindowStep ==
  ASSUME NEW d, Sound(d), NEW z \in Zones(d), NEW e \in MouseDownWindow(d, z)
  PROVE  DownStep(d, e)
<1>1. d \in DeskType /\ Count(d) \in Nat
  BY SoundTypes, Zenon
<1>2. PICK i \in visible_frame_window_at(d, z) :
        e \in IF i = None
              THEN {IF z.k = "icon" THEN mark([d EXCEPT !.selected = z.i], {"icons"}) ELSE d}
              ELSE UNION {press_window(focus_window(d, i), Count(d), part) :
                            part \in {"close", "min", "max", "title", "client", "edge"}}
  BY Zenon DEF MouseDownWindow
<1>3. CASE i = None
  <2>1. e = IF z.k = "icon" THEN mark([d EXCEPT !.selected = z.i], {"icons"}) ELSE d
    BY <1>2, <1>3, Zenon
  <2>2. z.k = "icon" => z.i \in Nat
    BY ZoneIs, Zenon
  <2>3. QED
    BY <2>1, <2>2, SelectStep, DownFromStep, DownStays, Zenon
<1>4. CASE i # None
  <2> DEFINE d1 == focus_window(d, i)
  <2>1. i \in 1 .. Count(d)
    BY <1>4, Zenon DEF visible_frame_window_at, Visible
  <2>2. PICK part : e \in press_window(d1, Count(d), part)
    BY <1>2, <1>4, Zenon
  <2>3. DownStep(d, d1)
    BY <2>1, FocusStep, Zenon
  <2>4. Count(d1) = Count(d) /\ d1.windows[Count(d)] = [d.windows[i] EXCEPT !.minimized = FALSE] /\ d1.press = d.press
    BY <1>1, <2>1, FocusIs, Zenon
  <2> HIDE DEF d1
  <2>5. d.windows[i] \in Window
    BY <2>1, SoundTypes, Zenon
  <2>6. ~d1.windows[Count(d)].minimized /\ Count(d) \in 1 .. Count(d1)
    BY <1>1, <2>1, <2>4, <2>5 DEF Window
  <2>7. DownStep(d1, e)
    BY <2>2, <2>3, <2>6, PressWindowStep, Zenon DEF DownStep
  <2>8. ~Waiting(d) => ~Waiting(d1)
    BY <2>4, Zenon DEF Waiting
  <2>9. QED
    BY <2>3, <2>7, <2>8, DownTwice, Zenon
<1>5. QED
  BY <1>3, <1>4, Zenon

\* A press of the left button.
LEMMA MouseDownStep ==
  ASSUME NEW d, Sound(d), NEW z \in Zones(d), NEW e \in MouseDown(d, z)
  PROVE  DownStep(d, e)
<1>1. /\ d \in DeskType /\ d.open \in BOOLEAN
      /\ {"menu", "taskbar"} \in SUBSET Areas /\ {"taskbar"} \in SUBSET Areas /\ "tclose" \in Kinds
  BY SoundTypes DEF DeskType, Areas, Kinds, Buttons
<1>2. CASE z.k = "start"
  <2>1. e = mark([d EXCEPT !.open = ~d.open, !.hover = "none"], {"menu", "taskbar"})
    BY <1>2, Zenon DEF MouseDown, InTaskbar
  <2>2. QED
    BY <1>1, <2>1, MenuStep, DownFromStep, Zenon
<1>3. CASE z.k # "start" /\ d.open /\ InMenu(z)
  <2>1. e = update_menu_hover(d, z)
    BY <1>3, Zenon DEF MouseDown, InTaskbar
  <2>2. QED
    BY <2>1, MenuHoverStep, DownFromStep, Zenon
<1>4. CASE z.k # "start" /\ d.open /\ ~InMenu(z)
  <2>1. e = d \/ e = close_menu(d)
    BY <1>4, Zenon DEF MouseDown, InTaskbar
  <2>2. QED
    BY <2>1, CloseMenuStep, DownFromStep, DownStays, Zenon
<1>5. CASE ~d.open /\ z.k = "slotclose"
  <2>1. e = mark([d EXCEPT !.press["tclose"] = Press(d, z.i)], {"taskbar"})
    BY <1>5, Zenon DEF MouseDown, InTaskbar
  <2>2. z.i \in 1 .. Count(d)
    BY <1>5, ZoneIs, Zenon
  <2>3. QED
    BY <1>1, <2>1, <2>2, PressStep, Zenon
<1>6. CASE ~d.open /\ z.k = "slot"
  <2>1. e = focus_window(d, z.i)
    BY <1>6, Zenon DEF MouseDown, InTaskbar
  <2>2. z.i \in 1 .. Count(d)
    BY <1>6, ZoneIs, Zenon
  <2>3. QED
    BY <2>1, <2>2, FocusStep, Zenon
<1>7. CASE ~d.open /\ z.k = "bar"
  <2>1. e = d
    BY <1>7, Zenon DEF MouseDown, InTaskbar
  <2>2. QED
    BY <2>1, DownStays, Zenon
<1>8. CASE ~d.open /\ ~InTaskbar(z)
  <2>1. e \in MouseDownWindow(d, z)
    BY <1>8, Zenon DEF MouseDown, InTaskbar
  <2>2. QED
    BY <2>1, MouseDownWindowStep, Zenon
<1>9. QED
  BY <1>2, <1>3, <1>4, <1>5, <1>6, <1>7, <1>8, Zenon DEF InTaskbar

\* A release that no pressed button takes.
LEMMA MouseUpElsewhereStep ==
  ASSUME NEW d, Sound(d), NEW z, NEW e \in MouseUpElsewhere(d, z)
  PROVE  Step(d, e)
<1>1. \/ e = close_menu(d)
      \/ e \in {close_menu(f) : f \in Launched(d)}
      \/ e \in Launched(d)
      \/ e \in App(d)
      \/ e = d
  BY Zenon DEF MouseUpElsewhere
<1>2. ASSUME NEW f \in Launched(d) PROVE Step(d, close_menu(f))
  <2>1. Step(d, f) /\ Sound(f)
    BY LaunchedStep, Zenon DEF Step
  <2>2. QED
    BY <2>1, CloseMenuStep, StepTwice, Zenon
<1>3. QED
  BY <1>1, <1>2, CloseMenuStep, LaunchedStep, AppStep, StepStays, Zenon

\* The presses that Release takes before it acts.
LEMMA TakeStep ==
  ASSUME NEW d, Sound(d), NEW taken, NEW areas \in SUBSET Areas
  PROVE  LET e == mark([d EXCEPT !.press = [k \in Kinds |-> IF k \in taken THEN NoPress ELSE d.press[k]]], areas)
         IN  /\ Step(d, e) /\ e.windows = d.windows
             /\ \A k \in Kinds : e.press[k] = IF k \in taken THEN NoPress ELSE d.press[k]
<1> DEFINE p == [k \in Kinds |-> IF k \in taken THEN NoPress ELSE d.press[k]]
           d1 == [d EXCEPT !.press = p]
           e == mark(d1, areas)
<1>1. d \in DeskType /\ d.press \in [Kinds -> PressType]
  BY SoundTypes, Zenon
<1>2. /\ p \in [Kinds -> PressType] /\ \A k \in Kinds : p[k] \in {d.press[k], NoPress}
      /\ \A k \in Kinds : p[k] = IF k \in taken THEN NoPress ELSE d.press[k]
  BY <1>1, Zenon DEF NoPress, PressType, None
<1> HIDE DEF p
<1>3. Step(d, d1) /\ Sound(d1)
  BY <1>2, TakenStep, Zenon DEF Step
<1>4. d1 \in DeskType /\ d1.windows = d.windows /\ d1.press = p
  BY <1>1, <1>2, SetPress, Zenon
<1> HIDE DEF d1
<1>5. Step(d1, e) /\ e.windows = d1.windows
  BY <1>3, MarkStep, Zenon
<1>6. e.press = d1.press
  BY <1>4, MarkIs, Zenon DEF SameCore
<1> HIDE DEF e
<1>7. Step(d, e)
  BY <1>3, <1>5, StepTwice, Zenon
<1>8. QED
  BY <1>2, <1>4, <1>5, <1>6, <1>7, Zenon DEF e, d1, p

LEMMA RankIs ==
  /\ Rank("tclose") = 1 /\ Rank("close") = 2 /\ Rank("min") = 3 /\ Rank("max") = 4
BY DEF Rank, Turns

\* Of the buttons that are over one takes the release.
LEMMA FirstIs ==
  ASSUME NEW hits \in SUBSET Buttons, hits # {}
  PROVE  LET first == CHOOSE k \in hits : \A j \in hits : Rank(k) <= Rank(j)
         IN  first \in hits
<1>1. \E k \in hits : \A j \in hits : Rank(k) <= Rank(j)
  <2>1. \A j \in hits : j \in {"tclose", "close", "min", "max"}
    BY Zenon DEF Buttons
  <2>2. \A j \in hits : Rank(j) \in 1 .. 4
    BY <2>1, RankIs
  <2>3. CASE "tclose" \in hits
    BY <2>2, <2>3, RankIs
  <2>4. CASE "tclose" \notin hits /\ "close" \in hits
    BY <2>1, <2>4, RankIs
  <2>5. CASE "tclose" \notin hits /\ "close" \notin hits /\ "min" \in hits
    BY <2>1, <2>5, RankIs
  <2>6. CASE "tclose" \notin hits /\ "close" \notin hits /\ "min" \notin hits
    <3>1. \A j \in hits : j = "max"
      BY <2>1, <2>6, Zenon
    <3>2. QED
      BY <3>1, RankIs
  <2>7. QED
    BY <2>3, <2>4, <2>5, <2>6, Zenon
<1>2. QED
  BY <1>1, Zenon

\* A release takes presses and acts on the window of at most one.  Where one
\* press waits, it is that one, and its window is the one that was pressed.
LEMMA ReleaseStep ==
  ASSUME NEW d, Sound(d), NEW over, NEW z, NEW e \in Release(d, over, z)
  PROVE  Step(d, e)
<1> DEFINE hits == Pressed(d) \cap over
           first == CHOOSE k \in hits : \A j \in hits : Rank(k) <= Rank(j)
           taken == IF hits = {} THEN Pressed(d) ELSE {k \in Pressed(d) : Rank(k) <= Rank(first)}
           idx == d.press[first].idx
           areas == {IF k = "tclose" THEN "taskbar" ELSE "windows" : k \in taken \ hits}
           d1 == mark([d EXCEPT !.press = [k \in Kinds |-> IF k \in taken THEN NoPress ELSE d.press[k]]], areas)
<1>1. areas \in SUBSET Areas
  BY Zenon DEF Areas
<1>2. e \in CASE hits = {} -> MouseUpElsewhere(d1, z)
              [] hits # {} /\ first \in {"tclose", "close"} -> {close_window(d1, idx)}
              [] hits # {} /\ first = "min" -> {minimize_window(d1, idx)}
              [] hits # {} /\ first = "max" -> {toggle_maximize_window(d1, idx)}
  BY Zenon DEF Release
<1>3. hits \in SUBSET Buttons /\ \A k \in hits : k \in Pressed(d) /\ d.press[k].idx # None
  BY Zenon DEF Pressed
<1>4. hits # {} => first \in hits
  BY <1>3, FirstIs, Zenon
<1>5. hits # {} => first \in taken
  <2>1. ASSUME hits # {} PROVE Rank(first) \in Nat
    BY <1>3, <1>4, <2>1, RankIs DEF Buttons
  <2>2. QED
    BY <1>3, <1>4, <2>1
<1> HIDE DEF hits, first, taken, areas
<1>6. /\ Step(d, d1) /\ d1.windows = d.windows
      /\ \A k \in Kinds : d1.press[k] = IF k \in taken THEN NoPress ELSE d.press[k]
  BY <1>1, TakeStep
<1> HIDE DEF d1
<1>7. Sound(d1) /\ Count(d1) = Count(d)
  BY <1>6, Zenon DEF Step, Count
<1>8. CASE hits = {}
  <2>1. e \in MouseUpElsewhere(d1, z)
    BY <1>2, <1>8, Zenon
  <2>2. QED
    BY <1>6, <1>7, <2>1, MouseUpElsewhereStep, StepTwice, Zenon
<1>9. CASE hits # {}
  <2>1. first \in Buttons /\ first \in Kinds /\ first \in taken /\ idx # None
    BY <1>3, <1>4, <1>5, <1>9, Zenon DEF Kinds
  <2>2. idx \in 1 .. Count(d1)
    <3>1. d.press[first].idx \in 0 .. Count(d) /\ Count(d) \in Nat
      BY <2>1, SoundTypes, Zenon
    <3>2. QED
      BY <1>7, <2>1, <3>1 DEF None
  <2>3. ASSUME Calm(d) PROVE ~Waiting(d1)
    <3>1. \A k \in Kinds : d.press[k].idx # None => k = first
      BY <2>1, <2>3, Zenon DEF Calm
    <3>2. \A k \in Kinds : d1.press[k].idx = None
      BY <1>6, <2>1, <3>1 DEF NoPress
    <3>3. QED
      BY <3>2, Zenon DEF Waiting
  <2>4. CASE first \in {"tclose", "close"}
    <3>1. e = close_window(d1, idx)
      BY <1>2, <1>9, <2>4, Zenon
    <3>2. QED
      BY <1>6, <1>7, <2>2, <3>1, CloseStep, StepTwice, Zenon
  <2>5. CASE first = "min"
    <3>1. e = minimize_window(d1, idx)
      BY <1>2, <1>9, <2>5, Zenon
    <3>2. DownStep(d1, e)
      BY <1>7, <2>2, <3>1, MinimizeStep, Zenon
    <3>3. QED
      BY <1>6, <2>3, <3>2, LooksTwice, Zenon DEF Step, DownStep
  <2>6. CASE first = "max"
    <3>1. e = toggle_maximize_window(d1, idx)
      BY <1>2, <1>9, <2>6, Zenon
    <3>2. Sound(e) /\ (Calm(d1) /\ ~Waiting(d1) /\ ~d1.windows[idx].minimized => Calm(e) /\ Looks(d1, e))
      BY <1>7, <2>2, <3>1, ToggleStep, Zenon
    <3>3. ASSUME Calm(d) PROVE ~d1.windows[idx].minimized
      BY <1>6, <2>1, <2>6, <3>3, Zenon DEF Calm, PressRight
    <3>4. QED
      BY <1>6, <2>3, <3>2, <3>3, LooksTwice, Zenon DEF Step
  <2>7. QED
    BY <2>1, <2>4, <2>5, <2>6, Zenon DEF Buttons
<1>10. QED
  BY <1>8, <1>9, Zenon

\* A release of the left button; the drag ends first.
LEMMA MouseUpStep ==
  ASSUME NEW d, Sound(d), NEW z, NEW e \in MouseUp(d, z)
  PROVE  Step(d, e)
<1> DEFINE p == [d.press EXCEPT !["drag"] = NoPress]
           d1 == [d EXCEPT !.press = p]
           dropped == IF d.press["drag"].idx # None THEN mark_dirty(d1) ELSE d
<1>1. d \in DeskType /\ d.press \in [Kinds -> PressType] /\ "drag" \in Kinds /\ Areas \in SUBSET Areas
  BY SoundTypes, Zenon DEF Kinds
<1>2. p \in [Kinds -> PressType] /\ \A k \in Kinds : p[k] \in {d.press[k], NoPress}
  BY <1>1, Zenon DEF NoPress, PressType, None
<1>3. PICK over : e \in Release(dropped, over, z)
  BY <1>1, Zenon DEF MouseUp
<1> HIDE DEF p
<1>4. Step(d, d1) /\ Sound(d1)
  BY <1>2, TakenStep, Zenon DEF Step
<1> HIDE DEF d1
<1>5. Step(d1, mark_dirty(d1))
  BY <1>1, <1>4, MarkStep, Zenon DEF mark_dirty
<1>6. Step(d, dropped)
  BY <1>4, <1>5, StepTwice, StepStays, Zenon
<1> HIDE DEF dropped
<1>7. Step(dropped, e)
  BY <1>3, <1>6, ReleaseStep, Zenon DEF Step
<1>8. QED
  BY <1>6, <1>7, StepTwice, Zenon

-----------------------------------------------------------------------------
(* handle_event and the turn *)

\* A press of the left button.
LEMMA LeftDownStep ==
  ASSUME NEW d, Sound(d), NEW e \in handle_event(d, Button("L", TRUE))
  PROVE  DownStep(d, e)
<1>1. PICK z \in Zones(d) : e \in MouseDown(d, z)
  BY Zenon DEF handle_event, Button, Raw
<1>2. QED
  BY <1>1, MouseDownStep, Zenon

\* Its release.
LEMMA LeftUpStep ==
  ASSUME NEW d, Sound(d), NEW e \in handle_event(d, Button("L", FALSE))
  PROVE  Step(d, e)
<1>1. PICK z \in Zones(d) : e \in MouseUp(d, z)
  BY Zenon DEF handle_event, Button, Raw
<1>2. QED
  BY <1>1, MouseUpStep, Zenon

\* Every other event.
LEMMA OtherStep ==
  ASSUME NEW d, Sound(d), NEW v \in BOOLEAN, NEW ev \in {Button("R", v), Rel, Wheel, Key(v)},
         NEW e \in handle_event(d, ev)
  PROVE  Step(d, e)
<1>1. CASE ev = Button("R", v)
  <2>1. e = d
    BY <1>1, Zenon DEF handle_event, Button, Raw
  <2>2. QED
    BY <2>1, StepStays, Zenon
<1>2. CASE ev = Rel
  <2>1. e \in MouseMove(d)
    BY <1>2, Zenon DEF handle_event, Rel, Raw
  <2>2. QED
    BY <2>1, MouseMoveStep, Zenon
<1>3. CASE ev = Wheel \/ ev = Key(v)
  <2>1. ev.t \in {"key", "wheel"} /\ ev.t # "rel" /\ ev.t # "btn"
    <3>1. CASE ev = Wheel
      BY <3>1, Zenon DEF Wheel, Raw
    <3>2. CASE ev = Key(v)
      BY <3>2, Zenon DEF Key, Raw
    <3>3. QED
      BY <1>3, <3>1, <3>2, Zenon
  <2>2. e \in IF d.focused # None THEN App(d) ELSE {d}
    BY <2>1, Zenon DEF handle_event
  <2>3. QED
    BY <2>2, StepStays, AppStep, Zenon
<1>4. QED
  BY <1>1, <1>2, <1>3, Zenon

\* What the events of a report lead to, one after the other.
LEMMA TurnIs ==
  ASSUME NEW d, NEW events, Len(events) \in {1, 2}, NEW e \in Turn(d, events)
  PROVE  \E f \in handle_event(d, events[1]) :
           IF Len(events) = 1 THEN e = f ELSE e \in handle_event(f, events[2])
<1> DEFINE S1 == UNION {handle_event(f, events[1]) : f \in {d}}
           S2 == UNION {handle_event(f, events[2]) : f \in S1}
           n == Len(events)
           runs(g) == g = [i \in 0 .. n |-> IF i = 0 THEN {d} ELSE UNION {handle_event(f, events[i]) : f \in g[i - 1]}]
           g0 == [i \in 0 .. n |-> IF i = 0 THEN {d} ELSE IF i = 1 THEN S1 ELSE S2]
           v == CHOOSE g : runs(g)
<1>0. n \in {1, 2}
  BY Zenon
<1> HIDE DEF n
<1>1. runs(g0)
  <2>1. g0[0] = {d} /\ g0[1] = S1 /\ (n = 2 => g0[2] = S2)
    BY <1>0
  <2>2. g0[1] = UNION {handle_event(f, events[1]) : f \in g0[0]}
    BY <2>1, Zenon
  <2>3. n = 2 => g0[2] = UNION {handle_event(f, events[2]) : f \in g0[1]}
    BY <2>1, Zenon
  <2>4. g0 = [i \in 0 .. n |-> g0[i]]
    BY Zenon
  <2> HIDE DEF S1, S2, g0
  <2>5. ASSUME NEW i \in 0 .. n
        PROVE  g0[i] = IF i = 0 THEN {d} ELSE UNION {handle_event(f, events[i]) : f \in g0[i - 1]}
    <3>1. i = 0 \/ (i = 1 /\ i - 1 = 0) \/ (i = 2 /\ i - 1 = 1 /\ n = 2)
      BY <1>0
    <3>2. CASE i = 0
      BY <2>1, <3>2, Zenon
    <3>3. CASE i = 1 /\ i - 1 = 0
      BY <2>2, <3>3
    <3>4. CASE i = 2 /\ i - 1 = 1 /\ n = 2
      BY <2>3, <3>4
    <3>5. QED
      BY <3>1, <3>2, <3>3, <3>4, Zenon
  <2>6. QED
    BY <2>4, <2>5, Zenon
<1>2. runs(v)
  BY <1>1, Zenon
<1>3. Turn(d, events) = v[n]
  BY Zenon DEF Turn, n
<1> HIDE DEF v
<1>4. \A i \in 0 .. n : v[i] = IF i = 0 THEN {d} ELSE UNION {handle_event(f, events[i]) : f \in v[i - 1]}
  BY <1>2, Zenon
<1>5. n \in {1, 2} /\ 0 \in 0 .. n /\ 1 \in 0 .. n /\ n \in 0 .. n /\ 1 - 1 = 0 /\ 2 - 1 = 1 /\ 1 # 0 /\ 2 # 0
  BY <1>0
<1>6. v[0] = {d} /\ v[1] = UNION {handle_event(f, events[1]) : f \in v[0]}
  BY <1>4, <1>5, Zenon
<1>7. v[1] = handle_event(d, events[1])
  BY <1>6
<1>8. CASE n = 1
  BY <1>3, <1>7, <1>8, Zenon DEF n
<1>9. CASE n = 2
  <2>1. v[2] = UNION {handle_event(f, events[2]) : f \in v[1]}
    BY <1>4, <1>5, <1>9, Zenon
  <2>2. QED
    <3>1. PICK f \in v[1] : e \in handle_event(f, events[2])
      BY <1>3, <1>9, <2>1
    <3>2. Len(events) # 1
      BY <1>9 DEF n
    <3>3. QED
      BY <1>7, <3>1, <3>2, Zenon
<1>10. QED
  BY <1>5, <1>8, <1>9, Zenon

-----------------------------------------------------------------------------
(* The parser *)

\* The parser with what waits in it, and the events it has given.
Par(b, r, w, o) == [p |-> [btn |-> b, rel |-> r, wheel |-> w], out |-> o]

\* ingest of one raw event leads from s to t.
Eats(s, raw, t) == ingest(s, raw) = t

LEMMA EatsButton ==
  ASSUME NEW b, NEW r, NEW w, NEW o, NEW c, NEW v
  PROVE  Eats(Par(b, r, w, o), Button(c, v), Par(Button(c, v), r, w, o))
BY Zenon DEF Eats, ingest, Par, Button, Raw

LEMMA EatsKey ==
  ASSUME NEW b, NEW r, NEW w, NEW o, NEW v
  PROVE  Eats(Par(b, r, w, o), Key(v), Par(b, r, w, Append(o, Key(v))))
BY Zenon DEF Eats, ingest, Par, Key, Raw

LEMMA EatsRel ==
  ASSUME NEW b, NEW r, NEW w, NEW o
  PROVE  Eats(Par(b, r, w, o), Rel, Par(b, TRUE, w, o))
BY Zenon DEF Eats, ingest, Par, Rel, Raw

LEMMA EatsWheel ==
  ASSUME NEW b, NEW r, NEW w, NEW o
  PROVE  Eats(Par(b, r, w, o), Wheel, Par(b, r, TRUE, o))
BY Zenon DEF Eats, ingest, Par, Wheel, Raw

BtnSet(q, x, t) == [q EXCEPT !.btn = x] = t
RelSet(q, x, t) == [q EXCEPT !.rel = x] = t
WheelSet(q, x, t) == [q EXCEPT !.wheel = x] = t

LEMMA ParSets ==
  ASSUME NEW b, NEW r, NEW w, NEW x
  PROVE  LET q == [btn |-> b, rel |-> r, wheel |-> w] IN
         /\ BtnSet(q, x, [btn |-> x, rel |-> r, wheel |-> w])
         /\ RelSet(q, x, [btn |-> b, rel |-> x, wheel |-> w])
         /\ WheelSet(q, x, [btn |-> b, rel |-> r, wheel |-> x])
BY DEF BtnSet, RelSet, WheelSet

\* The end of a report gives the button if there is one, and else the motion or
\* the wheel.
LEMMA EatsSyn ==
  ASSUME NEW b, NEW r \in BOOLEAN, NEW w \in BOOLEAN, NEW o
  PROVE  /\ b # NoButton => Eats(Par(b, r, w, o), Syn, Par(NoButton, r, w, Append(o, b)))
         /\ b = NoButton /\ r => Eats(Par(b, r, w, o), Syn, Par(NoButton, FALSE, w, Append(o, Rel)))
         /\ b = NoButton /\ ~r /\ w => Eats(Par(b, r, w, o), Syn, Par(NoButton, r, FALSE, Append(o, Wheel)))
         /\ b = NoButton /\ ~r /\ ~w => Eats(Par(b, r, w, o), Syn, Par(NoButton, r, w, o))
<1> DEFINE s == Par(b, r, w, o)
           q == [btn |-> b, rel |-> r, wheel |-> w]
<1>1. s.p = q /\ s.p.btn = b /\ s.p.rel = r /\ s.p.wheel = w /\ s.out = o /\ Syn.t = "syn"
  BY Zenon DEF Par, Syn, Raw
<1>2. s = Par(b, r, w, o)
  BY Zenon
<1>3. /\ BtnSet(q, NoButton, [btn |-> NoButton, rel |-> r, wheel |-> w])
      /\ RelSet(q, FALSE, [btn |-> b, rel |-> FALSE, wheel |-> w])
      /\ WheelSet(q, FALSE, [btn |-> b, rel |-> r, wheel |-> FALSE])
  BY ParSets, Zenon
<1> HIDE DEF s, q
<1>4. CASE b # NoButton
  <2>1. ingest(s, Syn) = [p |-> [s.p EXCEPT !.btn = NoButton], out |-> Append(s.out, s.p.btn)]
    BY <1>1, <1>4, Zenon DEF ingest
  <2>2. ingest(s, Syn) = Par(NoButton, r, w, Append(o, b))
    BY <1>1, <1>3, <2>1, Zenon DEF Par, BtnSet
  <2>3. QED
    BY <1>2, <1>4, <2>2, Zenon DEF Eats
<1>5. CASE b = NoButton /\ r
  <2>1. ingest(s, Syn) = [p |-> [s.p EXCEPT !.rel = FALSE], out |-> Append(s.out, Rel)]
    BY <1>1, <1>5, Zenon DEF ingest
  <2>2. ingest(s, Syn) = Par(b, FALSE, w, Append(o, Rel))
    BY <1>1, <1>3, <2>1, Zenon DEF Par, RelSet
  <2>3. QED
    BY <1>2, <1>5, <2>2, Zenon DEF Eats
<1>6. CASE b = NoButton /\ ~r /\ w
  <2>1. ingest(s, Syn) = [p |-> [s.p EXCEPT !.wheel = FALSE], out |-> Append(s.out, Wheel)]
    BY <1>1, <1>6, Zenon DEF ingest
  <2>2. ingest(s, Syn) = Par(b, r, FALSE, Append(o, Wheel))
    BY <1>1, <1>3, <2>1, Zenon DEF Par, WheelSet
  <2>3. QED
    BY <1>2, <1>6, <2>2, Zenon DEF Eats
<1>7. CASE b = NoButton /\ ~r /\ ~w
  <2>1. ingest(s, Syn) = s
    BY <1>1, <1>7, Zenon DEF ingest
  <2>2. QED
    BY <1>2, <1>7, <2>1, Zenon DEF Eats
<1>8. QED
  BY <1>4, <1>5, <1>6, <1>7, Zenon

\* A report of two or three raw events.
LEMMA ParsedIs ==
  ASSUME NEW p, NEW report, Len(report) \in {2, 3}
  PROVE  LET s1 == ingest([p |-> p, out |-> <<>>], report[1])
             s2 == ingest(s1, report[2])
         IN  Parsed(p, report) = IF Len(report) = 2 THEN s2 ELSE ingest(s2, report[3])
<1> DEFINE n == Len(report)
           s0 == [p |-> p, out |-> <<>>]
           s1 == ingest(s0, report[1])
           s2 == ingest(s1, report[2])
           s3 == ingest(s2, report[3])
           runs(g) == g = [i \in 0 .. n |-> IF i = 0 THEN s0 ELSE ingest(g[i - 1], report[i])]
           g0 == [i \in 0 .. n |-> IF i = 0 THEN s0 ELSE IF i = 1 THEN s1 ELSE IF i = 2 THEN s2 ELSE s3]
           v == CHOOSE g : runs(g)
<1>0. n \in {2, 3}
  BY Zenon
<1> HIDE DEF n
<1>1. runs(g0)
  <2> HIDE DEF s0
  <2>1. g0[0] = s0 /\ g0[1] = s1 /\ g0[2] = s2 /\ (n = 3 => g0[3] = s3)
    BY <1>0
  <2>2. g0[1] = ingest(g0[0], report[1]) /\ g0[2] = ingest(g0[1], report[2])
    BY <2>1, Zenon
  <2>3. n = 3 => g0[3] = ingest(g0[2], report[3])
    BY <2>1, Zenon
  <2>4. g0 = [i \in 0 .. n |-> g0[i]]
    BY Zenon
  <2> HIDE DEF s1, s2, s3, g0
  <2>5. ASSUME NEW i \in 0 .. n
        PROVE  g0[i] = IF i = 0 THEN s0 ELSE ingest(g0[i - 1], report[i])
    <3>1. i = 0 \/ (i = 1 /\ i - 1 = 0) \/ (i = 2 /\ i - 1 = 1) \/ (i = 3 /\ i - 1 = 2 /\ n = 3)
      BY <1>0
    <3>2. CASE i = 0
      BY <2>1, <3>2, Zenon
    <3>3. CASE i = 1 /\ i - 1 = 0
      BY <2>2, <3>3
    <3>4. CASE i = 2 /\ i - 1 = 1
      BY <2>2, <3>4
    <3>5. CASE i = 3 /\ i - 1 = 2 /\ n = 3
      BY <2>3, <3>5
    <3>6. QED
      BY <3>1, <3>2, <3>3, <3>4, <3>5, Zenon
  <2>6. QED
    BY <2>4, <2>5, Zenon
<1>2. runs(v)
  BY <1>1, Zenon
<1>3. Parsed(p, report) = v[n]
  BY Zenon DEF Parsed, n
<1> HIDE DEF v, s0
<1>4. \A i \in 0 .. n : v[i] = IF i = 0 THEN s0 ELSE ingest(v[i - 1], report[i])
  BY <1>2, Zenon
<1>5. 0 \in 0 .. n /\ 1 \in 0 .. n /\ 2 \in 0 .. n /\ n \in 0 .. n /\ 1 - 1 = 0 /\ 2 - 1 = 1 /\ 3 - 1 = 2
      /\ 1 # 0 /\ 2 # 0 /\ 3 # 0
  BY <1>0
<1>6. v[0] = s0 /\ v[1] = ingest(v[0], report[1]) /\ v[2] = ingest(v[1], report[2])
  BY <1>4, <1>5, Zenon
<1>7. n = 3 => v[3] = ingest(v[2], report[3])
  BY <1>4, <1>5, Zenon
<1>8. v[n] = IF n = 2 THEN s2 ELSE s3
  BY <1>0, <1>6, <1>7, Zenon
<1>9. QED
  BY <1>3, <1>8, Zenon DEF n, s0

\* What a report can give: a button; or a motion or the wheel, perhaps after a key.
Outs(v) ==
  { <<Button("L", v)>>, <<Button("R", v)>>, <<Rel>>, <<Wheel>>,
    <<Key(v)>>, <<Key(v), Rel>>, <<Key(v), Wheel>> }

GivesOut(s, v) == ParserOK(s.p) /\ s.out \in Outs(v)

LEMMA ParGives ==
  ASSUME NEW r \in BOOLEAN, NEW w \in BOOLEAN, NEW v, NEW o \in Outs(v)
  PROVE  GivesOut(Par(NoButton, r, w, o), v)
<1>1. o \in Outs(v)
  BY Zenon
<1>2. QED
  BY <1>1, Zenon DEF GivesOut, ParserOK, Par

LEMMA ButtonThere ==
  ASSUME NEW c, NEW v
  PROVE  Button(c, v) # NoButton
BY Zenon DEF Button, NoButton, Raw

\* The parser p reads a report and is left, with the events given, as s.
Parses(p, report, s) == Parsed(p, report) = s

LEMMA ParsesTwo ==
  ASSUME NEW p, ParserOK(p), NEW a, NEW b, NEW s1, NEW s2,
         Eats(Par(NoButton, p.rel, p.wheel, <<>>), a, s1), Eats(s1, b, s2)
  PROVE  Parses(p, <<a, b>>, s2)
<1>1. [p |-> p, out |-> <<>>] = Par(NoButton, p.rel, p.wheel, <<>>)
  BY Zenon DEF ParserOK, Par
<1> DEFINE report == <<a, b>>
<1>2. Len(report) = 2 /\ report[1] = a /\ report[2] = b
  BY Zenon
<1> HIDE DEF report
<1>3. Parsed(p, report) = ingest(ingest([p |-> p, out |-> <<>>], report[1]), report[2])
  BY <1>2, ParsedIs
<1>4. QED
  BY <1>1, <1>2, <1>3, Zenon DEF Eats, Parses, report

LEMMA ParsesThree ==
  ASSUME NEW p, ParserOK(p), NEW a, NEW b, NEW c, NEW s1, NEW s2, NEW s3,
         Eats(Par(NoButton, p.rel, p.wheel, <<>>), a, s1), Eats(s1, b, s2), Eats(s2, c, s3)
  PROVE  Parses(p, <<a, b, c>>, s3)
<1>1. [p |-> p, out |-> <<>>] = Par(NoButton, p.rel, p.wheel, <<>>)
  BY Zenon DEF ParserOK, Par
<1> DEFINE report == <<a, b, c>>
<1>2. Len(report) = 3 /\ report[1] = a /\ report[2] = b /\ report[3] = c
  BY Zenon
<1> HIDE DEF report
<1>3. Parsed(p, report) = ingest(ingest(ingest([p |-> p, out |-> <<>>], report[1]), report[2]), report[3])
  BY <1>2, ParsedIs
<1>4. QED
  BY <1>1, <1>2, <1>3, Zenon DEF Eats, Parses, report

LEMMA SameSeq ==
  ASSUME NEW S, NEW s \in Seq(S), NEW t \in Seq(S), NEW n \in Nat, Len(s) = n, Len(t) = n,
         \A i \in 1 .. n : s[i] = t[i]
  PROVE  s = t
OBVIOUS

LEMMA FirstOut ==
  ASSUME NEW x
  PROVE  Append(<<>>, x) = <<x>>
OBVIOUS

LEMMA SecondOut ==
  ASSUME NEW x, NEW y
  PROVE  Append(<<x>>, y) = <<x, y>>
<1> DEFINE S == {x, y}
           p == <<x>>
           q == Append(p, y)
           t == <<x, y>>
<1>1. p \in Seq(S) /\ Len(p) = 1 /\ p[1] = x /\ y \in S
  OBVIOUS
<1>2. t \in Seq(S) /\ Len(t) = 2 /\ t[1] = x /\ t[2] = y
  OBVIOUS
<1> HIDE DEF S, p
<1>3. /\ q \in Seq(S) /\ Len(q) = Len(p) + 1
      /\ \A j \in 1 .. Len(p) : q[j] = p[j]
      /\ q[Len(p) + 1] = y
  BY <1>1, AppendIs, Zenon
<1> HIDE DEF q, t
<1>4. Len(q) = 2 /\ q[1] = x /\ q[2] = y
  BY <1>1, <1>3
<1>5. \A i \in 1 .. 2 : q[i] = t[i]
  BY <1>2, <1>4
<1>6. q = t
  BY <1>2, <1>3, <1>4, <1>5, SameSeq, Zenon
<1>7. QED
  BY <1>6, Zenon DEF q, t, p

\* A report of the mouse or the keyboard, on whatever waits in the parser.
LEMMA ReportGives ==
  ASSUME NEW p, ParserOK(p), NEW v \in BOOLEAN, NEW report \in Reports(v)
  PROVE  GivesOut(Parsed(p, report), v)
<1> DEFINE L == Button("L", v)
           R == Button("R", v)
           r == p.rel
           w == p.wheel
<1>1. r \in BOOLEAN /\ w \in BOOLEAN /\ TRUE \in BOOLEAN /\ FALSE \in BOOLEAN
  BY Zenon DEF ParserOK
<1>2. L # NoButton /\ R # NoButton
  BY ButtonThere, Zenon
<1>3. /\ Append(<<>>, L) = <<L>> /\ Append(<<>>, R) = <<R>> /\ Append(<<>>, Rel) = <<Rel>>
      /\ Append(<<>>, Wheel) = <<Wheel>> /\ Append(<<>>, Key(v)) = <<Key(v)>>
      /\ Append(<<Key(v)>>, Rel) = <<Key(v), Rel>> /\ Append(<<Key(v)>>, Wheel) = <<Key(v), Wheel>>
  BY FirstOut, SecondOut, Zenon
<1>4. /\ <<L>> \in Outs(v) /\ <<R>> \in Outs(v) /\ <<Rel>> \in Outs(v) /\ <<Wheel>> \in Outs(v)
      /\ <<Key(v)>> \in Outs(v) /\ <<Key(v), Rel>> \in Outs(v) /\ <<Key(v), Wheel>> \in Outs(v)
  BY Zenon DEF Outs
<1>5. ASSUME NEW x \in BOOLEAN, NEW y \in BOOLEAN, NEW o \in Outs(v), Parses(p, report, Par(NoButton, x, y, o))
      PROVE  GivesOut(Parsed(p, report), v)
  BY <1>5, ParGives, Zenon DEF Parses
<1>6. report \in { <<L, Syn>>, <<Rel, L, Syn>>, <<L, R, Syn>>, <<R, L, Syn>>,
                   <<R, Syn>>, <<Rel, Syn>>, <<Wheel, Syn>>, <<Key(v), Syn>> }
  BY Zenon DEF Reports
<1>7. ASSUME NEW b, NEW x, NEW y PROVE Eats(Par(b, x, y, <<>>), L, Par(L, x, y, <<>>))
  BY EatsButton, Zenon
<1>8. ASSUME NEW b, NEW x, NEW y PROVE Eats(Par(b, x, y, <<>>), R, Par(R, x, y, <<>>))
  BY EatsButton, Zenon
<1>9. ASSUME NEW x \in BOOLEAN, NEW y \in BOOLEAN
      PROVE  /\ Eats(Par(L, x, y, <<>>), Syn, Par(NoButton, x, y, <<L>>))
             /\ Eats(Par(R, x, y, <<>>), Syn, Par(NoButton, x, y, <<R>>))
  <2>1. /\ Eats(Par(L, x, y, <<>>), Syn, Par(NoButton, x, y, Append(<<>>, L)))
        /\ Eats(Par(R, x, y, <<>>), Syn, Par(NoButton, x, y, Append(<<>>, R)))
    BY <1>2, EatsSyn, Zenon
  <2>2. QED
    BY <1>3, <2>1, Zenon
<1> HIDE DEF L, R, r, w
<1>10. CASE report = <<L, Syn>>
  <2>1. Parses(p, report, Par(NoButton, r, w, <<L>>))
    BY <1>1, <1>7, <1>9, <1>10, ParsesTwo, Zenon DEF r, w
  <2>2. QED
    BY <1>1, <1>4, <1>5, <2>1, Zenon
<1>11. CASE report = <<Rel, L, Syn>>
  <2>1. Eats(Par(NoButton, r, w, <<>>), Rel, Par(NoButton, TRUE, w, <<>>))
    BY EatsRel, Zenon
  <2>2. Parses(p, report, Par(NoButton, TRUE, w, <<L>>))
    BY <1>1, <1>7, <1>9, <1>11, <2>1, ParsesThree, Zenon DEF r, w
  <2>3. QED
    BY <1>1, <1>4, <1>5, <2>2, Zenon
<1>12. CASE report = <<L, R, Syn>>
  <2>1. Parses(p, report, Par(NoButton, r, w, <<R>>))
    BY <1>1, <1>7, <1>8, <1>9, <1>12, ParsesThree, Zenon DEF r, w
  <2>2. QED
    BY <1>1, <1>4, <1>5, <2>1, Zenon
<1>13. CASE report = <<R, L, Syn>>
  <2>1. Parses(p, report, Par(NoButton, r, w, <<L>>))
    BY <1>1, <1>7, <1>8, <1>9, <1>13, ParsesThree, Zenon DEF r, w
  <2>2. QED
    BY <1>1, <1>4, <1>5, <2>1, Zenon
<1>14. CASE report = <<R, Syn>>
  <2>1. Parses(p, report, Par(NoButton, r, w, <<R>>))
    BY <1>1, <1>8, <1>9, <1>14, ParsesTwo, Zenon DEF r, w
  <2>2. QED
    BY <1>1, <1>4, <1>5, <2>1, Zenon
<1>15. CASE report = <<Rel, Syn>>
  <2>1. Eats(Par(NoButton, r, w, <<>>), Rel, Par(NoButton, TRUE, w, <<>>))
    BY EatsRel, Zenon
  <2>2. Eats(Par(NoButton, TRUE, w, <<>>), Syn, Par(NoButton, FALSE, w, <<Rel>>))
    BY <1>1, <1>3, EatsSyn, Zenon
  <2>3. Parses(p, report, Par(NoButton, FALSE, w, <<Rel>>))
    BY <1>15, <2>1, <2>2, ParsesTwo, Zenon DEF r, w
  <2>4. QED
    BY <1>1, <1>4, <1>5, <2>3, Zenon
<1>16. CASE report = <<Wheel, Syn>>
  <2>1. Eats(Par(NoButton, r, w, <<>>), Wheel, Par(NoButton, r, TRUE, <<>>))
    BY EatsWheel, Zenon
  <2>2. CASE r
    <3>1. Eats(Par(NoButton, r, TRUE, <<>>), Syn, Par(NoButton, FALSE, TRUE, <<Rel>>))
      BY <1>1, <1>3, <2>2, EatsSyn, Zenon
    <3>2. Parses(p, report, Par(NoButton, FALSE, TRUE, <<Rel>>))
      BY <1>16, <2>1, <3>1, ParsesTwo, Zenon DEF r, w
    <3>3. QED
      BY <1>1, <1>4, <1>5, <3>2, Zenon
  <2>3. CASE ~r
    <3>1. Eats(Par(NoButton, r, TRUE, <<>>), Syn, Par(NoButton, r, FALSE, <<Wheel>>))
      BY <1>1, <1>3, <2>3, EatsSyn, Zenon
    <3>2. Parses(p, report, Par(NoButton, r, FALSE, <<Wheel>>))
      BY <1>16, <2>1, <3>1, ParsesTwo, Zenon DEF r, w
    <3>3. QED
      BY <1>1, <1>4, <1>5, <3>2, Zenon
  <2>4. QED
    BY <2>2, <2>3, Zenon
<1>17. CASE report = <<Key(v), Syn>>
  <2>1. Eats(Par(NoButton, r, w, <<>>), Key(v), Par(NoButton, r, w, <<Key(v)>>))
    BY <1>3, EatsKey, Zenon
  <2>2. CASE r
    <3>1. Eats(Par(NoButton, r, w, <<Key(v)>>), Syn, Par(NoButton, FALSE, w, <<Key(v), Rel>>))
      BY <1>1, <1>3, <2>2, EatsSyn, Zenon
    <3>2. Parses(p, report, Par(NoButton, FALSE, w, <<Key(v), Rel>>))
      BY <1>17, <2>1, <3>1, ParsesTwo, Zenon DEF r, w
    <3>3. QED
      BY <1>1, <1>4, <1>5, <3>2, Zenon
  <2>3. CASE ~r /\ w
    <3>1. Eats(Par(NoButton, r, w, <<Key(v)>>), Syn, Par(NoButton, r, FALSE, <<Key(v), Wheel>>))
      BY <1>1, <1>3, <2>3, EatsSyn, Zenon
    <3>2. Parses(p, report, Par(NoButton, r, FALSE, <<Key(v), Wheel>>))
      BY <1>17, <2>1, <3>1, ParsesTwo, Zenon DEF r, w
    <3>3. QED
      BY <1>1, <1>4, <1>5, <3>2, Zenon
  <2>4. CASE ~r /\ ~w
    <3>1. Eats(Par(NoButton, r, w, <<Key(v)>>), Syn, Par(NoButton, r, w, <<Key(v)>>))
      BY <1>1, <2>4, EatsSyn, Zenon
    <3>2. Parses(p, report, Par(NoButton, r, w, <<Key(v)>>))
      BY <1>17, <2>1, <3>1, ParsesTwo, Zenon DEF r, w
    <3>3. QED
      BY <1>1, <1>4, <1>5, <3>2, Zenon
  <2>5. QED
    BY <2>2, <2>3, <2>4, Zenon
<1>18. QED
  BY <1>6, <1>10, <1>11, <1>12, <1>13, <1>14, <1>15, <1>16, <1>17, Zenon

-----------------------------------------------------------------------------
(* The turn of a report *)

\* What a report with a button that goes to v does to the desktop.
TurnOK(d, e, v) == Sound(e) /\ (Calm(d) /\ (v => ~Waiting(d)) => Calm(e) /\ Looks(d, e))

LEMMA TurnFromStep ==
  ASSUME NEW d, NEW e, NEW v, Step(d, e)
  PROVE  TurnOK(d, e, v)
BY Zenon DEF Step, TurnOK

LEMMA TurnStep ==
  ASSUME NEW d, Sound(d), NEW v \in BOOLEAN, NEW out \in Outs(v), NEW e \in Turn(d, out)
  PROVE  TurnOK(d, e, v)
<1>1. CASE out \in {<<Button("L", v)>>, <<Button("R", v)>>, <<Rel>>, <<Wheel>>, <<Key(v)>>}
  <2>1. Len(out) = 1 /\ out[1] \in {Button("L", v), Button("R", v), Rel, Wheel, Key(v)}
    BY <1>1
  <2>2. e \in handle_event(d, out[1])
    BY <2>1, TurnIs
  <2>3. CASE out[1] = Button("L", v)
    <3>1. CASE v = TRUE
      <4>1. DownStep(d, e)
        BY <2>2, <2>3, <3>1, LeftDownStep, Zenon
      <4>2. QED
        BY <3>1, <4>1, Zenon DEF TurnOK, DownStep
    <3>2. CASE v = FALSE
      BY <2>2, <2>3, <3>2, LeftUpStep, TurnFromStep, Zenon
    <3>3. QED
      BY <3>1, <3>2, Zenon
  <2>4. CASE out[1] # Button("L", v)
    BY <2>1, <2>2, <2>4, OtherStep, TurnFromStep, Zenon
  <2>5. QED
    BY <2>3, <2>4, Zenon
<1>2. CASE out \in {<<Key(v), Rel>>, <<Key(v), Wheel>>}
  <2>1. Len(out) = 2 /\ out[1] = Key(v) /\ out[2] \in {Rel, Wheel}
    BY <1>2
  <2>2. PICK f \in handle_event(d, out[1]) : e \in handle_event(f, out[2])
    BY <2>1, TurnIs
  <2>3. Step(d, f)
    BY <2>1, <2>2, OtherStep, Zenon
  <2>4. Step(f, e)
    BY <2>1, <2>2, <2>3, OtherStep, Zenon DEF Step
  <2>5. QED
    BY <2>3, <2>4, StepTwice, TurnFromStep, Zenon
<1>3. QED
  BY <1>1, <1>2, Zenon DEF Outs

\* Where the desktop looks as before, the pictures are the same.
LEMMA LooksClean ==
  ASSUME NEW d, NEW e, Looks(d, e), NEW a \in Areas, a \notin e.dirty
  PROVE  Picture(e, a) = Picture(d, a)
<1>1. CASE a = "icons"
  BY <1>1, Zenon DEF Looks, Picture
<1>2. CASE a = "windows"
  BY <1>2, Zenon DEF Looks, Picture
<1>3. CASE a = "taskbar"
  <2>1. /\ e.focused = d.focused /\ e.task = d.task
        /\ Count(e) = Count(d) /\ \A i \in 1 .. Count(d) : e.windows[i].id = d.windows[i].id
        /\ e.focused \in Visible(e) <=> d.focused \in Visible(d)
    BY <1>3, Zenon DEF Looks
  <2>2. [i \in 1 .. Count(e) |-> e.windows[i].id] = [i \in 1 .. Count(d) |-> d.windows[i].id]
    BY <2>1, Zenon
  <2>3. (e.focused \in Visible(e)) = (d.focused \in Visible(d))
    BY <2>1
  <2>4. QED
    BY <1>3, <2>1, <2>2, <2>3, Zenon DEF Picture
<1>4. CASE a = "menu"
  BY <1>4, Zenon DEF Looks, Picture
<1>5. QED
  BY <1>1, <1>2, <1>3, <1>4, Zenon DEF Areas

\* What the desktop becomes when it is drawn.
Drawn(d, b) ==
  [d EXCEPT !.dirty = {}, !.hover = IF d.open THEN @ ELSE "none",
            !.press = [k \in Kinds |-> IF b THEN [@[k] EXCEPT !.id = NoWindow] ELSE @[k]]]

LEMMA DrawnIs ==
  ASSUME NEW d, Sound(d), NEW b \in BOOLEAN
  PROVE  /\ Sound(Drawn(d, b)) /\ Drawn(d, b).dirty = {}
         /\ ~b /\ Calm(d) => Calm(Drawn(d, b))
         /\ Waiting(Drawn(d, b)) => Waiting(d)
<1> DEFINE h == IF d.open THEN d.hover ELSE "none"
           p == [k \in Kinds |-> IF b THEN [d.press[k] EXCEPT !.id = NoWindow] ELSE d.press[k]]
           e == [d EXCEPT !.dirty = {}, !.hover = h, !.press = p]
<1>1. /\ d \in DeskType /\ d.press \in [Kinds -> PressType]
      /\ \A k \in Kinds : d.press[k].idx \in 0 .. Count(d)
  BY SoundTypes, Zenon
<1>2. h \in Hovers
  BY <1>1, Zenon DEF DeskType, Hovers
<1>3. p \in [Kinds -> PressType] /\ \A k \in Kinds : p[k].idx = d.press[k].idx
  BY <1>1, Zenon DEF PressType
<1>4. ~b => p = d.press
  BY <1>1, Zenon
<1> HIDE DEF h, p
<1>5. /\ e \in DeskType /\ e.windows = d.windows /\ e.focused = d.focused /\ e.press = p
      /\ e.task = d.task /\ e.btn = d.btn /\ e.dirty = {}
  BY <1>1, <1>2, <1>3, Zenon DEF DeskType
<1>6. e = Drawn(d, b)
  BY Zenon DEF h, p, Drawn
<1> HIDE DEF e
<1>7. Count(e) = Count(d)
  BY <1>5, Zenon DEF Count
<1>8. Sound(e)
  BY <1>3, <1>5, <1>7, Zenon DEF Sound, Ranges, Distinct, Restores
<1>9. ~b /\ Calm(d) => Calm(e)
  BY <1>4, <1>5, CalmKept, Zenon DEF SameCore
<1>10. Waiting(e) => Waiting(d)
  BY <1>3, <1>5, Zenon DEF Waiting
<1>11. QED
  BY <1>5, <1>6, <1>8, <1>9, <1>10, Zenon

\* Drawing at the end of a turn.  A history without a stale press stays one
\* unless a press outlives its release; one with a stale press becomes one again
\* only when nothing of it is left.
LEMMA PresentInv ==
  ASSUME IInv, NEW d, Sound(d), ~stale => Calm(d) /\ Looks(desk, d),
         held' \in BOOLEAN, ParserOK(parser'), present(d)
  PROVE  IInv'
<1> DEFINE changed == {a \in Areas : Picture(d, a) # Picture(desk, a)}
<1>1. /\ behind' = (behind \cup changed) \ d.dirty
      /\ stale' = ((stale \/ (Waiting(d) /\ ~held')) /\ (Waiting(d) \/ ~Settled(d) \/ behind' # {}))
      /\ desk' = Drawn(d, stale')
  BY Zenon DEF present, Drawn
<1>2. stale \in BOOLEAN /\ behind \subseteq Areas /\ (~stale => behind = {})
  BY Zenon DEF IInv
<1>3. stale' \in BOOLEAN /\ behind' \subseteq Areas
  <2>1. stale' \in BOOLEAN
    BY <1>1, Zenon
  <2>2. QED
    BY <1>1, <1>2, <2>1, Zenon
<1>4. /\ Sound(desk') /\ desk'.dirty = {}
      /\ ~stale' /\ Calm(d) => Calm(desk')
      /\ Waiting(desk') => Waiting(d)
  BY <1>1, <1>3, DrawnIs, Zenon
<1>5. ~stale => behind' = {}
  <2>1. ASSUME ~stale, NEW a \in behind' PROVE FALSE
    <3>1. a \in changed /\ a \notin d.dirty
      BY <1>1, <1>2, <2>1, Zenon
    <3>2. Picture(d, a) = Picture(desk, a)
      BY <2>1, <3>1, LooksClean, Zenon
    <3>3. QED
      BY <3>1, <3>2, Zenon
  <2>2. QED
    BY <2>1, Zenon
<1>6. ASSUME ~stale' PROVE Calm(d) /\ behind' = {} /\ (Waiting(d) => held')
  <2>1. CASE ~stale
    <3>1. ~(Waiting(d) /\ ~held')
      BY <1>1, <1>6, <2>1, Zenon
    <3>2. QED
      BY <1>5, <2>1, <3>1, Zenon
  <2>2. CASE stale
    <3>1. ~Waiting(d) /\ Settled(d) /\ behind' = {}
      BY <1>1, <1>6, <2>2, Zenon
    <3>2. QED
      BY <3>1, Zenon DEF Calm, Waiting, PressRight
  <2>3. QED
    BY <2>1, <2>2, Zenon
<1>7. Sound(desk)' /\ (~stale' => Calm(desk)' /\ (Waiting(desk)' => held'))
  BY <1>4, <1>6, Zenon
<1>8. QED
  BY <1>3, <1>4, <1>6, <1>7, Zenon DEF IInv, ParserOK

LEMMA InitInv ==
  ASSUME Init
  PROVE  IInv
<1> DEFINE d0 == [windows |-> <<>>, focused |-> None, open |-> FALSE, hover |-> "none",
                  task |-> None, btn |-> None, icon |-> None, selected |-> None,
                  press |-> [k \in Kinds |-> NoPress], dirty |-> {}]
<1>1. PICK id \in Windows : desk = [launch_app(d0, id) EXCEPT !.dirty = {}]
  BY Zenon DEF Init
<1>2. NoPress \in PressType /\ NoPress.idx = None
  BY Zenon DEF NoPress, PressType, None
<1>3. d0 \in DeskType
  BY <1>2 DEF DeskType, None, Hovers
<1>4. /\ d0.windows = <<>> /\ Count(d0) = 0 /\ d0.focused = 0 /\ d0.task = 0 /\ d0.btn = 0
      /\ \A k \in Kinds : d0.press[k] = NoPress
  BY Zenon DEF Count, None
<1> HIDE DEF d0
<1>5. Ranges(d0) /\ Distinct(d0) /\ Restores(d0)
  BY <1>2, <1>4 DEF Ranges, Distinct, Restores, None
<1>6. Sound(d0)
  BY <1>3, <1>5, Zenon DEF Sound
<1>7. Calm(d0)
  <2>1. Visible(d0) = {}
    BY <1>4 DEF Visible
  <2>2. topmost_visible_window_index(d0) = 0
    BY <1>3, <2>1, TopmostIs, Zenon DEF None
  <2>3. QED
    BY <1>2, <1>4, <2>2 DEF Calm, Settled, PressRight
<1> DEFINE d1 == launch_app(d0, id)
<1>8. Sound(d1) /\ Calm(d1)
  BY <1>4, <1>6, <1>7, LaunchStep DEF Step
<1>9. d1.press = d0.press
  BY <1>3, LaunchIs, Zenon
<1> HIDE DEF d1
<1>10. desk = [d1 EXCEPT !.dirty = {}]
  BY <1>1, Zenon DEF d1
<1>11. /\ desk \in DeskType /\ SameCore(d1, desk) /\ desk.task = d1.task /\ desk.btn = d1.btn
       /\ desk.dirty = {}
  BY <1>8, <1>10, Zenon DEF Sound, DeskType, SameCore
<1>12. Sound(desk) /\ Calm(desk)
  BY <1>8, <1>11, SoundKept, CalmKept, SoundRanges
<1>13. ~Waiting(desk)
  BY <1>2, <1>4, <1>9, <1>11, Zenon DEF Waiting, SameCore
<1>14. ParserOK(parser)
  BY Zenon DEF Init, ParserOK
<1>15. QED
  BY <1>11, <1>12, <1>13, <1>14, Zenon DEF Init, IInv

LEMMA ReportInv ==
  ASSUME IInv, Report
  PROVE  IInv'
<1>1. PICK left \in BOOLEAN :
        /\ Hold(left)
        /\ \E s \in {Parsed(parser, r) : r \in {x \in Reports(~held) : HasLeft(x) = left}} :
             /\ parser' = s.p
             /\ \E d \in Turn(desk, s.out) : present(d)
  BY Zenon DEF Report
<1>2. PICK r \in Reports(~held) :
        parser' = Parsed(parser, r).p /\ \E d \in Turn(desk, Parsed(parser, r).out) : present(d)
  BY <1>1, Zenon
<1> DEFINE s == Parsed(parser, r)
<1>3. PICK d \in Turn(desk, s.out) : present(d)
  BY <1>2, Zenon
<1>4. /\ Sound(desk) /\ ParserOK(parser) /\ held \in BOOLEAN /\ (~held) \in BOOLEAN /\ stale \in BOOLEAN
      /\ ~stale => Calm(desk) /\ (Waiting(desk) => held)
  BY Zenon DEF IInv
<1>5. GivesOut(s, ~held)
  BY <1>4, ReportGives, Zenon
<1>6. parser' = s.p
  BY <1>2, Zenon
<1> HIDE DEF s
<1>7. ParserOK(parser') /\ s.out \in Outs(~held)
  BY <1>5, <1>6, Zenon DEF GivesOut
<1>8. TurnOK(desk, d, ~held)
  BY <1>3, <1>4, <1>7, TurnStep, Zenon
<1>9. Sound(d) /\ (~stale => Calm(d) /\ Looks(desk, d))
  BY <1>4, <1>8, Zenon DEF TurnOK
<1>10. held' \in BOOLEAN
  BY <1>1, <1>4, Zenon DEF Hold
<1>11. QED
  BY <1>3, <1>7, <1>9, <1>10, PresentInv, Zenon

LEMMA DroppedInv ==
  ASSUME IInv, Dropped
  PROVE  IInv'
<1>1. present(desk) /\ Hold(TRUE) /\ parser' = parser
  BY Zenon DEF Dropped
<1>2. /\ Sound(desk) /\ ParserOK(parser) /\ held \in BOOLEAN
      /\ ~stale => Calm(desk)
  BY Zenon DEF IInv
<1>3. Step(desk, desk)
  BY <1>2, StepStays, Zenon
<1>4. held' \in BOOLEAN /\ ParserOK(parser')
  BY <1>1, <1>2, Zenon DEF Hold
<1>5. QED
  BY <1>1, <1>2, <1>3, <1>4, PresentInv, Zenon DEF Step

LEMMA ClockMinuteInv ==
  ASSUME IInv, ClockMinute
  PROVE  IInv'
<1> DEFINE d == mark(desk, {"taskbar"})
<1>1. present(d) /\ Hold(FALSE) /\ parser' = parser
  BY Zenon DEF ClockMinute
<1>2. /\ Sound(desk) /\ ParserOK(parser) /\ held \in BOOLEAN
      /\ ~stale => Calm(desk)
  BY Zenon DEF IInv
<1>3. Step(desk, d)
  BY <1>2, MarkStep, Zenon DEF Areas
<1> HIDE DEF d
<1>4. held' \in BOOLEAN /\ ParserOK(parser')
  BY <1>1, <1>2, Zenon DEF Hold
<1>5. QED
  BY <1>1, <1>2, <1>3, <1>4, PresentInv, Zenon DEF Step

LEMMA StutterInv ==
  ASSUME IInv, UNCHANGED vars
  PROVE  IInv'
<1>1. desk' = desk /\ parser' = parser /\ held' = held /\ stale' = stale /\ behind' = behind
  BY Zenon DEF vars
<1>2. QED
  BY <1>1, ZenonT(40) DEF IInv, Sound, Calm, Ranges, Distinct, Restores, WindowSound, PressRight, ParserOK, Settled,
     Waiting, Count, Visible, topmost_visible_window_index, DeskType, Window, PressType

-----------------------------------------------------------------------------
(* The theorems *)

\* The inductive invariant holds in every reachable state, for any number of
\* windows: every handler of desktop.rs keeps it, and so does every turn of the
\* loop in runtime.rs.
THEOREM Invariance == Spec => []IInv
<1>1. Init => IInv
  BY InitInv, Zenon
<1>2. IInv /\ [Next]_vars => IInv'
  BY ReportInv, DroppedInv, ClockMinuteInv, StutterInv, Zenon DEF Next
<1>3. QED
  BY <1>1, <1>2, PTL DEF Spec

\* Every index Desktop keeps (focused, the highlighted buttons, the presses) is
\* one of a window, whatever was closed, raised or opened since and whatever
\* reports were lost; windows have names of their own, and a frame to go back to
\* exactly while maximized.
THEOREM DeskIsSound == Spec => []DeskSound
<1>1. ASSUME IInv PROVE DeskSound
  <2>1. /\ Sound(desk) /\ ParserOK(parser) /\ held \in BOOLEAN /\ stale \in BOOLEAN /\ behind \subseteq Areas
        /\ ~stale => Calm(desk)
    BY <1>1, Zenon DEF IInv
  <2>2. \A i \in 1 .. Count(desk) : desk.windows[i] \in Window
    BY <2>1, SoundTypes, Zenon
  <2>3. TypeOK
    <3>1. IsInjective([i \in 1 .. Count(desk) |-> desk.windows[i].id])
      BY <2>1, Zenon DEF Sound, Distinct, IsInjective
    <3>2. desk.open \in BOOLEAN /\ desk.hover \in {"none", "apps", "sub", "down"}
      BY <2>1, Zenon DEF Sound, DeskType, Hovers
    <3>3. \A i \in 1 .. Count(desk) :
            desk.windows[i] \in [id : Windows, minimized : BOOLEAN, maximized : BOOLEAN,
                                 frame : {"placed", "full"}, restore : {"none", "placed", "full"}]
      BY <2>2, Zenon DEF Window
    <3>4. QED
      BY <2>1, <3>1, <3>2, <3>3, Zenon DEF TypeOK, ParserOK
  <2>4. IndicesInRange
    BY <2>1, SoundTypes, SoundRanges, Zenon DEF IndicesInRange
  <2>5. RestoreKept
    <3>1. ASSUME NEW i \in 1 .. Count(desk)
          PROVE  /\ desk.windows[i].maximized <=> desk.windows[i].restore # "none"
                 /\ stale \/ (desk.windows[i].maximized <=> desk.windows[i].frame = "full")
      <4>1. desk.windows[i] \in Window /\ WindowSound(desk.windows[i])
        BY <2>1, <2>2, Zenon DEF Sound, Restores
      <4>2. desk.windows[i].maximized <=> desk.windows[i].restore # "none"
        BY <4>1, Zenon DEF Window, WindowSound
      <4>3. ~stale => (desk.windows[i].maximized <=> desk.windows[i].frame = "full")
        BY <2>1, Zenon DEF Calm, Settled
      <4>4. QED
        BY <4>2, <4>3, Zenon
    <3>2. QED
      BY <3>1, Zenon DEF RestoreKept
  <2>6. QED
    BY <2>3, <2>4, <2>5, Zenon DEF DeskSound
<1>2. QED
  BY <1>1, Invariance, PTL

\* refocus_after_visibility_change, focus_window and launch_app together keep
\* the focus on the topmost window that is seen.
THEOREM FocusIsTopmost == Spec => []FocusTopmost
<1>1. ASSUME IInv PROVE FocusTopmost
  BY <1>1, Zenon DEF IInv, Calm, Settled, FocusTopmost
<1>2. QED
  BY <1>1, Invariance, PTL

\* The release of a button acts on the window that was pressed: the index kept
\* in a ButtonPressState or DragState still names it.
THEOREM PressesNameWindows == Spec => []PressNamesWindow
<1>1. ASSUME IInv PROVE PressNamesWindow
  BY <1>1, Zenon DEF IInv, Calm, PressRight, PressNamesWindow
<1>2. QED
  BY <1>1, Invariance, PTL

\* Whatever a handler changed it marked dirty: after draw the screen shows the
\* desktop.
THEOREM ScreenIsCurrent == Spec => []ScreenCurrent
<1>1. ASSUME IInv PROVE ScreenCurrent
  BY <1>1, Zenon DEF IInv, ScreenCurrent
<1>2. QED
  BY <1>1, Invariance, PTL

=============================================================================
