----------------------------- MODULE HistoryView -----------------------------
(***************************************************************************)
(* What the History window shows and what a key, a click or a menu does to *)
(* it: the list read from the database, the filters, the selection and the *)
(* scroll, the buttons of a row, the preview that floats beside it, and    *)
(* the banners that take the place of the list.                            *)
(*                                                                         *)
(* The window is a set of handlers of one thread.  What they change is on  *)
(* the screen only after a later WM_PAINT, which comes if the handler has  *)
(* invalidated the window; the user acts on what is painted, except for    *)
(* the second click of a double click.  A menu or a message box runs a     *)
(* loop of its own inside the handler that opens it: the hotkey, the end   *)
(* of a switch of the protection and the other windows go on meanwhile.    *)
(* The worker copies and purges between two handlers; a request of the     *)
(* window and its answer are one step here (ClipboardHistory has the       *)
(* steps of the worker, DatabaseProtection those of a switch).             *)
(***************************************************************************)
EXTENDS Integers, Sequences, FiniteSets

CONSTANTS
    FirstClips,         \* what the database holds at first
    Pages,              \* how many rows a page may have, by DPI and monitor
    Segments,           \* the filters by type, in the order of the strip
    PinCap,             \* max_pinned
    WheelLines,         \* WHEEL_LINES_PER_NOTCH
    MaxSwitches,        \* bound: switches of the protection
    SwitchedClips,      \* bound: clips of the database when a switch starts
    MaxTurns            \* bound: copies, purges and operations that fail

Types == {"text", "image", "files", "other"}

\* A clip as a row shows it: whether what is typed in the filter occurs in it,
\* and whether its row cuts its text, so that it has a preview.
Clip == [id : Nat \ {0}, type : Types, matches : BOOLEAN, cut : BOOLEAN,
         last : Nat, pinned : BOOLEAN]

ASSUME ViewAssumption ==
    /\ FirstClips \subseteq Clip /\ IsFiniteSet(FirstClips)
    /\ \A c, d \in FirstClips : c.id = d.id => c = d
    /\ \A c \in FirstClips : c.id <= Cardinality(FirstClips)
    /\ Pages \subseteq Nat \ {0} /\ Pages # {}
    /\ Segments \in Seq({"all", "text", "image", "files"})
    /\ Segments # <<>> /\ Segments[1] = "all"
    /\ PinCap \in Nat /\ WheelLines \in Nat \ {0}
    /\ MaxSwitches \in Nat /\ SwitchedClips \in Nat /\ MaxTurns \in Nat

VARIABLES
    store,              \* the clips of the database
    protected,          \* the database is protected
    switch,             \* the worker's switch of the protection
    reader,             \* the window has a connection
    rows, error,        \* what it has read last
    toggle,             \* the switch the window knows of
    open, page,         \* IsWindowVisible, and the rows of a page
    text, type, strip,  \* the filters, and the focus of the filter strip
    view,               \* selected and scroll_offset, from zero
    mouse,              \* mouse_at
    hover, tracking,    \* HoverTracker, and whether Windows will report
    popup,              \* the clip of the preview
    guard,              \* ClickGuard::last_down_on_button
    dialog, menu,       \* the loop a handler runs, and the row of the menu
    screen, dirty,      \* what is painted, and whether a WM_PAINT is due
    switches, turns,    \* counters for the bounds
    clicked,            \* ghost: the last click, while it may become a double
    acted,              \* ghost: the clip this step changed or pasted, and the
                        \* one the user was shown where they pointed
    wiped               \* ghost: a recreation has met a protected database

data == <<store, protected, switch>>
list == <<rows, error, reader>>
filters == <<text, type, strip>>
pointer == <<mouse, tracking>>
preview == <<hover, popup>>
modal == <<dialog, menu>>
picture == <<screen, dirty>>
counters == <<switches, turns>>
vars == <<data, list, toggle, open, page, filters, view, pointer, preview,
          guard, modal, picture, counters, clicked, acted, wiped>>

-----------------------------------------------------------------------------
(* The list.                                                                *)

Least(a, b) == IF a < b THEN a ELSE b
Most(a, b) == IF a > b THEN a ELSE b

\* The elements of a finite set in an order.
Sorted(S, R(_, _)) ==
    [k \in 1 .. Cardinality(S) |->
        CHOOSE x \in S : Cardinality({y \in S : R(y, x)}) = k - 1]

Newer(c, d) == c.last > d.last \/ (c.last = d.last /\ c.id > d.id)

\* ORDER BY pinned DESC, last_activity_utc DESC, id DESC.
Before(c, d) == IF c.pinned = d.pinned THEN Newer(c, d) ELSE c.pinned

ListForDisplay(s) == Sorted(s, Before)

PassesType(c, ty) == ty = "all" \/ c.type = ty

\* The pinned rows stay in front after a pin changed in the list itself.
VisibleRows(rs, tx, ty) ==
    LET passing == {i \in DOMAIN rs : PassesType(rs[i], ty)
                                      /\ (tx = "" \/ rs[i].matches)}
        InFront(i, j) == IF rs[i].pinned = rs[j].pinned THEN i < j ELSE rs[i].pinned
        order == Sorted(passing, InFront)
    IN  [k \in DOMAIN order |-> rs[order[k]]]

Shown == VisibleRows(rows, text, type)

NoRow == -1

PositionOf(id, vis) ==
    IF \E i \in DOMAIN vis : vis[i].id = id
    THEN (CHOOSE i \in DOMAIN vis : vis[i].id = id) - 1
    ELSE NoRow

\* The least scroll from "top" that has the row "pos" on the page.
ScrollTo(pos, top, pg) ==
    IF pos < top THEN pos
    ELSE IF pos >= top + pg THEN pos + 1 - pg
    ELSE top

Top == [sel |-> 0, top |-> 0]

ViewAfterRemoval(sel, scroll, n, pg) ==
    LET s == Least(sel, n - 1)
        t == Least(scroll, Most(n - pg, 0))
    IN  IF n = 0 THEN Top ELSE [sel |-> s, top |-> ScrollTo(s, t, pg)]

\* The most recent copy among the visible rows.
DefaultView(vis, pg) ==
    IF vis = <<>> THEN Top
    ELSE LET i == CHOOSE i \in DOMAIN vis :
                    \A j \in DOMAIN vis \ {i} : Newer(vis[i], vis[j])
         IN  ViewAfterRemoval(i - 1, 0, Len(vis), pg)

\* Mutant of ViewAfterDelete: the selection keeps its place, not its clip.
ViewAfterDelete_SamePlace(kept, was, vis, pg) ==
    ViewAfterRemoval(was.sel, was.top, Len(vis), pg)

ViewAfterDelete(kept, was, vis, pg) ==
    LET pos == PositionOf(kept, vis)
    IN  ViewAfterRemoval(IF pos = NoRow THEN was.sel ELSE pos, was.top,
                         Len(vis), pg)

SelectedClip ==
    LET vis == Shown
    IN  IF view.sel < Len(vis) THEN vis[view.sel + 1].id ELSE 0

-----------------------------------------------------------------------------
(* The mouse and the screen.                                                *)

Zones == {"body", "trash", "pin"}
Slots == UNION {0 .. p - 1 : p \in Pages}
Outside == [slot |-> NoRow, zone |-> "outside"]
OnStrip == [slot |-> NoRow, zone |-> "strip"]
Points == [slot : Slots, zone : Zones] \cup {OnStrip}

\* drawn_row_at: the rows of the page, and nothing below the last one.
DrawnRowAt(p) ==
    IF p.slot \in 0 .. page - 1 /\ view.top + p.slot < Len(Shown)
    THEN view.top + p.slot ELSE NoRow

\* row_hit: with a banner there is no row under the mouse.
RowHit(p) ==
    IF error # "none" \/ toggle # "none" THEN NoRow ELSE DrawnRowAt(p)

NoHit == [pos |-> NoRow, zone |-> "outside"]

HotTarget(p) ==
    LET pos == RowHit(p)
    IN  IF pos = NoRow THEN NoHit ELSE [pos |-> pos, zone |-> p.zone]

Blank == [shows |-> "nothing", page |-> <<>>, sel |-> 0, hot |-> NoHit]

\* What paint draws.
Picture ==
    IF toggle # "none" THEN [Blank EXCEPT !.shows = "switching"]
    ELSE IF error = "corrupted" /\ ~protected
         THEN [Blank EXCEPT !.shows = "recreate"]
    ELSE IF error # "none" THEN [Blank EXCEPT !.shows = "error"]
    ELSE [shows |-> "list",
          page |-> LET vis == Shown
                   IN  SubSeq(vis, view.top + 1, Least(view.top + page, Len(vis))),
          sel |-> SelectedClip,
          hot |-> HotTarget(mouse)]

\* The clip the user sees at a point.
SeenAt(p) ==
    IF p.slot + 1 \in DOMAIN screen.page THEN screen.page[p.slot + 1].id ELSE 0

\* What was painted counts no more; a hidden window is painted when it is shown.
Invalidate == dirty' = open /\ screen' = Blank

NoHover == [row |-> NoRow, armed |-> FALSE, fired |-> FALSE, shown |-> FALSE]

DismissHover == hover' = NoHover /\ popup' = 0

NoMenu == [row |-> 0, pin |-> FALSE, aim |-> 0]
NoClick == [at |-> Outside, aim |-> 0]
NoAct == [on |-> 0, aim |-> 0]

Idle == acted' = NoAct
Forget == clicked' = NoClick

Init ==
    /\ store = FirstClips /\ protected = FALSE /\ switch = "none"
    /\ reader = TRUE /\ rows = <<>> /\ error = "none"
    /\ toggle = "none" /\ open = FALSE /\ page \in Pages
    /\ text = "" /\ type = "all" /\ strip = FALSE /\ view = Top
    /\ mouse = Outside /\ hover = NoHover /\ tracking = FALSE /\ popup = 0
    /\ guard = FALSE /\ dialog = "none" /\ menu = NoMenu
    /\ screen = Blank /\ dirty = FALSE
    /\ switches = 0 /\ turns = 0
    /\ clicked = NoClick /\ acted = NoAct /\ wiped = FALSE

Turn ==
    /\ turns < MaxTurns
    /\ turns' = turns + 1

Fault == Turn

-----------------------------------------------------------------------------
(* Other programs and the worker.                                           *)

Background ==
    UNCHANGED <<list, toggle, open, page, filters, view, pointer, preview,
                guard, modal, picture, clicked, wiped>>

\* A new clip, or one that is copied again and moves to the front.
Copied ==
    LET now == Cardinality(FirstClips) + turns + 1
        new == {[c EXCEPT !.id = now, !.pinned = FALSE] : c \in FirstClips}
    IN  /\ Turn
        /\ \E c \in store \cup new :
              store' = (store \ {c}) \cup {[c EXCEPT !.last = now]}
        /\ Idle
        /\ UNCHANGED <<protected, switch, switches>> /\ Background

Purged(c) ==
    /\ ~c.pinned
    /\ Turn
    /\ store' = store \ {c}
    /\ Idle
    /\ UNCHANGED <<protected, switch, switches>> /\ Background

\* WorkItem::ToggleEncryption; a switch that fails may have taken effect.
WorkerSwitches ==
    /\ switch = "queued"
    /\ \/ /\ switch' = "ended" /\ protected' = (toggle = "on")
          /\ UNCHANGED turns
       \/ /\ switch' = "failed" /\ protected' \in {protected, toggle = "on"}
          /\ Fault
    /\ Idle
    /\ UNCHANGED <<store, switches>> /\ Background

-----------------------------------------------------------------------------
(* Reading, opening and hiding.                                             *)

\* refresh_rows; without a connection the read is an I/O error.
ReadWell(has, fine) ==
    IF has THEN rows' = ListForDisplay(store') /\ error' = fine
    ELSE rows' = <<>> /\ error' = "io"

ReadBadly == rows' = <<>> /\ error' \in {"io", "corrupted"}

Read(has, fine) ==
    \/ ReadWell(has, fine) /\ UNCHANGED turns
    \/ has /\ ReadBadly /\ Fault

\* reopen_and_refresh: what was read before stays when the connection fails.
ReopenAndRefresh(fine) ==
    \/ /\ reader' = TRUE /\ view' = Top
       /\ DismissHover
       /\ Read(TRUE, fine)
    \/ /\ reader' = FALSE /\ error' \in {"io", "corrupted"}
       /\ Fault
       /\ UNCHANGED <<rows, view, preview>>

\* hide_window.  A menu of the window goes with it.
HideWindow ==
    /\ open' = FALSE
    /\ DismissHover
    /\ tracking' = FALSE /\ mouse' = Outside
    /\ text' = "" /\ type' = "all" /\ strip' = FALSE
    /\ screen' = Blank /\ dirty' = FALSE
    /\ dialog' = IF dialog = "menu" THEN "none" ELSE dialog
    /\ menu' = NoMenu
    /\ Forget

\* open_window: the monitor is chosen before the view, which depends on it.
OpenWindow ==
    /\ open' = TRUE
    /\ page' \in Pages
    /\ DismissHover
    /\ Read(reader, "none")
    /\ view' = DefaultView(VisibleRows(rows', text, type), page')
    /\ dirty' = TRUE /\ UNCHANGED screen

\* WM_HOTKEY.  Soon after the window was hidden it does nothing.
HotkeyPressed ==
    /\ UNCHANGED <<data, toggle, guard, switches, wiped>>
    /\ \/ /\ open
          /\ HideWindow
          /\ UNCHANGED <<list, page, view, turns>>
       \/ /\ ~open
          /\ OpenWindow
          /\ UNCHANGED <<reader, filters, pointer, modal, clicked>>
    /\ Idle

\* WM_ACTIVATE, WM_KILLFOCUS, WM_CLOSE.
LosesForeground ==
    /\ open
    /\ HideWindow
    /\ Idle
    /\ UNCHANGED <<data, list, toggle, page, view, guard, counters, wiped>>

\* WM_DPICHANGED and the changes of the theme.
ReloadAppearance ==
    /\ open
    /\ page' \in Pages
    /\ DismissHover /\ Invalidate
    /\ Idle
    /\ UNCHANGED <<data, list, toggle, open, filters, view, pointer, guard,
                   modal, counters, clicked, wiped>>

Paint ==
    /\ open /\ dirty
    /\ screen' = Picture /\ dirty' = FALSE
    /\ Idle
    /\ UNCHANGED <<data, list, toggle, open, page, filters, view, pointer,
                   preview, guard, modal, counters, clicked, wiped>>

-----------------------------------------------------------------------------
(* The switch of the protection and the recreation of the database.         *)

\* start_encryption_toggle, from the Settings, which are in front then.
StartSwitch ==
    /\ ~open /\ switches < MaxSwitches /\ Cardinality(store) <= SwitchedClips
    /\ toggle = "none" /\ switch = "none"
    /\ switches' = switches + 1
    /\ reader' = FALSE /\ rows' = <<>> /\ error' = "none"
    /\ toggle' = IF protected THEN "off" ELSE "on"
    /\ switch' = "queued"
    /\ Idle
    /\ UNCHANGED <<store, protected, open, page, filters, view, pointer,
                   preview, guard, modal, picture, turns, clicked,
                   wiped>>

\* on_toggle_done: a switch that failed leaves an error over the list.
SwitchDone ==
    /\ switch \in {"ended", "failed"}
    /\ switch' = "none" /\ toggle' = "none"
    /\ UNCHANGED store
    /\ ReopenAndRefresh(IF switch = "failed" THEN "io" ELSE "none")
    /\ Invalidate
    /\ Idle
    /\ UNCHANGED <<protected, open, page, filters, pointer, guard, modal,
                   switches, clicked, wiped>>

\* trigger_recreate after the question.  The worker comes to it after the
\* switch that is queued; a request that the queue has evicted changes nothing,
\* and a recreation that fails leaves no connection.
RecreateAnswered(yes) ==
    /\ dialog = "recreate" /\ switch # "queued"
    /\ dialog' = "none"
    /\ IF ~yes
       THEN UNCHANGED <<store, list, view, preview, picture, turns, wiped>>
       ELSE /\ \/ /\ store' = {} /\ wiped' = (wiped \/ protected)
                  /\ ReopenAndRefresh("none")
               \/ /\ UNCHANGED <<store, wiped>>
                  /\ ReopenAndRefresh("none")
               \/ /\ store' \in {store, {}} /\ wiped' = (wiped \/ protected)
                  /\ reader' = FALSE /\ error' \in {"io", "corrupted"}
                  /\ UNCHANGED <<rows, view, preview, turns>>
            /\ Invalidate
    /\ Idle
    /\ UNCHANGED <<protected, switch, toggle, open, page, filters, pointer,
                   guard, menu, switches, clicked>>

-----------------------------------------------------------------------------
(* Requests about a row, which the worker has answered when they return.    *)

ById(id) == {c \in store : c.id = id}

\* toggle_pin: a pin shows in its row and the selection goes to "follow"; a
\* clip that is gone makes the list be read.
TogglePin(row, pin, follow) ==
    LET c == rows[row]
        hit == ById(c.id)
        pins == {d \in store : d.pinned}
        full == pin /\ hit \cap pins = {} /\ Cardinality(pins) >= PinCap
        to == IF PositionOf(follow, VisibleRows(rows', text, type)) = NoRow
              THEN 0 ELSE PositionOf(follow, VisibleRows(rows', text, type))
    IN  \/ /\ hit = {}
           /\ UNCHANGED store /\ dialog' = "none"
           /\ Read(reader, "none")
           /\ view' = Top /\ Invalidate
        \/ /\ hit # {} /\ full
           /\ dialog' = "message"
           /\ UNCHANGED <<store, rows, error, view, picture, turns>>
        \/ /\ hit # {} /\ ~full
           /\ store' = (store \ hit) \cup {[d EXCEPT !.pinned = pin] : d \in hit}
           /\ rows' = [rows EXCEPT ![row].pinned = pin]
           /\ view' = IF follow = 0 THEN view
                      ELSE [sel |-> to, top |-> ScrollTo(to, view.top, page)]
           /\ Invalidate
           /\ dialog' = "none"
           /\ UNCHANGED <<error, turns>>
        \/ /\ Fault
           /\ dialog' = "none"
           /\ UNCHANGED <<store, rows, error, view, picture>>

\* The list is read for a clip that is gone, and the preview dismissed then.
PreviewAfterPin(row) ==
    IF ById(rows[row].id) = {} THEN DismissHover \/ (Fault /\ UNCHANGED preview)
    ELSE UNCHANGED preview

\* toggle_pin_from_icon: the selection stays with its clip.
PinIcon(row) == TogglePin(row, ~rows[row].pinned, SelectedClip)

\* delete_one: the list is read whatever the answer, which may say that a
\* deletion failed that took place.
DeleteOne(row) ==
    LET hit == ById(rows[row].id)
    IN  /\ \/ /\ store' = store \ hit /\ dialog' = "none"
              /\ Read(reader, "none")
           \/ /\ store' \in {store, store \ hit} /\ dialog' = "message"
              /\ Fault
              /\ ReadWell(reader, "none") \/ ReadBadly
        /\ view' = ViewAfterDelete(SelectedClip, view,
                                   VisibleRows(rows', text, type), page)
        /\ Invalidate

\* confirm: nothing happens unless the clip can still be read.
Confirm(id) ==
    \/ /\ reader /\ ById(id) # {}
       /\ HideWindow
       /\ UNCHANGED turns
    \/ /\ ~reader \/ ById(id) = {}
       /\ UNCHANGED <<open, pointer, filters, picture, modal, turns>>
    \/ /\ Fault
       /\ UNCHANGED <<open, pointer, filters, picture, modal>>

Pasted(id) == reader /\ ById(id) # {} /\ ~open'

-----------------------------------------------------------------------------
(* The keyboard.                                                            *)

\* The user acts on what is painted.
Input == open /\ dialog = "none" /\ ~dirty

Refilter == view' = DefaultView(VisibleRows(rows, text', type'), page)
            /\ Invalidate

Unmoved ==
    UNCHANGED <<data, list, toggle, open, page, pointer, guard, modal,
                counters, wiped>>

\* handle_char, and Esc with a filter.
TypeText(t) ==
    /\ Input
    /\ DismissHover
    /\ text' = t
    /\ UNCHANGED <<type, strip>>
    /\ Refilter
    /\ Idle /\ Forget /\ Unmoved

PressEsc ==
    /\ Input /\ text = ""
    /\ HideWindow
    /\ Idle
    /\ UNCHANGED <<data, list, toggle, page, view, guard, counters, wiped>>

PressTab ==
    /\ Input
    /\ DismissHover
    /\ strip' = ~strip
    /\ Invalidate
    /\ UNCHANGED <<text, type, view>>
    /\ Idle /\ Forget /\ Unmoved

AdjacentSegment(forward) ==
    LET i == CHOOSE i \in DOMAIN Segments : Segments[i] = type
    IN  Segments[IF forward THEN Least(i + 1, Len(Segments)) ELSE Most(i - 1, 1)]

PressArrow(forward) ==
    /\ Input
    /\ DismissHover
    /\ UNCHANGED <<text, strip>>
    /\ IF strip /\ AdjacentSegment(forward) # type
       THEN type' = AdjacentSegment(forward) /\ Refilter
       ELSE UNCHANGED <<type, view, picture>>
    /\ Idle /\ Forget /\ Unmoved

NavKeys == {"up", "down", "home", "end", "page_up", "page_down"}

\* Mutant of NextSelection: the subtraction does not saturate at zero.
NextSelection_Unsaturated(key, n) ==
    LET to == CASE key = "up" -> view.sel - 1
                [] key = "page_up" -> view.sel - page
                [] key = "home" -> 0
                [] OTHER -> n - 1
    IN  IF n = 0 THEN 0 ELSE Least(to, n - 1)

\* next_selection_index.
NextSelection(key, n) ==
    LET to == CASE key = "up" -> view.sel - 1
                [] key = "down" -> view.sel + 1
                [] key = "home" -> 0
                [] key = "end" -> n - 1
                [] key = "page_up" -> view.sel - page
                [] key = "page_down" -> view.sel + page
    IN  IF n = 0 THEN 0 ELSE Least(Most(to, 0), n - 1)

Navigate(key) ==
    /\ Input
    /\ DismissHover
    /\ LET to == NextSelection(key, Len(Shown))
       IN  view' = [sel |-> to, top |-> ScrollTo(to, view.top, page)]
    /\ Invalidate
    /\ UNCHANGED filters
    /\ Idle /\ Forget /\ Unmoved

\* Enter.  The selected row may have been scrolled off the page.
PressEnter ==
    /\ Input /\ SelectedClip # 0
    /\ DismissHover
    /\ Confirm(SelectedClip)
    /\ acted' = IF Pasted(SelectedClip)
                THEN [on |-> SelectedClip, aim |-> screen.sel] ELSE NoAct
    /\ Forget
    /\ UNCHANGED <<data, list, toggle, page, view, guard, switches,
                   wiped>>

\* Ctrl+P: the selection follows the clip.
PressCtrlP ==
    /\ Input /\ SelectedClip # 0
    /\ DismissHover
    /\ LET row == CHOOSE i \in DOMAIN rows : rows[i].id = SelectedClip
       IN  TogglePin(row, ~rows[row].pinned, SelectedClip)
    /\ acted' = IF store' # store
                THEN [on |-> SelectedClip, aim |-> screen.sel] ELSE NoAct
    /\ Forget
    /\ UNCHANGED <<protected, switch, reader, toggle, open, page, filters,
                   pointer, guard, menu, switches, wiped>>

-----------------------------------------------------------------------------
(* The mouse.                                                               *)

\* Mutant of Wheel: the list moves and is not painted.
Wheel_NotPainted(lines) ==
    /\ Input
    /\ DismissHover
    /\ LET top == Least(Most(view.top + lines, 0), Most(Len(Shown) - page, 0))
       IN  view' = [view EXCEPT !.top = top] /\ UNCHANGED picture
    /\ UNCHANGED filters
    /\ Idle /\ Forget /\ Unmoved

\* Mutant of Wheel: the list moves under the preview.
Wheel_KeepsPreview(lines) ==
    /\ Input
    /\ LET top == Least(Most(view.top + lines, 0), Most(Len(Shown) - page, 0))
       IN  IF top # view.top
           THEN view' = [view EXCEPT !.top = top] /\ Invalidate
           ELSE UNCHANGED <<view, picture>>
    /\ UNCHANGED <<filters, preview>>
    /\ Idle /\ Forget /\ Unmoved

\* scroll_offset_after_wheel: the selection stays where it is.
Wheel(lines) ==
    /\ Input
    /\ DismissHover
    /\ LET top == Least(Most(view.top + lines, 0), Most(Len(Shown) - page, 0))
       IN  IF top # view.top
           THEN view' = [view EXCEPT !.top = top] /\ Invalidate
           ELSE UNCHANGED <<view, picture>>
    /\ UNCHANGED filters
    /\ Idle /\ Forget /\ Unmoved

\* The row for the preview: none over a button.
HoverRow(p) == IF p.zone = "body" THEN RowHit(p) ELSE NoRow

\* HoverTracker::on_move; the window is painted when another row or button
\* lights up.
MouseMoves(p) ==
    /\ Input /\ p # mouse
    /\ mouse' = p
    /\ IF HotTarget(p) # screen.hot THEN Invalidate ELSE UNCHANGED picture
    /\ LET row == HoverRow(p)
           was == IF row = hover.row THEN hover
                  ELSE [NoHover EXCEPT !.row = row]
           arm == row # NoRow /\ ~was.armed /\ ~was.fired
       IN  /\ hover' = [was EXCEPT !.armed = @ \/ arm]
           /\ popup' = IF row = hover.row THEN popup ELSE 0
           /\ tracking' = (tracking \/ arm)
    /\ Idle /\ Forget
    /\ UNCHANGED <<data, list, toggle, open, page, filters, view, guard, modal,
                   counters, wiped>>

\* WM_MOUSEHOVER: a report that is late finds another row or none.
MouseHovers ==
    /\ open /\ tracking
    /\ tracking' = FALSE
    /\ LET row == HoverRow(mouse)
           fires == ~hover.shown /\ row # NoRow /\ row = hover.row
           clip == Shown[row + 1]
       IN  /\ popup' = IF fires /\ clip.cut THEN clip.id ELSE popup
           /\ hover' = [hover EXCEPT !.armed = FALSE,
                                     !.fired = @ \/ fires,
                                     !.shown = @ \/ (fires /\ clip.cut)]
    /\ Idle
    /\ UNCHANGED <<data, list, toggle, open, page, filters, view, mouse, guard,
                   modal, picture, counters, clicked, wiped>>

MouseLeaves ==
    /\ open /\ mouse # Outside
    /\ mouse' = Outside /\ tracking' = FALSE
    /\ DismissHover
    /\ IF screen.hot # NoHit THEN Invalidate ELSE UNCHANGED picture
    /\ Idle
    /\ UNCHANGED <<data, list, toggle, open, page, filters, view, guard, modal,
                   counters, clicked, wiped>>

-----------------------------------------------------------------------------
(* The buttons of the mouse.  The mouse has been moved to the point first.  *)

\* Mutant of GuardAfterDown: the guard is never set.
GuardAfterDown_Never(zone) == FALSE

\* ClickGuard::on_down.
GuardAfterDown(zone) == zone # "body"

SelectRow(pos) == view' = [view EXCEPT !.sel = pos] /\ Invalidate

RowAt(pos) == CHOOSE i \in DOMAIN rows : rows[i].id = Shown[pos + 1].id

Act(row) ==
    acted' = IF store' # store
             THEN [on |-> rows[row].id, aim |-> SeenAt(mouse)] ELSE NoAct

\* handle_single_click in the list.  Under the banner of a switch there is no
\* row to hit, and the filter strip goes on.
Click ==
    /\ Input /\ mouse # Outside /\ error = "none"
    /\ DismissHover
    /\ clicked' = [at |-> mouse, aim |-> SeenAt(mouse)]
    /\ LET pos == RowHit(mouse)
           zone == IF pos = NoRow THEN "body" ELSE mouse.zone
       IN  /\ guard' = GuardAfterDown(zone)
           /\ \/ /\ zone = "trash"
                 /\ DeleteOne(RowAt(pos)) /\ Act(RowAt(pos))
                 /\ UNCHANGED filters
              \/ /\ zone = "pin"
                 /\ PinIcon(RowAt(pos)) /\ Act(RowAt(pos))
                 /\ UNCHANGED filters
              \/ /\ zone = "body" /\ mouse # OnStrip
                 /\ Idle
                 /\ IF DrawnRowAt(mouse) # NoRow
                    THEN SelectRow(DrawnRowAt(mouse)) /\ strip' = FALSE
                    ELSE UNCHANGED <<view, strip, picture>>
                 /\ UNCHANGED <<store, rows, error, text, type, dialog, turns>>
              \/ /\ mouse = OnStrip
                 /\ Idle
                 /\ strip' = TRUE
                 /\ UNCHANGED <<store, rows, error, text, dialog, turns>>
                 /\ \E i \in DOMAIN Segments : type' = Segments[i]
                 /\ IF type' # type THEN Refilter ELSE Invalidate /\ UNCHANGED view
    /\ UNCHANGED <<protected, switch, reader, toggle, open, page, pointer,
                   menu, switches, wiped>>

\* handle_banner_click and the check of trigger_recreate; beside the button a
\* click does nothing, but may become a double click.
ClickBanner ==
    /\ Input /\ error # "none"
    /\ DismissHover
    /\ \/ /\ error = "corrupted" /\ ~protected
          /\ dialog' = "recreate" /\ Forget
       \/ /\ mouse # Outside
          /\ clicked' = [at |-> mouse, aim |-> SeenAt(mouse)]
          /\ UNCHANGED dialog
    /\ Idle
    /\ UNCHANGED <<data, list, toggle, open, page, filters, view, pointer,
                   guard, menu, picture, counters, wiped>>

\* handle_double_click: what was painted at the first click is what counts for
\* the user.
DoubleClick ==
    /\ open /\ dialog = "none" /\ clicked.at = mouse /\ mouse # Outside
    /\ guard' = FALSE
    /\ LET pos == RowHit(mouse)
           zone == IF pos = NoRow THEN "body" ELSE mouse.zone
           row == RowAt(IF pos = NoRow THEN DrawnRowAt(mouse) ELSE pos)
           id == rows[row].id
       IN  \/ /\ guard \/ (zone = "body" /\ DrawnRowAt(mouse) = NoRow)
              /\ Idle /\ Forget
              /\ UNCHANGED <<store, rows, error, open, filters, view, pointer,
                             preview, modal, picture, turns>>
           \/ /\ ~guard /\ zone = "trash"
              /\ DeleteOne(row)
              /\ acted' = [on |-> id, aim |-> clicked.aim]
              /\ DismissHover /\ Forget
              /\ UNCHANGED <<open, filters, pointer, menu>>
           \/ /\ ~guard /\ zone = "pin"
              /\ PinIcon(row)
              /\ acted' = [on |-> id, aim |-> clicked.aim]
              /\ PreviewAfterPin(row) /\ Forget
              /\ UNCHANGED <<open, filters, pointer, menu>>
           \/ /\ ~guard /\ zone = "body" /\ DrawnRowAt(mouse) # NoRow
              /\ Confirm(id)
              /\ acted' = IF Pasted(id)
                          THEN [on |-> id, aim |-> clicked.aim] ELSE NoAct
              /\ open' => UNCHANGED preview
              /\ Forget
              /\ UNCHANGED <<store, rows, error, view>>
    /\ UNCHANGED <<protected, switch, reader, toggle, page, switches,
                   wiped>>

\* handle_context_menu: the row is kept while the menu is open.
RightClick ==
    /\ Input /\ mouse # Outside
    /\ error = "none" /\ toggle = "none"
    /\ DismissHover
    /\ dialog' = "menu"
    /\ LET pos == DrawnRowAt(mouse)
       IN  IF pos = NoRow
           THEN /\ menu' = NoMenu
                /\ UNCHANGED <<view, picture>>
           ELSE /\ menu' = [row |-> RowAt(pos), pin |-> ~rows[RowAt(pos)].pinned,
                            aim |-> SeenAt(mouse)]
                /\ SelectRow(pos)
    /\ Idle /\ Forget
    /\ UNCHANGED <<data, list, toggle, open, page, filters, pointer, guard,
                   counters, wiped>>

MenuActs ==
    acted' = IF store' # store
             THEN [on |-> rows[menu.row].id, aim |-> menu.aim] ELSE NoAct

MenuChosen ==
    /\ dialog = "menu" /\ menu' = NoMenu
    /\ \/ /\ menu.row # 0
          /\ TogglePin(menu.row, menu.pin, rows[menu.row].id)
          /\ PreviewAfterPin(menu.row)
          /\ MenuActs
       \/ /\ menu.row # 0
          /\ DeleteOne(menu.row)
          /\ DismissHover
          /\ MenuActs
       \/ /\ \/ /\ dialog' = IF reader /\ \E c \in store : c.pinned
                          THEN "delete_some" ELSE "delete_all"
                /\ UNCHANGED turns
             \/ reader /\ dialog' = "delete_all" /\ Fault
          /\ Idle
          /\ UNCHANGED <<store, rows, error, view, preview, picture>>
       \/ /\ dialog' = "none"
          /\ Idle
          /\ UNCHANGED <<store, rows, error, view, preview, picture, turns>>
    /\ UNCHANGED <<protected, switch, reader, toggle, open, page, filters,
                   pointer, guard, switches, clicked, wiped>>

\* trigger_delete_all after the question, which offers to keep the pinned clips
\* if they could be counted.
DeleteAllAnswered(keep) ==
    /\ dialog \in {"delete_all", "delete_some"} /\ switch # "queued"
    /\ keep => dialog = "delete_some"
    /\ LET left == {c \in store : keep /\ c.pinned}
       IN  \/ /\ store' = left /\ dialog' = "none"
              /\ Read(reader, "none")
              /\ view' = Top /\ DismissHover /\ Invalidate
           \/ /\ store' \in {store, left} /\ dialog' = "message"
              /\ Fault
              /\ UNCHANGED <<rows, error, view, preview, picture>>
    /\ Idle
    /\ UNCHANGED <<protected, switch, reader, toggle, open, page, filters,
                   pointer, guard, menu, switches, clicked, wiped>>

\* A message is read, or a question answered with no.
DialogClosed ==
    /\ dialog \in {"message", "delete_all", "delete_some"}
    /\ dialog' = "none"
    /\ Idle
    /\ UNCHANGED <<data, list, toggle, open, page, filters, view, pointer,
                   preview, guard, menu, picture, counters, clicked, wiped>>

-----------------------------------------------------------------------------
Others ==
    \/ Copied \/ WorkerSwitches
    \/ \E c \in store : Purged(c)

Keyboard ==
    \/ \E t \in {"", "typed"} : TypeText(t)
    \/ PressEsc \/ PressTab \/ PressEnter \/ PressCtrlP
    \/ \E forward \in BOOLEAN : PressArrow(forward)
    \/ \E key \in NavKeys : Navigate(key)

Mouse ==
    \/ \E p \in Points : MouseMoves(p)
    \/ \E lines \in {WheelLines, -WheelLines} : Wheel(lines)
    \/ MouseHovers \/ MouseLeaves
    \/ Click \/ ClickBanner \/ DoubleClick \/ RightClick

Dialogs ==
    \/ MenuChosen \/ DialogClosed
    \/ \E b \in BOOLEAN : DeleteAllAnswered(b) \/ RecreateAnswered(b)

Window ==
    \/ LosesForeground \/ HotkeyPressed \/ ReloadAppearance \/ Paint
    \/ StartSwitch \/ SwitchDone

Next == Others \/ Keyboard \/ Mouse \/ Dialogs \/ Window

Spec == Init /\ [][Next]_vars

-----------------------------------------------------------------------------
(* Properties.                                                              *)

Hits == [pos : Nat, zone : Zones] \cup {NoHit}

\* Every variable keeps its type; selected and scroll_offset are unsigned.
TypeOK ==
    /\ store \subseteq Clip /\ protected \in BOOLEAN
    /\ switch \in {"none", "queued", "ended", "failed"}
    /\ reader \in BOOLEAN /\ rows \in Seq(Clip)
    /\ error \in {"none", "io", "corrupted"}
    /\ toggle \in {"none", "on", "off"}
    /\ open \in BOOLEAN /\ page \in Pages
    /\ text \in {"", "typed"} /\ type \in {Segments[i] : i \in DOMAIN Segments}
    /\ strip \in BOOLEAN /\ view \in [sel : Nat, top : Nat]
    /\ mouse \in Points \cup {Outside} /\ tracking \in BOOLEAN
    /\ hover \in [row : Nat \cup {NoRow}, armed : BOOLEAN, fired : BOOLEAN,
                  shown : BOOLEAN]
    /\ popup \in Nat /\ guard \in BOOLEAN
    /\ dialog \in {"none", "menu", "message", "delete_all", "delete_some",
                   "recreate"}
    /\ menu \in [row : Nat, pin : BOOLEAN, aim : Nat]
    /\ screen \in [shows : {"nothing", "switching", "recreate", "error",
                            "list"},
                   page : Seq(Clip), sel : Nat, hot : Hits]
    /\ dirty \in BOOLEAN
    /\ switches \in 0 .. MaxSwitches /\ turns \in 0 .. MaxTurns
    /\ clicked \in [at : Points \cup {Outside}, aim : Nat]
    /\ acted \in [on : Nat, aim : Nat] /\ wiped \in BOOLEAN

\* Whatever a handler has changed that the list, its buttons or a banner show
\* is on the screen once no WM_PAINT is due: no handler forgets to invalidate.
ScreenIsTrue == open /\ ~dirty => screen = Picture

\* The preview is that of the row the tracker holds, on the page, of an open
\* window whose list is on the screen: no refresh, scroll, filter, banner or
\* hidden window leaves the text of a clip behind.
PreviewIsHonest ==
    popup # 0 =>
        /\ open /\ toggle = "none" /\ error = "none"
        /\ hover.shown /\ hover.row \in view.top .. view.top + page - 1
        /\ hover.row < Len(Shown) /\ Shown[hover.row + 1].id = popup

\* A key, a click, the second click of a double click or a choice in the menu
\* changes or pastes the clip that was painted where the user pointed, whatever
\* the list has become since (delete_button.rs: not the clip that took its
\* place).  Where no clip was painted this says nothing.
ActsOnTheChosen == acted.on # 0 /\ acted.aim # 0 => acted.on = acted.aim

\* Deleting or pinning a row by its button, or any deletion of one clip, leaves
\* the selection on the clip that was selected, as long as the clip is in the
\* list (history_window.rs, delete_one and AfterPin::KeepSelected).
SelectionStays ==
    [][acted'.on # 0 /\ Click =>
          \/ \A i \in DOMAIN rows' : rows'[i].id # SelectedClip
          \/ SelectedClip' = SelectedClip]_vars

\* A recreation never destroys the database of a protected history: "never
\* offered" (crypto_dpapi.rs), "blocked_protection_active" (trigger_recreate).
RecreateSparesTheProtected == ~wiped

=============================================================================
