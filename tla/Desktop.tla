------------------------------- MODULE Desktop -------------------------------
(***************************************************************************)
(* The widgets of gui/: a desktop with windows, a window with plain widgets. *)
(* Every handler runs inside a mouse or keyboard interrupt, in one step.     *)
(* AddChild puts a window, complete with its widgets, behind the others; the *)
(* positions are in the state, for windows are dragged.                      *)
(***************************************************************************)
EXTENDS Integers, Sequences, SequencesExt

CONSTANTS
    DesktopW, DesktopH,
    Windows,    \* the windows as rectangles on the desktop, in the order of AddChild
    Children,   \* for each window the sequence of its widgets, as rectangles in it
    Moves,      \* the offsets the mouse reports
    Buttons     \* the buttons of the mouse

Rectangles == [x : Int, y : Int, w : Int, h : Int]

ASSUME DesktopAssumption ==
    /\ DesktopW \in Nat \ {0} /\ DesktopH \in Nat \ {0}
    /\ Windows \in Seq(Rectangles) /\ Windows # <<>>
    /\ Children \in Seq(Seq(Rectangles)) /\ Len(Children) = Len(Windows)
    /\ Moves \subseteq Int

VARIABLES
    MouseX, MouseY,
    place,          \* the windows added and where each one is: its rectangle
    Dragging,       \* of each window
    focussedChild,  \* of each window its widget, of the desktop (0) its window
    pressed,        \* history: the buttons held down
    clicked         \* history: the widget clicked last

desktopVars == <<MouseX, MouseY, place, Dragging, focussedChild, pressed, clicked>>

None == 0

\* The children a composite widget has room for.
MaxChildren == 100

DesktopInit ==
    /\ MouseX = DesktopW \div 2 /\ MouseY = DesktopH \div 2
    /\ place = <<>>
    /\ Dragging = [i \in DOMAIN Windows |-> FALSE]
    /\ focussedChild = [i \in 0 .. Len(Windows) |-> None]
    /\ pressed = {} /\ clicked = <<None, None>>

ContainsCoordinate(r, x, y) ==
    r.x <= x /\ x < r.x + r.w /\ r.y <= y /\ y < r.y + r.h

\* The loop over the children that ends with the first one at the point.
FirstChild(rects, x, y) ==
    LET hit == {i \in DOMAIN rects : ContainsCoordinate(rects[i], x, y)}
    IN  IF hit = {} THEN None ELSE CHOOSE i \in hit : \A j \in hit : i <= j

\* The window and the widget in it that a click at the point is passed down to.
HitWindow(x, y) == FirstChild(place, x, y)
HitChild(i, x, y) == FirstChild(Children[i], x - place[i].x, y - place[i].y)

-----------------------------------------------------------------------------
AddChild ==
    /\ Len(place) < Len(Windows) /\ Len(place) < MaxChildren
    /\ place' = Append(place, Windows[Len(place) + 1])
    /\ UNCHANGED <<MouseX, MouseY, Dragging, focussedChild, pressed, clicked>>

\* Mutant: the focus is passed on to the desktop only when it has none yet.
GetFocusOnce(i, k) ==
    [focussedChild EXCEPT ![i] = k, ![0] = IF @ = None THEN i ELSE @]

\* A widget takes the focus in its window, and the window on the desktop.
GetFocus(i, k) == [focussedChild EXCEPT ![i] = k, ![0] = i]

DesktopMouseDown(button) ==
    LET i == HitWindow(MouseX, MouseY)
        k == HitChild(i, MouseX, MouseY)
    IN  /\ button \notin pressed
        /\ pressed' = pressed \cup {button}
        /\ IF i = None THEN UNCHANGED <<Dragging, focussedChild, clicked>>
           ELSE /\ Dragging' = [Dragging EXCEPT ![i] = (button = 1)]
                /\ IF k = None THEN UNCHANGED <<focussedChild, clicked>>
                   ELSE /\ focussedChild' = GetFocus(i, k)
                        /\ clicked' = <<i, k>>
        /\ UNCHANGED <<MouseX, MouseY, place>>

DesktopMouseUp(button) ==
    LET i == HitWindow(MouseX, MouseY)
    IN  /\ button \in pressed
        /\ pressed' = pressed \ {button}
        /\ Dragging' = IF i = None THEN Dragging ELSE [Dragging EXCEPT ![i] = FALSE]
        /\ UNCHANGED <<MouseX, MouseY, place, focussedChild, clicked>>

\* x /= 4 rounds towards zero.
Quarter(n) == IF n < 0 THEN -((-n) \div 4) ELSE n \div 4

Within(n, limit) == IF n < 0 THEN 0 ELSE IF n >= limit THEN limit - 1 ELSE n

\* Window::OnMouseMove; its widgets do nothing with a movement.
Drag(at, i, dx, dy) ==
    IF i # None /\ Dragging[i]
    THEN [at EXCEPT ![i].x = @ + dx, ![i].y = @ + dy] ELSE at

\* Mutant: a window follows the mouse, not the pointer that stops at the edges.
DragDistanceUnlimited(from, to, moved) == moved

DragDistance(from, to, moved) == to - from

\* The window at the old position is told, then the one at the new position if it
\* is another one, with the first already moved.
DesktopMouseMove(dx, dy) ==
    LET x == Within(MouseX + Quarter(dx), DesktopW)
        y == Within(MouseY + Quarter(dy), DesktopH)
        byX == DragDistance(MouseX, x, Quarter(dx))
        byY == DragDistance(MouseY, y, Quarter(dy))
        first == HitWindow(MouseX, MouseY)
        moved == Drag(place, first, byX, byY)
        second == FirstChild(moved, x, y)
    IN  /\ place' = IF second = first THEN moved ELSE Drag(moved, second, byX, byY)
        /\ MouseX' = x /\ MouseY' = y
        /\ UNCHANGED <<Dragging, focussedChild, pressed, clicked>>

\* OnKeyDown and OnKeyUp follow focussedChild down to a widget.
KeyTarget ==
    IF focussedChild[0] = None THEN <<None, None>>
    ELSE <<focussedChild[0], focussedChild[focussedChild[0]]>>

DesktopNext ==
    \/ AddChild
    \/ \E b \in Buttons : DesktopMouseDown(b) \/ DesktopMouseUp(b)
    \/ \E dx, dy \in Moves : DesktopMouseMove(dx, dy)

DesktopSpec == DesktopInit /\ [][DesktopNext]_desktopVars

-----------------------------------------------------------------------------
(* What is on the screen.                                                    *)

\* Mutant: the loop over the children runs forwards.
DrawnForwards(k, n) == k

\* Draw: the k-th of n children that is drawn.
Drawn(k, n) == n - k + 1

\* What is on top at the point after window i, and then its widgets at the place
\* ModelToScreen computes, were drawn over what was there.
DrawWindow(i, below, x, y) ==
    LET n == Len(Children[i])
        top[k \in 0 .. n] ==
            IF k = 0
            THEN IF ContainsCoordinate(place[i], x, y) THEN <<i, None>> ELSE below
            ELSE IF ContainsCoordinate(Children[i][Drawn(k, n)], x - place[i].x, y - place[i].y)
            THEN <<i, Drawn(k, n)>> ELSE top[k - 1]
    IN  top[n]

\* The widget seen at the point when the desktop has drawn its windows.
Seen(x, y) ==
    LET n == Len(place)
        top[k \in 0 .. n] ==
            IF k = 0 THEN <<None, None>> ELSE DrawWindow(Drawn(k, n), top[k - 1], x, y)
    IN  top[n]

\* The widgets of a window lie inside it.
WidgetsInside ==
    \A i \in DOMAIN Windows : \A k \in DOMAIN Children[i] :
        LET c == Children[i][k] IN
        0 <= c.x /\ c.x + c.w <= Windows[i].w /\ 0 <= c.y /\ c.y + c.h <= Windows[i].h

\* A click goes to the widget that is seen under the pointer, wherever the windows
\* have been dragged to (the widgets of a window lie inside it).
ClickHitsWhatIsSeen ==
    \A x \in 0 .. DesktopW - 1, y \in 0 .. DesktopH - 1 :
        LET i == HitWindow(x, y)
        IN  Seen(x, y) = <<i, IF i = None THEN None ELSE HitChild(i, x, y)>>

\* Keys go to the widget clicked last, through any sequence of clicks in windows.
KeysFollowClicks == KeyTarget = clicked

\* The window in front is dragged only while the left button is down, and it stays
\* under the pointer, at the edges of the desktop too.  (A window that another one
\* covers can miss the release of the button.)
FrontWindowDrag ==
    Dragging[1] => 1 \in pressed /\ HitWindow(MouseX, MouseY) = 1
==============================================================================
