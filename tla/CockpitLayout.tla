----------------------------- MODULE CockpitLayout ----------------------------
(***************************************************************************)
(* Where the play screen's panels go on a terminal of some lines and       *)
(* columns (cockpit/layout.py).  From the outer border inwards: a strip at *)
(* the top; at the bottom the controls, above them the banner of a halt    *)
(* when something needs attention, above it the logs; the rows between are *)
(* the columns of the gutters and the game's viewport.                     *)
(***************************************************************************)
EXTENDS Integers

Pad == 1            \* OUTER_FRAME_PAD
StripH == 1
LogsH == 3
BannerH == 3        \* INTERVENTION_H
ControlH == 1
GoalsContentH == 9
GoalsBoxH == 16
HudBoxH == 12
ViewportW == 82
ViewportH == 27
GameW == 80
GameH == 25
BubblesH == 5       \* CHAIN_VIZ_H
HudW == 44
PrioritiesW == 44
PrioritiesMinW == 20

Lesser(a, b) == IF a <= b THEN a ELSE b
Greater(a, b) == IF a >= b THEN a ELSE b

Drawable(lines, cols) == lines >= 20 /\ cols >= 60

-------------------------------------------------------------------------------
(* The rows, from the bottom up: what the banner takes it takes from the   *)
(* columns.                                                                *)
RestH(lines) == Greater(1, lines - 2 * Pad - StripH)
LogsAt(lines) == Lesser(LogsH, Greater(1, RestH(lines) - 1))
BannerAt(lines, halting) == IF halting THEN Lesser(BannerH, Greater(0, RestH(lines) - LogsAt(lines) - 1)) ELSE 0
ControlAt(lines, halting) == IF RestH(lines) - LogsAt(lines) - BannerAt(lines, halting) > ControlH THEN ControlH ELSE 0
ColumnH(lines, halting) ==
  RestH(lines) - LogsAt(lines) - BannerAt(lines, halting) - ControlAt(lines, halting)

(* The columns: the gutters come as the terminal widens, the HUD first.    *)
InnerW(cols) == cols - 2 * Pad
HasHud(cols) == InnerW(cols) >= ViewportW + HudW
Framed(cols) == InnerW(cols) >= ViewportW
Full(cols) == InnerW(cols) >= ViewportW + HudW + PrioritiesW
GutterW(cols) ==
  IF Full(cols) THEN PrioritiesW ELSE IF InnerW(cols) >= ViewportW + HudW + PrioritiesMinW THEN PrioritiesMinW ELSE 0

CenterW(cols) == IF Framed(cols) THEN ViewportW ELSE Lesser(GameW, InnerW(cols))
CenterH(lines, cols, halting) == Lesser(IF Framed(cols) THEN ViewportH ELSE GameH, ColumnH(lines, halting))
\* Centred between the gutters, beside the left one alone, or in the whole.
CenterX(cols) ==
  Pad + (IF Full(cols) THEN GutterW(cols) + (InnerW(cols) - HudW - GutterW(cols) - CenterW(cols)) \div 2
         ELSE IF HasHud(cols) THEN GutterW(cols)
         ELSE IF Framed(cols) THEN (InnerW(cols) - CenterW(cols)) \div 2 ELSE 0)

GoalsH(lines, halting) == Lesser(GoalsBoxH, ColumnH(lines, halting))
HudHUncut(lines, cols, halting) == HudBoxH
HudH(lines, cols, halting) == Lesser(HudBoxH, CenterH(lines, cols, halting))
BubblesFit(lines, cols, halting) ==
  /\ Framed(cols) /\ CenterH(lines, cols, halting) = ViewportH
  /\ ColumnH(lines, halting) - ViewportH >= BubblesH

-------------------------------------------------------------------------------
Region(y, x, w, h) == [y |-> y, x |-> x, w |-> w, h |-> h]

\* frame_layout: each panel's place, of no height or width when it has none.
Layout(lines, cols, halting) ==
  LET top == Pad + StripH
      below == top + ColumnH(lines, halting)
      banner == BannerAt(lines, halting)
      hudX == Pad + InnerW(cols) - HudW
      hudW == IF HasHud(cols) THEN HudW ELSE 0
      hudH == HudH(lines, cols, halting)
      goalsH == GoalsH(lines, halting)
      centerH == CenterH(lines, cols, halting)
  IN [strip |-> Region(Pad, Pad, InnerW(cols), StripH),
      goals |-> Region(top, Pad, GutterW(cols), goalsH),
      left_gutter |-> Region(top + goalsH, Pad, GutterW(cols), ColumnH(lines, halting) - goalsH),
      center |-> Region(top, CenterX(cols), CenterW(cols), centerH),
      chain |-> Region(top + centerH, CenterX(cols), CenterW(cols), IF BubblesFit(lines, cols, halting) THEN BubblesH ELSE 0),
      right_gutter |-> Region(top, hudX, hudW, hudH),
      decisions |-> Region(top + hudH, hudX, hudW, centerH - hudH),
      logs |-> Region(below, Pad, InnerW(cols), LogsAt(lines)),
      intervention |-> Region(below + LogsAt(lines), Pad, InnerW(cols), banner),
      control_strip |-> Region(below + LogsAt(lines) + banner, Pad, InnerW(cols), ControlAt(lines, halting))]
Panels == {"strip", "goals", "left_gutter", "center", "chain", "right_gutter", "decisions",
           "logs", "intervention", "control_strip"}

\* nested_focus_region: the box in the goals' lower rows, when two are left.
FocusY(goals) == goals.y + 1 + GoalsContentH
FocusH(goals) == goals.y + goals.h - 1 - FocusY(goals)
FocusAt(goals) == Region(FocusY(goals), goals.x, goals.w, IF FocusH(goals) < 2 THEN 0 ELSE FocusH(goals))

-------------------------------------------------------------------------------
Apart(r, s) == r.y + r.h <= s.y \/ s.y + s.h <= r.y \/ r.x + r.w <= s.x \/ s.x + s.w <= r.x
Within(r, lines, cols) ==
  /\ r.y >= Pad /\ r.x >= Pad
  /\ r.y + r.h <= lines - Pad /\ r.x + r.w <= cols - Pad

\* On every usable terminal, halting or not, no panel is painted over another
\* or over the border, and the viewport, the logs, the controls and a halt's
\* banner are there (layout.py's thresholds and reserves); the focus box lies in
\* the goals' box, above its border.
Tiled(lines, cols, halting) ==
  LET at == Layout(lines, cols, halting)
      there == {p \in Panels : at[p].w > 0 /\ at[p].h > 0}
  IN /\ \A p \in there : Within(at[p], lines, cols)
     /\ \A p, q \in there : p # q => Apart(at[p], at[q])
     /\ {"strip", "center", "logs", "control_strip"} \subseteq there
     /\ halting => "intervention" \in there
     /\ FocusAt(at.goals).h > 0 => FocusAt(at.goals).y + FocusAt(at.goals).h < at.goals.y + at.goals.h
===============================================================================
