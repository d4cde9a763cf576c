------------------------------- MODULE Motion -------------------------------
(***************************************************************************)
(* What moves on the phone's screen, and where it comes to rest: the sheet *)
(* that slides up with the details of a transfer                           *)
(* (apps/rn-wdk-exercise/components/BottomSheet.tsx, under                 *)
(* TransferDetailModal.tsx), and the highlight of the tab bar              *)
(* (components/navigation/GlassTabBar.tsx).                                *)
(*                                                                         *)
(* A step is one event of React, of the animations or of the finger, with  *)
(* the renders and effects that follow from it.  A position is how far the *)
(* sheet reaches into the screen, or the frame that the highlight covers.  *)
(* A value that is assigned takes the place of the animation under way,    *)
(* which then reports that it has not finished (react-native-reanimated).  *)
(***************************************************************************)
EXTENDS Integers

CONSTANTS
  Details,   \* transfers of the list under the sheet
  HeightOf   \* Details -> the height of what the sheet shows of them

ASSUME MotionAssumption == HeightOf \in [Details -> Nat \ {0}]

VARIABLES
  selected,     \* the screen's state, null as `NoDetail`
  displayed,    \* the transfer that the sheet shows
  sheet,        \* BottomSheet: [rendered, height, held], held while a finger is on it
  offset,       \* its shared value, under animation
  focused,      \* the tab that shows
  wide,         \* the tab bar is laid out in one of two ways
  itemLayouts,  \* BarTabs -> frame, 0 before the first measurement
  highlight     \* its frame, under animation

sheetVars == <<selected, displayed, sheet, offset>>
barVars == <<focused, wide, itemLayouts, highlight>>
motionVars == <<sheetVars, barVars>>

NoDetail == "nothing"
Below == 0
Adrift == -1  \* where a finger has dragged the sheet
Heights == {HeightOf[d] : d \in Details}
BarTabs == {"index", "history"}
Frames == 0..4

Animated(Places) == [at : Places, aim : Places, slide : {"none", "settle", "leave"}]
At(place) == [at |-> place, aim |-> place, slide |-> "none"]
SlideTo(v, place) == [v EXCEPT !.aim = place, !.slide = "settle"]
Arrived(v) == At(v.aim)

MotionTypeOK ==
  /\ selected \in Details \cup {NoDetail} /\ displayed \in Details \cup {NoDetail}
  /\ sheet \in [rendered : BOOLEAN, height : Heights \cup {0}, held : BOOLEAN]
  /\ offset \in Animated(Heights \cup {Below, Adrift})
  /\ focused \in BarTabs /\ wide \in BOOLEAN
  /\ itemLayouts \in [BarTabs -> Frames] /\ highlight \in Animated(Frames)

MotionInit ==
  /\ selected = NoDetail /\ displayed = NoDetail
  /\ sheet = [rendered |-> FALSE, height |-> 0, held |-> FALSE]
  /\ offset = At(Below)
  /\ focused = "index" /\ wide = FALSE
  /\ itemLayouts = [t \in BarTabs |-> 0] /\ highlight = At(0)

(* The sheet. *)

\* The effect of [rendered, visible, height].
SlideIn(height) ==
  offset' = IF height > 0 THEN SlideTo(offset, height) ELSE offset

\* The Modal lies over the rows until it is unmounted.
TapRow(d) ==
  /\ ~sheet.rendered
  /\ selected' = d /\ displayed' = d
  /\ sheet' = [sheet EXCEPT !.rendered = TRUE]
  /\ SlideIn(sheet.height)
  /\ UNCHANGED barVars

\* HandleLayout without the height among the effect's dependencies.
MeasureOnly ==
  /\ sheet.rendered /\ displayed # NoDetail /\ sheet.height # HeightOf[displayed]
  /\ sheet' = [sheet EXCEPT !.height = HeightOf[displayed]]
  /\ UNCHANGED <<selected, displayed, offset, barVars>>
HandleLayout ==
  /\ sheet.rendered /\ displayed # NoDetail /\ sheet.height # HeightOf[displayed]
  /\ sheet' = [sheet EXCEPT !.height = HeightOf[displayed]]
  /\ IF selected # NoDetail THEN SlideIn(sheet'.height) ELSE UNCHANGED offset
  /\ UNCHANGED <<selected, displayed, barVars>>

\* The parent's onClose, and the effect of [visible] when that changes it.
OnClose ==
  /\ selected' = NoDetail
  /\ offset' = IF selected # NoDetail THEN [offset EXCEPT !.aim = Below, !.slide = "leave"] ELSE offset

\* The backdrop, or Android's back button.
PressBackdrop ==
  /\ sheet.rendered /\ OnClose
  /\ UNCHANGED <<displayed, sheet, barVars>>

\* A drag: downwards the sheet follows it, upwards it stays.
Drag ==
  /\ sheet.rendered
  /\ sheet' = [sheet EXCEPT !.held = TRUE]
  /\ offset' \in {offset, At(Adrift)}
  /\ UNCHANGED <<selected, displayed, barVars>>

\* The end of a drag, past the threshold or not.
Release ==
  /\ sheet.held
  /\ sheet' = [sheet EXCEPT !.held = FALSE]
  /\ \/ offset.at = Adrift /\ OnClose
     \/ offset' = SlideTo(offset, sheet.height) /\ UNCHANGED selected
  /\ UNCHANGED <<displayed, barVars>>

\* An animation of the sheet ends; after the slide-out it is unmounted.
EndSlide ==
  /\ offset.slide # "none"
  /\ offset' = Arrived(offset)
  /\ sheet' = IF offset.slide = "leave" THEN [sheet EXCEPT !.rendered = FALSE, !.held = FALSE] ELSE sheet
  /\ UNCHANGED <<selected, displayed, barVars>>

(* The tab bar. *)

FrameOf(t) == (IF t = "index" THEN 1 ELSE 3) + (IF wide THEN 1 ELSE 0)

\* The effect of [activeLayout].
FollowActive(layouts, t) ==
  highlight' = IF layouts[t] = 0 \/ layouts[t] = itemLayouts[focused] THEN highlight
               ELSE IF highlight.at = 0 THEN At(layouts[t])
               ELSE SlideTo(highlight, layouts[t])

\* OnItemLayout with an effect of the tab alone.
LayoutOnly(t) ==
  /\ itemLayouts[t] # FrameOf(t)
  /\ itemLayouts' = [itemLayouts EXCEPT ![t] = FrameOf(t)]
  /\ highlight' = IF highlight.at = 0 /\ t = focused THEN At(FrameOf(t)) ELSE highlight
  /\ UNCHANGED <<focused, wide, sheetVars>>
OnItemLayout(t) ==
  /\ itemLayouts[t] # FrameOf(t)
  /\ itemLayouts' = [itemLayouts EXCEPT ![t] = FrameOf(t)]
  /\ FollowActive(itemLayouts', focused)
  /\ UNCHANGED <<focused, wide, sheetVars>>

OnTabPress(t) ==
  /\ ~sheet.rendered /\ t # focused
  /\ focused' = t /\ FollowActive(itemLayouts, t)
  /\ UNCHANGED <<wide, itemLayouts, sheetVars>>

\* The text size changes, and the items are measured again.
LayOutAgain ==
  /\ wide' = ~wide
  /\ UNCHANGED <<focused, itemLayouts, highlight, sheetVars>>

EndSpring ==
  /\ highlight.slide # "none"
  /\ highlight' = Arrived(highlight)
  /\ UNCHANGED <<focused, wide, itemLayouts, sheetVars>>

MotionNext ==
  \/ \E d \in Details : TapRow(d)
  \/ HandleLayout \/ PressBackdrop \/ Drag \/ Release \/ EndSlide
  \/ \E t \in BarTabs : OnItemLayout(t) \/ OnTabPress(t)
  \/ LayOutAgain \/ EndSpring

\* Animations end, and so does every drag.
MotionSpec == MotionInit /\ [][MotionNext]_motionVars /\ WF_motionVars(EndSlide) /\ WF_motionVars(Release)

(***************************************************************************)
(* What has come to rest is where the state says, whatever moved it: an    *)
(* open sheet shows exactly the transfer tapped last, at the height of its *)
(* details, however it was dragged and in whatever order it was opened,    *)
(* measured and released; the highlight is on the tab that shows, wherever *)
(* that was measured last.                                                 *)
(***************************************************************************)
RestsInPlace ==
  /\ selected # NoDetail =>
       /\ sheet.rendered /\ displayed = selected
       /\ offset.slide = "none" /\ ~sheet.held /\ sheet.height = HeightOf[displayed]
            => offset.at = sheet.height
  /\ highlight.slide = "none" /\ itemLayouts[focused] # 0 => highlight.at = itemLayouts[focused]

(***************************************************************************)
(* A sheet that "closes on drag-down or backdrop press"                    *)
(* (components/BottomSheet.tsx:39) is gone some time after either.         *)
(***************************************************************************)
ClosesWhenAsked == (sheet.rendered /\ selected = NoDetail) ~> ~sheet.rendered
=============================================================================
