---------------------------- MODULE EditorCamera ----------------------------
(***************************************************************************)
(* The camera of the editor and the figure that walks on the terrain       *)
(* (editor/editorcamera.cpp, walker.cpp, walkercamera.cpp): keys and       *)
(* buttons come from the widget (qogrewidget.cpp), movements of the mouse  *)
(* from a timer (ogrebase.cpp, viewUpdate), and a frame of Ogre uses what  *)
(* they have left.                                                         *)
(*                                                                         *)
(* Angles and movements of the mouse have one unit: the movement that      *)
(* turns by 18 degrees, so that 20 are a full turn.  Where camera and      *)
(* figure stand is left out; how far the figure has to go is any distance. *)
(***************************************************************************)
EXTENDS Integers, Sequences

CONSTANTS
  Keys,            \* keys that are used, besides up and down
  Motions,         \* movements of the mouse between two calls of the timer, <<x, y>>
  Window,          \* width and height of the widget
  Margin,          \* how far the screen goes on at each side of it
  Start,           \* where in the widget the timer finds the mouse at first
  Distances,       \* from the figure to where the ground is clicked
  Steps,           \* m_walkSpeed * m_speedFactor * dt, in a frame
  MaxClicks,       \* bound: clicks on the ground
  MaxMotion        \* bound: how far the mouse moves while it may turn the view

ASSUME CameraAssumption ==
  /\ Keys \subseteq {"W", "S", "A", "D", "Shift"}
  /\ Distances \subseteq Nat /\ Steps \subseteq Nat \ {0}
  /\ Motions \subseteq Int \X Int
  /\ Window \in Nat \X Nat /\ Margin \in Nat
  /\ Start \in (0..Window[1]) \X (0..Window[2])
  /\ MaxClicks \in Nat /\ MaxMotion \in Nat

VARIABLES
  document,        \* a campaign is open
  m_walkerMode,
  m_directions, m_speedBoost, m_rotation, m_mouseDelta,
  m_pitch, m_yaw,  \* of the free camera
  orbit,           \* of the walker's: [pitch, yaw, dist]
  m_pointList, m_distToNext,
  animation,       \* [current |-> m_animationState, enabled |-> those that run]
  focus, held, buttons,   \* of the widget, the keyboard, the mouse
  cursor,          \* where the mouse is, and where the timer found it last,
  m_prevMousePosition,    \* both measured from the corner of the widget
  lost, unseen,    \* history: keys let go, and keys pressed, without focus
  clicks,          \* history: the clicks on the ground
  moved            \* history: how far the mouse moved in each direction, in all

inputVars == <<m_directions, m_speedBoost, m_rotation>>
viewVars == <<m_pitch, m_yaw, orbit>>
walkVars == <<m_pointList, m_distToNext, animation>>
keyboardVars == <<held, lost, unseen>>
mouseVars == <<cursor, m_prevMousePosition, moved>>
vars == <<document, m_walkerMode, inputVars, m_mouseDelta, viewVars, walkVars, focus,
          keyboardVars, buttons, clicks, mouseVars>>

(* Mutant: the upper limit only. *)
ClampAbove(x, low, high) == IF x > high THEN high ELSE x

Clamp(x, low, high) == IF x < low THEN low ELSE IF x > high THEN high ELSE x

fullTurn == 20     \* 2 * 3.141
halfTurn == 10     \* 3.141
minPitch == 2      \* 3.141/5
maxPitch == 5      \* 3.141/2
setOrientation(pitch, yaw) ==
  [orbit EXCEPT !.pitch = Clamp(pitch, minPitch, maxPitch), !.yaw = yaw % fullTurn]
addDistance(distance) == [orbit EXCEPT !.dist = Clamp(@ + distance, 4, 20)]

(* The timer has run, without a button, since the program was started.     *)
Init ==
  /\ document = FALSE /\ m_walkerMode = FALSE
  /\ m_directions = {} /\ m_speedBoost = FALSE /\ m_rotation = FALSE
  /\ m_mouseDelta = <<0, 0>>
  /\ m_pitch = -minPitch /\ m_yaw = halfTurn
  /\ orbit = [pitch |-> minPitch, yaw |-> 0, dist |-> 8]
  /\ m_pointList = <<>> /\ m_distToNext = -1
  /\ animation = [current |-> "Idle", enabled |-> {"Idle"}]
  /\ focus = FALSE /\ held = {} /\ lost = {} /\ unseen = {} /\ buttons = {}
  /\ cursor = Start /\ m_prevMousePosition = Start
  /\ clicks = 0 /\ moved = [left |-> 0, right |-> 0, up |-> 0, down |-> 0]

----------------------------------------------------------------------------
(* The figure *)

setAnimation(name) ==
  [current |-> name, enabled |-> (animation.enabled \ {animation.current}) \cup {name}]

stop == m_pointList' = <<>> /\ m_distToNext' = -1 /\ animation' = setAnimation("Idle")

(* Mutant: a click does not stop the figure, and start is for one that     *)
(* stands.                                                                 *)
walkToNext(point, distance) ==
  /\ m_pointList' = Append(m_pointList, point)
  /\ m_distToNext' = IF m_distToNext <= 0 THEN distance ELSE m_distToNext
  /\ animation' = setAnimation("Walk")

(* A click on the ground: stop, addPoint and start.                        *)
walkTo(point, distance) ==
  m_pointList' = <<point>> /\ m_distToNext' = distance /\ animation' = setAnimation("Walk")

(* Mutant: what is left of the way is not counted down. *)
walkAround(step) ==
  IF m_pointList # <<>> /\ m_distToNext <= 0 THEN stop ELSE UNCHANGED walkVars

(* Walker::update.  What is left of the way is counted by the steps, also  *)
(* where hills make it longer.                                             *)
walk(step) ==
  IF m_pointList = <<>> \/ m_distToNext < 0
  THEN UNCHANGED walkVars
  ELSE IF m_distToNext > step
  THEN m_distToNext' = m_distToNext - step /\ UNCHANGED <<m_pointList, animation>>
  ELSE IF Len(m_pointList) > 1
  THEN m_pointList' = Tail(m_pointList) /\ m_distToNext' \in Distances /\ UNCHANGED animation
  ELSE stop

----------------------------------------------------------------------------
(* Keys and buttons *)

Direction == [W |-> "forward", S |-> "backward", A |-> "left", D |-> "right"]
Bits(keys) == {Direction[key] : key \in keys \cap DOMAIN Direction}

keyPress(key) ==
  /\ m_directions' = m_directions \cup Bits({key})
  /\ m_speedBoost' = (m_speedBoost \/ key = "Shift")

(* Mutant: the complement is forgotten. *)
keyReleaseOthers(key) ==
  /\ m_directions' = IF Bits({key}) = {} THEN m_directions ELSE m_directions \cap Bits({key})
  /\ m_speedBoost' = (m_speedBoost /\ key # "Shift")

keyRelease(key) ==
  /\ m_directions' = m_directions \ Bits({key})
  /\ m_speedBoost' = (m_speedBoost /\ key # "Shift")

(* The widget hears of a key while it has the focus; the repeated events   *)
(* of a key that is held are no news.                                      *)
KeyPressed(key) ==
  /\ key \notin held /\ held' = held \cup {key}
  /\ IF focus
     THEN keyPress(key) /\ lost' = lost \ {key} /\ UNCHANGED unseen
     ELSE unseen' = unseen \cup {key} /\ UNCHANGED <<m_directions, m_speedBoost, lost>>
  /\ UNCHANGED <<document, m_walkerMode, m_rotation, m_mouseDelta, viewVars, walkVars,
                 focus, buttons, clicks, mouseVars>>

KeyReleased(key) ==
  /\ key \in held /\ held' = held \ {key}
  /\ unseen' = unseen \ {key}
  /\ IF focus
     THEN keyRelease(key) /\ lost' = lost \ {key}
     ELSE /\ lost' = IF key \in unseen THEN lost ELSE lost \cup {key}
          /\ UNCHANGED <<m_directions, m_speedBoost>>
  /\ UNCHANGED <<document, m_walkerMode, m_rotation, m_mouseDelta, viewVars, walkVars,
                 focus, buttons, clicks, mouseVars>>

(* The keys up and down; that they are held does not matter.               *)
Zoom ==
  /\ focus /\ m_walkerMode
  /\ \E distance \in {4, -4} : orbit' = addDistance(distance)
  /\ UNCHANGED <<document, m_walkerMode, inputVars, m_mouseDelta, m_pitch, m_yaw, walkVars,
                 focus, keyboardVars, buttons, clicks, mouseVars>>

(* Another widget, or another window, gets the focus, or it comes back.    *)
FocusChanges ==
  /\ focus' = ~focus
  /\ UNCHANGED <<document, m_walkerMode, inputVars, m_mouseDelta, viewVars, walkVars,
                 keyboardVars, buttons, clicks, mouseVars>>

(* A button is pressed over the widget, which gets the focus, and all that *)
(* the mouse does until it is released.  The ground is hit or not.         *)
mousePress(button) ==
  /\ button \notin buttons /\ buttons' = buttons \cup {button}
  /\ focus' = TRUE
  /\ m_rotation' = (m_rotation \/ button = "right")
  /\ m_directions' = m_directions \cup (IF button = "middle" THEN {"pan"} ELSE {})
  /\ \/ /\ m_walkerMode /\ button = "left" /\ document /\ clicks < MaxClicks
        /\ clicks' = clicks + 1
        /\ \E distance \in Distances : walkTo(clicks + 1, distance)
     \/ UNCHANGED <<clicks, walkVars>>
  /\ UNCHANGED <<document, m_walkerMode, m_speedBoost, m_mouseDelta, viewVars, keyboardVars,
                 mouseVars>>

mouseRelease(button) ==
  /\ button \in buttons /\ buttons' = buttons \ {button}
  /\ m_rotation' = (m_rotation /\ button # "right")
  /\ m_directions' = m_directions \ (IF button = "middle" THEN {"pan"} ELSE {})
  /\ UNCHANGED <<document, m_walkerMode, m_speedBoost, m_mouseDelta, viewVars, walkVars, focus,
                 keyboardVars, clicks, mouseVars>>

----------------------------------------------------------------------------
(* Timer and frames *)

(* The mouse moves, but not off the screen, of which the widget is a part. *)
Stopped(x, size) ==
  IF x < -Margin THEN -Margin ELSE IF x > size + Margin THEN size + Margin ELSE x
Reached(move) ==
  <<Stopped(cursor[1] + move[1], Window[1]), Stopped(cursor[2] + move[2], Window[2])>>

(* A cursor that leaves the widget is put back by its width or height, so  *)
(* that the mouse can go on.                                               *)
Wrapped(x, size) == IF x < 0 THEN x + size ELSE IF x > size THEN x - size ELSE x

Upward(x) == IF x > 0 THEN x ELSE 0
Travelled(move) ==
  [left |-> moved.left + Upward(-move[1]), right |-> moved.right + Upward(move[1]),
   up |-> moved.up + Upward(-move[2]), down |-> moved.down + Upward(move[2])]

(* The timer finds the mouse elsewhere.  With a button other than the left *)
(* the difference to where it found it last is what a frame will use, and  *)
(* the cursor may be put back.  A movement that no frame has used is       *)
(* overwritten, also by one without a button, which counts as none.        *)
viewUpdate(move) ==
  LET pos == Reached(move)
  IN  /\ pos # m_prevMousePosition
      /\ IF buttons \subseteq {"left"}
         THEN /\ m_mouseDelta' = <<0, 0>> /\ cursor' = pos
              /\ UNCHANGED moved
         ELSE /\ m_mouseDelta' = <<pos[1] - m_prevMousePosition[1],
                                  pos[2] - m_prevMousePosition[2]>>
              /\ cursor' = <<Wrapped(pos[1], Window[1]), Wrapped(pos[2], Window[2])>>
              /\ moved' = Travelled(move)
      /\ m_prevMousePosition' = cursor'
      /\ moved'.left + moved'.right + moved'.up + moved'.down <= MaxMotion
      /\ UNCHANGED <<document, m_walkerMode, inputVars, viewVars, walkVars, focus,
                     keyboardVars, buttons, clicks>>

rotate ==
  IF ~m_rotation THEN UNCHANGED viewVars
  ELSE IF m_walkerMode
  THEN /\ orbit' = setOrientation(orbit.pitch + m_mouseDelta[2], orbit.yaw - m_mouseDelta[1])
       /\ UNCHANGED <<m_pitch, m_yaw>>
  ELSE /\ m_yaw' = (m_yaw - m_mouseDelta[1]) % fullTurn
       /\ m_pitch' = Clamp(m_pitch - m_mouseDelta[2], -maxPitch, maxPitch)
       /\ UNCHANGED orbit

(* Mutant: the movement is kept for the next frame. *)
KeepDelta == m_mouseDelta

DeltaUsed == <<0, 0>>

(* A frame.  Without a campaign the camera is free also in walker mode;    *)
(* a free camera takes the figure along, which stops it.                   *)
update(step) ==
  /\ rotate
  /\ IF m_walkerMode /\ document THEN walk(step) ELSE stop
  /\ m_mouseDelta' = DeltaUsed
  /\ UNCHANGED <<document, m_walkerMode, inputVars, focus, keyboardVars, buttons, clicks,
                 mouseVars>>

frameStarted == \E step \in Steps : update(step)

----------------------------------------------------------------------------
(* The mode *)

FreePitch == -orbit.pitch

setWalkerMode ==
  /\ m_walkerMode' = ~m_walkerMode
  /\ IF m_walkerMode
     THEN /\ m_yaw' = (orbit.yaw + halfTurn) % fullTurn /\ m_pitch' = FreePitch /\ stop
          /\ UNCHANGED orbit
     ELSE /\ orbit' = setOrientation(-m_pitch, m_yaw + halfTurn)
          /\ UNCHANGED <<m_yaw, m_pitch, walkVars>>
  /\ UNCHANGED <<document, inputVars, m_mouseDelta, focus, keyboardVars, buttons, clicks,
                 mouseVars>>

Open ==
  /\ ~document /\ document' = TRUE
  /\ UNCHANGED <<m_walkerMode, inputVars, m_mouseDelta, viewVars, walkVars, focus, keyboardVars,
                 buttons, clicks, mouseVars>>

Buttons == {"left", "middle", "right"}

Next ==
  \/ \E key \in Keys : KeyPressed(key) \/ KeyReleased(key)
  \/ \E button \in Buttons : mousePress(button) \/ mouseRelease(button)
  \/ \E move \in Motions : viewUpdate(move)
  \/ Zoom \/ FocusChanges \/ frameStarted \/ setWalkerMode \/ Open

(* A frame asks for the next one (qogrewidget.cpp:84-86, 137-140).          *)
Spec == Init /\ [][Next]_vars /\ WF_vars(frameStarted)

----------------------------------------------------------------------------
Pitches == minPitch..maxPitch
Yaws == 0..(fullTurn - 1)
OnScreen == (-Margin..(Window[1] + Margin)) \X (-Margin..(Window[2] + Margin))

TypeOK ==
  /\ document \in BOOLEAN /\ m_walkerMode \in BOOLEAN
  /\ m_directions \subseteq {"forward", "backward", "left", "right", "pan"}
  /\ m_speedBoost \in BOOLEAN /\ m_rotation \in BOOLEAN
  /\ m_pitch \in -maxPitch..maxPitch /\ m_yaw \in Yaws
  /\ orbit \in [pitch : Pitches, yaw : Yaws, dist : 4..20]
  /\ m_pointList \in Seq(1..clicks) /\ m_distToNext \in Int
  /\ buttons \subseteq Buttons /\ held \subseteq Keys /\ unseen \subseteq held
  /\ m_mouseDelta \in Int \X Int
  /\ cursor \in OnScreen /\ m_prevMousePosition = cursor
  /\ clicks \in 0..MaxClicks
  /\ LET Extent == 0..MaxMotion
     IN  moved \in [left : Extent, right : Extent, up : Extent, down : Extent]

(* The figure is on its way to the point that was clicked last, or it      *)
(* stands; a walk that is replaced half way leaves no point and no         *)
(* animation behind.  Only in walker mode does it walk                     *)
(* (editorcamera.cpp:93-108, walker.cpp:41-61, 131-144).                   *)
HeadsForLastClick ==
  /\ m_pointList \in {<<>>, <<clicks>>}
  /\ (m_pointList # <<>>) = (m_distToNext >= 0)
  /\ m_pointList # <<>> => m_walkerMode /\ document
  /\ animation.enabled = {IF m_pointList = <<>> THEN "Idle" ELSE "Walk"}

(* The camera flies in the directions of the keys that are held, and in    *)
(* those of keys that were let go while the focus was elsewhere, for ever  *)
(* or until they are pressed again; it pans and turns as the buttons are   *)
(* (editorcamera.cpp:50-117, qogrewidget.cpp:122-134).                     *)
InputsAsHeld ==
  LET known == (held \ unseen) \cup lost
  IN  /\ m_directions = Bits(known) \cup (IF "middle" \in buttons THEN {"pan"} ELSE {})
      /\ m_speedBoost = ("Shift" \in known)
      /\ m_rotation = ("right" \in buttons)

(* Where the camera looks. *)
View == IF m_walkerMode /\ document THEN <<-orbit.pitch, (orbit.yaw + halfTurn) % fullTurn>>
                                    ELSE <<m_pitch, m_yaw>>

(* From where it looks at first the view is turned to neither side, nor up *)
(* or down, by more than the mouse has moved that way with a button down,  *)
(* whatever the order of timer and frames, also when the cursor is put     *)
(* back and the mode changes.  The limits of the pitch, which a change to  *)
(* walker mode imposes at once, only bring the view back to that direction *)
(* (ogrebase.cpp:136-177, editorcamera.cpp:119-168, 184-195).              *)
TurnsNoFurther ==
  /\ \E turn \in -moved.left..moved.right : View[2] = (halfTurn - turn) % fullTurn
  /\ View[1] \in (-minPitch - moved.down)..(-minPitch + moved.up)

(* The figure comes to a stop, also on hills that make its way longer than *)
(* the distance it has counted (walker.cpp:84-120).                        *)
WalkEnds == m_pointList # <<>> ~> m_pointList = <<>>
==============================================================================
