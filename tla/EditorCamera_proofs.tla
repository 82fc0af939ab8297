------------------------- MODULE EditorCamera_proofs -------------------------
(***************************************************************************)
(* For any keys, distances, steps, movements of the mouse and size of the  *)
(* widget: the types of EditorCamera, where the figure heads for, that     *)
(* what the camera does is what is held, and how far the view is turned.   *)
(***************************************************************************)
EXTENDS EditorCamera, TLAPS

(* What TypeOK leaves open and the steps need.                             *)
DeltaOK == /\ m_mouseDelta[1] \in Int /\ m_mouseDelta[2] \in Int
           /\ m_mouseDelta = <<m_mouseDelta[1], m_mouseDelta[2]>>
MouseOK == cursor \in OnScreen /\ m_prevMousePosition = cursor
AnimationOK == animation.enabled = {animation.current}
WalkOK == AnimationOK /\ HeadsForLastClick /\ (m_pointList # <<>> => clicks > 0)

(* Types: what is left beside the figure and the inputs.                   *)
Flags == document \in BOOLEAN /\ m_walkerMode \in BOOLEAN
Views == /\ m_pitch \in -maxPitch..maxPitch /\ m_yaw \in Yaws
         /\ orbit \in [pitch : Pitches, yaw : Yaws, dist : 4..20]
Events == buttons \subseteq Buttons /\ held \subseteq Keys /\ unseen \subseteq held
Extent == 0..MaxMotion
Counts == /\ clicks \in 0..MaxClicks
          /\ moved \in [left : Extent, right : Extent, up : Extent, down : Extent]
          /\ m_distToNext \in Int

(* The inductive invariant; TypeOK follows from it (TypeFromParts).        *)
IInv == /\ WalkOK /\ InputsAsHeld /\ Flags /\ Views /\ Events
        /\ Counts /\ DeltaOK /\ MouseOK

(* The directions of some keys and of others, without those of one key:    *)
(* no two keys have one direction, and none pans.                          *)
LEMMA BitsOfUnion ==
  ASSUME NEW S, NEW T
  PROVE  Bits(S \cup T) = Bits(S) \cup Bits(T)
BY DEF Bits

LEMMA BitsWithout ==
  ASSUME NEW S, NEW key
  PROVE  Bits(S \ {key}) = Bits(S) \ Bits({key})
<1> DOMAIN Direction = {"W", "S", "A", "D"}
  BY DEF Direction
<1> \A x, y \in DOMAIN Direction : Direction[x] = Direction[y] => x = y
  BY DEF Direction
<1> QED BY DEF Bits

LEMMA BitsAreDirections ==
  ASSUME NEW S
  PROVE  Bits(S) \subseteq {"forward", "backward", "left", "right"}
BY DEF Bits, Direction

LEMMA ClampBounds ==
  ASSUME NEW x \in Int, NEW low \in Int, NEW high \in Int, low <= high
  PROVE  Clamp(x, low, high) \in low..high
BY DEF Clamp

(* The figure: only a click, a frame and a change of the mode concern it.  *)
LEMMA StopKeepsWalk ==
  ASSUME AnimationOK, stop
  PROVE  WalkOK'
BY DEF AnimationOK, stop, setAnimation, WalkOK, HeadsForLastClick

LEMMA WalkKept ==
  ASSUME IInv, UNCHANGED <<document, m_walkerMode, walkVars, clicks>>
  PROVE  WalkOK'
BY DEF IInv, WalkOK, AnimationOK, HeadsForLastClick, walkVars

LEMMA WalkStep ==
  ASSUME IInv, [Next]_vars
  PROVE  WalkOK'
<1> USE DEF IInv
<1>1. ASSUME NEW button \in Buttons, mousePress(button)
      PROVE  WalkOK'
  <2>1. CASE UNCHANGED <<clicks, walkVars>>
    BY <1>1, <2>1, WalkKept DEF mousePress
  <2>2. CASE /\ m_walkerMode /\ document /\ clicks' = clicks + 1
             /\ \E distance \in Distances : walkTo(clicks + 1, distance)
    <3>1. clicks \in Nat /\ Distances \subseteq Nat
      BY CameraAssumption DEF Counts
    <3>2. PICK distance \in Distances : walkTo(clicks + 1, distance)
      BY <2>2
    <3>3. m_walkerMode' /\ document'
      BY <1>1, <2>2 DEF mousePress
    <3>4. m_pointList' = <<clicks'>> /\ m_distToNext' >= 0 /\ clicks' > 0
      BY <2>2, <3>1, <3>2 DEF walkTo
    <3>5. animation'.current = "Walk" /\ animation'.enabled = {"Walk"}
      BY <3>2 DEF walkTo, setAnimation, WalkOK, AnimationOK
    <3>6. m_pointList' # <<>>
      BY <3>4
    <3> QED BY <3>3, <3>4, <3>5, <3>6 DEF WalkOK, AnimationOK, HeadsForLastClick
  <2> QED BY <1>1, <2>1, <2>2 DEF mousePress
<1>2. ASSUME NEW step \in Steps, update(step)
      PROVE  WalkOK'
  <2>1. CASE m_walkerMode /\ document
    <3>1. walk(step) /\ UNCHANGED <<document, m_walkerMode, clicks>>
      BY <1>2, <2>1 DEF update
    <3>2. ~(Len(m_pointList) > 1)
      <4>1. m_pointList = <<>> \/ m_pointList = <<clicks>>
        BY DEF WalkOK, HeadsForLastClick
      <4>2. Len(<<>>) = 0 /\ Len(<<clicks>>) = 1
        OBVIOUS
      <4>3. Len(m_pointList) \in 0..1
        BY <4>1, <4>2
      <4>4. \A n \in 0..1 : ~(n > 1)
        OBVIOUS
      <4> QED BY <4>3, <4>4
    <3>3. CASE m_pointList # <<>> /\ m_distToNext > step
      <4>1. m_distToNext' \in Int /\ m_distToNext' >= 0
        BY <3>1, <3>3, CameraAssumption DEF walk, WalkOK, HeadsForLastClick, Counts
      <4> QED BY <2>1, <3>1, <3>3, <4>1, CameraAssumption
              DEF walk, WalkOK, HeadsForLastClick, AnimationOK, Counts
    <3>4. CASE ~(m_pointList # <<>> /\ m_distToNext > step)
      <4>1. stop \/ UNCHANGED walkVars
        BY <3>1, <3>2, <3>4 DEF walk, WalkOK, HeadsForLastClick
      <4> QED BY <3>1, <4>1, StopKeepsWalk, WalkKept DEF WalkOK
    <3> QED BY <3>3, <3>4
  <2>2. CASE ~(m_walkerMode /\ document)
    BY <1>2, <2>2, StopKeepsWalk DEF update, WalkOK
  <2> QED BY <2>1, <2>2
<1>3. CASE setWalkerMode
  <2>1. CASE m_walkerMode
    BY <1>3, <2>1, StopKeepsWalk DEF setWalkerMode, WalkOK
  <2>2. CASE ~m_walkerMode
    <3>1. m_pointList = <<>> /\ UNCHANGED <<walkVars, clicks>>
      BY <1>3, <2>2 DEF setWalkerMode, WalkOK, HeadsForLastClick
    <3> QED BY <3>1 DEF WalkOK, HeadsForLastClick, AnimationOK, walkVars
  <2> QED BY <2>1, <2>2
<1>4. CASE Open
  <2>1. m_pointList = <<>>
    BY <1>4 DEF Open, WalkOK, HeadsForLastClick
  <2> QED BY <1>4, <2>1 DEF Open, WalkOK, HeadsForLastClick, AnimationOK, walkVars
<1>5. ASSUME NEW key \in Keys, KeyPressed(key) \/ KeyReleased(key)
      PROVE  WalkOK'
  BY <1>5, WalkKept DEF KeyPressed, KeyReleased
<1>6. ASSUME NEW button \in Buttons, mouseRelease(button)
      PROVE  WalkOK'
  BY <1>6, WalkKept DEF mouseRelease
<1>7. ASSUME NEW move \in Motions, viewUpdate(move)
      PROVE  WalkOK'
  BY <1>7, WalkKept DEF viewUpdate
<1>8. CASE Zoom \/ FocusChanges
  BY <1>8, WalkKept DEF Zoom, FocusChanges
<1>9. CASE UNCHANGED vars
  BY <1>9, WalkKept DEF vars
<1> QED
  BY <1>1, <1>2, <1>3, <1>4, <1>5, <1>6, <1>7, <1>8, <1>9 DEF Next, frameStarted

(* The inputs: keys with and without the focus, and buttons.               *)
Known == (held \ unseen) \cup lost
Pan == IF "middle" \in buttons THEN {"pan"} ELSE {}

LEMMA InputsSplit ==
  InputsAsHeld = (/\ m_directions = Bits(Known) \cup Pan
                  /\ m_speedBoost = ("Shift" \in Known)
                  /\ m_rotation = ("right" \in buttons))
BY DEF InputsAsHeld, Known, Pan

LEMMA InputsKept ==
  ASSUME IInv, UNCHANGED <<inputVars, keyboardVars, buttons>>
  PROVE  InputsAsHeld'
BY DEF IInv, InputsAsHeld, inputVars, keyboardVars

LEMMA KeysStep ==
  ASSUME IInv, NEW key, KeyPressed(key) \/ KeyReleased(key)
  PROVE  InputsAsHeld'
<1>1. /\ m_directions = Bits(Known) \cup Pan
      /\ m_speedBoost = ("Shift" \in Known)
      /\ m_rotation = ("right" \in buttons)
  BY InputsSplit DEF IInv
<1>2. unseen \subseteq held
  BY DEF IInv, Events
<1>3. m_rotation' = m_rotation /\ buttons' = buttons /\ Pan' = Pan
  BY DEF KeyPressed, KeyReleased, Pan
<1>4. CASE KeyPressed(key) /\ focus
  <2>1. Known' = Known \cup {key}
    BY <1>2, <1>4 DEF KeyPressed, Known
  <2>2. m_directions' = m_directions \cup Bits({key})
        /\ m_speedBoost' = (m_speedBoost \/ key = "Shift")
    BY <1>4 DEF KeyPressed, keyPress
  <2>3. Bits(Known') = Bits(Known) \cup Bits({key})
    BY <2>1, BitsOfUnion
  <2>4. m_directions' = Bits(Known') \cup Pan'
    BY <1>1, <1>3, <2>2, <2>3
  <2>5. m_speedBoost' = ("Shift" \in Known')
    <3>1. ("Shift" \in Known') = ("Shift" \in Known \/ key = "Shift")
      BY <2>1
    <3> QED BY <1>1, <2>2, <3>1
  <2> QED BY <1>1, <1>3, <2>4, <2>5 DEF InputsAsHeld, Known, Pan
<1>5. CASE KeyReleased(key) /\ focus
  <2>1. Known' = Known \ {key}
    BY <1>2, <1>5 DEF KeyReleased, Known
  <2>2. m_directions' = m_directions \ Bits({key})
        /\ m_speedBoost' = (m_speedBoost /\ key # "Shift")
    BY <1>5 DEF KeyReleased, keyRelease
  <2>3. Bits(Known') = Bits(Known) \ Bits({key})
    BY <2>1, BitsWithout
  <2>4. "pan" \notin Bits({key})
    BY BitsAreDirections
  <2>5. m_directions' = Bits(Known') \cup Pan'
    BY <1>1, <1>3, <2>2, <2>3, <2>4 DEF Pan
  <2>6. m_speedBoost' = ("Shift" \in Known')
    <3>1. ("Shift" \in Known') = ("Shift" \in Known /\ key # "Shift")
      BY <2>1
    <3> QED BY <1>1, <2>2, <3>1
  <2> QED BY <1>1, <1>3, <2>5, <2>6 DEF InputsAsHeld, Known, Pan
<1>6. CASE ~focus
  <2>1. Known' = Known /\ UNCHANGED <<m_directions, m_speedBoost>>
    BY <1>2, <1>6 DEF KeyPressed, KeyReleased, Known
  <2> QED BY <1>1, <1>3, <2>1 DEF InputsAsHeld, Known, Pan
<1> QED BY <1>4, <1>5, <1>6

LEMMA ButtonsStep ==
  ASSUME IInv, NEW button, mousePress(button) \/ mouseRelease(button)
  PROVE  InputsAsHeld'
<1>1. /\ m_directions = Bits(Known) \cup Pan
      /\ m_speedBoost = ("Shift" \in Known)
      /\ m_rotation = ("right" \in buttons)
  BY InputsSplit DEF IInv
<1>2. Known' = Known /\ m_speedBoost' = m_speedBoost
  BY DEF mousePress, mouseRelease, keyboardVars, Known
<1>3. "pan" \notin Bits(Known)
  BY BitsAreDirections
<1>4. m_directions' = Bits(Known) \cup Pan'
  BY <1>1, <1>3 DEF mousePress, mouseRelease, Pan
<1>5. m_rotation' = ("right" \in buttons')
  <2>1. CASE mousePress(button)
    <3>1. m_rotation' = (m_rotation \/ button = "right") /\ buttons' = buttons \cup {button}
      BY <2>1 DEF mousePress
    <3>2. ("right" \in buttons') = ("right" \in buttons \/ button = "right")
      BY <3>1
    <3> QED BY <1>1, <3>1, <3>2
  <2>2. CASE mouseRelease(button)
    <3>1. m_rotation' = (m_rotation /\ button # "right") /\ buttons' = buttons \ {button}
      BY <2>2 DEF mouseRelease
    <3>2. ("right" \in buttons') = ("right" \in buttons /\ button # "right")
      BY <3>1
    <3> QED BY <1>1, <3>1, <3>2
  <2> QED BY <2>1, <2>2
<1> QED BY <1>1, <1>2, <1>4, <1>5 DEF InputsAsHeld, Known, Pan

LEMMA InputsStep ==
  ASSUME IInv, [Next]_vars
  PROVE  InputsAsHeld'
<1>1. ASSUME NEW key \in Keys, KeyPressed(key) \/ KeyReleased(key)
      PROVE  InputsAsHeld'
  BY <1>1, KeysStep
<1>2. ASSUME NEW button \in Buttons, mousePress(button) \/ mouseRelease(button)
      PROVE  InputsAsHeld'
  BY <1>2, ButtonsStep
<1>3. ASSUME NEW move \in Motions, viewUpdate(move)
      PROVE  InputsAsHeld'
  BY <1>3, InputsKept DEF viewUpdate
<1>4. ASSUME NEW step \in Steps, update(step)
      PROVE  InputsAsHeld'
  BY <1>4, InputsKept DEF update
<1>5. CASE Zoom \/ FocusChanges \/ setWalkerMode \/ Open
  BY <1>5, InputsKept DEF Zoom, FocusChanges, setWalkerMode, Open
<1>6. CASE UNCHANGED vars
  BY <1>6, InputsKept DEF vars
<1> QED BY <1>1, <1>2, <1>3, <1>4, <1>5, <1>6 DEF Next, frameStarted

LEMMA TypeFromParts ==
  ASSUME IInv
  PROVE  TypeOK
<1> USE DEF IInv
<1>1. m_directions \subseteq {"forward", "backward", "left", "right", "pan"}
  BY BitsAreDirections DEF InputsAsHeld
<1>2. m_speedBoost \in BOOLEAN /\ m_rotation \in BOOLEAN
  BY DEF InputsAsHeld
<1>3. m_pointList \in Seq(1..clicks)
  <2>1. CASE m_pointList = <<>>
    BY <2>1
  <2>2. CASE m_pointList # <<>>
    <3>1. m_pointList = <<clicks>> /\ clicks \in 1..clicks
      BY <2>2 DEF WalkOK, HeadsForLastClick, Counts
    <3> QED BY <3>1
  <2> QED BY <2>1, <2>2
<1> QED BY <1>1, <1>2, <1>3 DEF TypeOK, Flags, Views, Events, Counts, Extent, DeltaOK, MouseOK

LEMMA Turning ==
  ASSUME NEW yaw \in Int
  PROVE  yaw % fullTurn \in Yaws
BY DEF fullTurn, Yaws

LEMMA OrbitTurned ==
  ASSUME Views, NEW pitch \in Int, NEW yaw \in Int
  PROVE  setOrientation(pitch, yaw) \in [pitch : Pitches, yaw : Yaws, dist : 4..20]
<1>1. Clamp(pitch, minPitch, maxPitch) \in Pitches
  <2>1. minPitch \in Int /\ maxPitch \in Int /\ minPitch <= maxPitch
    BY DEF minPitch, maxPitch
  <2> QED BY <2>1, ClampBounds DEF Pitches
<1> QED BY <1>1, Turning DEF Views, setOrientation

LEMMA ViewsStep ==
  ASSUME Views, DeltaOK, [Next]_vars
  PROVE  Views'
<1>1. CASE UNCHANGED viewVars
  BY <1>1 DEF Views, viewVars
<1>2. CASE Zoom
  <2>1. PICK distance \in {4, -4} : orbit' = addDistance(distance)
    BY <1>2 DEF Zoom
  <2>2. Clamp(orbit.dist + distance, 4, 20) \in 4..20
    <3>1. orbit.dist + distance \in Int /\ 4 \in Int /\ 20 \in Int /\ 4 <= 20
      BY DEF Views
    <3> QED BY ONLY <3>1, ClampBounds
  <2> QED BY <1>2, <2>1, <2>2 DEF Views, Zoom, addDistance
<1>3. CASE rotate
  <2>1. CASE m_rotation /\ m_walkerMode
    <3>1. orbit.pitch + m_mouseDelta[2] \in Int /\ orbit.yaw - m_mouseDelta[1] \in Int
      BY DEF Views, DeltaOK, Pitches, minPitch, maxPitch, Yaws, fullTurn
    <3> QED BY <1>3, <2>1, <3>1, OrbitTurned DEF rotate, Views
  <2>2. CASE m_rotation /\ ~m_walkerMode
    <3>1. /\ m_yaw' = (m_yaw - m_mouseDelta[1]) % fullTurn /\ orbit' = orbit
          /\ m_pitch' = Clamp(m_pitch - m_mouseDelta[2], -maxPitch, maxPitch)
      BY <1>3, <2>2 DEF rotate
    <3>2. m_pitch' \in -maxPitch..maxPitch
      <4>1. /\ m_pitch - m_mouseDelta[2] \in Int
            /\ maxPitch \in Int /\ -maxPitch \in Int /\ -maxPitch <= maxPitch
        BY DEF Views, DeltaOK, maxPitch
      <4> QED BY ONLY <3>1, <4>1, ClampBounds
    <3>3. m_yaw' \in Yaws
      BY <3>1, Turning DEF Views, DeltaOK, Yaws, fullTurn
    <3> QED BY <3>1, <3>2, <3>3 DEF Views
  <2> QED BY <1>1, <1>3, <2>1, <2>2 DEF rotate
<1>4. CASE setWalkerMode
  <2>1. CASE m_walkerMode
    <3>1. m_yaw' = (orbit.yaw + halfTurn) % fullTurn /\ m_pitch' = -orbit.pitch /\ orbit' = orbit
      BY <1>4, <2>1 DEF setWalkerMode, FreePitch
    <3>2. orbit.yaw + halfTurn \in Int
      BY DEF Views, Yaws, fullTurn, halfTurn
    <3> QED BY <3>1, <3>2, Turning DEF Views, Pitches, minPitch, maxPitch
  <2>2. CASE ~m_walkerMode
    <3>1. -m_pitch \in Int /\ m_yaw + halfTurn \in Int
      BY DEF Views, maxPitch, Yaws, fullTurn, halfTurn
    <3> QED BY <1>4, <2>2, <3>1, OrbitTurned DEF setWalkerMode, Views
  <2> QED BY <2>1, <2>2
<1>5. UNCHANGED viewVars \/ Zoom \/ rotate \/ setWalkerMode
  BY DEF Next, KeyPressed, KeyReleased, mousePress, mouseRelease, viewUpdate, FocusChanges,
         frameStarted, update, Open, vars
<1> QED BY <1>1, <1>2, <1>3, <1>4, <1>5

LEMMA FlagsStep ==
  ASSUME Flags, [Next]_vars
  PROVE  Flags'
BY DEF Flags, Next, KeyPressed, KeyReleased, mousePress, mouseRelease, viewUpdate, Zoom,
       FocusChanges, frameStarted, update, setWalkerMode, Open, vars

LEMMA EventsStep ==
  ASSUME Events, [Next]_vars
  PROVE  Events'
<1>1. ASSUME NEW key \in Keys, KeyPressed(key) \/ KeyReleased(key)
      PROVE  Events'
  BY <1>1 DEF Events, KeyPressed, KeyReleased
<1>2. ASSUME NEW button \in Buttons, mousePress(button) \/ mouseRelease(button)
      PROVE  Events'
  BY <1>2 DEF Events, mousePress, mouseRelease, keyboardVars
<1>3. CASE UNCHANGED <<buttons, keyboardVars>>
  BY <1>3 DEF Events, keyboardVars
<1> QED
  BY <1>1, <1>2, <1>3
  DEF Next, viewUpdate, Zoom, FocusChanges, frameStarted, update, setWalkerMode, Open, vars

(* The screen stops the mouse somewhere on its way, and a cursor that is   *)
(* put back is still on the screen.                                        *)
LEMMA StoppedOnTheWay ==
  ASSUME NEW size \in Nat, NEW x \in -Margin..(size + Margin), NEW move \in Int
  PROVE  /\ Stopped(x + move, size) \in -Margin..(size + Margin)
         /\ Stopped(x + move, size) - x \in -Upward(-move)..Upward(move)
BY CameraAssumption DEF Stopped, Upward

LEMMA WrappedOnScreen ==
  ASSUME NEW size \in Nat, NEW x \in -Margin..(size + Margin)
  PROVE  Wrapped(x, size) \in -Margin..(size + Margin)
BY CameraAssumption DEF Wrapped

LEMMA UpwardNat ==
  ASSUME NEW x \in Int
  PROVE  Upward(x) \in Nat
BY DEF Upward

LEMMA MouseMoves ==
  ASSUME Counts, DeltaOK, MouseOK, NEW move \in Motions, viewUpdate(move)
  PROVE  /\ DeltaOK' /\ MouseOK'
         /\ moved' \in [left : Extent, right : Extent, up : Extent, down : Extent]
         /\ moved'.left - moved.left \in Nat /\ moved'.right - moved.right \in Nat
         /\ moved'.up - moved.up \in Nat /\ moved'.down - moved.down \in Nat
         /\ m_mouseDelta'[1] \in (moved.left - moved'.left)..(moved'.right - moved.right)
         /\ m_mouseDelta'[2] \in (moved.up - moved'.up)..(moved'.down - moved.down)
<1> DEFINE pos == Reached(move)
<1>1. /\ move[1] \in Int /\ move[2] \in Int /\ -move[1] \in Int /\ -move[2] \in Int
      /\ Window[1] \in Nat /\ Window[2] \in Nat /\ Margin \in Nat /\ MaxMotion \in Nat
  BY CameraAssumption
<1>2. /\ cursor = <<cursor[1], cursor[2]>>
      /\ cursor[1] \in -Margin..(Window[1] + Margin)
      /\ cursor[2] \in -Margin..(Window[2] + Margin)
  BY DEF MouseOK, OnScreen
<1>3. /\ pos = <<pos[1], pos[2]>>
      /\ pos[1] \in -Margin..(Window[1] + Margin)
      /\ pos[2] \in -Margin..(Window[2] + Margin)
      /\ pos[1] - cursor[1] \in -Upward(-move[1])..Upward(move[1])
      /\ pos[2] - cursor[2] \in -Upward(-move[2])..Upward(move[2])
  BY <1>1, <1>2, StoppedOnTheWay DEF Reached
<1>4. /\ moved.left \in Nat /\ moved.right \in Nat /\ moved.up \in Nat /\ moved.down \in Nat
      /\ Upward(move[1]) \in Nat /\ Upward(-move[1]) \in Nat
      /\ Upward(move[2]) \in Nat /\ Upward(-move[2]) \in Nat
  BY <1>1, UpwardNat DEF Counts, Extent
<1>5. CASE buttons \subseteq {"left"}
  <2>1. m_mouseDelta' = <<0, 0>> /\ cursor' = pos /\ moved' = moved /\ m_prevMousePosition' = pos
    BY <1>5 DEF viewUpdate
  <2>2. MouseOK'
    BY <1>3, <2>1 DEF MouseOK, OnScreen
  <2> QED BY <1>4, <2>1, <2>2 DEF DeltaOK, Counts
<1>6. CASE ~(buttons \subseteq {"left"})
  <2>1. /\ m_mouseDelta' = <<pos[1] - m_prevMousePosition[1], pos[2] - m_prevMousePosition[2]>>
        /\ cursor' = <<Wrapped(pos[1], Window[1]), Wrapped(pos[2], Window[2])>>
        /\ m_prevMousePosition' = cursor' /\ moved' = Travelled(move)
        /\ moved'.left + moved'.right + moved'.up + moved'.down <= MaxMotion
    BY <1>6 DEF viewUpdate
  <2>2. /\ m_mouseDelta' = <<m_mouseDelta'[1], m_mouseDelta'[2]>>
        /\ m_mouseDelta'[1] \in -Upward(-move[1])..Upward(move[1])
        /\ m_mouseDelta'[2] \in -Upward(-move[2])..Upward(move[2])
    BY <1>3, <2>1 DEF MouseOK
  <2>3. DeltaOK'
    BY <1>4, <2>2 DEF DeltaOK
  <2>4. MouseOK'
    BY <1>1, <1>3, <2>1, WrappedOnScreen DEF MouseOK, OnScreen
  <2>5. /\ moved'.left = moved.left + Upward(-move[1])
        /\ moved'.right = moved.right + Upward(move[1])
        /\ moved'.up = moved.up + Upward(-move[2])
        /\ moved'.down = moved.down + Upward(move[2])
        /\ moved' = [left |-> moved'.left, right |-> moved'.right,
                     up |-> moved'.up, down |-> moved'.down]
    BY <2>1 DEF Travelled
  <2>6. /\ moved'.left \in Extent /\ moved'.right \in Extent
        /\ moved'.up \in Extent /\ moved'.down \in Extent
    BY <1>1, <1>4, <2>1, <2>5 DEF Extent
  <2>7. moved' \in [left : Extent, right : Extent, up : Extent, down : Extent]
    BY <2>5, <2>6
  <2> QED BY <1>4, <2>2, <2>3, <2>4, <2>5, <2>7
<1> QED BY <1>5, <1>6

LEMMA CountsStep ==
  ASSUME Counts, DeltaOK, MouseOK, [Next]_vars
  PROVE  Counts' /\ DeltaOK' /\ MouseOK'
<1>1. ASSUME NEW move \in Motions, viewUpdate(move)
      PROVE  Counts' /\ DeltaOK' /\ MouseOK'
  BY <1>1, MouseMoves DEF Counts, viewUpdate, walkVars
<1>2. ASSUME NEW button \in Buttons, mousePress(button)
      PROVE  Counts' /\ DeltaOK' /\ MouseOK'
  <2>1. CASE UNCHANGED <<clicks, walkVars>>
    BY <1>2, <2>1 DEF Counts, DeltaOK, MouseOK, mouseVars, mousePress, walkVars
  <2>2. CASE /\ clicks < MaxClicks /\ clicks' = clicks + 1
             /\ \E distance \in Distances : walkTo(clicks + 1, distance)
    BY <1>2, <2>2, CameraAssumption DEF Counts, DeltaOK, MouseOK, mouseVars, mousePress, walkTo
  <2> QED BY <1>2, <2>1, <2>2 DEF mousePress
<1>3. ASSUME NEW step \in Steps, update(step)
      PROVE  Counts' /\ DeltaOK' /\ MouseOK'
  <2>1. DeltaOK' /\ MouseOK'
    BY <1>3 DEF update, DeltaUsed, DeltaOK, MouseOK, mouseVars
  <2>2. m_distToNext' \in Int
    <3>1. step \in Int /\ Distances \subseteq Int /\ m_distToNext \in Int
      BY CameraAssumption DEF Counts
    <3>2. stop => m_distToNext' \in Int
      BY DEF stop
    <3>3. walk(step) => \/ stop
                        \/ m_distToNext' \in {m_distToNext, m_distToNext - step} \cup Distances
      BY Zenon DEF walk, walkVars
    <3>4. ASSUME walk(step) PROVE m_distToNext' \in Int
      <4>1. CASE stop
        BY <3>2, <4>1
      <4>2. CASE m_distToNext' \in {m_distToNext, m_distToNext - step} \cup Distances
        BY <3>1, <4>2
      <4> QED BY <3>3, <3>4, <4>1, <4>2
    <3> QED BY <1>3, <3>2, <3>4 DEF update
  <2> QED BY <1>3, <2>1, <2>2 DEF Counts, update, mouseVars
<1>4. CASE setWalkerMode
  BY <1>4 DEF Counts, DeltaOK, MouseOK, mouseVars, setWalkerMode, stop, walkVars
<1>5. CASE UNCHANGED <<m_mouseDelta, walkVars, clicks, mouseVars>>
  BY <1>5 DEF Counts, DeltaOK, MouseOK, mouseVars, walkVars
<1> QED
  BY <1>1, <1>2, <1>3, <1>4, <1>5
  DEF Next, KeyPressed, KeyReleased, mouseRelease, Zoom, FocusChanges, frameStarted, Open, vars

----------------------------------------------------------------------------
LEMMA InitHolds == Init => IInv
<1> SUFFICES ASSUME Init PROVE IInv
  OBVIOUS
<1>1. WalkOK
  BY DEF Init, WalkOK, AnimationOK, HeadsForLastClick
<1>2. InputsAsHeld
  <2>1. Known = {} /\ Bits(Known) = {}
    BY DEF Init, Known, Bits
  <2>2. m_directions = Bits(Known) \cup Pan
    BY <2>1 DEF Init, Pan
  <2>3. m_speedBoost = ("Shift" \in Known) /\ m_rotation = ("right" \in buttons)
    <3>1. ("Shift" \in Known) = FALSE /\ ("right" \in buttons) = FALSE
      BY <2>1 DEF Init
    <3>2. m_speedBoost = FALSE /\ m_rotation = FALSE
      BY DEF Init
    <3> QED BY <3>1, <3>2
  <2> QED BY <2>2, <2>3 DEF InputsAsHeld, Known, Pan
<1>3. Flags /\ Events
  BY DEF Init, Flags, Events
<1>4. Views
  BY DEF Init, Views, Pitches, minPitch, maxPitch, Yaws, fullTurn, halfTurn
<1>5. Counts /\ DeltaOK
  BY CameraAssumption DEF Init, Counts, Extent, DeltaOK
<1>6. MouseOK
  BY CameraAssumption DEF Init, MouseOK, OnScreen
<1> QED BY <1>1, <1>2, <1>3, <1>4, <1>5, <1>6 DEF IInv

LEMMA NextKeeps == IInv /\ [Next]_vars => IInv'
<1> SUFFICES ASSUME IInv, [Next]_vars PROVE IInv'
  OBVIOUS
<1>1. WalkOK' /\ InputsAsHeld'
  BY WalkStep, InputsStep
<1>2. Flags /\ Views /\ Events /\ Counts /\ DeltaOK /\ MouseOK
  BY DEF IInv
<1>3. Flags' /\ Views' /\ Events' /\ Counts' /\ DeltaOK' /\ MouseOK'
  BY <1>2, FlagsStep, ViewsStep, EventsStep, CountsStep
<1> QED BY <1>1, <1>3 DEF IInv

LEMMA Invariance == Spec => []IInv
BY InitHolds, NextKeeps, PTL DEF Spec

(* Angles stay within the limits of the two cameras, and every variable    *)
(* keeps its type (editorcamera.cpp:119-168, walkercamera.cpp:46-65).      *)
THEOREM TypeCorrect == Spec => []TypeOK
<1>1. IInv => TypeOK
  BY TypeFromParts
<1> QED BY <1>1, Invariance, PTL

(* For any distances and steps the figure heads for the last click, with   *)
(* the right animation, or stands (editorcamera.cpp:93-108, walker.cpp).   *)
THEOREM AlwaysHeadsForLastClick == Spec => []HeadsForLastClick
<1>1. IInv => HeadsForLastClick
  BY DEF IInv, WalkOK
<1> QED BY <1>1, Invariance, PTL

(* Whatever keys and buttons are pressed and let go, and wherever the      *)
(* focus is, the camera does what is held and what was let go unheard      *)
(* (editorcamera.cpp:50-117).                                              *)
THEOREM InputsAlwaysAsHeld == Spec => []InputsAsHeld
<1>1. IInv => InputsAsHeld
  BY DEF IInv
<1> QED BY <1>1, Invariance, PTL

----------------------------------------------------------------------------
(* The yaw of a camera that has turned to the right, the yaw of the free   *)
(* camera that looks as the walker's does, and where the view may be.      *)
YawAt(turn) == (halfTurn - turn) % fullTurn
Facing == (orbit.yaw + halfTurn) % fullTurn
Turns == -moved.left..moved.right
Inclines == (-minPitch - moved.down)..(-minPitch + moved.up)

LEMMA YawMoves ==
  ASSUME NEW turn \in Int, NEW x \in Int
  PROVE  (YawAt(turn) - x) % fullTurn = YawAt(turn + x)
BY DEF YawAt, fullTurn, halfTurn

LEMMA TurnAround ==
  ASSUME NEW yaw \in Yaws
  PROVE  (((yaw + halfTurn) % fullTurn) + halfTurn) % fullTurn = yaw
BY DEF Yaws, fullTurn, halfTurn

LEMMA OrbitYawMoves ==
  ASSUME NEW yaw \in Yaws, NEW x \in Int
  PROVE  (((yaw - x) % fullTurn) + halfTurn) % fullTurn
           = (((yaw + halfTurn) % fullTurn) - x) % fullTurn
BY DEF Yaws, fullTurn, halfTurn

(* The camera that is turned, the movement it has not used yet counted,    *)
(* and the free camera, which is used in walker mode without a campaign.   *)
Ahead == IF m_walkerMode THEN Facing ELSE m_yaw
Incline == IF m_walkerMode THEN -orbit.pitch ELSE m_pitch
YawInv == /\ \E turn \in Turns : m_yaw = YawAt(turn)
          /\ \E turn \in Turns : Ahead = YawAt(turn) /\ turn + m_mouseDelta[1] \in Turns
PitchInv == /\ m_pitch \in Inclines /\ Incline \in Inclines
            /\ Incline - m_mouseDelta[2] \in Inclines
            /\ -minPitch - m_mouseDelta[2] \in Inclines
TurnInv == YawInv /\ PitchInv

LEMMA TurnKept ==
  ASSUME TurnInv, UNCHANGED <<m_walkerMode, m_yaw, m_pitch, orbit.yaw, orbit.pitch,
                              m_mouseDelta, moved>>
  PROVE  TurnInv'
BY DEF TurnInv, YawInv, PitchInv, Ahead, Incline, Facing, Turns, Inclines

LEMMA TurnTypes ==
  ASSUME IInv
  PROVE  /\ m_yaw \in Yaws /\ orbit.yaw \in Yaws /\ Facing \in Yaws
         /\ m_pitch \in -maxPitch..maxPitch /\ orbit.pitch \in minPitch..maxPitch
         /\ m_mouseDelta[1] \in Int /\ m_mouseDelta[2] \in Int
         /\ moved.left \in Nat /\ moved.right \in Nat
         /\ moved.up \in Nat /\ moved.down \in Nat
<1>1. /\ m_yaw \in Yaws /\ orbit.yaw \in Yaws
      /\ m_pitch \in -maxPitch..maxPitch /\ orbit.pitch \in minPitch..maxPitch
      /\ m_mouseDelta[1] \in Int /\ m_mouseDelta[2] \in Int
      /\ moved.left \in Nat /\ moved.right \in Nat
      /\ moved.up \in Nat /\ moved.down \in Nat
  BY CameraAssumption DEF IInv, Views, Pitches, DeltaOK, Counts, Extent
<1>2. Facing \in Yaws
  BY <1>1 DEF Facing, Yaws, fullTurn, halfTurn
<1> QED BY <1>1, <1>2

(* A frame: the camera in use is where it was expected, or nearer to the   *)
(* first direction where a limit of the pitch has held it.                 *)
LEMMA FrameYaw ==
  ASSUME IInv, TurnInv, NEW step, update(step)
  PROVE  YawInv'
<1>1. m_mouseDelta'[1] = 0 /\ moved' = moved /\ m_walkerMode' = m_walkerMode
  BY DEF update, DeltaUsed, mouseVars
<1>2. Turns' = Turns /\ Turns \subseteq Int
  BY <1>1, TurnTypes DEF Turns
<1>3. PICK turn \in Turns : Ahead = YawAt(turn) /\ turn + m_mouseDelta[1] \in Turns
  BY DEF TurnInv, YawInv
<1>4. PICK free \in Turns : m_yaw = YawAt(free)
  BY DEF TurnInv, YawInv
<1>5. turn + 0 = turn /\ turn + m_mouseDelta[1] + 0 = turn + m_mouseDelta[1]
  BY <1>2, TurnTypes
<1>6. CASE UNCHANGED viewVars
  <2>1. Ahead' = Ahead /\ m_yaw' = m_yaw
    BY <1>1, <1>6 DEF Ahead, Facing, viewVars
  <2> QED BY <1>1, <1>2, <1>3, <1>4, <1>5, <2>1 DEF YawInv, YawAt
<1>7. CASE m_rotation /\ m_walkerMode
  <2>1. orbit'.yaw = (orbit.yaw - m_mouseDelta[1]) % fullTurn /\ m_yaw' = m_yaw
    BY <1>7 DEF update, rotate, setOrientation, IInv, Views
  <2>2. Facing' = (Facing - m_mouseDelta[1]) % fullTurn
    BY <2>1, OrbitYawMoves, TurnTypes DEF Facing
  <2>3. Ahead' = YawAt(turn + m_mouseDelta[1])
    BY <1>1, <1>2, <1>3, <1>7, <2>2, YawMoves, TurnTypes DEF Ahead
  <2> QED BY <1>1, <1>2, <1>3, <1>4, <1>5, <2>1, <2>3 DEF YawInv, YawAt
<1>8. CASE m_rotation /\ ~m_walkerMode
  <2>1. m_yaw' = (m_yaw - m_mouseDelta[1]) % fullTurn
    BY <1>8 DEF update, rotate
  <2>2. m_yaw' = YawAt(turn + m_mouseDelta[1]) /\ Ahead' = m_yaw'
    BY <1>1, <1>2, <1>3, <1>8, <2>1, YawMoves, TurnTypes DEF Ahead
  <2> QED BY <1>1, <1>2, <1>3, <1>5, <2>2 DEF YawInv, YawAt
<1> QED BY <1>6, <1>7, <1>8 DEF update, rotate

LEMMA FramePitch ==
  ASSUME IInv, TurnInv, NEW step, update(step)
  PROVE  PitchInv'
<1>1. m_mouseDelta'[2] = 0 /\ moved' = moved /\ m_walkerMode' = m_walkerMode
  BY DEF update, DeltaUsed, mouseVars
<1>2. Inclines' = Inclines /\ -minPitch \in Inclines /\ Inclines \subseteq Int
  BY <1>1, TurnTypes DEF Inclines, minPitch
<1>3. SUFFICES m_pitch' \in Inclines /\ Incline' \in Inclines
  BY <1>1, <1>2 DEF PitchInv, minPitch
<1>4. CASE UNCHANGED viewVars
  BY <1>1, <1>4 DEF TurnInv, PitchInv, Incline, viewVars
<1>5. CASE m_rotation /\ m_walkerMode
  <2>1. /\ orbit'.pitch = Clamp(orbit.pitch + m_mouseDelta[2], minPitch, maxPitch)
        /\ m_pitch' = m_pitch
    BY <1>5 DEF update, rotate, setOrientation, IInv, Views
  <2>2. -orbit.pitch - m_mouseDelta[2] \in Inclines /\ m_pitch \in Inclines
    BY <1>5 DEF TurnInv, PitchInv, Incline
  <2>3. -orbit'.pitch \in Inclines
    BY <2>1, <2>2, TurnTypes, CameraAssumption DEF Clamp, Inclines, minPitch, maxPitch
  <2> QED BY <1>1, <1>5, <2>1, <2>2, <2>3 DEF Incline
<1>6. CASE m_rotation /\ ~m_walkerMode
  <2>1. m_pitch' = Clamp(m_pitch - m_mouseDelta[2], -maxPitch, maxPitch)
    BY <1>6 DEF update, rotate
  <2>2. m_pitch - m_mouseDelta[2] \in Inclines
    BY <1>6 DEF TurnInv, PitchInv, Incline
  <2>3. m_pitch' \in Inclines
    BY <2>1, <2>2, TurnTypes DEF Clamp, Inclines, minPitch, maxPitch
  <2> QED BY <1>1, <1>6, <2>3 DEF Incline
<1> QED BY <1>4, <1>5, <1>6 DEF update, rotate

(* A change of the mode hands the direction over to the other camera; the  *)
(* limits of the walker's pitch move it towards the first direction.       *)
LEMMA ModeYaw ==
  ASSUME IInv, TurnInv, setWalkerMode
  PROVE  YawInv'
<1>1. UNCHANGED <<moved, m_mouseDelta, Turns>> /\ m_walkerMode' = ~m_walkerMode
  BY DEF setWalkerMode, mouseVars, Turns
<1>2. Ahead' = Ahead /\ m_yaw' = Ahead
  <2>1. CASE m_walkerMode
    BY <1>1, <2>1 DEF setWalkerMode, Ahead, Facing
  <2>2. CASE ~m_walkerMode
    <3>1. m_yaw' = m_yaw /\ orbit'.yaw = (m_yaw + halfTurn) % fullTurn
      BY <2>2 DEF setWalkerMode, setOrientation, IInv, Views
    <3> QED BY <1>1, <2>2, <3>1, TurnAround, TurnTypes DEF Ahead, Facing
  <2> QED BY <2>1, <2>2
<1> QED BY <1>1, <1>2 DEF TurnInv, YawInv, YawAt

LEMMA ModePitch ==
  ASSUME IInv, TurnInv, setWalkerMode
  PROVE  PitchInv'
<1>1. UNCHANGED <<moved, m_mouseDelta, Inclines>> /\ m_walkerMode' = ~m_walkerMode
  BY DEF setWalkerMode, mouseVars, Inclines
<1>2. CASE m_walkerMode
  BY <1>1, <1>2 DEF setWalkerMode, FreePitch, TurnInv, PitchInv, Incline
<1>3. CASE ~m_walkerMode
  <2>1. m_pitch' = m_pitch /\ orbit'.pitch = Clamp(-m_pitch, minPitch, maxPitch)
    BY <1>3 DEF setWalkerMode, setOrientation, IInv, Views
  <2>2. /\ m_pitch \in Inclines /\ m_pitch - m_mouseDelta[2] \in Inclines
        /\ -minPitch - m_mouseDelta[2] \in Inclines
    BY <1>3 DEF TurnInv, PitchInv, Incline
  <2>3. -orbit'.pitch \in {m_pitch, -minPitch}
    BY <2>1, TurnTypes DEF Clamp, minPitch, maxPitch
  <2>4. -minPitch \in Inclines
    BY TurnTypes DEF Inclines, minPitch
  <2> QED BY <1>1, <1>3, <2>1, <2>2, <2>3, <2>4 DEF PitchInv, Incline
<1> QED BY <1>2, <1>3

LEMMA TurnMouse ==
  ASSUME IInv, TurnInv, NEW move \in Motions, viewUpdate(move)
  PROVE  TurnInv'
<1>1. /\ moved'.left - moved.left \in Nat /\ moved'.right - moved.right \in Nat
      /\ moved'.up - moved.up \in Nat /\ moved'.down - moved.down \in Nat
      /\ m_mouseDelta'[1] \in (moved.left - moved'.left)..(moved'.right - moved.right)
      /\ m_mouseDelta'[2] \in (moved.up - moved'.up)..(moved'.down - moved.down)
      /\ moved'.left \in Int /\ moved'.right \in Int
      /\ moved'.up \in Int /\ moved'.down \in Int
  BY MouseMoves, CameraAssumption DEF IInv, Extent
<1>2. /\ m_yaw' = m_yaw /\ Ahead' = Ahead /\ m_pitch' = m_pitch /\ Incline' = Incline
  BY DEF viewUpdate, viewVars, Ahead, Facing, Incline
<1>3. \A turn \in Turns : turn \in Turns' /\ turn + m_mouseDelta'[1] \in Turns'
  BY <1>1, TurnTypes DEF Turns
<1>4. YawInv'
  BY <1>2, <1>3 DEF TurnInv, YawInv, YawAt
<1>5. \A pitch \in Inclines : pitch \in Inclines' /\ pitch - m_mouseDelta'[2] \in Inclines'
  BY <1>1, TurnTypes DEF Inclines, minPitch
<1>6. -minPitch \in Inclines
  BY TurnTypes DEF Inclines, minPitch
<1>7. PitchInv'
  BY <1>2, <1>5, <1>6 DEF TurnInv, PitchInv
<1> QED BY <1>4, <1>7 DEF TurnInv

LEMMA TurnStep == IInv /\ TurnInv /\ [Next]_vars => TurnInv'
<1> SUFFICES ASSUME IInv, TurnInv, [Next]_vars PROVE TurnInv'
  OBVIOUS
<1>1. CASE \E step \in Steps : update(step)
  BY <1>1, FrameYaw, FramePitch DEF TurnInv
<1>2. CASE setWalkerMode
  BY <1>2, ModeYaw, ModePitch DEF TurnInv
<1>3. CASE \E move \in Motions : viewUpdate(move)
  BY <1>3, TurnMouse
<1>4. CASE Zoom
  <2>1. orbit'.yaw = orbit.yaw /\ orbit'.pitch = orbit.pitch
    BY <1>4 DEF Zoom, addDistance, IInv, Views
  <2> QED BY <1>4, <2>1, TurnKept DEF Zoom, mouseVars
<1>5. CASE UNCHANGED <<m_walkerMode, viewVars, m_mouseDelta, moved>>
  BY <1>5, TurnKept DEF viewVars
<1> QED
  BY <1>1, <1>2, <1>3, <1>4, <1>5
  DEF Next, KeyPressed, KeyReleased, mousePress, mouseRelease, FocusChanges, frameStarted,
      Open, vars, mouseVars

(* For movements in any direction, any size of the widget and any order of *)
(* timer, frames and changes of the mode, the view is turned from its      *)
(* first direction by no more than the mouse has moved to that side, up or *)
(* down with a button down: no movement is used twice, and putting the     *)
(* cursor back is none (ogrebase.cpp:136-177, editorcamera.cpp:119-168).   *)
THEOREM NeverTurnsFurther == Spec => []TurnsNoFurther
<1>1. Init /\ IInv => TurnInv
  <2> SUFFICES ASSUME Init, IInv PROVE TurnInv
    OBVIOUS
  <2>1. /\ m_yaw = YawAt(0) /\ Ahead = YawAt(0) /\ 0 + m_mouseDelta[1] = 0
        /\ m_pitch = -minPitch /\ Incline = -minPitch /\ -minPitch - m_mouseDelta[2] = -minPitch
    BY DEF Init, YawAt, Ahead, Facing, Incline, fullTurn, halfTurn, minPitch
  <2>2. 0 \in Turns /\ -minPitch \in Inclines
    BY TurnTypes DEF Turns, Inclines, minPitch
  <2> QED BY <2>1, <2>2 DEF TurnInv, YawInv, PitchInv
<1>2. IInv /\ TurnInv => TurnsNoFurther
  <2> SUFFICES ASSUME IInv, TurnInv PROVE TurnsNoFurther
    OBVIOUS
  <2>1. /\ View[1] = IF m_walkerMode /\ document THEN Incline ELSE m_pitch
        /\ View[2] = IF m_walkerMode /\ document THEN Ahead ELSE m_yaw
    BY DEF View, Ahead, Facing, Incline
  <2>2. \E turn \in Turns : View[2] = YawAt(turn)
    BY <2>1 DEF TurnInv, YawInv
  <2>3. View[1] \in Inclines
    BY <2>1 DEF TurnInv, PitchInv
  <2> QED BY <2>2, <2>3 DEF TurnsNoFurther, Turns, Inclines, YawAt
<1>3. Spec => []TurnInv
  BY <1>1, InitHolds, TurnStep, Invariance, PTL DEF Spec
<1> QED BY <1>2, <1>3, Invariance, PTL
==============================================================================
