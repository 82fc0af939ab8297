------------------------- MODULE TerrainTiles_proofs -------------------------
(***************************************************************************)
(* For any tiles, layers, files, strokes, commands and nested saves: the   *)
(* types of TerrainTiles, that a tile save leaves out is saved, and that   *)
(* the undo stack accounts for what strokes have changed.                  *)
(***************************************************************************)
EXTENDS TerrainTiles, DataFacts, FiniteSetTheorems

(* Contents that may be absent, values that may be absent, commands.       *)
Contents == {{}} \cup {{g} : g \in [Channels -> Int]}
Optional == {{}} \cup {{n} : n \in Int}
Kinds == BlendLayers \cup {Height}
Commands == [channel : Kinds, delta : [Tiles -> Optional],
             add : SUBSET Tiles, remove : SUBSET Tiles]

TilesOK == /\ definedSlots \subseteq Tiles /\ flattened \subseteq Tiles
           /\ terrain \in [Tiles -> Contents]
           /\ \A t \in Tiles : file[t] \in Contents /\ tmpfile[t] \in Contents
EditedOK == m_editedTiles \in [Tiles -> {"clean", "edited", "unpaged"}]
StrokeOK == before \in [Tiles -> Optional] /\ stroke \in {{}} \cup {{c} : c \in Kinds}
CommandsOK == stack \in Seq(Commands) /\ index \in 0..Len(stack)
FlagsOK == waiting \in 0..MaxWaiting /\ {m_enabled, running, mixed} \subseteq BOOLEAN

(* A stroke enters a tile in m_editedTiles when it reaches it first, and   *)
(* not again: every tile it has touched is in the list as long as it runs. *)
TouchedOK == \A t \in Tiles : Touched(t) => stroke # {} /\ m_editedTiles[t] # "clean"

SavedOK == \A t \in Tiles :
  Loaded(t) /\ m_editedTiles[t] = "clean" => terrain[t] = define(t) \/ t \in flattened

Types == TilesOK /\ EditedOK /\ StrokeOK /\ CommandsOK /\ FlagsOK
IInv == Types /\ TouchedOK /\ SavedOK

----------------------------------------------------------------------------
(* Contents *)

LEMMA ContentsOfOne == \A g \in [Channels -> Int] : {g} \in Contents
BY DEF Contents

LEMMA FlatIsTile == {Flat} \in Contents
<1>1. Flat \in [Channels -> Int]
  BY DEF Flat
<1> QED BY <1>1, ContentsOfOne

LEMMA DefineIsTile ==
  ASSUME TilesOK, NEW t \in Tiles
  PROVE  define(t) \in Contents /\ define(t) # {}
BY FlatIsTile DEF TilesOK, define

(* A tile of contents keeps being one when each of its values is changed.  *)
LEMMA TileOfContents == \A f \in Contents : f = {} \/ \E g \in [Channels -> Int] : f = {g}
BY DEF Contents

----------------------------------------------------------------------------
(* What undo and redo do to a tile. *)

LEMMA AddedIsInt ==
  ASSUME NEW command \in Commands, NEW c, NEW t \in Tiles
  PROVE  /\ AddedBy(command, c, t) \in Int
         /\ t \notin Changed(command) => AddedBy(command, c, t) = 0
<1>1. command.delta[t] \in Optional
  BY DEF Commands
<1>2. CASE command.delta[t] = {}
  BY <1>2 DEF AddedBy
<1>3. CASE command.delta[t] # {}
  <2>1. PICK n \in Int : command.delta[t] = {n}
    BY <1>1, <1>3 DEF Optional
  <2>2. (CHOOSE d \in command.delta[t] : TRUE) = n
    BY <2>1
  <2>3. t \in Changed(command)
    BY <1>3 DEF Changed
  <2>4. AddedBy(command, c, t) = IF command.channel # c THEN 0 ELSE n
    BY <1>3, <2>2 DEF AddedBy
  <2> QED BY <2>3, <2>4
<1> QED BY <1>2, <1>3

ChangedTile(f, command, t, sign) ==
  {[c \in Channels |-> g[c] + sign * AddedBy(command, c, t)] : g \in f}

LEMMA AppliedTile ==
  ASSUME NEW f \in Contents, NEW command \in Commands, NEW t \in Tiles, NEW sign \in {1, -1}
  PROVE  /\ ChangedTile(f, command, t, sign) \in Contents
         /\ t \notin Changed(command) => ChangedTile(f, command, t, sign) = f
<1>1. CASE f = {}
  BY <1>1 DEF Contents, ChangedTile
<1>2. CASE f # {}
  <2>1. PICK g \in [Channels -> Int] : f = {g}
    BY <1>2, TileOfContents
  <2> DEFINE k == [c \in Channels |-> g[c] + sign * AddedBy(command, c, t)]
  <2>2. ChangedTile(f, command, t, sign) = {k}
    BY <2>1 DEF ChangedTile
  <2>3. \A c \in Channels : g[c] + sign * AddedBy(command, c, t) \in Int
    <3>1. \A c : AddedBy(command, c, t) \in Int
      BY AddedIsInt
    <3>2. \A c : sign * AddedBy(command, c, t) \in Int
      BY <3>1
    <3> QED BY <3>2
  <2>4. k \in [Channels -> Int]
    BY <2>3
  <2>5. ASSUME t \notin Changed(command) PROVE k = g
    <3>1. \A c : AddedBy(command, c, t) = 0
      BY <2>5, AddedIsInt
    <3>2. \A c \in Channels : g[c] + sign * AddedBy(command, c, t) = g[c]
      BY <3>1
    <3> QED BY <3>2
  <2> HIDE DEF k
  <2>6. {k} \in Contents
    BY <2>4, ContentsOfOne
  <2> QED BY <2>1, <2>2, <2>5, <2>6
<1> QED BY <1>1, <1>2

----------------------------------------------------------------------------
(* What a turn of the brush does to a tile. *)

LEMMA PaintedIsInt ==
  ASSUME NEW c \in Channels, NEW v \in Int, NEW d \in Int
  PROVE  Painted(c, v, d) \in Int
<1>1. \A a, b \in Int : Max({a, b}) \in Int
  <2> SUFFICES ASSUME NEW a \in Int, NEW b \in Int PROVE Max({a, b}) \in Int
    OBVIOUS
  <2>1. \E x \in {a, b} : \A y \in {a, b} : x >= y
    OBVIOUS
  <2> QED BY <2>1 DEF Max
<1>2. \A a, b \in Int : Min({a, b}) \in Int
  <2> SUFFICES ASSUME NEW a \in Int, NEW b \in Int PROVE Min({a, b}) \in Int
    OBVIOUS
  <2>1. \E x \in {a, b} : \A y \in {a, b} : x <= y
    OBVIOUS
  <2> QED BY <2>1 DEF Min
<1>3. v + d \in Int /\ Opaque \in Int
  BY TilesAssumption
<1>4. Min({Opaque, v + d}) \in Int
  BY <1>2, <1>3
<1>5. 0 \in Int
  OBVIOUS
<1>6. Max({0, Min({Opaque, v + d})}) \in Int
  BY <1>1, <1>4, <1>5
<1> QED BY <1>3, <1>6 DEF Painted

LEMMA PaintedTile ==
  ASSUME NEW f \in Contents, NEW c \in Channels, NEW d \in Int
  PROVE  {[g EXCEPT ![c] = Painted(c, @, d)] : g \in f} \in Contents
<1>1. CASE f = {}
  BY <1>1 DEF Contents
<1>2. CASE f # {}
  <2>1. PICK g \in [Channels -> Int] : f = {g}
    BY <1>2, TileOfContents
  <2>2. Painted(c, g[c], d) \in Int
    BY PaintedIsInt
  <2>3. [g EXCEPT ![c] = Painted(c, g[c], d)] \in [Channels -> Int]
    BY <2>2
  <2>4. {[x EXCEPT ![c] = Painted(c, @, d)] : x \in f} = {[g EXCEPT ![c] = Painted(c, g[c], d)]}
    BY <2>1
  <2> QED BY <2>3, <2>4, ContentsOfOne
<1> QED BY <1>1, <1>2

LEMMA ValuesAreOptional ==
  ASSUME TilesOK, StrokeOK, NEW t \in Tiles
  PROVE  Values(t) \in Optional
<1>1. CASE terrain[t] = {} \/ stroke \cap Channels = {}
  BY <1>1 DEF Values, Optional
<1>2. CASE terrain[t] # {} /\ stroke \cap Channels # {}
  <2>1. PICK g \in [Channels -> Int] : terrain[t] = {g}
    BY <1>2, TileOfContents DEF TilesOK
  <2>2. PICK c \in Channels : stroke \cap Channels = {c}
    BY <1>2 DEF StrokeOK
  <2>3. Values(t) = {g[c]}
    BY <2>1, <2>2 DEF Values
  <2> QED BY <2>3 DEF Optional
<1> QED BY <1>1, <1>2

LEMMA DeltaIsOptional ==
  ASSUME TilesOK, StrokeOK
  PROVE  Delta \in [Tiles -> Optional]
<1> SUFFICES ASSUME NEW t \in Tiles
             PROVE  {new - old : new \in Values(t), old \in before[t]} \in Optional
  BY DEF Delta
<1>1. Values(t) \in Optional /\ before[t] \in Optional
  BY ValuesAreOptional DEF StrokeOK
<1>2. CASE Values(t) = {} \/ before[t] = {}
  BY <1>2 DEF Optional
<1>3. CASE Values(t) # {} /\ before[t] # {}
  <2>1. PICK m \in Int, n \in Int : Values(t) = {m} /\ before[t] = {n}
    BY <1>1, <1>3 DEF Optional
  <2>2. {new - old : new \in Values(t), old \in before[t]} = {m - n}
    BY <2>1
  <2> QED BY <2>2 DEF Optional
<1> QED BY <1>2, <1>3

----------------------------------------------------------------------------
(* What the end of a stroke and a command do to the stack. *)

LEMMA PushKeepsCommands ==
  ASSUME CommandsOK, NEW command \in Commands
  PROVE  /\ Append(SubSeq(stack, 1, index), command) \in Seq(Commands)
         /\ index + 1 \in 0..Len(Append(SubSeq(stack, 1, index), command))
<1> DEFINE kept == SubSeq(stack, 1, index)
<1>1. kept \in Seq(Commands) /\ Len(kept) = index
  BY SubSeqProperties DEF CommandsOK
<1>2. index \in Nat
  BY DEF CommandsOK
<1> HIDE DEF kept
<1>3. Append(kept, command) \in Seq(Commands) /\ Len(Append(kept, command)) = index + 1
  BY <1>1, AppendProperties
<1> QED BY <1>2, <1>3 DEF kept

LEMMA EndStrokeTypes ==
  ASSUME Types, EndStroke
  PROVE  CommandsOK' /\ before' = NoTile
<1>1. CASE stroke # {}
  <2>1. PICK c \in stroke : stack' = Append(SubSeq(stack, 1, index), Edit(c, Delta))
    BY <1>1 DEF EndStroke, PushStroke
  <2>2. c \in Kinds
    BY <2>1 DEF Types, StrokeOK
  <2>3. Edit(c, Delta) \in Commands
    BY <2>2, DeltaIsOptional DEF Types, Edit, Commands
  <2>4. index' = index + 1 /\ before' = NoTile
    BY <1>1 DEF EndStroke, PushStroke
  <2> QED BY <2>1, <2>3, <2>4, PushKeepsCommands DEF Types, CommandsOK
<1>2. CASE stroke = {}
  BY <1>2 DEF EndStroke, PushStroke, Types, CommandsOK
<1> QED BY <1>1, <1>2

LEMMA NothingTouched ==
  ASSUME before' = NoTile
  PROVE  /\ before' \in [Tiles -> Optional]
         /\ \A t \in Tiles : before'[t] = {}
BY DEF NoTile, Optional

----------------------------------------------------------------------------
(* What a slot command does. *)

LEMMA ApplySlots ==
  ASSUME IInv, NEW A \in SUBSET Tiles, NEW R \in SUBSET Tiles, NEW n, applySlots(A, R, n),
         UNCHANGED <<file, tmpfile>>
  PROVE  TilesOK' /\ mixed' \in BOOLEAN /\ SavedOK' /\ UNCHANGED m_editedTiles
<1> DEFINE new == {t \in A : ~Loaded(t)}
<1>1. /\ definedSlots' = (definedSlots \cup A) \ R
      /\ terrain' = [t \in Tiles |-> IF t \in new THEN {Flat} ELSE terrain[t]]
      /\ flattened' = flattened \cup {t \in new : define(t) # {Flat}}
      /\ mixed' = (mixed \/ \E t \in new : Touched(t))
      /\ UNCHANGED m_editedTiles
  BY DEF applySlots
<1>2. new \subseteq Tiles
  OBVIOUS
<1> HIDE DEF new
<1>3. mixed' \in BOOLEAN
  BY <1>1
<1>4. TilesOK'
  BY <1>1, <1>2, FlatIsTile DEF IInv, Types, TilesOK
<1>5. ASSUME NEW t \in Tiles, Loaded(t)', m_editedTiles'[t] = "clean"
      PROVE  terrain'[t] = define(t)' \/ t \in flattened'
  <2>1. define(t)' = define(t)
    BY DEF define
  <2>2. CASE t \in new
    BY <1>1, <2>1, <2>2
  <2>3. CASE t \notin new
    <3>1. terrain'[t] = terrain[t] /\ m_editedTiles[t] = "clean"
      BY <1>1, <1>5, <2>3
    <3>2. Loaded(t)
      BY <1>5, <3>1 DEF Loaded
    <3>3. terrain[t] = define(t) \/ t \in flattened
      BY <1>5, <3>1, <3>2 DEF IInv, SavedOK
    <3> QED BY <1>1, <2>1, <3>1, <3>3
  <2> QED BY <2>2, <2>3
<1> QED BY <1>1, <1>3, <1>4, <1>5 DEF SavedOK

(* The same of undo and redo of a delta.                                   *)
LEMMA ApplyDeltas ==
  ASSUME IInv, NEW command \in Commands, NEW sign \in {1, -1}, applyDeltas(command, sign),
         UNCHANGED <<file, tmpfile>>
  PROVE  /\ TilesOK' /\ mixed' \in BOOLEAN /\ EditedOK' /\ SavedOK'
         /\ \A t \in Tiles : m_editedTiles[t] # "clean" => m_editedTiles'[t] # "clean"
<1>1. /\ terrain' = [t \in Tiles |-> ChangedTile(terrain[t], command, t, sign)]
      /\ m_editedTiles' = setTileModified(m_editedTiles, Changed(command))
      /\ mixed' = (mixed \/ \E t \in Changed(command) : Touched(t))
      /\ UNCHANGED <<definedSlots, flattened>>
  BY DEF applyDeltas, ChangedTile
<1>2. \A t \in Tiles :
        /\ ChangedTile(terrain[t], command, t, sign) \in Contents
        /\ t \notin Changed(command) => ChangedTile(terrain[t], command, t, sign) = terrain[t]
  BY AppliedTile DEF IInv, Types, TilesOK
<1>3. mixed' \in BOOLEAN
  BY <1>1
<1>4. TilesOK'
  BY <1>1, <1>2 DEF IInv, Types, TilesOK
<1>5. EditedOK'
  BY <1>1 DEF IInv, Types, EditedOK, setTileModified
<1>6. \A t \in Tiles : m_editedTiles[t] # "clean" => m_editedTiles'[t] # "clean"
  BY <1>1 DEF setTileModified
<1>7. ASSUME NEW t \in Tiles, Loaded(t)', m_editedTiles'[t] = "clean"
      PROVE  terrain'[t] = define(t)' \/ t \in flattened'
  <2>1. define(t)' = define(t)
    BY DEF define
  <2>2. m_editedTiles[t] = "clean" /\ t \notin Changed(command)
    BY <1>1, <1>7 DEF setTileModified
  <2>3. terrain'[t] = terrain[t]
    BY <1>1, <1>2, <2>2
  <2>4. Loaded(t)
    BY <1>7, <2>3 DEF Loaded
  <2> QED BY <1>1, <2>1, <2>2, <2>3, <2>4 DEF IInv, SavedOK
<1> QED BY <1>3, <1>4, <1>5, <1>6, <1>7 DEF SavedOK

----------------------------------------------------------------------------
(* One lemma for each kind of step. *)

LEMMA InitIInv == Init => IInv
<1> SUFFICES ASSUME Init PROVE IInv
  OBVIOUS
<1>1. PICK disk \in OldDisks :
        definedSlots = disk.slots /\ file = disk.file /\ tmpfile = disk.tmpfile
  BY DEF Init
<1>2. disk.slots \subseteq Tiles
  BY TilesAssumption
<1>3. \A t \in Tiles : IsTile(file[t]) /\ IsTile(tmpfile[t])
  BY <1>1, TilesAssumption
<1>4. \A f : IsTile(f) => f \in Contents
  BY DEF IsTile, Contents
<1>5. TilesOK
  BY <1>1, <1>2, <1>3, <1>4 DEF Init, TilesOK, NoTile, Contents
<1>6. EditedOK
  BY DEF Init, EditedOK
<1>7. StrokeOK
  BY DEF Init, StrokeOK, NoTile, Optional
<1>8. CommandsOK
  <2>1. stack = <<>> /\ index = 0
    BY DEF Init
  <2>2. <<>> \in Seq(Commands) /\ Len(<<>>) = 0
    OBVIOUS
  <2> QED BY <2>1, <2>2 DEF CommandsOK
<1>9. FlagsOK
  <2>1. waiting = 0 /\ m_enabled = TRUE /\ running = TRUE /\ mixed = FALSE
    BY DEF Init
  <2>2. 0 \in 0..MaxWaiting
    BY TilesAssumption
  <2>3. {m_enabled, running, mixed} \subseteq BOOLEAN
    BY <2>1
  <2> QED BY <2>1, <2>2, <2>3 DEF FlagsOK
<1>10. TouchedOK /\ SavedOK
  BY DEF Init, TouchedOK, SavedOK, Touched, Loaded, NoTile
<1> QED BY <1>5, <1>6, <1>7, <1>8, <1>9, <1>10 DEF IInv, Types

LEMMA PagingStep ==
  ASSUME IInv, NEW t \in Tiles, loadPage(t) \/ unloadPage(t)
  PROVE  IInv'
<1>1. CASE loadPage(t)
  <2>1. TilesOK'
    BY <1>1, DefineIsTile DEF IInv, Types, TilesOK, loadPage
  <2>2. EditedOK' /\ StrokeOK' /\ CommandsOK'
    BY <1>1 DEF IInv, Types, EditedOK, StrokeOK, CommandsOK, loadPage, commandVars
  <2>3. FlagsOK'
    BY <1>1 DEF IInv, Types, FlagsOK, loadPage
  <2>4. TouchedOK'
    BY <1>1 DEF IInv, TouchedOK, Touched, loadPage, commandVars
  <2>5. ASSUME NEW u \in Tiles, Loaded(u)', m_editedTiles'[u] = "clean"
        PROVE  terrain'[u] = define(u)' \/ u \in flattened'
    <3>1. \A x : define(x)' = define(x)
      BY <1>1 DEF define, loadPage
    <3>2. /\ terrain' = [terrain EXCEPT ![t] = define(t)]
          /\ UNCHANGED <<m_editedTiles, flattened>>
      BY <1>1 DEF loadPage
    <3>3. terrain \in [Tiles -> Contents]
      BY DEF IInv, Types, TilesOK
    <3>4. CASE u = t
      BY <3>1, <3>2, <3>3, <3>4
    <3>5. CASE u # t
      <4>1. terrain'[u] = terrain[u]
        BY <3>2, <3>3, <3>5
      <4> QED BY <2>5, <3>1, <3>2, <4>1 DEF IInv, SavedOK, Loaded
    <3> QED BY <3>4, <3>5
  <2> QED BY <2>1, <2>2, <2>3, <2>4, <2>5 DEF IInv, Types, SavedOK
<1>2. CASE unloadPage(t)
  <2>1. /\ m_editedTiles' = setTileUnpaged(t)
        /\ terrain' = [terrain EXCEPT ![t] = {}]
        /\ flattened' = flattened \ {t}
        /\ UNCHANGED <<definedSlots, file, tmpfile, stack, index, stroke, before>>
        /\ UNCHANGED <<waiting, m_enabled, running, mixed>>
    BY <1>2 DEF unloadPage, commandVars
  <2>2. TilesOK'
    BY <2>1 DEF IInv, Types, TilesOK, Contents
  <2>3. EditedOK'
    BY <2>1 DEF IInv, Types, EditedOK, setTileUnpaged
  <2>4. StrokeOK' /\ CommandsOK'
    BY <2>1 DEF IInv, Types, StrokeOK, CommandsOK
  <2>5. FlagsOK'
    BY <2>1 DEF IInv, Types, FlagsOK
  <2>6. \A u \in Tiles : m_editedTiles'[u] = "clean" <=> m_editedTiles[u] = "clean"
    BY <2>1 DEF IInv, Types, EditedOK, setTileUnpaged
  <2>7. TouchedOK'
    BY <2>1, <2>6 DEF IInv, TouchedOK, Touched
  <2>8. ASSUME NEW u \in Tiles, Loaded(u)', m_editedTiles'[u] = "clean"
        PROVE  terrain'[u] = define(u)' \/ u \in flattened'
    <3>1. terrain \in [Tiles -> Contents]
      BY DEF IInv, Types, TilesOK
    <3>2. u # t /\ terrain'[u] = terrain[u]
      BY <2>1, <2>8, <3>1 DEF Loaded
    <3>3. define(u)' = define(u)
      BY <2>1 DEF define
    <3> QED BY <2>1, <2>6, <2>8, <3>2, <3>3 DEF IInv, SavedOK, Loaded
  <2> QED BY <2>2, <2>3, <2>4, <2>5, <2>7, <2>8 DEF IInv, Types, SavedOK
<1> QED BY <1>1, <1>2

(* A stroke ends, or another begins, and the document stays as it is.      *)
LEMMA StrokeStep ==
  ASSUME IInv, startStroke \/ stopStroke
  PROVE  IInv'
<1>1. /\ EndStroke
      /\ UNCHANGED <<documentVars, m_enabled, waiting, counters, historyVars>>
      /\ stroke' \in {{}} \cup {{c} : c \in Kinds}
  BY DEF startStroke, stopStroke, newCommand, Kinds
<1>2. CommandsOK' /\ before' = NoTile
  BY <1>1, EndStrokeTypes DEF IInv
<1>3. TilesOK'
  BY <1>1 DEF IInv, Types, TilesOK, documentVars, historyVars
<1>4. EditedOK'
  BY <1>1 DEF IInv, Types, EditedOK, documentVars
<1>5. StrokeOK'
  BY <1>1, <1>2, NothingTouched DEF StrokeOK
<1>6. running' \in BOOLEAN
  BY DEF startStroke, stopStroke, IInv, Types, FlagsOK
<1>7. FlagsOK'
  BY <1>1, <1>6 DEF IInv, Types, FlagsOK, historyVars
<1>8. TouchedOK'
  BY <1>2, NothingTouched DEF TouchedOK, Touched
<1>9. SavedOK'
  BY <1>1 DEF IInv, SavedOK, Loaded, define, documentVars, historyVars
<1> QED BY <1>2, <1>3, <1>4, <1>5, <1>7, <1>8, <1>9 DEF IInv, Types

(* A turn of the brush: whatever it changes is in the list of edited tiles *)
(* afterwards, since a tile the stroke has touched before still is.        *)
LEMMA BrushStep ==
  ASSUME IInv, update
  PROVE  IInv'
<1> USE DEF IInv, Types
<1>1. UNCHANGED <<definedSlots, file, tmpfile, stack, index, stroke, m_enabled, waiting>>
      /\ UNCHANGED <<mixed, flattened>>
  BY DEF update, historyVars
<1>2. CommandsOK'
  BY <1>1 DEF CommandsOK
<1>3. \A t : define(t)' = define(t)
  BY <1>1 DEF define
<1>4. PICK S \in SUBSET {t \in Tiles : Loaded(t)}, d \in Strengths, c \in stroke :
        IF c \in Channels
        THEN /\ before' = monitorTerrain(S)
             /\ m_editedTiles' = setTileModified(m_editedTiles, {t \in S : ~Touched(t)})
             /\ terrain' = [t \in Tiles |->
                  IF t \in S THEN {[g EXCEPT ![c] = Painted(c, @, d)] : g \in terrain[t]}
                  ELSE terrain[t]]
             /\ UNCHANGED running
        ELSE running' = FALSE /\ UNCHANGED <<before, m_editedTiles, terrain>>
  BY DEF update
<1>5. CASE c \notin Channels
  <2>1. running' = FALSE /\ UNCHANGED <<before, m_editedTiles, terrain>>
    BY <1>4, <1>5
  <2>2. TilesOK' /\ EditedOK' /\ StrokeOK'
    BY <1>1, <2>1 DEF TilesOK, EditedOK, StrokeOK
  <2>3. FlagsOK'
    BY <1>1, <2>1 DEF FlagsOK
  <2>4. TouchedOK'
    BY <1>1, <2>1 DEF TouchedOK, Touched
  <2>5. SavedOK'
    BY <1>1, <1>3, <2>1 DEF SavedOK, Loaded
  <2> QED BY <1>2, <2>2, <2>3, <2>4, <2>5
<1>6. CASE c \in Channels
  <2>1. /\ before' = monitorTerrain(S)
        /\ m_editedTiles' = setTileModified(m_editedTiles, {t \in S : ~Touched(t)})
        /\ UNCHANGED running
    BY <1>4, <1>6
  <2>2. \A t \in Tiles :
          terrain'[t] = IF t \in S THEN {[g EXCEPT ![c] = Painted(c, @, d)] : g \in terrain[t]}
                        ELSE terrain[t]
    BY <1>4, <1>6
  <2>3. TilesOK'
    <3>1. ASSUME NEW t \in Tiles PROVE terrain'[t] \in Contents
      <4>1. terrain[t] \in Contents /\ d \in Int
        BY TilesAssumption DEF TilesOK
      <4>2. {[g EXCEPT ![c] = Painted(c, @, d)] : g \in terrain[t]} \in Contents
        BY <1>6, <4>1, PaintedTile
      <4> QED BY <2>2, <4>1, <4>2
    <3>2. terrain' = [t \in Tiles |-> terrain'[t]]
      BY <1>4, <1>6
    <3> QED BY <1>1, <3>1, <3>2 DEF TilesOK
  <2>4. EditedOK'
    BY <2>1 DEF EditedOK, setTileModified
  <2>5. StrokeOK'
    <3>1. \A t \in Tiles : Values(t) \in Optional
      BY ValuesAreOptional
    <3> QED BY <1>1, <2>1, <3>1 DEF StrokeOK, monitorTerrain
  <2>6. FlagsOK'
    BY <1>1, <2>1 DEF FlagsOK
  <2>7. \A t \in Tiles : t \in S \/ m_editedTiles[t] # "clean" => m_editedTiles'[t] # "clean"
    BY <2>1 DEF setTileModified, TouchedOK
  <2>8. ASSUME NEW t \in Tiles, Touched(t)'
        PROVE  (stroke # {})' /\ m_editedTiles'[t] # "clean"
    <3>1. t \in S \/ Touched(t)
      BY <2>1, <2>8 DEF monitorTerrain, Touched
    <3> QED BY <1>1, <1>4, <2>7, <3>1 DEF TouchedOK
  <2>9. ASSUME NEW t \in Tiles, Loaded(t)', m_editedTiles'[t] = "clean"
        PROVE  terrain'[t] = define(t)' \/ t \in flattened'
    <3>1. t \notin S /\ m_editedTiles[t] = "clean"
      BY <2>7, <2>9
    <3>2. terrain'[t] = terrain[t]
      BY <2>2, <3>1
    <3> QED BY <1>1, <1>3, <2>9, <3>1, <3>2 DEF SavedOK, Loaded
  <2>10. TouchedOK'
    BY <2>8 DEF TouchedOK
  <2>11. SavedOK'
    BY <2>9 DEF SavedOK
  <2> QED BY <1>2, <2>3, <2>4, <2>5, <2>6, <2>10, <2>11
<1> QED BY <1>5, <1>6

LEMMA HistoryStep ==
  ASSUME IInv, undo \/ redo
  PROVE  IInv'
<1>1. UNCHANGED <<file, tmpfile, stack, stroke, before, m_enabled, waiting>>
  BY DEF undo, redo
<1>2. index' \in 0..Len(stack) /\ running' \in BOOLEAN
  <2>1. index \in 0..Len(stack) /\ Len(stack) \in Nat
    BY DEF IInv, Types, CommandsOK
  <2>2. running' = FALSE \/ running' = running
    BY DEF undo, redo, UndoRedoFails
  <2>3. \/ index' = index
        \/ index > 0 /\ index' = index - 1
        \/ index < Len(stack) /\ index' = index + 1
    BY DEF undo, redo, UndoRedoFails
  <2>4. running \in BOOLEAN
    BY DEF IInv, Types, FlagsOK
  <2>5. index' \in 0..Len(stack)
    BY <2>1, <2>3
  <2>6. running' \in BOOLEAN
    BY <2>2, <2>4, Zenon
  <2> QED BY <2>5, <2>6
<1>3. PICK command \in Commands :
        \/ \E A, R \in {command.add, command.remove}, n \in Int : applySlots(A, R, n)
        \/ \E sign \in {1, -1} : applyDeltas(command, sign)
        \/ UndoRedoFails(command)
  <2>1. \A i \in 1..Len(stack) : stack[i] \in Commands
    BY DEF IInv, Types, CommandsOK
  <2>2. CASE undo
    <3>1. index \in 1..Len(stack) /\ index - 1 \in Int
      BY <2>2 DEF undo, IInv, Types, CommandsOK
    <3>2. stack[index] \in Commands
      BY <2>1, <3>1
    <3>3. \/ applySlots(stack[index].remove, stack[index].add, index - 1)
          \/ applyDeltas(stack[index], -1)
          \/ UndoRedoFails(stack[index])
      BY <2>2 DEF undo
    <3> QED BY <3>1, <3>2, <3>3
  <2>3. CASE redo
    <3>1. index + 1 \in 1..Len(stack)
      BY <2>3 DEF redo, IInv, Types, CommandsOK
    <3>2. stack[index + 1] \in Commands
      BY <2>1, <3>1
    <3>3. \/ applySlots(stack[index + 1].add, stack[index + 1].remove, index + 1)
          \/ applyDeltas(stack[index + 1], 1)
          \/ UndoRedoFails(stack[index + 1])
      BY <2>3 DEF redo
    <3> QED BY <3>1, <3>2, <3>3
  <2> QED BY <2>2, <2>3
<1>4. TilesOK' /\ EditedOK' /\ SavedOK' /\ mixed' \in BOOLEAN
      /\ \A t \in Tiles : m_editedTiles[t] # "clean" => m_editedTiles'[t] # "clean"
  <2>1. CASE \E A, R \in {command.add, command.remove}, n \in Int : applySlots(A, R, n)
    <3>1. PICK A \in SUBSET Tiles, R \in SUBSET Tiles, n \in Int : applySlots(A, R, n)
      BY <2>1 DEF Commands
    <3>2. TilesOK' /\ mixed' \in BOOLEAN /\ SavedOK' /\ UNCHANGED m_editedTiles
      BY <1>1, <3>1, ApplySlots
    <3> QED BY <3>2 DEF IInv, Types, EditedOK
  <2>2. CASE \E sign \in {1, -1} : applyDeltas(command, sign)
    BY <1>1, <2>2, ApplyDeltas
  <2>3. CASE UndoRedoFails(command)
    <3>1. UNCHANGED <<definedSlots, terrain, m_editedTiles, mixed, flattened>>
      BY <2>3 DEF UndoRedoFails, documentVars, historyVars
    <3>2. TilesOK' /\ EditedOK'
      BY <1>1, <3>1 DEF IInv, Types, TilesOK, EditedOK
    <3>3. SavedOK'
      BY <1>1, <3>1 DEF IInv, SavedOK, Loaded, define
    <3>4. mixed' \in BOOLEAN
      BY <3>1 DEF IInv, Types, FlagsOK
    <3> QED BY <3>1, <3>2, <3>3, <3>4
  <2> QED BY <1>3, <2>1, <2>2, <2>3
<1>5. StrokeOK' /\ CommandsOK'
  BY <1>1, <1>2 DEF IInv, Types, StrokeOK, CommandsOK
<1>6. FlagsOK'
  BY <1>1, <1>2, <1>4 DEF IInv, Types, FlagsOK
<1>7. TouchedOK'
  BY <1>1, <1>4 DEF IInv, TouchedOK, Touched
<1> QED BY <1>4, <1>5, <1>6, <1>7 DEF IInv, Types

LEMMA ClickStep ==
  ASSUME IInv, NEW t \in Tiles, NEW add \in BOOLEAN, ClickSlot(add, t)
  PROVE  IInv'
<1> DEFINE command == ModifyTerrainSlot(add, t)
<1>1. command \in Commands
  <2>1. NoTile \in [Tiles -> Optional] /\ Height \in Kinds
    BY DEF NoTile, Optional, Kinds
  <2>2. \A B \in {{t}, {}} : B \in SUBSET Tiles
    OBVIOUS
  <2> QED BY <2>1, <2>2 DEF Commands, ModifyTerrainSlot
<1>2. /\ stack' = Append(SubSeq(stack, 1, index), command) /\ index' = index + 1
      /\ applySlots(command.add, command.remove, index)
      /\ UNCHANGED <<file, tmpfile, stroke, before, m_enabled, waiting, running>>
  BY DEF ClickSlot
<1>3. command.add \in SUBSET Tiles /\ command.remove \in SUBSET Tiles
  BY <1>1 DEF Commands
<1> HIDE DEF command
<1>4. CommandsOK'
  BY <1>1, <1>2, PushKeepsCommands DEF IInv, Types, CommandsOK
<1>5. TilesOK' /\ mixed' \in BOOLEAN /\ SavedOK' /\ UNCHANGED m_editedTiles
  BY <1>2, <1>3, ApplySlots
<1>6. EditedOK' /\ StrokeOK'
  BY <1>2, <1>5 DEF IInv, Types, EditedOK, StrokeOK
<1>7. FlagsOK'
  BY <1>2, <1>5 DEF IInv, Types, FlagsOK
<1>8. TouchedOK'
  BY <1>2, <1>5 DEF IInv, TouchedOK, Touched
<1> QED BY <1>4, <1>5, <1>6, <1>7, <1>8 DEF IInv, Types

(* Saving ends the stroke, so that no tile is touched when the list is     *)
(* emptied; each tile in the list that is loaded is then as in its file.   *)
LEMMA SavingStep ==
  ASSUME IInv, save \/ saveTiles
  PROVE  IInv'
<1>1. EndStroke /\ stroke' = {} /\ m_enabled' \in BOOLEAN /\ UNCHANGED <<running, mixed>>
  BY DEF save, saveTiles, initProgress, historyVars
<1>2. CommandsOK' /\ before' = NoTile
  BY <1>1, EndStrokeTypes DEF IInv
<1>3. StrokeOK' /\ TouchedOK'
  BY <1>1, <1>2, NothingTouched DEF StrokeOK, TouchedOK, Touched
<1>4. waiting' \in 0..MaxWaiting
  BY TilesAssumption DEF save, saveTiles, IInv, Types, FlagsOK
<1>5. FlagsOK'
  BY <1>1, <1>4 DEF IInv, Types, FlagsOK
<1>6. CASE save
  <2>1. UNCHANGED <<definedSlots, terrain, file, tmpfile, m_editedTiles, flattened>>
    BY <1>6 DEF save, documentVars, historyVars
  <2>2. TilesOK' /\ EditedOK'
    BY <2>1 DEF IInv, Types, TilesOK, EditedOK
  <2>3. SavedOK'
    BY <2>1 DEF IInv, SavedOK, Loaded, define
  <2> QED BY <1>2, <1>3, <1>5, <2>2, <2>3 DEF IInv, Types
<1>7. CASE saveTiles
  <2>1. /\ m_editedTiles' = [t \in Tiles |-> "clean"]
        /\ flattened' = flattened \ Edited
        /\ UNCHANGED <<definedSlots, terrain>>
    BY <1>7 DEF saveTiles
  <2>2. \A t \in Tiles : t \in Edited => /\ Loaded(t) => file'[t] = terrain[t]
                                         /\ tmpfile'[t] = {}
                                         /\ file'[t] \in {terrain[t], tmpfile[t], file[t]}
    BY <1>7 DEF saveTiles, RemoveTemporary
  <2>3. \A t \in Tiles : t \notin Edited => file'[t] = file[t] /\ tmpfile'[t] = tmpfile[t]
    BY <1>7 DEF saveTiles, RemoveTemporary
  <2>4. \A t \in Tiles : t \in Edited <=> m_editedTiles[t] # "clean"
    BY DEF Edited
  <2>5. ASSUME NEW t \in Tiles PROVE file'[t] \in Contents /\ tmpfile'[t] \in Contents
    <3>1. {} \in Contents
      BY DEF Contents
    <3>2. terrain[t] \in Contents /\ file[t] \in Contents /\ tmpfile[t] \in Contents
      BY DEF IInv, Types, TilesOK
    <3> QED BY <2>2, <2>3, <3>1, <3>2
  <2>6. TilesOK' /\ EditedOK'
    BY <2>1, <2>5 DEF IInv, Types, TilesOK, EditedOK
  <2>7. ASSUME NEW t \in Tiles, Loaded(t)'
        PROVE  terrain'[t] = define(t)' \/ t \in flattened'
    <3>1. terrain'[t] = terrain[t] /\ Loaded(t)
      BY <2>1, <2>7 DEF Loaded
    <3>2. CASE t \in Edited
      <4>1. file'[t] = terrain[t] /\ tmpfile'[t] = {}
        BY <2>2, <3>1, <3>2
      <4>2. define(t)' = terrain[t]
        BY <3>1, <4>1 DEF define, Loaded
      <4> QED BY <3>1, <4>2
    <3>3. CASE t \notin Edited
      <4>1. define(t)' = define(t)
        BY <2>3, <3>3 DEF define
      <4>2. terrain[t] = define(t) \/ t \in flattened
        BY <2>4, <3>1, <3>3 DEF IInv, SavedOK
      <4> QED BY <2>1, <3>1, <3>3, <4>1, <4>2
    <3> QED BY <3>2, <3>3
  <2>8. SavedOK'
    BY <2>7 DEF SavedOK
  <2> QED BY <1>2, <1>3, <1>5, <2>6, <2>8 DEF IInv, Types
<1> QED BY <1>6, <1>7

LEMMA OtherStep ==
  ASSUME IInv, StrokeFails \/ UNCHANGED vars
  PROVE  IInv'
<1>1. /\ UNCHANGED <<definedSlots, terrain, file, tmpfile, m_editedTiles, stack, index, stroke>>
      /\ UNCHANGED <<before, m_enabled, waiting, mixed, flattened>>
      /\ running' \in BOOLEAN
  BY DEF StrokeFails, vars, documentVars, commandVars, historyVars, IInv, Types, FlagsOK
<1>2. TilesOK' /\ EditedOK' /\ StrokeOK' /\ CommandsOK'
  BY <1>1 DEF IInv, Types, TilesOK, EditedOK, StrokeOK, CommandsOK
<1>3. FlagsOK'
  BY <1>1 DEF IInv, Types, FlagsOK
<1>4. TouchedOK' /\ SavedOK'
  BY <1>1 DEF IInv, TouchedOK, Touched, SavedOK, Loaded, define
<1> QED BY <1>2, <1>3, <1>4 DEF IInv, Types

LEMMA NextIInv == IInv /\ [Next]_vars => IInv'
<1> SUFFICES ASSUME IInv, [Next]_vars PROVE IInv'
  OBVIOUS
<1>1. CASE \E t \in Tiles : loadPage(t) \/ unloadPage(t)
  BY <1>1, PagingStep
<1>2. CASE startStroke \/ stopStroke
  BY <1>2, StrokeStep
<1>3. CASE update
  BY <1>3, BrushStep
<1>4. CASE undo \/ redo
  BY <1>4, HistoryStep
<1>5. CASE \E t \in Tiles, add \in BOOLEAN : ClickSlot(add, t)
  BY <1>5, ClickStep
<1>6. CASE save \/ saveTiles
  BY <1>6, SavingStep
<1>7. CASE StrokeFails \/ UNCHANGED vars
  BY <1>7, OtherStep
<1> QED BY <1>1, <1>2, <1>3, <1>4, <1>5, <1>6, <1>7 DEF Next

(* The invariant of the editor's terrain.                                  *)
THEOREM AlwaysIInv == Spec => []IInv
BY InitIInv, NextIInv, PTL DEF Spec

(* Types: contents of tiles, values and commands stay well-formed through  *)
(* strokes, undo, redo, paging and saving, and only a stroke that runs has *)
(* touched tiles.                                                          *)
THEOREM TypeCorrect == Spec => []TypeOK
<1>1. IInv => TypeOK
  <2> SUFFICES ASSUME IInv PROVE TypeOK
    OBVIOUS
  <2>1. \A S : \A f : (f = {} \/ \E n \in S : f = {n}) => IsOptional(f, S)
    BY FS_EmptySet, FS_Singleton DEF IsOptional
  <2>2. \A f \in Contents : IsTile(f)
    BY DEF IsTile, Contents
  <2>3. definedSlots \subseteq Tiles /\ flattened \subseteq Tiles
    BY DEF IInv, Types, TilesOK
  <2>4. ASSUME NEW t \in Tiles
        PROVE  /\ IsTile(terrain[t]) /\ IsTile(file[t]) /\ IsTile(tmpfile[t])
               /\ IsOptional(before[t], Int)
               /\ m_editedTiles[t] \in {"clean", "edited", "unpaged"}
               /\ Touched(t) => stroke # {}
    <3>1. IsTile(terrain[t]) /\ IsTile(file[t]) /\ IsTile(tmpfile[t])
      BY <2>2 DEF IInv, Types, TilesOK
    <3>2. before[t] \in Optional
      BY DEF IInv, Types, StrokeOK
    <3>3. before[t] = {} \/ \E n \in Int : before[t] = {n}
      BY <3>2 DEF Optional
    <3>4. IsOptional(before[t], Int)
      BY <2>1, <3>3
    <3>5. m_editedTiles[t] \in {"clean", "edited", "unpaged"}
      BY DEF IInv, Types, EditedOK
    <3>6. Touched(t) => stroke # {}
      BY DEF IInv, TouchedOK
    <3> QED BY <3>1, <3>4, <3>5, <3>6
  <2>5. IsOptional(stroke, BlendLayers \cup {Height})
    <3>1. stroke = {} \/ \E c \in Kinds : stroke = {c}
      BY DEF IInv, Types, StrokeOK
    <3> QED BY <2>1, <3>1 DEF Kinds
  <2>6. index \in 0..Len(stack) /\ waiting \in 0..MaxWaiting
        /\ {m_enabled, running, mixed} \subseteq BOOLEAN
    BY DEF IInv, Types, CommandsOK, FlagsOK
  <2> QED BY <2>3, <2>4, <2>5, <2>6 DEF TypeOK
<1> QED BY <1>1, AlwaysIInv, PTL

(* A loaded tile that save leaves out (it is not in m_editedTiles) is as   *)
(* on the disk, except when a slot command has made it flat.               *)
THEOREM UnlistedAlwaysSaved == Spec => []UnlistedAreSaved
<1>1. IInv => UnlistedAreSaved
  BY DEF IInv, SavedOK, UnlistedAreSaved
<1> QED BY <1>1, AlwaysIInv, PTL

----------------------------------------------------------------------------
(***************************************************************************)
(* What the undo stack adds up to: HistoryAddsUp.                          *)
(***************************************************************************)
(* Applied for any stack, and what a function is that computes it.         *)
SumOf(s, n, t) ==
  LET sum[k \in 0..n] ==
        IF k = 0 THEN Flat
        ELSE [c \in Channels |-> sum[k - 1][c] + AddedBy(s[k], c, t)]
  IN  sum[n]

Plus(g, command, t) == [c \in Channels |-> g[c] + AddedBy(command, c, t)]

IsSum(f, s, n, t) ==
  f[0] = Flat /\ \A k \in 1..n : f[k] = Plus(f[k - 1], s[k], t)

LEMMA AppliedIsSum == \A n, t : Applied(n, t) = SumOf(stack, n, t)
BY DEF Applied, SumOf

LEMMA PlusIsTile ==
  ASSUME NEW g \in [Channels -> Int], NEW command \in Commands, NEW t \in Tiles
  PROVE  Plus(g, command, t) \in [Channels -> Int]
<1>1. \A c \in Channels : AddedBy(command, c, t) \in Int
  BY AddedIsInt
<1> QED BY <1>1 DEF Plus

LEMMA SumExists ==
  ASSUME NEW s \in Seq(Commands), NEW n \in 0..Len(s), NEW t \in Tiles
  PROVE  \E f \in [0..n -> [Channels -> Int]] : IsSum(f, s, n, t) /\ SumOf(s, n, t) = f[n]
<1> DEFINE V == [Channels -> Int]
           step == [p \in (1..n) \X V |-> Plus(p[2], s[p[1]], t)]
           Loop(f) == f = [k \in 0..n |->
                             IF k = 0 THEN Flat
                             ELSE [c \in Channels |-> f[k - 1][c] + AddedBy(s[k], c, t)]]
<1>1. n \in Nat /\ \A k \in 1..n : s[k] \in Commands
  BY LenProperties, ElementOfSeq
<1>2. SumOf(s, n, t) = (CHOOSE f : Loop(f))[n]
  BY DEF SumOf
<1>3. Flat \in V
  BY DEF Flat
<1>4. \A k \in 1..n, g \in V : Plus(g, s[k], t) \in V
  BY <1>1, PlusIsTile
<1> HIDE DEF V
<1>5. step \in [(1..n) \X V -> V] /\ \A k \in 1..n, g \in V : step[<<k, g>>] = Plus(g, s[k], t)
  BY <1>4
<1> HIDE DEF step
<1>6. PICK g \in [0..n -> V] : IsRecursive(g, n, Flat, step)
  BY <1>1, <1>3, <1>5, RecursionExists
<1>7. ASSUME NEW k \in 1..n PROVE g[k] = Plus(g[k - 1], s[k], t)
  <2>1. k - 1 \in 0..n
    BY <1>1
  <2>2. g[k - 1] \in V
    BY <2>1
  <2> QED BY <1>5, <1>6, <2>2 DEF IsRecursive
<1>8. Loop(g)
  <2>1. \A k \in 0..n : g[k] = IF k = 0 THEN Flat ELSE Plus(g[k - 1], s[k], t)
    BY <1>1, <1>6, <1>7 DEF IsRecursive
  <2>2. g = [k \in 0..n |-> IF k = 0 THEN Flat ELSE Plus(g[k - 1], s[k], t)]
    BY <2>1
  <2> QED BY <2>2 DEF Plus
<1>9. \A f, h : Loop(f) /\ Loop(h) => f = h
  <2> HIDE DEF Loop
  <2> SUFFICES ASSUME NEW f, NEW h, Loop(f), Loop(h) PROVE f = h
    OBVIOUS
  <2>1. /\ f = [k \in 0..n |-> IF k = 0 THEN Flat ELSE Plus(f[k - 1], s[k], t)]
        /\ h = [k \in 0..n |-> IF k = 0 THEN Flat ELSE Plus(h[k - 1], s[k], t)]
    BY DEF Plus, Loop
  <2> DEFINE T == {k \in 0..n : f[k] = h[k]}
  <2>2. 0 \in T
    BY <1>1, <2>1
  <2>3. ASSUME NEW k \in 0..(n - 1), k \in T PROVE k + 1 \in T
    <3>1. k + 1 \in 0..n /\ k + 1 # 0 /\ (k + 1) - 1 = k
      BY <1>1
    <3>2. f[k + 1] = Plus(f[k], s[k + 1], t) /\ h[k + 1] = Plus(h[k], s[k + 1], t)
      BY <2>1, <3>1
    <3> QED BY <2>3, <3>1, <3>2
  <2> HIDE DEF T
  <2>4. 0..n \subseteq T
    BY <1>1, <2>2, <2>3, IntervalInduction
  <2>5. \A k \in 0..n : f[k] = h[k]
    BY <2>4 DEF T
  <2>6. f = [k \in 0..n |-> f[k]] /\ h = [k \in 0..n |-> h[k]]
    BY <2>1
  <2> QED BY <2>5, <2>6
<1>10. (CHOOSE f : Loop(f)) = g
  <2> HIDE DEF Loop
  <2> QED BY <1>8, <1>9
<1>11. SumOf(s, n, t) = g[n]
  BY <1>2, <1>10
<1>12. IsSum(g, s, n, t)
  BY <1>6, <1>7 DEF IsSum, IsRecursive
<1> QED BY <1>11, <1>12 DEF V

(* The sum depends on the first n commands only, and comes one command at  *)
(* a time.                                                                 *)
LEMMA SumOfSame ==
  ASSUME NEW s \in Seq(Commands), NEW r \in Seq(Commands), NEW t \in Tiles,
         NEW n \in 0..Len(s), NEW f, IsSum(f, r, n, t), \A k \in 1..n : s[k] = r[k]
  PROVE  SumOf(s, n, t) = f[n]
<1>1. PICK g : IsSum(g, s, n, t) /\ SumOf(s, n, t) = g[n]
  BY SumExists
<1>2. n \in Nat
  BY LenProperties
<1> DEFINE T == {k \in 0..n : f[k] = g[k]}
<1>3. 0 \in T
  BY <1>1, <1>2 DEF IsSum
<1>4. ASSUME NEW k \in 0..(n - 1), k \in T PROVE k + 1 \in T
  <2>1. k + 1 \in 1..n /\ k + 1 \in 0..n /\ (k + 1) - 1 = k
    BY <1>2
  <2>2. f[k + 1] = Plus(f[k], r[k + 1], t) /\ g[k + 1] = Plus(g[k], s[k + 1], t)
    BY <1>1, <2>1 DEF IsSum
  <2> QED BY <1>4, <2>1, <2>2
<1> HIDE DEF T
<1>5. 0..n \subseteq T
  BY <1>2, <1>3, <1>4, IntervalInduction
<1>6. n \in T
  BY <1>2, <1>5
<1> QED BY <1>1, <1>6 DEF T

LEMMA SumSteps ==
  ASSUME NEW s \in Seq(Commands), NEW n \in 1..Len(s), NEW t \in Tiles
  PROVE  SumOf(s, n, t) = Plus(SumOf(s, n - 1, t), s[n], t)
<1>1. n \in Nat /\ n \in 0..Len(s) /\ n - 1 \in 0..Len(s)
  BY LenProperties
<1>2. PICK f : IsSum(f, s, n, t) /\ SumOf(s, n, t) = f[n]
  BY <1>1, SumExists
<1>3. IsSum(f, s, n - 1, t)
  BY <1>1, <1>2 DEF IsSum
<1>4. SumOf(s, n - 1, t) = f[n - 1]
  BY <1>1, <1>3, SumOfSame
<1> QED BY <1>2, <1>4 DEF IsSum

LEMMA SumAgrees ==
  ASSUME NEW s \in Seq(Commands), NEW r \in Seq(Commands), NEW t \in Tiles,
         NEW n, n \in 0..Len(s), n \in 0..Len(r), \A k \in 1..n : s[k] = r[k]
  PROVE  SumOf(s, n, t) = SumOf(r, n, t)
<1>1. PICK f : IsSum(f, r, n, t) /\ SumOf(r, n, t) = f[n]
  BY SumExists
<1> QED BY <1>1, SumOfSame

LEMMA SumIsTile ==
  ASSUME NEW s \in Seq(Commands), NEW n \in 0..Len(s), NEW t \in Tiles
  PROVE  SumOf(s, n, t) \in [Channels -> Int]
<1>1. n \in 0..n
  BY LenProperties
<1>2. PICK f \in [0..n -> [Channels -> Int]] : SumOf(s, n, t) = f[n]
  BY SumExists
<1> QED BY <1>1, <1>2

(* What is pushed takes the place of what is undone.                       *)
LEMMA SumOfPushed ==
  ASSUME NEW s \in Seq(Commands), NEW n \in 0..Len(s), NEW t \in Tiles,
         NEW command \in Commands
  PROVE  SumOf(Append(SubSeq(s, 1, n), command), n + 1, t)
           = Plus(SumOf(s, n, t), command, t)
<1> DEFINE kept == SubSeq(s, 1, n)
<1>0. n \in Nat
  BY LenProperties
<1>1. kept \in Seq(Commands) /\ Len(kept) = n /\ \A k \in 1..n : kept[k] = s[k]
  BY <1>0, SubSeqProperties
<1> HIDE DEF kept
<1> DEFINE r == Append(kept, command)
<1>2. /\ r \in Seq(Commands) /\ Len(r) = n + 1 /\ r[n + 1] = command
      /\ \A k \in 1..n : r[k] = s[k]
  BY <1>1, AppendProperties
<1> HIDE DEF r
<1>3. n + 1 \in 1..Len(r) /\ (n + 1) - 1 = n /\ n \in 0..Len(r)
  BY <1>0, <1>2
<1>4. SumOf(r, n + 1, t) = Plus(SumOf(r, n, t), command, t)
  BY <1>2, <1>3, SumSteps
<1>5. SumOf(r, n, t) = SumOf(s, n, t)
  BY <1>2, <1>3, SumAgrees
<1> QED BY <1>4, <1>5 DEF r, kept

----------------------------------------------------------------------------
(* Besides the types: only a stroke on a channel the tiles have touches    *)
(* any, and a slot command changes no values.                              *)
BaseOK == base \in [Tiles -> [Channels -> Int]]
ChannelOK == \A t \in Tiles : Touched(t) => stroke \subseteq Channels
SlotDeltasOK ==
  \A k \in 1..Len(stack) : IsSlotCommand(stack[k]) => stack[k].delta = NoTile
HistoryInv == BaseOK /\ ChannelOK /\ SlotDeltasOK /\ HistoryAddsUp

AddsUp(t, sum) ==
  \A g \in terrain[t], c \in Channels : BeforeStroke(g, c, t) = {base[t][c] + sum[c]}

LEMMA AppliedIsTile ==
  ASSUME CommandsOK, NEW n \in 0..Len(stack), NEW t \in Tiles
  PROVE  Applied(n, t) \in [Channels -> Int] /\ Applied(n, t) = SumOf(stack, n, t)
BY AppliedIsSum, SumIsTile DEF CommandsOK

LEMMA BaseIsTile ==
  ASSUME CommandsOK, NEW n \in 0..Len(stack), NEW t \in Tiles, NEW g \in [Channels -> Int]
  PROVE  /\ BaseOf(g, n, t) \in [Channels -> Int]
         /\ \A c \in Channels : BaseOf(g, n, t)[c] + Applied(n, t)[c] = g[c]
<1> DEFINE a == Applied(n, t)
<1>1. a \in [Channels -> Int]
  BY AppliedIsTile
<1>2. BaseOf(g, n, t) = [c \in Channels |-> g[c] - a[c]]
  BY DEF BaseOf
<1> HIDE DEF a
<1>3. \A c \in Channels : g[c] - a[c] \in Int /\ (g[c] - a[c]) + a[c] = g[c]
  BY <1>1
<1> QED BY <1>2, <1>3 DEF a

LEMMA InitHistory == Init => HistoryInv
<1> SUFFICES ASSUME Init PROVE HistoryInv
  OBVIOUS
<1>1. BaseOK
  BY DEF Init, BaseOK, Flat
<1>2. ChannelOK
  BY DEF Init, ChannelOK, Touched, NoTile
<1>3. SlotDeltasOK
  <2>1. Len(stack) = 0
    BY DEF Init
  <2> QED BY <2>1 DEF SlotDeltasOK
<1>4. HistoryAddsUp
  BY DEF Init, HistoryAddsUp, NoTile
<1> QED BY <1>1, <1>2, <1>3, <1>4 DEF HistoryInv

(* When nothing of it changes the invariant stays, also when the program   *)
(* ends.                                                                   *)
LEMMA HistoryKept ==
  ASSUME IInv, HistoryInv, UNCHANGED <<terrain, stroke, before, stack, index, base, mixed>>,
         running' \in {running, FALSE}
  PROVE  HistoryInv'
<1>1. BaseOK' /\ ChannelOK' /\ SlotDeltasOK'
  BY DEF HistoryInv, BaseOK, ChannelOK, SlotDeltasOK, Touched
<1>2. \A n, t : Applied(n, t)' = Applied(n, t)
  BY DEF Applied
<1>3. \A g, c, t : BeforeStroke(g, c, t)' = BeforeStroke(g, c, t)
  BY DEF BeforeStroke, Touched
<1>4. running' => running
  BY DEF IInv, Types, FlagsOK
<1>5. HistoryAddsUp'
  BY <1>2, <1>3, <1>4 DEF HistoryInv, HistoryAddsUp
<1> QED BY <1>1, <1>5 DEF HistoryInv

(* The command a stroke becomes adds what the stroke has changed.          *)
LEMMA EndStrokeHistory ==
  ASSUME IInv, IInv', HistoryInv, EndStroke, UNCHANGED <<terrain, base, mixed, running>>
  PROVE  HistoryInv'
<1>1. before' = NoTile /\ \A t \in Tiles : ~Touched(t)'
  BY NothingTouched DEF EndStroke, Touched
<1>2. BaseOK' /\ ChannelOK'
  BY <1>1 DEF HistoryInv, BaseOK, ChannelOK
<1>3. \A g, c : \A t \in Tiles : BeforeStroke(g, c, t)' = {g[c]}
  BY <1>1 DEF BeforeStroke
<1>4. stack \in Seq(Commands) /\ index \in 0..Len(stack)
  BY DEF IInv, Types, CommandsOK
<1>5. CASE stroke = {}
  <2>1. UNCHANGED <<stack, index>>
    BY <1>5 DEF EndStroke, PushStroke
  <2>2. SlotDeltasOK'
    BY <2>1 DEF HistoryInv, SlotDeltasOK
  <2>3. \A t \in Tiles : ~Touched(t)
    BY <1>5 DEF IInv, TouchedOK
  <2>4. \A g, c : \A t \in Tiles : BeforeStroke(g, c, t) = {g[c]}
    BY <2>3 DEF BeforeStroke
  <2>5. \A n, t : Applied(n, t)' = Applied(n, t)
    BY <2>1 DEF Applied
  <2>6. HistoryAddsUp'
    BY <1>3, <2>1, <2>4, <2>5 DEF HistoryInv, HistoryAddsUp
  <2> QED BY <1>2, <2>2, <2>6 DEF HistoryInv
<1>6. CASE stroke # {}
  <2>1. PICK k \in stroke : stack' = Append(SubSeq(stack, 1, index), Edit(k, Delta))
    BY <1>6 DEF EndStroke, PushStroke
  <2>2. index' = index + 1 /\ stroke = {k} /\ k \in Kinds /\ ~Dangling
    BY <1>6, <2>1 DEF EndStroke, PushStroke, IInv, Types, StrokeOK
  <2> DEFINE command == Edit(k, Delta)
  <2>3. command \in Commands
    BY <2>2, DeltaIsOptional DEF IInv, Types, Edit, Commands
  <2>4. /\ command.channel = k /\ command.delta = Delta
        /\ ~IsSlotCommand(command)
    BY DEF Edit, IsSlotCommand
  <2>5. SlotDeltasOK'
    <3> DEFINE kept == SubSeq(stack, 1, index)
    <3>1. kept \in Seq(Commands) /\ Len(kept) = index /\ \A j \in 1..index : kept[j] = stack[j]
      BY <1>4, SubSeqProperties
    <3> HIDE DEF kept, command
    <3>2. /\ Len(stack') = index + 1 /\ stack'[index + 1] = command
          /\ \A j \in 1..index : stack'[j] = stack[j]
      BY <2>1, <2>3, <3>1, AppendProperties DEF kept, command
    <3>3. ASSUME NEW j \in 1..Len(stack'), IsSlotCommand(stack'[j])
          PROVE  stack'[j].delta = NoTile
      <4>1. j # index + 1
        BY <2>4, <3>2, <3>3
      <4>2. j \in 1..index /\ j \in 1..Len(stack)
        BY <1>4, <3>2, <4>1
      <4> QED BY <3>2, <3>3, <4>2 DEF HistoryInv, SlotDeltasOK
    <3> QED BY <3>3 DEF SlotDeltasOK, NoTile
  <2>6. ASSUME NEW t \in Tiles
        PROVE  /\ Applied(index, t) \in [Channels -> Int]
               /\ Applied(index, t)' = Plus(Applied(index, t), command, t)
    <3>1. Applied(index, t)' = SumOf(stack', index', t)
      BY DEF Applied, SumOf
    <3>2. Applied(index, t) = SumOf(stack, index, t) /\ Applied(index, t) \in [Channels -> Int]
      BY <1>4, AppliedIsTile DEF IInv, Types
    <3> HIDE DEF command
    <3>3. SumOf(Append(SubSeq(stack, 1, index), command), index + 1, t)
            = Plus(SumOf(stack, index, t), command, t)
      BY <1>4, <2>3, SumOfPushed
    <3> QED BY <2>1, <2>2, <3>1, <3>2, <3>3 DEF command
  <2> HIDE DEF command
  <2>7. ASSUME running, ~mixed, NEW t \in Tiles, NEW g \in terrain[t], NEW c \in Channels
        PROVE  {g[c]} = {base[t][c] + Plus(Applied(index, t), command, t)[c]}
    <3> DEFINE a == Applied(index, t)
    <3>1. g \in [Channels -> Int] /\ terrain[t] = {g}
      <4>1. terrain[t] \in Contents
        BY DEF IInv, Types, TilesOK
      <4> QED BY <4>1 DEF Contents
    <3>2. BeforeStroke(g, c, t) = {base[t][c] + a[c]}
      BY <2>7 DEF HistoryInv, HistoryAddsUp
    <3>3. a[c] \in Int /\ base[t][c] \in Int /\ g[c] \in Int
      BY <2>6, <3>1 DEF HistoryInv, BaseOK
    <3>4. Plus(a, command, t)[c] = a[c] + AddedBy(command, c, t)
      BY DEF Plus
    <3> HIDE DEF a
    <3>5. CASE Touched(t) /\ c = k
      <4>1. before[t] = {base[t][c] + a[c]}
        BY <2>2, <3>2, <3>5 DEF BeforeStroke
      <4>2. stroke \cap Channels = {c}
        BY <2>2, <3>5
      <4>3. Values(t) = {g[c]}
        BY <3>1, <4>2 DEF Values
      <4>4. Delta[t] = {g[c] - (base[t][c] + a[c])}
        BY <4>1, <4>3 DEF Delta
      <4>5. PICK d : d = g[c] - (base[t][c] + a[c])
        OBVIOUS
      <4>6. AddedBy(command, c, t) = d
        <5>1. command.delta[t] = {d}
          BY <2>4, <4>4, <4>5
        <5>2. (CHOOSE x \in {d} : TRUE) = d
          OBVIOUS
        <5> QED BY <2>4, <3>5, <5>1, <5>2 DEF AddedBy
      <4>7. g[c] = base[t][c] + (a[c] + d)
        BY <3>3, <4>5
      <4> QED BY <3>4, <4>6, <4>7 DEF a
    <3>6. CASE ~(Touched(t) /\ c = k)
      <4>1. g[c] = base[t][c] + a[c]
        BY <2>2, <3>2, <3>6 DEF BeforeStroke
      <4>2. AddedBy(command, c, t) = 0
        <5>1. CASE c # k
          BY <2>4, <5>1 DEF AddedBy
        <5>2. CASE ~Touched(t)
          <6>1. Delta[t] = {}
            BY <5>2 DEF Delta, Touched
          <6> QED BY <2>4, <6>1 DEF AddedBy
        <5> QED BY <3>6, <5>1, <5>2
      <4> QED BY <3>3, <3>4, <4>1, <4>2 DEF a
    <3> QED BY <3>5, <3>6
  <2>8. HistoryAddsUp'
    BY <1>3, <2>6, <2>7 DEF HistoryAddsUp
  <2> QED BY <1>2, <2>5, <2>8 DEF HistoryInv
<1> QED BY <1>5, <1>6

LEMMA PagingHistory ==
  ASSUME IInv, IInv', HistoryInv, NEW t \in Tiles, loadPage(t) \/ unloadPage(t)
  PROVE  HistoryInv'
<1>1. UNCHANGED <<stack, index, stroke, before, running>>
  BY DEF loadPage, unloadPage, commandVars
<1>2. ChannelOK' /\ SlotDeltasOK'
  BY <1>1 DEF HistoryInv, ChannelOK, SlotDeltasOK, Touched
<1>3. /\ \A n, u : Applied(n, u)' = Applied(n, u)
      /\ \A g, c, u : BeforeStroke(g, c, u)' = BeforeStroke(g, c, u)
  BY <1>1 DEF Applied, BeforeStroke, Touched
<1>4. CommandsOK /\ index \in 0..Len(stack)
  BY DEF IInv, Types, CommandsOK
<1>5. terrain \in [Tiles -> Contents] /\ base \in [Tiles -> [Channels -> Int]]
  BY DEF IInv, Types, TilesOK, HistoryInv, BaseOK
<1>6. CASE loadPage(t)
  <2>1. PICK g \in define(t) : base' = [base EXCEPT ![t] = BaseOf(g, index, t)]
    BY <1>6 DEF loadPage
  <2>2. terrain' = [terrain EXCEPT ![t] = define(t)] /\ mixed' = (mixed \/ Touched(t))
    BY <1>6 DEF loadPage
  <2>3. define(t) = {g} /\ g \in [Channels -> Int]
    <3>1. define(t) \in Contents
      BY DefineIsTile DEF IInv, Types
    <3> QED BY <3>1 DEF Contents
  <2>4. /\ BaseOf(g, index, t) \in [Channels -> Int]
        /\ \A c \in Channels : BaseOf(g, index, t)[c] + Applied(index, t)[c] = g[c]
    BY <1>4, <2>3, BaseIsTile
  <2>5. BaseOK'
    BY <1>5, <2>1, <2>4 DEF BaseOK
  <2>6. ASSUME running, ~mixed', NEW u \in Tiles, NEW h \in terrain'[u], NEW c \in Channels
        PROVE  BeforeStroke(h, c, u) = {base'[u][c] + Applied(index, u)[c]}
    <3>1. CASE u = t
      <4>1. h = g /\ base'[u] = BaseOf(g, index, t)
        BY <1>5, <2>1, <2>2, <2>3, <2>6, <3>1
      <4>2. ~Touched(u)
        BY <2>2, <2>6, <3>1
      <4> QED BY <2>4, <3>1, <4>1, <4>2 DEF BeforeStroke
    <3>2. CASE u # t
      <4>1. h \in terrain[u] /\ base'[u] = base[u]
        BY <1>5, <2>1, <2>2, <2>6, <3>2
      <4>2. ~mixed
        BY <2>2, <2>6
      <4> QED BY <2>6, <4>1, <4>2 DEF HistoryInv, HistoryAddsUp
    <3> QED BY <3>1, <3>2
  <2>7. HistoryAddsUp'
    BY <1>1, <1>3, <2>6 DEF HistoryAddsUp
  <2> QED BY <1>2, <2>5, <2>7 DEF HistoryInv
<1>7. CASE unloadPage(t)
  <2>1. /\ terrain' = [terrain EXCEPT ![t] = {}] /\ base' = [base EXCEPT ![t] = Flat]
        /\ UNCHANGED mixed
    BY <1>7 DEF unloadPage
  <2>2. BaseOK'
    BY <1>5, <2>1 DEF BaseOK, Flat
  <2>3. \A u \in Tiles : \A h \in terrain'[u] : h \in terrain[u] /\ base'[u] = base[u]
    BY <1>5, <2>1
  <2>4. HistoryAddsUp'
    BY <1>1, <1>3, <2>1, <2>3 DEF HistoryInv, HistoryAddsUp
  <2> QED BY <1>2, <2>2, <2>4 DEF HistoryInv
<1> QED BY <1>6, <1>7

(* A turn of the brush changes the one channel of its stroke, and takes    *)
(* the value a tile has there when it touches it first.                    *)
LEMMA BrushHistory ==
  ASSUME IInv, IInv', HistoryInv, update
  PROVE  HistoryInv'
<1>1. UNCHANGED <<stack, index, stroke, base, mixed>>
  BY DEF update, historyVars
<1>2. PICK S \in SUBSET {t \in Tiles : Loaded(t)}, d \in Strengths, c \in stroke :
        IF c \in Channels
        THEN /\ before' = monitorTerrain(S)
             /\ terrain' = [t \in Tiles |->
                  IF t \in S THEN {[g EXCEPT ![c] = Painted(c, @, d)] : g \in terrain[t]}
                  ELSE terrain[t]]
             /\ UNCHANGED running
        ELSE running' = FALSE /\ UNCHANGED <<before, m_editedTiles, terrain>>
  BY DEF update
<1>3. CASE c \notin Channels
  BY <1>1, <1>2, <1>3, HistoryKept
<1>4. CASE c \in Channels
  <2>1. stroke = {c} /\ d \in Int
    BY TilesAssumption DEF IInv, Types, StrokeOK
  <2>2. /\ before' = monitorTerrain(S) /\ UNCHANGED running
        /\ terrain' = [t \in Tiles |->
             IF t \in S THEN {[g EXCEPT ![c] = Painted(c, @, d)] : g \in terrain[t]}
             ELSE terrain[t]]
    BY <1>2, <1>4
  <2>3. BaseOK' /\ SlotDeltasOK'
    BY <1>1 DEF HistoryInv, BaseOK, SlotDeltasOK
  <2>4. ChannelOK'
    BY <1>1, <1>4, <2>1 DEF ChannelOK
  <2>5. \A n, u : Applied(n, u)' = Applied(n, u)
    BY <1>1 DEF Applied
  <2>6. ASSUME running, ~mixed, NEW t \in Tiles, NEW h \in terrain'[t], NEW k \in Channels
        PROVE  BeforeStroke(h, k, t)' = {base[t][k] + Applied(index, t)[k]}
    <3>1. CASE t \notin S
      <4>1. h \in terrain[t] /\ before'[t] = before[t]
        BY <2>2, <2>6, <3>1 DEF monitorTerrain
      <4>2. BeforeStroke(h, k, t)' = BeforeStroke(h, k, t)
        BY <1>1, <4>1 DEF BeforeStroke, Touched
      <4> QED BY <2>6, <4>1, <4>2 DEF HistoryInv, HistoryAddsUp
    <3>2. CASE t \in S
      <4>1. PICK g \in [Channels -> Int] : terrain[t] = {g}
        <5>1. terrain[t] \in Contents /\ terrain[t] # {}
          BY <3>2 DEF IInv, Types, TilesOK, Loaded
        <5> QED BY <5>1 DEF Contents
      <4>2. h = [g EXCEPT ![c] = Painted(c, g[c], d)]
        BY <2>2, <2>6, <3>2, <4>1
      <4>3. BeforeStroke(g, k, t) = {base[t][k] + Applied(index, t)[k]}
        BY <2>6, <4>1 DEF HistoryInv, HistoryAddsUp
      <4>4. CASE k # c
        <5>1. h[k] = g[k]
          BY <4>1, <4>2, <4>4
        <5> QED BY <1>1, <2>1, <4>3, <4>4, <5>1 DEF BeforeStroke
      <4>5. CASE k = c
        <5>1. stroke \cap Channels = {c}
          BY <1>4, <2>1
        <5>2. Values(t) = {g[c]}
          BY <4>1, <5>1 DEF Values
        <5>3. before'[t] = BeforeStroke(g, k, t)
          BY <2>1, <2>2, <3>2, <4>5, <5>2 DEF monitorTerrain, BeforeStroke
        <5>4. Touched(t)'
          BY <4>3, <5>3 DEF Touched
        <5>5. BeforeStroke(h, k, t)' = before'[t]
          BY <1>1, <2>1, <4>5, <5>4 DEF BeforeStroke
        <5> QED BY <4>3, <5>3, <5>5
      <4> QED BY <4>4, <4>5
    <3> QED BY <3>1, <3>2
  <2>7. HistoryAddsUp'
    BY <1>1, <2>2, <2>5, <2>6 DEF HistoryAddsUp
  <2> QED BY <2>3, <2>4, <2>7 DEF HistoryInv
<1> QED BY <1>3, <1>4

(* A delta that is added to the values, or taken from them again, and is   *)
(* done on the stack, or is not any more.                                  *)
LEMMA DeltaHistory ==
  ASSUME IInv, IInv', HistoryInv, NEW command \in Commands, NEW sign \in {1, -1},
         applyDeltas(command, sign), UNCHANGED <<stack, stroke, before, running>>,
         \A t \in Tiles, c \in Channels :
           Applied(index', t)[c] = Applied(index, t)[c] + sign * AddedBy(command, c, t)
  PROVE  HistoryInv'
<1>1. /\ terrain' = [t \in Tiles |-> ChangedTile(terrain[t], command, t, sign)]
      /\ mixed' = (mixed \/ \E t \in Changed(command) : Touched(t))
      /\ UNCHANGED base
  BY DEF applyDeltas, ChangedTile
<1>2. BaseOK' /\ ChannelOK' /\ SlotDeltasOK'
  BY <1>1 DEF HistoryInv, BaseOK, ChannelOK, SlotDeltasOK, Touched
<1>3. \A n, u : Applied(n, u)' = SumOf(stack, n', u)
  BY DEF Applied, SumOf
<1>4. ASSUME running, ~mixed', NEW t \in Tiles, NEW h \in terrain'[t], NEW c \in Channels
      PROVE  BeforeStroke(h, c, t)' = {base[t][c] + Applied(index', t)[c]}
  <2>1. terrain'[t] = ChangedTile(terrain[t], command, t, sign) /\ terrain[t] \in Contents
    BY <1>1 DEF IInv, Types, TilesOK
  <2>2. PICK g \in [Channels -> Int] : terrain[t] = {g}
    <3>1. terrain[t] # {}
      BY <1>4, <2>1 DEF ChangedTile
    <3> QED BY <2>1, <3>1 DEF Contents
  <2>3. h[c] = g[c] + sign * AddedBy(command, c, t)
    BY <1>4, <2>1, <2>2 DEF ChangedTile
  <2> DEFINE a == Applied(index, t)
  <2>4. BeforeStroke(g, c, t) = {base[t][c] + a[c]}
    BY <1>1, <1>4, <2>2 DEF HistoryInv, HistoryAddsUp
  <2>5. a \in [Channels -> Int] /\ AddedBy(command, c, t) \in Int /\ base[t][c] \in Int
    BY AppliedIsTile, AddedIsInt DEF IInv, Types, CommandsOK, HistoryInv, BaseOK
  <2> HIDE DEF a
  <2>6. PICK x \in Int : x = sign * AddedBy(command, c, t)
    BY <2>5
  <2>7. Applied(index', t)[c] = a[c] + x
    BY <2>6 DEF a
  <2>8. CASE Touched(t) /\ c \in stroke
    <3>1. t \notin Changed(command)
      BY <1>1, <1>4, <2>8
    <3>2. x = 0
      BY <2>6, <3>1, AddedIsInt
    <3>3. BeforeStroke(h, c, t)' = before[t] /\ BeforeStroke(g, c, t) = before[t]
      BY <2>8 DEF BeforeStroke, Touched
    <3>4. a[c] + x = a[c]
      BY <2>5, <3>2
    <3> QED BY <2>4, <2>7, <3>3, <3>4
  <2>9. CASE ~(Touched(t) /\ c \in stroke)
    <3>1. BeforeStroke(h, c, t)' = {h[c]} /\ BeforeStroke(g, c, t) = {g[c]}
      BY <2>9 DEF BeforeStroke, Touched
    <3>2. g[c] = base[t][c] + a[c]
      BY <2>4, <3>1
    <3>3. h[c] = base[t][c] + (a[c] + x)
      BY <2>3, <2>5, <2>6, <3>2
    <3> QED BY <2>7, <3>1, <3>3
  <2> QED BY <2>8, <2>9
<1>5. \A t : Applied(index, t)' = Applied(index', t)
  BY DEF Applied
<1>6. HistoryAddsUp'
  BY <1>1, <1>4, <1>5 DEF HistoryAddsUp
<1> QED BY <1>2, <1>6 DEF HistoryInv

(* A slot command adds nothing to any tile; what it loads as flat is such  *)
(* that the commands that are done make it flat.                           *)
LEMMA SlotHistory ==
  ASSUME IInv, IInv', HistoryInv, NEW A \in SUBSET Tiles, NEW R, NEW n \in 0..Len(stack),
         applySlots(A, R, n), UNCHANGED <<stroke, before, running>>, SlotDeltasOK',
         \A t \in Tiles : Applied(index, t)' = Applied(index, t)
                          /\ Applied(n, t) = Applied(index, t)
  PROVE  HistoryInv'
<1> DEFINE new == {t \in A : ~Loaded(t)}
<1>1. /\ terrain' = [t \in Tiles |-> IF t \in new THEN {Flat} ELSE terrain[t]]
      /\ base' = [t \in Tiles |-> IF t \in new THEN BaseOf(Flat, n, t) ELSE base[t]]
      /\ mixed' = (mixed \/ \E t \in new : Touched(t))
  BY DEF applySlots
<1>2. new \subseteq Tiles
  OBVIOUS
<1> HIDE DEF new
<1>3. \A t \in Tiles :
        /\ BaseOf(Flat, n, t) \in [Channels -> Int]
        /\ \A c \in Channels : BaseOf(Flat, n, t)[c] + Applied(n, t)[c] = Flat[c]
  <2>1. Flat \in [Channels -> Int]
    BY DEF Flat
  <2> QED BY <2>1, BaseIsTile DEF IInv, Types
<1>4. BaseOK'
  BY <1>1, <1>3 DEF HistoryInv, BaseOK
<1>5. ChannelOK'
  BY DEF HistoryInv, ChannelOK, Touched
<1>6. \A g, c, u : BeforeStroke(g, c, u)' = BeforeStroke(g, c, u)
  BY DEF BeforeStroke, Touched
<1>7. ASSUME running, ~mixed', NEW t \in Tiles, NEW h \in terrain'[t], NEW c \in Channels
      PROVE  BeforeStroke(h, c, t) = {base'[t][c] + Applied(index, t)[c]}
  <2>1. CASE t \in new
    <3>1. h = Flat /\ base'[t] = BaseOf(Flat, n, t) /\ ~Touched(t)
      BY <1>1, <1>7, <2>1
    <3>2. BaseOf(Flat, n, t)[c] + Applied(index, t)[c] = Flat[c]
      BY <1>3
    <3> QED BY <3>1, <3>2 DEF BeforeStroke
  <2>2. CASE t \notin new
    <3>1. h \in terrain[t] /\ base'[t] = base[t] /\ ~mixed
      BY <1>1, <1>7, <2>2
    <3> QED BY <1>7, <3>1 DEF HistoryInv, HistoryAddsUp
  <2> QED BY <2>1, <2>2
<1>8. HistoryAddsUp'
  BY <1>6, <1>7 DEF HistoryAddsUp
<1> QED BY <1>4, <1>5, <1>8 DEF HistoryInv

LEMMA NothingAdded ==
  ASSUME NEW command, command.delta = NoTile, NEW g \in [Channels -> Int], NEW t \in Tiles
  PROVE  Plus(g, command, t) = g
<1>1. \A c : AddedBy(command, c, t) = 0
  BY DEF AddedBy, NoTile
<1>2. \A c \in Channels : g[c] + AddedBy(command, c, t) = g[c]
  BY <1>1
<1> QED BY <1>2 DEF Plus

LEMMA ClickHistory ==
  ASSUME IInv, IInv', HistoryInv, NEW t \in Tiles, NEW add \in BOOLEAN, ClickSlot(add, t)
  PROVE  HistoryInv'
<1> DEFINE command == ModifyTerrainSlot(add, t)
<1>1. command \in Commands /\ command.delta = NoTile
  <2>1. NoTile \in [Tiles -> Optional] /\ Height \in Kinds
    BY DEF NoTile, Optional, Kinds
  <2>2. \A B \in {{t}, {}} : B \in SUBSET Tiles
    OBVIOUS
  <2> QED BY <2>1, <2>2 DEF Commands, ModifyTerrainSlot
<1>2. /\ stack' = Append(SubSeq(stack, 1, index), command) /\ index' = index + 1
      /\ applySlots(command.add, command.remove, index)
      /\ UNCHANGED <<stroke, before, running>>
  BY DEF ClickSlot
<1>3. command.add \in SUBSET Tiles
  BY <1>1 DEF Commands
<1> HIDE DEF command
<1>4. stack \in Seq(Commands) /\ index \in 0..Len(stack) /\ index \in Nat /\ CommandsOK
  BY DEF IInv, Types, CommandsOK
<1> DEFINE kept == SubSeq(stack, 1, index)
<1>5. kept \in Seq(Commands) /\ Len(kept) = index /\ \A j \in 1..index : kept[j] = stack[j]
  BY <1>4, SubSeqProperties
<1> HIDE DEF kept
<1>6. /\ Len(stack') = index + 1 /\ stack'[index + 1] = command
      /\ \A j \in 1..index : stack'[j] = stack[j]
  BY <1>1, <1>2, <1>5, AppendProperties DEF kept
<1>7. SlotDeltasOK'
  <2>1. ASSUME NEW j \in 1..Len(stack'), IsSlotCommand(stack'[j])
        PROVE  stack'[j].delta = NoTile
    <3>1. CASE j = index + 1
      BY <1>1, <1>6, <3>1
    <3>2. CASE j # index + 1
      <4>1. j \in 1..index /\ j \in 1..Len(stack)
        BY <1>4, <1>6, <3>2
      <4> QED BY <1>6, <2>1, <4>1 DEF HistoryInv, SlotDeltasOK
    <3> QED BY <3>1, <3>2
  <2> QED BY <2>1 DEF SlotDeltasOK, NoTile
<1>8. ASSUME NEW u \in Tiles PROVE Applied(index, u)' = Applied(index, u)
  <2>1. Applied(index, u)' = SumOf(stack', index', u)
    BY DEF Applied, SumOf
  <2>2. Applied(index, u) = SumOf(stack, index, u) /\ Applied(index, u) \in [Channels -> Int]
    BY <1>4, AppliedIsTile
  <2>3. SumOf(Append(SubSeq(stack, 1, index), command), index + 1, u)
          = Plus(SumOf(stack, index, u), command, u)
    BY <1>1, <1>4, SumOfPushed
  <2>4. Plus(SumOf(stack, index, u), command, u) = SumOf(stack, index, u)
    BY <1>1, <2>2, NothingAdded
  <2> QED BY <1>2, <2>1, <2>2, <2>3, <2>4
<1> QED BY <1>2, <1>3, <1>4, <1>7, <1>8, SlotHistory

(* What is done with n commands is what is done with one less, and the     *)
(* last of them.                                                           *)
LEMMA AppliedSteps ==
  ASSUME CommandsOK, NEW n \in 1..Len(stack), NEW t \in Tiles
  PROVE  /\ Applied(n - 1, t) \in [Channels -> Int]
         /\ Applied(n, t) = Plus(Applied(n - 1, t), stack[n], t)
         /\ \A c \in Channels : Applied(n, t)[c] = Applied(n - 1, t)[c] + AddedBy(stack[n], c, t)
<1>1. n - 1 \in 0..Len(stack) /\ stack \in Seq(Commands)
  BY DEF CommandsOK
<1>2. Applied(n - 1, t) \in [Channels -> Int]
  BY <1>1, AppliedIsTile
<1>3. Applied(n, t) = Plus(Applied(n - 1, t), stack[n], t)
  BY <1>1, SumSteps, AppliedIsSum
<1> QED BY <1>2, <1>3 DEF Plus

LEMMA UndoHistory ==
  ASSUME IInv, IInv', HistoryInv, undo
  PROVE  HistoryInv'
<1> DEFINE command == stack[index]
<1>1. index \in 1..Len(stack) /\ CommandsOK /\ index - 1 \in 0..Len(stack)
  BY DEF undo, IInv, Types, CommandsOK
<1>2. command \in Commands
  BY <1>1 DEF CommandsOK
<1>3. UNCHANGED <<stack, stroke, before>>
  BY DEF undo
<1>4. /\ \A t \in Tiles : Applied(index, t) = Plus(Applied(index - 1, t), command, t)
      /\ \A t \in Tiles, c \in Channels :
           Applied(index, t)[c] = Applied(index - 1, t)[c] + AddedBy(command, c, t)
      /\ \A t \in Tiles : Applied(index - 1, t) \in [Channels -> Int]
  BY <1>1, AppliedSteps
<1>5. SlotDeltasOK /\ SlotDeltasOK'
  BY <1>3 DEF HistoryInv, SlotDeltasOK
<1>6. \A t : Applied(index, t)' = Applied(index', t)
  BY <1>3 DEF Applied
<1>7. CASE /\ IsSlotCommand(command) /\ applySlots(command.remove, command.add, index - 1)
           /\ index' = index - 1 /\ UNCHANGED running
  <2>1. command.remove \in SUBSET Tiles
    BY <1>2 DEF Commands
  <2>2. command.delta = NoTile
    BY <1>1, <1>5, <1>7 DEF SlotDeltasOK
  <2>3. \A t \in Tiles : Applied(index, t) = Applied(index - 1, t)
    BY <1>4, <2>2, NothingAdded
  <2>4. \A t \in Tiles : Applied(index, t)' = Applied(index, t)
                         /\ Applied(index - 1, t) = Applied(index, t)
    BY <1>6, <1>7, <2>3
  <2> HIDE DEF command
  <2> QED BY <1>1, <1>3, <1>5, <1>7, <2>1, <2>4, SlotHistory
<1>8. CASE applyDeltas(command, -1) /\ index' = index - 1 /\ UNCHANGED running
  <2> HIDE DEF command
  <2>1. ASSUME NEW t \in Tiles, NEW c \in Channels
        PROVE  Applied(index', t)[c] = Applied(index, t)[c] + (-1) * AddedBy(command, c, t)
    <3>1. /\ Applied(index, t)[c] = Applied(index - 1, t)[c] + AddedBy(command, c, t)
          /\ Applied(index - 1, t)[c] \in Int
      BY <1>4
    <3>2. AddedBy(command, c, t) \in Int
      BY <1>2, AddedIsInt
    <3> QED BY <1>8, <3>1, <3>2
  <2> QED BY <1>2, <1>3, <1>8, <2>1, DeltaHistory
<1>9. CASE UndoRedoFails(command)
  BY <1>3, <1>9, HistoryKept DEF UndoRedoFails, documentVars, historyVars
<1> QED BY <1>7, <1>8, <1>9 DEF undo

LEMMA RedoHistory ==
  ASSUME IInv, IInv', HistoryInv, redo
  PROVE  HistoryInv'
<1> DEFINE command == stack[index + 1]
<1>1. index + 1 \in 1..Len(stack) /\ CommandsOK /\ index \in Nat
      /\ (index + 1) - 1 = index /\ index + 1 \in 0..Len(stack)
  BY DEF redo, IInv, Types, CommandsOK
<1>2. command \in Commands
  BY <1>1 DEF CommandsOK
<1>3. UNCHANGED <<stack, stroke, before>>
  BY DEF redo
<1>4. /\ \A t \in Tiles : Applied(index + 1, t) = Plus(Applied(index, t), command, t)
      /\ \A t \in Tiles, c \in Channels :
           Applied(index + 1, t)[c] = Applied(index, t)[c] + AddedBy(command, c, t)
      /\ \A t \in Tiles : Applied(index, t) \in [Channels -> Int]
  <2>1. PICK n : n = index + 1
    OBVIOUS
  <2>2. n \in 1..Len(stack) /\ n - 1 = index
    BY <1>1, <2>1
  <2> QED BY <1>1, <2>1, <2>2, AppliedSteps
<1>5. SlotDeltasOK /\ SlotDeltasOK'
  BY <1>3 DEF HistoryInv, SlotDeltasOK
<1>6. \A t : Applied(index, t)' = Applied(index', t)
  BY <1>3 DEF Applied
<1>7. CASE /\ IsSlotCommand(command) /\ applySlots(command.add, command.remove, index + 1)
           /\ index' = index + 1 /\ UNCHANGED running
  <2>1. command.add \in SUBSET Tiles
    BY <1>2 DEF Commands
  <2>2. command.delta = NoTile
    BY <1>1, <1>5, <1>7 DEF SlotDeltasOK
  <2>3. \A t \in Tiles : Applied(index + 1, t) = Applied(index, t)
    BY <1>4, <2>2, NothingAdded
  <2>4. \A t \in Tiles : Applied(index, t)' = Applied(index, t)
                         /\ Applied(index + 1, t) = Applied(index, t)
    BY <1>6, <1>7, <2>3
  <2> HIDE DEF command
  <2> QED BY <1>1, <1>3, <1>5, <1>7, <2>1, <2>4, SlotHistory
<1>8. CASE applyDeltas(command, 1) /\ index' = index + 1 /\ UNCHANGED running
  <2> HIDE DEF command
  <2>1. ASSUME NEW t \in Tiles, NEW c \in Channels
        PROVE  Applied(index', t)[c] = Applied(index, t)[c] + 1 * AddedBy(command, c, t)
    <3>1. AddedBy(command, c, t) \in Int
      BY <1>2, AddedIsInt
    <3> QED BY <1>4, <1>8, <3>1
  <2> QED BY <1>2, <1>3, <1>8, <2>1, DeltaHistory
<1>9. CASE UndoRedoFails(command)
  BY <1>3, <1>9, HistoryKept DEF UndoRedoFails, documentVars, historyVars
<1> QED BY <1>7, <1>8, <1>9 DEF redo

LEMMA NextHistory == IInv /\ IInv' /\ HistoryInv /\ [Next]_vars => HistoryInv'
<1> SUFFICES ASSUME IInv, IInv', HistoryInv, [Next]_vars PROVE HistoryInv'
  OBVIOUS
<1>1. CASE \E t \in Tiles : loadPage(t) \/ unloadPage(t)
  BY <1>1, PagingHistory
<1>2. CASE startStroke \/ stopStroke \/ save \/ saveTiles
  <2>1. EndStroke /\ UNCHANGED <<terrain, base, mixed, running>>
    BY <1>2 DEF startStroke, stopStroke, save, saveTiles, initProgress, documentVars, historyVars
  <2> QED BY <2>1, EndStrokeHistory
<1>3. CASE update
  BY <1>3, BrushHistory
<1>4. CASE undo
  BY <1>4, UndoHistory
<1>5. CASE redo
  BY <1>5, RedoHistory
<1>6. CASE \E t \in Tiles, add \in BOOLEAN : ClickSlot(add, t)
  BY <1>6, ClickHistory
<1>7. CASE StrokeFails \/ UNCHANGED vars
  <2>1. /\ UNCHANGED <<terrain, stroke, before, stack, index, base, mixed>>
        /\ running' \in {running, FALSE}
    BY <1>7 DEF StrokeFails, vars, documentVars, commandVars, historyVars
  <2> QED BY <2>1, HistoryKept
<1> QED BY <1>1, <1>2, <1>3, <1>4, <1>5, <1>6, <1>7 DEF Next

(* The undo stack accounts for what strokes have changed, for any number   *)
(* of commands and turns of the brush, also of layers that are clamped:    *)
(* undoing all commands gives every tile without them                      *)
(* (undocommands.cpp:44-76, 131-161, brush.cpp:284-291).                   *)
THEOREM HistoryAlwaysAddsUp == Spec => []HistoryAddsUp
<1>1. HistoryInv => HistoryAddsUp
  BY DEF HistoryInv
<1>2. Spec => []HistoryInv
  BY InitHistory, NextHistory, AlwaysIInv, PTL DEF Spec
<1> QED BY <1>1, <1>2, PTL
----------------------------------------------------------------------------
(***************************************************************************)
(* The abstract store: every step that does not lose edits is one of it.   *)
(***************************************************************************)
(* What a step leaves alone that changes neither tiles nor the disk. *)
LEMMA StoreRests ==
  ASSUME UNCHANGED <<terrain, file, tmpfile, m_editedTiles>>
  PROVE  [Store!Next]_Store!vars
<1>1. UNCHANGED <<Shown, Saved, Edited>>
  BY DEF Shown, Saved, Edited, Loaded, define
<1> QED BY <1>1 DEF Store!Next, Store!Rest

LEMMA StorePages ==
  ASSUME IInv, NEW t \in Tiles, loadPage(t) \/ unloadPage(t)
  PROVE  LosesEdits \/ [Store!Next]_Store!vars
<1>0. terrain \in [Tiles -> Contents] /\ m_editedTiles \in [Tiles -> {"clean", "edited", "unpaged"}]
  BY DEF IInv, Types, TilesOK, EditedOK
<1>1. UNCHANGED <<file, tmpfile>> /\ \A u : define(u)' = define(u)
  BY DEF loadPage, unloadPage, define
<1>2. \A u \in Tiles : u # t => terrain'[u] = terrain[u]
  BY <1>0 DEF loadPage, unloadPage
<1>3. Edited' = Edited
  <2>1. \A u \in Tiles : m_editedTiles'[u] = "clean" <=> m_editedTiles[u] = "clean"
    BY <1>0 DEF loadPage, unloadPage, setTileUnpaged
  <2> QED BY <2>1 DEF Edited
<1>4. Saved' = Saved
  BY <1>1 DEF Saved
<1>5. ASSUME Shown[t]' = Shown[t] PROVE [Store!Next]_Store!vars
  <2>1. \A u \in Tiles : u # t => (Loaded(u)' <=> Loaded(u))
    BY <1>2 DEF Loaded
  <2>2. Shown' = Shown
    BY <1>1, <1>2, <1>5, <2>1 DEF Shown
  <2> QED BY <1>3, <1>4, <2>2 DEF Store!Next, Store!Rest
<1>6. CASE loadPage(t)
  <2>1. ~Loaded(t) /\ terrain'[t] = define(t)
    BY <1>0, <1>6 DEF loadPage
  <2> QED BY <1>1, <1>5, <2>1 DEF Shown
<1>7. CASE unloadPage(t)
  <2>1. Loaded(t) /\ terrain'[t] = {} /\ ~Loaded(t)'
    BY <1>0, <1>7 DEF unloadPage, Loaded
  <2>2. CASE t \in Edited \cup flattened
    BY <2>1, <2>2 DEF LosesEdits
  <2>3. CASE t \notin Edited \cup flattened
    <3>1. terrain[t] = define(t)
      BY <2>1, <2>3 DEF IInv, SavedOK, Edited
    <3> QED BY <1>1, <1>5, <2>1, <3>1 DEF Shown
  <2> QED BY <2>2, <2>3
<1> QED BY <1>6, <1>7

(* A tile that was touched before is listed already (TouchedOK).           *)
LEMMA StorePaints ==
  ASSUME IInv, turns \in Nat, update
  PROVE  [Store!Next]_Store!vars
<1>1. UNCHANGED <<file, tmpfile>> /\ turns' = turns + 1 /\ \A t : define(t)' = define(t)
  BY DEF update, define
<1>2. PICK S \in SUBSET {t \in Tiles : Loaded(t)}, d \in Strengths, c \in stroke :
        IF c \in Channels
        THEN /\ before' = monitorTerrain(S)
             /\ m_editedTiles' = setTileModified(m_editedTiles, {t \in S : ~Touched(t)})
             /\ terrain' = [t \in Tiles |->
                  IF t \in S THEN {[g EXCEPT ![c] = Painted(c, @, d)] : g \in terrain[t]}
                  ELSE terrain[t]]
             /\ UNCHANGED running
        ELSE running' = FALSE /\ UNCHANGED <<before, m_editedTiles, terrain>>
  BY DEF update
<1>3. CASE c \notin Channels
  BY <1>1, <1>2, <1>3, StoreRests
<1>4. CASE c \in Channels
  <2>1. /\ m_editedTiles' = setTileModified(m_editedTiles, {t \in S : ~Touched(t)})
        /\ \A t \in Tiles \ S : terrain'[t] = terrain[t]
    BY <1>2, <1>4
  <2>2. S \in SUBSET Tiles /\ Edited' = Edited \cup S
    <3>1. \A t \in Tiles : m_editedTiles'[t] = "clean" <=>
            m_editedTiles[t] = "clean" /\ ~(t \in S /\ ~Touched(t))
      BY <2>1 DEF setTileModified
    <3>2. \A t \in Tiles : Touched(t) => m_editedTiles[t] # "clean"
      BY DEF IInv, TouchedOK
    <3> QED BY <3>1, <3>2 DEF Edited
  <2>3. \A t \in Tiles \ S : Shown'[t] = Shown[t]
    BY <1>1, <2>1 DEF Shown, Loaded
  <2>4. Saved' = Saved
    BY <1>1 DEF Saved
  <2>5. <<turns, index>>' # <<turns, index>>
    BY <1>1
  <2>6. Store!Edit
    BY <2>2, <2>3, <2>4, <2>5 DEF Store!Edit
  <2> QED BY <2>6 DEF Store!Next
<1> QED BY <1>3, <1>4

LEMMA StoreSlots ==
  ASSUME IInv, NEW A \in SUBSET Tiles, NEW R \in SUBSET Tiles, NEW n, applySlots(A, R, n),
         UNCHANGED <<file, tmpfile>>
  PROVE  LosesEdits \/ [Store!Next]_Store!vars
<1> DEFINE new == {t \in A : ~Loaded(t)}
<1>1. /\ terrain' = [t \in Tiles |-> IF t \in new THEN {Flat} ELSE terrain[t]]
      /\ flattened' = flattened \cup {t \in new : define(t) # {Flat}}
      /\ UNCHANGED m_editedTiles
  BY DEF applySlots
<1>2. \A t : define(t)' = define(t)
  BY DEF define
<1>3. CASE \E t \in new : define(t) # {Flat}
  BY <1>1, <1>3 DEF LosesEdits
<1>4. CASE \A t \in new : define(t) = {Flat}
  <2>1. Saved' = Saved /\ Edited' = Edited
    BY <1>1, <1>2 DEF Saved, Edited
  <2>2. ASSUME NEW t \in Tiles PROVE Shown'[t] = Shown[t]
    <3>1. CASE t \in new
      <4>1. terrain'[t] = {Flat} /\ define(t) = {Flat} /\ ~Loaded(t)
        BY <1>1, <1>4, <3>1
      <4> QED BY <1>2, <4>1 DEF Shown
    <3>2. CASE t \notin new
      <4>1. terrain'[t] = terrain[t]
        BY <1>1, <3>2
      <4> QED BY <1>2, <4>1 DEF Shown, Loaded
    <3> QED BY <3>1, <3>2
  <2>3. Shown' = Shown
    BY <2>2 DEF Shown
  <2> QED BY <2>1, <2>3 DEF Store!Next, Store!Rest
<1> QED BY <1>3, <1>4

LEMMA StoreDeltas ==
  ASSUME IInv, NEW command \in Commands, NEW sign \in {1, -1}, applyDeltas(command, sign),
         UNCHANGED <<file, tmpfile>>, index' # index
  PROVE  [Store!Next]_Store!vars
<1>1. /\ terrain' = [t \in Tiles |-> ChangedTile(terrain[t], command, t, sign)]
      /\ m_editedTiles' = setTileModified(m_editedTiles, Changed(command))
  BY DEF applyDeltas, ChangedTile
<1>2. \A t \in Tiles : t \notin Changed(command) => terrain'[t] = terrain[t]
  BY <1>1, AppliedTile DEF IInv, Types, TilesOK
<1>3. Changed(command) \in SUBSET Tiles /\ Edited' = Edited \cup Changed(command)
  <2>1. \A t \in Tiles : m_editedTiles'[t] = "clean" <=>
          m_editedTiles[t] = "clean" /\ t \notin Changed(command)
    BY <1>1 DEF setTileModified
  <2> QED BY <2>1 DEF Edited, Changed
<1>4. \A t : define(t)' = define(t)
  BY DEF define
<1>5. \A t \in Tiles \ Changed(command) : Shown'[t] = Shown[t]
  BY <1>2, <1>4 DEF Shown, Loaded
<1>6. Saved' = Saved
  BY <1>4 DEF Saved
<1>7. <<turns, index>>' # <<turns, index>>
  OBVIOUS
<1>8. Store!Edit
  BY <1>3, <1>5, <1>6, <1>7 DEF Store!Edit
<1> QED BY <1>8 DEF Store!Next

LEMMA StoreUndoes ==
  ASSUME IInv, undo \/ redo
  PROVE  LosesEdits \/ [Store!Next]_Store!vars
<1>0. UNCHANGED <<file, tmpfile>>
  BY DEF undo, redo
<1>1. index \in Nat /\ Len(stack) \in Nat /\ \A i \in 1..Len(stack) : stack[i] \in Commands
  BY DEF IInv, Types, CommandsOK
<1>2. PICK command \in Commands :
        \/ /\ \/ \E A, R \in {command.add, command.remove}, n \in Int : applySlots(A, R, n)
              \/ \E sign \in {1, -1} : applyDeltas(command, sign)
           /\ index' # index
        \/ UndoRedoFails(command)
  <2>1. CASE undo
    <3>1. index \in 1..Len(stack) /\ index - 1 \in Int /\ index - 1 # index
      BY <2>1 DEF undo, IInv, Types, CommandsOK
    <3>2. stack[index] \in Commands
      BY <1>1, <3>1
    <3>3. \/ /\ \/ applySlots(stack[index].remove, stack[index].add, index - 1)
                \/ applyDeltas(stack[index], -1)
             /\ index' = index - 1
          \/ UndoRedoFails(stack[index])
      BY <2>1 DEF undo
    <3> QED BY <3>1, <3>2, <3>3
  <2>2. CASE redo
    <3>1. index + 1 \in 1..Len(stack) /\ index + 1 # index
      BY <2>2 DEF redo, IInv, Types, CommandsOK
    <3>2. stack[index + 1] \in Commands
      BY <1>1, <3>1
    <3>3. \/ /\ \/ applySlots(stack[index + 1].add, stack[index + 1].remove, index + 1)
                \/ applyDeltas(stack[index + 1], 1)
             /\ index' = index + 1
          \/ UndoRedoFails(stack[index + 1])
      BY <2>2 DEF redo
    <3> QED BY <3>1, <3>2, <3>3
  <2> QED BY <2>1, <2>2
<1>3. CASE \E A, R \in {command.add, command.remove}, n \in Int : applySlots(A, R, n)
  <2>1. PICK A \in SUBSET Tiles, R \in SUBSET Tiles, n \in Int : applySlots(A, R, n)
    BY <1>3 DEF Commands
  <2> QED BY <1>0, <2>1, StoreSlots
<1>4. CASE index' # index /\ \E sign \in {1, -1} : applyDeltas(command, sign)
  BY <1>0, <1>4, StoreDeltas
<1>5. CASE UndoRedoFails(command)
  <2>1. UNCHANGED <<terrain, m_editedTiles>>
    BY <1>5 DEF UndoRedoFails, documentVars
  <2> QED BY <1>0, <2>1, StoreRests
<1> QED BY <1>2, <1>3, <1>4, <1>5

LEMMA StoreClicks ==
  ASSUME IInv, NEW t \in Tiles, NEW add \in BOOLEAN, ClickSlot(add, t)
  PROVE  LosesEdits \/ [Store!Next]_Store!vars
<1> DEFINE command == ModifyTerrainSlot(add, t)
<1>1. applySlots(command.add, command.remove, index) /\ UNCHANGED <<file, tmpfile>>
  BY DEF ClickSlot
<1>2. command.add \in SUBSET Tiles /\ command.remove \in SUBSET Tiles
  BY DEF ModifyTerrainSlot
<1> HIDE DEF command
<1> QED BY <1>1, <1>2, StoreSlots

(* Tiles that are listed are written or renamed, and the others are on the *)
(* disk already (SavedOK).                                                 *)
LEMMA StoreSaves ==
  ASSUME IInv, saveTiles
  PROVE  LosesEdits \/ [Store!Next]_Store!vars
<1>1. /\ m_editedTiles' = [t \in Tiles |-> "clean"] /\ flattened' = flattened \ Edited
      /\ waiting' = waiting - 1 /\ UNCHANGED terrain
      /\ \A t \in Tiles : t \in Edited =>
           /\ file'[t] = IF Loaded(t) THEN terrain[t] ELSE IF tmpfile[t] # {} THEN tmpfile[t] ELSE file[t]
           /\ tmpfile'[t] = {}
      /\ \A t \in Tiles : t \notin Edited => file'[t] = file[t] /\ tmpfile'[t] = tmpfile[t]
  BY DEF saveTiles, RemoveTemporary
<1>2. CASE flattened' # {}
  <2>1. waiting' < waiting
    BY <1>1 DEF IInv, Types, FlagsOK
  <2> QED BY <1>2, <2>1 DEF LosesEdits
<1>3. CASE flattened' = {}
  <2>1. Edited' = {}
    BY <1>1 DEF Edited
  <2>2. ASSUME NEW t \in Tiles
        PROVE  define(t)' = Shown[t] /\ (~Loaded(t) => define(t)' = define(t))
    <3>1. CASE t \in Edited
      BY <1>1, <3>1 DEF define, Shown, Loaded
    <3>2. CASE t \notin Edited
      <4>1. define(t)' = define(t)
        BY <1>1, <3>2 DEF define
      <4>2. Loaded(t) => terrain[t] = define(t)
        BY <1>1, <1>3, <3>2 DEF IInv, SavedOK, Edited
      <4> QED BY <4>1, <4>2 DEF Shown
    <3> QED BY <3>1, <3>2
  <2>3. Saved' = Shown
    BY <2>2 DEF Saved, Shown
  <2>4. Shown' = Shown
    BY <1>1, <2>2 DEF Shown, Loaded
  <2> QED BY <2>1, <2>3, <2>4 DEF Store!Next, Store!Save
<1> QED BY <1>2, <1>3

LEMMA StoreStep ==
  IInv /\ turns \in Nat /\ [Next]_vars => LosesEdits \/ [Store!Next]_Store!vars
<1> SUFFICES ASSUME IInv, turns \in Nat, [Next]_vars PROVE LosesEdits \/ [Store!Next]_Store!vars
  OBVIOUS
<1>1. CASE \E t \in Tiles : loadPage(t) \/ unloadPage(t)
  BY <1>1, StorePages
<1>2. CASE startStroke \/ stopStroke \/ StrokeFails \/ save \/ UNCHANGED vars
  <2>1. UNCHANGED <<terrain, file, tmpfile, m_editedTiles>>
    BY <1>2 DEF startStroke, stopStroke, StrokeFails, save, vars, documentVars
  <2> QED BY <2>1, StoreRests
<1>3. CASE update
  BY <1>3, StorePaints
<1>4. CASE undo \/ redo
  BY <1>4, StoreUndoes
<1>5. CASE \E t \in Tiles, add \in BOOLEAN : ClickSlot(add, t)
  BY <1>5, StoreClicks
<1>6. CASE saveTiles
  BY <1>6, StoreSaves
<1> QED BY <1>1, <1>2, <1>3, <1>4, <1>5, <1>6 DEF Next

LEMMA TurnsCounted == Spec => [](turns \in Nat)
<1>1. Init => turns \in Nat
  BY DEF Init
<1>2. turns \in Nat /\ [Next]_vars => (turns \in Nat)'
  BY DEF Next, vars, loadPage, unloadPage, startStroke, stopStroke, StrokeFails, update, undo, redo,
     ClickSlot, save, saveTiles, counters
<1> QED BY <1>1, <1>2, PTL DEF Spec

(* Every step that does not lose edits is one of the abstract store: what  *)
(* is shown changes only by what the user does, in tiles that save will    *)
(* write, save brings all tiles to the disk, and paging changes nothing    *)
(* (campaignmanager.cpp:206-231, 274-309).                                 *)
THEOREM StoreAlwaysKept == Spec => StoreKept
<1>1. IInv /\ turns \in Nat /\ [Next]_vars => [LosesEdits \/ [Store!Next]_Store!vars]_vars
  BY StoreStep
<1> QED BY <1>1, AlwaysIInv, TurnsCounted, PTL DEF Spec, StoreKept

(* As long as no edited tile is paged out and no slot command loads a tile *)
(* as flat that is not, the editor implements the abstract store.          *)
THEOREM TilesImplementStore == Spec /\ [][~LosesEdits]_vars => Store!Spec
<1>1. Init => Store!Init
  <2> SUFFICES ASSUME Init PROVE Store!Init
    OBVIOUS
  <2>1. \A t \in Tiles : ~Loaded(t) /\ m_editedTiles[t] = "clean"
    BY DEF Init, Loaded, NoTile
  <2>2. Shown = Saved /\ Edited = {}
    BY <2>1 DEF Shown, Saved, Edited
  <2> QED BY <2>2 DEF Store!Init
<1>2. IInv /\ turns \in Nat /\ [Next]_vars /\ [~LosesEdits]_vars => [Store!Next]_Store!vars
  <2> SUFFICES ASSUME IInv, turns \in Nat, [Next]_vars, [~LosesEdits]_vars
               PROVE  [Store!Next]_Store!vars
    OBVIOUS
  <2>1. CASE UNCHANGED vars
    <3>1. UNCHANGED <<terrain, file, tmpfile, m_editedTiles>>
      BY <2>1 DEF vars, documentVars
    <3> QED BY <3>1, StoreRests
  <2>2. CASE ~LosesEdits
    BY <2>2, StoreStep
  <2> QED BY <2>1, <2>2
<1> QED BY <1>1, <1>2, AlwaysIInv, TurnsCounted, PTL DEF Spec, Store!Spec
==============================================================================
