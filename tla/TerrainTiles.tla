---------------------------- MODULE TerrainTiles ----------------------------
(***************************************************************************)
(* The terrain of an open campaign in the editor: tiles that the pager     *)
(* loads and unloads, slots, strokes of the brush on heights and on blend  *)
(* layers, the undo stack they share, and saving (editor/                  *)
(* campaignmanager.cpp, editableterrainpagedworldsection.cpp, brush.cpp,   *)
(* undocommands.cpp).                                                      *)
(*                                                                         *)
(* A tile is one number in each channel: its height, and one for each      *)
(* blend layer.  What may be absent is a set of at most one element: the   *)
(* content of a tile that is not loaded, of a file that does not exist,    *)
(* what a command has changed of a tile it does not touch is {}.           *)
(*                                                                         *)
(* The editor does not run in the campaign's directory world/, so that the *)
(* files it writes without a path are not those it reads: the "~" files of *)
(* unloadPage are lost, and one in world/ is from an earlier run that was  *)
(* started there.                                                          *)
(***************************************************************************)
EXTENDS Integers, Sequences, FiniteSets, FiniteSetsExt

CONSTANTS
  Tiles,
  Layers,          \* the blend layers of a tile, 1..4 in the code
  BlendLayers,     \* what the toolbar and the spin box offer, 0..7
  OldDisks,        \* slots and files that may be there when a campaign opens
  Strengths,       \* what one turn of the brush adds
  Opaque,          \* the largest value of a blend layer
  MaxCommands,     \* bound: commands on the undo stack
  MaxTurns,        \* bound: turns of the brush
  MaxLoads,        \* bound: loads of tiles, from the disk or flat
  MaxWaiting       \* bound: calls of save that wait at the same time

Height == 0
Channels == {Height} \cup Layers
Flat == [c \in Channels |-> 0]
IsOptional(f, S) == f \subseteq S /\ Cardinality(f) <= 1
IsTile(f) == f = {} \/ \E g \in f : f = {g} /\ g \in [Channels -> Int]

ASSUME TilesAssumption ==
  /\ Layers \subseteq Nat \ {0} /\ Layers \subseteq BlendLayers /\ BlendLayers \subseteq Nat
  /\ \A disk \in OldDisks :
       /\ disk.slots \subseteq Tiles
       /\ \A t \in Tiles : IsTile(disk.file[t]) /\ IsTile(disk.tmpfile[t])
  /\ Strengths \subseteq Int /\ Opaque \in Nat
  /\ MaxCommands \in Nat /\ MaxTurns \in Nat /\ MaxLoads \in Nat /\ MaxWaiting \in Nat

VARIABLES
  definedSlots,    \* m_definedTerrainSlots
  terrain,         \* contents of the loaded tiles
  file, tmpfile,   \* contents of world/tile and of world/~tile
  m_editedTiles,   \* "clean": not in the list, or "edited", or "unpaged"
  stack, index,    \* QUndoStack: commands, and how many of them are done
  stroke, before,  \* m_currentCommand: its channel, values at its first touch
  m_enabled,       \* of the brush
  waiting,         \* calls of save that wait for terrain updates
  turns, loads,    \* counters for the bounds
  running,         \* FALSE after a null pointer, an exception, an assertion
  base, mixed,     \* history: contents without all commands; see HistoryAddsUp
  flattened        \* history: tiles a slot command has made flat

documentVars == <<definedSlots, terrain, file, tmpfile, m_editedTiles>>
commandVars == <<stack, index, stroke, before>>
counters == <<turns, loads>>
historyVars == <<base, mixed, flattened>>
vars == <<documentVars, commandVars, m_enabled, waiting, counters, running, historyVars>>

Loaded(t) == terrain[t] # {}
Touched(t) == before[t] # {}
NoTile == [t \in Tiles |-> {}]

Init ==
  /\ \E disk \in OldDisks :
       definedSlots = disk.slots /\ file = disk.file /\ tmpfile = disk.tmpfile
  /\ terrain = NoTile
  /\ m_editedTiles = [t \in Tiles |-> "clean"]
  /\ stack = <<>> /\ index = 0
  /\ stroke = {} /\ before = NoTile
  /\ m_enabled = TRUE
  /\ waiting = 0 /\ turns = 0 /\ loads = 0
  /\ running = TRUE
  /\ base = [t \in Tiles |-> Flat] /\ mixed = FALSE /\ flattened = {}

(* A command on the stack: a HeightmapEdit, or a BlendmapEdit of the layer *)
(* channel, or, with a slot instead of a delta, a ModifyTerrainSlot.       *)
Edit(channel, delta) == [channel |-> channel, delta |-> delta, add |-> {}, remove |-> {}]
ModifyTerrainSlot(add, t) ==
  [channel |-> Height, delta |-> NoTile,
   add |-> IF add THEN {t} ELSE {}, remove |-> IF add THEN {} ELSE {t}]

setTileModified(edited, S) ==
  [t \in Tiles |-> IF t \in S /\ edited[t] = "clean" THEN "edited" ELSE edited[t]]

(* What a command adds to a channel of a tile, and what those that are     *)
(* done, the first n, have added.                                          *)
AddedBy(command, c, t) ==
  IF command.channel # c \/ command.delta[t] = {} THEN 0
  ELSE CHOOSE d \in command.delta[t] : TRUE
Applied(n, t) ==
  LET sum[k \in 0..n] ==
        IF k = 0 THEN Flat
        ELSE [c \in Channels |-> sum[k - 1][c] + AddedBy(stack[k], c, t)]
  IN  sum[n]
BaseOf(content, n, t) == [c \in Channels |-> content[c] - Applied(n, t)[c]]

----------------------------------------------------------------------------
(* Paging *)

(* What the definer has the pager load: "~" file, file, or flat terrain. *)
define(t) ==
  IF tmpfile[t] # {} THEN tmpfile[t] ELSE IF file[t] # {} THEN file[t] ELSE {Flat}

loadPage(t) ==
  /\ running /\ ~Loaded(t) /\ t \in definedSlots /\ loads < MaxLoads /\ loads' = loads + 1
  /\ terrain' = [terrain EXCEPT ![t] = define(t)]
  /\ \E g \in define(t) : base' = [base EXCEPT ![t] = BaseOf(g, index, t)]
  /\ mixed' = (mixed \/ Touched(t))
  /\ UNCHANGED <<definedSlots, file, tmpfile, m_editedTiles, commandVars, m_enabled, waiting,
                 turns, running, flattened>>

setTileUnpaged(t) ==
  [m_editedTiles EXCEPT ![t] = IF @ = "clean" THEN @ ELSE "unpaged"]

(* A modified tile that is being updated stays; nothing changes then.  The *)
(* file of one that is paged out is written to the working directory.      *)
unloadPage(t) ==
  /\ running /\ Loaded(t)
  /\ m_editedTiles' = setTileUnpaged(t)
  /\ terrain' = [terrain EXCEPT ![t] = {}] /\ base' = [base EXCEPT ![t] = Flat]
  /\ flattened' = flattened \ {t}
  /\ UNCHANGED <<definedSlots, file, tmpfile, commandVars, m_enabled, waiting, counters,
                 running, mixed>>

----------------------------------------------------------------------------
(* Strokes *)

Values(t) == {g[c] : g \in terrain[t], c \in stroke \cap Channels}
Delta == [t \in Tiles |-> {new - old : new \in Values(t), old \in before[t]}]

(* finalize reads the tiles of the command, loaded or not. *)
Dangling == \E t \in Tiles : Touched(t) /\ ~Loaded(t)

PushStroke ==
  /\ ~Dangling
  /\ IF stroke # {}
     THEN /\ \E c \in stroke : stack' = Append(SubSeq(stack, 1, index), Edit(c, Delta))
          /\ index' = index + 1
     ELSE UNCHANGED <<stack, index>>

(* Mutant: the changes of the command stay. *)
EndStrokeKeeping == PushStroke /\ before' = before

(* stopStroke: the command, if there is one, goes onto the stack in place  *)
(* of the undone ones; the stack's redo() is the one that does nothing.    *)
EndStroke == PushStroke /\ before' = NoTile

(* What a stroke begins with: a HeightmapEdit in the height modes, a       *)
(* BlendmapEdit when a layer other than the ground is painted, else no     *)
(* command.  Mode and layer are any that were chosen before: setMode ends  *)
(* a stroke, and setBlendLayer is nothing to one that runs.                *)
newCommand == {{Height}, {}} \cup {{layer} : layer \in BlendLayers \ {0}}

startStroke ==
  /\ running /\ m_enabled
  /\ EndStroke /\ stroke' \in newCommand /\ (stroke' # {} => index' < MaxCommands)
  /\ UNCHANGED <<documentVars, m_enabled, waiting, counters, running, historyVars>>

(* The button is released, or the mode of the brush changes. *)
stopStroke ==
  /\ running /\ stroke # {}
  /\ EndStroke /\ stroke' = {}
  /\ UNCHANGED <<documentVars, m_enabled, waiting, counters, running, historyVars>>

(* Any stopStroke when a tile of the stroke has been paged out. *)
StrokeFails ==
  /\ running /\ Dangling
  /\ running' = FALSE
  /\ UNCHANGED <<documentVars, commandVars, m_enabled, waiting, counters, historyVars>>

(* Mutant: the values are taken again on each turn. *)
monitorTerrainAgain(S) == [t \in Tiles |-> IF t \in S THEN Values(t) ELSE before[t]]

(* The values of a tile are kept when a stroke reaches it first. *)
monitorTerrain(S) == [t \in Tiles |-> IF t \in S /\ ~Touched(t) THEN Values(t) ELSE before[t]]

(* The new value of a point of a tile; a blend layer is clamped. *)
Painted(c, v, d) == IF c = Height THEN v + d ELSE Max({0, Min({Opaque, v + d})})

(* A turn changes the loaded tiles the brush reaches.  Those it has reached *)
(* before in this stroke are not entered in m_editedTiles again.            *)
update ==
  /\ running /\ stroke # {} /\ turns < MaxTurns /\ turns' = turns + 1
  /\ \E S \in SUBSET {t \in Tiles : Loaded(t)} \ {{}}, d \in Strengths, c \in stroke :
       IF c \in Channels
       THEN /\ before' = monitorTerrain(S)
            /\ m_editedTiles' = setTileModified(m_editedTiles, {t \in S : ~Touched(t)})
            /\ terrain' = [t \in Tiles |->
                 IF t \in S THEN {[g EXCEPT ![c] = Painted(c, @, d)] : g \in terrain[t]}
                 ELSE terrain[t]]
            /\ UNCHANGED running
       ELSE running' = FALSE /\ UNCHANGED <<before, m_editedTiles, terrain>>
  /\ UNCHANGED <<definedSlots, file, tmpfile, stack, index, stroke, m_enabled, waiting, loads,
                 historyVars>>

----------------------------------------------------------------------------
(* Undo and redo; the actions of the menu do not depend on m_enabled *)

Changed(command) == {t \in Tiles : command.delta[t] # {}}

(* A tile that is not loaded is asked for under a name without path, where *)
(* there is no file: an assertion about its size fails.  A blend layer of  *)
(* such a tile is changed in a copy of its file, if there is one, that     *)
(* goes to the working directory; whether the library gives a blend map of *)
(* a tile that is only prepared is left open.                              *)
CanApply(command) ==
  \A t \in Changed(command) :
    Loaded(t) \/ (command.channel # Height /\ file[t] # {})

applyDeltas(command, sign) ==
  /\ terrain' = [t \in Tiles |->
       {[c \in Channels |-> g[c] + sign * AddedBy(command, c, t)] : g \in terrain[t]}]
  /\ m_editedTiles' = setTileModified(m_editedTiles, Changed(command))
  /\ mixed' = (mixed \/ \E t \in Changed(command) : Touched(t))
  /\ UNCHANGED <<definedSlots, base, flattened, loads>>

(* Slots in A are defined and those in R are not any more; n commands are  *)
(* done then.  A tile of a slot in A that is not loaded is loaded as flat, *)
(* whatever the disk has of it; one of a slot in R stays loaded.           *)
applySlots(A, R, n) ==
  LET new == {t \in A : ~Loaded(t)} IN
  /\ loads + Cardinality(new) <= MaxLoads /\ loads' = loads + Cardinality(new)
  /\ definedSlots' = (definedSlots \cup A) \ R
  /\ terrain' = [t \in Tiles |-> IF t \in new THEN {Flat} ELSE terrain[t]]
  /\ base' = [t \in Tiles |-> IF t \in new THEN BaseOf(Flat, n, t) ELSE base[t]]
  /\ flattened' = flattened \cup {t \in new : define(t) # {Flat}}
  /\ mixed' = (mixed \/ \E t \in new : Touched(t))
  /\ UNCHANGED m_editedTiles

IsSlotCommand(command) == command.add \cup command.remove # {}

UndoRedoFails(command) ==
  /\ \E t \in Changed(command) : ~Loaded(t)
  /\ running' = FALSE
  /\ UNCHANGED <<documentVars, index, loads, historyVars>>

undo ==
  /\ running /\ index > 0
  /\ LET command == stack[index] IN
       \/ /\ IF IsSlotCommand(command)
             THEN applySlots(command.remove, command.add, index - 1)
             ELSE CanApply(command) /\ applyDeltas(command, -1)
          /\ index' = index - 1 /\ UNCHANGED running
       \/ UndoRedoFails(command)
  /\ UNCHANGED <<file, tmpfile, stack, stroke, before, m_enabled, waiting, turns>>

redo ==
  /\ running /\ index < Len(stack) /\ (stroke # {} => index + 1 < MaxCommands)
  /\ LET command == stack[index + 1] IN
       \/ /\ IF IsSlotCommand(command)
             THEN applySlots(command.add, command.remove, index + 1)
             ELSE CanApply(command) /\ applyDeltas(command, 1)
          /\ index' = index + 1 /\ UNCHANGED running
       \/ UndoRedoFails(command)
  /\ UNCHANGED <<file, tmpfile, stack, stroke, before, m_enabled, waiting, turns>>

(* A click on a slot: the stack's push does the command.  The widget does  *)
(* not always know whether the slot is defined (see SlotEditor).           *)
ClickSlot(add, t) ==
  LET command == ModifyTerrainSlot(add, t) IN
  /\ running /\ index < MaxCommands /\ (stroke # {} => index + 1 < MaxCommands)
  /\ stack' = Append(SubSeq(stack, 1, index), command) /\ index' = index + 1
  /\ applySlots(command.add, command.remove, index)
  /\ UNCHANGED <<file, tmpfile, stroke, before, m_enabled, waiting, turns, running>>

----------------------------------------------------------------------------
(* Saving *)

(* Mutant: a stroke goes on while the brush is disabled. *)
strokeGoesOn == UNCHANGED commandVars

(* initProgress disables the brush; setEnabled(false) ends the stroke. *)
initProgress == EndStroke /\ stroke' = {}

(* save begins to wait and handles events meanwhile, a further save too. *)
save ==
  /\ running /\ waiting < MaxWaiting
  /\ initProgress /\ m_enabled' = FALSE
  /\ waiting' = waiting + 1
  /\ UNCHANGED <<documentVars, counters, running, historyVars>>

(* No terrain is updated any more: the innermost save goes on to its end,  *)
(* where doneProgress enables the brush, whether or not another one waits. *)
Edited == {t \in Tiles : m_editedTiles[t] # "clean"}

(* Mutant: only a "~" file that was renamed is gone. *)
RenameTemporary == [t \in Tiles |-> IF t \in Edited /\ ~Loaded(t) THEN {} ELSE tmpfile[t]]

RemoveTemporary == [t \in Tiles |-> IF t \in Edited THEN {} ELSE tmpfile[t]]

saveTiles ==
  /\ running /\ waiting > 0
  /\ initProgress /\ m_enabled' = TRUE
  /\ file' = [t \in Tiles |->
       IF t \notin Edited THEN file[t]
       ELSE IF Loaded(t) THEN terrain[t]
       ELSE IF tmpfile[t] # {} THEN tmpfile[t]
       ELSE file[t]]
  /\ tmpfile' = RemoveTemporary
  /\ m_editedTiles' = [t \in Tiles |-> "clean"]
  /\ waiting' = waiting - 1
  /\ flattened' = flattened \ Edited
  /\ UNCHANGED <<definedSlots, terrain, counters, running, base, mixed>>

Next ==
  \/ \E t \in Tiles : loadPage(t) \/ unloadPage(t)
  \/ startStroke \/ stopStroke \/ StrokeFails \/ update
  \/ undo \/ redo
  \/ \E t \in Tiles, add \in BOOLEAN : ClickSlot(add, t)
  \/ save \/ saveTiles

Spec == Init /\ [][Next]_vars

----------------------------------------------------------------------------
(* Properties *)

(* Types; only a stroke that runs has touched tiles (m_currentCommand),    *)
(* and what is undone and done is on the stack.                            *)
TypeOK ==
  /\ definedSlots \subseteq Tiles /\ flattened \subseteq Tiles
  /\ \A t \in Tiles :
       /\ IsTile(terrain[t]) /\ IsTile(file[t]) /\ IsTile(tmpfile[t])
       /\ IsOptional(before[t], Int)
       /\ m_editedTiles[t] \in {"clean", "edited", "unpaged"}
       /\ Touched(t) => stroke # {}
  /\ IsOptional(stroke, BlendLayers \cup {Height})
  /\ index \in 0..Len(stack)
  /\ waiting \in 0..MaxWaiting
  /\ {m_enabled, running, mixed} \subseteq BOOLEAN

(* A loaded tile that is not in m_editedTiles, and that save will thus     *)
(* leave out, is as on the disk; also after strokes, undo and redo while a *)
(* save waits, nested saves and paging.  Excepted are tiles that a slot    *)
(* command has made flat (ModifyTerrainSlot::add), see README.md.          *)
UnlistedAreSaved ==
  running => \A t \in Tiles :
    Loaded(t) /\ m_editedTiles[t] = "clean" => terrain[t] = define(t) \/ t \in flattened

(* The commands that are done account for all changes since a tile was     *)
(* loaded, up to those of the stroke that runs: undoing all of them gives  *)
(* the tile without them (HeightmapEdit, BlendmapEdit), also when a layer  *)
(* was clamped.  Excepted, as mixed, are an undo of a tile that the        *)
(* running stroke has touched and the paging of such a tile, which get     *)
(* into the delta of the stroke.                                           *)
BeforeStroke(g, c, t) == IF Touched(t) /\ c \in stroke THEN before[t] ELSE {g[c]}
HistoryAddsUp ==
  running /\ ~mixed => \A t \in Tiles : \A g \in terrain[t], c \in Channels :
    BeforeStroke(g, c, t) = {base[t][c] + Applied(index, t)[c]}

(* The abstract store: a tile that is not loaded shows what would be       *)
(* loaded, and that is also what the disk has of one that is.              *)
Shown == [t \in Tiles |-> IF Loaded(t) THEN terrain[t] ELSE define(t)]
Saved == [t \in Tiles |-> define(t)]
Store == INSTANCE TerrainStore
  WITH shown <- Shown, saved <- Saved, dirty <- Edited, user <- <<turns, index>>

(* A step that loses what was shown: it pages out a tile that is not       *)
(* saved, loads a tile as flat that is not flat on the disk, or leaves     *)
(* such a tile out of what it saves.                                       *)
LosesEdits ==
  \/ \E t \in Tiles : Loaded(t) /\ ~Loaded(t)' /\ t \in Edited \cup flattened
  \/ \E t \in Tiles : ~Loaded(t) /\ t \in flattened'
  \/ waiting' < waiting /\ flattened' # {}

(* Every other step is one of the store: what is shown changes only by     *)
(* what the user does, and then in tiles that are listed; each save brings *)
(* all tiles to the disk, those it leaves out and those not loaded, too;   *)
(* paging changes nothing (campaignmanager.cpp:206-231, 274-309).          *)
StoreKept == [][LosesEdits \/ [Store!Next]_Store!vars]_vars

=============================================================================
