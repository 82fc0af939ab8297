----------------------------- MODULE SlotEditor -----------------------------
(***************************************************************************)
(* The slots of the editor's campaign: the list in CampaignManager, its    *)
(* boundary and its file, the table of the slot editor with a widget per   *)
(* slot, and the commands its clicks push (editor/sloteditor.cpp,          *)
(* campaignmanager.cpp, undocommands.cpp).  What a slot command does to    *)
(* the terrain is the business of TerrainTiles.                            *)
(*                                                                         *)
(* A slot is <<x, y>>, as packIndex has it.  The table is the sequence of  *)
(* its columns, each the sequence of its widgets from the top; columns and *)
(* rows are counted from 0 as in the code.                                 *)
(***************************************************************************)
EXTENDS Integers, Sequences, SequencesExt, FiniteSetsExt

CONSTANTS
  OldScenes,       \* what the scene file may hold at first: at most one list
  MaxColumns, MaxRows,  \* bound: size of the table
  MaxCommands,     \* bound: clicks in one run of the editor
  MaxRuns          \* bound: starts of the editor

ASSUME SlotsAssumption ==
  /\ MaxColumns \in Nat \ {0} /\ MaxRows \in Nat \ {0}
  /\ MaxCommands \in Nat /\ MaxRuns \in Nat \ {0}
  /\ \A f \in OldScenes : \A slots \in f :
       IsInjective(slots) /\ slots \in Seq(Int \X Int)

VARIABLES
  document,        \* "none", "open", "down"
  definedSlots,    \* m_definedTerrainSlots
  boundary,        \* m_slotBoundary
  table, rowCount,  \* of the slot editor
  stack, index,    \* QUndoStack: commands, and how many of them are done
  scene,           \* the scene file: {} or the one list in it
  runs, pushed,    \* starts of the editor, commands pushed in this one
  base,            \* history: the slots when the campaign was opened
  misled           \* history: a click did not change whether its slot is defined

campaignVars == <<definedSlots, boundary>>
tableVars == <<table, rowCount>>
stackVars == <<stack, index>>
historyVars == <<base, misled, pushed>>
vars == <<document, campaignVars, tableVars, stackVars, scene, runs, historyVars>>

Rect(left, top, right, bottom) ==
  [left |-> left, top |-> top, right |-> right, bottom |-> bottom]

Started ==
  /\ document = "none" /\ definedSlots = <<>> /\ boundary = Rect(0, 0, 0, 0)
  /\ table = <<>> /\ rowCount = 0 /\ stack = <<>> /\ index = 0
  /\ base = {} /\ misled = FALSE /\ pushed = 0

Init == Started /\ scene \in OldScenes /\ runs = 1

Defined(slot) == slot \in ToSet(definedSlots)

(* Each side moves when a slot lies beyond it. *)
Widened(r, s) ==
  Rect(IF r.left > s[1] THEN s[1] ELSE r.left, IF r.top > s[2] THEN s[2] ELSE r.top,
       IF r.right < s[1] THEN s[1] ELSE r.right, IF r.bottom < s[2] THEN s[2] ELSE r.bottom)

(* updateSlotBoundary, for the slots there will be: from the first slot on. *)
updateSlotBoundary(slots) ==
  IF slots = <<>> THEN Rect(0, 0, 0, 0)
  ELSE FoldLeft(Widened, Rect(slots[1][1], slots[1][2], slots[1][1], slots[1][2]), slots)

----------------------------------------------------------------------------
(* The table *)

Widget(slot, defined) == [slot |-> slot, defined |-> defined]
Columns == Len(table)

(* Division of integers in C++. *)
Half(n) == IF n >= 0 THEN n \div 2 ELSE -((-n) \div 2)

(* tableToSlot and slotToTable, for a table of so many columns and rows. *)
Shift(columns, rows, b) ==
  <<Half(columns - b.right + b.left) - b.left, Half(rows - b.bottom + b.top) - b.top>>
tableToSlot(column, row, columns, rows, b) ==
  <<column - Shift(columns, rows, b)[1], row - Shift(columns, rows, b)[2]>>
slotToTable(slot, columns, rows, b) ==
  <<slot[1] + Shift(columns, rows, b)[1], slot[2] + Shift(columns, rows, b)[2]>>

(* Mutant: the last column and row are forgotten. *)
populateTooSmall(slots, b) ==
  [c \in 1..(b.right - b.left) |-> [r \in 1..(b.bottom - b.top) |->
     LET slot == tableToSlot(c - 1, r - 1, b.right - b.left, b.bottom - b.top, b)
     IN  Widget(slot, slot \in ToSet(slots))]]

(* Mutant: rows and columns are mixed up. *)
populateTurned(slots, b) ==
  [c \in 1..(b.bottom - b.top + 1) |-> [r \in 1..(b.right - b.left + 1) |->
     LET slot == <<b.left + c - 1, b.top + r - 1>>
     IN  Widget(slot, slot \in ToSet(slots))]]

(* populate: a widget for every place of the boundary, those of the slots  *)
(* in the list as defined.                                                 *)
populate(slots, b) ==
  LET columns == b.right - b.left + 1
      rows    == b.bottom - b.top + 1
      places  == {slotToTable(s, columns, rows, b) : s \in ToSet(slots)}
  IN  [c \in 1..columns |-> [r \in 1..rows |->
         Widget(tableToSlot(c - 1, r - 1, columns, rows, b), <<c - 1, r - 1>> \in places)]]

(* The new column or row comes last if the count was odd, else first.  The *)
(* slots of its widgets are reckoned with the new count.                   *)
InsertIdx(count) == IF count % 2 = 1 THEN count ELSE 0

(* Without a document a null pointer is asked for its boundary, as soon as *)
(* there are columns and rows.                                             *)
AskNull == document' = "down" /\ UNCHANGED tableVars

addColumn ==
  /\ document # "down" /\ Columns < MaxColumns
  /\ IF document = "none" /\ rowCount > 0
     THEN AskNull
     ELSE LET c      == InsertIdx(Columns)
              column == [r \in 1..rowCount |->
                           Widget(tableToSlot(c, r - 1, Columns + 1, rowCount, boundary), FALSE)]
          IN  table' = InsertAt(table, c + 1, column) /\ UNCHANGED <<document, rowCount>>
  /\ UNCHANGED <<campaignVars, stackVars, scene, runs, historyVars>>

addRow ==
  /\ document # "down" /\ rowCount < MaxRows
  /\ IF document = "none" /\ table # <<>>
     THEN AskNull
     ELSE LET r == InsertIdx(rowCount)
          IN  /\ table' = [c \in 1..Columns |->
                   InsertAt(table[c], r + 1,
                            Widget(tableToSlot(c - 1, r, Columns, rowCount + 1, boundary), FALSE))]
              /\ rowCount' = rowCount + 1 /\ UNCHANGED document
  /\ UNCHANGED <<campaignVars, stackVars, scene, runs, historyVars>>

----------------------------------------------------------------------------
(* Commands *)

ModifyTerrainSlot(isAdd, slot) == [add |-> isAdd, slot |-> slot]

(* Mutant: the list is not searched. *)
addUnchecked(slot) == Append(definedSlots, slot)

add(slot) == IF Defined(slot) THEN definedSlots ELSE Append(definedSlots, slot)

(* The loop erases while it counts on: of two equal entries next to each   *)
(* other the second would stay.                                            *)
remove(slot) ==
  IF Defined(slot) THEN RemoveAt(definedSlots, CHOOSE i \in DOMAIN definedSlots :
                                   definedSlots[i] = slot)
                   ELSE definedSlots

Modify(isAdd, slot) ==
  /\ definedSlots' = IF isAdd THEN add(slot) ELSE remove(slot)
  /\ boundary' = updateSlotBoundary(definedSlots')

(* The command of a click, for what the widget shows from now on. *)
CommandOf(widget) == ModifyTerrainSlot(~widget.defined, widget.slot)

myClicked ==
  /\ document = "open" /\ pushed < MaxCommands /\ pushed' = pushed + 1
  /\ \E c \in 1..Columns : \E r \in 1..rowCount :
       LET command == CommandOf(table[c][r])
       IN  /\ table' = [table EXCEPT ![c][r].defined = ~@]
           /\ stack' = Append(SubSeq(stack, 1, index), command) /\ index' = index + 1
           /\ Modify(command.add, command.slot)
           /\ misled' = (misled \/ command.add = Defined(command.slot))
  /\ UNCHANGED <<document, rowCount, scene, runs, base>>

(* Mutant: the direction of the command is not asked. *)
UndoDirectionOnce(command) == TRUE

UndoAdds(command) == ~command.add

undo ==
  /\ document = "open" /\ index > 0
  /\ Modify(UndoAdds(stack[index]), stack[index].slot)
  /\ index' = index - 1
  /\ UNCHANGED <<document, tableVars, stack, scene, runs, historyVars>>

redo ==
  /\ document = "open" /\ index < Len(stack)
  /\ Modify(stack[index + 1].add, stack[index + 1].slot)
  /\ index' = index + 1
  /\ UNCHANGED <<document, tableVars, stack, scene, runs, historyVars>>

----------------------------------------------------------------------------
(* The document *)

Open(slots) ==
  /\ document' = "open"
  /\ definedSlots' = slots
  /\ boundary' = updateSlotBoundary(slots)
  /\ table' = populate(slots, boundary')
  /\ rowCount' = boundary'.bottom - boundary'.top + 1
  /\ base' = ToSet(slots)
  /\ UNCHANGED <<stackVars, scene, runs, misled, pushed>>

(* The menu's New, and its Open.  Without a scene file a null pointer is   *)
(* used; a list without slots fails an assertion.                          *)
initialize == document = "none" /\ Open(<< <<0, 0>> >>)

load ==
  /\ document = "none"
  /\ \/ \E slots \in scene : slots # <<>> /\ Open(slots)
     \/ /\ scene \subseteq {<<>>} /\ document' = "down"
        /\ UNCHANGED <<campaignVars, tableVars, stackVars, scene, runs, historyVars>>

(* A second campaign: the constructor throws an exception. *)
OpenAgain ==
  /\ document = "open" /\ document' = "down"
  /\ UNCHANGED <<campaignVars, tableVars, stackVars, scene, runs, historyVars>>

save ==
  /\ document = "open" /\ scene' = {definedSlots}
  /\ UNCHANGED <<document, campaignVars, tableVars, stackVars, runs, historyVars>>

(* The editor is closed, or has crashed, and is started again. *)
Restart ==
  /\ runs < MaxRuns /\ runs' = runs + 1
  /\ document' = "none" /\ definedSlots' = <<>> /\ boundary' = Rect(0, 0, 0, 0)
  /\ table' = <<>> /\ rowCount' = 0 /\ stack' = <<>> /\ index' = 0
  /\ base' = {} /\ misled' = FALSE /\ pushed' = 0
  /\ UNCHANGED scene

Next ==
  \/ addColumn \/ addRow \/ myClicked \/ undo \/ redo
  \/ initialize \/ load \/ OpenAgain \/ save \/ Restart

Spec == Init /\ [][Next]_vars

----------------------------------------------------------------------------
Slots == Int \X Int

TypeOK ==
  /\ document \in {"none", "open", "down"}
  /\ ToSet(definedSlots) \subseteq Slots
  /\ boundary \in [left : Int, top : Int, right : Int, bottom : Int]
  /\ \A c \in 1..Columns :
       /\ Len(table[c]) = rowCount
       /\ \A r \in 1..rowCount : table[c][r].slot \in Slots /\ table[c][r].defined \in BOOLEAN
  /\ index \in 0..Len(stack)
  /\ runs \in 1..MaxRuns
  /\ misled \in BOOLEAN

(* No slot is twice in the list, nor in the scene file, also if the table  *)
(* has several widgets for it: remove relies on that                       *)
(* (undocommands.cpp:229-231, 243-247).                                    *)
SlotsOnce == IsInjective(definedSlots) /\ \A slots \in scene : IsInjective(slots)

(* Every slot that is defined has a widget that can undefine it, however   *)
(* columns and rows were inserted, and so has every slot of a command.     *)
Shown == UNION {{w.slot : w \in ToSet(column)} : column \in ToSet(table)}
SlotsHaveWidgets ==
  document = "open" =>
    ToSet(definedSlots) \cup {command.slot : command \in ToSet(stack)} \subseteq Shown

(* The slots that are defined are those of the opened campaign with the    *)
(* commands that are done: of several for a slot the last one counts.      *)
(* Undo leads back to where a click has found the slots, unless a widget   *)
(* was wrong about its slot when it was clicked: the command then does     *)
(* nothing, and its undo does (sloteditor.cpp:41-46,                       *)
(* undocommands.cpp:211-249).                                              *)
After(slot) ==
  LET last == {i \in 1..index : stack[i].slot = slot}
  IN  IF last = {} THEN slot \in base ELSE stack[Max(last)].add
CommandsAddUp ==
  document = "open" /\ ~misled => \A slot \in Shown : Defined(slot) = After(slot)
==============================================================================
