-------------------------- MODULE SlotEditor_proofs --------------------------
(***************************************************************************)
(* For any table, scene files, number of commands and of restarts: no slot *)
(* is twice in the list or in the scene file, every slot has a widget, and *)
(* the commands add up to the slots that are defined.                      *)
(***************************************************************************)
EXTENDS SlotEditor, DataFacts

Widgets == [slot : Slots, defined : BOOLEAN]
Rects == [left : Int, top : Int, right : Int, bottom : Int]
Commands == [add : BOOLEAN, slot : Slots]

DocumentOK == /\ document \in {"none", "open", "down"}
              /\ definedSlots \in Seq(Slots) /\ boundary \in Rects
              /\ \A slots \in scene : slots \in Seq(Slots)
TableOK == /\ rowCount \in Nat /\ table \in Seq(Seq(Widgets))
           /\ \A c \in 1..Len(table) : Len(table[c]) = rowCount
StackOK == /\ stack \in Seq(Commands) /\ index \in 0..Len(stack)
           /\ document = "none" => stack = <<>>
RunsOK == runs \in 1..MaxRuns /\ misled \in BOOLEAN

Types == DocumentOK /\ TableOK /\ StackOK /\ RunsOK

(* Whether a slot is defined after the first k of the commands s, if the   *)
(* slots b were at first.                                                  *)
AfterUpTo(s, b, k, slot) ==
  LET last == {i \in 1..k : s[i].slot = slot}
  IN  IF last = {} THEN slot \in b ELSE s[Max(last)].add

(* Every command on the stack changes something, the undone ones, too: so  *)
(* an undo leads back to what was before.                                  *)
Changes(s, b, k) == s[k].add <=> ~AfterUpTo(s, b, k - 1, s[k].slot)
AddUp ==
  document = "open" /\ ~misled =>
    /\ \A slot \in Slots : Defined(slot) <=> AfterUpTo(stack, base, index, slot)
    /\ \A k \in 1..Len(stack) : Changes(stack, base, k)

IInv == Types /\ SlotsOnce /\ SlotsHaveWidgets /\ AddUp

----------------------------------------------------------------------------
(* The list *)

LEMMA AddDoes ==
  ASSUME definedSlots \in Seq(Slots), IsInjective(definedSlots), NEW slot \in Slots
  PROVE  /\ add(slot) \in Seq(Slots) /\ IsInjective(add(slot))
         /\ ToSet(add(slot)) = ToSet(definedSlots) \cup {slot}
<1>1. CASE Defined(slot)
  BY <1>1 DEF add, Defined
<1>2. CASE ~Defined(slot)
  <2>1. /\ Append(definedSlots, slot) \in Seq(Slots)
        /\ IsInjective(Append(definedSlots, slot))
    BY <1>2, AppendKeepsDistinct DEF Defined
  <2>2. ToSet(Append(definedSlots, slot)) = ToSet(definedSlots) \cup {slot}
    BY AppendToSet
  <2> QED BY <1>2, <2>1, <2>2 DEF add
<1> QED BY <1>1, <1>2

LEMMA RemoveDoes ==
  ASSUME definedSlots \in Seq(Slots), IsInjective(definedSlots), NEW slot \in Slots
  PROVE  /\ remove(slot) \in Seq(Slots) /\ IsInjective(remove(slot))
         /\ ToSet(remove(slot)) = ToSet(definedSlots) \ {slot}
<1>1. CASE Defined(slot)
  <2> DEFINE at == CHOOSE i \in DOMAIN definedSlots : definedSlots[i] = slot
  <2>1. at \in 1..Len(definedSlots) /\ definedSlots[at] = slot
    BY <1>1, LenProperties DEF Defined, ToSet
  <2> HIDE DEF at
  <2>2. /\ RemoveAt(definedSlots, at) \in Seq(Slots)
        /\ IsInjective(RemoveAt(definedSlots, at))
    BY <2>1, RemoveAtKeepsDistinct
  <2>3. ToSet(RemoveAt(definedSlots, at)) = ToSet(definedSlots) \ {slot}
    BY <2>1, RemoveAtToSet
  <2> QED BY <1>1, <2>2, <2>3 DEF remove, at
<1>2. CASE ~Defined(slot)
  BY <1>2 DEF remove, Defined
<1> QED BY <1>1, <1>2

(* The boundary moves out to every slot and nowhere else.                  *)
Covers(b, slots, n) ==
  /\ b \in Rects /\ b.left <= b.right /\ b.top <= b.bottom
  /\ \A i \in 1..n : /\ b.left <= slots[i][1] /\ slots[i][1] <= b.right
                     /\ b.top <= slots[i][2] /\ slots[i][2] <= b.bottom

LEMMA WidenedCovers ==
  ASSUME NEW slots \in Seq(Slots), NEW k \in 1..Len(slots), NEW b, Covers(b, slots, k - 1)
  PROVE  Covers(Widened(b, slots[k]), slots, k)
<1> DEFINE s == slots[k]
           w == Widened(b, s)
<1>1. s \in Slots /\ k \in Nat
  BY ElementOfSeq, LenProperties
<1>2. s[1] \in Int /\ s[2] \in Int
  BY <1>1 DEF Slots
<1>3. /\ b.left \in Int /\ b.right \in Int /\ b.top \in Int /\ b.bottom \in Int
      /\ b.left <= b.right /\ b.top <= b.bottom
      /\ \A i \in 1..(k - 1) : /\ b.left <= slots[i][1] /\ slots[i][1] <= b.right
                               /\ b.top <= slots[i][2] /\ slots[i][2] <= b.bottom
  BY DEF Covers, Rects
<1>4. /\ w.left = IF b.left > s[1] THEN s[1] ELSE b.left
      /\ w.right = IF b.right < s[1] THEN s[1] ELSE b.right
      /\ w.top = IF b.top > s[2] THEN s[2] ELSE b.top
      /\ w.bottom = IF b.bottom < s[2] THEN s[2] ELSE b.bottom
      /\ w = [left |-> w.left, top |-> w.top, right |-> w.right, bottom |-> w.bottom]
  BY DEF Widened, Rect
<1> HIDE DEF s, w
<1>5. /\ w.left \in Int /\ w.left <= b.left /\ w.left <= s[1]
      /\ w.right \in Int /\ b.right <= w.right /\ s[1] <= w.right
  BY <1>2, <1>3, <1>4
<1>6. /\ w.top \in Int /\ w.top <= b.top /\ w.top <= s[2]
      /\ w.bottom \in Int /\ b.bottom <= w.bottom /\ s[2] <= w.bottom
  BY <1>2, <1>3, <1>4
<1>7. w \in Rects
  BY <1>4, <1>5, <1>6 DEF Rects
<1>8. w.left <= w.right /\ w.top <= w.bottom
  BY <1>3, <1>5, <1>6
<1>9. ASSUME NEW i \in 1..k
      PROVE  /\ w.left <= slots[i][1] /\ slots[i][1] <= w.right
             /\ w.top <= slots[i][2] /\ slots[i][2] <= w.bottom
  <2>1. slots[i][1] \in Int /\ slots[i][2] \in Int
    <3>1. i \in 1..Len(slots)
      BY <1>1, LenProperties
    <3>2. slots[i] \in Slots
      BY <3>1, ElementOfSeq
    <3> QED BY <3>2 DEF Slots
  <2>2. CASE i = k
    BY <1>5, <1>6, <2>2 DEF s
  <2>3. CASE i # k
    <3>1. i \in 1..(k - 1)
      BY <1>1, <2>3
    <3>2. /\ b.left <= slots[i][1] /\ slots[i][1] <= b.right
          /\ b.top <= slots[i][2] /\ slots[i][2] <= b.bottom
      BY <1>3, <3>1
    <3>3. w.left <= slots[i][1] /\ slots[i][1] <= w.right
      BY <1>3, <1>5, <2>1, <3>2
    <3>4. w.top <= slots[i][2] /\ slots[i][2] <= w.bottom
      BY <1>3, <1>6, <2>1, <3>2
    <3> QED BY <3>3, <3>4
  <2> QED BY <2>2, <2>3
<1>10. Covers(w, slots, k)
  BY <1>7, <1>8, <1>9 DEF Covers
<1> QED BY <1>10 DEF w, s

LEMMA WidenedType ==
  ASSUME NEW b \in Rects, NEW s \in Slots
  PROVE  Widened(b, s) \in Rects
<1>1. s[1] \in Int /\ s[2] \in Int
  BY DEF Slots
<1>2. b.left \in Int /\ b.right \in Int /\ b.top \in Int /\ b.bottom \in Int
  BY DEF Rects
<1> QED BY <1>1, <1>2 DEF Widened, Rect, Rects

LEMMA BoundaryCovers ==
  ASSUME NEW slots \in Seq(Slots), slots # <<>>
  PROVE  Covers(updateSlotBoundary(slots), slots, Len(slots))
<1> DEFINE n == Len(slots)
           point == Rect(slots[1][1], slots[1][2], slots[1][1], slots[1][2])
           Folds(f) == f = [s \in SUBSET DOMAIN slots |->
                              IF s = {} THEN point ELSE Widened(f[s \ {Max(s)}], slots[Max(s)])]
           step == [p \in (1..n) \X Rects |-> Widened(p[2], slots[p[1]])]
           h == CHOOSE f : Folds(f)
<1>1. n \in Nat /\ DOMAIN slots = 1..n /\ \A k \in 1..n : slots[k] \in Slots
  BY LenProperties, ElementOfSeq
<1>2. updateSlotBoundary(slots) = h[1..n]
  <2>1. updateSlotBoundary(slots) = FoldLeft(Widened, point, slots)
    BY DEF updateSlotBoundary
  <2>2. FoldLeft(Widened, point, slots) = h[DOMAIN slots]
    BY DEF FoldLeft, MapThenFoldSet
  <2> QED BY <1>1, <2>1, <2>2
<1>3. Covers(point, slots, 0) /\ point \in Rects
  <2>1. 1 \in 1..n
    BY <1>1, EmptySeq
  <2>2. slots[1] \in Slots
    BY <1>1, <2>1
  <2>3. slots[1][1] \in Int /\ slots[1][2] \in Int
    BY <2>2 DEF Slots
  <2>4. point \in Rects /\ point.left <= point.right /\ point.top <= point.bottom
    BY <2>3 DEF Rect, Rects
  <2> HIDE DEF point
  <2> QED BY <2>4 DEF Covers
<1> HIDE DEF n, point, h
<1>4. step \in [(1..n) \X Rects -> Rects]
  <2>1. \A p \in (1..n) \X Rects : Widened(p[2], slots[p[1]]) \in Rects
    BY <1>1, WidenedType
  <2> QED BY <2>1
<1>5. \A k \in 1..n, b \in Rects : step[<<k, b>>] = Widened(b, slots[k])
  OBVIOUS
<1> HIDE DEF step
<1>6. PICK f \in [SUBSET (1..n) -> Rects] : IsFold(f, n, point, step)
  BY <1>1, <1>3, <1>4, FoldExists
<1>7. Folds(f)
  <2>1. ASSUME NEW s \in SUBSET (1..n), s # {}
        PROVE  step[<<Max(s), f[s \ {Max(s)}]>>] = Widened(f[s \ {Max(s)}], slots[Max(s)])
    <3>1. Max(s) \in 1..n
      BY <1>1, <2>1, MaxProperties
    <3>2. f[s \ {Max(s)}] \in Rects
      OBVIOUS
    <3> QED BY <1>5, <3>1, <3>2
  <2> QED BY <1>1, <1>6, <2>1 DEF IsFold
<1>8. Folds(h)
  BY <1>7 DEF h
<1>9. \A s \in SUBSET (1..n) :
        h[s] = IF s = {} THEN point ELSE Widened(h[s \ {Max(s)}], slots[Max(s)])
  BY <1>1, <1>8
<1> HIDE DEF Folds
<1>10. ASSUME NEW k \in 1..n PROVE h[1..k] = Widened(h[1..(k - 1)], slots[k])
  <2>0. n \in Nat /\ k \in Nat /\ 1 <= k /\ k <= n
    BY <1>1
  <2>1. k \in 1..k /\ 1..k \in SUBSET (1..k) /\ 1..k # {}
    <3>1. k \in 1..k
      BY <2>0
    <3> QED BY <3>1
  <2>2. Max(1..k) \in 1..k /\ Max(1..k) >= k
    BY <2>0, <2>1, MaxProperties
  <2>3. Max(1..k) = k
    BY <2>0, <2>2
  <2>4. (1..k) \ {k} = 1..(k - 1) /\ 1..k \in SUBSET (1..n)
    <3>1. \A j \in Int : j \in 1..k /\ j # k <=> j \in 1..(k - 1)
      BY <2>0
    <3>2. (1..k) \ {k} = 1..(k - 1)
      BY <3>1
    <3>3. \A j \in 1..k : j \in 1..n
      BY <2>0
    <3> QED BY <3>2, <3>3
  <2> QED BY <1>9, <2>1, <2>3, <2>4
<1> DEFINE T == {k \in 0..n : Covers(h[1..k], slots, k)}
<1>11. 0 \in T
  <2>1. 1..0 = {} /\ 1..0 \in SUBSET (1..n)
    OBVIOUS
  <2>2. h[1..0] = point
    BY <1>9, <2>1
  <2>3. Covers(h[1..0], slots, 0) /\ 0 \in 0..n
    BY <1>1, <1>3, <2>2
  <2> QED BY <2>3
<1>12. ASSUME NEW k \in 0..(n - 1), k \in T PROVE k + 1 \in T
  <2>1. k + 1 \in 1..n /\ (k + 1) - 1 = k
    BY <1>1
  <2>2. h[1..(k + 1)] = Widened(h[1..k], slots[k + 1])
    BY <1>10, <2>1
  <2>3. Covers(h[1..k], slots, (k + 1) - 1)
    BY <1>12, <2>1
  <2>4. Covers(Widened(h[1..k], slots[k + 1]), slots, k + 1)
    BY <2>1, <2>3, WidenedCovers DEF n
  <2> QED BY <1>1, <2>1, <2>2, <2>4
<1>13. n \in T
  <2> HIDE DEF T
  <2>1. 0..n \subseteq T
    BY <1>1, <1>11, <1>12, IntervalInduction
  <2> QED BY <1>1, <2>1
<1>14. Covers(h[1..n], slots, n)
  BY <1>13
<1> QED BY <1>2, <1>14 DEF n

LEMMA BoundaryType ==
  ASSUME NEW slots \in Seq(Slots)
  PROVE  updateSlotBoundary(slots) \in Rects
<1>1. CASE slots = <<>>
  BY <1>1 DEF updateSlotBoundary, Rect, Rects
<1>2. CASE slots # <<>>
  BY <1>2, BoundaryCovers DEF Covers
<1> QED BY <1>1, <1>2

LEMMA ModifyDoes ==
  ASSUME definedSlots \in Seq(Slots), IsInjective(definedSlots),
         NEW isAdd \in BOOLEAN, NEW slot \in Slots, Modify(isAdd, slot)
  PROVE  /\ definedSlots' \in Seq(Slots) /\ IsInjective(definedSlots') /\ boundary' \in Rects
         /\ isAdd => ToSet(definedSlots') = ToSet(definedSlots) \cup {slot}
         /\ ~isAdd => ToSet(definedSlots') = ToSet(definedSlots) \ {slot}
<1>1. definedSlots' = (IF isAdd THEN add(slot) ELSE remove(slot))
  BY DEF Modify
<1>2. boundary' = updateSlotBoundary(definedSlots')
  BY DEF Modify
<1>3. CASE isAdd
  BY <1>1, <1>2, <1>3, AddDoes, BoundaryType
<1>4. CASE ~isAdd
  BY <1>1, <1>2, <1>4, RemoveDoes, BoundaryType
<1> QED BY <1>3, <1>4

----------------------------------------------------------------------------
(* The table *)

LEMMA TableToSlotType ==
  ASSUME NEW column \in Int, NEW row \in Int, NEW columns \in Int, NEW rows \in Int,
         NEW b \in Rects
  PROVE  tableToSlot(column, row, columns, rows, b) \in Slots
<1>1. \A k \in Int : Half(k) \in Int
  BY DEF Half
<1>2. b.left \in Int /\ b.right \in Int /\ b.top \in Int /\ b.bottom \in Int
  BY DEF Rects
<1> DEFINE dx == Half(columns - b.right + b.left) - b.left
           dy == Half(rows - b.bottom + b.top) - b.top
<1>3. dx \in Int /\ dy \in Int
  BY <1>1, <1>2
<1>4. Shift(columns, rows, b) = <<dx, dy>>
  BY DEF Shift
<1> HIDE DEF dx, dy
<1>5. tableToSlot(column, row, columns, rows, b) = <<column - dx, row - dy>>
  BY <1>4 DEF tableToSlot
<1> QED BY <1>3, <1>5 DEF Slots

(* A table of the given number of columns and rows.                        *)
IsTable(t, columns, rows) ==
  t \in Seq(Seq(Widgets)) /\ Len(t) = columns /\ \A c \in 1..columns : Len(t[c]) = rows

Shows(t, columns, rows, slot) == \E c \in 1..columns, r \in 1..rows : t[c][r].slot = slot

LEMMA ShownIff ==
  ASSUME NEW t \in Seq(Seq(Widgets)), NEW columns \in Nat, NEW rows \in Nat,
         IsTable(t, columns, rows), NEW slot
  PROVE  slot \in UNION {{w.slot : w \in ToSet(column)} : column \in ToSet(t)}
           <=> Shows(t, columns, rows, slot)
<1>1. DOMAIN t = 1..columns /\ \A c \in 1..columns : DOMAIN t[c] = 1..rows
  <2>1. Len(t) = columns /\ \A c \in 1..columns : Len(t[c]) = rows /\ t[c] \in Seq(Widgets)
    BY ElementOfSeq DEF IsTable
  <2> QED BY <2>1, LenProperties
<1>2. slot \in UNION {{w.slot : w \in ToSet(column)} : column \in ToSet(t)}
        <=> \E column \in ToSet(t) : \E w \in ToSet(column) : slot = w.slot
  OBVIOUS
<1>3. (\E column \in ToSet(t) : \E w \in ToSet(column) : slot = w.slot)
        <=> \E c \in 1..columns : \E w \in ToSet(t[c]) : slot = w.slot
  BY <1>1 DEF ToSet
<1>4. \A c \in 1..columns :
        (\E w \in ToSet(t[c]) : slot = w.slot) <=> \E r \in 1..rows : slot = t[c][r].slot
  BY <1>1 DEF ToSet
<1> QED BY <1>2, <1>3, <1>4 DEF Shows

(* Every slot of the list gets its widget.                                 *)
LEMMA PopulateShows ==
  ASSUME NEW slots \in Seq(Slots), slots # <<>>, NEW b, Covers(b, slots, Len(slots))
  PROVE  LET columns == b.right - b.left + 1
             rows    == b.bottom - b.top + 1
         IN  /\ columns \in Nat /\ rows \in Nat
             /\ IsTable(populate(slots, b), columns, rows)
             /\ \A slot \in ToSet(slots) : Shows(populate(slots, b), columns, rows, slot)
<1> DEFINE columns == b.right - b.left + 1
           rows    == b.bottom - b.top + 1
           places  == {slotToTable(s, columns, rows, b) : s \in ToSet(slots)}
           t       == populate(slots, b)
           At(c, r) == Widget(tableToSlot(c - 1, r - 1, columns, rows, b), <<c - 1, r - 1>> \in places)
<1>1. /\ b.left \in Int /\ b.right \in Int /\ b.top \in Int /\ b.bottom \in Int
      /\ b \in Rects /\ b.left <= b.right /\ b.top <= b.bottom
  BY DEF Covers, Rects
<1>2. columns \in Nat /\ rows \in Nat /\ columns \in Int /\ rows \in Int
  BY <1>1
<1>3. t = [c \in 1..columns |-> [r \in 1..rows |-> At(c, r)]]
  BY DEF populate
<1>4. ASSUME NEW c \in 1..columns, NEW r \in 1..rows
      PROVE  At(c, r) \in Widgets /\ At(c, r).slot = <<c - 1 + b.left, r - 1 + b.top>>
  <2>1. c - 1 \in Int /\ r - 1 \in Int
    BY <1>2
  <2>2. tableToSlot(c - 1, r - 1, columns, rows, b) \in Slots
    BY <1>1, <1>2, <2>1, TableToSlotType
  <2>3. (<<c - 1, r - 1>> \in places) \in BOOLEAN
    OBVIOUS
  <2>4. Shift(columns, rows, b) = <<-b.left, -b.top>>
    <3>1. columns - b.right + b.left = 1 /\ rows - b.bottom + b.top = 1
      BY <1>1
    <3>2. Half(1) = 0
      BY DEF Half
    <3> QED BY <1>1, <3>1, <3>2 DEF Shift
  <2>5. tableToSlot(c - 1, r - 1, columns, rows, b) = <<c - 1 + b.left, r - 1 + b.top>>
    <3> HIDE DEF columns, rows
    <3> QED BY <1>1, <2>1, <2>4 DEF tableToSlot
  <2> HIDE DEF places, columns, rows
  <2> QED BY <2>2, <2>3, <2>5 DEF Widget, Widgets
<1> HIDE DEF columns, rows, places, At, t
<1>5. t \in Seq(Seq(Widgets)) /\ Len(t) = columns
      /\ \A c \in 1..columns : Len(t[c]) = rows /\ \A r \in 1..rows : t[c][r] = At(c, r)
  <2>1. \A c \in 1..columns : [r \in 1..rows |-> At(c, r)] \in Seq(Widgets)
    BY <1>2, <1>4
  <2>2. t \in Seq(Seq(Widgets)) /\ Len(t) = columns
    BY <1>2, <1>3, <2>1
  <2> QED BY <1>2, <1>3, <2>2
<1>6. ASSUME NEW slot \in ToSet(slots) PROVE Shows(t, columns, rows, slot)
  <2>1. PICK i \in 1..Len(slots) : slot = slots[i]
    BY LenProperties DEF ToSet
  <2>2. slot \in Slots
    BY <2>1, ElementOfSeq
  <2>3. slot = <<slot[1], slot[2]>> /\ slot[1] \in Int /\ slot[2] \in Int
    BY <2>2 DEF Slots
  <2>4. b.left <= slot[1] /\ slot[1] <= b.right /\ b.top <= slot[2] /\ slot[2] <= b.bottom
    BY <2>1 DEF Covers
  <2>5. slot[1] - b.left + 1 \in 1..columns /\ slot[2] - b.top + 1 \in 1..rows
    <3>1. \A x, y, z \in Int : x <= y /\ y <= z => y - x + 1 \in 1..(z - x + 1)
      OBVIOUS
    <3> QED BY <1>1, <2>3, <2>4, <3>1 DEF columns, rows
  <2> DEFINE c == slot[1] - b.left + 1
             r == slot[2] - b.top + 1
  <2>6. c - 1 + b.left = slot[1] /\ r - 1 + b.top = slot[2]
    BY <1>1, <2>3
  <2>7. c \in 1..columns /\ r \in 1..rows
    BY <2>5
  <2> HIDE DEF c, r
  <2>8. t[c][r].slot = slot
    BY <1>4, <1>5, <2>3, <2>6, <2>7
  <2> QED BY <2>7, <2>8 DEF Shows
<1> QED BY <1>2, <1>5, <1>6 DEF IsTable, columns, rows, t

LEMMA ShownIs ==
  TableOK => \A slot : slot \in Shown <=> Shows(table, Len(table), rowCount, slot)
<1> SUFFICES ASSUME TableOK, NEW slot
             PROVE  slot \in Shown <=> Shows(table, Len(table), rowCount, slot)
  OBVIOUS
<1>1. table \in Seq(Seq(Widgets)) /\ Len(table) \in Nat /\ rowCount \in Nat
      /\ IsTable(table, Len(table), rowCount)
  BY LenProperties DEF TableOK, IsTable
<1> QED BY <1>1, ShownIff DEF Shown

LEMMA NextShownIs ==
  TableOK' => \A slot : slot \in Shown' <=> Shows(table', Len(table'), rowCount', slot)
<1> SUFFICES ASSUME TableOK', NEW slot
             PROVE  slot \in Shown' <=> Shows(table', Len(table'), rowCount', slot)
  OBVIOUS
<1>1. table' \in Seq(Seq(Widgets)) /\ Len(table') \in Nat /\ rowCount' \in Nat
      /\ IsTable(table', Len(table'), rowCount')
  BY LenProperties DEF TableOK, IsTable
<1> QED BY <1>1, ShownIff DEF Shown

(* A widget keeps its slot, wherever columns and rows are inserted.        *)
ShownStays == TableOK' /\ Shown \subseteq Shown'

LEMMA InsertIdxType ==
  ASSUME NEW n \in Nat
  PROVE  InsertIdx(n) \in 0..n /\ InsertIdx(n) + 1 \in 1..(n + 1)
BY DEF InsertIdx

LEMMA ColumnKeepsShown ==
  ASSUME DocumentOK, TableOK, addColumn
  PROVE  ShownStays
<1>1. CASE document = "none" /\ rowCount > 0
  <2>1. UNCHANGED <<table, rowCount>>
    BY <1>1 DEF addColumn, AskNull, tableVars
  <2> QED BY <2>1 DEF TableOK, Shown, ShownStays
<1>2. CASE ~(document = "none" /\ rowCount > 0)
  <2> DEFINE n      == Len(table)
             c      == InsertIdx(n)
             at     == c + 1
             Slot(r) == tableToSlot(c, r - 1, n + 1, rowCount, boundary)
             column == [r \in 1..rowCount |-> Widget(Slot(r), FALSE)]
  <2>1. table' = InsertAt(table, at, column) /\ rowCount' = rowCount
    BY <1>2 DEF addColumn, Columns
  <2>2. /\ n \in Nat /\ rowCount \in Nat /\ boundary \in Rects /\ table \in Seq(Seq(Widgets))
        /\ \A k \in 1..n : Len(table[k]) = rowCount
    BY LenProperties DEF TableOK, DocumentOK
  <2>3. c \in Int /\ at \in Int /\ at \in 1..(n + 1)
    BY <2>2, InsertIdxType
  <2> HIDE DEF n, c, at
  <2>4. column \in Seq(Widgets) /\ Len(column) = rowCount
    <3>1. ASSUME NEW r \in 1..rowCount PROVE Widget(Slot(r), FALSE) \in Widgets
      <4>1. Slot(r) \in Slots
        <5>1. r - 1 \in Int /\ n + 1 \in Int /\ rowCount \in Int
          BY <2>2
        <5> QED BY <2>2, <2>3, <5>1, TableToSlotType
      <4> HIDE DEF Slot
      <4> QED BY <4>1 DEF Widget, Widgets
    <3> HIDE DEF Slot
    <3>2. column \in [1..rowCount -> Widgets]
      BY <3>1
    <3> HIDE DEF column
    <3> QED BY <2>2, <3>2
  <2> HIDE DEF column
  <2>5. /\ table' \in Seq(Seq(Widgets)) /\ Len(table') = n + 1
        /\ \A j \in 1..(n + 1) :
             table'[j] = IF j < at THEN table[j] ELSE IF j = at THEN column ELSE table[j - 1]
    <3>1. table \in Seq(Seq(Widgets)) /\ at \in 1..(Len(table) + 1) /\ column \in Seq(Widgets)
      BY <2>2, <2>3, <2>4 DEF n
    <3>2. /\ InsertAt(table, at, column) \in Seq(Seq(Widgets))
          /\ Len(InsertAt(table, at, column)) = Len(table) + 1
          /\ \A j \in 1..(Len(table) + 1) :
               InsertAt(table, at, column)[j]
                 = IF j < at THEN table[j] ELSE IF j = at THEN column ELSE table[j - 1]
      BY <3>1, InsertAtProperties
    <3> QED BY <2>1, <3>2 DEF n
  <2>6. ASSUME NEW j \in 1..(n + 1) PROVE Len(table'[j]) = rowCount
    <3>1. CASE j < at
      <4>1. j \in 1..n /\ table'[j] = table[j]
        BY <2>2, <2>3, <2>5, <3>1
      <4> QED BY <2>2, <4>1
    <3>2. CASE j = at
      BY <2>3, <2>4, <2>5, <3>2
    <3>3. CASE j > at
      <4>1. j - 1 \in 1..n
        BY <2>2, <2>3, <3>3
      <4>2. table'[j] = table[j - 1]
        BY <2>3, <2>5, <3>3
      <4> QED BY <2>2, <4>1, <4>2
    <3> QED BY <2>3, <3>1, <3>2, <3>3
  <2>7. TableOK'
    BY <2>1, <2>2, <2>5, <2>6 DEF TableOK
  <2>8. \A k \in 1..n : \E j \in 1..(n + 1) : table'[j] = table[k]
    <3>1. table \in Seq(Seq(Widgets)) /\ at \in 1..(Len(table) + 1) /\ column \in Seq(Widgets)
      BY <2>2, <2>3, <2>4 DEF n
    <3>2. IsWithin(table, InsertAt(table, at, column))
      BY <3>1, InsertAtKeeps
    <3> QED BY <2>1, <3>2 DEF n, IsWithin
  <2>9. ASSUME NEW slot, Shows(table, n, rowCount, slot)
        PROVE  Shows(table', n + 1, rowCount, slot)
    <3>1. PICK k \in 1..n, r \in 1..rowCount : table[k][r].slot = slot
      BY <2>9 DEF Shows
    <3>2. PICK j \in 1..(n + 1) : table'[j] = table[k]
      BY <2>8
    <3>3. table'[j][r].slot = slot
      BY <3>1, <3>2
    <3> QED BY <3>3 DEF Shows
  <2> QED BY <2>1, <2>5, <2>7, <2>9, ShownIs, NextShownIs DEF n, ShownStays
<1> QED BY <1>1, <1>2

LEMMA RowKeepsShown ==
  ASSUME DocumentOK, TableOK, addRow
  PROVE  ShownStays
<1>1. CASE document = "none" /\ table # <<>>
  <2>1. UNCHANGED <<table, rowCount>>
    BY <1>1 DEF addRow, AskNull, tableVars
  <2> QED BY <2>1 DEF TableOK, Shown, ShownStays
<1>2. CASE ~(document = "none" /\ table # <<>>)
  <2> DEFINE n == Len(table)
             r == InsertIdx(rowCount)
             at == r + 1
             new(c) == Widget(tableToSlot(c - 1, r, n, rowCount + 1, boundary), FALSE)
  <2>1. table' = [c \in 1..n |-> InsertAt(table[c], at, new(c))] /\ rowCount' = rowCount + 1
    BY <1>2 DEF addRow, Columns
  <2>2. /\ n \in Nat /\ rowCount \in Nat /\ boundary \in Rects
        /\ \A c \in 1..n : table[c] \in Seq(Widgets) /\ Len(table[c]) = rowCount
    BY LenProperties, ElementOfSeq DEF TableOK, DocumentOK
  <2>3. r \in Int /\ at \in 1..(rowCount + 1)
    <3> HIDE DEF n
    <3>1. rowCount \in Nat
      BY <2>2
    <3> QED BY <3>1, InsertIdxType
  <2> HIDE DEF n, r, at
  <2>4. \A c \in 1..n : new(c) \in Widgets
    <3>1. ASSUME NEW c \in 1..n PROVE new(c) \in Widgets
      <4>1. c - 1 \in Int /\ n \in Int /\ rowCount + 1 \in Int
        BY <2>2
      <4>2. tableToSlot(c - 1, r, n, rowCount + 1, boundary) \in Slots
        BY <2>2, <2>3, <4>1, TableToSlotType
      <4> QED BY <4>2 DEF Widget, Widgets
    <3> QED BY <3>1
  <2> HIDE DEF new
  <2>5. ASSUME NEW c \in 1..n
        PROVE  /\ InsertAt(table[c], at, new(c)) \in Seq(Widgets)
               /\ Len(InsertAt(table[c], at, new(c))) = rowCount + 1
               /\ \A k \in 1..rowCount : \E j \in 1..(rowCount + 1) :
                    InsertAt(table[c], at, new(c))[j] = table[c][k]
    <3> DEFINE old == table[c]
               e   == new(c)
    <3>1. old \in Seq(Widgets) /\ Len(old) = rowCount /\ e \in Widgets
      BY <2>2, <2>4
    <3> HIDE DEF old, e
    <3>2. at \in 1..(Len(old) + 1)
      BY <2>3, <3>1
    <3>3. /\ InsertAt(old, at, e) \in Seq(Widgets)
          /\ Len(InsertAt(old, at, e)) = Len(old) + 1
      BY <3>1, <3>2, InsertAtProperties
    <3>4. IsWithin(old, InsertAt(old, at, e))
      BY <3>1, <3>2, InsertAtKeeps
    <3> QED BY <3>1, <3>3, <3>4 DEF old, e, IsWithin
  <2>6. table' \in Seq(Seq(Widgets)) /\ Len(table') = n
        /\ \A c \in 1..n : table'[c] = InsertAt(table[c], at, new(c))
    BY <2>1, <2>2, <2>5
  <2>7. TableOK'
    BY <2>1, <2>2, <2>5, <2>6 DEF TableOK
  <2>8. ASSUME NEW slot, Shows(table, n, rowCount, slot)
        PROVE  Shows(table', n, rowCount + 1, slot)
    <3>1. PICK c \in 1..n, k \in 1..rowCount : table[c][k].slot = slot
      BY <2>8 DEF Shows
    <3>2. PICK j \in 1..(rowCount + 1) : table'[c][j] = table[c][k]
      BY <2>5, <2>6
    <3>3. table'[c][j].slot = slot
      BY <3>1, <3>2
    <3> QED BY <3>3 DEF Shows
  <2> QED BY <2>1, <2>6, <2>7, <2>8, ShownIs, NextShownIs DEF n, ShownStays
<1> QED BY <1>1, <1>2

(* A click on the widget of column c and row r.                            *)
Clicked(c, r) ==
  LET command == CommandOf(table[c][r])
  IN  /\ table' = [table EXCEPT ![c][r].defined = ~@]
      /\ stack' = Append(SubSeq(stack, 1, index), command) /\ index' = index + 1
      /\ Modify(command.add, command.slot)
      /\ misled' = (misled \/ command.add = Defined(command.slot))

LEMMA ClickKeepsShown ==
  ASSUME TableOK, NEW c \in 1..Len(table), NEW r \in 1..rowCount, Clicked(c, r),
         UNCHANGED rowCount
  PROVE  /\ ShownStays
         /\ CommandOf(table[c][r]) \in Commands /\ CommandOf(table[c][r]).slot \in Shown
<1> DEFINE n == Len(table)
           w == table[c][r]
<1>1. /\ n \in Nat /\ rowCount \in Nat
      /\ \A k \in 1..n : table[k] \in Seq(Widgets) /\ Len(table[k]) = rowCount
  BY LenProperties, ElementOfSeq DEF TableOK
<1>2. w \in Widgets
  BY <1>1, ElementOfSeq
<1>3. w.slot \in Slots /\ w.defined \in BOOLEAN
  BY <1>2 DEF Widgets
<1>4. CommandOf(w) = [add |-> ~w.defined, slot |-> w.slot]
  BY DEF CommandOf, ModifyTerrainSlot
<1>5. CommandOf(w) \in Commands /\ CommandOf(w).slot = w.slot
  BY <1>3, <1>4 DEF Commands
<1>6. w.slot \in Shown
  <2>1. Shows(table, n, rowCount, w.slot)
    BY DEF Shows
  <2> QED BY <2>1, ShownIs
<1> DEFINE new == [w EXCEPT !.defined = ~@]
           column == [table[c] EXCEPT ![r] = new]
<1>7. table' = [table EXCEPT ![c] = column]
  BY DEF Clicked
<1>8. new \in Widgets /\ new.slot = w.slot
  BY <1>2 DEF Widgets
<1> HIDE DEF new
<1>9. column \in Seq(Widgets) /\ Len(column) = rowCount
      /\ \A k \in 1..rowCount : column[k].slot = table[c][k].slot
  <2>1. table[c] \in Seq(Widgets) /\ Len(table[c]) = rowCount /\ DOMAIN table[c] = 1..rowCount
    BY <1>1, LenProperties
  <2> QED BY <1>8, <2>1
<1> HIDE DEF column, w
<1>10. table' \in Seq(Seq(Widgets)) /\ Len(table') = n
       /\ \A k \in 1..n : table'[k] = IF k = c THEN column ELSE table[k]
  BY <1>7, <1>9 DEF TableOK
<1>11. TableOK'
  BY <1>1, <1>9, <1>10 DEF TableOK
<1>12. ASSUME NEW slot, Shows(table, n, rowCount, slot) PROVE Shows(table', n, rowCount, slot)
  <2>1. PICK k \in 1..n, j \in 1..rowCount : table[k][j].slot = slot
    BY <1>12 DEF Shows
  <2>2. table'[k][j].slot = slot
    BY <1>9, <1>10, <2>1
  <2> QED BY <2>2 DEF Shows
<1>13. ShownStays
  BY <1>10, <1>11, <1>12, ShownIs, NextShownIs DEF ShownStays
<1> QED BY <1>5, <1>6, <1>13 DEF w

----------------------------------------------------------------------------
(* What commands add up to *)

LEMMA AfterNone ==
  ASSUME NEW s, NEW b, NEW slot
  PROVE  AfterUpTo(s, b, 0, slot) <=> slot \in b
<1>1. {i \in 1..0 : s[i].slot = slot} = {}
  OBVIOUS
<1> QED BY <1>1 DEF AfterUpTo

LEMMA AfterLast ==
  ASSUME NEW s, NEW b, NEW k \in Nat, k >= 1, NEW slot, s[k].slot = slot
  PROVE  AfterUpTo(s, b, k, slot) = s[k].add
<1> DEFINE last == {i \in 1..k : s[i].slot = slot}
<1>1. k \in last /\ last \in SUBSET (1..k) /\ last # {}
  OBVIOUS
<1> HIDE DEF last
<1>2. Max(last) \in last /\ Max(last) >= k
  BY <1>1, MaxProperties
<1>3. Max(last) = k
  <2>1. Max(last) \in 1..k
    BY <1>1, <1>2
  <2> QED BY <1>2, <2>1
<1>4. AfterUpTo(s, b, k, slot) = IF last = {} THEN slot \in b ELSE s[Max(last)].add
  BY DEF AfterUpTo, last
<1> QED BY <1>1, <1>3, <1>4

LEMMA AfterOther ==
  ASSUME NEW s, NEW b, NEW k \in Nat, k >= 1, NEW slot, s[k].slot # slot
  PROVE  AfterUpTo(s, b, k, slot) = AfterUpTo(s, b, k - 1, slot)
<1> DEFINE LastUpTo(n) == {i \in 1..n : s[i].slot = slot}
<1>1. \A i \in 1..k : s[i].slot = slot => i \in 1..(k - 1)
  OBVIOUS
<1>2. \A i \in 1..(k - 1) : i \in 1..k
  OBVIOUS
<1>3. LastUpTo(k) = LastUpTo(k - 1)
  BY <1>1, <1>2
<1>4. \A n : AfterUpTo(s, b, n, slot) = IF LastUpTo(n) = {} THEN slot \in b ELSE s[Max(LastUpTo(n))].add
  BY DEF AfterUpTo
<1> HIDE DEF LastUpTo
<1> QED BY <1>3, <1>4

LEMMA AfterSame ==
  ASSUME NEW s, NEW u, NEW b, NEW k \in Nat, \A i \in 1..k : u[i] = s[i], NEW slot
  PROVE  AfterUpTo(u, b, k, slot) = AfterUpTo(s, b, k, slot)
<1> DEFINE last == {i \in 1..k : s[i].slot = slot}
<1>1. last = {i \in 1..k : u[i].slot = slot}
  OBVIOUS
<1>2. AfterUpTo(s, b, k, slot) = IF last = {} THEN slot \in b ELSE s[Max(last)].add
  BY DEF AfterUpTo
<1>3. AfterUpTo(u, b, k, slot) = IF last = {} THEN slot \in b ELSE u[Max(last)].add
  BY <1>1 DEF AfterUpTo
<1>4. last \in SUBSET (1..k)
  OBVIOUS
<1> HIDE DEF last
<1>5. CASE last = {}
  BY <1>2, <1>3, <1>5
<1>6. CASE last # {}
  <2>1. Max(last) \in 1..k
    BY <1>4, <1>6, MaxProperties
  <2>2. u[Max(last)].add = s[Max(last)].add
    BY <2>1
  <2> QED BY <1>2, <1>3, <1>6, <2>2
<1> QED BY <1>5, <1>6

(* A slot the command is not about is defined after it if it was before,   *)
(* the one it is about as the command says.                                *)
Does(isAdd, slot) ==
  /\ slot \in ToSet(definedSlots') <=> isAdd
  /\ \A other \in Slots : other # slot => (other \in ToSet(definedSlots') <=> Defined(other))

LEMMA ModifyDefines ==
  ASSUME definedSlots \in Seq(Slots), IsInjective(definedSlots),
         NEW isAdd \in BOOLEAN, NEW slot \in Slots, Modify(isAdd, slot)
  PROVE  Does(isAdd, slot)
<1>1. /\ isAdd => ToSet(definedSlots') = ToSet(definedSlots) \cup {slot}
      /\ ~isAdd => ToSet(definedSlots') = ToSet(definedSlots) \ {slot}
  BY ModifyDoes
<1>2. CASE isAdd
  BY <1>1, <1>2 DEF Defined, Does
<1>3. CASE ~isAdd
  BY <1>1, <1>3 DEF Defined, Does
<1> QED BY <1>2, <1>3

LEMMA ClickPushes ==
  ASSUME StackOK, NEW command \in Commands, stack' = Append(SubSeq(stack, 1, index), command)
  PROVE  /\ stack' \in Seq(Commands) /\ Len(stack') = index + 1
         /\ \A i \in 1..index : stack'[i] = stack[i]
         /\ stack'[index + 1] = command
<1> DEFINE done == SubSeq(stack, 1, index)
<1>1. stack \in Seq(Commands) /\ index \in Nat /\ index <= Len(stack) /\ Len(stack) \in Nat
  BY LenProperties DEF StackOK
<1>2. done \in Seq(Commands) /\ Len(done) = index /\ \A i \in 1..index : done[i] = stack[i]
  <2>1. \A i \in 1..index : stack[i] \in Commands
    BY <1>1, ElementOfSeq
  <2>2. /\ done \in Seq(Commands) /\ Len(done) = IF 1 <= index THEN index - 1 + 1 ELSE 0
        /\ \A i \in 1..(index - 1 + 1) : done[i] = stack[1 + i - 1]
    BY <1>1, <2>1, SubSeqProperties
  <2> HIDE DEF done
  <2> QED BY <1>1, <2>2
<1> HIDE DEF done
<1>3. /\ Append(done, command) \in Seq(Commands) /\ Len(Append(done, command)) = Len(done) + 1
      /\ \A i \in 1..Len(done) : Append(done, command)[i] = done[i]
      /\ Append(done, command)[Len(done) + 1] = command
  BY <1>2, AppendProperties
<1> QED BY <1>2, <1>3 DEF done

LEMMA ClickAddsUp ==
  ASSUME Types, SlotsOnce, AddUp, myClicked
  PROVE  AddUp'
<1> SUFFICES ASSUME ~misled'
             PROVE  /\ \A slot \in Slots : slot \in ToSet(definedSlots') <=> AfterUpTo(stack', base', index', slot)
                    /\ \A k \in 1..Len(stack') : Changes(stack', base', k)
  BY DEF AddUp, Defined
<1>1. PICK c \in 1..Len(table), r \in 1..rowCount : Clicked(c, r)
  BY DEF myClicked, Clicked, Columns
<1>2. UNCHANGED <<rowCount, base>> /\ document = "open"
  BY DEF myClicked
<1> DEFINE command == CommandOf(table[c][r])
<1>3. command \in Commands
  BY <1>1, <1>2, ClickKeepsShown DEF Types
<1> HIDE DEF command
<1>4. command.add \in BOOLEAN /\ command.slot \in Slots
  BY <1>3 DEF Commands
<1>5. /\ stack' = Append(SubSeq(stack, 1, index), command) /\ index' = index + 1
      /\ Modify(command.add, command.slot)
      /\ misled' = (misled \/ command.add = Defined(command.slot))
  BY <1>1 DEF Clicked, command
<1>6. ~misled /\ (command.add <=> ~Defined(command.slot))
  <2>1. ~misled /\ ~(command.add = Defined(command.slot))
    BY <1>5
  <2>2. Defined(command.slot) \in BOOLEAN
    BY DEF Defined
  <2> QED BY <1>4, <2>1, <2>2
<1>7. Does(command.add, command.slot)
  BY <1>4, <1>5, ModifyDefines DEF Types, DocumentOK, SlotsOnce
<1>8. /\ Len(stack') = index + 1 /\ stack'[index + 1] = command
      /\ \A i \in 1..index : stack'[i] = stack[i]
  BY <1>3, <1>5, ClickPushes DEF Types
<1>9. index \in Nat /\ index <= Len(stack) /\ Len(stack) \in Nat
  BY LenProperties DEF Types, StackOK
<1>10. /\ \A slot \in Slots : Defined(slot) <=> AfterUpTo(stack, base, index, slot)
       /\ \A k \in 1..Len(stack) : Changes(stack, base, k)
  BY <1>2, <1>6 DEF AddUp
<1>11. ASSUME NEW slot \in Slots PROVE slot \in ToSet(definedSlots') <=> AfterUpTo(stack', base', index', slot)
  <2>1. index + 1 \in Nat /\ index + 1 >= 1 /\ (index + 1) - 1 = index
    BY <1>9
  <2>2. CASE slot = command.slot
    <3> DEFINE n == index + 1
    <3>0. n \in Nat /\ n >= 1 /\ stack'[n].slot = slot
      BY <1>8, <2>1, <2>2
    <3> HIDE DEF n
    <3>1. AfterUpTo(stack', base, n, slot) = stack'[n].add
      BY <3>0, AfterLast
    <3>2. slot \in ToSet(definedSlots') <=> command.add
      BY <1>7, <2>2 DEF Does
    <3> QED BY <1>2, <1>5, <1>8, <3>1, <3>2 DEF n
  <2>3. CASE slot # command.slot
    <3>1. AfterUpTo(stack', base, index + 1, slot) = AfterUpTo(stack', base, index, slot)
      BY <1>8, <2>1, <2>3, AfterOther
    <3>2. AfterUpTo(stack', base, index, slot) = AfterUpTo(stack, base, index, slot)
      BY <1>8, <1>9, AfterSame
    <3>3. slot \in ToSet(definedSlots') <=> Defined(slot)
      BY <1>7, <2>3 DEF Does
    <3> QED BY <1>2, <1>5, <1>10, <3>1, <3>2, <3>3
  <2> QED BY <2>2, <2>3
<1>12. ASSUME NEW k \in 1..Len(stack') PROVE Changes(stack', base', k)
  <2>0. k \in 1..(index + 1) /\ k - 1 \in Nat /\ k - 1 <= index
    BY <1>8, <1>9
  <2>1. \A i \in 1..(k - 1) : stack'[i] = stack[i]
    BY <1>8, <1>9, <2>0
  <2>2. AfterUpTo(stack', base, k - 1, stack'[k].slot) = AfterUpTo(stack, base, k - 1, stack'[k].slot)
    BY <2>0, <2>1, AfterSame
  <2>3. CASE k = index + 1
    <3>1. stack'[k] = command /\ k - 1 = index
      BY <1>8, <1>9, <2>3
    <3>2. Defined(command.slot) <=> AfterUpTo(stack, base, index, command.slot)
      BY <1>4, <1>10
    <3> QED BY <1>2, <1>6, <2>2, <3>1, <3>2 DEF Changes
  <2>4. CASE k # index + 1
    <3>1. k \in 1..index /\ k \in 1..Len(stack)
      BY <1>9, <2>0, <2>4
    <3>2. stack'[k] = stack[k] /\ Changes(stack, base, k)
      BY <1>8, <1>10, <3>1
    <3> QED BY <1>2, <2>2, <3>2 DEF Changes
  <2> QED BY <2>3, <2>4
<1> QED BY <1>11, <1>12

LEMMA UndoAddsUp ==
  ASSUME Types, SlotsOnce, AddUp, undo
  PROVE  AddUp'
<1> SUFFICES ASSUME ~misled'
             PROVE  /\ \A slot \in Slots : slot \in ToSet(definedSlots') <=> AfterUpTo(stack', base', index', slot)
                    /\ \A k \in 1..Len(stack') : Changes(stack', base', k)
  BY DEF AddUp, Defined
<1> DEFINE command == stack[index]
<1>1. /\ UNCHANGED <<stack, base>> /\ index' = index - 1 /\ document = "open" /\ ~misled
      /\ Modify(~command.add, command.slot)
  BY DEF undo, UndoAdds, historyVars
<1>2. index \in 1..Len(stack) /\ index \in Nat /\ index >= 1 /\ stack \in Seq(Commands)
  BY LenProperties DEF undo, Types, StackOK
<1>3. command \in Commands
  BY <1>2, ElementOfSeq
<1>4. command.add \in BOOLEAN /\ (~command.add) \in BOOLEAN /\ command.slot \in Slots
  BY <1>3 DEF Commands
<1>5. Does(~command.add, command.slot)
  BY <1>1, <1>4, ModifyDefines DEF Types, DocumentOK, SlotsOnce
<1>6. /\ \A slot \in Slots : Defined(slot) <=> AfterUpTo(stack, base, index, slot)
      /\ \A k \in 1..Len(stack) : Changes(stack, base, k)
  BY <1>1 DEF AddUp
<1>7. ASSUME NEW slot \in Slots PROVE slot \in ToSet(definedSlots') <=> AfterUpTo(stack, base, index - 1, slot)
  <2>1. CASE slot = command.slot
    <3>1. command.add <=> ~AfterUpTo(stack, base, index - 1, command.slot)
      BY <1>2, <1>6 DEF Changes
    <3>2. slot \in ToSet(definedSlots') <=> ~command.add
      BY <1>5, <2>1 DEF Does
    <3> QED BY <2>1, <3>1, <3>2
  <2>2. CASE slot # command.slot
    <3>1. AfterUpTo(stack, base, index, slot) = AfterUpTo(stack, base, index - 1, slot)
      BY <1>2, <2>2, AfterOther
    <3>2. slot \in ToSet(definedSlots') <=> Defined(slot)
      BY <1>5, <2>2 DEF Does
    <3> QED BY <1>6, <3>1, <3>2
  <2> QED BY <2>1, <2>2
<1> QED BY <1>1, <1>6, <1>7

LEMMA RedoAddsUp ==
  ASSUME Types, SlotsOnce, AddUp, redo
  PROVE  AddUp'
<1> SUFFICES ASSUME ~misled'
             PROVE  /\ \A slot \in Slots : slot \in ToSet(definedSlots') <=> AfterUpTo(stack', base', index', slot)
                    /\ \A k \in 1..Len(stack') : Changes(stack', base', k)
  BY DEF AddUp, Defined
<1> DEFINE n       == index + 1
           command == stack[n]
<1>1. /\ UNCHANGED <<stack, base>> /\ index' = n /\ document = "open" /\ ~misled
      /\ Modify(command.add, command.slot)
  BY DEF redo, historyVars
<1>2. /\ n \in 1..Len(stack) /\ n \in Nat /\ n >= 1 /\ n - 1 = index
      /\ stack \in Seq(Commands)
  BY LenProperties DEF redo, Types, StackOK
<1> HIDE DEF n
<1>3. command \in Commands
  BY <1>2, ElementOfSeq
<1>4. command.add \in BOOLEAN /\ command.slot \in Slots
  BY <1>3 DEF Commands
<1>5. Does(command.add, command.slot)
  BY <1>1, <1>4, ModifyDefines DEF Types, DocumentOK, SlotsOnce
<1>6. /\ \A slot \in Slots : Defined(slot) <=> AfterUpTo(stack, base, index, slot)
      /\ \A k \in 1..Len(stack) : Changes(stack, base, k)
  BY <1>1 DEF AddUp
<1>7. ASSUME NEW slot \in Slots PROVE slot \in ToSet(definedSlots') <=> AfterUpTo(stack, base, n, slot)
  <2>1. CASE slot = command.slot
    <3>1. AfterUpTo(stack, base, n, slot) = command.add
      BY <1>2, <2>1, AfterLast
    <3> QED BY <1>5, <2>1, <3>1 DEF Does
  <2>2. CASE slot # command.slot
    <3>1. AfterUpTo(stack, base, n, slot) = AfterUpTo(stack, base, n - 1, slot)
      BY <1>2, <2>2, AfterOther
    <3>2. slot \in ToSet(definedSlots') <=> Defined(slot)
      BY <1>5, <2>2 DEF Does
    <3> QED BY <1>2, <1>6, <3>1, <3>2
  <2> QED BY <2>1, <2>2
<1> QED BY <1>1, <1>6, <1>7

----------------------------------------------------------------------------
(* The steps *)

LEMMA InitHolds == Init => IInv
<1> SUFFICES ASSUME Init PROVE IInv
  OBVIOUS
<1>1. /\ document = "none" /\ definedSlots = <<>> /\ boundary = Rect(0, 0, 0, 0)
      /\ table = <<>> /\ rowCount = 0 /\ stack = <<>> /\ index = 0 /\ misled = FALSE
      /\ scene \in OldScenes /\ runs = 1
  BY DEF Init, Started
<1>2. \A slots \in scene : slots \in Seq(Slots) /\ IsInjective(slots)
  BY <1>1, SlotsAssumption DEF Slots
<1>3. Types
  <2>1. DocumentOK
    BY <1>1, <1>2 DEF DocumentOK, Rect, Rects
  <2>2. TableOK /\ StackOK
    BY <1>1 DEF TableOK, StackOK
  <2>3. misled \in BOOLEAN
    BY <1>1
  <2>4. runs \in 1..MaxRuns
    BY <1>1, SlotsAssumption
  <2> QED BY <2>1, <2>2, <2>3, <2>4 DEF Types, RunsOK
<1>4. SlotsOnce
  BY <1>1, <1>2 DEF SlotsOnce, IsInjective
<1> QED BY <1>1, <1>3, <1>4 DEF IInv, SlotsHaveWidgets, AddUp

(* Columns, rows and what ends the editor change neither list nor stack.   *)
LEMMA ListKept ==
  ASSUME IInv, ShownStays, UNCHANGED <<definedSlots, boundary, stack, index, scene, runs, base, misled>>,
         document' \in {document, "down"}
  PROVE  IInv'
<1>1. Types'
  BY DEF IInv, Types, DocumentOK, StackOK, RunsOK, ShownStays
<1>2. SlotsOnce'
  BY DEF IInv, SlotsOnce
<1>3. SlotsHaveWidgets'
  BY DEF IInv, SlotsHaveWidgets, ShownStays
<1>4. AddUp'
  <2>1. CASE document' = "down"
    BY <2>1 DEF AddUp
  <2>2. CASE document' = document
    BY <2>2 DEF IInv, AddUp, Defined
  <2> QED BY <2>1, <2>2
<1> QED BY <1>1, <1>2, <1>3, <1>4 DEF IInv

LEMMA TableKept ==
  ASSUME IInv, UNCHANGED <<definedSlots, boundary, table, rowCount, stack, index, scene, runs, base, misled>>,
         document' \in {document, "down"}
  PROVE  IInv'
<1>1. ShownStays
  BY DEF ShownStays, Shown, IInv, Types, TableOK
<1> QED BY <1>1, ListKept

(* The commands of clicks, undo and redo: the list changes by a slot that  *)
(* has a widget.                                                           *)
LEMMA CommandKeeps ==
  ASSUME IInv, document = "open", ShownStays, UNCHANGED <<document, scene, runs>>,
         NEW isAdd \in BOOLEAN, NEW slot \in Slots, slot \in Shown, Modify(isAdd, slot),
         StackOK', misled' \in BOOLEAN, AddUp',
         \A command \in ToSet(stack') : command.slot \in Shown
  PROVE  IInv'
<1>1. /\ definedSlots' \in Seq(Slots) /\ IsInjective(definedSlots') /\ boundary' \in Rects
      /\ ToSet(definedSlots') \subseteq ToSet(definedSlots) \cup {slot}
  BY ModifyDoes DEF IInv, Types, DocumentOK, SlotsOnce
<1>2. Types'
  BY <1>1 DEF IInv, Types, DocumentOK, RunsOK, ShownStays
<1>3. SlotsOnce'
  BY <1>1 DEF IInv, SlotsOnce
<1>4. SlotsHaveWidgets'
  BY <1>1 DEF IInv, SlotsHaveWidgets, ShownStays
<1> QED BY <1>2, <1>3, <1>4 DEF IInv

LEMMA StackShown ==
  ASSUME IInv, document = "open"
  PROVE  \A i \in 1..Len(stack) : stack[i].slot \in Shown /\ stack[i] \in Commands
<1>1. stack \in Seq(Commands) /\ DOMAIN stack = 1..Len(stack)
  BY LenProperties DEF IInv, Types, StackOK
<1>2. {command.slot : command \in ToSet(stack)} \subseteq Shown
  BY DEF IInv, SlotsHaveWidgets
<1>3. ASSUME NEW i \in 1..Len(stack) PROVE stack[i].slot \in Shown /\ stack[i] \in Commands
  <2>1. stack[i] \in ToSet(stack)
    BY <1>1 DEF ToSet
  <2> QED BY <1>1, <1>2, <2>1, ElementOfSeq
<1> QED BY <1>3

LEMMA ClickKeeps ==
  ASSUME IInv, myClicked
  PROVE  IInv'
<1>1. PICK c \in 1..Len(table), r \in 1..rowCount : Clicked(c, r)
  BY DEF myClicked, Clicked, Columns
<1>2. UNCHANGED <<document, rowCount, scene, runs>> /\ document = "open"
  BY DEF myClicked
<1> DEFINE command == CommandOf(table[c][r])
<1>3. ShownStays /\ command \in Commands /\ command.slot \in Shown
  BY <1>1, <1>2, ClickKeepsShown DEF IInv, Types
<1> HIDE DEF command
<1>4. command.add \in BOOLEAN /\ command.slot \in Slots
  BY <1>3 DEF Commands
<1>5. /\ stack' = Append(SubSeq(stack, 1, index), command) /\ index' = index + 1
      /\ Modify(command.add, command.slot)
      /\ misled' = (misled \/ command.add = Defined(command.slot))
  BY <1>1 DEF Clicked, command
<1>6. misled' \in BOOLEAN
  BY <1>5
<1>7. /\ stack' \in Seq(Commands) /\ Len(stack') = index + 1
      /\ stack'[index + 1] = command /\ \A i \in 1..index : stack'[i] = stack[i]
  BY <1>3, <1>5, ClickPushes DEF IInv, Types
<1>8. index \in Nat /\ index <= Len(stack) /\ Len(stack) \in Nat
  BY LenProperties DEF IInv, Types, StackOK
<1>9. StackOK'
  BY <1>2, <1>5, <1>7, <1>8 DEF StackOK
<1>10. ASSUME NEW other \in ToSet(stack') PROVE other.slot \in Shown
  <2>1. PICK i \in 1..(index + 1) : other = stack'[i]
    BY <1>7, LenProperties DEF ToSet
  <2>2. CASE i = index + 1
    BY <1>3, <1>7, <2>1, <2>2
  <2>3. CASE i # index + 1
    <3>1. i \in 1..index /\ i \in 1..Len(stack)
      BY <1>8, <2>3
    <3> QED BY <1>2, <1>7, <2>1, <3>1, StackShown
  <2> QED BY <2>2, <2>3
<1>11. AddUp'
  BY ClickAddsUp DEF IInv
<1> QED BY <1>2, <1>3, <1>4, <1>5, <1>6, <1>9, <1>10, <1>11, CommandKeeps

LEMMA UndoKeeps ==
  ASSUME IInv, undo \/ redo
  PROVE  IInv'
<1>1. /\ document = "open" /\ UNCHANGED <<document, table, rowCount, stack, scene, runs, misled>>
      /\ index \in 0..Len(stack) /\ index' \in 0..Len(stack)
  BY LenProperties DEF undo, redo, IInv, Types, StackOK, tableVars, historyVars
<1>2. ShownStays
  BY <1>1 DEF ShownStays, Shown, IInv, Types, TableOK
<1>3. StackOK' /\ misled' \in BOOLEAN
  BY <1>1 DEF IInv, Types, StackOK, RunsOK
<1>4. \A i \in 1..Len(stack) :
        stack[i].slot \in Shown /\ stack[i].slot \in Slots /\ stack[i].add \in BOOLEAN
  BY <1>1, StackShown DEF Commands
<1>5. \A command \in ToSet(stack') : command.slot \in Shown
  <2>1. {command.slot : command \in ToSet(stack)} \subseteq Shown
    BY <1>1 DEF IInv, SlotsHaveWidgets
  <2> QED BY <1>1, <2>1
<1>6. AddUp'
  BY UndoAddsUp, RedoAddsUp DEF IInv
<1>7. PICK i \in 1..Len(stack), isAdd \in BOOLEAN : Modify(isAdd, stack[i].slot)
  <2>1. CASE undo
    <3>1. index \in 1..Len(stack) /\ Modify(~stack[index].add, stack[index].slot)
      BY <1>1, <2>1 DEF undo, UndoAdds
    <3> QED BY <3>1
  <2>2. CASE redo
    <3>1. index + 1 \in 1..Len(stack) /\ Modify(stack[index + 1].add, stack[index + 1].slot)
      BY <1>1, <2>2, LenProperties DEF redo, IInv, Types, StackOK
    <3> QED BY <1>4, <3>1
  <2> QED BY <2>1, <2>2
<1> QED BY <1>1, <1>2, <1>3, <1>4, <1>5, <1>6, <1>7, CommandKeeps

LEMMA OpenKeeps ==
  ASSUME IInv, document = "none", NEW slots \in Seq(Slots), slots # <<>>, IsInjective(slots),
         Open(slots)
  PROVE  IInv'
<1>1. /\ document' = "open" /\ definedSlots' = slots /\ boundary' = updateSlotBoundary(slots)
      /\ table' = populate(slots, boundary')
      /\ rowCount' = boundary'.bottom - boundary'.top + 1 /\ base' = ToSet(slots)
      /\ UNCHANGED <<stack, index, scene, runs, misled>>
  BY DEF Open, stackVars
<1>2. Covers(boundary', slots, Len(slots))
  BY <1>1, BoundaryCovers
<1> DEFINE columns == boundary'.right - boundary'.left + 1
<1>3. /\ columns \in Nat /\ rowCount' \in Nat /\ IsTable(table', columns, rowCount')
      /\ \A slot \in ToSet(slots) : Shows(table', columns, rowCount', slot)
  BY <1>1, <1>2, PopulateShows
<1> HIDE DEF columns
<1>4. TableOK' /\ Len(table') = columns
  BY <1>3 DEF TableOK, IsTable
<1>5. stack = <<>> /\ index = 0
  BY DEF IInv, Types, StackOK
<1>6. Types'
  BY <1>1, <1>2, <1>4, <1>5 DEF IInv, Types, DocumentOK, StackOK, RunsOK, Covers
<1>7. SlotsOnce'
  BY <1>1 DEF IInv, SlotsOnce
<1>8. SlotsHaveWidgets'
  <2>1. ToSet(slots) \subseteq Shown'
    BY <1>3, <1>4, NextShownIs
  <2>2. ToSet(stack') = {}
    BY <1>1, <1>5 DEF ToSet
  <2> QED BY <1>1, <2>1, <2>2 DEF SlotsHaveWidgets
<1>9. AddUp'
  BY <1>1, <1>5, AfterNone DEF AddUp, Defined
<1> QED BY <1>6, <1>7, <1>8, <1>9 DEF IInv

LEMMA NextKeeps == IInv /\ [Next]_vars => IInv'
<1> SUFFICES ASSUME IInv, [Next]_vars PROVE IInv'
  OBVIOUS
<1>1. CASE addColumn
  <2>1. /\ UNCHANGED <<definedSlots, boundary, stack, index, scene, runs, base, misled>>
        /\ document' \in {document, "down"}
    BY <1>1 DEF addColumn, AskNull, campaignVars, stackVars, historyVars
  <2> QED BY <1>1, <2>1, ColumnKeepsShown, ListKept DEF IInv, Types
<1>2. CASE addRow
  <2>1. /\ UNCHANGED <<definedSlots, boundary, stack, index, scene, runs, base, misled>>
        /\ document' \in {document, "down"}
    BY <1>2 DEF addRow, AskNull, campaignVars, stackVars, historyVars
  <2> QED BY <1>2, <2>1, RowKeepsShown, ListKept DEF IInv, Types
<1>3. CASE myClicked
  BY <1>3, ClickKeeps
<1>4. CASE undo \/ redo
  BY <1>4, UndoKeeps
<1>5. CASE initialize
  <2> DEFINE slots == << <<0, 0>> >>
  <2>1. slots \in Seq(Slots) /\ slots # <<>>
    BY DEF Slots
  <2>2. IsInjective(slots)
    <3>1. DOMAIN slots = 1..1
      OBVIOUS
    <3> QED BY <3>1 DEF IsInjective
  <2>3. document = "none" /\ Open(slots)
    BY <1>5 DEF initialize
  <2> HIDE DEF slots
  <2> QED BY <2>1, <2>2, <2>3, OpenKeeps
<1>6. CASE load
  <2>1. CASE \E slots \in scene : slots # <<>> /\ Open(slots)
    <3>1. PICK slots \in scene : slots # <<>> /\ Open(slots)
      BY <2>1
    <3>2. slots \in Seq(Slots) /\ IsInjective(slots) /\ document = "none"
      BY <1>6 DEF load, IInv, Types, DocumentOK, SlotsOnce
    <3> QED BY <3>1, <3>2, OpenKeeps
  <2>2. CASE document' = "down" /\ UNCHANGED <<campaignVars, tableVars, stackVars, scene, runs, historyVars>>
    BY <2>2, TableKept DEF campaignVars, tableVars, stackVars, historyVars
  <2> QED BY <1>6, <2>1, <2>2 DEF load
<1>7. CASE OpenAgain \/ UNCHANGED vars
  BY <1>7, TableKept DEF OpenAgain, vars, campaignVars, tableVars, stackVars, historyVars
<1>8. CASE save
  <2>1. /\ scene' = {definedSlots} /\ document = "open"
        /\ UNCHANGED <<document, definedSlots, boundary, table, rowCount, stack, index, runs, base, misled>>
    BY <1>8 DEF save, campaignVars, tableVars, stackVars, historyVars
  <2>2. Types'
    BY <2>1 DEF IInv, Types, DocumentOK, TableOK, StackOK, RunsOK
  <2>3. SlotsOnce'
    BY <2>1 DEF IInv, SlotsOnce
  <2>4. SlotsHaveWidgets'
    BY <2>1 DEF IInv, SlotsHaveWidgets, Shown
  <2>5. AddUp'
    BY <2>1 DEF IInv, AddUp, Defined
  <2> QED BY <2>2, <2>3, <2>4, <2>5 DEF IInv
<1>9. CASE Restart
  <2>1. /\ document' = "none" /\ definedSlots' = <<>> /\ boundary' = Rect(0, 0, 0, 0)
        /\ table' = <<>> /\ rowCount' = 0 /\ stack' = <<>> /\ index' = 0 /\ misled' = FALSE
        /\ scene' = scene /\ runs' = runs + 1 /\ runs < MaxRuns
    BY <1>9 DEF Restart
  <2>2. Types'
    <3>1. DocumentOK'
      BY <2>1 DEF IInv, Types, DocumentOK, Rect, Rects
    <3>2. TableOK' /\ StackOK'
      BY <2>1 DEF TableOK, StackOK
    <3>3. RunsOK'
      <4>1. misled' \in BOOLEAN
        BY <2>1
      <4>2. runs' \in 1..MaxRuns
        BY <2>1, SlotsAssumption DEF IInv, Types, RunsOK
      <4> QED BY <4>1, <4>2 DEF RunsOK
    <3> QED BY <3>1, <3>2, <3>3 DEF Types
  <2>3. SlotsOnce'
    BY <2>1 DEF IInv, SlotsOnce, IsInjective
  <2> QED BY <2>1, <2>2, <2>3 DEF IInv, SlotsHaveWidgets, AddUp
<1> QED
  BY <1>1, <1>2, <1>3, <1>4, <1>5, <1>6, <1>7, <1>8, <1>9 DEF Next

LEMMA AlwaysIInv == Spec => []IInv
BY InitHolds, NextKeeps, PTL DEF Spec

(* The list, the boundary, the widgets in their columns and the commands   *)
(* keep their types, for any counts and order of inserted columns and rows *)
(* (sloteditor.cpp:78-148, campaignmanager.cpp:327-343).                   *)
THEOREM TypeCorrect == Spec => []TypeOK
<1>1. IInv => TypeOK
  <2> SUFFICES ASSUME IInv PROVE TypeOK
    OBVIOUS
  <2>1. ToSet(definedSlots) \subseteq Slots
    BY LenProperties, ElementOfSeq DEF IInv, Types, DocumentOK, ToSet
  <2>2. ASSUME NEW c \in 1..Len(table)
        PROVE  /\ Len(table[c]) = rowCount
               /\ \A r \in 1..rowCount : table[c][r].slot \in Slots /\ table[c][r].defined \in BOOLEAN
    <3>1. table[c] \in Seq(Widgets) /\ Len(table[c]) = rowCount
      BY ElementOfSeq DEF IInv, Types, TableOK
    <3>2. \A r \in 1..rowCount : table[c][r] \in Widgets
      BY <3>1, ElementOfSeq
    <3> QED BY <3>1, <3>2 DEF Widgets
  <2>3. boundary \in [left : Int, top : Int, right : Int, bottom : Int]
    BY DEF IInv, Types, DocumentOK, Rects
  <2> QED
    BY <2>1, <2>2, <2>3 DEF IInv, Types, DocumentOK, StackOK, RunsOK, TypeOK, Columns
<1> QED BY <1>1, AlwaysIInv, PTL

(* remove erases the first entry of a slot and add looks for it first, so  *)
(* that no slot is in the list twice, nor in a file that was saved, also   *)
(* if several widgets stand for one slot (undocommands.cpp:223-249).       *)
THEOREM SlotsAlwaysOnce == Spec => []SlotsOnce
<1>1. IInv => SlotsOnce
  BY DEF IInv
<1> QED BY <1>1, AlwaysIInv, PTL

(* Every slot that is defined or in a command has a widget: the table that *)
(* is made for a campaign reaches from the least to the greatest slot, and *)
(* no insertion of a column or a row takes a widget out or changes its     *)
(* slot (sloteditor.cpp:78-106, 123-148, campaignmanager.cpp:327-343).     *)
THEOREM SlotsAlwaysHaveWidgets == Spec => []SlotsHaveWidgets
<1>1. IInv => SlotsHaveWidgets
  BY DEF IInv
<1> QED BY <1>1, AlwaysIInv, PTL

(* The slots that are defined are those the campaign was opened with and   *)
(* the commands that are done, for any number of them, unless a widget was *)
(* clicked that was wrong about its slot (sloteditor.cpp:41-46,            *)
(* undocommands.cpp:211-249).                                              *)
THEOREM CommandsAlwaysAddUp == Spec => []CommandsAddUp
<1>1. IInv => CommandsAddUp
  <2> SUFFICES ASSUME IInv, document = "open", ~misled, NEW slot \in Shown
               PROVE  Defined(slot) = After(slot)
    BY DEF CommandsAddUp
  <2>1. slot \in Slots
    <3>1. Shows(table, Len(table), rowCount, slot) /\ TableOK
      BY ShownIs DEF IInv, Types
    <3>2. PICK c \in 1..Len(table), r \in 1..rowCount : table[c][r].slot = slot
      BY <3>1 DEF Shows
    <3>3. table[c] \in Seq(Widgets) /\ Len(table[c]) = rowCount
      BY <3>1, ElementOfSeq DEF TableOK
    <3>4. table[c][r] \in Widgets
      BY <3>3, ElementOfSeq
    <3> QED BY <3>2, <3>4 DEF Widgets
  <2>2. Defined(slot) <=> AfterUpTo(stack, base, index, slot)
    BY <2>1 DEF IInv, AddUp
  <2>3. AfterUpTo(stack, base, index, slot) = After(slot)
    BY DEF AfterUpTo, After
  <2>4. After(slot) \in BOOLEAN /\ Defined(slot) \in BOOLEAN
    <3> DEFINE last == {i \in 1..index : stack[i].slot = slot}
    <3>1. index \in Nat /\ index <= Len(stack) /\ last \in SUBSET (1..index)
      BY LenProperties DEF IInv, Types, StackOK
    <3>2. After(slot) = IF last = {} THEN slot \in base ELSE stack[Max(last)].add
      BY DEF After
    <3> HIDE DEF last
    <3>3. CASE last = {}
      BY <3>2, <3>3 DEF Defined
    <3>4. CASE last # {}
      <4>1. Max(last) \in 1..index
        BY <3>1, <3>4, MaxProperties
      <4>2. Max(last) \in 1..Len(stack)
        BY <3>1, <4>1, LenProperties DEF IInv, Types, StackOK
      <4>3. stack[Max(last)].add \in BOOLEAN
        BY <4>2, StackShown DEF Commands
      <4> QED BY <3>2, <3>4, <4>3 DEF Defined
    <3> QED BY <3>3, <3>4
  <2> QED BY <2>2, <2>3, <2>4
<1> QED BY <1>1, AlwaysIInv, PTL
==============================================================================
