---------------------------- MODULE ObjectManager ----------------------------
(***************************************************************************)
(* oms/objectmanager.cpp: the objects of a server, what has changed since  *)
(* the last sync, and the loop that steps them.                            *)
(*                                                                         *)
(* An object is known by its id, which is never used again.  Nothing calls *)
(* addUpdatedObject, so there are no altered objects.  Scripts create and  *)
(* remove objects when the game logic steps, and in the step of an object. *)
(***************************************************************************)
EXTENDS Integers, Sequences, SequencesExt, FiniteSetsExt

CONSTANTS
  Cleanup,         \* ids of the objects whose class has a method cleanup()
  MaxObjects       \* bound: objects that are created

ASSUME ObjectAssumption == MaxObjects \in Nat /\ Cleanup \subseteq Nat

VARIABLES
  m_objectsById, m_newObjects, m_removedIds, nextId,   \* objects as their ids
  it,              \* iterator of the loop over the objects
  stepped,         \* objects the loop has stepped
  alive,           \* objects that have been there since the loop began
  up               \* FALSE after undefined behaviour

managerVars == <<m_objectsById, m_newObjects, m_removedIds, nextId>>
loopVars == <<it, stepped, alive>>
vars == <<managerVars, loopVars, up>>

Idle == -1
End == MaxObjects
Ids == 0..(MaxObjects - 1)

Init ==
  /\ m_objectsById = {} /\ m_newObjects = {} /\ m_removedIds = {} /\ nextId = 0
  /\ it = Idle /\ stepped = {} /\ alive = {}
  /\ up = TRUE

----------------------------------------------------------------------------
createObject ==
  /\ up /\ nextId < MaxObjects
  /\ m_objectsById' = m_objectsById \cup {nextId}
  /\ m_newObjects' = m_newObjects \cup {nextId}
  /\ nextId' = nextId + 1
  /\ UNCHANGED <<m_removedIds, loopVars, up>>

(* The iterator of the loop is invalid once the object it points to is     *)
(* removed, and what follows is undefined.                                 *)
removeObject(id) ==
  /\ up /\ id \in m_objectsById
  /\ m_objectsById' = m_objectsById \ {id}
  /\ m_removedIds' = m_removedIds \cup {id}
  /\ alive' = alive \ {id}
  /\ up' = (it # id)
  /\ UNCHANGED <<m_newObjects, nextId, it, stepped>>

Script == createObject \/ \E id \in Ids : removeObject(id)

(* serialize of an object whose cleanup() was called uses an engine that   *)
(* is not there any more.                                                  *)
CannotSerialize == m_newObjects \cap m_removedIds \cap Cleanup # {}

(* The objects of serializeChanges: the set of new ones is ordered by      *)
(* their addresses, so in any order.                                       *)
serializeChanges == SetToSeqs(m_newObjects)

(* The objects of serializeFull: in the order of the ids. *)
IsAscending(s) == \A i, j \in DOMAIN s : i < j => s[i] < s[j]
serializeFull == {s \in SetToSeqs(m_objectsById) : IsAscending(s)}

flushUpdateCache ==
  /\ m_newObjects' = {} /\ m_removedIds' = {}
  /\ UNCHANGED <<m_objectsById, nextId>>

(* The timer of the server, as far as it touches the objects. *)
Flush ==
  /\ up /\ it = Idle
  /\ flushUpdateCache
  /\ UNCHANGED <<loopVars, up>>

----------------------------------------------------------------------------
(* step(dt) *)

(* Mutant: the iterator of the loop moves on by two. *)
AfterSkipping(id) == Min({x \in m_objectsById : x > id + 1} \cup {End})

(* The object behind id in the map, if there is one. *)
After(id) == Min({x \in m_objectsById : x > id} \cup {End})

StepBegins ==
  /\ up /\ it = Idle
  /\ it' = After(-1) /\ stepped' = {} /\ alive' = m_objectsById
  /\ UNCHANGED <<managerVars, up>>

(* The iterator is advanced, then the object is stepped: its script runs   *)
(* until the next step of the loop.                                        *)
StepObject ==
  /\ up /\ it \in Ids
  /\ it' = After(it) /\ stepped' = stepped \cup {it}
  /\ UNCHANGED <<managerVars, alive, up>>

StepEnds ==
  /\ up /\ it = End
  /\ it' = Idle /\ stepped' = {} /\ alive' = {}
  /\ UNCHANGED <<managerVars, up>>

Next == Script \/ Flush \/ StepBegins \/ StepObject \/ StepEnds

Spec == Init /\ [][Next]_vars

----------------------------------------------------------------------------
TypeOK ==
  /\ nextId \in 0..MaxObjects
  /\ m_objectsById \subseteq 0..(nextId - 1)
  /\ m_newObjects \subseteq 0..(nextId - 1) /\ m_removedIds \subseteq 0..(nextId - 1)
  /\ it \in Ids \cup {Idle, End}
  /\ stepped \subseteq Ids /\ alive \subseteq m_objectsById
  /\ up \in BOOLEAN

(* The loop steps every object that is there from its beginning to its     *)
(* end, and none twice, whatever the scripts create and remove meanwhile   *)
(* (objectmanager.cpp:307-318), unless it runs into a removed object.      *)
EachSteppedOnce ==
  [][/\ it \in Ids /\ it' \notin {it, Idle} => it \notin stepped
     /\ it = End /\ it' = Idle => alive \subseteq stepped]_vars
==============================================================================
