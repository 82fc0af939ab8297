------------------------------ MODULE WorldSync ------------------------------
(***************************************************************************)
(* The state of the world: the server's object manager, the server that    *)
(* sends its changes (networkserver.cpp), and one client that applies them *)
(* (networkclient.cpp, objectmanager.cpp).                                 *)
(*                                                                         *)
(* An object of the client is known by the id it has there, and by the     *)
(* server's objects it got its name and its data from.                     *)
(*                                                                         *)
(* Packages are lost, late and repeated as in UdpConnection: none is taken *)
(* out of net.  The server is single-threaded and handles none while the   *)
(* loop over the objects runs, so here the loop is what its scripts do.    *)
(***************************************************************************)
EXTENDS ObjectManager

CONSTANTS
  MaxUpdates,      \* bound: packages sent
  MaxClientObjects \* bound: objects the client creates

ASSUME WorldAssumption == MaxUpdates \in Nat /\ MaxClientObjects \in Nat

VARIABLES
  session,         \* of the client, at the server; joined: active, and it got the full state
  net,             \* packages sent to the client
  loaded,          \* has the client an object manager?
  world,           \* objects of the client, by the id they have there
  clientNextId,
  last,            \* number of the last package applied
  orderly          \* the conditions of WorldMirrored were met so far

clientVars == <<loaded, world, clientNextId, last>>
worldVars == <<vars, session, net, clientVars, orderly>>

WorldInit ==
  /\ Init
  /\ session = "none" /\ net = {}
  /\ loaded = FALSE /\ world = <<>> /\ clientNextId = 0 /\ last = 0
  /\ orderly = TRUE

----------------------------------------------------------------------------
(* The server *)

ServerScript == Script /\ UNCHANGED <<session, net, clientVars, orderly>>

(* How many packages were sent, and what a client knows that has applied   *)
(* those since the last full state: ids of objects.                        *)
Sent == Cardinality(net)
View == UNION {update.view : update \in {u \in net : u.no = Sent}}

(* A package.  view is what View is then, and next the id after those of   *)
(* all objects; no, view and next are not on the wire.                     *)
Update(objects, removed, full) ==
  [no |-> Sent + 1, objects |-> objects, removed |-> removed, full |-> full, next |-> nextId,
   view |-> IF full THEN ToSet(objects) ELSE (View \cup ToSet(objects)) \ removed]

(* Mutant: the removal of an object is sent only if the object is new. *)
ChangesWithoutOldRemoved ==
  {Update(objects, m_removedIds \cap m_newObjects, FALSE) : objects \in serializeChanges}

Changes == {Update(objects, m_removedIds, FALSE) : objects \in serializeChanges}

(* The timer.  The changes are serialized if there is any session, sent to *)
(* those that are active, and forgotten in any case.                       *)
sync ==
  /\ up
  /\ up' = (session = "none" \/ ~CannotSerialize)
  /\ IF session \in {"active", "joined"} /\ up'
     THEN Sent < MaxUpdates /\ \E update \in Changes : net' = net \cup {update}
     ELSE UNCHANGED net
  /\ flushUpdateCache
  /\ UNCHANGED <<loopVars, session, clientVars, orderly>>

(* handle_joinRequest: the session is there, and active. *)
JoinRequest ==
  /\ up /\ session \in {"none", "inactive"}
  /\ session' = "active"
  /\ UNCHANGED <<vars, net, clientVars, orderly>>

(* handle_joinAcknowledge: the full state is sent. *)
JoinAcknowledge ==
  /\ up /\ loaded /\ Sent < MaxUpdates
  /\ session' = "joined"
  /\ \E objects \in serializeFull : net' = net \cup {Update(objects, {}, TRUE)}
  /\ orderly' = (orderly /\ m_objectsById = 0..(nextId - 1) /\ \A p \in net : ~p.full)
  /\ UNCHANGED <<vars, clientVars>>

(* closeDeadConnections *)
SessionCloses ==
  /\ up /\ session # "none"
  /\ session' = "none"
  /\ orderly' = (orderly /\ session # "joined")
  /\ UNCHANGED <<vars, net, clientVars>>

(* A call of the client makes a session that is not active. *)
CallArrives ==
  /\ up /\ loaded /\ session = "none"
  /\ session' = "inactive"
  /\ UNCHANGED <<vars, net, clientVars, orderly>>

----------------------------------------------------------------------------
(* The client *)

Bind(f, x, y) == [z \in DOMAIN f \cup {x} |-> IF z = x THEN y ELSE f[z]]

(* The join response was handled: there is an object manager. *)
ClientLoads ==
  /\ ~loaded /\ loaded' = TRUE
  /\ UNCHANGED <<vars, session, net, world, clientNextId, last, orderly>>

(* A client's script creates an object of its own. *)
ClientCreates ==
  /\ loaded /\ clientNextId < MaxClientObjects
  /\ world' = Bind(world, clientNextId, [name |-> -1, data |-> -1])
  /\ clientNextId' = clientNextId + 1
  /\ orderly' = FALSE
  /\ UNCHANGED <<vars, session, net, loaded, last>>

(* ... or removes one. *)
ClientRemoves ==
  /\ \E id \in DOMAIN world : world' = [x \in DOMAIN world \ {id} |-> world[x]]
  /\ orderly' = FALSE
  /\ UNCHANGED <<vars, session, net, loaded, clientNextId, last>>

(* Mutant: an object that is known is created again. *)
DeserializeAgain(w, id) ==
  [objects |-> Bind(w.objects, w.next, [name |-> id, data |-> id]), next |-> w.next + 1]

(* Mutant: the object is kept under the server's id, and the counter of    *)
(* the client stays behind.                                                *)
DeserializeUnderServerId(w, id) ==
  [w EXCEPT !.objects = Bind(@, id, [name |-> id, data |-> id])]

(* One object of an update: the object with that id is overwritten, if     *)
(* there is one; else an object is created, with an id of the client.      *)
DeserializeObject(w, id) ==
  IF id \in DOMAIN w.objects
  THEN [w EXCEPT !.objects[id].data = id]
  ELSE [objects |-> Bind(w.objects, w.next, [name |-> id, data |-> id]), next |-> w.next + 1]

deserialize(objects) ==
  FoldLeft(DeserializeObject, [objects |-> world, next |-> clientNextId], objects)

(* handle_receive: the objects, and then the removed ids. *)
Receive(update) ==
  LET w == deserialize(update.objects)
  IN  /\ loaded /\ w.next <= MaxClientObjects
      /\ world' = [id \in DOMAIN w.objects \ update.removed |-> w.objects[id]]
      /\ clientNextId' = w.next
      /\ last' = update.no
      /\ orderly' = (orderly /\ IF last = 0 THEN update.full ELSE update.no = last + 1)
      /\ UNCHANGED <<vars, session, net, loaded>>

----------------------------------------------------------------------------
WorldNext ==
  \/ ServerScript
  \/ sync \/ JoinRequest \/ JoinAcknowledge \/ SessionCloses \/ CallArrives
  \/ ClientLoads \/ ClientCreates \/ ClientRemoves
  \/ \E update \in net : Receive(update)

WorldSpec == WorldInit /\ [][WorldNext]_worldVars

----------------------------------------------------------------------------
WorldTypeOK ==
  /\ TypeOK
  /\ loaded \in BOOLEAN /\ orderly \in BOOLEAN
  /\ session \in {"none", "inactive", "active", "joined"}
  /\ last \in 0..Sent /\ Sent <= MaxUpdates
  /\ DOMAIN world \subseteq 0..(clientNextId - 1)
  /\ clientNextId \in 0..MaxClientObjects

(* What a client in the game was told, and the changes that wait for the   *)
(* next sync, make up the objects there are, whenever it got the full      *)
(* state between two syncs (objectmanager.cpp:208-235,                     *)
(* networkserver.cpp:162-180, 240-244).                                    *)
ChangesComplete ==
  up /\ session = "joined" => m_objectsById = (View \cup m_newObjects) \ m_removedIds

(* When nothing had been removed before a client joined, and every package *)
(* from the full state on was applied once and in order, and its own       *)
(* scripts neither created nor removed an object, and the objects of one   *)
(* package came in the order of their ids, then the client has the objects *)
(* of the server, each under the same id (objectmanager.cpp:237-253,       *)
(* networkclient.cpp:133-150).                                             *)
WorldMirrored ==
  orderly /\ last > 0 =>
    \A update \in net :
      /\ update.no = last
      /\ \A u \in net : u.no <= last => IsAscending(u.objects)
      => world = [id \in update.view |-> [name |-> id, data |-> id]]
==============================================================================
