# NetSiege: specifications, model checking and proofs

NetSiege is a multiplayer game on Ogre, with AngelScript campaigns: a dedicated
server (`src/server.cpp`), a client (`src/main.cpp`) and a campaign editor
(`editor/`). This directory specifies its own core logic in TLA+, checks it
with TLC on small instances and proves the most important parts with TLAPS.
Paths below are relative to the root of the repository.

## Inventory

Server and client are single-threaded event loops (boost::asio). Nothing runs
concurrently within a program; what is hard is UDP between them (packages lost,
late, repeated), timers, containers that change while they are iterated over,
and integers that wrap.

| Component | State | Operations | Correct when |
|---|---|---|---|
| Sequence ids, `src/network/network.{h,cpp}` | none | compare, distance, acknowledged | total order on half the id space, also across the wrap |
| Connection, `udpconnection.h` | next id, newest remote id, ack mask, memory of calls | send, call, parse (refresh, loop over the memory, dispatch) | no call is lost from or doubled in the memory; resent after a timeout only; the mask tells what was received |
| Server and sessions, `networkserver.cpp`, `clientsession.cpp` | sessions by endpoint, next client id | receive, join request, join acknowledge, sync, close dead | a handler acts on the session the package came from; a client in the game has the world |
| Client, `networkclient.cpp`, `main.cpp` | campaign manager, logic | join, receive, main loop | gets into the game once |
| RPC dispatcher, `rpcdispatcher.cpp` | handlers, procedures, next handler id | register, look up, build and execute calls | a call reaches its handler for ever |
| RPC packages, `rpcpackage.{h,cpp}` | bytes, read offset, argString | push, pop | what is popped was pushed |
| Object manager, `src/oms/` | objects, new, altered, removed | create, remove, step, serialize, deserialize | changes since the last sync are complete; clients have the server's objects |
| Serializer, `src/script/serializer.cpp` | none | objects to and from messages | what is read was written, property by property, or nothing is |
| Campaign, `src/campaign/`, `server.cpp` | path, logic, registered types | find, import, init, step | the programs start or say why not; what the server has gets to the client |
| Editor documents, `editor/campaignmanager.cpp`, `editableterrainpagedworldsection.cpp` | edited tiles, slots, temporary files | load, save, page out | no edit is lost |
| Editor undo, `editor/undocommands.cpp`, `brush.cpp` | command stack, stroke | strokes, redo, undo | undo restores |
| Slot editor, `editor/sloteditor.cpp` | table of widgets | add columns and rows, click | every slot has a widget, and a click does what it shows |
| Cameras and walker, `editor/editorcamera.cpp`, `walker.cpp`, `walkercamera.cpp` | keys, angles, points of the walk | input, frames, mode | the camera does what is held; the figure goes where was clicked, and stops |

How they interact: a script call goes through `RPCDispatcher::buildCall` and the
send function to `UdpConnection::remoteProcedureCall` and onto the wire; a
received package goes to `parsePackage`, which refreshes the connection, sends
again what has timed out and hands the call to the dispatcher, whose C++ handlers
are those of the join handshake. Package without a call are states of the world:
`NetworkServer::sync` collects them from the object manager every 0.1 s, and
`NetworkClient::handle_receive` applies them, property by property with the
serializer. In the editor the widget's events, a timer and the frames of Ogre
change the same cameras; the brush, the slot editor and the undo stack change the
terrain that the pager loads and unloads and that `save` writes. PROJECT.json lists what can go
wrong in this, line by line ("hazards").

## Modules

| Module | Models |
|---|---|
| `SeqId` | the operators of `network.cpp`, for any width of ids and masks |
| `RpcChannel` | abstract: what a caller may expect of a connection |
| `UdpConnection` | both ends of a connection; implements `RpcChannel` |
| `NetworkServer` | the join handshake: the server's sessions and the client programs, over a channel |
| `RpcPackage`, `RpcDispatcher` | bytes of arguments; registration, lookup and execution of calls |
| `ObjectManager` | the server's objects and the loop that steps them |
| `WorldSync` | extends `ObjectManager` with the sessions' view of it, the packages and a client that applies them |
| `Serializer` | the properties of an object to a message and back, as operators |
| `Campaign` | extends `Serializer`: both programs load their campaigns, and an object of the server reaches the client |
| `TerrainTiles` | the editor's tiles: paging, strokes on heights and blend layers, slots, undo and redo, saving; implements `TerrainStore` while no step loses an edit |
| `TerrainStore` | abstract: one world that the user edits and `save` brings to the disk |
| `SlotEditor` | the list of slots and its file, the table of the slot editor, the commands of its clicks |
| `EditorCamera` | keys, mouse, timer and frames; both cameras, the figure that walks |
| `MC...` | values of constants, and what comments and tests of the repository say |
| `DataFacts` | lemmas several proofs cite: numbers, sets and sequences; induction and recursion stated with sets and functions |
| `..._proofs` | theorems; those about `SeqId`, `UdpConnection`, `RpcPackage` and `RpcDispatcher` are in `Rpc_proofs` |

How the actions correspond to the code: an action has the name of the function
it models; what a function does to state is one step, but for `parsePackage`,
which is `Receive`, then one `AckStep` per turn of the loop, then `Dispatch`,
because the loop is what the properties are about. No other step of that end
comes in between. Undefined behaviour is a choice of outcomes (`ShiftOutcomes`,
`closeDeadConnections`) or ends the model of that program (`up`, `serverUp`).

`UdpConnection` keeps the network as the set of all packages ever sent: not
receiving one is a loss, receiving it again a duplicate. The iterator is a
position in the list, behind which libstdc++'s list is circular, so that the
`it++` after an erase is modelled as it runs. Time is how many packages are older
than the timeout. Calls are numbered without wrapping; the code labels them with 16 bits
that nobody reads, and what is said of calls is not about these labels. The
acknowledgement the partner sends is not in the model
since `refresh` does not read it.

`NetworkServer` works on calls, and numbers sessions as the server does; ids are
cut to `IdModulus` where the code cuts a `size_t` to `uint16_t`. A client that
cannot load the campaign, a second join response and an acknowledgement without
a session follow the code to its crash.

`RpcPackage` has bytes that know which value they are a part of, so that reading
at a wrong offset gives garbage and not a number by chance; an empty string is two
bytes of length and nothing behind them. `RpcDispatcher` sends what `buildCall`
lets through: a call with the arguments that were declared, all of which found
place in the package, since it asserts so. `WorldSync` knows an
object of a client by its id there and by the objects of the server its name and
its data came from; the values of properties are left out.

`Campaign` takes one object and follows its values, which `WorldSync` leaves out:
a class is a sequence of names with declarations, as far as the serializer tells
declarations apart, and what a script writes is a number nobody has written before.
`WorldSync` has the objects and the ids, `NetworkServer` the handshake; `Campaign`
repeats of them only that the client has a session before it loads and gets a full
state after it has. A version of a campaign says what its scripts do; the two
programs may find different versions, since nothing compares them.

`TerrainTiles` has one number for each channel of a tile, its height and its blend
layers, and one strength for a turn of the brush. Strokes, paging, undo and a further
`save` come in between the beginning of `save` and `saveTiles`, because `save`
handles events while it waits for terrain updates. A null pointer or a failed
assertion ends the program (`running`): they are reached by ending a stroke over a
tile that was paged out, by undoing an edit of one, and by painting a blend layer
the terrain does not have. The editor is assumed not to run in the campaign's
`world/`; there the "~" files of `unloadPage` would be found again. The abstract
store is seen through `Shown`, a tile as it is or would be loaded, and `Saved`, what
the disk has; `LosesEdits` names the steps that are none of a store: paging out a tile
that is edited or was defined as flat, a command of a slot that loads a tile as flat,
a `saveTiles` that leaves such a tile out.

`SlotEditor` shares the slot commands with `TerrainTiles`: there they load terrain,
here they change the list, its boundary and what widgets show. A widget keeps its
own `m_defined`; `misled` remembers that one was clicked that was wrong about its
slot. `OpenAgain`, `load` and `AskNull` end the program where the code throws an
exception, fails an assertion or uses a null pointer.

`EditorCamera` counts angles in steps of 18 degrees, so that the limits of the code
are whole numbers, and movements of the mouse by the angle they turn. The timer moves
the cursor back into the widget as the code does; the widget is taken to lie on the
screen as a whole, and not to change its size. (Where it does not, the system may not
put the cursor where `viewUpdate` has put it, and the view turns by the difference.)
The timer has run once before a button is pressed: before that
`m_prevMousePosition` is not initialized. Where things stand is left out: the distance
to a point that was clicked is any of `Distances`. `lost` and `unseen` remember what
happened to keys without the focus, `moved` how far the mouse has moved to each side
while it may turn the view.

## Runs

Pass:

| Run | Shows | Bounds |
|---|---|---|
| `udp` | memory, resending, acknowledgements, termination of the loop and what each run of it handles, refinement of `RpcChannel` | ids of 4 bits, mask of 3, 4-bit int; 2 packages of the client with 1 call and 3 of the server with 2 before nothing new is issued, and every resend after that; no wrap of the ids |
| `join` | every order of two joins | 2 clients, 2 timeouts, 1 duplicate, 1 loss; ids modulo 3, so the fourth id is the first again |
| `rpc` | registrations and calls in any order | 2 RPCs, 3 functions, 1 method, 2 registrations; one call that does not fit, one with an empty string, packages of 18 bytes |
| `objects` | scripts that create and remove while the loop runs | 5 objects |
| `world` | changes collected, sent and applied in any order | 2 objects, one with cleanup(), 3 packages, 3 objects at the client |
| `campaign` | who starts, what becomes of properties, and that an object reaches the client | 10 disks of the server, 11 of the client in every pair: good, found last, faulty in every way, classes reordered, with another declaration, with a property less; 2 writes, 1 repeated acknowledgement |
| `tiles` | what `save` leaves out is saved; what the undo stack adds up to; every step that loses nothing is one of `TerrainStore` | 1 tile with 1 blend layer, new or with a file and a "~" file; 2 commands, 2 turns of the brush, 2 loads, 2 saves at a time |
| `slots` | the list, its file and the widgets, over a restart | up to 4 columns and 2 rows; no scene file, one with two slots and a gap, one without slots; 2 clicks in each of 2 runs of the editor |
| `camera` | inputs, views and walks | one direction, 2 movements of the mouse with a button down and any number without, each out of the widget or back, 2 clicks, distances 0 and 2, steps 1 and 2 |

Bounds are enough for the interesting cases: in `udp` two entries are needed for
an erase to skip one and three packages for a mask with a gap; in `join` two
timeouts let one client get three ids or both clients be closed by one sync; in
`world` one object removed and one new are pending at a full state; in `tiles` a
save is nested in another one, a layer is clamped, and a tile is paged in again with
two edits on the stack (tiles are handled one by one, so that one is enough: two of
them with one command hold too, and with two commands take too long); in `slots` a
column comes first and last and a slot gets a second widget; in `camera` a click
replaces a walk, the mouse moves to both sides, between two frames and between two
changes of the mode, the cursor is put back, and both limits of the walker's pitch are met.
Shift is handled like a key of a direction and is left to the proof.

Violation, each a disagreement of the code with what the repository says (see
"findings"): `forgotten` (a lost call counts as acknowledged, because own ids are
looked up in the mask of the partner's), `reserved` (script handlers overwrite C++
handlers), `world_order` (ids of a client are not those of the server).

Findings without a run, read off the code while it was modelled: the correction for
the wrap of ids shifts the mask by the wrong distance (`udpconnection.h:122`); 0 is
the first client and everybody (`networkserver.cpp:147`); numbers behind a string
are read from its characters (`rpcpackage.cpp:181`); arrays arrive empty
(`serializer.cpp:161`); the edits of a tile that is paged out are written where
nothing reads them (`editableterrainpagedworldsection.cpp:58`).

Other things the models show, where no comment or test says otherwise:

- `stepServer` of the test campaign writes a property every step, but only new
  objects and full states are sent: `addUpdatedObject` has no caller.
- A property the client's class lacks throws an exception and ends the client; one
  with another declaration leaves the object half updated, and nobody asks
  (`serializer.cpp:184-210`, `gameobject.cpp:137-146`).
- A client whose `initClient` failed plays on, one without `main.as` uses a null
  pointer (`src/main.cpp:47-73`).
- The column that comes last gets the slots of the column beside it: `tableToSlot`
  is asked with the new count before the shift it implies has happened
  (`sloteditor.cpp:73-87`), so a slot may have two widgets.
- A widget does not hear of undo and redo; its next click may push a command that
  does nothing, whose undo then changes the slot (`sloteditor.cpp:41-46`).
- The last slot can be removed and saved; `load` then fails its assertion
  (`campaignmanager.cpp:178`). A second New or Open throws an exception (63-67).
- A slot that is defined again loads its tile flat, whatever the disk has, and does
  not enter it in `m_editedTiles` (`undocommands.cpp:233`).
- A change to walker mode imposes the limits of the walker's pitch at once: the view
  snaps down without any movement of the mouse (`walkercamera.cpp:48`,
  `editorcamera.cpp:193`), but no further than to where it looked at first.
- A call that timed out is sent again only when something is received, and only the
  server sends by a timer: with a silent partner nothing is (`udpconnection.h:141`).
- A client whose session was closed after it had joined gets, by its next call, a
  session that stays inactive: it plays on and hears nothing any more of the world
  (`networkserver.cpp:186-191`).
- A key that is let go while another widget has the focus keeps the camera flying
  (`qogrewidget.cpp:129`).
- An `rpc.tab` that ends with a newline makes one more turn of the loop with an id
  that is not initialized (`rpcdispatcher.cpp:89`).

Fairness. `udp`: a started `parsePackage` runs to its end (`RunsOn`), as
single-threaded code does. Nothing is assumed of the network: only the server sends
by a timer, and every package may be lost, so that a package arrives at all is not
fair. `RunHandlesTimedOut` is therefore about single calls of `parsePackage`: each
sends a timed-out call again, drops it, or brings it nearer to the front. `join`: the event loops run and
a call that stays under way is delivered; a loss is an action without fairness,
and `JoinCompletes` promises nothing after one, because a call is sent again only
when something is received. It names the outcomes a join comes to for good: in the
game with an active session; in the game with a session that was closed meanwhile; or
refused, with no session left. The ends of a program it allows are those the code
has, each tied to what brings it about: the loop that closes sessions after a timeout,
and a second response after a repeated message. `campaign`: the sync timer runs, a client that has loaded
acknowledges, and a package that was sent arrives in the end: `ObjectShown` is about
what the programs do with it, not about losses. `camera`: a frame asks for the next
one (`qogrewidget.cpp:84-86`, `137-140`) and takes time, so that a step is not 0.
The other runs state safety only.

Deadlock is not checked, but in `camera`: every program may stop, and the bounds
stop the models.

## Proofs

The modules with theorems are those of `DataFacts` and the `..._proofs`; the
theorems worth knowing are listed in PROJECT.json. They hold for every value of the
constants that satisfies the named assumptions of the module proved about; TLC
evaluates these on the values of every run. Every theorem about states has the same shape: an
inductive invariant, a lemma for the initial state, lemmas per action, and one
temporal step. What the invariant adds to the property, and why, is the interesting
part:

`Rpc_proofs`. About ids, for every even size of their space: the
comparison is total on different ids and irreflexive, the difference is a symmetric
distance and does not underflow, and "more recent" is "reached by stepping forward".
About the connection, for every width of ids, masks and ints and every number of
packages and calls: `TypeOK`, `RpcAccountedFor`, `MemoryInOrderOfSending`,
`MemoryMatchesWire`, `ResentOnlyAfterTimeout`, and that it implements `RpcChannel`.
The invariant is, for each end: the entries of the memory are sorted by time of
sending (`EntriesInv`), are of different calls, and with the forgotten ones are all
calls issued (`CallsInv`); every package on the wire was numbered before `sent` and
no two have one number (`WireInv`); every entry names its package (`MatchInv`); and
of the packages with one call all but the newest have timed out, the newest being
that of the entry (`ResendInv`). The last is what `ResentOnlyAfterTimeout` lacks: only
with the entry known to be the newest package of its call does the timeout of the
entry say something about all packages.

`AckWindowAlwaysKept` in the same module has a hypothesis about the behaviour: as long as no end has sent more packages than half the ids (`FewSent`),
no package takes back an acknowledgement. Beyond that the property is false, because
of the correction for the wrap that is listed under "findings". Under the hypothesis
ids are package numbers (`UnwrappedInv`); a shift by the width of an int or more,
which is undefined, only happens where the whole window is new.

`LoopAlwaysRunsDown` is the part of `LoopEnds` that can be proved: every turn of the
loop over the memory lowers the number of entries together with those that timed
out, or keeps it and brings the iterator closer to `end()`, and nothing else gives
the end more to do before it leaves the loop. That holds where the code runs past
`end()`, too. With `RunsOn` the loop ends; this last step is left to TLC.

About the dispatcher, for any functions, methods, table, handlers and calls:
`DispatcherTypeOK`, `FirstHandlerWins`, `FunctionsMatchTable` and
`ArgsIntactToFirstText`, and that C++ handlers whose ids have not been given to a
script stay as the constructor left them (`InternalHandlersAlwaysStay`; how many that
are is what `reserved` is about). The entries of `m_handlers` below `m_nextHandlerId`
are those of scripts, all others are of C++ code under their own id (`HandlersOK`);
therefore a new id may overwrite a C++ handler but never one a script was given.
`FunctionsMatchTable` needs that procedures and functions come from lines of the table
(`TableOK`) and has the hypothesis `OneSpecPerId`, that lines with one id declare the
same arguments: `addRpc` does not compare them (`rpcdispatcher.cpp:260-269`), and a
table with two such lines refutes it. `ArgsIntactToFirstText` rests on what was pushed:
a call that arrives is a fold of `push` in which nothing was refused (`CallsOK`), after
k pushes every argument before the first string lies at the offset that k pops advance
to (`PushedOK`), and so what is read is what was pushed. Behind a string offset and
bytes part, since a string advances the offset by the length field only. This proof
corrected the model: an empty string used to be read as garbage there, and a call could
be sent with other arguments than the declared ones.

`NetworkServer_proofs`, for any clients, timeouts, duplicates and losses: `TypeOK`,
`SessionsDistinct`, `ResponseForItsReceiver` and `WorldOnlyForLoaded`. What is
missing in each of them is the history of ids: the id of every session was given out
for the endpoint of the session (`OwnersInv`), and so was the one in every response
under way (`MessageInv`), but for 0, which is the first client and everybody:
`ResponseForItsReceiver` is about ids above 0 only. `SessionsDistinct` and
`WorldOnlyForLoaded` hold until the ids wrap (`IdsLast`). An id
that was given out keeps its owner (`Grows`), so that what is said of a message stays
true however long it is under way and however often it arrives.

`WorldSync_proofs`, for any number of objects and packages: of the object manager
`TypeOK` and `EachSteppedOnce`; of the world `WorldTypeOK`, `ChangesComplete` and
`WorldMirrored`. The loop needs that everything behind it was stepped if it has been
there throughout (`LoopOK`). `WorldMirrored` needs that what was applied is the
client's world after the package numbered `last` (`AppliedOK`), that each package
holds what turns the world of the one before into its own (`SentOK`), and what waits
is the rest (`WaitingOK`). Its conditions are many (`orderly`, and `Ordered` in the
proof): nothing was removed before the client joined; it joined once and its session
was not closed; the full state came first and every package after it once and in
order; the client's scripts neither created nor removed objects; and every package
listed its objects in the order of their ids. Where the last fails it is false, as
`world_order` shows. What `deserialize` makes of a package, one object after the
other, is proved by induction over the objects in it.

`Campaign_proofs`, for any campaigns whose classes have no two properties of one name
and any lists, written values and packages: `TypeOK`, `MirroredAfterSuccess` and
`WholeIfCompatible`. The invariant says that what is on the wire is what the
serializer made of values the object had. From there the proof is about the
serializer alone: reading is a walk over the entries of the message, and by
induction over them it comes to the end exactly if the client has all of them with
the same declarations (`CompatibleFits`), and then has the values that were sent
(`SentValuesArrive`).

`TerrainTiles_proofs`, for any tiles, layers, files found, strengths and nested saves:
`TypeOK`, `UnlistedAreSaved`, `HistoryAddsUp` and `StoreKept`. What the second lacks is
`TouchedOK`: every tile a running stroke has touched is in `m_editedTiles`. A turn of
the brush does not enter a tile again that it has touched, so without it such a turn
could change a tile that is not in the list; it holds because `save`, which empties
the list, ends the stroke first, and again at its end for strokes that began while it
waited. `HistoryAddsUp` is about a sum over the undo stack of any length, which is
defined by recursion over the stack. It needs that a stroke touches only channels the
tiles have, and that commands of slots change no values (`HistoryInv`); a layer that
was clamped adds what it changed and not what was asked for. `StoreKept` says that
every step is one of `TerrainStore` or one of `LosesEdits`, so a behaviour in which no
edit is lost implements the store (`TilesImplementStore`, with `[][~LosesEdits]` as its
hypothesis). An edit is dirty then because of `TouchedOK`, and `save` may leave out
what it does because of `UnlistedAreSaved`.

`SlotEditor_proofs`, for any slots, files, bounds and runs of the editor: `TypeOK`,
`SlotsOnce`, `SlotsHaveWidgets` and `CommandsAddUp`. For `SlotsHaveWidgets` the
boundary covers every slot of the list, by induction over the fold that computes it,
and a column or row that comes in keeps the slots of all widgets but its own. For
`CommandsAddUp` it has to be said of all slots, not of those shown only, and of all
commands on the stack, undone ones too: each of them changes something (`AddUp`).
A widget that was wrong about its slot makes one that does not, and `misled` says so.

`EditorCamera_proofs`, for any movements in any direction, any size of the widget and
any bounds of clicks and movements: `TypeOK`,
`HeadsForLastClick`, `InputsAsHeld` and `TurnsNoFurther`. The first three need only
the types and that exactly the current animation is enabled (`AnimationOK`). For the
last, `TurnInv` says where each camera looks, in the direction it will have after a
change of the mode, with and without the movement of the mouse that no frame has used
yet; only so does a change of the mode between movement and frame keep it. A yaw has
no limits, so it is the first one turned by some number between what the mouse moved
to the left and to the right (`YawInv`); a pitch is held by its limits, which both have
the first direction within them, so they only ever bring the view back to it
(`PitchInv`). That the cursor is where the timer remembers it (`MouseOK`) is what
makes a cursor that is put back no movement.

`DataFacts` has what these share: half ranges, the least element of a set of
integers, sequences with an element inserted, removed or appended. The library's
induction theorems take an operator as a parameter and cannot be used here;
`DataFacts` states induction with the set of the numbers for which a claim holds, and
recursion with the function it defines, which is enough for the folds of the modules.

Only model-checked: liveness (`LoopEnds`, `RunHandlesTimedOut`, `JoinCompletes`,
`DeadSessionsClosed`, `ObjectShown`, `WalkEnds`), which the prover does not do, as it
does not do ENABLED. Every invariant and action property of the passing runs is a
theorem. The three violations are counterexamples of TLC.

## Not modelled

The vendored AngelScript, its add-ons and tinyxml; logging; rendering, the set-up of
Ogre and of the windows; reading rpc.tab; the shape of a brush and where in the
scene cameras and the figure stand; the list of textures of a terrain. The lifetime
of the buffer given to `async_send_to` is a matter of the library. Altered objects do
not occur, as said above. A brush whose layer was never set reads an uninitialized
member (`brush.h:102`); `TerrainTiles` lets a stroke begin with any layer.

## Plan

1. Done: `SeqId`, `RpcChannel`, `UdpConnection` with proofs; `NetworkServer`;
   `RpcPackage`, `RpcDispatcher`; `ObjectManager`, `WorldSync`; `Serializer`,
   `Campaign`; `TerrainTiles`, `SlotEditor`, `EditorCamera`.
2. Done: proofs of every safety property of the runs, two of them with a hypothesis
   (`FewSent` for `AckWindowKept`, `OneSpecPerId` for `FunctionsMatchTable`).
3. Done: `TerrainStore`, an abstract store in which no edit is lost, and under which
   condition (`LosesEdits` never happens) `TerrainTiles` implements it.
4. Left: an abstract specification of the join handshake; reading `rpc.tab`.
