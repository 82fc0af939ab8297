---------------------------- MODULE NetworkServer ----------------------------
(***************************************************************************)
(* Joining a game: network/networkserver.cpp and its sessions, with one    *)
(* NetworkClient (networkclient.cpp, main.cpp) per endpoint.               *)
(*                                                                         *)
(* Between them lies an RpcChannel: a call may be lost, late or executed   *)
(* again.  The set net holds what is under way; sending again what is      *)
(* still under way adds nothing.  Both sides are single-threaded event     *)
(* loops, so a handler is one step.  What a state of the world holds, and  *)
(* the changes that follow the full state, is the business of WorldSync.   *)
(* The campaign registers no handler that takes the place of one of the    *)
(* server's (RpcDispatcher: it may register one).                          *)
(***************************************************************************)
EXTENDS Integers, Sequences, FiniteSets

CONSTANTS
  Endpoints,       \* one client program each
  IdModulus,       \* 2^16: a client id is passed to the handlers as uint16_t
  MaxTimeouts,     \* bound: sessions that fall silent
  MaxDuplicates,   \* bound: deliveries that leave their message under way
  MaxLosses        \* bound: messages lost

ASSUME ServerAssumption ==
  /\ IdModulus \in Nat \ {0}
  /\ MaxTimeouts \in Nat /\ MaxDuplicates \in Nat /\ MaxLosses \in Nat

VARIABLES
  m_clients,       \* endpoints with a ClientSession
  m_clientId,      \* id of each session; of the last one, where there is none
  m_isActive,
  m_nextClientId,
  silent,          \* sessions not heard of for longer than CONNECTION_TIMEOUT
  owner,           \* owner[id + 1]: endpoint for which id was given out
  serverUp,
  client,          \* what each client program has got to
  loaded,          \* clients that ever loaded the campaign
  hasWorld,        \* clients that have received the full state of the world
  net,
  timeouts, duplicates, losses

serverVars == <<m_clients, m_clientId, m_isActive, m_nextClientId, silent, owner, serverUp>>
clientVars == <<client, loaded, hasWorld>>
vars == <<serverVars, clientVars, net, timeouts, duplicates, losses>>

(* started: main has not called sendJoinRequest; joining: it polls until   *)
(* there is a campaign manager; failed: there is one, but its campaign was *)
(* not found; playing: the game loop runs.                                 *)
ClientStates == {"started", "joining", "failed", "playing", "down"}

JoinReq(e) == [at |-> e, kind |-> "JOIN_REQ"]
JoinAck(e, accepted) == [at |-> e, kind |-> "JOIN_ACK", accepted |-> accepted]
JoinResp(e, id) == [at |-> e, kind |-> "JOIN_RESP", player_id |-> id]
FullState(e) == [at |-> e, kind |-> "FULL"]

Messages ==
  [at : Endpoints, kind : {"JOIN_REQ", "FULL"}]
    \cup [at : Endpoints, kind : {"JOIN_ACK"}, accepted : BOOLEAN]
    \cup [at : Endpoints, kind : {"JOIN_RESP"}, player_id : Nat]

Init ==
  /\ m_clients = {} /\ silent = {}
  /\ m_clientId = [e \in Endpoints |-> 0]
  /\ m_isActive = [e \in Endpoints |-> FALSE]
  /\ m_nextClientId = 0 /\ owner = <<>>
  /\ serverUp = TRUE
  /\ client = [e \in Endpoints |-> "started"]
  /\ loaded = {} /\ hasWorld = {}
  /\ net = {}
  /\ timeouts = 0 /\ duplicates = 0 /\ losses = 0

----------------------------------------------------------------------------
(* The network.  A message that is delivered is gone, or stays under way   *)
(* as a duplicate.                                                         *)

Deliver(m, answers) ==
  /\ m \in net
  /\ \/ net' = (net \ {m}) \cup answers /\ UNCHANGED duplicates
     \/ /\ duplicates < MaxDuplicates
        /\ net' = net \cup answers /\ duplicates' = duplicates + 1

Lose ==
  /\ losses < MaxLosses /\ losses' = losses + 1
  /\ \E m \in net : net' = net \ {m}
  /\ UNCHANGED <<serverVars, clientVars, timeouts, duplicates>>

----------------------------------------------------------------------------
(* The server *)

(* handle_receive: whoever is heard has a session, a new one if need be,   *)
(* and it is not active then.                                              *)
Sessions(e) == m_clients \cup {e}
IsNew(e) == e \notin m_clients
Active(e) == [m_isActive EXCEPT ![e] = @ /\ ~IsNew(e)]

(* Mutant: sessions are numbered by how many there are. *)
IdsByCount(e) ==
  IF IsNew(e) THEN [m_clientId EXCEPT ![e] = Cardinality(m_clients)] ELSE m_clientId

(* Mutant: the new session gets the id of the last one. *)
IdsTooLow(e) == IF IsNew(e) THEN [m_clientId EXCEPT ![e] = m_nextClientId - 1] ELSE m_clientId

(* The ids of the sessions, with that of the new one. *)
Ids(e) == IF IsNew(e) THEN [m_clientId EXCEPT ![e] = m_nextClientId] ELSE m_clientId

(* What happens before the call in the package is executed: refresh sets   *)
(* m_timeOfLastAck.                                                        *)
handle_receive(e) ==
  /\ serverUp
  /\ m_clientId' = Ids(e)
  /\ IF IsNew(e) THEN m_nextClientId' = m_nextClientId + 1 /\ owner' = Append(owner, e)
                 ELSE UNCHANGED <<m_nextClientId, owner>>
  /\ silent' = silent \ {e}

(* parsePackage passes the id of the session as a uint16_t. *)
SrcClientId(e) == Ids(e)[e] % IdModulus

(* Sessions for which client->clientId() == client_id. *)
Found(e, id) == {x \in Sessions(e) : Ids(e)[x] = id}

(* Mutant: the id a call is for is not looked at. *)
ReceiversAll(e, active, id) == {x \in Sessions(e) : active[x]}

(* remoteProcedureCall: the active sessions a call for id is sent to, all  *)
(* of them if id is 0.                                                     *)
Receivers(e, active, id) ==
  {x \in Sessions(e) : active[x] /\ (id > 0 => Ids(e)[x] = id)}

(* A join request activates the session and is answered at once. *)
handle_joinRequest(e) ==
  LET id     == SrcClientId(e)
      active == [x \in Endpoints |-> x \in Found(e, id) \/ Active(e)[x]]
  IN  /\ handle_receive(e)
      /\ Deliver(JoinReq(e), {JoinResp(x, id) : x \in Receivers(e, active, id)})
      /\ m_clients' = Sessions(e) /\ m_isActive' = active
      /\ UNCHANGED <<serverUp, clientVars, timeouts, losses>>

(* Mutant: the world is sent before the answer is looked at. *)
RefusedWithWorld(e, x) ==
  /\ Deliver(JoinAck(e, FALSE), {FullState(x)})
  /\ m_clients' = Sessions(e) \ {x} /\ m_isActive' = Active(e)

(* Mutant: only an active session may accept. *)
AcceptedIfActive(e, x) ==
  /\ Deliver(JoinAck(e, TRUE), {FullState(y) : y \in {z \in {x} : Active(e)[z]}})
  /\ m_clients' = Sessions(e) /\ m_isActive' = Active(e)

(* The client accepts: it gets the whole world. *)
Accepted(e, x) ==
  /\ Deliver(JoinAck(e, TRUE), {FullState(x)})
  /\ m_clients' = Sessions(e) /\ m_isActive' = [Active(e) EXCEPT ![x] = TRUE]

(* The client refuses: its session is erased. *)
Refused(e, x) ==
  /\ Deliver(JoinAck(e, FALSE), {})
  /\ m_clients' = Sessions(e) \ {x} /\ m_isActive' = Active(e)

(* Without a session of that id a null pointer is dereferenced. *)
NoneFound(e, accepted) ==
  /\ Found(e, SrcClientId(e)) = {}
  /\ Deliver(JoinAck(e, accepted), {})
  /\ m_clients' = Sessions(e) /\ m_isActive' = Active(e)
  /\ serverUp' = FALSE

handle_joinAcknowledge(e) ==
  /\ handle_receive(e)
  /\ \/ /\ \E x \in Found(e, SrcClientId(e)) : Accepted(e, x) \/ Refused(e, x)
        /\ UNCHANGED serverUp
     \/ \E accepted \in BOOLEAN : NoneFound(e, accepted)
  /\ UNCHANGED <<clientVars, timeouts, losses>>

(* A call, maybe a late one, of the scripts of a client that has got into  *)
(* the game: no business of the server's own handlers.                     *)
ScriptCall(e) ==
  /\ e \in loaded
  /\ handle_receive(e)
  /\ m_clients' = Sessions(e) /\ m_isActive' = Active(e)
  /\ UNCHANGED <<serverUp, clientVars, net, timeouts, duplicates, losses>>

FallsSilent(e) ==
  /\ serverUp /\ e \in m_clients \ silent
  /\ timeouts < MaxTimeouts /\ timeouts' = timeouts + 1
  /\ silent' = silent \cup {e}
  /\ UNCHANGED <<m_clients, m_clientId, m_isActive, m_nextClientId, owner, serverUp,
                 clientVars, net, duplicates, losses>>

(* Mutant: a session that is active is not closed. *)
DeadIfInactive == {e \in silent \cap m_clients : ~m_isActive[e]}

(* The sessions that timed out. *)
Dead == silent \cap m_clients

(* closeDeadConnections erases from the map it iterates over.  What the    *)
(* loop does after the first erase is undefined: it may miss others, or    *)
(* the program crashes.                                                    *)
closeDeadConnections ==
  IF Dead = {}
  THEN UNCHANGED <<m_clients, silent, serverUp>>
  ELSE \E closed \in SUBSET Dead \ {{}} :
         /\ m_clients' = m_clients \ closed /\ silent' = silent \ closed
         /\ serverUp' \in BOOLEAN

(* The timer: after the changes of the world were sent (WorldSync), the    *)
(* dead sessions are closed.                                               *)
sync ==
  /\ serverUp
  /\ closeDeadConnections
  /\ UNCHANGED <<m_clientId, m_isActive, m_nextClientId, owner, clientVars, net,
                 timeouts, duplicates, losses>>

----------------------------------------------------------------------------
(* A client *)

sendJoinRequest(e) ==
  /\ client[e] = "started"
  /\ client' = [client EXCEPT ![e] = "joining"]
  /\ net' = net \cup {JoinReq(e)}
  /\ UNCHANGED <<serverVars, loaded, hasWorld, timeouts, duplicates, losses>>

Listening(e) == client[e] \in {"joining", "failed", "playing"}

(* handleJoinResponse, with the callback of main: the campaign's resource  *)
(* group is created and the campaign looked for.  Ogre throws an exception *)
(* when there is a group of that name, and nothing catches it.  A campaign *)
(* whose scripts registered a handler has taken the place of this one, and *)
(* then the response is dropped.                                           *)
handleJoinResponse(e, m) ==
  /\ Listening(e) /\ m.at = e /\ m.kind = "JOIN_RESP"
  /\ \/ /\ client[e] = "joining"
        /\ Deliver(m, {JoinAck(e, TRUE)})
        /\ client' = [client EXCEPT ![e] = "playing"]
        /\ loaded' = loaded \cup {e}
     \/ /\ client[e] = "joining"
        /\ Deliver(m, {JoinAck(e, FALSE)})
        /\ client' = [client EXCEPT ![e] = "failed"]
        /\ UNCHANGED loaded
     \/ /\ client[e] # "joining"
        /\ Deliver(m, {})
        /\ client' = [client EXCEPT ![e] = "down"]
        /\ UNCHANGED loaded
     \/ /\ client[e] = "playing"
        /\ Deliver(m, {})
        /\ UNCHANGED <<client, loaded>>
  /\ UNCHANGED <<serverVars, hasWorld, timeouts, losses>>

(* handle_receive of the client: a state of the world is applied if there  *)
(* is an object manager, and dropped otherwise.                            *)
ReceiveState(e, m) ==
  /\ Listening(e) /\ m = FullState(e)
  /\ Deliver(m, {})
  /\ hasWorld' = IF client[e] = "joining" THEN hasWorld ELSE hasWorld \cup {e}
  /\ UNCHANGED <<serverVars, client, loaded, timeouts, losses>>

(* main calls logic->step although there is no logic. *)
StepWithoutLogic(e) ==
  /\ client[e] = "failed"
  /\ client' = [client EXCEPT ![e] = "down"]
  /\ UNCHANGED <<serverVars, loaded, hasWorld, net, timeouts, duplicates, losses>>

----------------------------------------------------------------------------
ServerStep(e) == handle_joinRequest(e) \/ handle_joinAcknowledge(e) \/ ScriptCall(e)
ClientReceives(e) == \E m \in net : handleJoinResponse(e, m) \/ ReceiveState(e, m)

Next ==
  \/ Lose \/ sync
  \/ \E e \in Endpoints : \/ ServerStep(e)
                          \/ FallsSilent(e)
                          \/ sendJoinRequest(e)
                          \/ ClientReceives(e)
                          \/ StepWithoutLogic(e)

Spec == Init /\ [][Next]_vars

(* The event loops keep running and a message that keeps being under way   *)
(* is delivered.                                                           *)
Fairness ==
  /\ WF_vars(sync)
  /\ \A e \in Endpoints :
       /\ WF_vars(handle_joinRequest(e))
       /\ WF_vars(handle_joinAcknowledge(e))
       /\ WF_vars(sendJoinRequest(e))
       /\ WF_vars(\E m \in net : handleJoinResponse(e, m))
       /\ WF_vars(ReceiveState(e, FullState(e)))

FairSpec == Spec /\ Fairness

----------------------------------------------------------------------------
TypeOK ==
  /\ m_clients \subseteq Endpoints /\ silent \subseteq Endpoints
  /\ m_clientId \in [Endpoints -> Nat]
  /\ m_isActive \in [Endpoints -> BOOLEAN]
  /\ m_nextClientId \in Nat
  /\ owner \in Seq(Endpoints) /\ Len(owner) = m_nextClientId
  /\ serverUp \in BOOLEAN
  /\ client \in [Endpoints -> ClientStates]
  /\ loaded \subseteq Endpoints /\ hasWorld \subseteq Endpoints
  /\ net \subseteq Messages
  /\ timeouts \in 0..MaxTimeouts
  /\ duplicates \in 0..MaxDuplicates
  /\ losses \in 0..MaxLosses

(* The ids that were given out differ as uint16_t. *)
IdsLast == m_nextClientId <= IdModulus

(* While no more than IdModulus ids were given out, the id a handler is    *)
(* called with is that of one session, the one the package came from: no   *)
(* handler activates, answers or erases another (networkserver.cpp:218,    *)
(* 236, clientsession.cpp:40).                                             *)
SessionsDistinct ==
  IdsLast =>
    \A e \in m_clients :
      {x \in m_clients : m_clientId[x] = m_clientId[e] % IdModulus} = {e}

(* A response for any id but 0 goes to the client that id was given to,    *)
(* also when its earlier session was closed in between or ids have wrapped *)
(* (networkserver.cpp:139).                                                *)
ResponseForItsReceiver ==
  \A m \in net : m.kind = "JOIN_RESP" /\ m.player_id > 0 => owner[m.player_id + 1] = m.at

(* The full state is sent only to clients that have loaded the campaign:   *)
(* never to one that has refused, whatever is lost, late or repeated       *)
(* (networkserver.cpp:240-249, networkclient.cpp:172-175).                 *)
WorldOnlyForLoaded ==
  IdsLast =>
    /\ hasWorld \subseteq loaded
    /\ \A m \in net : m.kind = "FULL" => m.at \in loaded

Joined(e) ==
  /\ client[e] = "playing" /\ e \in hasWorld
  /\ e \in m_clients /\ m_isActive[e]

(* The session of e is gone, or it is a later one: a client that has       *)
(* joined does not ask again, and its next call opens a session that stays *)
(* inactive (networkserver.cpp:186-191).                                   *)
WasClosed(e) ==
  /\ timeouts > 0
  /\ e \notin m_clients \/ Cardinality({i \in DOMAIN owner : owner[i] = e}) > 1

(* Without losses every client that starts comes to one of these for good: *)
(* it plays, has the world and an active session; it plays and has the     *)
(* world, though its session was closed on the way or later; or it did not *)
(* find the campaign and has no session left (networkserver.cpp:208-251).  *)
(* Nothing is promised where the loop that closes a silent session ends    *)
(* the server (line 262).  Where a message came twice, a second response   *)
(* may end a client (networkclient.cpp:171), and a second request may      *)
(* leave a session for a client that has refused.                          *)
JoinCompletes ==
  \A e \in Endpoints :
    <>[](\/ Joined(e)
         \/ client[e] = "playing" /\ e \in hasWorld /\ WasClosed(e)
         \/ /\ client[e] \in {"failed", "down"} /\ e \notin loaded
            /\ e \notin m_clients \/ duplicates > 0
         \/ client[e] = "down" /\ duplicates > 0
         \/ ~serverUp /\ timeouts > 0
         \/ losses > 0 \/ ~IdsLast)

(* A session that is silent for too long is closed, unless it is heard of  *)
(* again (networkserver.cpp:253-265).                                      *)
DeadSessionsClosed ==
  \A e \in Endpoints :
    e \in silent \cap m_clients ~> e \notin silent \cap m_clients \/ ~serverUp
==============================================================================
