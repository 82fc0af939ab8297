------------------------ MODULE NetworkServer_proofs -------------------------
(***************************************************************************)
(* For any number of clients, any width of ids and any number of losses,   *)
(* duplicates and timeouts: the types of NetworkServer, and that ids tell  *)
(* the sessions apart, responses find their receivers and the world is     *)
(* sent only to clients that have loaded the campaign.                     *)
(***************************************************************************)
EXTENDS NetworkServer, SequenceTheorems, TLAPS

ServerTypes ==
  /\ m_clients \subseteq Endpoints /\ silent \subseteq Endpoints
  /\ m_clientId \in [Endpoints -> Nat]
  /\ m_isActive \in [Endpoints -> BOOLEAN]
  /\ m_nextClientId \in Nat
  /\ owner \in Seq(Endpoints) /\ Len(owner) = m_nextClientId
  /\ serverUp \in BOOLEAN
ClientTypes ==
  /\ client \in [Endpoints -> ClientStates]
  /\ loaded \subseteq Endpoints /\ hasWorld \subseteq Endpoints
CounterTypes ==
  /\ timeouts \in 0..MaxTimeouts
  /\ duplicates \in 0..MaxDuplicates
  /\ losses \in 0..MaxLosses

(* The id of a session was given out for its endpoint.                     *)
OwnedBy(id, e) == id < m_nextClientId /\ owner[id + 1] = e
OwnersInv == \A e \in m_clients : OwnedBy(m_clientId[e], e)

(* What is true of a message as long as it is under way: the id in a       *)
(* response was given out, to its receiver if it is not 0; only a client   *)
(* that has loaded the campaign has accepted; and, as long as ids have not *)
(* wrapped, the full state is for such a client.                           *)
MessageInv(m) ==
  /\ m \in Messages
  /\ m.kind = "JOIN_RESP" =>
       /\ m.player_id < m_nextClientId
       /\ m.player_id > 0 => owner[m.player_id + 1] = m.at
  /\ m.kind = "JOIN_ACK" /\ m.accepted => m.at \in loaded
  /\ m.kind = "FULL" /\ IdsLast => m.at \in loaded
NetInv == \A m \in net : MessageInv(m)

WorldInv == IdsLast => hasWorld \subseteq loaded

Types == ServerTypes /\ ClientTypes /\ CounterTypes
IInv == Types /\ OwnersInv /\ NetInv /\ WorldInv

(* What the steps leave of the past: ids that were given out keep their    *)
(* owners, and a client that has loaded the campaign has.                  *)
Grows ==
  /\ m_nextClientId' \in Nat /\ m_nextClientId <= m_nextClientId'
  /\ \A i \in 1..m_nextClientId : owner'[i] = owner[i]
  /\ loaded \subseteq loaded'

----------------------------------------------------------------------------
(* Messages *)

LEMMA MessagesInMessages ==
  ASSUME NEW e \in Endpoints
  PROVE  /\ JoinReq(e) \in Messages /\ FullState(e) \in Messages
         /\ \A accepted \in BOOLEAN : JoinAck(e, accepted) \in Messages
         /\ \A id \in Nat : JoinResp(e, id) \in Messages
BY DEF JoinReq, FullState, JoinAck, JoinResp, Messages

LEMMA ResponseFields ==
  ASSUME NEW m \in Messages, m.kind = "JOIN_RESP"
  PROVE  m.player_id \in Nat
BY DEF Messages

LEMMA MessageStays ==
  ASSUME Types, Grows, NEW m, MessageInv(m)
  PROVE  MessageInv(m)'
<1>1. m_nextClientId \in Nat
  BY DEF Types, ServerTypes
<1>2. IdsLast' => IdsLast
  BY <1>1, ServerAssumption DEF Grows, IdsLast
<1>3. ASSUME m.kind = "JOIN_RESP"
      PROVE  /\ m.player_id < m_nextClientId'
             /\ m.player_id > 0 => owner'[m.player_id + 1] = m.at
  <2>1. m.player_id \in Nat /\ m.player_id < m_nextClientId
    BY <1>3, ResponseFields DEF MessageInv
  <2>2. m.player_id + 1 \in 1..m_nextClientId
    BY <1>1, <2>1
  <2>3. owner'[m.player_id + 1] = owner[m.player_id + 1]
    BY <2>2 DEF Grows
  <2>4. m.player_id < m_nextClientId'
    BY <1>1, <2>1 DEF Grows
  <2> QED BY <1>2, <1>3, <2>3, <2>4 DEF MessageInv
<1> QED BY <1>2, <1>3 DEF MessageInv, Grows

(* Of messages that are delivered or lost nothing new is known; the others *)
(* are the answers.                                                        *)
LEMMA NetStays ==
  ASSUME IInv, Grows, \A m \in net' : m \in net \/ MessageInv(m)'
  PROVE  NetInv'
BY MessageStays DEF IInv, NetInv

LEMMA DeliverTypes ==
  ASSUME CounterTypes, NEW m, NEW answers, Deliver(m, answers)
  PROVE  /\ m \in net /\ net' \subseteq net \cup answers
         /\ duplicates' \in 0..MaxDuplicates
BY ServerAssumption DEF CounterTypes, Deliver

----------------------------------------------------------------------------
(* Sessions *)

(* After a package has been heard of, every session still has an id of its *)
(* own; and if ids have not wrapped, the uint16_t names the one the        *)
(* package came from.                                                      *)
LEMMA Receives ==
  ASSUME IInv, NEW e \in Endpoints, handle_receive(e)
  PROVE  /\ m_nextClientId' \in Nat /\ m_nextClientId <= m_nextClientId'
         /\ owner' \in Seq(Endpoints) /\ Len(owner') = m_nextClientId'
         /\ \A i \in 1..m_nextClientId : owner'[i] = owner[i]
         /\ m_clientId' = Ids(e) /\ m_clientId' \in [Endpoints -> Nat]
         /\ Sessions(e) \subseteq Endpoints /\ e \in Sessions(e)
         /\ \A x \in Sessions(e) : OwnedBy(m_clientId[x], x)'
         /\ silent' \subseteq Endpoints
         /\ Active(e) \in [Endpoints -> BOOLEAN]
<1>1. /\ m_clients \subseteq Endpoints /\ silent \subseteq Endpoints
      /\ m_clientId \in [Endpoints -> Nat] /\ m_nextClientId \in Nat
      /\ owner \in Seq(Endpoints) /\ Len(owner) = m_nextClientId
      /\ \A x \in m_clients : m_clientId[x] < m_nextClientId /\ owner[m_clientId[x] + 1] = x
  BY DEF IInv, Types, ServerTypes, OwnersInv, OwnedBy
<1>2. m_clientId' = Ids(e) /\ silent' = silent \ {e}
  BY DEF handle_receive
<1>3. Active(e) \in [Endpoints -> BOOLEAN]
  <2>1. m_isActive \in [Endpoints -> BOOLEAN]
    BY DEF IInv, Types, ServerTypes
  <2>2. \A b \in BOOLEAN : (b /\ ~IsNew(e)) \in BOOLEAN
    OBVIOUS
  <2> QED BY <2>1, <2>2, Zenon DEF Active
<1>4. CASE IsNew(e)
  <2>1. m_nextClientId' = m_nextClientId + 1 /\ owner' = Append(owner, e)
    BY <1>4 DEF handle_receive
  <2>2. /\ owner' \in Seq(Endpoints) /\ Len(owner') = m_nextClientId + 1
        /\ \A i \in 1..m_nextClientId : owner'[i] = owner[i]
        /\ owner'[m_nextClientId + 1] = e
    BY <1>1, <2>1, AppendProperties
  <2>3. m_clientId' = [m_clientId EXCEPT ![e] = m_nextClientId]
    BY <1>2, <1>4 DEF Ids
  <2>4. m_clientId' \in [Endpoints -> Nat]
    BY <1>1, <2>3
  <2>5. ASSUME NEW x \in Sessions(e)
        PROVE  m_clientId'[x] < m_nextClientId' /\ owner'[m_clientId'[x] + 1] = x
    <3>1. CASE x = e
      BY <1>1, <2>1, <2>2, <2>3, <3>1
    <3>2. CASE x # e
      <4>1. x \in m_clients /\ m_clientId'[x] = m_clientId[x]
        BY <1>1, <2>3, <2>5, <3>2 DEF Sessions
      <4>2. m_clientId[x] \in Nat /\ m_clientId[x] + 1 \in 1..m_nextClientId
        BY <1>1, <4>1
      <4> QED BY <1>1, <2>1, <2>2, <4>1, <4>2
    <3> QED BY <3>1, <3>2
  <2> QED BY <1>1, <1>2, <1>3, <2>1, <2>2, <2>4, <2>5 DEF Sessions, OwnedBy
<1>5. CASE ~IsNew(e)
  <2>1. UNCHANGED <<m_nextClientId, owner>> /\ m_clientId' = m_clientId
    BY <1>2, <1>5 DEF handle_receive, Ids
  <2>2. Sessions(e) = m_clients
    BY <1>5 DEF IsNew, Sessions
  <2> QED BY <1>1, <1>2, <1>3, <1>5, <2>1, <2>2 DEF OwnedBy, IsNew
<1> QED BY <1>4, <1>5

LEMMA IdNamesSource ==
  ASSUME IInv, NEW e \in Endpoints, handle_receive(e)
  PROVE  /\ SrcClientId(e) \in Nat /\ SrcClientId(e) < m_nextClientId'
         /\ IdsLast' => /\ SrcClientId(e) = Ids(e)[e]
                        /\ Found(e, SrcClientId(e)) = {e}
<1> DEFINE id == Ids(e)[e]
<1>1. /\ m_nextClientId' \in Nat /\ e \in Sessions(e) /\ Sessions(e) \subseteq Endpoints
      /\ Ids(e) \in [Endpoints -> Nat]
      /\ \A x \in Sessions(e) : Ids(e)[x] < m_nextClientId' /\ owner'[Ids(e)[x] + 1] = x
  BY Receives DEF OwnedBy
<1>2. id \in Nat /\ id < m_nextClientId'
  BY <1>1
<1> HIDE DEF id
<1>3. IdModulus \in Nat \ {0}
  BY ServerAssumption
<1>4. id % IdModulus \in Nat /\ id % IdModulus <= id
  BY <1>2, <1>3
<1>5. ASSUME IdsLast' PROVE id % IdModulus = id
  BY <1>1, <1>2, <1>3, <1>5 DEF IdsLast
<1>6. \A x \in Sessions(e) : Ids(e)[x] = Ids(e)[e] => x = e
  BY <1>1
<1>7. SrcClientId(e) = id % IdModulus
  BY DEF SrcClientId, id
<1>8. ASSUME IdsLast' PROVE Found(e, SrcClientId(e)) = {e}
  BY <1>1, <1>5, <1>6, <1>7, <1>8 DEF Found, id
<1> QED BY <1>1, <1>2, <1>4, <1>5, <1>7, <1>8 DEF id

(* What every handler of the server does to the sessions.                  *)
LEMMA HandlerKeeps ==
  ASSUME IInv, NEW e \in Endpoints, handle_receive(e), UNCHANGED clientVars,
         m_clients' \subseteq Sessions(e), m_isActive' \in [Endpoints -> BOOLEAN],
         serverUp' \in BOOLEAN
  PROVE  ServerTypes' /\ ClientTypes' /\ OwnersInv' /\ WorldInv' /\ Grows
<1>1. /\ m_nextClientId' \in Nat /\ m_nextClientId <= m_nextClientId'
      /\ owner' \in Seq(Endpoints) /\ Len(owner') = m_nextClientId'
      /\ \A i \in 1..m_nextClientId : owner'[i] = owner[i]
      /\ m_clientId' \in [Endpoints -> Nat] /\ Sessions(e) \subseteq Endpoints
      /\ silent' \subseteq Endpoints
  BY Receives
<1>2. \A x \in Sessions(e) : OwnedBy(m_clientId[x], x)'
  BY Receives
<1>3. UNCHANGED <<client, loaded, hasWorld>>
  BY DEF clientVars
<1>4. ServerTypes'
  BY <1>1 DEF ServerTypes
<1>5. ClientTypes'
  BY <1>3 DEF IInv, Types, ClientTypes
<1>6. OwnersInv'
  BY <1>2 DEF OwnersInv
<1>7. Grows
  BY <1>1, <1>3 DEF Grows
<1>8. m_nextClientId \in Nat
  BY DEF IInv, Types, ServerTypes
<1>9. WorldInv'
  BY <1>1, <1>3, <1>8, ServerAssumption DEF IInv, WorldInv, IdsLast
<1> QED BY <1>4, <1>5, <1>6, <1>7, <1>9

----------------------------------------------------------------------------
(* One lemma for each handler or step. *)

LEMMA InitIInv == Init => IInv
<1> SUFFICES ASSUME Init PROVE IInv
  OBVIOUS
<1>1. ServerTypes
  <2>1. owner = <<>> /\ m_nextClientId = 0
    BY DEF Init
  <2>2. owner \in Seq(Endpoints) /\ Len(owner) = m_nextClientId
    BY <2>1, EmptySeq
  <2> QED BY <2>1, <2>2 DEF Init, ServerTypes
<1>2. ClientTypes
  BY DEF Init, ClientTypes, ClientStates
<1>3. CounterTypes
  BY ServerAssumption DEF Init, CounterTypes
<1>4. OwnersInv /\ NetInv /\ WorldInv
  BY DEF Init, OwnersInv, NetInv, WorldInv
<1> QED BY <1>1, <1>2, <1>3, <1>4 DEF IInv, Types

(* The receivers of a response are the sessions of that id, and each id is *)
(* that of one endpoint.                                                   *)
LEMMA RequestStep ==
  ASSUME IInv, NEW e \in Endpoints, handle_joinRequest(e)
  PROVE  IInv'
<1> DEFINE id == SrcClientId(e)
           active == [x \in Endpoints |-> x \in Found(e, id) \/ Active(e)[x]]
           answers == {JoinResp(x, id) : x \in Receivers(e, active, id)}
<1>1. /\ handle_receive(e) /\ Deliver(JoinReq(e), answers)
      /\ m_clients' = Sessions(e) /\ m_isActive' = active
      /\ UNCHANGED <<serverUp, timeouts, losses>> /\ UNCHANGED clientVars
  BY DEF handle_joinRequest
<1>2. active \in [Endpoints -> BOOLEAN]
  <2>1. \A x \in Endpoints : Active(e)[x] \in BOOLEAN
    BY <1>1, Receives
  <2>2. \A x \in Endpoints : (x \in Found(e, id) \/ Active(e)[x]) \in BOOLEAN
    BY <2>1
  <2> QED BY <2>2
<1>3. id \in Nat /\ id < m_nextClientId'
  BY <1>1, IdNamesSource
<1>4. ASSUME NEW m \in answers PROVE MessageInv(m)'
  <2>1. PICK x \in Sessions(e) : m = JoinResp(x, id) /\ (id > 0 => Ids(e)[x] = id)
    BY DEF Receivers
  <2>2. x \in Endpoints /\ OwnedBy(m_clientId[x], x)' /\ m_clientId' = Ids(e)
    BY <1>1, Receives
  <2>3. m \in Messages
    BY <1>3, <2>1, <2>2, MessagesInMessages
  <2>4. m.kind = "JOIN_RESP" /\ m.player_id = id /\ m.at = x
    BY <2>1 DEF JoinResp
  <2>5. id > 0 => owner'[id + 1] = x
    BY <2>1, <2>2 DEF OwnedBy
  <2> QED BY <1>3, <2>3, <2>4, <2>5 DEF MessageInv
<1> HIDE DEF id, active, answers
<1>5. serverUp' \in BOOLEAN /\ CounterTypes
  BY <1>1 DEF IInv, Types, ServerTypes
<1>6. ServerTypes' /\ ClientTypes' /\ OwnersInv' /\ WorldInv' /\ Grows
  BY <1>1, <1>2, <1>5, HandlerKeeps
<1>7. net' \subseteq net \cup answers /\ duplicates' \in 0..MaxDuplicates
  BY <1>1, <1>5, DeliverTypes
<1>8. NetInv'
  BY <1>4, <1>6, <1>7, NetStays
<1>9. CounterTypes'
  BY <1>1, <1>5, <1>7 DEF CounterTypes
<1> QED BY <1>6, <1>8, <1>9 DEF IInv, Types

(* An acknowledgement that accepts comes from a client that has loaded the *)
(* campaign, and the state goes to that client and no other.               *)
LEMMA AcknowledgeStep ==
  ASSUME IInv, NEW e \in Endpoints, handle_joinAcknowledge(e)
  PROVE  IInv'
<1>1. handle_receive(e) /\ UNCHANGED clientVars /\ UNCHANGED <<timeouts, losses>>
  BY DEF handle_joinAcknowledge
<1>2. PICK accepted \in BOOLEAN, x \in Endpoints :
        /\ \/ Deliver(JoinAck(e, accepted), {})
           \/ /\ accepted = TRUE /\ x \in Found(e, SrcClientId(e))
              /\ Deliver(JoinAck(e, TRUE), {FullState(x)})
        /\ m_clients' \subseteq Sessions(e)
        /\ m_isActive' \in {Active(e), [Active(e) EXCEPT ![x] = TRUE]}
        /\ serverUp' \in {serverUp, FALSE}
  <2>1. Sessions(e) \subseteq Endpoints
    BY <1>1, Receives
  <2>2. CASE \E x \in Found(e, SrcClientId(e)) : Accepted(e, x) \/ Refused(e, x)
    <3>1. PICK x \in Found(e, SrcClientId(e)) : Accepted(e, x) \/ Refused(e, x)
      BY <2>2
    <3>2. x \in Endpoints
      BY <2>1 DEF Found
    <3>3. serverUp' \in {serverUp, FALSE}
      BY DEF handle_joinAcknowledge, NoneFound
    <3>4. CASE Accepted(e, x)
      BY <3>2, <3>3, <3>4 DEF Accepted
    <3>5. CASE Refused(e, x)
      BY <3>2, <3>3, <3>5 DEF Refused
    <3> QED BY <3>1, <3>4, <3>5
  <2>3. CASE \E accepted \in BOOLEAN : NoneFound(e, accepted)
    BY <2>3 DEF NoneFound
  <2> QED BY <2>2, <2>3 DEF handle_joinAcknowledge
<1>3. m_isActive' \in [Endpoints -> BOOLEAN]
  <2>1. Active(e) \in [Endpoints -> BOOLEAN]
    BY <1>1, Receives
  <2>2. [Active(e) EXCEPT ![x] = TRUE] \in [Endpoints -> BOOLEAN]
    BY <2>1
  <2> QED BY <1>2, <2>1, <2>2
<1>4. serverUp' \in BOOLEAN /\ CounterTypes
  BY <1>2 DEF IInv, Types, ServerTypes
<1>5. ServerTypes' /\ ClientTypes' /\ OwnersInv' /\ WorldInv' /\ Grows
  BY <1>1, <1>2, <1>3, <1>4, HandlerKeeps
<1>6. NetInv' /\ duplicates' \in 0..MaxDuplicates
  <2>1. CASE Deliver(JoinAck(e, accepted), {})
    <3>1. net' \subseteq net \cup {} /\ duplicates' \in 0..MaxDuplicates
      BY <1>4, <2>1, DeliverTypes
    <3> QED BY <1>5, <3>1, NetStays
  <2>2. CASE /\ x \in Found(e, SrcClientId(e))
             /\ Deliver(JoinAck(e, TRUE), {FullState(x)})
    <3>1. JoinAck(e, TRUE) \in net /\ net' \subseteq net \cup {FullState(x)}
          /\ duplicates' \in 0..MaxDuplicates
      BY <1>4, <2>2, DeliverTypes
    <3>2. e \in loaded'
      <4>1. MessageInv(JoinAck(e, TRUE))
        BY <3>1 DEF IInv, NetInv
      <4>2. e \in loaded
        BY <4>1 DEF MessageInv, JoinAck
      <4> QED BY <4>2, <1>5 DEF Grows
    <3>3. IdsLast' => x = e
      BY <1>1, <2>2, IdNamesSource
    <3>4. \A m : m = FullState(x) => MessageInv(m)'
      BY <3>2, <3>3, MessagesInMessages DEF MessageInv, FullState
    <3> QED BY <1>5, <3>1, <3>4, NetStays
  <2> QED BY <1>2, <2>1, <2>2
<1>7. CounterTypes'
  BY <1>1, <1>4, <1>6 DEF CounterTypes
<1> QED BY <1>5, <1>6, <1>7 DEF IInv, Types

LEMMA ScriptStep ==
  ASSUME IInv, NEW e \in Endpoints, ScriptCall(e)
  PROVE  IInv'
<1>1. /\ handle_receive(e) /\ UNCHANGED clientVars
      /\ m_clients' = Sessions(e) /\ m_isActive' = Active(e)
      /\ UNCHANGED <<serverUp, net, timeouts, duplicates, losses>>
  BY DEF ScriptCall
<1>2. serverUp' \in BOOLEAN /\ m_isActive' \in [Endpoints -> BOOLEAN]
  BY <1>1, Receives DEF IInv, Types, ServerTypes
<1>3. ServerTypes' /\ ClientTypes' /\ OwnersInv' /\ WorldInv' /\ Grows
  BY <1>1, <1>2, HandlerKeeps
<1>4. NetInv'
  BY <1>1, <1>3, NetStays
<1>5. CounterTypes'
  BY <1>1 DEF IInv, Types, CounterTypes
<1> QED BY <1>3, <1>4, <1>5 DEF IInv, Types

(* Sessions fall silent and are closed; messages are lost.                 *)
LEMMA FaultStep ==
  ASSUME IInv, Lose \/ sync \/ (\E e \in Endpoints : FallsSilent(e)) \/ UNCHANGED vars
  PROVE  IInv'
<1>1. /\ UNCHANGED <<m_clientId, m_isActive, m_nextClientId, owner, client, loaded, hasWorld>>
      /\ m_clients' \subseteq m_clients /\ silent' \subseteq Endpoints
      /\ serverUp' \in BOOLEAN /\ net' \subseteq net
  <2>1. silent \subseteq Endpoints /\ serverUp \in BOOLEAN /\ m_clients \subseteq Endpoints
    BY DEF IInv, Types, ServerTypes
  <2>2. CASE Lose
    BY <2>1, <2>2 DEF Lose, serverVars, clientVars
  <2>3. CASE sync
    BY <2>1, <2>3 DEF sync, closeDeadConnections, clientVars
  <2>4. CASE \E e \in Endpoints : FallsSilent(e)
    BY <2>1, <2>4 DEF FallsSilent, clientVars
  <2>5. CASE UNCHANGED vars
    BY <2>1, <2>5 DEF vars, serverVars, clientVars
  <2> QED BY <2>2, <2>3, <2>4, <2>5
<1>2. CounterTypes'
  <2>1. CounterTypes
    BY DEF IInv, Types
  <2>2. CASE Lose
    BY <2>1, <2>2, ServerAssumption DEF Lose, CounterTypes
  <2>3. CASE sync
    BY <2>1, <2>3 DEF sync, CounterTypes
  <2>4. CASE \E e \in Endpoints : FallsSilent(e)
    BY <2>1, <2>4, ServerAssumption DEF FallsSilent, CounterTypes
  <2>5. CASE UNCHANGED vars
    BY <2>1, <2>5 DEF vars, CounterTypes
  <2> QED BY <2>2, <2>3, <2>4, <2>5
<1>3. ServerTypes' /\ ClientTypes'
  BY <1>1 DEF IInv, Types, ServerTypes, ClientTypes
<1>4. OwnersInv' /\ WorldInv'
  BY <1>1 DEF IInv, OwnersInv, OwnedBy, WorldInv, IdsLast
<1>5. Grows
  BY <1>1 DEF IInv, Types, ServerTypes, Grows
<1>6. NetInv'
  BY <1>1, <1>5, NetStays
<1> QED BY <1>2, <1>3, <1>4, <1>6 DEF IInv, Types

(* What a client does leaves the server as it is; a client accepts only    *)
(* when it loads the campaign.                                             *)
LEMMA ClientStep ==
  ASSUME IInv, NEW e \in Endpoints,
         sendJoinRequest(e) \/ ClientReceives(e) \/ StepWithoutLogic(e)
  PROVE  IInv'
<1>1. /\ UNCHANGED <<m_clients, m_clientId, m_isActive, m_nextClientId, silent, owner, serverUp>>
      /\ UNCHANGED <<timeouts, losses>>
  BY DEF sendJoinRequest, ClientReceives, handleJoinResponse, ReceiveState, StepWithoutLogic,
         serverVars
<1> DEFINE Sends(answers, now) ==
             /\ net' \subseteq net \cup answers
             /\ duplicates' \in 0..MaxDuplicates
             /\ loaded' = now
<1>2. \/ Sends({}, loaded) \/ Sends({JoinReq(e)}, loaded) \/ Sends({JoinAck(e, FALSE)}, loaded)
      \/ Sends({JoinAck(e, TRUE)}, loaded \cup {e})
  <2>1. CounterTypes /\ duplicates \in 0..MaxDuplicates
    BY DEF IInv, Types, CounterTypes
  <2>2. CASE sendJoinRequest(e)
    BY <2>1, <2>2 DEF sendJoinRequest
  <2>3. CASE ClientReceives(e)
    <3>1. PICK m \in net : handleJoinResponse(e, m) \/ ReceiveState(e, m)
      BY <2>3 DEF ClientReceives
    <3>2. \/ Deliver(m, {JoinAck(e, TRUE)}) /\ loaded' = loaded \cup {e}
          \/ Deliver(m, {JoinAck(e, FALSE)}) /\ loaded' = loaded
          \/ Deliver(m, {}) /\ loaded' = loaded
      BY <3>1 DEF handleJoinResponse, ReceiveState
    <3>3. \A answers : Deliver(m, answers) => /\ net' \subseteq net \cup answers
                                              /\ duplicates' \in 0..MaxDuplicates
      BY <2>1, DeliverTypes
    <3> QED BY <3>2, <3>3
  <2>4. CASE StepWithoutLogic(e)
    BY <2>1, <2>4 DEF StepWithoutLogic
  <2> QED BY <2>2, <2>3, <2>4
<1>3. loaded' \in {loaded, loaded \cup {e}} /\ duplicates' \in 0..MaxDuplicates
  BY <1>2
<1>4. Grows
  BY <1>1, <1>3 DEF IInv, Types, ServerTypes, Grows
<1>5. NetInv'
  <2>1. \A m : m = JoinReq(e) => MessageInv(m)'
    BY MessagesInMessages DEF MessageInv, JoinReq
  <2>2. ASSUME NEW m, NEW accepted \in BOOLEAN, m = JoinAck(e, accepted),
               accepted => e \in loaded'
        PROVE  MessageInv(m)'
    <3>1. m \in Messages
      BY <2>2, MessagesInMessages
    <3>2. m.kind = "JOIN_ACK" /\ m.at = e /\ m.accepted = accepted
      BY <2>2 DEF JoinAck
    <3> QED BY <2>2, <3>1, <3>2 DEF MessageInv
  <2>3. /\ \A m : m = JoinAck(e, FALSE) => MessageInv(m)'
        /\ e \in loaded' => \A m : m = JoinAck(e, TRUE) => MessageInv(m)'
    BY <2>2
  <2>4. ASSUME NEW m \in net' PROVE m \in net \/ MessageInv(m)'
    BY <1>2, <2>1, <2>2, <2>3
  <2> QED BY <1>4, <2>4, NetStays
<1>6. ServerTypes' /\ OwnersInv'
  BY <1>1 DEF IInv, Types, ServerTypes, OwnersInv, OwnedBy
<1>7. client' \in [Endpoints -> ClientStates]
  <2>1. client \in [Endpoints -> ClientStates]
    BY DEF IInv, Types, ClientTypes
  <2>2. \E s \in ClientStates : client' = [client EXCEPT ![e] = s] \/ client' = client
    BY DEF ClientStates, sendJoinRequest, ClientReceives, handleJoinResponse, ReceiveState,
           StepWithoutLogic
  <2> QED BY <2>1, <2>2
<1>8. hasWorld' = hasWorld \/ (hasWorld' = hasWorld \cup {e} /\ FullState(e) \in net)
  BY DEF sendJoinRequest, ClientReceives, handleJoinResponse, ReceiveState, StepWithoutLogic
<1>9. ClientTypes'
  BY <1>3, <1>7, <1>8 DEF IInv, Types, ClientTypes
<1>10. WorldInv'
  <2>1. FullState(e) \in net /\ IdsLast => e \in loaded
    BY DEF IInv, NetInv, MessageInv, FullState
  <2>2. IdsLast' <=> IdsLast
    BY <1>1 DEF IdsLast
  <2> QED BY <1>3, <1>8, <2>1, <2>2 DEF IInv, WorldInv
<1>11. CounterTypes'
  BY <1>1, <1>3 DEF IInv, Types, CounterTypes
<1> QED BY <1>5, <1>6, <1>9, <1>10, <1>11 DEF IInv, Types

(* The invariant of the server and its clients.                            *)
THEOREM AlwaysIInv == Spec => []IInv
<1>1. IInv /\ [Next]_vars => IInv'
  <2> SUFFICES ASSUME IInv, [Next]_vars PROVE IInv'
    OBVIOUS
  <2>1. CASE Lose \/ sync \/ (\E e \in Endpoints : FallsSilent(e)) \/ UNCHANGED vars
    BY <2>1, FaultStep
  <2>2. CASE \E e \in Endpoints : ServerStep(e)
    <3>1. PICK e \in Endpoints : ServerStep(e)
      BY <2>2
    <3> QED BY <3>1, RequestStep, AcknowledgeStep, ScriptStep DEF ServerStep
  <2>3. CASE \E e \in Endpoints :
               sendJoinRequest(e) \/ ClientReceives(e) \/ StepWithoutLogic(e)
    BY <2>3, ClientStep
  <2> QED BY <2>1, <2>2, <2>3 DEF Next
<1> QED BY InitIInv, <1>1, PTL DEF Spec

----------------------------------------------------------------------------
(* Types: every message under way is one of the protocol, and as many ids  *)
(* as the server has counted have been given out (networkserver.cpp:193).  *)
THEOREM TypeCorrect == Spec => []TypeOK
<1>1. IInv => TypeOK
  <2> SUFFICES ASSUME IInv PROVE TypeOK
    OBVIOUS
  <2>1. net \subseteq Messages
    BY DEF IInv, NetInv, MessageInv
  <2> QED BY <2>1 DEF IInv, Types, ServerTypes, ClientTypes, CounterTypes, TypeOK
<1> QED BY <1>1, AlwaysIInv, PTL

(* As long as ids have not wrapped, the id a handler is called with is     *)
(* that of the session the package came from and of no other               *)
(* (networkserver.cpp:218, 236, clientsession.cpp:40).                     *)
THEOREM SessionsAlwaysDistinct == Spec => []SessionsDistinct
<1>1. IInv => SessionsDistinct
  <2> SUFFICES ASSUME IInv, IdsLast, NEW e \in m_clients
               PROVE  {x \in m_clients : m_clientId[x] = m_clientId[e] % IdModulus} = {e}
    BY DEF SessionsDistinct
  <2>1. \A x \in m_clients :
          m_clientId[x] \in Nat /\ m_clientId[x] < m_nextClientId /\ owner[m_clientId[x] + 1] = x
    BY DEF IInv, Types, ServerTypes, OwnersInv, OwnedBy
  <2>2. m_nextClientId \in Nat /\ IdModulus \in Nat \ {0} /\ m_nextClientId <= IdModulus
    BY ServerAssumption DEF IInv, Types, ServerTypes, IdsLast
  <2>3. m_clientId[e] % IdModulus = m_clientId[e]
    BY <2>1, <2>2
  <2> QED BY <2>1, <2>3
<1> QED BY <1>1, AlwaysIInv, PTL

(* A response for any id but 0 is under way to the client that id was      *)
(* given to (networkserver.cpp:139), also after ids have wrapped.          *)
THEOREM ResponseAlwaysForItsReceiver == Spec => []ResponseForItsReceiver
<1>1. IInv => ResponseForItsReceiver
  BY DEF IInv, NetInv, MessageInv, ResponseForItsReceiver
<1> QED BY <1>1, AlwaysIInv, PTL

(* As long as ids have not wrapped, the world is sent only to clients that *)
(* have loaded the campaign (networkserver.cpp:240-249).                   *)
THEOREM WorldAlwaysForLoaded == Spec => []WorldOnlyForLoaded
<1>1. IInv => WorldOnlyForLoaded
  BY DEF IInv, NetInv, MessageInv, WorldInv, WorldOnlyForLoaded
<1> QED BY <1>1, AlwaysIInv, PTL
==============================================================================
