---------------------------- MODULE UdpConnection ----------------------------
(***************************************************************************)
(* network/udpconnection.h: the two ends of one connection, the client's   *)
(* NetworkClient and the server's ClientSession, over UDP.                 *)
(*                                                                         *)
(* A datagram is never taken out of net: one that is not received (yet) is *)
(* lost or late, one that is received again is a duplicate, and any order  *)
(* of reception is a behaviour.                                            *)
(*                                                                         *)
(* The program is single-threaded at each end.  A call of parsePackage is  *)
(* three kinds of step, and the end does nothing else until the last one:  *)
(* Receive (refresh), one AckStep per iteration of the loop in             *)
(* processRpcAcknowledges, and Dispatch (executeReceivedCall).             *)
(***************************************************************************)
EXTENDS SeqId, Sequences, SequencesExt

CONSTANTS
  Client, Server,
  IntBits,      \* bits of the int in which the mask is shifted (32)
  MaxPackages,  \* bound, for each end: after so many packages it issues nothing new
  MaxRpcs       \* bound, for each end: the calls it issues

ASSUME ConnectionAssumption ==
  /\ Client # Server
  /\ IntBits \in Nat /\ IntBits >= NumAcks
  /\ MaxPackages \in [{Client, Server} -> Nat]
  /\ MaxRpcs \in [{Client, Server} -> Nat]

Peers == {Client, Server}
Other(e) == IF e = Client THEN Server ELSE Client

(* One element of m_rpcMemory.  msgId stands for the call itself: the code *)
(* labels it with a uint16_t that wraps (line 200) and never reads it back *)
(* to tell calls apart.  sentAt, the number of the package that carries    *)
(* the call, stands for timeOfSend.                                        *)
RpcInfo == [msgId : Nat, seqId : SeqIds, sentAt : Nat]

(* A datagram.  rpc holds the msg_seq_id of the call in it, or nothing:    *)
(* then it is the state of the world.  no numbers the sender's packages    *)
(* without wrapping and is not on the wire.  The ack_seq_id and ack_mask   *)
(* that sendPackage stamps are left out: refresh takes them as parameters  *)
(* and reads neither, so no step depends on them.                          *)
Package == [to : Peers, no : Nat, seqId : SeqIds, rpc : SUBSET Nat]

VARIABLES
  m_seqId,        \* id of the next package
  m_remoteSeqId,  \* most recent id received
  m_ackMask,      \* which of the ids before it were received
  m_nextMsgId,
  m_rpcMemory,    \* calls that may have to be sent again
  it,             \* iterator over m_rpcMemory: 0 outside of parsePackage
  parsed,         \* the call in the package that is being parsed
  net,            \* every package ever sent
  sent,           \* number of packages sent by each end
  lapsed,         \* how many of those are older than PACKAGE_LOSS_TIMEOUT
  received,       \* numbers of the packages each end has received
  executed,       \* calls of the partner handed to the dispatcher
  forgotten       \* own calls dropped from the memory as acknowledged

vars == <<m_seqId, m_remoteSeqId, m_ackMask, m_nextMsgId, m_rpcMemory, it,
          parsed, net, sent, lapsed, received, executed, forgotten>>

Init ==
  /\ m_seqId = [e \in Peers |-> 0]
  /\ m_remoteSeqId = [e \in Peers |-> 0]
  /\ m_ackMask = [e \in Peers |-> {}]
  /\ m_nextMsgId = [e \in Peers |-> 0]
  /\ m_rpcMemory = [e \in Peers |-> <<>>]
  /\ it = [e \in Peers |-> 0]
  /\ parsed = [e \in Peers |-> {}]
  /\ net = {}
  /\ sent = [e \in Peers |-> 0]
  /\ lapsed = [e \in Peers |-> 0]
  /\ received = [e \in Peers |-> {}]
  /\ executed = [e \in Peers |-> {}]
  /\ forgotten = [e \in Peers |-> {}]

Idle(e) == it[e] = 0

----------------------------------------------------------------------------
(* Sending *)

(* The package sendPackage puts on the wire. *)
PackageFrom(e, rpc) ==
  [to |-> Other(e), no |-> sent[e], seqId |-> m_seqId[e], rpc |-> rpc]

sendPackage(e, rpc) ==
  /\ net' = net \cup {PackageFrom(e, rpc)}
  /\ m_seqId' = [m_seqId EXCEPT ![e] = Wrapped(@ + 1)]
  /\ sent' = [sent EXCEPT ![e] = @ + 1]

(* Mutant: the sequence id is read after sendPackage has advanced it. *)
RpcInfoReadTooLate(e, msgId) ==
  [msgId |-> msgId, seqId |-> Wrapped(m_seqId[e] + 1), sentAt |-> sent[e]]

(* What remoteProcedureCall pushes onto the memory. *)
RpcInfoOf(e, msgId) ==
  [msgId |-> msgId, seqId |-> m_seqId[e], sentAt |-> sent[e]]

(* The server has a ClientSession only once a package of the client has    *)
(* arrived.                                                                *)
Connected(e) == e = Client \/ received[e] # {}

(* A new call: a new message id, one package, one entry of the memory. *)
remoteProcedureCall(e) ==
  /\ Idle(e) /\ Connected(e)
  /\ m_nextMsgId[e] < MaxRpcs[e] /\ sent[e] < MaxPackages[e]
  /\ sendPackage(e, {m_nextMsgId[e]})
  /\ m_rpcMemory' = [m_rpcMemory EXCEPT ![e] = Append(@, RpcInfoOf(e, m_nextMsgId[e]))]
  /\ m_nextMsgId' = [m_nextMsgId EXCEPT ![e] = @ + 1]
  /\ UNCHANGED <<m_remoteSeqId, m_ackMask, it, parsed, lapsed, received,
                 executed, forgotten>>

(* The server's sync and handle_joinAcknowledge send the state of the world. *)
SendState ==
  /\ Idle(Server) /\ Connected(Server) /\ sent[Server] < MaxPackages[Server]
  /\ sendPackage(Server, {})
  /\ UNCHANGED <<m_remoteSeqId, m_ackMask, m_nextMsgId, m_rpcMemory, it, parsed,
                 lapsed, received, executed, forgotten>>

(* Time passes: more of the packages are older than PACKAGE_LOSS_TIMEOUT.  *)
(* The clock is read once, before the loop over the memory.                *)
TimePasses(e) ==
  /\ Idle(e) /\ sent[e] <= MaxPackages[e]
  /\ \E n \in (lapsed[e] + 1)..sent[e] : lapsed' = [lapsed EXCEPT ![e] = n]
  /\ UNCHANGED <<m_seqId, m_remoteSeqId, m_ackMask, m_nextMsgId, m_rpcMemory, it,
                 parsed, net, sent, received, executed, forgotten>>

----------------------------------------------------------------------------
(* Receiving: refresh *)

(* uint16_t maskOffset = to - from, with the code's correction when the    *)
(* ids have wrapped in between.                                            *)
MaskOffset(from, to) ==
  IF to < from THEN MaxSeqId - Wrapped(to - from) ELSE to - from

ShiftLeft(mask, n) == {b + n : b \in mask} \cap AckBits

(* mask <<= n.  A shift by the width of an int or more is undefined: the   *)
(* machine shifts by n modulo that width, or clears the mask.              *)
ShiftOutcomes(mask, n) ==
  IF n < IntBits THEN {ShiftLeft(mask, n)}
  ELSE {ShiftLeft(mask, n % IntBits), {}}

(* Mutant: the shift by one too many, as if remote itself had no bit yet.  *)
NewerMasksShiftedTooFar(mask, remote, seq) ==
  LET offset == MaskOffset(remote, seq)
  IN  {m \cup ({offset - 1} \cap AckBits) : m \in ShiftOutcomes(mask, offset + 1)}

(* The mask once seq, more recent than remote, has taken remote's place.   *)
NewerMasks(mask, remote, seq) ==
  LET offset == MaskOffset(remote, seq)
  IN  {m \cup ({offset - 1} \cap AckBits) : m \in ShiftOutcomes(mask, offset)}

(* Mutant: the test maskOffset < NUM_ACKS is missing. *)
OlderMaskUnbounded(mask, remote, seq) == mask \cup {MaskOffset(seq, remote)}

(* The mask once seq, not more recent than remote, is marked as received.  *)
OlderMask(mask, remote, seq) ==
  mask \cup ({MaskOffset(seq, remote)} \cap AckBits)

(* parsePackage up to the loop. *)
Receive(e, p) ==
  /\ Idle(e) /\ p \in net /\ p.to = e
  /\ IF IsSeqIdMoreRecent(p.seqId, m_remoteSeqId[e])
     THEN /\ \E mask \in NewerMasks(m_ackMask[e], m_remoteSeqId[e], p.seqId) :
                m_ackMask' = [m_ackMask EXCEPT ![e] = mask]
          /\ m_remoteSeqId' = [m_remoteSeqId EXCEPT ![e] = p.seqId]
     ELSE /\ m_ackMask' = [m_ackMask EXCEPT
               ![e] = OlderMask(@, m_remoteSeqId[e], p.seqId)]
          /\ UNCHANGED m_remoteSeqId
  /\ received' = [received EXCEPT ![e] = @ \cup {p.no}]
  /\ parsed' = [parsed EXCEPT ![e] = p.rpc]
  /\ it' = [it EXCEPT ![e] = 1]
  /\ UNCHANGED <<m_seqId, m_nextMsgId, m_rpcMemory, net, sent, lapsed, executed,
                 forgotten>>

----------------------------------------------------------------------------
(* Receiving: processRpcAcknowledges, one iteration for the entry at it[e] *)

Positions(e) == 1..Len(m_rpcMemory[e])
AtEntry(e) == it[e] \in Positions(e)
Entry(e) == m_rpcMemory[e][it[e]]

isSeqIdAcknowledged(e, seq) ==
  IsSeqIdAcknowledged(m_ackMask[e], m_remoteSeqId[e], seq)

(* Mutant: the package just sent counts as timed out. *)
TimedOutTooEarly(e, x) == x.sentAt <= lapsed[e]

(* Mutant: the newest of the packages that timed out is left out. *)
TimedOutTooLate(e, x) == x.sentAt + 1 < lapsed[e]

(* time_span > PACKAGE_LOSS_TIMEOUT *)
TimedOut(e, x) == x.sentAt < lapsed[e]

(* Mutant: behind the last element comes begin() again, never end(). *)
SuccessorWithoutEnd(i, n) == IF i >= n THEN 1 ELSE i + 1

(* it++ of an iterator at position i of a list with n elements.  The list  *)
(* of libstdc++ is circular: behind end(), at n + 1, comes begin().        *)
Successor(i, n) == IF i = n + 1 THEN 1 ELSE i + 1

(* An acknowledged call is erased.  erase returns the element behind it,   *)
(* and the loop's own it++ skips that one.                                 *)
EraseAcknowledged(e) ==
  /\ AtEntry(e) /\ isSeqIdAcknowledged(e, Entry(e).seqId)
  /\ m_rpcMemory' = [m_rpcMemory EXCEPT ![e] = RemoveAt(@, it[e])]
  /\ it' = [it EXCEPT ![e] = Successor(@, Len(m_rpcMemory[e]) - 1)]
  /\ forgotten' = [forgotten EXCEPT ![e] = @ \cup {Entry(e).msgId}]
  /\ UNCHANGED <<m_seqId, m_remoteSeqId, m_ackMask, m_nextMsgId, parsed, net, sent,
                 lapsed, received, executed>>

(* Mutant: the resent call is remembered, the old entry is not erased. *)
ResendWithoutErase(e) ==
  /\ AtEntry(e) /\ ~isSeqIdAcknowledged(e, Entry(e).seqId) /\ TimedOut(e, Entry(e))
  /\ sendPackage(e, {Entry(e).msgId})
  /\ m_rpcMemory' = [m_rpcMemory EXCEPT ![e] = Append(@, RpcInfoOf(e, Entry(e).msgId))]
  /\ it' = [it EXCEPT ![e] = @ + 1]
  /\ UNCHANGED <<m_remoteSeqId, m_ackMask, m_nextMsgId, parsed, lapsed, received,
                 executed, forgotten>>

(* Mutant: the resent call takes the place of the old entry. *)
ResendInPlace(e) ==
  /\ AtEntry(e) /\ ~isSeqIdAcknowledged(e, Entry(e).seqId) /\ TimedOut(e, Entry(e))
  /\ sendPackage(e, {Entry(e).msgId})
  /\ m_rpcMemory' = [m_rpcMemory EXCEPT ![e][it[e]] = RpcInfoOf(e, @.msgId)]
  /\ it' = [it EXCEPT ![e] = @ + 1]
  /\ UNCHANGED <<m_remoteSeqId, m_ackMask, m_nextMsgId, parsed, lapsed, received,
                 executed, forgotten>>

(* Mutant: the call is sent again under the next free message id. *)
ResendUnderNewId(e) ==
  /\ AtEntry(e) /\ ~isSeqIdAcknowledged(e, Entry(e).seqId) /\ TimedOut(e, Entry(e))
  /\ sendPackage(e, {m_nextMsgId[e]})
  /\ m_rpcMemory' = [m_rpcMemory EXCEPT
       ![e] = RemoveAt(Append(@, RpcInfoOf(e, m_nextMsgId[e])), it[e])]
  /\ it' = [it EXCEPT ![e] = Successor(@, Len(m_rpcMemory[e]))]
  /\ UNCHANGED <<m_remoteSeqId, m_ackMask, m_nextMsgId, parsed, lapsed, received,
                 executed, forgotten>>

(* A call that timed out is sent in a new package and remembered at the    *)
(* end of the list; the old entry is erased.                               *)
Resend(e) ==
  /\ AtEntry(e) /\ ~isSeqIdAcknowledged(e, Entry(e).seqId) /\ TimedOut(e, Entry(e))
  /\ sendPackage(e, {Entry(e).msgId})
  /\ m_rpcMemory' = [m_rpcMemory EXCEPT
       ![e] = RemoveAt(Append(@, RpcInfoOf(e, Entry(e).msgId)), it[e])]
  /\ it' = [it EXCEPT ![e] = Successor(@, Len(m_rpcMemory[e]))]
  /\ UNCHANGED <<m_remoteSeqId, m_ackMask, m_nextMsgId, parsed, lapsed, received,
                 executed, forgotten>>

(* Neither: the call stays in the memory. *)
Keep(e) ==
  /\ AtEntry(e) /\ ~isSeqIdAcknowledged(e, Entry(e).seqId) /\ ~TimedOut(e, Entry(e))
  /\ it' = [it EXCEPT ![e] = Successor(@, Len(m_rpcMemory[e]))]
  /\ UNCHANGED <<m_seqId, m_remoteSeqId, m_ackMask, m_nextMsgId, m_rpcMemory, parsed,
                 net, sent, lapsed, received, executed, forgotten>>

AckStep(e) == EraseAcknowledged(e) \/ Resend(e) \/ Keep(e)

(* it = end(): parsePackage hands the call in the package, if it has one,  *)
(* to the dispatcher and returns.                                          *)
Dispatch(e) ==
  /\ it[e] = Len(m_rpcMemory[e]) + 1
  /\ it' = [it EXCEPT ![e] = 0]
  /\ executed' = [executed EXCEPT ![e] = @ \cup parsed[e]]
  /\ parsed' = [parsed EXCEPT ![e] = {}]
  /\ UNCHANGED <<m_seqId, m_remoteSeqId, m_ackMask, m_nextMsgId, m_rpcMemory, net,
                 sent, lapsed, received, forgotten>>

----------------------------------------------------------------------------
ReceiveAny(e) == \E p \in net : Receive(e, p)

Next ==
  \/ SendState
  \/ \E e \in Peers : \/ remoteProcedureCall(e)
                      \/ TimePasses(e)
                      \/ ReceiveAny(e)
                      \/ AckStep(e)
                      \/ Dispatch(e)

Spec == Init /\ [][Next]_vars

(* A started call of parsePackage runs to its end. *)
RunsOn == \A e \in Peers : WF_vars(AckStep(e) \/ Dispatch(e))

(* No reception is fair: the network may lose every package, and only the  *)
(* server sends by a timer (networkserver.cpp:162), so an end may never    *)
(* receive again, and then it sends nothing again (udpconnection.h:141).   *)
FairSpec == Spec /\ RunsOn

----------------------------------------------------------------------------
TypeOK ==
  /\ m_seqId \in [Peers -> SeqIds]
  /\ m_remoteSeqId \in [Peers -> SeqIds]
  /\ m_ackMask \in [Peers -> SUBSET AckBits]
  /\ m_nextMsgId \in [Peers -> Nat]
  /\ m_rpcMemory \in [Peers -> Seq(RpcInfo)]
  /\ it \in [Peers -> Nat]
  /\ parsed \in [Peers -> SUBSET Nat]
  /\ net \subseteq Package
  /\ sent \in [Peers -> Nat]
  /\ lapsed \in [Peers -> Nat]
  /\ received \in [Peers -> SUBSET Nat]
  /\ executed \in [Peers -> SUBSET Nat]
  /\ forgotten \in [Peers -> SUBSET Nat]

(* Every call ever issued is either remembered or was dropped as           *)
(* acknowledged, never both and never remembered twice: sending again and  *)
(* erasing while iterating (udpconnection.h:171-186) loses and doubles     *)
(* nothing.                                                                *)
RpcAccountedFor ==
  \A e \in Peers :
    LET Remembered == {m_rpcMemory[e][i].msgId : i \in Positions(e)}
    IN  /\ Remembered \cup forgotten[e] = 0..(m_nextMsgId[e] - 1)
        /\ Remembered \cap forgotten[e] = {}
        /\ \A i, j \in Positions(e) :
              m_rpcMemory[e][i].msgId = m_rpcMemory[e][j].msgId => i = j

(* The memory is ordered by time of sending, so what timed out comes first *)
(* (push_back in remoteProcedureCall, also from within the loop).          *)
MemoryInOrderOfSending ==
  \A e \in Peers : \A i, j \in Positions(e) :
    i < j => m_rpcMemory[e][i].sentAt < m_rpcMemory[e][j].sentAt

(* What an end would send again is what it sent: for every entry the       *)
(* package with that number and id is on the wire and carries the call     *)
(* (udpconnection.h:144-164 reads the ids back from the message).          *)
MemoryMatchesWire ==
  \A e \in Peers : \A i \in Positions(e) :
    LET x == m_rpcMemory[e][i]
    IN  \E p \in net : /\ p.to = Other(e) /\ p.rpc = {x.msgId}
                       /\ p.no = x.sentAt /\ p.seqId = x.seqId

(* The connection is an RPC channel: an end executes only calls its partner *)
(* has issued, however often they were sent again under new sequence ids   *)
(* (udpconnection.h:96-97, 144-169).                                       *)
Channel == INSTANCE RpcChannel WITH issued <- m_nextMsgId
ImplementsRpcChannel == Channel!Spec

(* A call is on the wire twice only if the earlier package had timed out   *)
(* when the later one was sent, however often the loop over the memory     *)
(* starts again at begin() (udpconnection.h:175-186).                      *)
ResentOnlyAfterTimeout ==
  \A p, q \in net :
    p.to = q.to /\ p.rpc = q.rpc /\ p.rpc # {} /\ p.no < q.no
      => p.no < lapsed[Other(p.to)]

(* No step takes back an acknowledgement an end would have sent, until the *)
(* id leaves the window of the mask: a resend never follows from having    *)
(* received one package more.                                              *)
AckKept(e) ==
  \A seq \in SeqIds :
    isSeqIdAcknowledged(e, seq) /\ InAckWindow(m_remoteSeqId[e]', seq)
      => isSeqIdAcknowledged(e, seq)'
AckWindowKept == [][\A e \in Peers : AckKept(e)]_vars

(* The loop over the memory ends, although it appends to the list it       *)
(* iterates over and may run past end() (udpconnection.h:175-186).         *)
LoopEnds == \A e \in Peers : it[e] # 0 ~> it[e] = 0

(* Every single run of the loop gets on with what has timed out, although  *)
(* it skips the entry behind every one it erases: by its end such a call   *)
(* has been sent again or dropped, or stands nearer to the front, so as    *)
(* many runs as it has places to go are enough (udpconnection.h:175-186).  *)
Remembered(e, n) ==
  \E i \in Positions(e) : m_rpcMemory[e][i].sentAt = n
Stands(e, n, i) == i \in Positions(e) /\ m_rpcMemory[e][i].sentAt = n
RunHandlesTimedOut ==
  \A e \in Peers : \A n \in 0..MaxPackages[e] : \A i \in 1..MaxRpcs[e] :
    it[e] = 1 /\ Stands(e, n, i) /\ n < lapsed[e]
      ~> it[e] = 0 /\ (Remembered(e, n) => \E j \in 1..(i - 1) : Stands(e, n, j))
==============================================================================
