------------------------------ MODULE Rpc_proofs ------------------------------
(***************************************************************************)
(* Theorems about calls: SeqId and UdpConnection, which carry them, for    *)
(* every width of the ids and the mask and any number of packages, and     *)
(* RpcPackage and RpcDispatcher, which handle them, for every table, set   *)
(* of handlers and list of arguments.  Spec and Init are those of the      *)
(* connection; the dispatcher is another process with variables of its own.*)
(***************************************************************************)
EXTENDS UdpConnection, RpcDispatcher, DataFacts

(***************************************************************************)
(* What the sequence-id calculus guarantees for every width of the ids and *)
(* every number of ack bits.                                               *)
(***************************************************************************)
(* Half the id space, as the code computes it. *)
LEMMA HalfRange ==
  /\ MaxSeqId \div 2 \in Nat
  /\ MaxSeqId = 2 * (MaxSeqId \div 2) + 1
BY SeqIdAssumption, SMT

(* Of two different ids exactly one is the more recent one: the comparison *)
(* of network.cpp:24-34 has no tie, not even at half the id space.         *)
THEOREM MoreRecentIsTotal ==
  ASSUME NEW a \in SeqIds, NEW b \in SeqIds, a # b
  PROVE  IsSeqIdMoreRecent(a, b) <=> ~IsSeqIdMoreRecent(b, a)
BY HalfRange, SMT DEF SeqIds, IsSeqIdMoreRecent

(* No id is more recent than itself: a duplicate package never counts as   *)
(* new.                                                                    *)
LEMMA MoreRecentIrreflexive ==
  ASSUME NEW a \in SeqIds
  PROVE  ~IsSeqIdMoreRecent(a, a)
BY HalfRange, SMT DEF SeqIds, IsSeqIdMoreRecent

(* The distance of two ids does not depend on their order, the uint16_t    *)
(* subtraction never leaves the id space, and it is at most half of it.    *)
THEOREM DifferenceIsADistance ==
  ASSUME NEW a \in SeqIds, NEW b \in SeqIds
  PROVE  /\ SeqIdDifference(a, b) = SeqIdDifference(b, a)
         /\ SeqIdDifference(a, b) \in 0..(MaxSeqId \div 2 + 1)
         /\ SeqIdDifference(a, b) = 0 <=> a = b
BY HalfRange, SMT DEF SeqIds, IsSeqIdMoreRecent, SeqIdDifference, Wrapped

(* The reference definition: a is more recent than b when it is reached    *)
(* from b by stepping forward at most half the id space, wrap included.    *)
THEOREM MoreRecentIsForward ==
  ASSUME NEW a \in SeqIds, NEW b \in SeqIds, a # b,
         Wrapped(a - b) # MaxSeqId \div 2 + 1
  PROVE  IsSeqIdMoreRecent(a, b) <=> Wrapped(a - b) \in 1..(MaxSeqId \div 2)
BY HalfRange, SMT DEF SeqIds, IsSeqIdMoreRecent, Wrapped

----------------------------------------------------------------------------
(***************************************************************************)
(* What the sequence operators of the model do.                            *)
(***************************************************************************)
LEMMA AppendThenRemoveAt ==
  ASSUME NEW s \in Seq(RpcInfo), NEW i \in 1..Len(s), NEW x \in RpcInfo
  PROVE  /\ RemoveAt(Append(s, x), i) \in Seq(RpcInfo)
         /\ Len(RemoveAt(Append(s, x), i)) = Len(s)
         /\ \A j \in 1..Len(s) : RemoveAt(Append(s, x), i)[j]
              = IF j < i THEN s[j] ELSE IF j < Len(s) THEN s[j + 1] ELSE x
<1>1. /\ Append(s, x) \in Seq(RpcInfo) /\ Len(Append(s, x)) = Len(s) + 1
      /\ \A j \in 1..Len(s) : Append(s, x)[j] = s[j]
      /\ Append(s, x)[Len(s) + 1] = x
  BY AppendProperties
<1>2. i \in 1..Len(Append(s, x)) /\ Len(s) \in Nat
  BY <1>1, LenProperties
<1>3. /\ RemoveAt(Append(s, x), i) \in Seq(RpcInfo)
      /\ Len(RemoveAt(Append(s, x), i)) = Len(Append(s, x)) - 1
      /\ \A j \in 1..(Len(Append(s, x)) - 1) :
           RemoveAt(Append(s, x), i)[j]
             = IF j < i THEN Append(s, x)[j] ELSE Append(s, x)[j + 1]
  BY <1>1, <1>2, RemoveAtProperties
<1> QED
  BY <1>1, <1>2, <1>3

----------------------------------------------------------------------------
(***************************************************************************)
(* Type correctness.                                                       *)
(***************************************************************************)
LEMMA PeersFacts ==
  /\ Client \in Peers /\ Server \in Peers
  /\ \A e \in Peers : Other(e) \in Peers /\ Other(e) # e /\ Other(Other(e)) = e
BY ConnectionAssumption DEF Peers, Other

LEMMA WrappedIsId ==
  ASSUME NEW n \in SeqIds
  PROVE  Wrapped(n + 1) \in SeqIds
BY SeqIdAssumption DEF SeqIds, Wrapped

LEMMA SendTypes ==
  ASSUME TypeOK, NEW e \in Peers, NEW rpc \in SUBSET Nat, sendPackage(e, rpc)
  PROVE  /\ m_seqId' \in [Peers -> SeqIds]
         /\ net' \subseteq Package
         /\ sent' \in [Peers -> Nat]
<1>1. m_seqId[e] \in SeqIds /\ sent[e] \in Nat /\ Other(e) \in Peers
  BY PeersFacts DEF TypeOK
<1>2. Wrapped(m_seqId[e] + 1) \in SeqIds
  BY <1>1, WrappedIsId
<1>3. PackageFrom(e, rpc) \in Package
  BY <1>1 DEF PackageFrom, Package
<1> QED
  BY <1>1, <1>2, <1>3 DEF TypeOK, sendPackage

LEMMA NewerMasksType ==
  ASSUME NEW mask, NEW remote, NEW seq, NEW m \in NewerMasks(mask, remote, seq)
  PROVE  m \subseteq AckBits
BY DEF NewerMasks, ShiftOutcomes, ShiftLeft

LEMMA OlderMaskType ==
  ASSUME NEW mask \in SUBSET AckBits, NEW remote, NEW seq
  PROVE  OlderMask(mask, remote, seq) \subseteq AckBits
BY DEF OlderMask

LEMMA ReceiveTypes ==
  ASSUME TypeOK, NEW e \in Peers, NEW p \in net, Receive(e, p)
  PROVE  TypeOK'
<1>0. p \in Package
  BY DEF TypeOK
<1>1. m_ackMask' \in [Peers -> SUBSET AckBits]
  <2>1. CASE IsSeqIdMoreRecent(p.seqId, m_remoteSeqId[e])
    <3>1. PICK mask \in NewerMasks(m_ackMask[e], m_remoteSeqId[e], p.seqId) :
            m_ackMask' = [m_ackMask EXCEPT ![e] = mask]
      BY <2>1 DEF Receive
    <3>2. mask \subseteq AckBits
      BY NewerMasksType
    <3> QED
      BY <3>1, <3>2 DEF TypeOK
  <2>2. CASE ~IsSeqIdMoreRecent(p.seqId, m_remoteSeqId[e])
    <3>1. m_ackMask' = [m_ackMask EXCEPT ![e] = OlderMask(@, m_remoteSeqId[e], p.seqId)]
      BY <2>2 DEF Receive
    <3>2. OlderMask(m_ackMask[e], m_remoteSeqId[e], p.seqId) \subseteq AckBits
      BY OlderMaskType DEF TypeOK
    <3> QED
      BY <3>1, <3>2 DEF TypeOK
  <2> QED
    BY <2>1, <2>2
<1>2. m_remoteSeqId' \in [Peers -> SeqIds]
  BY <1>0 DEF Receive, TypeOK, Package
<1>3. /\ received' \in [Peers -> SUBSET Nat]
      /\ parsed' \in [Peers -> SUBSET Nat]
      /\ it' \in [Peers -> Nat]
  BY <1>0 DEF Receive, TypeOK, Package
<1> QED
  BY <1>1, <1>2, <1>3 DEF Receive, TypeOK

LEMMA EntryType ==
  ASSUME TypeOK, NEW e \in Peers, AtEntry(e)
  PROVE  /\ m_rpcMemory[e] \in Seq(RpcInfo)
         /\ it[e] \in 1..Len(m_rpcMemory[e])
         /\ Entry(e) \in RpcInfo
         /\ Len(m_rpcMemory[e]) \in Nat
<1>1. m_rpcMemory[e] \in Seq(RpcInfo) /\ it[e] \in 1..Len(m_rpcMemory[e])
  BY DEF TypeOK, AtEntry, Positions
<1>2. m_rpcMemory[e][it[e]] \in RpcInfo
  BY <1>1, ElementOfSeq
<1> QED
  BY <1>1, <1>2, LenProperties DEF Entry

LEMMA SuccessorType ==
  ASSUME NEW i \in Nat, NEW n \in Nat
  PROVE  Successor(i, n) \in Nat
BY DEF Successor

LEMMA RpcInfoType ==
  ASSUME TypeOK, NEW e \in Peers, NEW n \in Nat
  PROVE  RpcInfoOf(e, n) \in RpcInfo
BY DEF TypeOK, RpcInfoOf, RpcInfo

LEMMA StepTypes == TypeOK /\ [Next]_vars => TypeOK'
<1> SUFFICES ASSUME TypeOK, [Next]_vars
             PROVE  TypeOK'
  OBVIOUS
<1>1. CASE SendState
  <2>1. sendPackage(Server, {})
    BY <1>1 DEF SendState
  <2> QED
    BY <1>1, <2>1, SendTypes, PeersFacts DEF SendState, TypeOK
<1>2. ASSUME NEW e \in Peers, remoteProcedureCall(e)
      PROVE  TypeOK'
  <2>1. m_nextMsgId[e] \in Nat /\ sendPackage(e, {m_nextMsgId[e]})
    BY <1>2 DEF remoteProcedureCall, TypeOK
  <2>2. /\ m_seqId' \in [Peers -> SeqIds]
        /\ net' \subseteq Package
        /\ sent' \in [Peers -> Nat]
    BY <2>1, SendTypes
  <2>3. Append(m_rpcMemory[e], RpcInfoOf(e, m_nextMsgId[e])) \in Seq(RpcInfo)
    BY <2>1, RpcInfoType, AppendProperties DEF TypeOK
  <2>4. m_rpcMemory' \in [Peers -> Seq(RpcInfo)]
    BY <1>2, <2>3 DEF remoteProcedureCall, TypeOK
  <2>5. m_nextMsgId' \in [Peers -> Nat]
    BY <1>2, <2>1 DEF remoteProcedureCall, TypeOK
  <2> QED
    BY <1>2, <2>2, <2>4, <2>5 DEF remoteProcedureCall, TypeOK
<1>3. ASSUME NEW e \in Peers, TimePasses(e)
      PROVE  TypeOK'
  BY <1>3 DEF TimePasses, TypeOK
<1>4. ASSUME NEW e \in Peers, ReceiveAny(e)
      PROVE  TypeOK'
  BY <1>4, ReceiveTypes DEF ReceiveAny
<1>5. ASSUME NEW e \in Peers, AckStep(e)
      PROVE  TypeOK'
  <2>0. AtEntry(e)
    BY <1>5 DEF AckStep, EraseAcknowledged, Resend, Keep
  <2>1. /\ m_rpcMemory[e] \in Seq(RpcInfo)
        /\ it[e] \in 1..Len(m_rpcMemory[e])
        /\ Entry(e) \in RpcInfo
        /\ Len(m_rpcMemory[e]) \in Nat
    BY <2>0, EntryType
  <2>2. Entry(e).msgId \in Nat
    BY <2>1 DEF RpcInfo
  <2>3. CASE EraseAcknowledged(e)
    <3>1. RemoveAt(m_rpcMemory[e], it[e]) \in Seq(RpcInfo)
      BY <2>1, RemoveAtProperties
    <3>2. Successor(it[e], Len(m_rpcMemory[e]) - 1) \in Nat
      <4>1. it[e] \in Nat /\ Len(m_rpcMemory[e]) - 1 \in Nat
        BY <2>1
      <4> QED
        BY <4>1, SuccessorType
    <3> QED
      BY <2>2, <2>3, <3>1, <3>2 DEF EraseAcknowledged, TypeOK
  <2>4. CASE Resend(e)
    <3>1. RemoveAt(Append(m_rpcMemory[e], RpcInfoOf(e, Entry(e).msgId)), it[e])
            \in Seq(RpcInfo)
      BY <2>1, <2>2, RpcInfoType, AppendThenRemoveAt
    <3>2. Successor(it[e], Len(m_rpcMemory[e])) \in Nat
      BY <2>1, SuccessorType
    <3>3. /\ m_seqId' \in [Peers -> SeqIds]
          /\ net' \subseteq Package
          /\ sent' \in [Peers -> Nat]
      BY <2>2, <2>4, SendTypes DEF Resend
    <3> QED
      BY <2>4, <3>1, <3>2, <3>3 DEF Resend, TypeOK
  <2>5. CASE Keep(e)
    <3>1. Successor(it[e], Len(m_rpcMemory[e])) \in Nat
      BY <2>1, SuccessorType
    <3> QED
      BY <2>5, <3>1 DEF Keep, TypeOK
  <2> QED
    BY <1>5, <2>3, <2>4, <2>5 DEF AckStep
<1>6. ASSUME NEW e \in Peers, Dispatch(e)
      PROVE  TypeOK'
  BY <1>6 DEF Dispatch, TypeOK
<1>7. CASE UNCHANGED vars
  BY <1>7 DEF vars, TypeOK
<1> QED
  BY <1>1, <1>2, <1>3, <1>4, <1>5, <1>6, <1>7 DEF Next

LEMMA InitTypes == Init => TypeOK
<1> SUFFICES ASSUME Init
             PROVE  TypeOK
  OBVIOUS
<1>1. 0 \in SeqIds /\ {} \subseteq AckBits /\ <<>> \in Seq(RpcInfo)
  BY SeqIdAssumption, EmptySeq DEF SeqIds
<1> QED
  BY <1>1 DEF Init, TypeOK

(* Every variable keeps its type: ids stay in the id space although they   *)
(* wrap, masks have no bit beyond NUM_ACKS, and the memory is a list of    *)
(* well-formed entries after every erase and push_back                     *)
(* (udpconnection.h:116-188).                                              *)
THEOREM TypeCorrect == Spec => []TypeOK
<1>1. Init => TypeOK
  BY InitTypes
<1>2. TypeOK /\ [Next]_vars => TypeOK'
  BY StepTypes
<1> QED
  BY <1>1, <1>2, PTL DEF Spec

----------------------------------------------------------------------------
(***************************************************************************)
(* The memory and the wire.  The invariants about the memory hold because  *)
(* of what is known about each end: its entries are ordered and distinct,  *)
(* carry numbers already given out, and cover every call not forgotten;    *)
(* and every package that carries a call has timed out, or carries a call  *)
(* that is forgotten, or is the one its entry remembers.                   *)
(***************************************************************************)
Mem(e, i) == m_rpcMemory[e][i]

EntriesInv(e) ==
  /\ \A i \in Positions(e) : /\ Mem(e, i).sentAt < sent[e]
                             /\ Mem(e, i).msgId < m_nextMsgId[e]
                             /\ Mem(e, i).msgId \notin forgotten[e]
  /\ \A i, j \in Positions(e) : i < j => Mem(e, i).sentAt < Mem(e, j).sentAt
  /\ \A i, j \in Positions(e) : Mem(e, i).msgId = Mem(e, j).msgId => i = j

CallsInv(e) ==
  /\ \A n \in forgotten[e] : n < m_nextMsgId[e]
  /\ \A n \in Nat : n < m_nextMsgId[e] =>
        n \in forgotten[e] \/ \E i \in Positions(e) : Mem(e, i).msgId = n

WireInv(e) ==
  \A p \in net : p.to = Other(e) =>
    /\ p.no < sent[e]
    /\ \A n \in p.rpc :
         /\ n < m_nextMsgId[e]
         /\ \/ p.no < lapsed[e]
            \/ n \in forgotten[e]
            \/ \E i \in Positions(e) : Mem(e, i).sentAt = p.no /\ Mem(e, i).msgId = n

MatchInv(e) ==
  \A i \in Positions(e) : \E p \in net :
    /\ p.to = Other(e) /\ p.rpc = {Mem(e, i).msgId}
    /\ p.no = Mem(e, i).sentAt /\ p.seqId = Mem(e, i).seqId

ResendInv(e) ==
  \A p, q \in net :
    /\ p.to = Other(e) /\ q.to = Other(e)
    /\ p.rpc = q.rpc /\ p.rpc # {} /\ p.no < q.no
    => p.no < lapsed[e]

EndInv(e) == EntriesInv(e) /\ CallsInv(e) /\ WireInv(e) /\ MatchInv(e) /\ ResendInv(e)
IInv == TypeOK /\ \A e \in Peers : EndInv(e)

(* A step that leaves an end's memory and its packages alone keeps what is *)
(* known of that end; more of its packages may have timed out.             *)
SameEnd(e) ==
  /\ m_rpcMemory'[e] = m_rpcMemory[e] /\ m_nextMsgId'[e] = m_nextMsgId[e]
  /\ sent'[e] = sent[e] /\ forgotten'[e] = forgotten[e]
  /\ lapsed[e] <= lapsed'[e]
  /\ net \subseteq net' /\ \A p \in net' : p.to = Other(e) => p \in net

LEMMA SameEndKeepsInv ==
  ASSUME TypeOK, TypeOK', NEW e \in Peers, EndInv(e), SameEnd(e)
  PROVE  EndInv(e)'
<1>1. /\ Positions(e)' = Positions(e)
      /\ \A i \in Positions(e) : Mem(e, i)' = Mem(e, i)
  BY DEF SameEnd, Positions, Mem
<1>2. EntriesInv(e)' /\ CallsInv(e)'
  BY <1>1 DEF EndInv, EntriesInv, CallsInv, SameEnd
<1>3. lapsed[e] \in Nat /\ lapsed'[e] \in Nat /\ \A p \in net : p.no \in Nat
  BY DEF TypeOK, Package
<1>4. WireInv(e)'
  BY <1>1, <1>3 DEF EndInv, WireInv, SameEnd
<1>5. MatchInv(e)'
  BY <1>1 DEF EndInv, MatchInv, SameEnd
<1>6. ResendInv(e)'
  BY <1>3 DEF EndInv, ResendInv, SameEnd
<1> QED
  BY <1>2, <1>4, <1>5, <1>6 DEF EndInv

(* What a step of one end does to the other. *)
LEMMA OtherEndSame ==
  ASSUME TypeOK, NEW e \in Peers, NEW f \in Peers, f # e,
         \/ e = Server /\ SendState
         \/ remoteProcedureCall(e) \/ EraseAcknowledged(e) \/ Resend(e)
  PROVE  SameEnd(f)
<1>1. Other(e) # Other(f)
  BY PeersFacts
<1>2. /\ m_rpcMemory'[f] = m_rpcMemory[f] /\ m_nextMsgId'[f] = m_nextMsgId[f]
      /\ sent'[f] = sent[f] /\ forgotten'[f] = forgotten[f] /\ lapsed' = lapsed
  BY DEF TypeOK, SendState, remoteProcedureCall, EraseAcknowledged, Resend, sendPackage
<1>3. net' = net \/ \E rpc : net' = net \cup {PackageFrom(e, rpc)}
  BY DEF SendState, remoteProcedureCall, EraseAcknowledged, Resend, sendPackage
<1>4. \A rpc : PackageFrom(e, rpc).to = Other(e)
  BY DEF PackageFrom
<1>5. lapsed[f] <= lapsed'[f]
  BY <1>2 DEF TypeOK
<1> QED
  BY <1>1, <1>2, <1>3, <1>4, <1>5 DEF SameEnd

(* The package a step sends, as the lemmas below use it. *)
LEMMA PackageFields ==
  ASSUME NEW e, NEW rpc
  PROVE  /\ PackageFrom(e, rpc).to = Other(e)
         /\ PackageFrom(e, rpc).no = sent[e]
         /\ PackageFrom(e, rpc).seqId = m_seqId[e]
         /\ PackageFrom(e, rpc).rpc = rpc
BY DEF PackageFrom

LEMMA NumberFacts ==
  ASSUME TypeOK, NEW e \in Peers
  PROVE  /\ sent[e] \in Nat /\ m_nextMsgId[e] \in Nat /\ lapsed[e] \in Nat
         /\ Len(m_rpcMemory[e]) \in Nat
         /\ \A i \in Positions(e) : /\ Mem(e, i) \in RpcInfo
                                    /\ Mem(e, i).sentAt \in Nat
                                    /\ Mem(e, i).msgId \in Nat
         /\ \A p \in net : p.no \in Nat /\ p.rpc \subseteq Nat
         /\ forgotten[e] \subseteq Nat
<1>1. m_rpcMemory[e] \in Seq(RpcInfo)
  BY DEF TypeOK
<1>2. Len(m_rpcMemory[e]) \in Nat /\ \A i \in Positions(e) : Mem(e, i) \in RpcInfo
  BY <1>1, LenProperties, ElementOfSeq DEF Positions, Mem
<1> QED
  BY <1>2 DEF TypeOK, RpcInfo, Package

(* A package without a call changes nothing but the number of packages. *)
LEMMA SendStateKeepsInv ==
  ASSUME TypeOK, EndInv(Server), SendState
  PROVE  EndInv(Server)'
<1> DEFINE e == Server
           P == PackageFrom(e, {})
<1>0. e \in Peers
  BY PeersFacts
<1>1. /\ Positions(e)' = Positions(e)
      /\ \A i \in Positions(e) : Mem(e, i)' = Mem(e, i)
      /\ m_nextMsgId' = m_nextMsgId /\ forgotten' = forgotten /\ lapsed' = lapsed
      /\ net' = net \cup {P} /\ sent'[e] = sent[e] + 1
  BY <1>0 DEF SendState, sendPackage, Positions, Mem, TypeOK
<1>2. P.to = Other(e) /\ P.no = sent[e] /\ P.rpc = {}
  BY PackageFields
<1> HIDE DEF P, e
<1>3. EntriesInv(e)' /\ CallsInv(e)'
  BY <1>0, <1>1, NumberFacts DEF EndInv, EntriesInv, CallsInv, e
<1>4. WireInv(e)'
  BY <1>0, <1>1, <1>2, NumberFacts DEF EndInv, WireInv, e
<1>5. MatchInv(e)'
  BY <1>1 DEF EndInv, MatchInv, e
<1>6. ResendInv(e)'
  BY <1>1, <1>2 DEF EndInv, ResendInv, e
<1> QED
  BY <1>3, <1>4, <1>5, <1>6 DEF EndInv, e

(* A new call has a message id and a package number that none has yet. *)
LEMMA CallKeepsInv ==
  ASSUME TypeOK, NEW e \in Peers, EndInv(e), remoteProcedureCall(e)
  PROVE  EndInv(e)'
<1>1. PICK k \in Nat, m \in Nat, n \in Nat, P \in {PackageFrom(e, {m_nextMsgId[e]})} :
        k = Len(m_rpcMemory[e]) /\ m = m_nextMsgId[e] /\ n = sent[e]
  BY NumberFacts
<1>2. /\ m_nextMsgId'[e] = m + 1 /\ forgotten' = forgotten /\ lapsed' = lapsed
      /\ net' = net \cup {P} /\ sent'[e] = n + 1
  BY <1>1 DEF remoteProcedureCall, sendPackage, TypeOK
<1>3. P.to = Other(e) /\ P.no = n /\ P.rpc = {m} /\ P.seqId = m_seqId[e]
  BY <1>1, PackageFields
<1>4. /\ Positions(e) = 1..k /\ Positions(e)' = 1..(k + 1)
      /\ \A i \in 1..k : Mem(e, i)' = Mem(e, i)
      /\ Mem(e, k + 1)' = RpcInfoOf(e, m)
  <2>1. m_rpcMemory[e] \in Seq(RpcInfo) /\ RpcInfoOf(e, m) \in RpcInfo
    BY RpcInfoType DEF TypeOK
  <2>2. m_rpcMemory'[e] = Append(m_rpcMemory[e], RpcInfoOf(e, m))
    BY <1>1 DEF remoteProcedureCall, TypeOK
  <2>3. /\ Len(m_rpcMemory'[e]) = k + 1
        /\ \A i \in 1..k : m_rpcMemory'[e][i] = m_rpcMemory[e][i]
        /\ m_rpcMemory'[e][k + 1] = RpcInfoOf(e, m)
    BY <1>1, <2>1, <2>2, AppendProperties
  <2> QED
    BY <1>1, <2>3 DEF Positions, Mem
<1>5. /\ Mem(e, k + 1)'.msgId = m /\ Mem(e, k + 1)'.sentAt = n
      /\ Mem(e, k + 1)'.seqId = m_seqId[e]
  BY <1>1, <1>4 DEF RpcInfoOf
<1>6. /\ \A i \in 1..k : /\ Mem(e, i).sentAt \in Nat /\ Mem(e, i).sentAt < n
                         /\ Mem(e, i).msgId \in Nat /\ Mem(e, i).msgId < m
                         /\ Mem(e, i).msgId \notin forgotten[e]
      /\ m \notin forgotten[e]
      /\ \A p \in net : p.no \in Nat /\ p.rpc \subseteq Nat
  BY <1>1, <1>4, NumberFacts DEF EndInv, EntriesInv, CallsInv
<1>7. \A i \in 1..(k + 1) : i \in 1..k \/ i = k + 1
  OBVIOUS
<1>8. EntriesInv(e)'
  <2>1. /\ \A i, j \in 1..k : i < j => Mem(e, i).sentAt < Mem(e, j).sentAt
        /\ \A i, j \in 1..k : Mem(e, i).msgId = Mem(e, j).msgId => i = j
    BY <1>4 DEF EndInv, EntriesInv
  <2>2. \A i \in 1..(k + 1) : /\ Mem(e, i)'.sentAt < n + 1
                              /\ Mem(e, i)'.msgId < m + 1
                              /\ Mem(e, i)'.msgId \notin forgotten[e]
    BY <1>4, <1>5, <1>6, <1>7
  <2>3. ASSUME NEW i \in 1..(k + 1), NEW j \in 1..(k + 1), i < j
        PROVE  Mem(e, i)'.sentAt < Mem(e, j)'.sentAt
    <3>1. i \in 1..k
      BY <2>3
    <3>2. CASE j \in 1..k
      <4>1. Mem(e, i).sentAt < Mem(e, j).sentAt
        BY <2>1, <2>3, <3>1, <3>2
      <4> QED
        BY <1>4, <3>1, <3>2, <4>1
    <3>3. CASE j = k + 1
      <4>1. Mem(e, i)'.sentAt < n
        BY <1>4, <1>6, <3>1
      <4> QED
        BY <1>5, <3>3, <4>1
    <3> QED
      BY <1>7, <3>2, <3>3
  <2>4. \A i, j \in 1..(k + 1) : Mem(e, i)'.msgId = Mem(e, j)'.msgId => i = j
    BY <1>4, <1>5, <1>6, <1>7, <2>1
  <2> QED
    BY <1>2, <1>4, <2>2, <2>3, <2>4 DEF EntriesInv
<1>9. \A i \in Positions(e) : i \in Positions(e)' /\ Mem(e, i)' = Mem(e, i)
  BY <1>4
<1>10. CallsInv(e)'
  <2>1. \A x \in Nat : x < m + 1 => x < m \/ x = m
    OBVIOUS
  <2> QED
    BY <1>1, <1>2, <1>4, <1>5, <1>9, <2>1, NumberFacts DEF EndInv, CallsInv
<1>11. k + 1 \in Positions(e)'
  BY <1>4
<1>12. WireInv(e)'
  <2> SUFFICES ASSUME NEW p \in net', p.to = Other(e)
               PROVE  /\ p.no < n + 1
                      /\ \A x \in p.rpc :
                           /\ x < m + 1
                           /\ \/ p.no < lapsed[e]
                              \/ x \in forgotten[e]
                              \/ \E i \in Positions(e)' :
                                    Mem(e, i)'.sentAt = p.no /\ Mem(e, i)'.msgId = x
    BY <1>2 DEF WireInv
  <2>1. CASE p \in net
    <3>1. p.no < n /\ p.no \in Nat
      BY <1>1, <1>6, <2>1 DEF EndInv, WireInv
    <3>2. ASSUME NEW x \in p.rpc
          PROVE  /\ x < m + 1
                 /\ \/ p.no < lapsed[e]
                    \/ x \in forgotten[e]
                    \/ \E i \in Positions(e)' :
                          Mem(e, i)'.sentAt = p.no /\ Mem(e, i)'.msgId = x
      <4>1. /\ x \in Nat /\ x < m
            /\ \/ p.no < lapsed[e]
               \/ x \in forgotten[e]
               \/ \E i \in Positions(e) : Mem(e, i).sentAt = p.no /\ Mem(e, i).msgId = x
        BY <1>1, <1>6, <2>1 DEF EndInv, WireInv
      <4> QED
        BY <4>1, <1>9
    <3> QED
      BY <3>1, <3>2
  <2>2. CASE p = P
    BY <1>3, <1>5, <1>11, <2>2
  <2> QED
    BY <1>2, <2>1, <2>2
<1>13. MatchInv(e)'
  <2> SUFFICES ASSUME NEW i \in 1..(k + 1)
               PROVE  \E p \in net' : /\ p.to = Other(e) /\ p.rpc = {Mem(e, i)'.msgId}
                                     /\ p.no = Mem(e, i)'.sentAt
                                     /\ p.seqId = Mem(e, i)'.seqId
    BY <1>4 DEF MatchInv
  <2>1. CASE i \in 1..k
    <3>1. \E p \in net : /\ p.to = Other(e) /\ p.rpc = {Mem(e, i).msgId}
                        /\ p.no = Mem(e, i).sentAt /\ p.seqId = Mem(e, i).seqId
      BY <1>4, <2>1 DEF EndInv, MatchInv
    <3> QED
      BY <1>2, <1>4, <2>1, <3>1
  <2>2. CASE i = k + 1
    BY <1>2, <1>3, <1>5, <2>2
  <2> QED
    BY <1>7, <2>1, <2>2
<1>14. ResendInv(e)'
  <2>1. \A p \in net : p.to = Other(e) => p.no < n /\ m \notin p.rpc
    BY <1>1, <1>6 DEF EndInv, WireInv
  <2>2. ASSUME NEW p \in net', NEW q \in net', p.to = Other(e), q.to = Other(e),
               p.rpc = q.rpc, p.rpc # {}, p.no < q.no
        PROVE  p.no < lapsed[e]
    <3>1. CASE p \in net /\ q \in net
      BY <2>2, <3>1 DEF EndInv, ResendInv
    <3>2. CASE p = P /\ q \in net
      BY <1>3, <2>1, <2>2, <3>2
    <3>3. CASE p \in net /\ q = P
      BY <1>3, <2>1, <2>2, <3>3
    <3>4. CASE p = P /\ q = P
      BY <1>3, <2>2, <3>4
    <3> QED
      BY <1>2, <3>1, <3>2, <3>3, <3>4
  <2> QED
    BY <1>2, <2>2 DEF ResendInv
<1> QED
  BY <1>8, <1>10, <1>12, <1>13, <1>14 DEF EndInv

(* Where the entries that remain after an erase at c come from. *)
Origin(k, c, old) ==
  /\ \A i \in 1..(k - 1) : old[i] = IF i < c THEN i ELSE i + 1
  /\ \A i \in 1..(k - 1) : old[i] \in 1..k /\ old[i] # c
  /\ \A i, j \in 1..(k - 1) : i < j <=> old[i] < old[j]
  /\ \A n \in 1..k : n # c => \E i \in 1..(k - 1) : old[i] = n

LEMMA PositionsAfterErase ==
  ASSUME NEW k \in Nat, NEW c \in 1..k
  PROVE  \E old \in [1..(k - 1) -> 1..k] : Origin(k, c, old)
<1> DEFINE old == [i \in 1..(k - 1) |-> IF i < c THEN i ELSE i + 1]
<1>1. /\ old \in [1..(k - 1) -> 1..k]
      /\ \A i \in 1..(k - 1) : old[i] = IF i < c THEN i ELSE i + 1
  OBVIOUS
<1> HIDE DEF old
<1>2. \A i, j \in 1..(k - 1) : i < j <=> old[i] < old[j]
  BY <1>1
<1>3. \A i \in 1..(k - 1) : old[i] \in 1..k /\ old[i] # c
  BY <1>1
<1>4. ASSUME NEW n \in 1..k, n # c
      PROVE  \E i \in 1..(k - 1) : old[i] = n
  <2>1. CASE n < c
    <3>1. n \in 1..(k - 1) /\ old[n] = n
      BY <1>1, <2>1
    <3> QED
      BY <3>1
  <2>2. CASE n > c
    <3>1. n - 1 \in 1..(k - 1) /\ ~(n - 1 < c) /\ (n - 1) + 1 = n
      BY <2>2
    <3>2. old[n - 1] = n
      BY <1>1, <3>1
    <3> QED
      BY <3>1, <3>2
  <2> QED
    BY <1>4, <2>1, <2>2
<1> QED
  BY <1>1, <1>2, <1>3, <1>4 DEF Origin

(* Erasing an acknowledged call moves it from the memory to forgotten. *)
LEMMA EraseKeepsInv ==
  ASSUME TypeOK, NEW e \in Peers, EndInv(e), EraseAcknowledged(e)
  PROVE  EndInv(e)'
<1>1. PICK k \in Nat, c \in Nat : c \in 1..k /\
        k = Len(m_rpcMemory[e]) /\ c = it[e] /\ Positions(e) = 1..k
  BY NumberFacts DEF EraseAcknowledged, AtEntry, Positions
<1>2. PICK m \in Nat : m = Mem(e, c).msgId
  BY <1>1, NumberFacts
<1>3. /\ m_nextMsgId' = m_nextMsgId /\ forgotten'[e] = forgotten[e] \cup {m}
      /\ lapsed' = lapsed /\ net' = net /\ sent' = sent
  BY <1>1, <1>2 DEF EraseAcknowledged, TypeOK, Entry, Mem
<1>4. PICK old \in [1..(k - 1) -> 1..k] : Origin(k, c, old)
  BY <1>1, PositionsAfterErase
<1>5. Positions(e)' = 1..(k - 1) /\ \A i \in 1..(k - 1) : Mem(e, i)' = Mem(e, old[i])
  <2>1. m_rpcMemory[e] \in Seq(RpcInfo)
    BY DEF TypeOK
  <2>2. m_rpcMemory'[e] = RemoveAt(m_rpcMemory[e], c)
    BY <1>1 DEF EraseAcknowledged, TypeOK
  <2>3. /\ Len(m_rpcMemory'[e]) = k - 1
        /\ \A i \in 1..(k - 1) :
             m_rpcMemory'[e][i] = IF i < c THEN m_rpcMemory[e][i] ELSE m_rpcMemory[e][i + 1]
    <3>1. /\ Len(RemoveAt(m_rpcMemory[e], c)) = Len(m_rpcMemory[e]) - 1
          /\ \A i \in 1..(Len(m_rpcMemory[e]) - 1) : RemoveAt(m_rpcMemory[e], c)[i]
               = IF i < c THEN m_rpcMemory[e][i] ELSE m_rpcMemory[e][i + 1]
      BY <1>1, <2>1, RemoveAtProperties
    <3> QED
      BY <1>1, <2>2, <3>1
  <2>4. \A i \in 1..(k - 1) : m_rpcMemory'[e][i] = m_rpcMemory[e][old[i]]
    BY <1>4, <2>3 DEF Origin
  <2> QED
    BY <2>3, <2>4 DEF Positions, Mem
<1>6. EntriesInv(e)'
  <2>1. /\ \A i \in 1..k : /\ Mem(e, i).sentAt < sent[e]
                           /\ Mem(e, i).msgId < m_nextMsgId[e]
                           /\ Mem(e, i).msgId \notin forgotten[e]
        /\ \A i, j \in 1..k : i < j => Mem(e, i).sentAt < Mem(e, j).sentAt
        /\ \A i, j \in 1..k : Mem(e, i).msgId = Mem(e, j).msgId => i = j
    BY <1>1 DEF EndInv, EntriesInv
  <2>2. \A i \in 1..(k - 1) : Mem(e, i)'.msgId # m
    <3>1. \A i \in 1..k : i # c => Mem(e, i).msgId # m
      BY <1>1, <1>2, <2>1
    <3> QED
      BY <1>4, <1>5, <3>1 DEF Origin
  <2>3. \A i \in 1..(k - 1) : /\ Mem(e, i)'.sentAt < sent[e]
                              /\ Mem(e, i)'.msgId < m_nextMsgId[e]
                              /\ Mem(e, i)'.msgId \notin forgotten'[e]
    BY <1>3, <1>4, <1>5, <2>1, <2>2 DEF Origin
  <2>4. ASSUME NEW i \in 1..(k - 1), NEW j \in 1..(k - 1), i < j
        PROVE  Mem(e, i)'.sentAt < Mem(e, j)'.sentAt
    <3>1. old[i] \in 1..k /\ old[j] \in 1..k /\ old[i] < old[j]
      BY <1>4, <2>4 DEF Origin
    <3>2. Mem(e, old[i]).sentAt < Mem(e, old[j]).sentAt
      BY <2>1, <3>1
    <3> QED
      BY <1>5, <3>2
  <2>5. \A i, j \in 1..(k - 1) : Mem(e, i)'.msgId = Mem(e, j)'.msgId => i = j
    <3>1. \A i, j \in 1..(k - 1) : old[i] = old[j] => i = j
      BY <1>4 DEF Origin
    <3> QED
      BY <1>4, <1>5, <2>1, <3>1 DEF Origin
  <2> QED
    BY <1>3, <1>5, <2>3, <2>4, <2>5 DEF EntriesInv
<1>7. \A i \in Positions(e) : i # c => \E j \in Positions(e)' : Mem(e, j)' = Mem(e, i)
  <2>1. ASSUME NEW i \in 1..k, i # c
        PROVE  \E j \in 1..(k - 1) : Mem(e, j)' = Mem(e, i)
    <3>1. PICK j \in 1..(k - 1) : old[j] = i
      BY <1>4, <2>1 DEF Origin
    <3> QED
      BY <1>5, <3>1
  <2> QED
    BY <1>1, <1>5, <2>1
<1>8. CallsInv(e)'
  BY <1>1, <1>2, <1>3, <1>7 DEF EndInv, CallsInv, EntriesInv
<1>9. WireInv(e)'
  BY <1>1, <1>2, <1>3, <1>7 DEF EndInv, WireInv
<1>10. MatchInv(e)'
  <2>1. \A i \in 1..k : \E p \in net :
           /\ p.to = Other(e) /\ p.rpc = {Mem(e, i).msgId}
           /\ p.no = Mem(e, i).sentAt /\ p.seqId = Mem(e, i).seqId
    BY <1>1 DEF EndInv, MatchInv
  <2>2. \A i \in 1..(k - 1) : \E p \in net :
           /\ p.to = Other(e) /\ p.rpc = {Mem(e, i)'.msgId}
           /\ p.no = Mem(e, i)'.sentAt /\ p.seqId = Mem(e, i)'.seqId
    <3> SUFFICES ASSUME NEW i \in 1..(k - 1)
                 PROVE  \E p \in net :
                          /\ p.to = Other(e) /\ p.rpc = {Mem(e, i)'.msgId}
                          /\ p.no = Mem(e, i)'.sentAt /\ p.seqId = Mem(e, i)'.seqId
      OBVIOUS
    <3>1. old[i] \in 1..k /\ Mem(e, i)' = Mem(e, old[i])
      BY <1>4, <1>5 DEF Origin
    <3> QED
      BY <2>1, <3>1
  <2> QED
    BY <1>3, <1>5, <2>2 DEF MatchInv
<1>11. ResendInv(e)'
  BY <1>3 DEF EndInv, ResendInv
<1> QED
  BY <1>6, <1>8, <1>9, <1>10, <1>11 DEF EndInv

(* Sending a call again removes its entry and appends a new one for a      *)
(* package number that none has yet; the old package has timed out.        *)
LEMMA ResendKeepsInv ==
  ASSUME TypeOK, NEW e \in Peers, EndInv(e), Resend(e)
  PROVE  EndInv(e)'
<1>1. PICK k \in Nat, c \in Nat, n \in Nat : c \in 1..k /\
        k = Len(m_rpcMemory[e]) /\ c = it[e] /\ Positions(e) = 1..k /\ n = sent[e]
  BY NumberFacts DEF Resend, AtEntry, Positions
<1>2. PICK m \in Nat, P \in {PackageFrom(e, {Entry(e).msgId})} :
        m = Mem(e, c).msgId /\ m = Entry(e).msgId
  BY <1>1, NumberFacts DEF Entry, Mem
<1>3. /\ m_nextMsgId' = m_nextMsgId /\ forgotten' = forgotten /\ lapsed' = lapsed
      /\ net' = net \cup {P} /\ sent'[e] = n + 1
  BY <1>1, <1>2 DEF Resend, sendPackage, TypeOK
<1>4. P.to = Other(e) /\ P.no = n /\ P.rpc = {m} /\ P.seqId = m_seqId[e]
  BY <1>1, <1>2, PackageFields
<1>5. PICK old \in [1..(k - 1) -> 1..k] : Origin(k, c, old)
  BY <1>1, PositionsAfterErase
<1>6. /\ Positions(e)' = 1..k
      /\ \A i \in 1..(k - 1) : Mem(e, i)' = Mem(e, old[i])
      /\ Mem(e, k)' = RpcInfoOf(e, m)
  <2>1. m_rpcMemory[e] \in Seq(RpcInfo) /\ RpcInfoOf(e, m) \in RpcInfo
    BY RpcInfoType DEF TypeOK
  <2>2. m_rpcMemory'[e] = RemoveAt(Append(m_rpcMemory[e], RpcInfoOf(e, m)), c)
    BY <1>1, <1>2 DEF Resend, TypeOK
  <2>3. /\ Len(m_rpcMemory'[e]) = Len(m_rpcMemory[e])
        /\ \A i \in 1..Len(m_rpcMemory[e]) : m_rpcMemory'[e][i]
             = IF i < c THEN m_rpcMemory[e][i]
               ELSE IF i < Len(m_rpcMemory[e]) THEN m_rpcMemory[e][i + 1]
               ELSE RpcInfoOf(e, m)
    <3>1. PICK s \in Seq(RpcInfo), x \in RpcInfo :
            s = m_rpcMemory[e] /\ x = RpcInfoOf(e, m) /\ c \in 1..Len(s)
      BY <1>1, <2>1
    <3>2. /\ Len(RemoveAt(Append(s, x), c)) = Len(s)
          /\ \A j \in 1..Len(s) : RemoveAt(Append(s, x), c)[j]
               = IF j < c THEN s[j] ELSE IF j < Len(s) THEN s[j + 1] ELSE x
      BY <3>1, AppendThenRemoveAt
    <3> QED
      BY <2>2, <3>1, <3>2
  <2>4. ASSUME NEW i \in 1..(k - 1)
        PROVE  m_rpcMemory'[e][i] = m_rpcMemory[e][old[i]]
    <3>1. old[i] = IF i < c THEN i ELSE i + 1
      BY <1>5 DEF Origin
    <3>2. /\ i \in 1..Len(m_rpcMemory[e])
          /\ i < Len(m_rpcMemory[e])
      BY <1>1
    <3>3. m_rpcMemory'[e][i]
            = IF i < c THEN m_rpcMemory[e][i] ELSE m_rpcMemory[e][i + 1]
      BY <2>3, <3>2
    <3> QED
      BY <3>1, <3>3
  <2>5. m_rpcMemory'[e][k] = RpcInfoOf(e, m)
    BY <1>1, <2>3
  <2> QED
    BY <1>1, <2>3, <2>4, <2>5 DEF Positions, Mem
<1>7. Mem(e, k)'.msgId = m /\ Mem(e, k)'.sentAt = n /\ Mem(e, k)'.seqId = m_seqId[e]
  BY <1>1, <1>6 DEF RpcInfoOf
<1>8. \A i \in 1..k : i \in 1..(k - 1) \/ i = k
  BY <1>1
<1>9. \A i \in 1..(k - 1) : old[i] \in 1..k /\ old[i] # c /\ Mem(e, i)' = Mem(e, old[i])
  BY <1>5, <1>6 DEF Origin
<1>10. /\ \A i \in 1..k : /\ Mem(e, i).sentAt \in Nat /\ Mem(e, i).sentAt < n
                          /\ Mem(e, i).msgId < m_nextMsgId[e]
                          /\ Mem(e, i).msgId \notin forgotten[e]
                          /\ i # c => Mem(e, i).msgId # m
       /\ \A i, j \in 1..k : i < j => Mem(e, i).sentAt < Mem(e, j).sentAt
       /\ \A i, j \in 1..k : Mem(e, i).msgId = Mem(e, j).msgId => i = j
  BY <1>1, <1>2, NumberFacts DEF EndInv, EntriesInv
<1>11. Mem(e, c).sentAt < lapsed[e] /\ \A p \in net : p.no \in Nat
  BY <1>1, NumberFacts DEF Resend, TimedOut, Entry, Mem
<1>12. EntriesInv(e)'
  <2>1. \A i \in 1..k : /\ Mem(e, i)'.sentAt < n + 1
                        /\ Mem(e, i)'.msgId < m_nextMsgId[e]
                        /\ Mem(e, i)'.msgId \notin forgotten[e]
    <3>1. ASSUME NEW i \in 1..(k - 1)
          PROVE  /\ Mem(e, i)'.sentAt < n + 1
                 /\ Mem(e, i)'.msgId < m_nextMsgId[e]
                 /\ Mem(e, i)'.msgId \notin forgotten[e]
      BY <1>9, <1>10
    <3>2. /\ Mem(e, k)'.sentAt < n + 1
          /\ Mem(e, k)'.msgId < m_nextMsgId[e]
          /\ Mem(e, k)'.msgId \notin forgotten[e]
      <4>1. m < m_nextMsgId[e] /\ m \notin forgotten[e]
        BY <1>1, <1>2, <1>10
      <4> QED
        BY <1>1, <1>7, <4>1
    <3> QED
      BY <1>8, <3>1, <3>2
  <2>2. ASSUME NEW i \in 1..k, NEW j \in 1..k, i < j
        PROVE  Mem(e, i)'.sentAt < Mem(e, j)'.sentAt
    <3>1. i \in 1..(k - 1)
      BY <2>2
    <3>2. CASE j \in 1..(k - 1)
      <4>1. old[i] < old[j]
        BY <1>5, <2>2, <3>1, <3>2 DEF Origin
      <4> QED
        BY <1>9, <1>10, <3>1, <3>2, <4>1
    <3>3. CASE j = k
      BY <1>7, <1>9, <1>10, <3>1, <3>3
    <3> QED
      BY <1>8, <3>2, <3>3
  <2>3. ASSUME NEW i \in 1..k, NEW j \in 1..k, Mem(e, i)'.msgId = Mem(e, j)'.msgId
        PROVE  i = j
    <3>1. CASE i \in 1..(k - 1) /\ j \in 1..(k - 1)
      <4>1. old[i] = old[j]
        BY <1>9, <1>10, <2>3, <3>1
      <4>2. ~(i < j) /\ ~(j < i)
        BY <1>5, <1>9, <3>1, <4>1 DEF Origin
      <4> QED
        BY <4>2
    <3>2. \A x \in 1..(k - 1) : Mem(e, x)'.msgId # Mem(e, k)'.msgId
      BY <1>7, <1>9, <1>10
    <3> QED
      BY <1>8, <2>3, <3>1, <3>2
  <2> QED
    BY <1>3, <1>6, <2>1, <2>2, <2>3 DEF EntriesInv
<1>13. \A i \in 1..k : i # c => \E j \in 1..k : Mem(e, j)' = Mem(e, i)
  <2>1. \A i \in 1..(k - 1) : i \in 1..k
    OBVIOUS
  <2> QED
    BY <1>5, <1>9, <2>1 DEF Origin
<1>14. k \in 1..k
  BY <1>1
<1>15. CallsInv(e)'
  <2>1. \A x \in forgotten[e] : x < m_nextMsgId[e]
    BY DEF EndInv, CallsInv
  <2>2. ASSUME NEW x \in Nat, x < m_nextMsgId[e], x \notin forgotten[e]
        PROVE  \E j \in 1..k : Mem(e, j)'.msgId = x
    <3>1. PICK i \in 1..k : Mem(e, i).msgId = x
      BY <1>1, <2>2 DEF EndInv, CallsInv
    <3>2. CASE i = c
      BY <1>2, <1>7, <1>14, <3>1, <3>2
    <3>3. CASE i # c
      BY <1>13, <3>1, <3>3
    <3> QED
      BY <3>2, <3>3
  <2> QED
    BY <1>3, <1>6, <2>1, <2>2 DEF CallsInv
<1>16. WireInv(e)'
  <2> SUFFICES ASSUME NEW p \in net', p.to = Other(e)
               PROVE  /\ p.no < n + 1
                      /\ \A x \in p.rpc :
                           /\ x < m_nextMsgId[e]
                           /\ \/ p.no < lapsed[e]
                              \/ x \in forgotten[e]
                              \/ \E i \in 1..k :
                                    Mem(e, i)'.sentAt = p.no /\ Mem(e, i)'.msgId = x
    <3>1. /\ m_nextMsgId'[e] = m_nextMsgId[e] /\ lapsed'[e] = lapsed[e]
          /\ forgotten'[e] = forgotten[e] /\ sent'[e] = n + 1
          /\ Positions(e)' = 1..k
      BY <1>3, <1>6
    <3> QED
      BY <3>1 DEF WireInv
  <2>1. CASE p \in net
    <3>1. p.no < n + 1
      BY <1>1, <1>11, <2>1 DEF EndInv, WireInv
    <3>2. ASSUME NEW x \in p.rpc
          PROVE  /\ x < m_nextMsgId[e]
                 /\ \/ p.no < lapsed[e]
                    \/ x \in forgotten[e]
                    \/ \E i \in 1..k : Mem(e, i)'.sentAt = p.no /\ Mem(e, i)'.msgId = x
      <4>1. /\ x < m_nextMsgId[e]
            /\ \/ p.no < lapsed[e]
               \/ x \in forgotten[e]
               \/ \E i \in 1..k : Mem(e, i).sentAt = p.no /\ Mem(e, i).msgId = x
        BY <1>1, <2>1 DEF EndInv, WireInv
      <4>2. ASSUME NEW i \in 1..k, Mem(e, i).sentAt = p.no, Mem(e, i).msgId = x
            PROVE  \/ p.no < lapsed[e]
                   \/ \E j \in 1..k : Mem(e, j)'.sentAt = p.no /\ Mem(e, j)'.msgId = x
        BY <1>11, <1>13, <4>2
      <4> QED
        BY <4>1, <4>2
    <3> QED
      BY <3>1, <3>2
  <2>2. CASE p = P
    <3>1. p.no < n + 1
      BY <1>4, <2>2
    <3>2. m < m_nextMsgId[e]
      BY <1>1, <1>2, <1>10
    <3> QED
      BY <1>4, <1>7, <1>14, <2>2, <3>1, <3>2
  <2> QED
    BY <1>3, <2>1, <2>2
<1>17. MatchInv(e)'
  <2> SUFFICES ASSUME NEW i \in 1..k
               PROVE  \E p \in net' : /\ p.to = Other(e) /\ p.rpc = {Mem(e, i)'.msgId}
                                     /\ p.no = Mem(e, i)'.sentAt
                                     /\ p.seqId = Mem(e, i)'.seqId
    BY <1>6 DEF MatchInv
  <2>1. CASE i \in 1..(k - 1)
    <3>1. \E p \in net : /\ p.to = Other(e) /\ p.rpc = {Mem(e, old[i]).msgId}
                        /\ p.no = Mem(e, old[i]).sentAt /\ p.seqId = Mem(e, old[i]).seqId
      BY <1>1, <1>9, <2>1 DEF EndInv, MatchInv
    <3> QED
      BY <1>3, <1>9, <2>1, <3>1
  <2>2. CASE i = k
    BY <1>3, <1>4, <1>7, <2>2
  <2> QED
    BY <1>8, <2>1, <2>2
<1>18. ResendInv(e)'
  <2>1. \A p \in net : p.to = Other(e) => p.no < n
    BY <1>1 DEF EndInv, WireInv
  <2>2. ASSUME NEW p \in net, p.to = Other(e), p.rpc = {m}
        PROVE  p.no < lapsed[e]
    <3>1. \/ p.no < lapsed[e]
          \/ m \in forgotten[e]
          \/ \E i \in 1..k : Mem(e, i).sentAt = p.no /\ Mem(e, i).msgId = m
      BY <1>1, <2>2 DEF EndInv, WireInv
    <3> QED
      BY <1>1, <1>2, <1>10, <1>11, <3>1
  <2>3. ASSUME NEW p \in net', NEW q \in net', p.to = Other(e), q.to = Other(e),
               p.rpc = q.rpc, p.rpc # {}, p.no < q.no
        PROVE  p.no < lapsed[e]
    <3>1. CASE p \in net /\ q \in net
      BY <2>3, <3>1 DEF EndInv, ResendInv
    <3>2. CASE p = P /\ q \in net
      BY <1>4, <1>11, <2>1, <2>3, <3>2
    <3>3. CASE p \in net /\ q = P
      BY <1>4, <2>2, <2>3, <3>3
    <3>4. CASE p = P /\ q = P
      BY <1>4, <2>3, <3>4
    <3> QED
      BY <1>3, <3>1, <3>2, <3>3, <3>4
  <2> QED
    BY <1>3, <2>3 DEF ResendInv
<1> QED
  BY <1>12, <1>15, <1>16, <1>17, <1>18 DEF EndInv

(* Steps that neither send nor touch a memory. *)
LEMMA QuietStepSame ==
  ASSUME TypeOK, NEW f \in Peers,
         \/ \E e \in Peers : \/ TimePasses(e) \/ ReceiveAny(e)
                             \/ Keep(e) \/ Dispatch(e)
         \/ UNCHANGED vars
  PROVE  SameEnd(f)
<1>1. /\ m_rpcMemory' = m_rpcMemory /\ m_nextMsgId' = m_nextMsgId
      /\ sent' = sent /\ forgotten' = forgotten /\ net' = net
  BY DEF TimePasses, ReceiveAny, Receive, Keep, Dispatch, vars
<1>2. lapsed[f] <= lapsed'[f]
  <2>1. CASE lapsed' = lapsed
    BY <2>1, NumberFacts
  <2>2. ASSUME NEW e \in Peers, TimePasses(e)
        PROVE  lapsed[f] <= lapsed'[f]
    <3>1. PICK n \in (lapsed[e] + 1)..sent[e] : lapsed' = [lapsed EXCEPT ![e] = n]
      BY <2>2 DEF TimePasses
    <3>2. lapsed[e] \in Nat /\ lapsed[f] \in Nat /\ lapsed[e] <= n
      BY NumberFacts
    <3> QED
      BY <3>1, <3>2 DEF TypeOK
  <2> QED
    BY <2>1, <2>2 DEF ReceiveAny, Receive, Keep, Dispatch, vars
<1> QED
  BY <1>1, <1>2 DEF SameEnd

LEMMA InitInv == Init => IInv
<1> SUFFICES ASSUME Init
             PROVE  IInv
  OBVIOUS
<1>1. ASSUME NEW e \in Peers
      PROVE  EndInv(e)
  <2>1. Positions(e) = {}
    BY DEF Init, Positions
  <2>2. net = {} /\ m_nextMsgId[e] = 0 /\ forgotten[e] = {}
    BY DEF Init
  <2> QED
    BY <2>1, <2>2 DEF EndInv, EntriesInv, CallsInv, WireInv, MatchInv, ResendInv
<1> QED
  BY <1>1, InitTypes DEF IInv

LEMMA StepInv == IInv /\ [Next]_vars => IInv'
<1> SUFFICES ASSUME IInv, [Next]_vars
             PROVE  IInv'
  OBVIOUS
<1>0. TypeOK /\ TypeOK' /\ \A f \in Peers : EndInv(f)
  BY StepTypes DEF IInv
<1>1. ASSUME NEW f \in Peers, SameEnd(f)
      PROVE  EndInv(f)'
  BY <1>0, <1>1, SameEndKeepsInv
<1>2. ASSUME NEW f \in Peers
      PROVE  EndInv(f)'
  <2>1. CASE SendState
    <3>1. CASE f = Server
      BY <1>0, <2>1, <3>1, SendStateKeepsInv
    <3>2. CASE f # Server
      <4>1. SameEnd(f)
        BY <1>0, <2>1, <3>2, OtherEndSame, PeersFacts
      <4> QED
        BY <1>1, <4>1
    <3> QED
      BY <3>1, <3>2
  <2>2. ASSUME NEW e \in Peers,
               remoteProcedureCall(e) \/ EraseAcknowledged(e) \/ Resend(e)
        PROVE  EndInv(f)'
    <3>1. CASE f = e
      BY <1>0, <2>2, <3>1, CallKeepsInv, EraseKeepsInv, ResendKeepsInv
    <3>2. CASE f # e
      <4>1. SameEnd(f)
        BY <1>0, <2>2, <3>2, OtherEndSame
      <4> QED
        BY <1>1, <4>1
    <3> QED
      BY <3>1, <3>2
  <2>3. ASSUME \/ \E e \in Peers : \/ TimePasses(e) \/ ReceiveAny(e)
                                   \/ Keep(e) \/ Dispatch(e)
               \/ UNCHANGED vars
        PROVE  EndInv(f)'
    <3>1. SameEnd(f)
      BY <1>0, <2>3, QuietStepSame
    <3> QED
      BY <1>1, <3>1
  <2> QED
    BY <2>1, <2>2, <2>3 DEF Next, AckStep
<1> QED
  BY <1>0, <1>2 DEF IInv

LEMMA InvHolds == Spec => []IInv
BY InitInv, StepInv, PTL DEF Spec

(* Whatever is sent, lost, repeated or reordered: a call issued by an end  *)
(* is in its memory exactly once, or was dropped as acknowledged.  The     *)
(* erase and push_back inside the loop of processRpcAcknowledges lose and  *)
(* double nothing (udpconnection.h:171-186).                               *)
THEOREM RpcAlwaysAccountedFor == Spec => []RpcAccountedFor
<1>1. IInv => RpcAccountedFor
  <2> SUFFICES ASSUME IInv, NEW e \in Peers
               PROVE  /\ {Mem(e, i).msgId : i \in Positions(e)} \cup forgotten[e]
                           = 0..(m_nextMsgId[e] - 1)
                      /\ {Mem(e, i).msgId : i \in Positions(e)} \cap forgotten[e] = {}
                      /\ \A i, j \in Positions(e) : Mem(e, i).msgId = Mem(e, j).msgId => i = j
    BY DEF RpcAccountedFor, Mem
  <2>1. TypeOK /\ EntriesInv(e) /\ CallsInv(e)
    BY DEF IInv, EndInv
  <2>2. /\ m_nextMsgId[e] \in Nat /\ forgotten[e] \subseteq Nat
        /\ \A i \in Positions(e) : Mem(e, i).msgId \in Nat
    BY <2>1, NumberFacts
  <2>3. \A x \in 0..(m_nextMsgId[e] - 1) : x \in Nat /\ x < m_nextMsgId[e]
    BY <2>2
  <2>4. \A x \in Nat : x < m_nextMsgId[e] => x \in 0..(m_nextMsgId[e] - 1)
    BY <2>2
  <2>5. \A x \in 0..(m_nextMsgId[e] - 1) :
          x \in {Mem(e, i).msgId : i \in Positions(e)} \cup forgotten[e]
    BY <2>1, <2>3 DEF CallsInv
  <2>6. \A x \in {Mem(e, i).msgId : i \in Positions(e)} \cup forgotten[e] :
          x \in 0..(m_nextMsgId[e] - 1)
    BY <2>1, <2>2, <2>4 DEF EntriesInv, CallsInv
  <2>7. {Mem(e, i).msgId : i \in Positions(e)} \cap forgotten[e] = {}
    BY <2>1 DEF EntriesInv
  <2> QED
    BY <2>1, <2>5, <2>6, <2>7 DEF EntriesInv
<1> QED
  BY <1>1, InvHolds, PTL

(* The memory stays ordered by time of sending (udpconnection.h:162, 184). *)
THEOREM MemoryAlwaysInOrder == Spec => []MemoryInOrderOfSending
<1>1. IInv => MemoryInOrderOfSending
  BY DEF IInv, EndInv, EntriesInv, MemoryInOrderOfSending, Mem
<1> QED
  BY <1>1, InvHolds, PTL

(* An entry of the memory names the package on the wire that carries its   *)
(* call (udpconnection.h:144-164).                                         *)
THEOREM MemoryAlwaysMatchesWire == Spec => []MemoryMatchesWire
<1>1. IInv => MemoryMatchesWire
  BY DEF IInv, EndInv, MatchInv, MemoryMatchesWire, Mem
<1> QED
  BY <1>1, InvHolds, PTL

(* No call is sent a second time before its previous package has timed out *)
(* (udpconnection.h:181-185).                                              *)
THEOREM AlwaysResentAfterTimeout == Spec => []ResentOnlyAfterTimeout
<1>1. IInv => ResentOnlyAfterTimeout
  <2> SUFFICES ASSUME IInv, NEW p \in net, NEW q \in net,
                      p.to = q.to, p.rpc = q.rpc, p.rpc # {}, p.no < q.no
               PROVE  p.no < lapsed[Other(p.to)]
    BY DEF ResentOnlyAfterTimeout
  <2>1. p.to \in Peers
    BY DEF IInv, TypeOK, Package
  <2>2. Other(p.to) \in Peers /\ Other(Other(p.to)) = p.to
    BY <2>1, PeersFacts
  <2>3. ResendInv(Other(p.to))
    BY <2>2 DEF IInv, EndInv
  <2> QED
    BY <2>2, <2>3 DEF ResendInv
<1> QED
  BY <1>1, InvHolds, PTL

----------------------------------------------------------------------------
(***************************************************************************)
(* Refinement.  The calls an end has parsed were issued by its partner,    *)
(* since every package on the wire carries a call its sender has issued.   *)
(***************************************************************************)
ParsedInv == \A e \in Peers : \A n \in parsed[e] : n < m_nextMsgId[Other(e)]

(* A package carries one call or none. *)
AtMostOne(rpcs) == \A m, n \in rpcs : m = n
OneCallInv == /\ \A p \in net : AtMostOne(p.rpc)
              /\ \A e \in Peers : AtMostOne(parsed[e])

LEMMA InitParsed == Init => ParsedInv /\ OneCallInv
BY DEF Init, ParsedInv, OneCallInv, AtMostOne

LEMMA StepOneCall == TypeOK /\ OneCallInv /\ [Next]_vars => OneCallInv'
<1> SUFFICES ASSUME TypeOK, OneCallInv, [Next]_vars
             PROVE  OneCallInv'
  OBVIOUS
<1>1. ASSUME NEW p \in net'
      PROVE  AtMostOne(p.rpc)
  <2>1. CASE p \in net
    BY <2>1 DEF OneCallInv
  <2>2. CASE p \notin net
    <3>1. \E e \in Peers : \E rpc : p = PackageFrom(e, rpc) /\ AtMostOne(rpc)
      <4>1. AtMostOne({}) /\ \A n : AtMostOne({n})
        BY DEF AtMostOne
      <4> QED
        BY <2>2, <4>1, PeersFacts DEF Next, SendState, sendPackage, remoteProcedureCall,
             TimePasses, ReceiveAny, Receive, AckStep, EraseAcknowledged, Resend, Keep,
             Dispatch, vars
    <3> QED
      BY <3>1, PackageFields
  <2> QED
    BY <2>1, <2>2
<1>2. ASSUME NEW e \in Peers
      PROVE  AtMostOne(parsed'[e])
  <2>1. CASE parsed' = parsed
    BY <2>1 DEF OneCallInv
  <2>2. ASSUME NEW f \in Peers, NEW p \in net, Receive(f, p)
        PROVE  AtMostOne(parsed'[e])
    BY <2>2 DEF Receive, OneCallInv, TypeOK
  <2>3. ASSUME NEW f \in Peers, Dispatch(f)
        PROVE  AtMostOne(parsed'[e])
    BY <2>3 DEF Dispatch, OneCallInv, AtMostOne, TypeOK
  <2> QED
    BY <2>1, <2>2, <2>3 DEF Next, SendState, remoteProcedureCall, TimePasses, ReceiveAny,
         AckStep, EraseAcknowledged, Resend, Keep, vars
<1> QED
  BY <1>1, <1>2 DEF OneCallInv

LEMMA StepParsed == IInv /\ ParsedInv /\ [Next]_vars => ParsedInv'
<1> SUFFICES ASSUME IInv, ParsedInv, [Next]_vars, NEW e \in Peers, NEW n \in parsed'[e]
             PROVE  n < m_nextMsgId'[Other(e)]
  BY DEF ParsedInv
<1>0. TypeOK /\ TypeOK' /\ Other(e) \in Peers /\ n \in Nat
  BY StepTypes, PeersFacts DEF IInv, TypeOK
<1>1. m_nextMsgId[Other(e)] \in Nat /\ m_nextMsgId'[Other(e)] \in Nat
  BY <1>0 DEF TypeOK
<1>2. m_nextMsgId[Other(e)] <= m_nextMsgId'[Other(e)]
  <2>1. CASE m_nextMsgId' = m_nextMsgId
    BY <1>1, <2>1
  <2>2. ASSUME NEW f \in Peers, remoteProcedureCall(f)
        PROVE  m_nextMsgId[Other(e)] <= m_nextMsgId'[Other(e)]
    <3>1. m_nextMsgId' = [m_nextMsgId EXCEPT ![f] = m_nextMsgId[f] + 1]
      BY <2>2 DEF remoteProcedureCall
    <3>2. m_nextMsgId'[Other(e)] \in {m_nextMsgId[Other(e)], m_nextMsgId[Other(e)] + 1}
      BY <1>0, <3>1 DEF TypeOK
    <3> QED
      BY <1>1, <3>2
  <2> QED
    BY <2>1, <2>2 DEF Next, SendState, TimePasses, ReceiveAny, Receive, AckStep,
                      EraseAcknowledged, Resend, Keep, Dispatch, vars
<1>3. CASE n \in parsed[e]
  <2>1. n < m_nextMsgId[Other(e)]
    BY <1>3 DEF ParsedInv
  <2> QED
    BY <1>0, <1>1, <1>2, <2>1
<1>4. CASE n \notin parsed[e]
  <2>1. PICK p \in net : p.to = e /\ n \in p.rpc
    <3>1. \E f \in Peers : ReceiveAny(f)
      BY <1>0, <1>4 DEF Next, SendState, remoteProcedureCall, TimePasses, AckStep,
                        EraseAcknowledged, Resend, Keep, Dispatch, vars, TypeOK
    <3>2. PICK f \in Peers, p \in net : Receive(f, p)
      BY <3>1 DEF ReceiveAny
    <3>3. p.to = f /\ parsed' = [parsed EXCEPT ![f] = p.rpc]
      BY <3>2 DEF Receive
    <3>4. f = e /\ n \in p.rpc
      BY <1>0, <1>4, <3>3 DEF TypeOK
    <3> QED
      BY <3>3, <3>4
  <2>2. WireInv(Other(e)) /\ p.to = Other(Other(e))
    BY <1>0, <2>1, PeersFacts DEF IInv, EndInv
  <2>3. n < m_nextMsgId[Other(e)]
    BY <2>1, <2>2 DEF WireInv
  <2> QED
    BY <1>0, <1>1, <1>2, <2>3
<1> QED
  BY <1>3, <1>4

LEMMA StepImplements ==
  ASSUME IInv, ParsedInv, OneCallInv, [Next]_vars
  PROVE  [Channel!Next]_<<m_nextMsgId, executed>>
<1>0. TypeOK
  BY DEF IInv
<1>1. CASE UNCHANGED <<m_nextMsgId, executed>>
  BY <1>1
<1>2. ASSUME NEW e \in Peers, remoteProcedureCall(e)
      PROVE  Channel!Next
  <2>1. Channel!Issue(e)
    BY <1>2 DEF remoteProcedureCall, Channel!Issue
  <2> QED
    BY <2>1 DEF Channel!Next, Peers
<1>3. ASSUME NEW e \in Peers, Dispatch(e)
      PROVE  [Channel!Next]_<<m_nextMsgId, executed>>
  <2>1. executed' = [executed EXCEPT ![e] = @ \cup parsed[e]] /\ m_nextMsgId' = m_nextMsgId
    BY <1>3 DEF Dispatch
  <2>2. CASE parsed[e] = {}
    <3>1. executed' = executed
      BY <1>0, <2>1, <2>2 DEF TypeOK
    <3> QED
      BY <2>1, <3>1
  <2>3. CASE parsed[e] # {}
    <3>1. PICK n \in Nat : parsed[e] = {n} /\ n < m_nextMsgId[Other(e)]
      <4>1. PICK n \in parsed[e] : TRUE
        BY <2>3
      <4>2. n \in Nat /\ n < m_nextMsgId[Other(e)]
        BY <1>0 DEF ParsedInv, TypeOK
      <4>3. \A x \in parsed[e] : x = n
        BY DEF OneCallInv, AtMostOne
      <4>4. parsed[e] = {n}
        BY <4>3
      <4> QED
        BY <4>2, <4>4
    <3>2. n \in 0..(m_nextMsgId[Other(e)] - 1)
      <4>1. m_nextMsgId[Other(e)] \in Nat
        BY <1>0, PeersFacts DEF TypeOK
      <4> QED
        BY <3>1, <4>1
    <3>3. Channel!Execute(e, Other(e))
      BY <2>1, <3>1, <3>2 DEF Channel!Execute
    <3> QED
      BY <3>3, PeersFacts DEF Channel!Next, Peers, Other
  <2> QED
    BY <2>2, <2>3
<1> QED
  BY <1>1, <1>2, <1>3 DEF Next, SendState, TimePasses, ReceiveAny, Receive, AckStep,
                          EraseAcknowledged, Resend, Keep, vars

(* A connection implements the abstract RPC channel: every step is a step  *)
(* of the channel or none of its business.  What an end executes its       *)
(* partner has issued (udpconnection.h:93-102, 144-169).                   *)
THEOREM ConnectionImplementsChannel == Spec => ImplementsRpcChannel
<1>1. Init => Channel!Init
  BY DEF Init, Channel!Init, Peers
<1>2. IInv /\ ParsedInv /\ OneCallInv /\ [Next]_vars
        => [Channel!Next]_<<m_nextMsgId, executed>>
  BY StepImplements
<1>3. TypeOK /\ OneCallInv /\ [Next]_vars => OneCallInv'
  BY StepOneCall
<1>4. IInv /\ ParsedInv /\ [Next]_vars => ParsedInv'
  BY StepParsed
<1>5. IInv => TypeOK
  BY DEF IInv
<1> QED
  BY <1>1, <1>2, <1>3, <1>4, <1>5, InitParsed, InvHolds, PTL
     DEF Spec, ImplementsRpcChannel, Channel!Spec

----------------------------------------------------------------------------
(***************************************************************************)
(* Acknowledgements.  A package that is newer shifts the mask by as much   *)
(* as the window moves, so that every id in it keeps its bit; this is so   *)
(* as long as the newest id has not wrapped, where the correction of       *)
(* MaskOffset shifts by another number (udpconnection.h:118-128).          *)
(***************************************************************************)
LEMMA NewerKeepsAcks ==
  ASSUME NEW mask \in SUBSET AckBits, NEW remote \in SeqIds, NEW new \in SeqIds,
         remote < new, new - remote <= MaxSeqId \div 2,
         NEW m \in NewerMasks(mask, remote, new), NEW seq \in SeqIds,
         IsSeqIdAcknowledged(mask, remote, seq), InAckWindow(new, seq)
  PROVE  IsSeqIdAcknowledged(m, new, seq)
<1> DEFINE offset == new - remote
           d == SeqIdDifference(seq, remote)
           D == SeqIdDifference(seq, new)
<1>0. /\ MaxSeqId \in Nat /\ MaxSeqId \div 2 \in Nat /\ MaxSeqId = 2 * (MaxSeqId \div 2) + 1
      /\ NumAcks \in Nat /\ NumAcks <= MaxSeqId \div 2 /\ IntBits \in Nat /\ NumAcks <= IntBits
      /\ remote \in 0..MaxSeqId /\ new \in 0..MaxSeqId /\ seq \in 0..MaxSeqId
  BY HalfRange, SeqIdAssumption, ConnectionAssumption DEF SeqIds
<1>1. MaskOffset(remote, new) = offset
  BY <1>0 DEF MaskOffset
<1>2. ~IsSeqIdMoreRecent(seq, new) /\ D < NumAcks
  BY DEF InAckWindow
<1>3. CASE seq = new
  BY <1>3 DEF IsSeqIdAcknowledged
<1>4. CASE seq # new /\ seq = remote
  <2>1. D = offset
    BY <1>0, <1>2, <1>4 DEF SeqIdDifference, Wrapped
  <2>2. offset - 1 \in AckBits
    BY <1>0, <1>2, <2>1 DEF AckBits
  <2>3. D - 1 \in m
    BY <1>1, <2>1, <2>2 DEF NewerMasks
  <2> QED BY <1>2, <2>3 DEF IsSeqIdAcknowledged
<1>5. CASE seq # new /\ seq # remote
  <2>1. ~IsSeqIdMoreRecent(seq, remote) /\ d < NumAcks /\ d - 1 \in mask
    BY <1>5 DEF IsSeqIdAcknowledged
  <2>2. d = Wrapped(remote - seq) /\ D = Wrapped(new - seq)
    BY <1>2, <2>1 DEF SeqIdDifference
  <2>3. D = d + offset /\ d \in Nat /\ offset \in Nat
    BY <1>0, <1>2, <2>1, <2>2 DEF Wrapped
  <2>4. offset < IntBits
    BY <1>0, <1>2, <2>1, <2>3
  <2>5. (d - 1) + offset \in ShiftLeft(mask, offset)
    <3>1. (d - 1) + offset \in AckBits
      BY <1>0, <1>2, <2>1, <2>3 DEF AckBits
    <3> QED BY <2>1, <3>1 DEF ShiftLeft
  <2>6. ShiftOutcomes(mask, offset) = {ShiftLeft(mask, offset)}
    BY <2>4 DEF ShiftOutcomes
  <2>7. (d - 1) + offset \in m
    <3> HIDE DEF offset
    <3> QED BY <1>1, <2>5, <2>6 DEF NewerMasks
  <2>8. D - 1 = (d - 1) + offset
    BY <1>0, <2>3
  <2> QED BY <1>2, <2>7, <2>8 DEF IsSeqIdAcknowledged
<1> QED BY <1>3, <1>4, <1>5

(* Only the reception of a package changes what an end acknowledges.       *)
LEMMA ReceiveKeepsAcks ==
  ASSUME TypeOK, NEW e \in Peers, NEW p \in net, Receive(e, p),
         IsSeqIdMoreRecent(p.seqId, m_remoteSeqId[e])
           => /\ m_remoteSeqId[e] < p.seqId
              /\ p.seqId - m_remoteSeqId[e] <= MaxSeqId \div 2
  PROVE  \A f \in Peers : AckKept(f)
<1> DEFINE mask == m_ackMask[e]
           remote == m_remoteSeqId[e]
<1>1. mask \in SUBSET AckBits /\ remote \in SeqIds /\ p.seqId \in SeqIds
      /\ m_ackMask \in [Peers -> SUBSET AckBits] /\ m_remoteSeqId \in [Peers -> SeqIds]
  BY DEF TypeOK, Package
<1>2. ASSUME NEW f \in Peers, f # e PROVE AckKept(f)
  <2>1. m_ackMask'[f] = m_ackMask[f] /\ m_remoteSeqId'[f] = m_remoteSeqId[f]
    BY <1>1, <1>2 DEF Receive
  <2> QED BY <2>1 DEF AckKept, isSeqIdAcknowledged
<1>3. CASE IsSeqIdMoreRecent(p.seqId, remote)
  <2>1. m_remoteSeqId'[e] = p.seqId /\ m_ackMask'[e] \in NewerMasks(mask, remote, p.seqId)
    BY <1>1, <1>3 DEF Receive
  <2>2. remote < p.seqId /\ p.seqId - remote <= MaxSeqId \div 2
    BY <1>3
  <2> HIDE DEF mask, remote
  <2>3. ASSUME NEW seq \in SeqIds, IsSeqIdAcknowledged(mask, remote, seq),
               InAckWindow(p.seqId, seq)
        PROVE  IsSeqIdAcknowledged(m_ackMask'[e], p.seqId, seq)
    BY <1>1, <2>1, <2>2, <2>3, NewerKeepsAcks
  <2>4. AckKept(e)
    BY <2>1, <2>3 DEF AckKept, isSeqIdAcknowledged, mask, remote
  <2> QED BY <1>2, <2>4
<1>4. CASE ~IsSeqIdMoreRecent(p.seqId, remote)
  <2>1. m_remoteSeqId'[e] = remote /\ mask \subseteq m_ackMask'[e]
    BY <1>1, <1>4 DEF Receive, OlderMask
  <2>2. AckKept(e)
    BY <2>1 DEF AckKept, isSeqIdAcknowledged, IsSeqIdAcknowledged
  <2> QED BY <1>2, <2>2
<1> QED BY <1>3, <1>4

(* No end has sent more packages than half the ids.                        *)
FewSent == \A e \in Peers : sent[e] <= MaxSeqId \div 2 + 1

(* So long an id is the number of its package, and what is newer has a     *)
(* greater id.                                                             *)
UnwrappedEnd(e) ==
  sent[e] <= MaxSeqId \div 2 + 1 =>
    /\ m_seqId[e] = sent[e]
    /\ \A p \in net : p.to = Other(e) => p.seqId <= MaxSeqId \div 2
    /\ m_remoteSeqId[Other(e)] <= MaxSeqId \div 2
UnwrappedInv == \A e \in Peers : UnwrappedEnd(e)

LEMMA InitUnwrapped == Init => UnwrappedInv
<1>1. MaxSeqId \div 2 \in Nat /\ \A e \in Peers : Other(e) \in Peers
  BY HalfRange, PeersFacts
<1> QED BY <1>1 DEF Init, UnwrappedInv, UnwrappedEnd

LEMMA SendUnwrapped ==
  ASSUME TypeOK, UnwrappedInv, NEW e \in Peers, NEW rpc, sendPackage(e, rpc),
         UNCHANGED m_remoteSeqId
  PROVE  UnwrappedInv'
<1> DEFINE H == MaxSeqId \div 2
           P == PackageFrom(e, rpc)
<1>1. H \in Nat /\ MaxSeqId = 2 * H + 1
  BY HalfRange
<1>2. /\ net' = net \cup {P} /\ m_seqId'[e] = Wrapped(m_seqId[e] + 1) /\ sent'[e] = sent[e] + 1
      /\ \A f \in Peers : f # e => m_seqId'[f] = m_seqId[f] /\ sent'[f] = sent[f]
      /\ sent[e] \in Nat /\ \A f \in Peers : Other(f) = Other(e) => f = e
  BY PeersFacts DEF sendPackage, TypeOK, Peers, Other
<1>3. P.to = Other(e) /\ P.seqId = m_seqId[e]
  BY PackageFields
<1> HIDE DEF H, P
<1>4. UnwrappedEnd(e)'
  <2> SUFFICES ASSUME sent'[e] <= H + 1
               PROVE  /\ m_seqId'[e] = sent'[e]
                      /\ \A p \in net' : p.to = Other(e) => p.seqId <= H
                      /\ m_remoteSeqId'[Other(e)] <= H
    BY DEF UnwrappedEnd, H
  <2>1. sent[e] <= H /\ sent[e] <= H + 1
    BY <1>1, <1>2
  <2>2. /\ m_seqId[e] = sent[e]
        /\ \A p \in net : p.to = Other(e) => p.seqId <= H
        /\ m_remoteSeqId[Other(e)] <= H
    BY <2>1 DEF UnwrappedInv, UnwrappedEnd, H
  <2>3. m_seqId'[e] = sent'[e]
    BY <1>1, <1>2, <2>1, <2>2 DEF Wrapped
  <2>4. P.seqId <= H
    BY <1>3, <2>1, <2>2
  <2> QED BY <1>2, <2>2, <2>3, <2>4
<1>5. ASSUME NEW f \in Peers, f # e PROVE UnwrappedEnd(f)'
  <2>1. Other(f) # Other(e)
    BY <1>2, <1>5
  <2>2. \A p \in net' : p.to = Other(f) => p \in net
    BY <1>2, <1>3, <2>1
  <2> QED BY <1>2, <1>5, <2>2 DEF UnwrappedInv, UnwrappedEnd
<1> QED BY <1>4, <1>5 DEF UnwrappedInv

LEMMA StepUnwrapped == TypeOK /\ UnwrappedInv /\ [Next]_vars => UnwrappedInv'
<1> SUFFICES ASSUME TypeOK, UnwrappedInv, [Next]_vars PROVE UnwrappedInv'
  OBVIOUS
<1>1. CASE SendState
  BY <1>1, SendUnwrapped, PeersFacts DEF SendState
<1>2. ASSUME NEW e \in Peers, remoteProcedureCall(e) PROVE UnwrappedInv'
  BY <1>2, SendUnwrapped DEF remoteProcedureCall
<1>3. ASSUME NEW e \in Peers, Resend(e) PROVE UnwrappedInv'
  BY <1>3, SendUnwrapped DEF Resend
<1>4. ASSUME NEW e \in Peers, NEW p \in net, Receive(e, p) PROVE UnwrappedInv'
  <2>1. /\ UNCHANGED <<m_seqId, net, sent>> /\ p.to = e
        /\ m_remoteSeqId' \in {m_remoteSeqId, [m_remoteSeqId EXCEPT ![e] = p.seqId]}
    BY <1>4 DEF Receive
  <2>2. ASSUME NEW f \in Peers PROVE UnwrappedEnd(f)'
    <3> SUFFICES ASSUME sent[f] <= MaxSeqId \div 2 + 1
                 PROVE  m_remoteSeqId'[Other(f)] <= MaxSeqId \div 2
      BY <2>1 DEF UnwrappedInv, UnwrappedEnd
    <3>1. /\ \A q \in net : q.to = Other(f) => q.seqId <= MaxSeqId \div 2
          /\ m_remoteSeqId[Other(f)] <= MaxSeqId \div 2
      BY DEF UnwrappedInv, UnwrappedEnd
    <3>2. m_remoteSeqId \in [Peers -> SeqIds] /\ Other(f) \in Peers
      BY PeersFacts DEF TypeOK
    <3> QED BY <2>1, <3>1, <3>2
  <2> QED BY <2>2 DEF UnwrappedInv
<1>5. CASE (\E e \in Peers : TimePasses(e) \/ EraseAcknowledged(e) \/ Keep(e) \/ Dispatch(e))
           \/ UNCHANGED vars
  <2>1. UNCHANGED <<m_seqId, net, sent, m_remoteSeqId>>
    BY <1>5 DEF TimePasses, EraseAcknowledged, Keep, Dispatch, vars
  <2> QED BY <2>1 DEF UnwrappedInv, UnwrappedEnd
<1> QED
  BY <1>1, <1>2, <1>3, <1>4, <1>5 DEF Next, AckStep, ReceiveAny

LEMMA StepKeepsAcks ==
  TypeOK /\ UnwrappedInv /\ FewSent /\ [Next]_vars => [\A e \in Peers : AckKept(e)]_vars
<1> SUFFICES ASSUME TypeOK, UnwrappedInv, FewSent, Next PROVE \A e \in Peers : AckKept(e)
  OBVIOUS
<1>1. ASSUME NEW e \in Peers, NEW p \in net, Receive(e, p)
      PROVE  \A f \in Peers : AckKept(f)
  <2>1. p.to = e /\ Other(e) \in Peers /\ Other(Other(e)) = e
    BY <1>1, PeersFacts DEF Receive, Other, Peers
  <2>2. p.seqId <= MaxSeqId \div 2 /\ m_remoteSeqId[e] <= MaxSeqId \div 2
    BY <2>1 DEF FewSent, UnwrappedInv, UnwrappedEnd
  <2>3. p.seqId \in Nat /\ m_remoteSeqId[e] \in Nat
    BY DEF TypeOK, Package, SeqIds
  <2>4. IsSeqIdMoreRecent(p.seqId, m_remoteSeqId[e])
          => m_remoteSeqId[e] < p.seqId /\ p.seqId - m_remoteSeqId[e] <= MaxSeqId \div 2
    BY <2>2, <2>3, HalfRange DEF IsSeqIdMoreRecent
  <2> QED BY <1>1, <2>4, ReceiveKeepsAcks
<1>2. CASE UNCHANGED <<m_ackMask, m_remoteSeqId>>
  BY <1>2 DEF AckKept, isSeqIdAcknowledged
<1>3. (\E e \in Peers : ReceiveAny(e)) \/ UNCHANGED <<m_ackMask, m_remoteSeqId>>
  BY DEF Next, AckStep, SendState, remoteProcedureCall, TimePasses, EraseAcknowledged, Resend,
         Keep, Dispatch
<1> QED BY <1>1, <1>2, <1>3 DEF ReceiveAny

(* What an end would acknowledge it goes on acknowledging, until the id    *)
(* leaves the window of the mask, for any losses, repetitions and order of *)
(* packages, and also where a shift by the width of an int is undefined:   *)
(* as long as no end has used more than half of its ids                    *)
(* (udpconnection.h:115-139).                                              *)
THEOREM AckWindowAlwaysKept == Spec /\ []FewSent => AckWindowKept
<1>1. TypeOK /\ UnwrappedInv /\ [Next]_vars => UnwrappedInv'
  BY StepUnwrapped
<1>2. TypeOK /\ UnwrappedInv /\ FewSent /\ [Next]_vars => [\A e \in Peers : AckKept(e)]_vars
  BY StepKeepsAcks
<1> QED BY <1>1, <1>2, InitUnwrapped, TypeCorrect, PTL DEF Spec, AckWindowKept

----------------------------------------------------------------------------
(***************************************************************************)
(* The loop of processRpcAcknowledges runs down.  Together with RunsOn     *)
(* this is why LoopEnds holds, for which the prover lacks fairness.        *)
(***************************************************************************)
(* The packages that timed out and are remembered. *)
Late(e) == {n \in 0..(lapsed[e] - 1) : \E i \in Positions(e) : Mem(e, i).sentAt = n}

(* Erasing makes the list shorter, sending again leaves one less of the    *)
(* entries that timed out.                                                 *)
Work(e) == Len(m_rpcMemory[e]) + Cardinality(Late(e))

(* How far the iterator is from end(). *)
Left(e) == Len(m_rpcMemory[e]) + 1 - it[e]

Shorter(e) ==
  /\ Work(e)' \in Nat /\ Left(e)' \in Nat
  /\ \/ Work(e)' < Work(e)
     \/ Work(e)' = Work(e) /\ Left(e)' < Left(e)

LoopRunsDown ==
  [][\A e \in Peers :
       /\ AckStep(e) => Shorter(e)
       /\ it[e] # 0 /\ ~AckStep(e) => it'[e] = 0 \/ UNCHANGED <<Work(e), Left(e)>>]_vars

LapsedInv == \A e \in Peers : lapsed[e] <= sent[e]

LEMMA StepLapsed == TypeOK /\ LapsedInv /\ [Next]_vars => LapsedInv'
<1> SUFFICES ASSUME TypeOK, LapsedInv, [Next]_vars, NEW f \in Peers
             PROVE  lapsed'[f] <= sent'[f]
  BY DEF LapsedInv
<1>1. lapsed[f] \in Nat /\ sent[f] \in Nat /\ lapsed[f] <= sent[f]
  BY NumberFacts DEF LapsedInv
<1>2. CASE lapsed' = lapsed
  <2>1. sent' = sent \/ \E e \in Peers : sent' = [sent EXCEPT ![e] = @ + 1]
    BY <1>2, PeersFacts DEF Next, SendState, remoteProcedureCall, TimePasses, ReceiveAny,
       Receive, AckStep, EraseAcknowledged, Resend, Keep, Dispatch, sendPackage, vars
  <2>2. sent'[f] = sent[f] \/ sent'[f] = sent[f] + 1
    BY <2>1 DEF TypeOK
  <2> QED
    BY <1>1, <1>2, <2>2
<1>3. ASSUME NEW e \in Peers, TimePasses(e)
      PROVE  lapsed'[f] <= sent'[f]
  <2>1. PICK n \in (lapsed[e] + 1)..sent[e] : lapsed' = [lapsed EXCEPT ![e] = n]
    BY <1>3 DEF TimePasses
  <2>2. n <= sent[e] /\ sent' = sent
    BY <1>3, NumberFacts DEF TimePasses
  <2> QED
    BY <1>1, <2>1, <2>2 DEF TypeOK
<1> QED
  BY <1>2, <1>3 DEF Next, SendState, remoteProcedureCall, ReceiveAny, Receive, AckStep,
     EraseAcknowledged, Resend, Keep, Dispatch, vars

LEMMA WorkIsNatural ==
  ASSUME TypeOK, NEW e \in Peers
  PROVE  /\ IsFiniteSet(Late(e)) /\ Cardinality(Late(e)) \in Nat
         /\ Len(m_rpcMemory[e]) \in Nat /\ Work(e) \in Nat
<1>1. IsFiniteSet(0..(lapsed[e] - 1)) /\ Late(e) \subseteq 0..(lapsed[e] - 1)
  BY NumberFacts, FS_Interval DEF Late
<1>2. IsFiniteSet(Late(e)) /\ Cardinality(Late(e)) \in Nat
  BY <1>1, FS_Subset, FS_CardinalityType
<1> QED
  BY <1>2, NumberFacts DEF Work

LEMMA EraseRunsDown ==
  ASSUME TypeOK, TypeOK', NEW e \in Peers, EraseAcknowledged(e)
  PROVE  Shorter(e)
<1>1. PICK s \in Seq(RpcInfo), c \in Nat : c \in 1..Len(s) /\
        s = m_rpcMemory[e] /\ c = it[e] /\ Positions(e) = 1..Len(s) /\ Len(s) \in Nat
  BY EntryType DEF EraseAcknowledged, Positions
<1>2. m_rpcMemory'[e] = RemoveAt(s, c) /\ it'[e] = Successor(c, Len(s) - 1) /\ lapsed' = lapsed
  BY <1>1 DEF EraseAcknowledged, TypeOK
<1>3. /\ Len(m_rpcMemory'[e]) = Len(s) - 1
      /\ \A j \in 1..(Len(s) - 1) :
           m_rpcMemory'[e][j] = IF j < c THEN s[j] ELSE s[j + 1]
  <2>1. /\ Len(RemoveAt(s, c)) = Len(s) - 1
        /\ \A j \in 1..(Len(s) - 1) :
             RemoveAt(s, c)[j] = IF j < c THEN s[j] ELSE s[j + 1]
    BY <1>1, RemoveAtProperties
  <2> QED
    BY <1>2, <2>1
<1>4. Late(e)' \subseteq Late(e)
  <2> SUFFICES ASSUME NEW n \in Late(e)'
               PROVE  n \in Late(e)
    OBVIOUS
  <2>1. PICK j \in 1..(Len(s) - 1) : m_rpcMemory'[e][j].sentAt = n
    BY <1>3 DEF Late, Positions, Mem
  <2>2. \E i \in 1..Len(s) : s[i].sentAt = n
    <3>1. j \in 1..Len(s) /\ j + 1 \in 1..Len(s)
      BY <1>1, <2>1
    <3> QED
      BY <1>3, <2>1, <3>1
  <2> QED
    BY <1>1, <1>2, <2>2 DEF Late, Mem
<1>5. /\ Cardinality(Late(e)') <= Cardinality(Late(e))
      /\ Cardinality(Late(e)) \in Nat /\ Cardinality(Late(e)') \in Nat
  <2>1. IsFiniteSet(Late(e)) /\ Cardinality(Late(e)) \in Nat
    BY WorkIsNatural
  <2>2. IsFiniteSet(Late(e)') /\ Cardinality(Late(e)') <= Cardinality(Late(e))
    BY <1>4, <2>1, FS_Subset
  <2>3. Cardinality(Late(e)') \in Nat
    BY <2>2, FS_CardinalityType
  <2> QED
    BY <2>1, <2>2, <2>3
<1>6. it'[e] \in 1..Len(s)
  BY <1>1, <1>2 DEF Successor
<1>7. Work(e) = Len(s) + Cardinality(Late(e)) /\ Work(e)' = Len(s) - 1 + Cardinality(Late(e)')
  BY <1>1, <1>3 DEF Work
<1>8. Left(e)' = Len(s) - it'[e]
  BY <1>1, <1>3, <1>6 DEF Left
<1>9. Work(e)' \in Nat /\ Work(e)' < Work(e)
  <2>1. PICK l \in Nat, a \in Nat, b \in Nat :
          l = Len(s) /\ l > 0 /\ a = Cardinality(Late(e)) /\ b = Cardinality(Late(e)') /\ b <= a
    BY <1>1, <1>5
  <2>2. Work(e) = l + a /\ Work(e)' = l - 1 + b
    BY <1>7, <2>1
  <2>3. l - 1 + b \in Nat /\ l - 1 + b < l + a
    BY <2>1
  <2> QED
    BY <2>2, <2>3
<1>10. Left(e)' \in Nat
  BY <1>1, <1>6, <1>8
<1> QED
  BY <1>9, <1>10 DEF Shorter

LEMMA ResendRunsDown ==
  ASSUME TypeOK, NEW e \in Peers, EndInv(e), LapsedInv, Resend(e)
  PROVE  Shorter(e)
<1>1. PICK s \in Seq(RpcInfo), c \in Nat : c \in 1..Len(s) /\
        s = m_rpcMemory[e] /\ c = it[e] /\ Positions(e) = 1..Len(s) /\ Len(s) \in Nat
  BY EntryType DEF Resend, Positions
<1>2. PICK x \in RpcInfo : x = RpcInfoOf(e, Entry(e).msgId) /\ x.sentAt = sent[e]
  <2>1. Entry(e).msgId \in Nat
    BY EntryType DEF Resend, RpcInfo
  <2> QED
    BY <2>1, RpcInfoType DEF RpcInfoOf
<1>3. /\ m_rpcMemory'[e] = RemoveAt(Append(s, x), c)
      /\ it'[e] = Successor(c, Len(s)) /\ lapsed' = lapsed
  BY <1>1, <1>2 DEF Resend, TypeOK
<1>4. /\ Len(m_rpcMemory'[e]) = Len(s)
      /\ \A j \in 1..Len(s) : m_rpcMemory'[e][j]
           = IF j < c THEN s[j] ELSE IF j < Len(s) THEN s[j + 1] ELSE x
  <2>1. /\ Len(RemoveAt(Append(s, x), c)) = Len(s)
        /\ \A j \in 1..Len(s) : RemoveAt(Append(s, x), c)[j]
             = IF j < c THEN s[j] ELSE IF j < Len(s) THEN s[j + 1] ELSE x
    BY <1>1, AppendThenRemoveAt
  <2> QED
    BY <1>3, <2>1
<1>5. /\ s[c].sentAt \in Nat /\ s[c].sentAt < lapsed[e] /\ lapsed[e] \in Nat
      /\ lapsed[e] <= sent[e] /\ sent[e] \in Nat
      /\ \A i \in 1..Len(s) : s[i].sentAt \in Nat
      /\ \A i, j \in 1..Len(s) : i < j => s[i].sentAt < s[j].sentAt
  BY <1>1, NumberFacts DEF Resend, TimedOut, Entry, Mem, EndInv, EntriesInv, LapsedInv
<1>6. s[c].sentAt \in Late(e)
  <2>1. s[c].sentAt \in 0..(lapsed[e] - 1)
    BY <1>5
  <2> QED
    BY <1>1, <2>1 DEF Late, Mem
<1>7. Late(e)' \subseteq Late(e) \ {s[c].sentAt}
  <2> SUFFICES ASSUME NEW n \in Late(e)'
               PROVE  n \in Late(e) /\ n # s[c].sentAt
    OBVIOUS
  <2>1. PICK j \in 1..Len(s) : m_rpcMemory'[e][j].sentAt = n
    BY <1>4 DEF Late, Positions, Mem
  <2>2. n \in 0..(lapsed[e] - 1)
    BY <1>3 DEF Late
  <2>3. PICK i \in 1..Len(s) : i # c /\ s[i].sentAt = n
    <3>1. CASE j < c
      BY <1>4, <2>1, <3>1
    <3>2. CASE ~(j < c) /\ j < Len(s)
      <4>1. j + 1 \in 1..Len(s) /\ j + 1 # c
        BY <1>1, <3>2
      <4>2. s[j + 1].sentAt = n
        BY <1>4, <2>1, <3>2
      <4> QED
        BY <4>1, <4>2
    <3>3. CASE ~(j < c) /\ ~(j < Len(s))
      <4>1. n = sent[e]
        BY <1>2, <1>4, <2>1, <3>3
      <4> QED
        BY <1>5, <2>2, <4>1
    <3> QED
      BY <3>1, <3>2, <3>3
  <2>4. n # s[c].sentAt
    <3>1. i < c \/ c < i
      BY <1>1, <2>3
    <3>2. s[i].sentAt < s[c].sentAt \/ s[c].sentAt < s[i].sentAt
      BY <1>1, <1>5, <3>1
    <3> QED
      BY <1>5, <2>3, <3>2
  <2> QED
    BY <1>1, <2>2, <2>3, <2>4 DEF Late, Mem
<1>8. /\ Cardinality(Late(e)') < Cardinality(Late(e))
      /\ Cardinality(Late(e)) \in Nat /\ Cardinality(Late(e)') \in Nat
  <2>1. IsFiniteSet(Late(e)) /\ Cardinality(Late(e)) \in Nat
    BY WorkIsNatural
  <2>2. /\ IsFiniteSet(Late(e) \ {s[c].sentAt})
        /\ Cardinality(Late(e) \ {s[c].sentAt}) = Cardinality(Late(e)) - 1
    BY <1>6, <2>1, FS_RemoveElement
  <2>3. /\ IsFiniteSet(Late(e)')
        /\ Cardinality(Late(e)') <= Cardinality(Late(e) \ {s[c].sentAt})
    BY <1>7, <2>2, FS_Subset
  <2>4. Cardinality(Late(e)') \in Nat
    BY <2>3, FS_CardinalityType
  <2> QED
    BY <2>1, <2>2, <2>3, <2>4
<1>9. it'[e] \in 1..(Len(s) + 1)
  BY <1>1, <1>3 DEF Successor
<1>10. Work(e) = Len(s) + Cardinality(Late(e)) /\ Work(e)' = Len(s) + Cardinality(Late(e)')
  BY <1>1, <1>4 DEF Work
<1>11. Left(e)' = Len(s) + 1 - it'[e]
  BY <1>4 DEF Left
<1>12. Work(e)' \in Nat /\ Work(e)' < Work(e)
  <2>1. PICK l \in Nat, a \in Nat, b \in Nat :
          l = Len(s) /\ a = Cardinality(Late(e)) /\ b = Cardinality(Late(e)') /\ b < a
    BY <1>1, <1>8
  <2>2. Work(e) = l + a /\ Work(e)' = l + b
    BY <1>10, <2>1
  <2>3. l + b \in Nat /\ l + b < l + a
    BY <2>1
  <2> QED
    BY <2>2, <2>3
<1>13. Left(e)' \in Nat
  BY <1>1, <1>9, <1>11
<1> QED
  BY <1>12, <1>13 DEF Shorter

LEMMA KeepRunsDown ==
  ASSUME TypeOK, NEW e \in Peers, Keep(e)
  PROVE  Shorter(e)
<1>1. /\ m_rpcMemory' = m_rpcMemory /\ lapsed' = lapsed
      /\ it[e] \in 1..Len(m_rpcMemory[e]) /\ it'[e] = Successor(it[e], Len(m_rpcMemory[e]))
  BY EntryType DEF Keep, TypeOK
<1>2. Work(e)' = Work(e)
  BY <1>1 DEF Work, Late, Positions, Mem
<1>3. Len(m_rpcMemory[e]) \in Nat /\ Work(e) \in Nat
  BY WorkIsNatural
<1>4. PICK n \in Nat, i \in Nat : i \in 1..n /\ n = Len(m_rpcMemory[e]) /\ i = it[e] /\ it'[e] = i + 1
  BY <1>1, <1>3 DEF Successor
<1>5. Left(e) = n + 1 - i /\ Left(e)' = n + 1 - (i + 1)
  BY <1>1, <1>4 DEF Left
<1>6. Left(e)' \in Nat /\ Left(e)' < Left(e)
  <2>1. n + 1 - (i + 1) \in Nat /\ n + 1 - (i + 1) < n + 1 - i
    BY <1>4
  <2> QED
    BY <1>5, <2>1
<1> QED
  BY <1>2, <1>3, <1>6 DEF Shorter

(* Nothing else that happens while an end is in its loop gives it more to  *)
(* do: the end itself does nothing else, and the clock was read before.    *)
LEMMA OthersLeaveWork ==
  ASSUME TypeOK, [Next]_vars, NEW e \in Peers, it[e] # 0, ~AckStep(e), it'[e] # 0
  PROVE  UNCHANGED <<Work(e), Left(e)>>
<1>1. m_rpcMemory'[e] = m_rpcMemory[e] /\ it'[e] = it[e] /\ lapsed'[e] = lapsed[e]
  <2>1. CASE SendState \/ UNCHANGED vars
    BY <2>1 DEF SendState, vars
  <2>2. ASSUME NEW f \in Peers, f # e, \/ remoteProcedureCall(f) \/ TimePasses(f)
                                       \/ ReceiveAny(f) \/ AckStep(f) \/ Dispatch(f)
        PROVE  m_rpcMemory'[e] = m_rpcMemory[e] /\ it'[e] = it[e] /\ lapsed'[e] = lapsed[e]
    BY <2>2 DEF remoteProcedureCall, TimePasses, ReceiveAny, Receive, AckStep,
       EraseAcknowledged, Resend, Keep, Dispatch, TypeOK
  <2>3. ~remoteProcedureCall(e) /\ ~TimePasses(e) /\ ~ReceiveAny(e) /\ ~Dispatch(e)
    BY DEF remoteProcedureCall, TimePasses, ReceiveAny, Receive, Dispatch, Idle, TypeOK
  <2> QED
    BY <2>1, <2>2, <2>3 DEF Next
<1> QED
  BY <1>1 DEF Work, Left, Late, Positions, Mem

(* Every turn of the loop brings it closer to its end, although it appends *)
(* to the list it iterates over and may run past end(): the list gets      *)
(* shorter, or what has to be sent again gets less, or the iterator comes  *)
(* closer to end(); and in between the end gets nothing more to do         *)
(* (udpconnection.h:171-188).                                              *)
THEOREM LoopAlwaysRunsDown == Spec => LoopRunsDown
<1>1. Init => LapsedInv
  BY DEF Init, LapsedInv
<1>2. IInv => TypeOK
  BY DEF IInv
<1>3. Spec => []LapsedInv
  BY <1>1, <1>2, StepLapsed, InvHolds, PTL DEF Spec
<1>4. IInv /\ IInv' /\ LapsedInv /\ [Next]_vars =>
        [\A e \in Peers :
           /\ AckStep(e) => Shorter(e)
           /\ it[e] # 0 /\ ~AckStep(e) => it'[e] = 0 \/ UNCHANGED <<Work(e), Left(e)>>]_vars
  <2> SUFFICES ASSUME IInv, IInv', LapsedInv, [Next]_vars, NEW e \in Peers
               PROVE  /\ AckStep(e) => Shorter(e)
                      /\ it[e] # 0 /\ ~AckStep(e) =>
                           it'[e] = 0 \/ UNCHANGED <<Work(e), Left(e)>>
    OBVIOUS
  <2>1. TypeOK /\ TypeOK' /\ EndInv(e)
    BY DEF IInv
  <2>2. AckStep(e) => Shorter(e)
    BY <2>1, EraseRunsDown, ResendRunsDown, KeepRunsDown DEF AckStep
  <2>3. it[e] # 0 /\ ~AckStep(e) /\ it'[e] # 0 => UNCHANGED <<Work(e), Left(e)>>
    BY <2>1, OthersLeaveWork
  <2> QED
    BY <2>2, <2>3
<1> QED
  BY <1>3, <1>4, InvHolds, PTL DEF Spec, LoopRunsDown

----------------------------------------------------------------------------
(***************************************************************************)
(* The dispatcher: who has which handler id.                               *)
(*                                                                         *)
(* Script handlers have the ids below m_nextHandlerId.  Every other entry  *)
(* of m_handlers is that of a C++ function, under its reserved RPC id, as  *)
(* the constructor has left it; and all of those are there whose id has    *)
(* not been given to a script (rpcdispatcher.cpp:169-248).                 *)
(***************************************************************************)
IsInternal(h) ==
  h \in DOMAIN InternalHandlers /\ m_handlers[h] = Handler(h, "cpp", InternalHandlers[h], 0)
HandlersOK ==
  /\ m_nextHandlerId \in Nat /\ m_nextHandlerId >= 1
  /\ \A h \in DOMAIN m_handlers :
       /\ h \in Nat /\ (h >= m_nextHandlerId => IsInternal(h))
       /\ m_handlers[h].id \in Nat /\ m_handlers[h].client_id \in Clients
       /\ m_handlers[h].kind \in {"cpp", "function", "method"}
  /\ \A id \in DOMAIN InternalHandlers :
       id = 0 \/ id >= m_nextHandlerId => id \in DOMAIN m_handlers /\ IsInternal(id)
  /\ DOMAIN returned = 1..(m_nextHandlerId - 1) /\ DOMAIN returned \subseteq DOMAIN m_handlers
  /\ up \in BOOLEAN

(* Procedures are lines of the table, and a function has the argSpec of    *)
(* one, or none (rpcdispatcher.cpp:202-214, 250-272).                      *)
IsLine(id, argSpec) == \E rpc \in RpcTable : rpc.id = id /\ rpc.argSpec = argSpec
TableOK ==
  /\ \A name \in DOMAIN m_procedures :
       m_procedures[name].id \in Nat /\ IsLine(m_procedures[name].id, m_procedures[name].argSpec)
  /\ \A h \in DOMAIN m_handlers :
       m_handlers[h].kind = "function" =>
         m_handlers[h].argSpec = <<>> \/ IsLine(m_handlers[h].id, m_handlers[h].argSpec)

(* A handler a script may register. *)
IsNew(handler) ==
  /\ handler.id \in HandlerRpcs /\ handler.client_id \in Clients
  /\ handler.kind = "method" \/ /\ handler.kind = "function"
                                /\ handler.argSpec = <<>> \/ IsLine(handler.id, handler.argSpec)

LEMMA StoreKeeps ==
  ASSUME HandlersOK, TableOK, NEW handler, IsNew(handler), Store(handler),
         UNCHANGED <<m_procedures, up>>
  PROVE  HandlersOK' /\ TableOK'
<1>0. m_nextHandlerId \in Nat /\ m_nextHandlerId >= 1 /\ m_nextHandlerId' = m_nextHandlerId + 1
  BY DEF HandlersOK, Store
<1>1. /\ DOMAIN m_handlers' = DOMAIN m_handlers \cup {m_nextHandlerId}
      /\ m_handlers'[m_nextHandlerId] = handler
      /\ \A h \in DOMAIN m_handlers : h # m_nextHandlerId => m_handlers'[h] = m_handlers[h]
  BY DEF Store, Bind
<1>2. DOMAIN returned' = DOMAIN returned \cup {m_nextHandlerId}
  BY DEF Store, Bind
<1>3. handler.id \in Nat /\ handler.client_id \in Clients /\ handler.kind \in {"function", "method"}
  BY DispatcherAssumption DEF IsNew
<1>4. ASSUME NEW h \in DOMAIN m_handlers'
      PROVE  /\ h \in Nat /\ (h >= m_nextHandlerId' => IsInternal(h)')
             /\ m_handlers'[h].id \in Nat /\ m_handlers'[h].client_id \in Clients
             /\ m_handlers'[h].kind \in {"cpp", "function", "method"}
  <2>1. CASE h = m_nextHandlerId
    BY <1>0, <1>1, <1>3, <2>1
  <2>2. CASE h # m_nextHandlerId
    <3>1. h \in DOMAIN m_handlers /\ m_handlers'[h] = m_handlers[h]
      BY <1>1, <2>2
    <3>2. /\ h \in Nat /\ (h >= m_nextHandlerId => IsInternal(h))
          /\ m_handlers[h].id \in Nat /\ m_handlers[h].client_id \in Clients
          /\ m_handlers[h].kind \in {"cpp", "function", "method"}
      BY <3>1 DEF HandlersOK
    <3>3. h >= m_nextHandlerId' => IsInternal(h)'
      BY <1>0, <3>1, <3>2 DEF IsInternal
    <3> QED BY <3>1, <3>2, <3>3
  <2> QED BY <2>1, <2>2
<1>5. ASSUME NEW id \in DOMAIN InternalHandlers, id = 0 \/ id >= m_nextHandlerId'
      PROVE  id \in DOMAIN m_handlers' /\ IsInternal(id)'
  <2>1. id \in Nat
    BY DispatcherAssumption
  <2>2. id # m_nextHandlerId /\ (id = 0 \/ id >= m_nextHandlerId)
    BY <1>0, <1>5, <2>1
  <2>3. id \in DOMAIN m_handlers /\ IsInternal(id)
    BY <2>2 DEF HandlersOK
  <2> QED BY <1>1, <2>2, <2>3 DEF IsInternal
<1>6. DOMAIN returned' = 1..(m_nextHandlerId' - 1) /\ DOMAIN returned' \subseteq DOMAIN m_handlers'
  <2>1. DOMAIN returned = 1..(m_nextHandlerId - 1) /\ DOMAIN returned \subseteq DOMAIN m_handlers
    BY DEF HandlersOK
  <2> QED BY <1>0, <1>1, <1>2, <2>1
<1>7. HandlersOK'
  <2>1. up' \in BOOLEAN
    BY DEF HandlersOK
  <2> QED BY <1>0, <1>4, <1>5, <1>6, <2>1 DEF HandlersOK
<1>8. TableOK'
  BY <1>1 DEF TableOK, IsNew
<1> QED BY <1>7, <1>8

LEMMA RegisterFunctionKeeps ==
  ASSUME HandlersOK, TableOK, NEW client_id \in Clients, NEW id \in HandlerRpcs,
         NEW function \in DOMAIN Functions, AddFunctionHandler(client_id, id, function)
  PROVE  HandlersOK' /\ TableOK'
<1>1. PICK argSpec \in Prototypes(id, function) : Store(Handler(id, "function", argSpec, client_id))
  BY DEF AddFunctionHandler
<1>2. argSpec = <<>> \/ IsLine(id, argSpec)
  BY DEF Prototypes, ArgSpecsForRpc, TableOK
<1>3. IsNew(Handler(id, "function", argSpec, client_id))
  BY <1>2 DEF IsNew, Handler
<1> QED BY <1>1, <1>3, StoreKeeps DEF AddFunctionHandler

LEMMA RegisterMethodKeeps ==
  ASSUME HandlersOK, TableOK, NEW client_id \in Clients, NEW id \in HandlerRpcs,
         NEW method \in DOMAIN Methods, NEW argSpec,
         AddMethodHandler(client_id, id, method, argSpec)
  PROVE  HandlersOK' /\ TableOK'
<1> DEFINE h == Handler(id, "method", argSpec, client_id)
           handler == Bind(h, "prototype", Methods[method])
<1>1. handler.id = id /\ handler.kind = "method" /\ handler.client_id = client_id
  BY DEF Bind, Handler
<1>2. IsNew(handler)
  BY <1>1 DEF IsNew
<1>3. Store(handler)
  BY DEF AddMethodHandler
<1> HIDE DEF handler
<1> QED BY <1>2, <1>3, StoreKeeps DEF AddMethodHandler

LEMMA RegisterKeeps ==
  ASSUME HandlersOK, TableOK, NEW rpc \in RpcTable, registerRpc(rpc)
  PROVE  HandlersOK' /\ TableOK'
<1>1. HandlersOK'
  BY DEF registerRpc, HandlersOK, IsInternal
<1>2. /\ DOMAIN m_procedures' = DOMAIN m_procedures \cup {rpc.name}
      /\ m_procedures'[rpc.name] = [id |-> rpc.id, argSpec |-> rpc.argSpec]
      /\ \A name \in DOMAIN m_procedures : m_procedures'[name] = m_procedures[name]
  BY DEF registerRpc, Bind
<1>3. rpc.id \in Nat /\ IsLine(rpc.id, rpc.argSpec)
  BY DispatcherAssumption DEF IsLine
<1>4. ASSUME NEW name \in DOMAIN m_procedures'
      PROVE  /\ m_procedures'[name].id \in Nat
             /\ IsLine(m_procedures'[name].id, m_procedures'[name].argSpec)
  BY <1>2, <1>3 DEF TableOK
<1>5. UNCHANGED m_handlers
  BY DEF registerRpc
<1> QED BY <1>1, <1>4, <1>5 DEF TableOK

----------------------------------------------------------------------------
(***************************************************************************)
(* Packages: what is pushed, byte by byte, and what is read from there.    *)
(***************************************************************************)
Types == {"c", "s", "i", "d", "L"}
ByteSet(W) == {<<w, k>> : w \in W \cup {Number("s", length) : length \in Nat}, k \in Nat}

LEMMA WidthIsNatural ==
  \A type \in Types \ {"L"} : Width(type) \in Nat /\ Width(type) > 0 /\ Advance(type) = Width(type)
BY DEF Types, Width, Advance

LEMMA AdvanceIsNatural == \A type \in Types : Advance(type) \in Nat
BY WidthIsNatural DEF Advance, Width, Types

LEMMA ContentType ==
  ASSUME NEW W, NEW w, w \in W \/ (\E length \in Nat : w = Number("s", length)), IsArgument(w)
  PROVE  /\ Content(w) \in Seq(ByteSet(W))
         /\ Len(Content(w)) = IF w.type = "L" THEN w.length ELSE Width(w.type)
         /\ \A k \in 1..Len(Content(w)) : Content(w)[k] = <<w, k>>
<1> DEFINE n == IF w.type = "L" THEN w.length ELSE Width(w.type)
<1>1. n \in Nat
  BY WidthIsNatural DEF IsArgument, Types
<1>2. \A k \in 1..n : <<w, k>> \in ByteSet(W)
  BY <1>1 DEF ByteSet
<1>3. Content(w) = [k \in 1..n |-> <<w, k>>]
  BY DEF Content
<1> HIDE DEF n
<1>4. Content(w) \in Seq(ByteSet(W)) /\ Len(Content(w)) = n
  <2>1. Content(w) \in [1..n -> ByteSet(W)]
    BY <1>2, <1>3
  <2>2. Content(w) \in Seq(ByteSet(W))
    BY <1>1, <2>1, SeqDef
  <2>3. DOMAIN Content(w) = 1..n
    BY <1>3
  <2> QED BY <1>1, <2>2, <2>3, LenProperties
<1> QED BY <1>3, <1>4 DEF n

LEMMA NumberIsArgument ==
  \A length \in Nat :
    /\ IsArgument(Number("s", length)) /\ Number("s", length).type = "s"
    /\ Number("s", length).val = length
BY DEF IsArgument, Number

LEMMA BytesType ==
  ASSUME NEW W, NEW w \in W, IsArgument(w)
  PROVE  /\ Bytes(w) \in Seq(ByteSet(W))
         /\ w.type # "L" => Bytes(w) = Content(w)
         /\ w.type = "L" => Bytes(w) = Content(Number("s", w.length)) \o Content(w)
<1>1. Content(w) \in Seq(ByteSet(W))
  BY ContentType
<1>2. w.type = "L" => Content(Number("s", w.length)) \in Seq(ByteSet(W))
  BY ContentType, NumberIsArgument DEF IsArgument
<1> QED BY <1>1, <1>2, ConcatProperties DEF Bytes

(* A value is read from where its bytes are.                               *)
LEMMA ReadFinds ==
  ASSUME NEW w, NEW n \in Nat, n > 0, Content(w) = [k \in 1..n |-> <<w, k>>],
         NEW B, NEW data \in Seq(B), NEW offset \in Nat, offset + n <= Len(data),
         \A k \in 1..n : data[offset + k] = <<w, k>>
  PROVE  IsThere(w.type, data, offset, n) /\ Read(w.type, data, offset, n) = w
<1> DEFINE bytes == SubSeq(data, offset + 1, offset + n)
<1>1. bytes = [k \in 1..n |-> data[offset + k]]
  <2>1. /\ bytes \in Seq(B)
        /\ Len(bytes) = n
        /\ \A k \in 1..n : bytes[k] = data[offset + k]
    <3>1. offset + 1 \in 1..(Len(data) + 1) /\ offset + n \in offset..Len(data) /\ Len(data) \in Nat
      BY LenProperties
    <3>2. (offset + n) - (offset + 1) + 1 = n /\ \A k \in 1..n : (offset + 1) + k - 1 = offset + k
      OBVIOUS
    <3> QED BY <3>1, <3>2, SubSeqProperties
  <2> HIDE DEF bytes
  <2>2. bytes = [k \in 1..n |-> bytes[k]]
    BY <2>1
  <2> QED BY <2>1, <2>2
<1> HIDE DEF bytes
<1>2. bytes = Content(w)
  BY <1>1
<1>3. 1 \in 1..n
  OBVIOUS
<1>4. bytes[1] = <<w, 1>> /\ data[offset + 1] = <<w, 1>>
  BY <1>1, <1>3
<1>5. bytes[1][1] = w /\ data[offset + 1][1] = w
  BY <1>4
<1>6. IsValue(w.type, bytes)
  BY <1>2, <1>5 DEF IsValue
<1>7. IsThere(w.type, data, offset, n)
  BY <1>6 DEF IsThere, bytes
<1> QED BY <1>5, <1>7 DEF Read

(* The offsets of the pops. *)
LEMMA OffsetsAdvance ==
  ASSUME NEW argSpec \in Seq(Types)
  PROVE  LET offset == ReadOffsets(argSpec)
         IN  /\ offset[0] = 0 /\ \A n \in 0..Len(argSpec) : offset[n] \in Nat
             /\ \A n \in 1..Len(argSpec) : offset[n] = offset[n - 1] + Advance(argSpec[n])
<1> DEFINE n == Len(argSpec)
           step == [p \in (1..n) \X Nat |-> p[2] + Advance(argSpec[p[1]])]
           Loop(f) == f = [k \in 0..n |-> IF k = 0 THEN 0 ELSE f[k - 1] + Advance(argSpec[k])]
<1>1. n \in Nat /\ \A k \in 1..n : Advance(argSpec[k]) \in Nat
  BY LenProperties, ElementOfSeq, AdvanceIsNatural
<1>2. ReadOffsets(argSpec) = CHOOSE f : Loop(f)
  BY DEF ReadOffsets
<1> HIDE DEF n
<1>3. step \in [(1..n) \X Nat -> Nat]
      /\ \A k \in 1..n, x \in Nat : step[<<k, x>>] = x + Advance(argSpec[k])
  BY <1>1
<1> HIDE DEF step
<1>4. PICK f \in [0..n -> Nat] : IsRecursive(f, n, 0, step)
  BY <1>1, <1>3, RecursionExists
<1>5. ASSUME NEW k \in 0..n PROVE f[k] = IF k = 0 THEN 0 ELSE f[k - 1] + Advance(argSpec[k])
  <2>1. CASE k = 0
    BY <1>4, <2>1 DEF IsRecursive
  <2>2. CASE k # 0
    <3>1. k \in 1..n /\ k - 1 \in 0..n
      BY <1>1, <2>2
    <3>2. f[k - 1] \in Nat /\ f[k] = step[<<k, f[k - 1]>>]
      BY <1>4, <3>1 DEF IsRecursive
    <3> QED BY <1>3, <2>2, <3>1, <3>2
  <2> QED BY <2>1, <2>2
<1>6. Loop(f)
  BY <1>5
<1>7. Loop(ReadOffsets(argSpec))
  <2> HIDE DEF Loop
  <2> QED BY <1>2, <1>6
<1> DEFINE g == ReadOffsets(argSpec)
           T == {k \in 0..n : g[k] \in Nat}
<1>8. \A k \in 0..n : g[k] = IF k = 0 THEN 0 ELSE g[k - 1] + Advance(argSpec[k])
  BY <1>7
<1> HIDE DEF Loop, g
<1>9. g[0] = 0 /\ 0 \in T
  <2>1. 0 \in 0..n
    BY <1>1
  <2> QED BY <1>8, <2>1
<1>10. \A k \in 1..n : g[k] = g[k - 1] + Advance(argSpec[k])
  <2>1. \A k \in 1..n : k \in 0..n /\ k # 0
    BY <1>1
  <2> QED BY <1>8, <2>1
<1>11. ASSUME NEW k \in 0..(n - 1), k \in T PROVE k + 1 \in T
  <2>1. k + 1 \in 1..n /\ k + 1 \in 0..n /\ (k + 1) - 1 = k
    BY <1>1
  <2>2. g[k + 1] = g[k] + Advance(argSpec[k + 1]) /\ Advance(argSpec[k + 1]) \in Nat
    BY <1>1, <1>10, <2>1
  <2> QED BY <1>11, <2>1, <2>2
<1> HIDE DEF T
<1>12. 0..n \subseteq T
  BY <1>1, <1>9, <1>11, IntervalInduction
<1>13. \A k \in 0..n : g[k] \in Nat
  BY <1>12 DEF T
<1> QED BY <1>9, <1>10, <1>13 DEF g, n

(* The packages the arguments are pushed into one after the other. *)
Packages(W) == [data : Seq(ByteSet(W)), argString : Seq(Types), m_validPackage : BOOLEAN]

LEMMA PushProperties ==
  ASSUME NEW W, NEW p \in Packages(W), NEW w \in W, IsArgument(w)
  PROVE  /\ push(p, w) \in Packages(W)
         /\ \/ push(p, w).argString = p.argString
            \/ /\ push(p, w).argString = Append(p.argString, w.type)
               /\ push(p, w).data = p.data \o Bytes(w)
<1>1. Bytes(w) \in Seq(ByteSet(W)) /\ w.type \in Types
  BY BytesType DEF IsArgument, Types
<1>2. p.data \in Seq(ByteSet(W)) /\ p.argString \in Seq(Types) /\ p.m_validPackage \in BOOLEAN
  BY DEF Packages
<1>3. p.data \o Bytes(w) \in Seq(ByteSet(W)) /\ Append(p.argString, w.type) \in Seq(Types)
  BY <1>1, <1>2, ConcatProperties, AppendProperties
<1>4. CASE Len(p.data) + Len(Bytes(w)) > MaxRpcDataSize
  <2>1. push(p, w) = [p EXCEPT !.m_validPackage = FALSE]
    BY <1>4 DEF push
  <2> QED BY <2>1 DEF Packages
<1>5. CASE ~(Len(p.data) + Len(Bytes(w)) > MaxRpcDataSize)
  <2>1. push(p, w) = [p EXCEPT !.data = p.data \o Bytes(w),
                               !.argString = Append(p.argString, w.type)]
    BY <1>5 DEF push
  <2> HIDE DEF push
  <2> QED BY <1>2, <1>3, <2>1 DEF Packages
<1> QED BY <1>4, <1>5

IsPushing(p, args) ==
  /\ p[0] = EmptyPackage
  /\ \A k \in 1..Len(args) : p[k] = push(p[k - 1], args[k])

LEMMA PackageIsPushed ==
  ASSUME NEW W, NEW args \in Seq(W), \A i \in 1..Len(args) : IsArgument(args[i])
  PROVE  \E p \in [0..Len(args) -> Packages(W)] :
           IsPushing(p, args) /\ PackageOf(args) = p[Len(args)]
<1> DEFINE n == Len(args)
           V == Packages(W)
           Folds(f) == f = [s \in SUBSET DOMAIN args |->
                              IF s = {} THEN EmptyPackage ELSE push(f[s \ {Max(s)}], args[Max(s)])]
           step == [q \in (1..n) \X V |-> push(q[2], args[q[1]])]
           h == CHOOSE f : Folds(f)
<1>1. n \in Nat /\ DOMAIN args = 1..n /\ \A k \in 1..n : args[k] \in W /\ IsArgument(args[k])
  BY LenProperties, ElementOfSeq
<1>2. PackageOf(args) = h[1..n]
  <2>1. PackageOf(args) = FoldLeft(push, EmptyPackage, args)
    BY DEF PackageOf
  <2>2. FoldLeft(push, EmptyPackage, args) = h[DOMAIN args]
    BY DEF FoldLeft, MapThenFoldSet
  <2> QED BY <1>1, <2>1, <2>2
<1>3. EmptyPackage \in V
  BY EmptySeq DEF EmptyPackage, Packages
<1> HIDE DEF n, h
<1>4. \A k \in 1..n, x \in V : push(x, args[k]) \in V
  BY <1>1, PushProperties
<1> HIDE DEF V
<1>5. step \in [(1..n) \X V -> V] /\ \A k \in 1..n, x \in V : step[<<k, x>>] = push(x, args[k])
  BY <1>4
<1> HIDE DEF step
<1>6. PICK f \in [SUBSET (1..n) -> V] : IsFold(f, n, EmptyPackage, step)
  BY <1>1, <1>3, <1>5, FoldExists
<1>7. Folds(f)
  <2>1. ASSUME NEW s \in SUBSET (1..n), s # {}
        PROVE  step[<<Max(s), f[s \ {Max(s)}]>>] = push(f[s \ {Max(s)}], args[Max(s)])
    <3>1. Max(s) \in 1..n
      BY <1>1, <2>1, MaxProperties
    <3>2. f[s \ {Max(s)}] \in V
      OBVIOUS
    <3> QED BY <1>5, <3>1, <3>2
  <2> QED BY <1>1, <1>6, <2>1 DEF IsFold
<1>8. Folds(h)
  BY <1>7 DEF h
<1>9. \A s \in SUBSET (1..n) :
        h[s] = IF s = {} THEN EmptyPackage ELSE push(h[s \ {Max(s)}], args[Max(s)])
  BY <1>1, <1>8
<1> HIDE DEF Folds
<1>10. ASSUME NEW k \in 1..n PROVE h[1..k] = push(h[1..(k - 1)], args[k])
  <2>0. k \in Nat /\ 1 <= k /\ k <= n
    BY <1>1
  <2>1. k \in 1..k /\ 1..k \in SUBSET (1..k) /\ 1..k # {}
    <3>1. k \in 1..k
      BY <2>0
    <3> QED BY <3>1
  <2>2. Max(1..k) \in 1..k /\ Max(1..k) >= k
    BY <2>0, <2>1, MaxProperties
  <2>3. Max(1..k) = k
    BY <2>0, <2>2
  <2>4. (1..k) \ {k} = 1..(k - 1) /\ 1..k \in SUBSET (1..n)
    <3>1. \A j \in Int : j \in 1..k /\ j # k <=> j \in 1..(k - 1)
      BY <2>0
    <3>2. (1..k) \ {k} = 1..(k - 1)
      BY <3>1
    <3>3. \A j \in 1..k : j \in 1..n
      BY <1>1, <2>0
    <3> QED BY <3>2, <3>3
  <2> QED BY <1>9, <2>1, <2>3, <2>4
<1> DEFINE T == {k \in 0..n : h[1..k] \in V}
<1>11. h[1..0] = EmptyPackage /\ 0 \in T
  <2>1. 1..0 = {} /\ 1..0 \in SUBSET (1..n) /\ 0 \in 0..n
    BY <1>1
  <2> QED BY <1>3, <1>9, <2>1
<1>12. ASSUME NEW k \in 0..(n - 1), k \in T PROVE k + 1 \in T
  <2>1. k + 1 \in 1..n /\ k + 1 \in 0..n /\ (k + 1) - 1 = k
    BY <1>1
  <2>2. h[1..(k + 1)] = push(h[1..k], args[k + 1])
    BY <1>10, <2>1
  <2> QED BY <1>4, <1>12, <2>1, <2>2
<1> HIDE DEF T
<1>13. 0..n \subseteq T
  BY <1>1, <1>11, <1>12, IntervalInduction
<1> DEFINE p == [k \in 0..n |-> h[1..k]]
<1>14. p \in [0..n -> V] /\ p[n] = h[1..n] /\ p[0] = EmptyPackage
  <2>1. \A k \in 0..n : h[1..k] \in V
    BY <1>13 DEF T
  <2>2. n \in 0..n /\ 0 \in 0..n
    BY <1>1
  <2> QED BY <1>11, <2>1, <2>2
<1>15. \A k \in 1..n : p[k] = push(p[k - 1], args[k])
  <2>1. \A k \in 1..n : k \in 0..n /\ k - 1 \in 0..n
    BY <1>1
  <2> QED BY <1>10, <2>1
<1> HIDE DEF p
<1>16. p \in [0..n -> V] /\ IsPushing(p, args) /\ PackageOf(args) = p[n]
  BY <1>2, <1>14, <1>15 DEF IsPushing, n
<1> QED BY <1>16 DEF n, V

----------------------------------------------------------------------------
(* Until the first string the offset of a pop is where the bytes of the    *)
(* argument are, if every argument before it has found place.              *)
Plain(args, i) == \A j \in 1..(i - 1) : args[j].type # "L"

LiesAt(data, offset, w) ==
  /\ offset + Len(Bytes(w)) <= Len(data)
  /\ \A b \in 1..Len(Bytes(w)) : data[offset + b] = Bytes(w)[b]

PushedOK(p, offset, args, k) ==
  /\ Len(p.argString) <= k
  /\ Len(p.argString) = k =>
       /\ \A i \in 1..k : Plain(args, i) => LiesAt(p.data, offset[i - 1], args[i])
       /\ Plain(args, k + 1) => Len(p.data) = offset[k]

LEMMA PushKeepsBytes ==
  ASSUME NEW W, NEW args \in Seq(W), NEW k \in 0..(Len(args) - 1),
         \A i \in 1..Len(args) : IsArgument(args[i]),
         NEW offset \in [0..Len(args) -> Nat],
         \A n \in 1..Len(args) : offset[n] = offset[n - 1] + Advance(args[n].type),
         NEW p \in Packages(W), PushedOK(p, offset, args, k),
         NEW q, q = push(p, args[k + 1])
  PROVE  PushedOK(q, offset, args, k + 1)
<1> DEFINE w == args[k + 1]
           bytes == Bytes(w)
<1>1. /\ Len(args) \in Nat /\ k \in Nat /\ k + 1 \in 1..Len(args) /\ k \in 0..Len(args)
      /\ (k + 1) - 1 = k
  BY LenProperties
<1>2. w \in W /\ IsArgument(w)
  BY <1>1, ElementOfSeq
<1>3. q.argString = p.argString \/ (q.argString = Append(p.argString, w.type) /\ q.data = p.data \o bytes)
  BY <1>2, PushProperties
<1>4. /\ p.data \in Seq(ByteSet(W)) /\ p.argString \in Seq(Types)
      /\ bytes \in Seq(ByteSet(W)) /\ w.type \in Types
  BY <1>2, BytesType DEF Packages, IsArgument, Types
<1>5. Len(p.argString) \in Nat /\ Len(p.argString) <= k
  BY <1>4, LenProperties DEF PushedOK
<1>6. CASE q.argString = p.argString
  <2>1. Len(q.argString) <= k
    BY <1>5, <1>6
  <2>2. Len(q.argString) <= k + 1 /\ Len(q.argString) # k + 1
    BY <1>1, <1>5, <1>6, <2>1
  <2> QED BY <2>2 DEF PushedOK
<1>7. CASE q.argString = Append(p.argString, w.type) /\ q.data = p.data \o bytes
  <2>1. Len(q.argString) = Len(p.argString) + 1
    BY <1>4, <1>7, AppendProperties
  <2>2. Len(q.argString) <= k + 1
    BY <1>1, <1>5, <2>1
  <2>3. /\ Len(p.data) \in Nat /\ Len(bytes) \in Nat /\ Len(q.data) = Len(p.data) + Len(bytes)
        /\ \A j \in 1..Len(p.data) : q.data[j] = p.data[j]
        /\ \A b \in 1..Len(bytes) : q.data[Len(p.data) + b] = bytes[b]
    <3> HIDE DEF bytes
    <3>1. Len(p.data) \in Nat /\ Len(bytes) \in Nat
      BY <1>4, LenProperties
    <3>2. /\ Len(q.data) = Len(p.data) + Len(bytes)
          /\ \A i \in 1..(Len(p.data) + Len(bytes)) :
               q.data[i] = IF i <= Len(p.data) THEN p.data[i] ELSE bytes[i - Len(p.data)]
      BY <1>4, <1>7, ConcatProperties
    <3>3. \A j \in 1..Len(p.data) : j \in 1..(Len(p.data) + Len(bytes)) /\ j <= Len(p.data)
      BY <3>1
    <3>4. \A b \in 1..Len(bytes) : /\ Len(p.data) + b \in 1..(Len(p.data) + Len(bytes))
                                   /\ ~(Len(p.data) + b <= Len(p.data))
                                   /\ (Len(p.data) + b) - Len(p.data) = b
      BY <3>1
    <3> QED BY <3>1, <3>2, <3>3, <3>4
  <2> HIDE DEF w, bytes
  <2>4. ASSUME Len(q.argString) = k + 1
        PROVE  /\ \A i \in 1..(k + 1) : Plain(args, i) => LiesAt(q.data, offset[i - 1], args[i])
               /\ Plain(args, (k + 1) + 1) => Len(q.data) = offset[k + 1]
    <3>1. Len(p.argString) = k
      BY <1>1, <1>5, <2>1, <2>4
    <3>2. /\ \A i \in 1..k : Plain(args, i) => LiesAt(p.data, offset[i - 1], args[i])
          /\ Plain(args, k + 1) => Len(p.data) = offset[k]
      BY <3>1 DEF PushedOK
    <3>3. ASSUME NEW i \in 1..k, Plain(args, i) PROVE LiesAt(q.data, offset[i - 1], args[i])
      <4>1. LiesAt(p.data, offset[i - 1], args[i])
        BY <3>2, <3>3
      <4>2. i \in 1..Len(args) /\ i - 1 \in 0..Len(args)
        BY <1>1
      <4>3. offset[i - 1] \in Nat /\ Len(Bytes(args[i])) \in Nat
        <5>1. Bytes(args[i]) \in Seq(ByteSet(W))
          BY <4>2, BytesType, ElementOfSeq
        <5> QED BY <4>2, <5>1, LenProperties
      <4>4. \A b \in 1..Len(Bytes(args[i])) : offset[i - 1] + b \in 1..Len(p.data)
        <5>1. offset[i - 1] + Len(Bytes(args[i])) <= Len(p.data) /\ Len(p.data) \in Nat
          BY <2>3, <4>1 DEF LiesAt
        <5> QED BY <4>3, <5>1
      <4>5. offset[i - 1] + Len(Bytes(args[i])) <= Len(q.data)
        BY <2>3, <4>1, <4>3 DEF LiesAt
      <4> QED BY <2>3, <4>1, <4>4, <4>5 DEF LiesAt
    <3>4. ASSUME Plain(args, k + 1) PROVE LiesAt(q.data, offset[k], w)
      <4>1. Len(p.data) = offset[k]
        BY <3>2, <3>4
      <4> QED BY <2>3, <4>1 DEF LiesAt, bytes
    <3>5. ASSUME Plain(args, (k + 1) + 1) PROVE Len(q.data) = offset[k + 1]
      <4>1. Plain(args, k + 1) /\ w.type # "L"
        <5>1. k + 1 \in 1..(((k + 1) + 1) - 1) /\ \A j \in 1..((k + 1) - 1) : j \in 1..(((k + 1) + 1) - 1)
          BY <1>1
        <5> QED BY <3>5, <5>1 DEF Plain, w
      <4>2. Len(p.data) = offset[k]
        BY <3>2, <4>1
      <4>3. Len(bytes) = Width(w.type) /\ Advance(w.type) = Width(w.type)
        <5>1. bytes = Content(w)
          BY <1>2, <4>1, BytesType DEF bytes
        <5> QED BY <1>2, <1>4, <4>1, <5>1, ContentType, WidthIsNatural
      <4>4. offset[k + 1] = offset[k] + Advance(w.type)
        BY <1>1 DEF w
      <4> QED BY <2>3, <4>2, <4>3, <4>4
    <3>6. ASSUME NEW i \in 1..(k + 1), Plain(args, i) PROVE LiesAt(q.data, offset[i - 1], args[i])
      <4>1. CASE i \in 1..k
        BY <3>3, <3>6, <4>1
      <4>2. CASE i = k + 1
        BY <1>1, <3>4, <3>6, <4>2 DEF w
      <4> QED BY <1>1, <4>1, <4>2
    <3> QED BY <3>5, <3>6
  <2> QED BY <2>2, <2>4 DEF PushedOK
<1> QED BY <1>3, <1>6, <1>7

(* The arguments of a call that is sent at all, read with its own types.   *)
LEMMA ArgsArrive ==
  ASSUME NEW args, args \in Seq(ToSet(args)), \A i \in DOMAIN args : IsArgument(args[i]),
         AllPushed(args),
         NEW i \in DOMAIN args, Plain(args, i)
  PROVE  PopAll(PackageOf(args).data, TypesOf(args))[i] = args[i]
<1> DEFINE n == Len(args)
           W == ToSet(args)
           argSpec == TypesOf(args)
           data == PackageOf(args).data
           w == args[i]
<1>1. n \in Nat /\ DOMAIN args = 1..n
  BY LenProperties
<1>2. argSpec \in Seq(Types) /\ Len(argSpec) = n /\ \A k \in 1..n : argSpec[k] = args[k].type
  <2>1. argSpec = [k \in 1..n |-> args[k].type]
    BY <1>1 DEF TypesOf
  <2>2. \A k \in 1..n : args[k].type \in Types
    BY <1>1 DEF IsArgument, Types
  <2> HIDE DEF argSpec
  <2>3. argSpec \in [1..n -> Types] /\ DOMAIN argSpec = 1..n
    BY <2>1, <2>2
  <2>4. argSpec \in Seq(Types)
    BY <1>1, <2>3, SeqDef
  <2> QED BY <1>1, <2>1, <2>3, <2>4, LenProperties
<1> DEFINE offset == [k \in 0..n |-> ReadOffsets(argSpec)[k]]
<1>3. /\ offset \in [0..n -> Nat] /\ offset[0] = 0
      /\ \A k \in 1..n : offset[k] = offset[k - 1] + Advance(args[k].type)
      /\ \A k \in 0..n : offset[k] = ReadOffsets(argSpec)[k]
  <2> HIDE DEF argSpec
  <2>1. /\ ReadOffsets(argSpec)[0] = 0 /\ \A k \in 0..n : ReadOffsets(argSpec)[k] \in Nat
        /\ \A k \in 1..n : ReadOffsets(argSpec)[k] = ReadOffsets(argSpec)[k - 1] + Advance(argSpec[k])
    BY <1>2, OffsetsAdvance
  <2>2. 0 \in 0..n /\ \A k \in 1..n : k \in 0..n /\ k - 1 \in 0..n
    BY <1>1
  <2> QED BY <1>2, <2>1, <2>2
<1>4. PICK p \in [0..n -> Packages(W)] : IsPushing(p, args) /\ PackageOf(args) = p[n]
  BY <1>1, PackageIsPushed
<1> HIDE DEF argSpec, offset, W, data, n
<1> DEFINE T == {k \in 0..n : PushedOK(p[k], offset, args, k)}
<1>5. 0 \in T
  <2>1. p[0].argString = <<>> /\ p[0].data = <<>>
    BY <1>4 DEF IsPushing, EmptyPackage
  <2>2. Len(p[0].argString) = 0 /\ Len(p[0].data) = 0 /\ 0 \in 0..n
    BY <1>1, <2>1, EmptySeq
  <2> QED BY <1>3, <2>2 DEF PushedOK
<1>6. ASSUME NEW k \in 0..(n - 1), k \in T PROVE k + 1 \in T
  <2>1. k + 1 \in 1..n /\ k + 1 \in 0..n /\ (k + 1) - 1 = k /\ k \in 0..n
    BY <1>1
  <2>2. p[k + 1] = push(p[k], args[k + 1]) /\ p[k] \in Packages(W)
    BY <1>4, <2>1 DEF IsPushing, n
  <2>3. PushedOK(p[k], offset, args, k)
    BY <1>6
  <2>4. PushedOK(p[k + 1], offset, args, k + 1)
    BY <1>1, <1>3, <2>2, <2>3, PushKeepsBytes DEF n, W
  <2> QED BY <2>1, <2>4
<1> HIDE DEF T
<1>7. PushedOK(p[n], offset, args, n)
  <2>1. 0..n \subseteq T
    BY <1>1, <1>5, <1>6, IntervalInduction
  <2> QED BY <1>1, <2>1 DEF T
<1>8. Len(p[n].argString) = n
  BY <1>2, <1>4 DEF AllPushed, argSpec
<1>9. LiesAt(data, offset[i - 1], w) /\ data \in Seq(ByteSet(W)) /\ offset[i - 1] \in Nat
  <2>1. i \in 1..n /\ i - 1 \in 0..n /\ n \in 0..n
    BY <1>1
  <2>2. data = p[n].data /\ p[n] \in Packages(W)
    BY <1>4, <2>1 DEF data
  <2> QED BY <1>3, <1>7, <1>8, <2>1, <2>2 DEF PushedOK, Packages
<1>10. w \in W /\ IsArgument(w)
  BY DEF W, ToSet
<1>11. PopAll(data, argSpec)[i] = IF w.type = "L" THEN ReadText(data, offset[i - 1])
                                  ELSE ReadNumber(w.type, data, offset[i - 1])
  <2>1. i \in 1..n /\ i - 1 \in 0..n /\ DOMAIN argSpec = 1..n
    BY <1>1, <1>2, LenProperties
  <2> QED BY <1>2, <1>3, <2>1 DEF PopAll
<1> DEFINE at == offset[i - 1]
<1>12. at \in Nat /\ LiesAt(data, at, w) /\ Len(data) \in Nat /\ data \in Seq(ByteSet(W))
  BY <1>9, LenProperties
<1>13. PopAll(data, argSpec)[i] = IF w.type = "L" THEN ReadText(data, at) ELSE ReadNumber(w.type, data, at)
  BY <1>11
<1> HIDE DEF at, w
<1>14. CASE w.type # "L"
  <2> DEFINE m == Width(w.type)
  <2>1. Bytes(w) = Content(w) /\ m \in Nat /\ m > 0
    BY <1>10, <1>14, BytesType, WidthIsNatural DEF IsArgument, Types
  <2>2. Content(w) = [k \in 1..m |-> <<w, k>>] /\ Len(Content(w)) = m
    <3>1. Content(w) = [k \in 1..m |-> <<w, k>>]
      BY <1>14 DEF Content
    <3>2. Len(Content(w)) = m
      BY <1>10, <1>14, ContentType
    <3> QED BY <3>1, <3>2
  <2> HIDE DEF m
  <2>3. at + m <= Len(data) /\ \A k \in 1..m : data[at + k] = <<w, k>>
    BY <1>12, <2>1, <2>2 DEF LiesAt
  <2>4. Read(w.type, data, at, m) = w
    BY <1>12, <2>1, <2>2, <2>3, ReadFinds
  <2>5. PopAll(data, argSpec)[i] = w
    BY <1>13, <1>14, <2>4 DEF ReadNumber, m
  <2> QED BY <2>5 DEF data, argSpec, w
<1>15. CASE w.type = "L"
  <2> DEFINE strlen == Number("s", w.length)
  <2>1. /\ w.length \in Nat /\ (w.length = 0 => w = EmptyText)
        /\ Bytes(w) = Content(strlen) \o Content(w)
        /\ strlen.type = "s" /\ strlen.val = w.length /\ IsArgument(strlen)
    BY <1>10, <1>15, BytesType, NumberIsArgument DEF IsArgument
  <2>2. /\ Content(strlen) = [k \in 1..2 |-> <<strlen, k>>] /\ Len(Content(strlen)) = 2
        /\ \A k \in 1..2 : Content(strlen)[k] = <<strlen, k>>
        /\ Content(strlen) \in Seq(ByteSet(W)) /\ Width("s") = 2
    <3>1. Width("s") = 2
      BY DEF Width
    <3>2. Content(strlen) = [k \in 1..2 |-> <<strlen, k>>]
      BY <2>1, <3>1 DEF Content
    <3>3. Len(Content(strlen)) = 2 /\ Content(strlen) \in Seq(ByteSet(W))
      BY <2>1, <3>1, ContentType
    <3> HIDE DEF strlen
    <3> QED BY <3>1, <3>2, <3>3
  <2>3. /\ Content(w) = [k \in 1..w.length |-> <<w, k>>] /\ Len(Content(w)) = w.length
        /\ \A k \in 1..w.length : Content(w)[k] = <<w, k>>
        /\ Content(w) \in Seq(ByteSet(W))
    <3>1. Content(w) = [k \in 1..w.length |-> <<w, k>>]
      BY <1>15 DEF Content
    <3>2. Len(Content(w)) = w.length /\ Content(w) \in Seq(ByteSet(W))
      BY <1>10, <1>15, ContentType
    <3> QED BY <3>1, <3>2
  <2> HIDE DEF strlen
  <2>4. /\ Len(Bytes(w)) = 2 + w.length
        /\ \A k \in 1..2 : Bytes(w)[k] = <<strlen, k>>
        /\ \A k \in 1..w.length : Bytes(w)[2 + k] = <<w, k>>
    <3>1. /\ Len(Bytes(w)) = 2 + w.length
          /\ \A k \in 1..(2 + w.length) :
               Bytes(w)[k] = IF k <= 2 THEN Content(strlen)[k] ELSE Content(w)[k - 2]
      BY <2>1, <2>2, <2>3, ConcatProperties
    <3>2. \A k \in 1..2 : k \in 1..(2 + w.length) /\ k <= 2
      <4>1. w.length \in Nat
        BY <2>1
      <4> QED BY <4>1
    <3>3. \A k \in 1..w.length : 2 + k \in 1..(2 + w.length) /\ ~(2 + k <= 2) /\ (2 + k) - 2 = k
      <4>1. w.length \in Nat
        BY <2>1
      <4> QED BY <4>1
    <3> QED BY <2>2, <2>3, <3>1, <3>2, <3>3
  <2> DEFINE len == w.length
  <2>5. /\ len \in Nat /\ at + (2 + len) <= Len(data)
        /\ \A b \in 1..(2 + len) : data[at + b] = Bytes(w)[b]
    BY <1>12, <2>1, <2>4 DEF LiesAt
  <2>6. /\ \A k \in 1..2 : Bytes(w)[k] = <<strlen, k>>
        /\ \A k \in 1..len : Bytes(w)[2 + k] = <<w, k>>
        /\ Content(w) = [k \in 1..len |-> <<w, k>>]
        /\ (len = 0 => w = EmptyText) /\ strlen.val = len
    BY <2>1, <2>3, <2>4
  <2> HIDE DEF len
  <2>7. at + 2 <= Len(data) /\ \A k \in 1..2 : data[at + k] = <<strlen, k>>
    <3>1. \A k \in 1..2 : k \in 1..(2 + len)
      BY <2>5
    <3>2. at + 2 <= Len(data)
      BY <1>12, <2>5
    <3> QED BY <2>5, <2>6, <3>1, <3>2
  <2>8. IsThere("s", data, at, 2) /\ Read("s", data, at, 2) = strlen
    <3> DEFINE m == 2
    <3>1. /\ m \in Nat /\ m > 0 /\ at + m <= Len(data)
          /\ Content(strlen) = [k \in 1..m |-> <<strlen, k>>]
          /\ \A k \in 1..m : data[at + k] = <<strlen, k>>
      BY <2>2, <2>7
    <3> HIDE DEF m
    <3>2. IsThere(strlen.type, data, at, m) /\ Read(strlen.type, data, at, m) = strlen
      BY <1>12, <3>1, ReadFinds
    <3> QED BY <2>1, <3>2 DEF m
  <2>9. ReadText(data, at) = IF len = 0 THEN EmptyText ELSE Read("L", data, at + 2, len)
    BY <2>2, <2>6, <2>8 DEF ReadText, ReadNumber
  <2>10. ReadText(data, at) = w
    <3>1. CASE len = 0
      BY <2>6, <2>9, <3>1
    <3>2. CASE len # 0
      <4>1. at + 2 \in Nat /\ (at + 2) + len <= Len(data) /\ len > 0
        BY <1>12, <2>5, <3>2
      <4>2. \A k \in 1..len : 2 + k \in 1..(2 + len) /\ at + (2 + k) = (at + 2) + k
        BY <1>12, <2>5
      <4>3. \A k \in 1..len : data[(at + 2) + k] = <<w, k>>
        BY <2>5, <2>6, <4>2
      <4>4. Read(w.type, data, at + 2, len) = w
        BY <1>12, <2>5, <2>6, <4>1, <4>3, ReadFinds
      <4> QED BY <1>15, <2>9, <3>2, <4>4
    <3> QED BY <3>1, <3>2
  <2>11. PopAll(data, argSpec)[i] = w
    BY <1>13, <1>15, <2>10
  <2> QED BY <2>11 DEF data, argSpec, w
<1> QED BY <1>14, <1>15

----------------------------------------------------------------------------
(***************************************************************************)
(* The dispatcher's steps.                                                 *)
(***************************************************************************)
(* Every call that arrives was sent whole: it was built from arguments     *)
(* that all fitted in its package (rpcdispatcher.cpp:280-304).             *)
CallOK(call) ==
  /\ call.args \in Seq(ToSet(call.args)) /\ \A i \in DOMAIN call.args : IsArgument(call.args[i])
  /\ AllPushed(call.args) /\ call.data = PackageOf(call.args).data
CallsOK == \A call \in calls : CallOK(call)

DispatcherInv == HandlersOK /\ TableOK /\ CallsOK /\ ArgsIntactToFirstText

LEMMA DispatcherStarts == DispatcherInit => DispatcherInv
<1> SUFFICES ASSUME DispatcherInit PROVE DispatcherInv
  OBVIOUS
<1>1. /\ DOMAIN m_handlers = DOMAIN InternalHandlers
      /\ \A id \in DOMAIN InternalHandlers :
           /\ IsInternal(id) /\ m_handlers[id].id = id /\ m_handlers[id].client_id = 0
           /\ m_handlers[id].kind = "cpp"
  BY DEF DispatcherInit, IsInternal, Handler
<1>2. DOMAIN InternalHandlers \subseteq Nat /\ 0 \in Clients
  BY DispatcherAssumption
<1>3. HandlersOK
  <2>1. DOMAIN returned = {} /\ m_nextHandlerId = 1 /\ up = TRUE
    BY DEF DispatcherInit
  <2>2. 1..(1 - 1) = {}
    OBVIOUS
  <2> QED BY <1>1, <1>2, <2>1, <2>2 DEF HandlersOK
<1>4. TableOK
  <2>1. DOMAIN m_procedures = {}
    BY DEF DispatcherInit
  <2> QED BY <1>1, <2>1 DEF TableOK
<1>5. CallsOK /\ ArgsIntactToFirstText
  BY DEF DispatcherInit, CallsOK, ArgsIntactToFirstText, Nothing
<1> QED BY <1>3, <1>4, <1>5 DEF DispatcherInv

LEMMA ArrivalKeeps ==
  ASSUME DispatcherInv, NEW id, NEW args, Arrives(id, args), AllPushed(args),
         args \in Seq(ToSet(args)), \A i \in DOMAIN args : IsArgument(args[i])
  PROVE  DispatcherInv'
<1>1. UNCHANGED <<m_handlers, m_procedures, m_nextHandlerId, returned, last, up>>
  BY DEF Arrives
<1>2. HandlersOK' /\ TableOK' /\ ArgsIntactToFirstText'
  BY <1>1 DEF DispatcherInv, HandlersOK, TableOK, IsInternal, ArgsIntactToFirstText
<1>3. ASSUME NEW call \in calls' PROVE CallOK(call)
  <2>1. CASE call \in calls
    BY <2>1 DEF DispatcherInv, CallsOK
  <2>2. CASE call = [id |-> id, data |-> PackageOf(args).data, args |-> args]
    <3>1. call.args = args /\ call.data = PackageOf(args).data
      BY <2>2
    <3> QED BY <3>1 DEF CallOK
  <2> QED BY <2>1, <2>2 DEF Arrives
<1> QED BY <1>2, <1>3 DEF DispatcherInv, CallsOK

LEMMA ExecutionKeeps ==
  ASSUME DispatcherInv, NEW sender, NEW call \in calls, executeReceivedCall(sender, call)
  PROVE  DispatcherInv'
<1>1. PICK h \in Found(sender, call.id) :
        /\ last' = [done |-> TRUE, argSpec |-> m_handlers[h].argSpec, sent |-> call.args,
                    args |-> PopAll(call.data, m_handlers[h].argSpec)]
        /\ up' = CanSetArgs(m_handlers[h])
  BY DEF executeReceivedCall
<1>2. UNCHANGED <<m_handlers, m_procedures, m_nextHandlerId, returned, calls>>
  BY DEF executeReceivedCall
<1>3. up' \in BOOLEAN
  BY <1>1 DEF CanSetArgs
<1>4. HandlersOK' /\ TableOK' /\ CallsOK'
  BY <1>2, <1>3 DEF DispatcherInv, HandlersOK, TableOK, IsInternal, CallsOK
<1>5. ArgsIntactToFirstText'
  <2>1. /\ last'.sent = call.args /\ last'.argSpec = m_handlers[h].argSpec
        /\ last'.args = PopAll(call.data, m_handlers[h].argSpec)
    BY <1>1
  <2>2. ASSUME last'.argSpec = TypesOf(last'.sent), NEW i \in DOMAIN last'.sent,
               \A j \in 1..(i - 1) : last'.sent[j].type # "L"
        PROVE  last'.args[i] = last'.sent[i]
    <3>1. CallOK(call)
      BY DEF DispatcherInv, CallsOK
    <3>2. Plain(call.args, i) /\ i \in DOMAIN call.args
      BY <2>1, <2>2 DEF Plain
    <3>3. PopAll(PackageOf(call.args).data, TypesOf(call.args))[i] = call.args[i]
      BY <3>1, <3>2, ArgsArrive DEF CallOK
    <3> QED BY <2>1, <2>2, <3>1, <3>3 DEF CallOK
  <2> QED BY <2>2 DEF ArgsIntactToFirstText
<1> QED BY <1>4, <1>5 DEF DispatcherInv

LEMMA DispatcherStep == DispatcherInv /\ [DispatcherNext]_dispatcherVars => DispatcherInv'
<1> SUFFICES ASSUME DispatcherInv, [DispatcherNext]_dispatcherVars PROVE DispatcherInv'
  OBVIOUS
<1>0. HandlersOK /\ TableOK
  BY DEF DispatcherInv
<1>1. ASSUME HandlersOK', TableOK', UNCHANGED <<calls, last>> PROVE DispatcherInv'
  BY <1>1 DEF DispatcherInv, CallsOK, ArgsIntactToFirstText
<1>2. ASSUME NEW rpc \in RpcTable, registerRpc(rpc) PROVE DispatcherInv'
  <2>1. HandlersOK' /\ TableOK'
    BY <1>0, <1>2, RegisterKeeps
  <2>2. UNCHANGED <<calls, last>>
    BY <1>2 DEF registerRpc
  <2> QED BY <1>1, <2>1, <2>2
<1>3. ASSUME NEW client_id \in Clients, NEW id \in HandlerRpcs, NEW function \in DOMAIN Functions,
             AddFunctionHandler(client_id, id, function)
      PROVE  DispatcherInv'
  <2>1. HandlersOK' /\ TableOK'
    BY <1>0, <1>3, RegisterFunctionKeeps
  <2>2. UNCHANGED <<calls, last>>
    BY <1>3 DEF AddFunctionHandler
  <2> QED BY <1>1, <2>1, <2>2
<1>4. ASSUME NEW client_id \in Clients, NEW id \in HandlerRpcs, NEW method \in DOMAIN Methods,
             NEW argSpec \in HandlerSpecs, AddMethodHandler(client_id, id, method, argSpec)
      PROVE  DispatcherInv'
  <2>1. HandlersOK' /\ TableOK'
    BY <1>0, <1>4, RegisterMethodKeeps
  <2>2. UNCHANGED <<calls, last>>
    BY <1>4 DEF AddMethodHandler
  <2> QED BY <1>1, <2>1, <2>2
<1>5. ASSUME NEW call \in Calls, buildCall(call) PROVE DispatcherInv'
  <2>1. call.args \in Seq(ToSet(call.args)) /\ \A i \in DOMAIN call.args : IsArgument(call.args[i])
    BY DispatcherAssumption
  <2>2. AllPushed(call.args) /\ Arrives(m_procedures[call.name].id, call.args)
    BY <1>5 DEF buildCall
  <2> QED BY <2>1, <2>2, ArrivalKeeps
<1>6. ASSUME NEW call \in InternalCalls, InternalCall(call) PROVE DispatcherInv'
  <2>1. call.args \in Seq(ToSet(call.args)) /\ \A i \in DOMAIN call.args : IsArgument(call.args[i])
    BY DispatcherAssumption
  <2>2. AllPushed(call.args) /\ Arrives(call.id, call.args)
    BY <1>6 DEF InternalCall
  <2> QED BY <2>1, <2>2, ArrivalKeeps
<1>7. ASSUME NEW sender \in Clients, NEW call \in calls, executeReceivedCall(sender, call)
      PROVE  DispatcherInv'
  BY <1>7, ExecutionKeeps
<1>8. CASE UNCHANGED dispatcherVars
  <2>1. UNCHANGED <<m_handlers, m_procedures, m_nextHandlerId, returned, calls, last, up>>
    BY <1>8 DEF dispatcherVars
  <2>2. HandlersOK' /\ TableOK'
    BY <1>0, <2>1 DEF HandlersOK, TableOK, IsInternal
  <2> QED BY <1>1, <2>1, <2>2
<1> QED BY <1>2, <1>3, <1>4, <1>5, <1>6, <1>7, <1>8 DEF DispatcherNext

LEMMA DispatcherInvariant == DispatcherSpec => []DispatcherInv
BY DispatcherStarts, DispatcherStep, PTL DEF DispatcherSpec

(* The dispatcher's state has its type: handler ids are naturals, those    *)
(* that scripts were given are 1 to m_nextHandlerId - 1, and each of them  *)
(* is the key of an entry (rpcdispatcher.cpp:169-248).                     *)
THEOREM DispatcherTypeCorrect == DispatcherSpec => []DispatcherTypeOK
<1>1. DispatcherInv => DispatcherTypeOK
  BY DEF DispatcherInv, HandlersOK, TableOK, DispatcherTypeOK
<1> QED BY <1>1, DispatcherInvariant, PTL

(* What a handler gets whose argSpec is the types of the arguments that    *)
(* were sent: every argument up to the first string, and it, as it was     *)
(* sent.  So only what is popped behind a string is wrong                  *)
(* (rpcpackage.cpp:172-182).                                               *)
THEOREM ArgsAlwaysIntactToFirstText == DispatcherSpec => []ArgsIntactToFirstText
<1>1. DispatcherInv => ArgsIntactToFirstText
  BY DEF DispatcherInv
<1> QED BY <1>1, DispatcherInvariant, PTL

(* Nothing in the code compares the lines of the table with each other:    *)
(* two names may have one id (rpcdispatcher.cpp:260-269).                  *)
OneSpecPerId == \A r1, r2 \in RpcTable : r1.id = r2.id => r1.argSpec = r2.argSpec

(* If an RPC id has one argSpec in the table, a script function that       *)
(* handles it takes those arguments, or none if it was registered before   *)
(* the RPC was (rpcdispatcher.cpp:202-212).                                *)
THEOREM FunctionsAlwaysMatchTable ==
  OneSpecPerId => (DispatcherSpec => []FunctionsMatchTable)
<1> SUFFICES ASSUME OneSpecPerId PROVE DispatcherSpec => []FunctionsMatchTable
  OBVIOUS
<1>1. DispatcherInv => FunctionsMatchTable
  <2> SUFFICES ASSUME TableOK PROVE FunctionsMatchTable
    BY DEF DispatcherInv
  <2>1. ASSUME NEW h \in DOMAIN m_handlers, NEW name \in DOMAIN m_procedures,
               m_handlers[h].kind = "function", m_handlers[h].id = m_procedures[name].id
        PROVE  m_handlers[h].argSpec \in {m_procedures[name].argSpec, <<>>}
    <3>1. m_handlers[h].argSpec = <<>> \/ IsLine(m_handlers[h].id, m_handlers[h].argSpec)
      BY <2>1 DEF TableOK
    <3>2. IsLine(m_handlers[h].id, m_procedures[name].argSpec)
      BY <2>1 DEF TableOK
    <3> QED BY <3>1, <3>2 DEF OneSpecPerId, IsLine
  <2> QED BY <2>1 DEF FunctionsMatchTable
<1> QED BY <1>1, DispatcherInvariant, PTL

(* The C++ handlers the application has registered stay in the table, each *)
(* under its RPC id, until scripts were given that id as a handler id, and *)
(* the one of RPC 0 for good (rpcdispatcher.cpp:178, 213, 246): which ones *)
(* scripts can replace.                                                    *)
InternalHandlersStay ==
  \A id \in DOMAIN InternalHandlers :
    id = 0 \/ id >= m_nextHandlerId => id \in DOMAIN m_handlers /\ IsInternal(id)

THEOREM InternalHandlersAlwaysStay == DispatcherSpec => []InternalHandlersStay
<1>1. DispatcherInv => InternalHandlersStay
  BY DEF DispatcherInv, HandlersOK, InternalHandlersStay
<1> QED BY <1>1, DispatcherInvariant, PTL

(* The handlers of an RPC that scripts may handle are below the next       *)
(* handler id.                                                             *)
LEMMA ScriptHandlersAreBelow ==
  ASSUME HandlersOK, NEW sender, NEW id \in HandlerRpcs, ~IsReserved(id)
  PROVE  \A h \in Matching(sender, id) : h \in Nat /\ h < m_nextHandlerId
<1> SUFFICES ASSUME NEW h \in Matching(sender, id) PROVE h \in Nat /\ h < m_nextHandlerId
  OBVIOUS
<1>1. h \in DOMAIN m_handlers /\ m_handlers[h].id = id
  BY DEF Matching
<1>2. h \in Nat /\ m_nextHandlerId \in Nat /\ (h >= m_nextHandlerId => IsInternal(h))
  BY <1>1 DEF HandlersOK
<1>3. CASE h >= m_nextHandlerId
  <2>1. id = h /\ h \in DOMAIN InternalHandlers
    BY <1>1, <1>2, <1>3 DEF IsInternal, Handler
  <2> QED BY <2>1, DispatcherAssumption DEF IsReserved
<1> QED BY <1>2, <1>3

LEMMA StoreKeepsFound ==
  ASSUME HandlersOK, NEW sender, NEW id \in HandlerRpcs, ~IsReserved(id), NEW handler, Store(handler),
         NEW h \in Found(sender, id)
  PROVE  h \in Found(sender, id)'
<1>1. h \in Matching(sender, id) /\ \A g \in Matching(sender, id) : h <= g
  BY DEF Found
<1>2. \A g \in Matching(sender, id) : g \in Nat /\ g < m_nextHandlerId
  BY ScriptHandlersAreBelow
<1>3. m_nextHandlerId \in Nat
  BY DEF HandlersOK
<1>4. /\ DOMAIN m_handlers' = DOMAIN m_handlers \cup {m_nextHandlerId}
      /\ \A g \in DOMAIN m_handlers : g # m_nextHandlerId => m_handlers'[g] = m_handlers[g]
  BY DEF Store, Bind
<1>5. h \in Matching(sender, id)'
  BY <1>1, <1>2, <1>3, <1>4 DEF Matching
<1>6. ASSUME NEW g \in Matching(sender, id)' PROVE h <= g
  <2>1. CASE g = m_nextHandlerId
    BY <1>1, <1>2, <1>3, <2>1
  <2>2. CASE g # m_nextHandlerId
    <3>1. g \in Matching(sender, id)
      BY <1>4, <2>2 DEF Matching
    <3> QED BY <1>1, <3>1
  <2> QED BY <2>1, <2>2
<1> QED BY <1>5, <1>6 DEF Found

(* Once calls of an RPC reach a script, no later step changes which        *)
(* handler gets them: handler ids only grow, findRpcHandler takes the      *)
(* smallest, and a new entry can replace only one of a C++ function        *)
(* (rpcdispatcher.cpp:213-214, 306-319).                                   *)
THEOREM FirstHandlerAlwaysWins == DispatcherSpec => FirstHandlerWins
<1> DEFINE Stays ==
      \A sender \in Clients, id \in HandlerRpcs :
        ~IsReserved(id) => \A h \in Found(sender, id) : h \in Found(sender, id)'
<1>1. ASSUME DispatcherInv, [DispatcherNext]_dispatcherVars PROVE Stays
  <2>0. HandlersOK
    BY <1>1 DEF DispatcherInv
  <2>1. CASE UNCHANGED m_handlers
    BY <2>1 DEF Found, Matching
  <2>2. ASSUME NEW handler, Store(handler) PROVE Stays
    BY <2>0, <2>2, StoreKeepsFound
  <2> HIDE DEF Stays
  <2>3. ASSUME NEW rpc \in RpcTable, registerRpc(rpc) PROVE Stays
    BY <2>1, <2>3 DEF registerRpc
  <2>4. ASSUME NEW client_id \in Clients, NEW id \in HandlerRpcs, NEW function \in DOMAIN Functions,
               AddFunctionHandler(client_id, id, function)
        PROVE  Stays
    BY <2>2, <2>4 DEF AddFunctionHandler
  <2>5. ASSUME NEW client_id \in Clients, NEW id \in HandlerRpcs, NEW method \in DOMAIN Methods,
               NEW argSpec \in HandlerSpecs, AddMethodHandler(client_id, id, method, argSpec)
        PROVE  Stays
    BY <2>2, <2>5 DEF AddMethodHandler
  <2>6. ASSUME NEW call \in Calls, buildCall(call) PROVE Stays
    BY <2>1, <2>6 DEF buildCall, Arrives
  <2>7. ASSUME NEW call \in InternalCalls, InternalCall(call) PROVE Stays
    BY <2>1, <2>7 DEF InternalCall, Arrives
  <2>8. ASSUME NEW sender \in Clients, NEW call \in calls, executeReceivedCall(sender, call) PROVE Stays
    BY <2>1, <2>8 DEF executeReceivedCall
  <2>9. CASE UNCHANGED dispatcherVars
    BY <2>1, <2>9 DEF dispatcherVars
  <2> QED BY <1>1, <2>3, <2>4, <2>5, <2>6, <2>7, <2>8, <2>9 DEF DispatcherNext
<1>2. DispatcherInv /\ [DispatcherNext]_dispatcherVars => [Stays]_dispatcherVars
  BY <1>1
<1> QED BY <1>2, DispatcherInvariant, PTL DEF DispatcherSpec, FirstHandlerWins
==============================================================================
