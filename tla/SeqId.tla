-------------------------------- MODULE SeqId --------------------------------
(***************************************************************************)
(* The sequence-id calculus of network/network.cpp: 16-bit ids that wrap   *)
(* and the mask with which a partner reports what it received.             *)
(* MaxSeqId and NumAcks are MAX_SEQ_ID (0xFFFF) and NUM_ACKS (16).  A mask  *)
(* is the set of its bits that are one.                                    *)
(***************************************************************************)
EXTENDS Integers

CONSTANTS
  MaxSeqId,   \* largest sequence id; ids are integers modulo MaxSeqId + 1
  NumAcks     \* number of bits of an ack_mask_t

(* uint16_t and its 16 bits: the mask is shorter than half the id space. *)
ASSUME SeqIdAssumption ==
  /\ MaxSeqId \in Nat /\ MaxSeqId % 2 = 1
  /\ NumAcks \in Nat \ {0} /\ NumAcks <= MaxSeqId \div 2

SeqIds == 0..MaxSeqId
AckBits == 0..(NumAcks - 1)

(* A uint16_t after an addition or subtraction of two uint16_t values. *)
Wrapped(n) == IF n < 0 THEN n + MaxSeqId + 1
              ELSE IF n > MaxSeqId THEN n - (MaxSeqId + 1)
              ELSE n

(* Is a, of two ids, the one that was given out later? *)
IsSeqIdMoreRecent(a, b) ==
  \/ a > b /\ a - b <= MaxSeqId \div 2
  \/ b > a /\ b - a > MaxSeqId \div 2

SeqIdDifference(a, b) ==
  IF IsSeqIdMoreRecent(a, b) THEN Wrapped(a - b) ELSE Wrapped(b - a)

(* Does a mask, relative to remote, say that seq was received? *)
IsSeqIdAcknowledged(mask, remote, seq) ==
  \/ seq = remote
  \/ /\ ~IsSeqIdMoreRecent(seq, remote)
     /\ SeqIdDifference(seq, remote) < NumAcks
     /\ SeqIdDifference(seq, remote) - 1 \in mask

(* The ids a mask relative to remote can speak of: remote and the          *)
(* NumAcks - 1 before it.  The last bit of the mask is never read.         *)
InAckWindow(remote, seq) ==
  /\ ~IsSeqIdMoreRecent(seq, remote)
  /\ SeqIdDifference(seq, remote) < NumAcks
==============================================================================
