----------------------------- MODULE RpcChannel ------------------------------
(***************************************************************************)
(* What the two ends of a connection may expect of remoteProcedureCall     *)
(* (network/udpconnection.h), whatever the network does.                   *)
(*                                                                         *)
(* A call that is executed was issued by the partner.  Nothing else is     *)
(* promised: calls are executed in any order, more than once, or never.    *)
(***************************************************************************)
EXTENDS Integers

CONSTANTS Client, Server

VARIABLES
  issued,     \* how many calls each end has issued; they are numbered from 0
  executed    \* calls of the partner that each end has executed

Init ==
  /\ issued = [e \in {Client, Server} |-> 0]
  /\ executed = [e \in {Client, Server} |-> {}]

Issue(e) ==
  /\ issued' = [issued EXCEPT ![e] = @ + 1]
  /\ UNCHANGED executed

Execute(e, partner) ==
  /\ \E n \in 0..(issued[partner] - 1) :
        executed' = [executed EXCEPT ![e] = @ \cup {n}]
  /\ UNCHANGED issued

Next ==
  \/ Issue(Client) \/ Issue(Server)
  \/ Execute(Client, Server) \/ Execute(Server, Client)

Spec == Init /\ [][Next]_<<issued, executed>>
==============================================================================
