--------------------------- MODULE MCUdpConnection ---------------------------
(***************************************************************************)
(* Model checking of UdpConnection: small ids and masks, and what the      *)
(* comments and the tests of the repository say of a connection.           *)
(***************************************************************************)
EXTENDS UdpConnection

CONSTANTS ClientPackages, ServerPackages, ClientRpcs, ServerRpcs

PackagesOfEach == [e \in {Client, Server} |->
                     IF e = Client THEN ClientPackages ELSE ServerPackages]
RpcsOfEach == [e \in {Client, Server} |->
                 IF e = Client THEN ClientRpcs ELSE ServerRpcs]

(* network.h:39-40: a package is lost unless an ack arrives for it in      *)
(* time.  So a call may be forgotten only after the partner received it.   *)
ForgottenWasReceived ==
  \A e \in Peers : \A n \in forgotten[e] :
    \E p \in net : /\ p.to = Other(e) /\ p.rpc = {n}
                   /\ p.no \in received[Other(e)]
==============================================================================
