--------------------------- MODULE MCRpcDispatcher ---------------------------
(***************************************************************************)
(* Model checking of RpcDispatcher: a campaign with two RPCs, the handlers *)
(* of the server, and what the comments say of them.                       *)
(* Reserved are the ids 0 to 2.                                            *)
(***************************************************************************)
EXTENDS RpcDispatcher

JoinRequest == <<"i", "L">>
JoinAcknowledge == <<"c">>

ServerHandlers == [id \in {0, 2} |-> IF id = 0 THEN JoinRequest ELSE JoinAcknowledge]

Table == {[name |-> "chat", id |-> 3, argSpec |-> <<"L">>],
          [name |-> "move", id |-> 4, argSpec |-> <<"i", "L", "i">>]}

Prototypes3 == [f \in {"receiveChat", "receiveMove", "ping"} |->
                  CASE f = "receiveChat" -> <<"L">>
                    [] f = "receiveMove" -> <<"i", "L", "i">>
                    [] f = "ping" -> <<>>]
Prototypes1 == [m \in {"handleChat"} |-> <<"L">>]
Specs == {<<"L">>, <<"i">>}

(* The third call does not fit in a package, the fourth says nothing. *)
ScriptCalls == {[name |-> "chat", args |-> <<Text("hi", 2)>>],
                [name |-> "move", args |-> <<Number("i", 1), Text("to", 1), Number("i", 2)>>],
                [name |-> "chat", args |-> <<Text("long", 20)>>],
                [name |-> "chat", args |-> <<EmptyText>>]}

ToServer == {[id |-> 2, args |-> <<Number("c", 1)>>]}
None == {}

(* network.h:70-72: reserved RPC ids are for internal use by the C++-side, *)
(* registering a script for one has no effect but an error.  So the C++    *)
(* handlers stay where they are.                                           *)
InternalCallsHandled ==
  \A id \in DOMAIN InternalHandlers :
    \E h \in DOMAIN m_handlers : m_handlers[h].id = id /\ m_handlers[h].kind = "cpp"
==============================================================================
