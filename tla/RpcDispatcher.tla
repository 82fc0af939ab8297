---------------------------- MODULE RpcDispatcher ----------------------------
(***************************************************************************)
(* network/rpcdispatcher.cpp: who handles which call.                      *)
(*                                                                         *)
(* The model is one dispatcher, the server's or a client's, and the calls  *)
(* that arrive.  Both ends run the scripts of the same campaign, so a call *)
(* that arrives is built from the same table, by buildCall.                *)
(***************************************************************************)
EXTENDS RpcPackage, FiniteSets

CONSTANTS
  MaxInternalRpcId,   \* MAX_INTERNAL_RPC_ID
  InternalHandlers,   \* RPC ids with a C++ handler and their argSpec, of this end
  RpcTable,           \* what rpc.tab and the scripts register: records name, id, argSpec
  Functions,          \* script functions, with their prototype as argSpec
  Methods,            \* methods of script objects, likewise
  HandlerRpcs,        \* ids the scripts register handlers for
  HandlerSpecs,       \* argSpecs they pass with a method
  Clients,            \* client ids handlers are registered for, and senders
  Calls,              \* the calls the scripts make: records name, args
  InternalCalls,      \* the calls the C++ code makes: records id, args
  MaxHandlers         \* bound: registrations of the scripts

(* Ids are unsigned, client ids, too, and 0 means all clients.  C++ code   *)
(* binds reserved ids only (addRpcHandler with a callback refuses others). *)
ASSUME DispatcherAssumption ==
  /\ MaxInternalRpcId \in Nat /\ DOMAIN InternalHandlers \subseteq 0..MaxInternalRpcId
  /\ HandlerRpcs \subseteq Nat /\ \A rpc \in RpcTable : rpc.id \in Nat
  /\ Clients \subseteq Nat /\ 0 \in Clients
  /\ \A call \in Calls \cup InternalCalls :
       /\ call.args \in Seq(ToSet(call.args))
       /\ \A i \in DOMAIN call.args : IsArgument(call.args[i])

VARIABLES
  m_handlers, m_procedures, m_nextHandlerId,
  returned,           \* what each handler id a script was given stands for
  calls,              \* calls that arrive, any number of times
  last,               \* the last call that was executed
  up

dispatcherVars == <<m_handlers, m_procedures, m_nextHandlerId, returned, calls, last, up>>

Nothing == [done |-> FALSE]

Handler(id, kind, argSpec, client_id) ==
  [id |-> id, kind |-> kind, argSpec |-> argSpec, client_id |-> client_id]

(* The constructor of the application has called RegisterNetworkSystem:    *)
(* addRpcHandler for C++ functions stores them under their RPC id.         *)
DispatcherInit ==
  /\ m_handlers = [id \in DOMAIN InternalHandlers |->
                     Handler(id, "cpp", InternalHandlers[id], 0)]
  /\ m_procedures = <<>> /\ m_nextHandlerId = 1
  /\ returned = <<>>
  /\ calls = {} /\ last = Nothing /\ up = TRUE

----------------------------------------------------------------------------
(* Registration *)

Bind(f, x, y) == [z \in DOMAIN f \cup {x} |-> IF z = x THEN y ELSE f[z]]

(* A line of rpc.tab, or __rpcRegister of a script: reserved ids and names *)
(* that are taken are refused.                                             *)
registerRpc(rpc) ==
  /\ up
  /\ rpc.id > MaxInternalRpcId /\ rpc.name \notin DOMAIN m_procedures
  /\ m_procedures' = Bind(m_procedures, rpc.name, [id |-> rpc.id, argSpec |-> rpc.argSpec])
  /\ UNCHANGED <<m_handlers, m_nextHandlerId, returned, calls, last, up>>

(* The argSpec of the procedure with this id, or an empty one.  Where      *)
(* several have it, the first name counts: any.                            *)
ArgSpecsForRpc(id) ==
  LET found == {name \in DOMAIN m_procedures : m_procedures[name].id = id}
  IN  IF found = {} THEN {<<>>} ELSE {m_procedures[name].argSpec : name \in found}

(* Mutant: the next handler gets the same id again. *)
StoreWithoutIncrement(handler) ==
  /\ m_handlers' = Bind(m_handlers, m_nextHandlerId, handler)
  /\ returned' = Bind(returned, m_nextHandlerId, handler)
  /\ m_nextHandlerId' = IF handler.kind = "method" THEN m_nextHandlerId ELSE m_nextHandlerId + 1

(* m_handlers[m_nextHandlerId] = ..., and return m_nextHandlerId++ *)
Store(handler) ==
  /\ m_handlers' = Bind(m_handlers, m_nextHandlerId, handler)
  /\ returned' = Bind(returned, m_nextHandlerId, handler)
  /\ m_nextHandlerId' = m_nextHandlerId + 1

IsReserved(id) == id <= MaxInternalRpcId

(* Mutant: the prototype is not compared with the table. *)
PrototypesUnchecked(id, function) == {Functions[function]}

(* The argSpecs under which a function may handle an RPC. *)
Prototypes(id, function) == ArgSpecsForRpc(id) \cap {Functions[function]}

CanRegister(id) == up /\ m_nextHandlerId <= MaxHandlers /\ ~IsReserved(id)

(* __rpcRegisterHandler with a function: its prototype has to match. *)
AddFunctionHandler(client_id, id, function) ==
  /\ CanRegister(id)
  /\ \E argSpec \in Prototypes(id, function) :
       Store(Handler(id, "function", argSpec, client_id))
  /\ UNCHANGED <<m_procedures, calls, last, up>>

(* __rpcRegisterHandler with an object: the script passes the argSpec, and *)
(* nothing compares it with the method or the table.                       *)
AddMethodHandler(client_id, id, method, argSpec) ==
  /\ CanRegister(id)
  /\ Store(Bind(Handler(id, "method", argSpec, client_id), "prototype", Methods[method]))
  /\ UNCHANGED <<m_procedures, calls, last, up>>

----------------------------------------------------------------------------
(* Calls *)

Arrives(id, args) ==
  /\ calls' = calls \cup {[id |-> id, data |-> PackageOf(args).data, args |-> args]}
  /\ UNCHANGED <<m_handlers, m_procedures, m_nextHandlerId, returned, last, up>>

(* The assertion behind the pushes: if an argument does not fit in the     *)
(* package, it stops that end and nothing is sent.                         *)
AllPushed(args) == PackageOf(args).argString = TypesOf(args)

(* A call to rpc.name from a script at the other end, which compiles only  *)
(* with the arguments the method rpc.name was declared with.               *)
buildCall(call) ==
  /\ call.name \in DOMAIN m_procedures
  /\ m_procedures[call.name].argSpec = TypesOf(call.args) /\ AllPushed(call.args)
  /\ Arrives(m_procedures[call.name].id, call.args)

(* sendJoinRequest, handleJoinResponse and handle_joinRequest make their   *)
(* calls themselves.                                                       *)
InternalCall(call) == AllPushed(call.args) /\ Arrives(call.id, call.args)

Matching(sender, id) ==
  {h \in DOMAIN m_handlers :
     m_handlers[h].id = id /\ m_handlers[h].client_id \in {0, sender}}

(* Mutant: the handler registered last is taken. *)
FoundLast(sender, id) ==
  {h \in Matching(sender, id) : \A g \in Matching(sender, id) : g <= h}

(* findRpcHandler: the first in the order of the handler ids. *)
Found(sender, id) ==
  {h \in Matching(sender, id) : \A g \in Matching(sender, id) : h <= g}

(* SetArg fails, and the assertion behind it, if the method has no such    *)
(* argument or one of another size.                                        *)
CanSetArgs(handler) ==
  handler.kind = "method" => \A i \in DOMAIN handler.argSpec :
    i \in DOMAIN handler.prototype /\ handler.prototype[i] = handler.argSpec[i]

executeReceivedCall(sender, call) ==
  /\ up
  /\ \E h \in Found(sender, call.id) :
       LET handler == m_handlers[h]
       IN  /\ last' = [done |-> TRUE, argSpec |-> handler.argSpec, sent |-> call.args,
                       args |-> PopAll(call.data, handler.argSpec)]
           /\ up' = CanSetArgs(handler)
  /\ UNCHANGED <<m_handlers, m_procedures, m_nextHandlerId, returned, calls>>

----------------------------------------------------------------------------
DispatcherNext ==
  \/ \E rpc \in RpcTable : registerRpc(rpc)
  \/ \E client_id \in Clients, id \in HandlerRpcs, function \in DOMAIN Functions :
       AddFunctionHandler(client_id, id, function)
  \/ \E client_id \in Clients, id \in HandlerRpcs, method \in DOMAIN Methods,
        argSpec \in HandlerSpecs : AddMethodHandler(client_id, id, method, argSpec)
  \/ \E call \in Calls : buildCall(call)
  \/ \E call \in InternalCalls : InternalCall(call)
  \/ \E sender \in Clients, call \in calls : executeReceivedCall(sender, call)

DispatcherSpec == DispatcherInit /\ [][DispatcherNext]_dispatcherVars

----------------------------------------------------------------------------
DispatcherTypeOK ==
  /\ DOMAIN m_handlers \subseteq Nat /\ DOMAIN returned \subseteq DOMAIN m_handlers
  /\ \A h \in DOMAIN m_handlers :
        /\ m_handlers[h].id \in Nat /\ m_handlers[h].client_id \in Clients
        /\ m_handlers[h].kind \in {"cpp", "function", "method"}
  /\ \A name \in DOMAIN m_procedures : m_procedures[name].id \in Nat
  /\ m_nextHandlerId \in Nat /\ DOMAIN returned = 1..(m_nextHandlerId - 1)
  /\ up \in BOOLEAN

(* Once calls of an RPC reach a script, no later registration changes who  *)
(* gets them (rpcdispatcher.cpp:306-319).                                  *)
FirstHandlerWins ==
  [][\A sender \in Clients, id \in HandlerRpcs :
       ~IsReserved(id) => \A h \in Found(sender, id) : h \in Found(sender, id)']_dispatcherVars

(* A script function that handles an RPC takes the arguments the table     *)
(* says, or none if the RPC was not known then (rpcdispatcher.cpp:202-212). *)
FunctionsMatchTable ==
  \A h \in DOMAIN m_handlers, name \in DOMAIN m_procedures :
    m_handlers[h].kind = "function" /\ m_handlers[h].id = m_procedures[name].id
      => m_handlers[h].argSpec \in {m_procedures[name].argSpec, <<>>}

(* A handler that knows the types of the arguments gets them as they were  *)
(* sent, up to the first string (rpcpackage.h:85-93, rpcpackage.cpp:172).  *)
ArgsIntactToFirstText ==
  last.done /\ last.argSpec = TypesOf(last.sent) =>
    \A i \in DOMAIN last.sent :
      (\A j \in 1..(i - 1) : last.sent[j].type # "L") => last.args[i] = last.sent[i]
==============================================================================
