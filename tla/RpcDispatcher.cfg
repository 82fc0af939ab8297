\* The server's dispatcher, two RPCs, two registrations of handlers in any
\* order, for all clients or for one, with the right or a wrong prototype.
SPECIFICATION DispatcherSpec
CONSTANTS
  MaxRpcDataSize = 18
  Garbage = garbage
  MaxInternalRpcId = 2
  InternalHandlers <- ServerHandlers
  RpcTable <- Table
  Functions <- Prototypes3
  Methods <- Prototypes1
  HandlerRpcs = {2, 3, 4}
  HandlerSpecs <- Specs
  Clients = {0, 1}
  Calls <- ScriptCalls
  InternalCalls <- ToServer
  MaxHandlers = 2
INVARIANTS
  DispatcherTypeOK
  FunctionsMatchTable
  ArgsIntactToFirstText
PROPERTIES
  FirstHandlerWins
CHECK_DEADLOCK FALSE
