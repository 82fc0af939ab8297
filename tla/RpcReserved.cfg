\* The server, and the two handlers of one campaign.
SPECIFICATION DispatcherSpec
CONSTANTS
  MaxRpcDataSize = 18
  Garbage = garbage
  MaxInternalRpcId = 2
  InternalHandlers <- ServerHandlers
  RpcTable <- Table
  Functions <- Prototypes3
  Methods <- Prototypes1
  HandlerRpcs = {2, 3, 4}
  HandlerSpecs <- Specs
  Clients = {0, 1}
  Calls <- None
  InternalCalls <- ToServer
  MaxHandlers = 2
INVARIANT InternalCallsHandled
CHECK_DEADLOCK FALSE
