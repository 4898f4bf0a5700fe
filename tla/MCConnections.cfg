SPECIFICATION Spec
CONSTANTS
  Fds = {3, 5, 6, 7}
  Listener = 3
  MaxClients = 5
  NULL = NULL
INVARIANTS
  KernelAgrees
  DispatchToLive
  ListHoldsClients
  NothingLeaks
