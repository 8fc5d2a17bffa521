\* Every interval, from below and from above its threshold.
SPECIFICATION FairShutdown
CONSTANTS
  arch = arch
  wiz = wiz
  Requesters <- MCRequesters
  Arches <- MCArches
  Delays <- MCDelays
  ROOT_UID = ROOT_UID
  Nobody = Nobody
INVARIANTS ShutdownTyped CancelledIsOver TimeIsKept
PROPERTIES CountsDown
\* after a memory failure the game waits for a shutdown that does not come
CHECK_DEADLOCK FALSE
