\* One generation is enough: the connection is lost after the last handshake answer.
SPECIFICATION FairSpec
CONSTANTS
  MaxLifecycle = 1
  MAX_CONNECT_ATTEMPTS = 2
PROPERTIES
  LostEngineShown
\* a closed session stops
CHECK_DEADLOCK FALSE
