\* The state file of local mode, or sign-in on a server: a behaviour is of one mode.
SPECIFICATION FairSpec
CONSTANTS
  Asides = {1, 2, 3}
  MaxSaves = 2
  MaxCrashes = 2
  Names = {"ann", "bob"}
  Words = {"w1", "w2"}
  Clients = {"c1", "c2"}
  Attempts = {1, 2, 3}
  Mixes <- MCMixes
  MaxVerifying = 2
  MaxWaiting = 1
  PerClient = 2
  PerAccount = 2
  MaxEntries = 2
  Window = 2
INVARIANTS
  TypeOK
  FilesAreKept
  AccountsAreCurrent
  SlotsAreCounted
PROPERTIES
  SignInsEnd
  SocketsClose
\* a server with its attempts made, or a file with its saves made, stops
CHECK_DEADLOCK FALSE
