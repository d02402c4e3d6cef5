\* A snapshot and preferences, writes that fail, releases and a shutdown: with two tabs and an
\* upload that come and go; and with tabs that the hub drops and a cap of one tab.
SPECIFICATION FairSpec
CONSTANTS
  t1 = t1
  t2 = t2
  r1 = r1
  Tabs = {t1, t2}
  Requests = {r1}
  NParts = 2
  MaxChanges = 2
  ReleasesIdle = TRUE
  Mixes <- MCMixes
INVARIANTS
  TypeOK
  OneSpacePerKey
  BaselineIsStored
PROPERTIES
  NewerStaysUndropped
  AttachedChangesStored
  CallersAreServed
\* a registry that is shut down stops
CHECK_DEADLOCK FALSE
