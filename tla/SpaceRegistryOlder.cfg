\* A tab that the hub dropped leaves while its space is released; another tab waits
\* for the successor, which changes and is saved before the first space's save ends.
SPECIFICATION Spec
CONSTANTS
  t1 = t1
  t2 = t2
  r1 = r1
  Tabs = {t1, t2}
  Requests = {}
  NParts = 1
  MaxChanges = 2
  ReleasesIdle = TRUE
  Mixes <- MCDrops
PROPERTIES
  NewerStays
\* a registry that is shut down stops
CHECK_DEADLOCK FALSE
