\* One tab, one change: the engine moves while a release writes the snapshot.
SPECIFICATION Spec
CONSTANTS
  t1 = t1
  t2 = t2
  r1 = r1
  Tabs = {t1}
  Requests = {}
  NParts = 1
  MaxChanges = 1
  ReleasesIdle = TRUE
  Mixes <- MCOneTab
PROPERTIES
  ReleaseDiscardsNothing
\* a registry that is shut down stops
CHECK_DEADLOCK FALSE
