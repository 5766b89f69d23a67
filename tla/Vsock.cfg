SPECIFICATION FairSpec
CONSTANTS
  HandlerKept = {TRUE, FALSE}
  Cid = {3, 4}
  Faults = TRUE
  MaxCloses = 3
INVARIANTS TypeOK ResourcesFollowConnection ConfigOfThisBackend
PROPERTIES QuietOnceGone DropNoticed
\* a crashed QEMU takes no further step
CHECK_DEADLOCK FALSE
