SPECIFICATION FairSpec
CONSTANTS
  HandlerKept = {TRUE}
  Cid = {3, 4}
  Faults = FALSE
  MaxCloses = 3
PROPERTIES Reestablished
\* a crashed QEMU takes no further step
CHECK_DEADLOCK FALSE
