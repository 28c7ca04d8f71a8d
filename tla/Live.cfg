SPECIFICATION Spec
CHECK_DEADLOCK FALSE
PROPERTIES EventuallySettled  SyncConverges
