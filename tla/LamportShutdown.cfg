\* Either client may be killed.
CONSTANT Crashers = {"P1", "P3"}
SPECIFICATION FairSpec
CHECK_DEADLOCK FALSE
INVARIANT TypeOK
INVARIANT ClocksNameTheirSender
INVARIANT ShutdownInOrder
 
