--------------------------- MODULE MCTimerSystem ---------------------------
EXTENDS TimerSystem

MCDelays == {0, 3}
=============================================================================
