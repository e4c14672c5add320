---------------------------- MODULE MCStopCommand ----------------------------
EXTENDS StopCommand

None      == {-1}
NoneOrOne == {-1, 1}
=============================================================================
