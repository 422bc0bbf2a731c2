---------------------------- MODULE MCWakeDaemon ----------------------------
EXTENDS WakeDaemon

CONSTANTS loop, operator
OneOperator == {operator}
=============================================================================
