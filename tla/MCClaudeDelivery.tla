-------------------------- MODULE MCClaudeDelivery --------------------------
EXTENDS ClaudeDelivery, TLC

CONSTANTS c1, c2
TwoMsgs == 1 .. 2
TwoIds == 1 .. 2
Interchangeable == Permutations(Calls)
=============================================================================
