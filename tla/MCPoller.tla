------------------------------- MODULE MCPoller ------------------------------
(* Three channels of one loop.                                              *)
EXTENDS Poller

CONSTANTS ch1, ch2, ch3

MCChannels == {ch1, ch2, ch3}
==============================================================================
