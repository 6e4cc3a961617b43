----------------------------- MODULE MCChannels -----------------------------
EXTENDS Channels, TLC

CONSTANTS c1, c2

\* Capacities of the channels of the configurations.
OneSlot == [c \in Chans |-> 1]
NoSlot == [c \in Chans |-> 0]
Mixed == [c \in Chans |-> IF c = c1 THEN 1 ELSE 0]
=============================================================================
