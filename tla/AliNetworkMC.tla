---------------------------- MODULE AliNetworkMC ----------------------------
\* A network that delivers headers whole, where processes may be killed and
\* sessions may not agree, and one that splits what it carries.
EXTENDS AliNetwork

Hostile   == [shortReads |-> FALSE, crashes |-> TRUE, mismatch |-> TRUE]
Splitting == [shortReads |-> TRUE, crashes |-> FALSE, mismatch |-> FALSE]
BothWorlds   == {Hostile, Splitting}
=============================================================================
