---------------------------- MODULE MCVoiceCalls ----------------------------
EXTENDS VoiceCalls, TLC

CONSTANTS ping, pong

\* An agent asks with a key, that it may repeat, or for a test call later, which
\* may ring in quiet hours.  A route has a delivery.
MCKeyed == {[message |-> ping, key |-> <<"api", 1>>, origin |-> "api", delay |-> 0,
             exempt |-> FALSE, test |-> FALSE]}
MCRequests == MCKeyed \cup {[message |-> ping, key |-> NoKey, origin |-> "api", delay |-> 1,
                             exempt |-> TRUE, test |-> TRUE]}
MCDeliveries == {[id |-> 1, message |-> pong]}

MCDeviceLists == {{}, Devices}

MCQuiet == {1}

RequestSymmetry == Permutations(Callers) \cup Permutations(Devices)
=============================================================================
