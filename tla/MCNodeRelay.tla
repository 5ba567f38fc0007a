---------------------------- MODULE MCNodeRelay ----------------------------
(* One node with two keys that claim it, two jobs, and messages of each    *)
(* kind: rival heartbeats and listings, a forged one, and one that names   *)
(* another node.                                                           *)
EXTENDS NodeRelay

CONSTANTS h1, h2, none

message(op, arg, signer, ours) == [op |-> op, arg |-> arg, signer |-> signer, ours |-> ours]

MCPoll == message("poll", "-", "-", TRUE)

MCRequests ==
    {message("enroll", "-", "k1", TRUE), message("enroll", "-", "k2", TRUE),
     message("listing", 1, "k1", TRUE), message("listing", 2, "k1", TRUE),
     message("heartbeat", 1, "k1", TRUE), message("heartbeat", 2, "k1", TRUE),
     message("heartbeat", 2, "k2", TRUE), message("settle", "j1", "k1", TRUE),
     message("settle", "j1", "k1", FALSE), MCPoll}

MCPollingRequests ==
    {message("enroll", "-", "k1", TRUE), message("settle", "j1", "k1", TRUE), MCPoll}
=============================================================================
