---------------------------- MODULE MCTCPServer -----------------------------
EXTENDS TCPServer

CONSTANT detached

(* The server is joined; the other thread deletes its own object.          *)
MCThreads == {server, detached}
MCGiven   == [t \in MCThreads |-> IF t = server THEN {"CREATE_JOINABLE"} ELSE {"DELETE_ON_EXIT"}]
MCEnding  == [t \in MCThreads |-> IF t = server THEN "join" ELSE "leave"]
=============================================================================
