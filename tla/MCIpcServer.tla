---------------------------- MODULE MCIpcServer ----------------------------
(* Every kind of message on one connection, and two connections.           *)
EXTENDS IpcServer

CONSTANTS c1, c2

MCOne == {c1}
MCTwo == {c1, c2}

Say(kind, request) == [kind |-> kind, request |-> request]

MCSome == {Say("login", TRUE), Say("call", TRUE)}
============================================================================
