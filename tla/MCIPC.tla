------------------------------- MODULE MCIPC -------------------------------
(* Instances of XinuIPC for TLC. *)
EXTENDS XinuIPC

IPCCalls == {"create", "resume", "chprio", "sendb", "receiveb", "recvtime", "registercb",
             "senda"}
=============================================================================
