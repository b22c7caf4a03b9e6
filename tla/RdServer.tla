------------------------------ MODULE RdServer ------------------------------
(***************************************************************************)
(* The remote disk server (rdserver/): it handles one request at a time,   *)
(* ignores those older than the last, and answers every other one.  An     *)
(* error is answered with a status that the client reads as OK (snderr()   *)
(* stores htonl(1) in 16 bits), and with data left from another request.   *)
(*                                                                         *)
(* One disk, whose file has all its blocks and can be opened.              *)
(***************************************************************************)
EXTENDS Integers

CONSTANTS Blocks, Data,
          None,     \* no data
          Garbage   \* data left in a buffer

VARIABLES
    disk,       \* the file
    sseq,       \* sequence number of the previous message
    sopen       \* is the disk open?

server == <<disk, sseq, sopen>>

(* "ignore if sequence in packet is non-zero and is less than the server's *)
(* sequence number"; 1 starts again.                                       *)
Ignored(m) == m.seq > 1 /\ m.seq < sseq

Status(m) == [type |-> m.type, seq |-> m.seq, try |-> m.try, data |-> None]

Rdopen == sopen' = TRUE /\ UNCHANGED disk

Rdclose == sopen' = FALSE /\ UNCHANGED disk

(* A disk that is not open is an error to rdread() and rdwrite(). *)
Rdread(m) == [Status(m) EXCEPT !.data = IF sopen THEN disk[m.blk] ELSE Garbage]

Rdwrite(m) ==
    /\ disk' = IF sopen THEN [disk EXCEPT ![m.blk] = m.data] ELSE disk
    /\ UNCHANGED sopen

Response(m) == IF m.type = "read" THEN Rdread(m) ELSE Status(m)

(* A request that is not ignored is handled by its type. *)
Serve(m) ==
    /\ sseq' = m.seq
    /\ \/ m.type = "open" /\ Rdopen
       \/ m.type = "close" /\ Rdclose
       \/ m.type = "read" /\ UNCHANGED <<disk, sopen>>
       \/ m.type = "write" /\ Rdwrite(m)

ServerInit ==
    /\ disk \in [Blocks -> Data]
    /\ sseq = 0
    /\ sopen = FALSE
=============================================================================
