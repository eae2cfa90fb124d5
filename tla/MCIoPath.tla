------------------------------ MODULE MCIoPath ------------------------------
(* IoPath with two io workers, one read worker and one other thread.       *)
EXTENDS IoPath

\* Pages 0 and 1 in one extent, 2 and 3 in the next, the file ends after 2.
MCExtEnd == [p \in 0 .. 3 |-> IF p < 2 THEN 2 ELSE 4]
\* Two virtual functions, the second with a queue pair to spare.
MCHwQpairs == <<2, 0>>

\* Readahead against a metadata read of another thread; the administrator
\* against fsyncs; fsync, readahead and metadata reads at once.
Load(k, f, b, a) == [kernel |-> k, fsync |-> f, bread |-> b, admin |-> a]
MCWorkloads == {Load(2, 0, 1, 0), Load(0, 1, 0, 1), Load(1, 1, 1, 0)}
=============================================================================
