---------------------------- MODULE JournalClient ----------------------------
(***************************************************************************)
(* The protocol between the Secure Daemon's journal worker and DevFS, as   *)
(* DevFS sees it.  The worker sends the data of a transaction in chunks    *)
(* (MSG_FETCH_DATA), then one commit request (MSG_BG_JOURNAL), and starts  *)
(* on the next transaction only after the response to that request.        *)
(*                                                                         *)
(* The last point is not written anywhere in the code: it follows from the *)
(* way build_transaction() takes a data fetcher for the NEXT transaction   *)
(* before it sends anything of the current one.  HostJournal models that   *)
(* code and is checked to implement this module.                           *)
(***************************************************************************)
EXTENDS Naturals, Sequences, FiniteSets

CONSTANTS DF,         \* the data fetchers; each owns one of the two logs
          ChunkBlks,  \* DATA_FETCHER_BUF_SIZE in blocks
          MaxData,    \* bound: data blocks of a transaction
          MaxMeta,    \* bound: blocks of the metadata buffer, descriptor included
          MaxTx       \* bound: transactions sent

ASSUME ClientAssumption ==
    /\ ChunkBlks \in Nat \ {0}
    /\ MaxData \in Nat
    /\ MaxMeta \in Nat \ {0}
    /\ MaxTx \in Nat

VARIABLE cl   \* the transaction the daemon is sending or waiting for

Client ==
    [st   : {"idle", "sending", "waiting", "aborted"},
     tx   : 0..MaxTx,       \* id of the last transaction started
     df   : DF,             \* its data fetcher
     reqs : 0..MaxData,     \* fetch requests sent for it
     data : 0..MaxData]     \* data blocks sent for it

ClientInit ==
    cl \in [st : {"idle"}, tx : {0}, df : DF, reqs : {0}, data : {0}]

(* The first request of the next transaction is about to be sent.          *)
Begin(df) ==
    /\ cl.st = "idle"
    /\ cl.tx < MaxTx
    /\ cl' = [st |-> "sending", tx |-> cl.tx + 1, df |-> df,
              reqs |-> 0, data |-> 0]

(* request_data_fetch(): every buffer but the last one is full.            *)
SendFetch(n) ==
    /\ cl.st = "sending"
    /\ cl.data = cl.reqs * ChunkBlks
    /\ cl.data + n <= MaxData
    /\ cl' = [cl EXCEPT !.reqs = @ + 1, !.data = @ + n]

(* request_commit(): a transaction without data has a stage trace block,   *)
(* otherwise build_transaction() discards it.                              *)
SendCommit(meta) ==
    /\ cl.st = "sending"
    /\ cl.data = 0 => meta > 1
    /\ cl' = [cl EXCEPT !.st = "waiting"]

(* The response to the commit request: rpc_rdma_client_handler() asserts   *)
(* that it is not an error, which stops the daemon.                        *)
Answered(ok) ==
    /\ cl.st = "waiting"
    /\ cl' = [cl EXCEPT !.st = IF ok THEN "idle" ELSE "aborted"]

(* So does an error response to a fetch request.                           *)
FetchFailed ==
    /\ cl.st \in {"sending", "waiting"}
    /\ cl.reqs > 0
    /\ cl' = [cl EXCEPT !.st = "aborted"]

ClientNext ==
    \/ \E df \in DF : Begin(df)
    \/ \E n \in 1..ChunkBlks : SendFetch(n)
    \/ \E meta \in 1..MaxMeta : SendCommit(meta)
    \/ \E ok \in BOOLEAN : Answered(ok)
    \/ FetchFailed

ClientSpec == ClientInit /\ [][ClientNext]_cl
=============================================================================
