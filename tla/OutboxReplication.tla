------------------------- MODULE OutboxReplication --------------------------
(***************************************************************************)
(* Replication of a worker's metric records (training/metrics.py,          *)
(* Controller._ingest_records, import_commit_records).  A worker's store   *)
(* numbers its records 1, 2, ... in an outbox; the controller's store      *)
(* imports them page by page and projects each into the tables the         *)
(* dashboard reads.  Drivers, which are controllers, campaign ticks and    *)
(* operator commands, import at the same time:                             *)
(*   live     one page of a running attempt                                *)
(*   drain    every page of an attempt that ended, before its ingestion is *)
(*            marked complete                                              *)
(* either by RPC from the watermark on, or from the outbox pages of the    *)
(* newest relay commit, which start at 1.                                  *)
(*                                                                         *)
(* sqlite3 opens its transaction at the first write: the reads with which  *)
(* import_records begins see what other importers commit between them, all *)
(* that follows is atomic.                                                 *)
(***************************************************************************)
EXTENDS Naturals

CONSTANTS
    Drivers,
    PageLimit,    \* records a page holds at most
    MaxRecords,   \* bound: records the worker writes
    MaxFailures   \* bound: lost calls and dead drivers

ASSUME ReplicationAssumption ==
    /\ PageLimit \in Nat \ {0}
    /\ MaxRecords \in Nat /\ MaxFailures \in Nat

VARIABLES
    relayed,    \* the worker is configured with a relay
    tail,       \* the last sequence in the worker's outbox
    ended,      \* the attempt has its terminal receipt
    final,      \* history: tail when it got it
    published,  \* the last sequence of the newest relay commit
    sealed,     \* that commit is the terminal one
    ingested,   \* sequences in ingested_records of the controller
    projected,  \* projected[s]: how often record s was projected
    complete,   \* the attempt's ingestion is COMPLETE
    pc,         \* pc[d]: the step of driver d
    drain,      \* the drivers that drain
    limit,      \* limit[d]: the last sequence of the commit it reads
    cursor,     \* cursor[d]: its page is cursor[d]+1 .. last[d]
    last,
    more,       \* the drivers whose page came with has_more
    first,      \* first[d]: the first record of the page to be written
    failures

worker == <<relayed, tail, ended, final, published, sealed>>
store == <<ingested, projected, complete>>
stream == <<drain, limit>>
driver == <<pc, stream, cursor, last, more, first>>
vars == <<worker, store, driver, failures>>

Records == 1..MaxRecords

TypeOK ==
    /\ relayed \in BOOLEAN
    /\ tail \in 0..MaxRecords
    /\ ended \in BOOLEAN
    /\ final \in 0..MaxRecords
    /\ published \in 0..MaxRecords
    /\ sealed \in BOOLEAN
    /\ ingested \in SUBSET Records
    /\ projected \in [Records -> Nat]
    /\ complete \in BOOLEAN
    /\ pc \in [Drivers -> {"idle", "fetch", "more", "probe", "expect", "write",
                           "complete", "refused"}]
    /\ drain \in SUBSET Drivers
    /\ limit \in [Drivers -> 0..MaxRecords]
    /\ cursor \in [Drivers -> 0..MaxRecords]
    /\ last \in [Drivers -> 0..MaxRecords]
    /\ more \in SUBSET Drivers
    /\ first \in [Drivers -> 0..MaxRecords]
    /\ failures \in 0..MaxFailures

Init ==
    /\ relayed \in BOOLEAN
    /\ tail = 0 /\ ended = FALSE /\ final = 0
    /\ published = 0 /\ sealed = FALSE
    /\ ingested = {}
    /\ projected = [s \in Records |-> 0]
    /\ complete = FALSE
    /\ pc = [d \in Drivers |-> "idle"]
    /\ drain = {}
    /\ limit = [d \in Drivers |-> 0]
    /\ cursor = [d \in Drivers |-> 0]
    /\ last = [d \in Drivers |-> 0]
    /\ more = {}
    /\ first = [d \in Drivers |-> 0]
    /\ failures = 0

-----------------------------------------------------------------------------
(* The worker. *)

\* _write: the record and its outbox row, in one transaction.  The outbox is
\* the worker's: other attempts go on writing when this one has ended.
Append ==
    /\ tail < MaxRecords
    /\ tail' = tail + 1
    /\ UNCHANGED <<relayed, ended, final, published, sealed, store, driver, failures>>

\* The terminal receipt follows the run's last record.
End ==
    /\ ~ended
    /\ ended' = TRUE
    /\ final' = tail
    /\ UNCHANGED <<relayed, tail, published, sealed, store, driver, failures>>

\* publish_boundary exports the whole outbox into the commit.
Publish ==
    /\ relayed /\ ~sealed
    /\ published' = tail /\ sealed' = ended
    /\ UNCHANGED <<relayed, tail, ended, final, store, driver, failures>>

-----------------------------------------------------------------------------
(* Drivers. *)

Goto(d, where) == pc' = [pc EXCEPT ![d] = where]

\* imported_sequence: COALESCE(MAX(sequence), 0).
IsWatermark(n) == n \in ingested \cup {0} /\ \A s \in ingested : s <= n

Open(d, from, upto) ==
    /\ pc[d] = "idle"
    /\ Goto(d, "fetch")
    /\ cursor' = [cursor EXCEPT ![d] = from]
    /\ limit' = [limit EXCEPT ![d] = upto]
    /\ UNCHANGED <<worker, store, last, more, first, failures>>

\* By RPC, from the watermark on.
OpenRpc(d) == ~relayed /\ \E n \in 0..MaxRecords : IsWatermark(n) /\ Open(d, n, 0)

\* From the newest commit, from its first record on.
OpenRelay(d) == relayed /\ Open(d, 0, published)

\* A poll imports a page of what a running attempt wrote, or what the newest
\* commit of an attempt on a worker with a relay holds.
Live(d) ==
    /\ drain' = drain \ {d}
    /\ OpenRpc(d) \/ OpenRelay(d)

\* The ingestion of an attempt that ended drains the stream.
Drain(d) ==
    /\ ~complete
    /\ drain' = drain \cup {d}
    /\ \/ ended /\ OpenRpc(d)
       \/ sealed /\ OpenRelay(d)

\* What the stream holds at this moment.
Available(d) == IF relayed THEN limit[d] ELSE tail

\* A page ends at the row limit or, before that, at the byte budget.
Fetch(d) ==
    /\ pc[d] = "fetch"
    /\ \E n \in 0..MaxRecords :
         /\ \/ n = cursor[d] /\ n = Available(d)
            \/ n \in cursor[d] + 1 .. cursor[d] + PageLimit /\ n <= Available(d)
         /\ last' = [last EXCEPT ![d] = n]
    /\ Goto(d, "more")
    /\ UNCHANGED <<worker, store, stream, cursor, more, first, failures>>

\* Mutant of More: a page below the row limit is taken for the last one.
MoreByCount(d) ==
    /\ pc[d] = "more"
    /\ more' = IF last[d] = cursor[d] + PageLimit THEN more \cup {d} ELSE more \ {d}
    /\ Goto(d, "probe")
    /\ UNCHANGED <<worker, store, stream, cursor, last, first, failures>>

\* Mutant of More: an empty page is an error.
MoreNonempty(d) ==
    /\ pc[d] = "more"
    /\ more' = IF Available(d) > last[d] THEN more \cup {d} ELSE more \ {d}
    /\ Goto(d, IF last[d] = cursor[d] THEN "refused" ELSE "probe")
    /\ UNCHANGED <<worker, store, stream, cursor, last, first, failures>>

\* has_more is read after the rows; more records behind an empty page are a
\* stream that does not advance.
More(d) ==
    LET has_more == Available(d) > last[d] IN
    /\ pc[d] = "more"
    /\ more' = IF has_more THEN more \cup {d} ELSE more \ {d}
    /\ Goto(d, IF has_more /\ last[d] = cursor[d] THEN "refused" ELSE "probe")
    /\ UNCHANGED <<worker, store, stream, cursor, last, first, failures>>

\* The import ends, and the driver forgets it.
Leave(d) ==
    /\ Goto(d, "idle")
    /\ drain' = drain \ {d} /\ more' = more \ {d}
    /\ limit' = [limit EXCEPT ![d] = 0]
    /\ cursor' = [cursor EXCEPT ![d] = 0]
    /\ last' = [last EXCEPT ![d] = 0]
    /\ first' = [first EXCEPT ![d] = 0]

\* The page is in: the next one, the end of the ingestion, or the end.
Advance(d) ==
    \/ /\ \/ d \in more /\ (d \in drain \/ relayed) /\ Goto(d, "fetch")
          \/ d \notin more /\ d \in drain /\ Goto(d, "complete")
       /\ cursor' = [cursor EXCEPT ![d] = last[d]]
       /\ UNCHANGED <<stream, last, more, first>>
    \/ /\ d \notin drain /\ (d \in more => ~relayed)
       /\ Leave(d)

\* import_records looks for the first record it has not got.
Probe(d) ==
    LET missing == (cursor[d] + 1 .. last[d]) \ ingested IN
    /\ pc[d] = "probe"
    /\ \/ missing = {} /\ Advance(d)
       \/ \E n \in missing :
            /\ \A s \in missing : n <= s
            /\ first' = [first EXCEPT ![d] = n]
            /\ Goto(d, "expect")
            /\ UNCHANGED <<stream, cursor, last, more>>
    /\ UNCHANGED <<worker, store, failures>>

\* It must be the one that follows the watermark.
Expect(d) ==
    /\ pc[d] = "expect"
    /\ \E n \in 0..MaxRecords :
         /\ IsWatermark(n)
         /\ Goto(d, IF first[d] = n + 1 THEN "write" ELSE "refused")
    /\ UNCHANGED <<worker, store, stream, cursor, last, more, first, failures>>

\* Mutant of Write: INSERT OR IGNORE into ingested_records.
WriteIgnoring(d) ==
    /\ pc[d] = "write"
    /\ ingested' = ingested \cup (first[d]..last[d])
    /\ projected' = [s \in Records |->
                       projected[s] + IF s \in first[d]..last[d] THEN 1 ELSE 0]
    /\ Advance(d)
    /\ UNCHANGED <<worker, complete, failures>>

\* The transaction: a record another importer committed meanwhile violates
\* the key of ingested_records and rolls everything back.
Write(d) ==
    LET new == first[d]..last[d] IN
    /\ pc[d] = "write"
    /\ \/ /\ first[d] \in ingested
          /\ Goto(d, "refused")
          /\ UNCHANGED <<ingested, projected, stream, cursor, last, more, first>>
       \/ /\ first[d] \notin ingested
          /\ ingested' = ingested \cup new
          /\ projected' = [s \in Records |->
                             projected[s] + IF s \in new \ ingested THEN 1 ELSE 0]
          /\ Advance(d)
    /\ UNCHANGED <<worker, complete, failures>>

\* mark_ingestion_complete, once the artifacts are verified too.
Complete(d) ==
    /\ pc[d] = "complete"
    /\ complete' = TRUE
    /\ Leave(d)
    /\ UNCHANGED <<worker, ingested, projected, failures>>

\* The exception ends this import; a later poll or retry starts again.
Give(d) ==
    /\ pc[d] = "refused"
    /\ Leave(d)
    /\ UNCHANGED <<worker, store, failures>>

\* A call is lost or the driver dies; an open transaction is rolled back.
Fail(d) ==
    /\ pc[d] # "idle"
    /\ failures < MaxFailures
    /\ failures' = failures + 1
    /\ Leave(d)
    /\ UNCHANGED <<worker, store>>

DriverStep(d) ==
    \/ Fetch(d) \/ More(d) \/ Probe(d) \/ Expect(d) \/ Write(d) \/ Complete(d) \/ Give(d)

Next ==
    \/ Append \/ End \/ Publish
    \/ \E d \in Drivers : Live(d) \/ Drain(d) \/ DriverStep(d) \/ Fail(d)

Spec == Init /\ [][Next]_vars

(***************************************************************************)
(* Calls return, an attempt that ended is published (TerminalIsPublished   *)
(* of RelayPublication) and pending_ingestion makes every tick retry.      *)
(***************************************************************************)
FairSpec ==
    /\ Spec
    /\ WF_vars(ended /\ Publish)
    /\ \A d \in Drivers : WF_vars(DriverStep(d)) /\ SF_vars(Drain(d))

-----------------------------------------------------------------------------
(* Properties. *)

(***************************************************************************)
(* Importers that race, retry or die never project a record twice (events  *)
(* are plain INSERTs) and never count a record they did not project.       *)
(***************************************************************************)
ProjectedOnce ==
    \A s \in Records : projected[s] = IF s \in ingested THEN 1 ELSE 0

(***************************************************************************)
(* An ingestion that is COMPLETE has every record the attempt wrote,       *)
(* though pages end early, other attempts write on and other drivers move  *)
(* the watermark while it drains.                                          *)
(***************************************************************************)
CompleteHasRecords == complete => 1..final \subseteq ingested

(***************************************************************************)
(* Draining comes to an end: refusals, retries and racing importers never  *)
(* keep an attempt that ended from being complete.                         *)
(***************************************************************************)
DrainSettles == ended ~> complete

(***************************************************************************)
(* Importing genuine records is idempotent (docs/metrics.md, "The          *)
(* controller imports contiguous, checksum-bound records idempotently"):   *)
(* an import that another driver overtakes is not refused.                 *)
(***************************************************************************)
ImportIsIdempotent ==
    [][\A d \in Drivers : pc[d] \in {"expect", "write"} => pc'[d] # "refused"]_vars
=============================================================================
