---------------------- MODULE OutboxReplicationProofs -----------------------
(***************************************************************************)
(* Proofs about OutboxReplication, for any number of drivers and records   *)
(* and any page size.                                                      *)
(***************************************************************************)
EXTENDS OutboxReplication, TLAPS

\* What has been imported has no gaps.
Contiguous == \A s \in ingested : \A t \in 1..s : t \in ingested

\* The receipt, the relay's terminal commit and the outbox agree.
WorkerInv ==
    /\ final <= tail
    /\ sealed => ended /\ final <= published

\* What driver d relies on after it let go of the store.
DriverInv(d) ==
    /\ d \in drain => ended
    /\ d \in drain /\ relayed => final <= limit[d]
    /\ pc[d] = "fetch" => 1..cursor[d] \subseteq ingested
    /\ pc[d] \in {"more", "probe", "expect", "write"} =>
         1..cursor[d] \subseteq ingested /\ cursor[d] <= last[d]
    /\ pc[d] \in {"probe", "expect", "write"} /\ d \in drain \ more => final <= last[d]
    /\ pc[d] \in {"expect", "write"} =>
         first[d] \in cursor[d] + 1 .. last[d] /\ 1..first[d] - 1 \subseteq ingested
    /\ pc[d] = "complete" => d \in drain /\ 1..final \subseteq ingested

(***************************************************************************)
(* The inductive invariant.  CompleteHasRecords alone is not inductive:    *)
(* that the last page of a drain reaches final rests on has_more being     *)
(* read after the rows, and that nothing before the page is missing on the *)
(* page starting at a watermark that only rises.                           *)
(***************************************************************************)
Inv ==
    /\ TypeOK
    /\ Contiguous
    /\ WorkerInv
    /\ \A d \in Drivers : DriverInv(d)
    /\ ProjectedOnce
    /\ CompleteHasRecords
    /\ complete => ended

\* Init establishes the invariant.
LEMMA InitInv == Init => Inv
<1> SUFFICES ASSUME Init PROVE Inv
  OBVIOUS
<1>1. TypeOK
  <2>1. 0 \in 0..MaxRecords /\ 0 \in 0..MaxFailures
    BY ReplicationAssumption
  <2>2. projected \in [Records -> Nat]
    BY DEF Init
  <2> QED
    BY <2>1, <2>2, Zenon DEF Init, TypeOK
<1>2. Contiguous /\ WorkerInv /\ CompleteHasRecords /\ (complete => ended)
  BY DEF Init, Contiguous, WorkerInv, CompleteHasRecords
<1>3. ProjectedOnce
  BY DEF Init, ProjectedOnce
<1>4. ASSUME NEW d \in Drivers PROVE DriverInv(d)
  BY DEF Init, DriverInv
<1> QED
  BY <1>1, <1>2, <1>3, <1>4 DEF Inv

\* The types of what a driver remembers.
DriverTypes ==
    /\ pc \in [Drivers -> {"idle", "fetch", "more", "probe", "expect", "write",
                           "complete", "refused"}]
    /\ drain \in SUBSET Drivers /\ more \in SUBSET Drivers
    /\ limit \in [Drivers -> 0..MaxRecords]
    /\ cursor \in [Drivers -> 0..MaxRecords]
    /\ last \in [Drivers -> 0..MaxRecords]
    /\ first \in [Drivers -> 0..MaxRecords]

\* A driver that leaves its import keeps nothing of it.
LEMMA LeaveForgets ==
    ASSUME NEW d \in Drivers, DriverTypes, Leave(d)
    PROVE  DriverTypes' /\ pc'[d] = "idle" /\ d \notin drain'
  BY ReplicationAssumption DEF DriverTypes, Leave, Goto

\* Where a page that is in leads to.
LEMMA AdvanceSteps ==
    ASSUME NEW d \in Drivers, DriverTypes, Advance(d)
    PROVE  /\ DriverTypes'
           /\ \/ pc'[d] = "idle" /\ d \notin drain'
              \/ /\ pc'[d] = "fetch" \/ (pc'[d] = "complete" /\ d \in drain \ more)
                 /\ cursor'[d] = last[d]
                 /\ UNCHANGED <<drain, limit, last, more, first>>
<1>1. CASE Leave(d)
  BY <1>1, LeaveForgets
<1>2. CASE ~Leave(d)
  BY <1>2 DEF Advance, DriverTypes, Goto, stream
<1> QED
  BY <1>1, <1>2

\* Every step preserves the types.
LEMMA TypeStep == Inv /\ [Next]_vars => TypeOK'
<1> SUFFICES ASSUME TypeOK, \A d \in Drivers : DriverInv(d), [Next]_vars PROVE TypeOK'
  BY DEF Inv
<1> USE ReplicationAssumption DEF TypeOK
<1>0. DriverTypes
  BY DEF DriverTypes
<1>1. CASE Append
  BY <1>1 DEF Append, store, driver, stream
<1>2. CASE End
  BY <1>2 DEF End, store, driver, stream
<1>3. CASE Publish
  BY <1>3 DEF Publish, store, driver, stream
<1>4. ASSUME NEW d \in Drivers, NEW n \in 0..MaxRecords, NEW m \in 0..MaxRecords,
             Open(d, n, m), drain' \in SUBSET Drivers
      PROVE  TypeOK'
  BY <1>4 DEF Open, Goto, worker, store
<1>5. ASSUME NEW d \in Drivers, Live(d) PROVE TypeOK'
  <2>1. drain' \in SUBSET Drivers /\ 0 \in 0..MaxRecords
    BY <1>5 DEF Live
  <2>2. CASE OpenRpc(d)
    BY <1>4, <2>1, <2>2 DEF OpenRpc
  <2>3. CASE OpenRelay(d)
    BY <1>4, <2>1, <2>3 DEF OpenRelay
  <2> QED
    BY <1>5, <2>2, <2>3, Zenon DEF Live
<1>6. ASSUME NEW d \in Drivers, Drain(d) PROVE TypeOK'
  BY <1>4, <1>6 DEF Drain, OpenRpc, OpenRelay
<1>7. ASSUME NEW d \in Drivers, Fetch(d) PROVE TypeOK'
  BY <1>7 DEF Fetch, Goto, worker, store, stream
<1>8. ASSUME NEW d \in Drivers, More(d) PROVE TypeOK'
  BY <1>8 DEF More, Goto, worker, store, stream
<1>9. ASSUME NEW d \in Drivers, Probe(d) PROVE TypeOK'
  <2>1. CASE Advance(d)
    BY <1>0, <1>9, <2>1, AdvanceSteps DEF Probe, DriverTypes, worker, store
  <2>2. CASE ~Advance(d)
    BY <1>9, <2>2 DEF Probe, Goto, worker, store, stream
  <2> QED
    BY <2>1, <2>2
<1>10. ASSUME NEW d \in Drivers, Expect(d) PROVE TypeOK'
  BY <1>10 DEF Expect, Goto, worker, store, stream
<1>11. ASSUME NEW d \in Drivers, Write(d) PROVE TypeOK'
  <2>0. first[d] \in Nat /\ last[d] \in 0..MaxRecords /\ first[d] > 0
    BY <1>11 DEF Write, DriverInv
  <2>5. first[d]..last[d] \subseteq Records
    BY <2>0 DEF Records
  <2>1. ingested' \in SUBSET Records
    BY <1>11, <2>5 DEF Write
  <2>2. projected' \in [Records -> Nat]
    BY <1>11 DEF Write
  <2>3. DriverTypes'
    <3>1. CASE Advance(d)
      BY <1>0, <3>1, AdvanceSteps
    <3>2. CASE ~Advance(d)
      BY <1>0, <1>11, <3>2 DEF Write, Goto, DriverTypes, stream
    <3> QED
      BY <3>1, <3>2
  <2> QED
    BY <1>11, <2>1, <2>2, <2>3 DEF Write, worker, DriverTypes
<1>12. ASSUME NEW d \in Drivers, Complete(d) PROVE TypeOK'
  BY <1>0, <1>12, LeaveForgets DEF Complete, DriverTypes, worker
<1>13. ASSUME NEW d \in Drivers, Give(d) PROVE TypeOK'
  BY <1>0, <1>13, LeaveForgets DEF Give, DriverTypes, worker, store
<1>14. ASSUME NEW d \in Drivers, Fail(d) PROVE TypeOK'
  BY <1>0, <1>14, LeaveForgets DEF Fail, DriverTypes, worker, store
<1>15. CASE UNCHANGED vars
  BY <1>15 DEF vars, worker, store, driver, stream
<1> QED
  BY <1>1, <1>2, <1>3, <1>5, <1>6, <1>7, <1>8, <1>9, <1>10, <1>11, <1>12, <1>13, <1>14, <1>15
     DEF Next, DriverStep

\* What the worker keeps consistent.
LEMMA WorkerStep == Inv /\ [Next]_vars => WorkerInv'
<1> SUFFICES ASSUME TypeOK, WorkerInv, [Next]_vars PROVE WorkerInv'
  BY DEF Inv
<1> USE ReplicationAssumption DEF TypeOK, WorkerInv
<1>1. CASE Append
  BY <1>1 DEF Append
<1>2. CASE End
  BY <1>2 DEF End
<1>3. CASE Publish
  BY <1>3 DEF Publish
<1>4. CASE UNCHANGED worker
  BY <1>4 DEF worker
<1>5. ASSUME NEW d \in Drivers, Live(d) \/ Drain(d) \/ DriverStep(d) \/ Fail(d)
      PROVE  UNCHANGED worker
  BY <1>5, Zenon DEF Live, Drain, OpenRpc, OpenRelay, Open, DriverStep, Fetch, More, Probe, Expect,
     Write, Complete, Give, Fail
<1>6. CASE UNCHANGED vars
  BY <1>4, <1>6 DEF vars
<1> QED
  BY <1>1, <1>2, <1>3, <1>4, <1>5, <1>6, Zenon DEF Next

\* The store only grows, and only by what Write adds.
LEMMA StoreGrows ==
    [Next]_vars =>
      /\ ingested \subseteq ingested'
      /\ \/ UNCHANGED <<ingested, projected>>
         \/ \E d \in Drivers : Write(d) /\ first[d] \notin ingested
<1> SUFFICES ASSUME [Next]_vars
             PROVE  \/ UNCHANGED <<ingested, projected>>
                    \/ \E d \in Drivers :
                         Write(d) /\ first[d] \notin ingested /\ ingested \subseteq ingested'
  BY Zenon
<1>1. CASE Append \/ End \/ Publish
  BY <1>1, Zenon DEF Append, End, Publish, store
<1>2. ASSUME NEW d \in Drivers, Live(d) \/ Drain(d) \/ Fail(d) PROVE UNCHANGED <<ingested, projected>>
  BY <1>2, Zenon DEF Live, Drain, OpenRpc, OpenRelay, Open, Fail, store
<1>3. ASSUME NEW d \in Drivers,
             Fetch(d) \/ More(d) \/ Probe(d) \/ Expect(d) \/ Complete(d) \/ Give(d)
      PROVE  UNCHANGED <<ingested, projected>>
  BY <1>3, Zenon DEF Fetch, More, Probe, Expect, Complete, Give, store
<1>4. ASSUME NEW d \in Drivers, Write(d)
      PROVE  \/ UNCHANGED <<ingested, projected>>
             \/ first[d] \notin ingested /\ ingested \subseteq ingested'
  BY <1>4 DEF Write
<1>5. CASE UNCHANGED vars
  BY <1>5 DEF vars, store
<1> QED
  BY <1>1, <1>2, <1>3, <1>4, <1>5, Zenon DEF Next, DriverStep

\* Contiguity and single projection.
LEMMA StoreStep == Inv /\ [Next]_vars => Contiguous' /\ ProjectedOnce'
<1> SUFFICES ASSUME Inv, [Next]_vars PROVE Contiguous' /\ ProjectedOnce'
  OBVIOUS
<1>1. CASE UNCHANGED <<ingested, projected>>
  BY <1>1 DEF Inv, Contiguous, ProjectedOnce
<1>2. ASSUME NEW d \in Drivers, Write(d), first[d] \notin ingested
      PROVE  Contiguous' /\ ProjectedOnce'
  <2>1. /\ first[d] \in Nat /\ last[d] \in Nat
        /\ 1..first[d] - 1 \subseteq ingested
        /\ ingested \subseteq Nat
    BY <1>2 DEF Inv, TypeOK, DriverInv, Write, Records
  <2>2. ingested' = ingested \cup (first[d]..last[d])
    BY <1>2 DEF Write
  <2>3. Contiguous'
    BY <2>1, <2>2 DEF Inv, Contiguous
  <2>4. (first[d]..last[d]) \cap ingested = {}
    BY <1>2, <2>1 DEF Inv, Contiguous, TypeOK, Records, DriverInv, Write
  <2>5. ProjectedOnce'
    BY <1>2, <2>2, <2>4 DEF Inv, ProjectedOnce, Write, TypeOK
  <2> QED
    BY <2>3, <2>5
<1> QED
  BY <1>1, <1>2, StoreGrows

\* A driver's facts survive what it does not do itself.
LEMMA DriverFrame ==
    ASSUME NEW d \in Drivers, DriverInv(d), TypeOK, ingested \subseteq ingested',
           UNCHANGED relayed, UNCHANGED <<ended, final>> \/ ~ended,
           pc'[d] = pc[d], (d \in drain') <=> (d \in drain), limit'[d] = limit[d],
           cursor'[d] = cursor[d], last'[d] = last[d],
           (d \in more') <=> (d \in more), first'[d] = first[d]
    PROVE  DriverInv(d)'
<1>1. d \in drain => UNCHANGED <<ended, final>>
  BY DEF DriverInv
<1> QED
  BY <1>1 DEF DriverInv

\* The step of the import itself.
LEMMA DriverAdvance ==
    ASSUME NEW d \in Drivers, TypeOK, DriverInv(d), UNCHANGED worker,
           pc[d] \in {"probe", "expect", "write"},
           1..last[d] \subseteq ingested', Advance(d)
    PROVE  DriverInv(d)'
<1>1. \/ pc'[d] = "idle" /\ d \notin drain'
      \/ /\ pc'[d] = "fetch" \/ (pc'[d] = "complete" /\ d \in drain \ more)
         /\ cursor'[d] = last[d]
         /\ UNCHANGED <<drain, limit, last, more, first>>
  BY AdvanceSteps DEF TypeOK, DriverTypes
<1>2. CASE pc'[d] = "idle" /\ d \notin drain'
  BY <1>2 DEF DriverInv
<1>3. d \in drain \ more => final <= last[d]
  BY DEF DriverInv
<1>4. last[d] \in Nat /\ final \in Nat
  BY ReplicationAssumption DEF TypeOK
<1> QED
  BY <1>1, <1>2, <1>3, <1>4 DEF DriverInv, worker

\* Every step keeps every driver's facts.
LEMMA DriverInvStep == Inv /\ [Next]_vars => \A d \in Drivers : DriverInv(d)'
<1> SUFFICES ASSUME Inv, [Next]_vars, NEW d \in Drivers PROVE DriverInv(d)'
  OBVIOUS
<1>1. TypeOK /\ DriverInv(d) /\ Contiguous /\ WorkerInv /\ ingested \subseteq ingested'
  BY StoreGrows DEF Inv
<1>2. CASE Append \/ End \/ Publish \/ UNCHANGED vars
  BY <1>1, <1>2, DriverFrame DEF Append, End, Publish, vars, worker, store, driver, stream
<1>3. ASSUME NEW e \in Drivers, e # d, Live(e) \/ Drain(e) \/ DriverStep(e) \/ Fail(e)
      PROVE  DriverInv(d)'
  <2>1. UNCHANGED <<relayed, ended, final>>
    BY <1>3, Zenon DEF Live, Drain, OpenRpc, OpenRelay, Open, DriverStep, Fetch, More, Probe, Expect,
       Write, Complete, Give, Fail, worker
  <2>2. CASE Live(e) \/ Drain(e)
    BY <1>1, <1>3, <2>1, <2>2, DriverFrame DEF Live, Drain, OpenRpc, OpenRelay, Open, Goto, TypeOK
  <2>3. CASE Leave(e)
    BY <1>1, <1>3, <2>1, <2>3, DriverFrame DEF Leave, Goto, TypeOK
  <2>4. CASE Advance(e) /\ ~Leave(e)
    BY <1>1, <1>3, <2>1, <2>4, DriverFrame DEF Advance, Goto, TypeOK, stream
  <2>5. CASE (Fetch(e) \/ More(e) \/ Probe(e) \/ Expect(e) \/ Write(e)) /\ ~Advance(e)
    BY <1>1, <1>3, <2>1, <2>5, DriverFrame DEF Fetch, More, Probe, Expect, Write, Goto, TypeOK, stream
  <2>6. Complete(e) \/ Give(e) \/ Fail(e) => Leave(e)
    BY Zenon DEF Complete, Give, Fail
  <2> QED
    BY <1>3, <2>2, <2>3, <2>4, <2>5, <2>6, Zenon DEF DriverStep
<1>4. CASE Live(d)
  <2>1. d \notin drain' /\ (OpenRpc(d) \/ OpenRelay(d))
    BY <1>4, Zenon DEF Live
  <2>2. pc'[d] = "fetch" /\ 1..cursor'[d] \subseteq ingested
    BY <1>1, <2>1, ReplicationAssumption
       DEF OpenRpc, OpenRelay, Open, Goto, IsWatermark, TypeOK, Contiguous, Records
  <2> QED
    BY <1>1, <2>1, <2>2 DEF DriverInv
<1>5. CASE Drain(d)
  BY <1>1, <1>5, ReplicationAssumption
     DEF Drain, OpenRpc, OpenRelay, Open, Goto, IsWatermark, DriverInv, TypeOK, Contiguous, WorkerInv,
         worker, store, Records
<1>6. CASE Fetch(d)
  BY <1>1, <1>6, ReplicationAssumption DEF Fetch, Goto, DriverInv, TypeOK, worker, store, stream
<1>7. CASE More(d)
  BY <1>1, <1>7, ReplicationAssumption
     DEF More, Available, Goto, DriverInv, WorkerInv, TypeOK, worker, store, stream
<1>8. CASE Probe(d)
  BY <1>1, <1>8, DriverAdvance DEF Probe, Goto, DriverInv, TypeOK, worker, store, stream
<1>9. CASE Expect(d)
  BY <1>1, <1>9 DEF Expect, IsWatermark, Goto, DriverInv, TypeOK, Contiguous, worker, store, stream
<1>10. CASE Write(d)
  BY <1>1, <1>10, DriverAdvance DEF Write, Goto, DriverInv, TypeOK, worker, stream
<1>11. CASE Complete(d) \/ Give(d) \/ Fail(d)
  <2>1. pc'[d] = "idle" /\ d \notin drain'
    BY <1>1, <1>11, LeaveForgets DEF Complete, Give, Fail, TypeOK, DriverTypes
  <2> QED
    BY <2>1 DEF DriverInv
<1> QED
  BY <1>2, <1>3, <1>4, <1>5, <1>6, <1>7, <1>8, <1>9, <1>10, <1>11, Zenon DEF Next, DriverStep

\* Every step keeps the whole invariant.
LEMMA InvStep == Inv /\ [Next]_vars => Inv'
<1> SUFFICES ASSUME Inv, [Next]_vars PROVE Inv'
  OBVIOUS
<1>1. ASSUME complete' # complete
      PROVE  complete' /\ UNCHANGED final /\ ended' /\ 1..final \subseteq ingested
  <2>1. PICK d \in Drivers : Complete(d)
    BY <1>1, Zenon DEF Next, vars, Append, End, Publish, Live, Drain, OpenRpc, OpenRelay, Open, DriverStep, Fetch, More,
       Probe, Expect, Write, Give, Fail, store
  <2> QED
    BY <2>1 DEF Complete, worker, Inv, DriverInv
<1>2. ASSUME complete' = complete, complete PROVE ended' /\ UNCHANGED final
  BY <1>2, Zenon DEF Inv, Next, vars, worker, Append, End, Publish, Live, Drain, OpenRpc, OpenRelay, Open, DriverStep,
     Fetch, More, Probe, Expect, Write, Complete, Give, Fail
<1>3. CompleteHasRecords' /\ (complete' => ended')
  BY <1>1, <1>2, StoreGrows DEF Inv, CompleteHasRecords
<1> QED
  BY <1>3, TypeStep, WorkerStep, StoreStep, DriverInvStep DEF Inv

(***************************************************************************)
(* The inductive invariant holds in every reachable state, for any number  *)
(* of drivers, records and failures and any page size.                     *)
(***************************************************************************)
THEOREM ReplicationInvariant == Spec => []Inv
  BY InitInv, InvStep, PTL DEF Spec

\* Types of the worker's outbox, the controller's store and the drivers.
THEOREM ReplicationTyping == Spec => []TypeOK
<1>1. Inv => TypeOK
  BY DEF Inv
<1> QED
  BY <1>1, ReplicationInvariant, PTL

(***************************************************************************)
(* import_records projects every record once, however many drivers import  *)
(* the same pages at the same time.                                        *)
(***************************************************************************)
THEOREM RecordsAreProjectedOnce == Spec => []ProjectedOnce
<1>1. Inv => ProjectedOnce
  BY DEF Inv
<1> QED
  BY <1>1, ReplicationInvariant, PTL

(***************************************************************************)
(* The controller's copy has no gaps (workers/store.py, "committed         *)
(* contiguous replication watermark").                                     *)
(***************************************************************************)
THEOREM WatermarkIsContiguous == Spec => []Contiguous
<1>1. Inv => Contiguous
  BY DEF Inv
<1> QED
  BY <1>1, ReplicationInvariant, PTL

(***************************************************************************)
(* A COMPLETE ingestion has every record of its attempt.                   *)
(***************************************************************************)
THEOREM CompletionHasEveryRecord == Spec => []CompleteHasRecords
<1>1. Inv => CompleteHasRecords
  BY DEF Inv
<1> QED
  BY <1>1, ReplicationInvariant, PTL
=============================================================================
