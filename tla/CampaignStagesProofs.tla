----------------------- MODULE CampaignStagesProofs -------------------------
(***************************************************************************)
(* The safety properties of CampaignStages for any declaration: any        *)
(* stages, requirements, gates and bindings, any number of failures.       *)
(*                                                                         *)
(* The argument: what reconcile makes of the receipts (Ledger) is the      *)
(* truth.  reconcile refuses an index that says more than the receipts do, *)
(* so a command's rows agree with the ledger wherever a stage is           *)
(* committed, and nothing else counts as complete (RowsInv).  Receipts are *)
(* only added, one for each stage and above committed stages only, so the  *)
(* inputs and bindings computed from them never change again.              *)
(***************************************************************************)
EXTENDS CampaignStages, FiniteSetTheorems, NaturalsInduction, WellFoundedInduction, TLAPS

-----------------------------------------------------------------------------
(* The inductive invariant. *)

Pcs == {"none", "load", "select", "interrupt", "begin", "dispatch", "wait",
        "approve", "gate", "commit", "link", "unlink", "settle"}

Commands == [pc : Pcs, stage : Stages, op : {"apply", "approve"}, execute : BOOLEAN,
             resume : BOOLEAN, lost : BOOLEAN, decision : {"approve", "reject"}]

\* Records with exactly these fields; a digest may be anything.
IsRow(r) == r = [state |-> r.state, input |-> r.input, out |-> r.out, receipt |-> r.receipt,
                 run |-> r.run, bound |-> r.bound, via |-> r.via]
IsReceipt(r) == r = [stage |-> r.stage, input |-> r.input, state |-> r.state, out |-> r.out,
                     run |-> r.run, bound |-> r.bound, via |-> r.via]
IsApproval(a) == a = [stage |-> a.stage, binding |-> a.binding, decision |-> a.decision]

GoodRow(r) == IsRow(r) /\ r.state \in RowStates /\ r.receipt \in BOOLEAN
GoodRows(rows) == /\ rows = [s \in Stages |-> rows[s]]
                  /\ \A s \in Stages : GoodRow(rows[s])

\* Fields and records.
ShapeInv ==
    /\ GoodRows(index) /\ GoodRows(mem)
    /\ \A r \in receipts : IsReceipt(r) /\ r.stage \in Stages /\ r.state \in Committable
    /\ \A a \in approvals : IsApproval(a) /\ a.stage \in Gates /\ a.decision \in {"approve", "reject"}
    /\ cmd \in Commands

\* Attempts and what the rows know of them.
CountInv ==
    /\ losses \in 0..MaxLosses /\ stops \in 0..MaxStops
    /\ saved \in BOOLEAN /\ litter \in BOOLEAN
    /\ submitted \in [Stages -> Nat]
    /\ attempt \in [Stages -> [id : Nat, status : {"none", "active", "complete", "error",
                                                   "failed", "cancelled"}]]
    /\ \A s \in Stages :
         /\ attempt[s].id <= submitted[s]
         /\ submitted[s] <= losses + (IF attempt[s] = NoAttempt THEN 0 ELSE 1)
         /\ index[s].run \in 0..submitted[s]
         /\ mem[s].run \in 0..submitted[s]
         /\ \A r \in ReceiptOf(s) : r.run \in 0..submitted[s]

\* What the receipts alone say.
Ledger == Reconcile(Initial)
Done(s) == Committed(s) /\ Ledger[s].state = "COMPLETE"

\* A gate is open for what it binds, and for nothing else.
Opened(g, out) ==
    /\ \A b \in Bind[g] : Done(b)
    /\ out = Binding(g, Ledger)
    /\ [stage |-> g, binding |-> out, decision |-> "approve"] \in approvals

\* What may be committed for a stage.
Result(s, row) ==
    /\ row.input = Input(s, Ledger)
    /\ row.state \in Committable
    /\ row.state = "INTERRUPTED" => Kind[s] = "run"
    /\ Kind[s] = "approval" /\ row.state = "COMPLETE" => Opened(s, row.out)

LedgerInv ==
    \A r \in receipts :
        /\ ReceiptOf(r.stage) = {r}
        /\ \A d \in Requires[r.stage] : Done(d)
        /\ Result(r.stage, r)

\* A command's rows: the result it is about to commit is the one exception.
RowsInv ==
    cmd.pc # "none" => \A s \in Stages :
        /\ Committed(s) /\ ~(s = cmd.stage /\ cmd.pc = "commit") => mem[s] = Ledger[s]
        /\ ~Committed(s) /\ ~(s = cmd.stage /\ cmd.pc \in {"commit", "link"}) =>
             mem[s].state # "COMPLETE"

Earlier(s) == {t \in Stages : \E n \in 1..Len(Order) : Order[n] = s /\ \E m \in 1..(n - 1) : Order[m] = t}

\* Where a command is, and what it may rely on.
StageInv == \A s \in {cmd.stage} :
    /\ cmd.pc \in {"interrupt", "begin", "dispatch", "wait"} =>
         ~Committed(s) /\ \A t \in Earlier(s) : Done(t)
    /\ cmd.pc \in {"dispatch", "wait"} => mem[s].input = Input(s, Ledger)
    /\ cmd.pc = "dispatch" => index = mem
    /\ cmd.pc = "wait" => Kind[s] = "run"
    /\ cmd.pc \in {"approve", "gate"} => s \in Gates /\ \A b \in Bind[s] : Done(b)
    /\ cmd.pc = "gate" /\ cmd.decision = "approve" =>
         [stage |-> s, binding |-> Binding(s, Ledger), decision |-> "approve"] \in approvals
    /\ cmd.pc \in {"commit", "link"} => (\A d \in Requires[s] : Done(d)) /\ Result(s, mem[s])
    /\ cmd.pc = "link" => ~Committed(s)

\* An attempt was submitted only above committed requirements.
RunsInv == \A r \in Runs : submitted[r] > 0 => \A d \in Requires[r] : Done(d)

StagesInv ==
    /\ ShapeInv
    /\ CountInv
    /\ LedgerInv
    /\ RowsInv
    /\ StageInv
    /\ RunsInv

-----------------------------------------------------------------------------
(* Stages, the ledger and the projection. *)

\* A nonempty set of naturals has a least element.
LEMMA LeastNatural ==
    ASSUME NEW T \in SUBSET Nat, T # {}
    PROVE  \E x \in T : \A y \in T : x <= y
<1> DEFINE R == {ss \in Nat \X Nat : ss[1] < ss[2]}
<1>1. IsWellFoundedOn(R, Nat)
  BY NatLessThanWellFounded, Zenon DEF OpToRel
<1>2. PICK x \in T : \A y \in T : ~(<<y, x>> \in R)
  BY <1>1, WFMin
<1>3. \A y \in T : ~(y < x)
  BY <1>2
<1> QED
  BY <1>3

\* Every stage comes after what it requires and what it binds, and no input is NoInput.
LEMMA StageFacts ==
    /\ Order[1] \in Stages
    /\ \A n \in 1..Len(Order) : Order[n] \in Stages
    /\ \A s \in Stages : Requires[s] \subseteq Earlier(s) /\ Earlier(s) \subseteq Stages
    /\ \A g \in Gates : g \in Stages /\ Bind[g] \subseteq Earlier(g)
    /\ \A s, rows : Input(s, rows) # NoInput
<1> USE CampaignAssumption
<1>1. Order[1] \in Stages /\ \A n \in 1..Len(Order) : Order[n] \in Stages
  BY DEF Stages
<1>2. ASSUME NEW s \in Stages PROVE Requires[s] \subseteq Earlier(s) /\ Earlier(s) \subseteq Stages
  <2>1. PICK n \in 1..Len(Order) : Order[n] = s
    BY DEF Stages
  <2>2. \A m \in 1..(n - 1) : m \in 1..Len(Order)
    OBVIOUS
  <2> QED
    BY <2>1, <2>2, <1>1 DEF Earlier
<1>3. ASSUME NEW g \in Gates PROVE g \in Stages /\ Bind[g] \subseteq Earlier(g)
  <2>1. PICK n \in 1..Len(Order) : Order[n] = g
    BY DEF Stages, Gates
  <2>2. \A m \in 1..(n - 1) : m \in 1..Len(Order)
    OBVIOUS
  <2> QED
    BY <2>1, <2>2, <1>1 DEF Earlier, Gates
<1>4. \A s, rows : Input(s, rows) # NoInput
  BY DEF Input, NoInput
<1> QED
  BY <1>1, <1>2, <1>3, <1>4

\* Which receipt a stage has, if any.
LEMMA LedgerFacts ==
    ASSUME ShapeInv, LedgerInv, NEW s \in Stages
    PROVE  /\ Committed(s) => \E r \in receipts :
                /\ r.stage = s /\ ReceiptOf(s) = {r} /\ Ledger[s] = AsRow(r)
           /\ Committed(s) => Ledger[s].receipt /\ Ledger[s].state \in Committable
           /\ ~Committed(s) => Ledger[s] = NewRow
           /\ \A rows : Reconcile(rows)[s] = IF Committed(s) THEN Ledger[s] ELSE rows[s]
<1>1. ASSUME Committed(s)
      PROVE  \E r \in receipts : /\ r.stage = s /\ ReceiptOf(s) = {r} /\ Ledger[s] = AsRow(r)
                                 /\ r.state \in Committable
  <2>1. PICK r \in ReceiptOf(s) : TRUE
    BY <1>1 DEF Committed
  <2>2. r \in receipts /\ r.stage = s
    BY <2>1 DEF ReceiptOf
  <2>3. ReceiptOf(s) = {r}
    BY <2>2 DEF LedgerInv
  <2>4. Ledger[s] = AsRow(r)
    BY <1>1, <2>3 DEF Ledger, Reconcile
  <2> QED
    BY <2>2, <2>3, <2>4 DEF ShapeInv
<1>2. ASSUME Committed(s) PROVE Ledger[s].receipt /\ Ledger[s].state \in Committable
  <2>1. PICK r \in receipts : Ledger[s] = AsRow(r) /\ r.state \in Committable
    BY <1>1, <1>2
  <2>2. AsRow(r).receipt /\ AsRow(r).state = r.state
    BY DEF AsRow
  <2> QED
    BY <2>1, <2>2
<1>3. ~Committed(s) => Ledger[s] = NewRow
  BY DEF Ledger, Reconcile, Initial
<1>4. \A rows : Reconcile(rows)[s] = IF Committed(s) THEN Ledger[s] ELSE rows[s]
  BY DEF Ledger, Reconcile
<1> QED
  BY <1>1, <1>2, <1>3, <1>4

\* While no receipt is added the ledger stays.
LEMMA SameReceipts ==
    ASSUME receipts' = receipts
    PROVE  /\ Ledger' = Ledger
           /\ \A s : Committed(s)' = Committed(s) /\ Done(s)' = Done(s) /\ ReceiptOf(s)' = ReceiptOf(s)
BY DEF Ledger, Reconcile, Committed, ReceiptOf, Done

\* The projection changes the states of open stages, and completes none.
LEMMA ProjectionFacts ==
    ASSUME NEW rows, GoodRows(rows), NEW found \in Finds(rows)
    PROVE  /\ GoodRows(Projection(rows, found))
           /\ \A s \in Stages :
                LET new == Projection(rows, found)[s] IN
                /\ new.input = rows[s].input /\ new.run = rows[s].run
                /\ new.state = "COMPLETE" <=> rows[s].state = "COMPLETE"
                /\ rows[s].receipt /\ rows[s].state \in Committable => new = rows[s]
<1> DEFINE new == Projection(rows, found)
<1>1. DOMAIN found = Candidates(rows) /\ \A s \in Candidates(rows) : found[s] \in {"READY", "BLOCKED", "FAILED"}
  BY DEF Finds
<1>2. \A s \in Candidates(rows) : Open(rows[s])
  BY DEF Candidates
<1>3. ASSUME NEW s \in Stages
      PROVE  \/ new[s] = rows[s]
             \/ /\ Open(rows[s]) \/ rows[s].state = "AWAITING_APPROVAL"
                /\ \E x \in {"READY", "BLOCKED", "FAILED"} : new[s] = [rows[s] EXCEPT !.state = x]
  BY <1>1, <1>2 DEF Projection
<1>4. ASSUME NEW s \in Stages
      PROVE  /\ GoodRow(new[s])
             /\ new[s].input = rows[s].input /\ new[s].run = rows[s].run
             /\ new[s].state = "COMPLETE" <=> rows[s].state = "COMPLETE"
             /\ rows[s].receipt /\ rows[s].state \in Committable => new[s] = rows[s]
  <2>1. GoodRow(rows[s])
    BY DEF GoodRows
  <2>2. ASSUME NEW x \in {"READY", "BLOCKED", "FAILED"}, new[s] = [rows[s] EXCEPT !.state = x],
               Open(rows[s]) \/ rows[s].state = "AWAITING_APPROVAL"
        PROVE  /\ GoodRow(new[s])
               /\ new[s].input = rows[s].input /\ new[s].run = rows[s].run
               /\ new[s].state = "COMPLETE" <=> rows[s].state = "COMPLETE"
               /\ rows[s].receipt /\ rows[s].state \in Committable => new[s] = rows[s]
    BY <2>1, <2>2 DEF GoodRow, IsRow, RowStates, Committable, Open
  <2> QED
    BY <1>3, <2>1, <2>2
<1>5. new = [s \in Stages |-> new[s]]
  BY DEF Projection
<1> QED
  BY <1>4, <1>5 DEF GoodRows

\* The stage next_action is about, and those before it.
LEMMA CurrentFacts ==
    ASSUME NEW rows, ~AllComplete(rows)
    PROVE  /\ Current(rows) \in Stages
           /\ rows[Current(rows)].state # "COMPLETE"
           /\ \A t \in Earlier(Current(rows)) : rows[t].state = "COMPLETE"
<1> USE CampaignAssumption
<1> DEFINE T == {n \in 1..Len(Order) : rows[Order[n]].state # "COMPLETE"}
           First(n) == /\ rows[Order[n]].state # "COMPLETE"
                       /\ \A m \in 1..(n - 1) : rows[Order[m]].state = "COMPLETE"
<1>1. T # {} /\ T \in SUBSET Nat
  BY DEF AllComplete, Stages
<1>2. PICK k \in T : \A y \in T : k <= y
  BY <1>1, LeastNatural
<1>3. k \in 1..Len(Order) /\ First(k)
  <2>1. \A m \in 1..(k - 1) : m \in 1..Len(Order) /\ ~(k <= m)
    BY <1>2
  <2> QED
    BY <1>2, <2>1
<1> DEFINE n == CHOOSE i \in 1..Len(Order) : First(i)
<1>4. n \in 1..Len(Order) /\ First(n)
  BY <1>3
<1>5. Current(rows) = Order[n]
  BY DEF Current
<1> HIDE DEF n
<1>6. \A t \in Earlier(Order[n]) : \E m \in 1..(n - 1) : Order[m] = t
  BY <1>4 DEF Earlier
<1> QED
  BY <1>4, <1>5, <1>6, StageFacts

-----------------------------------------------------------------------------
(* Shapes. *)

\* The rows of a campaign that has not started.
LEMMA GoodInitial == GoodRows(Initial) /\ \A s \in Stages : Initial[s] = NewRow
<1>1. GoodRow(NewRow)
  BY DEF NewRow, GoodRow, IsRow, RowStates
<1> QED
  BY <1>1 DEF GoodRows, Initial

\* Reconciled rows are rows.
LEMMA GoodReconcile ==
    ASSUME ShapeInv PROVE GoodRows(Reconcile(index))
<1>1. ASSUME NEW s \in Stages PROVE GoodRow(Reconcile(index)[s])
  <2>1. CASE Committed(s)
    <3>1. PICK r \in receipts : Reconcile(index)[s] = AsRow(r)
      BY <2>1 DEF Reconcile, Committed, ReceiptOf
    <3>2. GoodRow(AsRow(r))
      BY <3>1 DEF AsRow, GoodRow, IsRow, RowStates, ShapeInv
    <3> QED
      BY <3>1, <3>2
  <2>2. CASE ~Committed(s)
    BY <2>2 DEF Reconcile, ShapeInv, GoodRows
  <2> QED
    BY <2>1, <2>2
<1> QED
  BY <1>1 DEF GoodRows, Reconcile

\* A step that records rows: states of open stages apart, they are the rows.
LEMMA RecordFacts ==
    ASSUME NEW rows, GoodRows(rows), Record(rows)
    PROVE  /\ GoodRows(mem') /\ index' = mem' /\ saved' = TRUE
           /\ UNCHANGED <<receipts, litter, approvals>>
           /\ \A s \in Stages :
                /\ mem'[s].input = rows[s].input /\ mem'[s].run = rows[s].run
                /\ mem'[s].state = "COMPLETE" <=> rows[s].state = "COMPLETE"
                /\ rows[s].receipt /\ rows[s].state \in Committable => mem'[s] = rows[s]
<1>1. PICK found \in Finds(rows) : mem' = Projection(rows, found)
  BY DEF Record
<1>2. /\ GoodRows(Projection(rows, found))
      /\ \A s \in Stages :
           /\ Projection(rows, found)[s].input = rows[s].input
           /\ Projection(rows, found)[s].run = rows[s].run
           /\ Projection(rows, found)[s].state = "COMPLETE" <=> rows[s].state = "COMPLETE"
           /\ rows[s].receipt /\ rows[s].state \in Committable => Projection(rows, found)[s] = rows[s]
  BY ProjectionFacts
<1> QED
  BY <1>1, <1>2 DEF Record

\* Rows with one of them replaced.
LEMMA RowReplaced ==
    ASSUME NEW rows, GoodRows(rows), NEW s \in Stages, NEW row, GoodRow(row)
    PROVE  LET new == [rows EXCEPT ![s] = row] IN
           GoodRows(new) /\ new[s] = row /\ \A t \in Stages : t # s => new[t] = rows[t]
<1> DEFINE new == [rows EXCEPT ![s] = row]
<1>1. DOMAIN rows = Stages
  BY DEF GoodRows
<1>2. new = [t \in Stages |-> IF t = s THEN row ELSE rows[t]]
  BY <1>1
<1>3. new[s] = row /\ \A t \in Stages : t # s => new[t] = rows[t]
  BY <1>2
<1>4. new = [t \in Stages |-> new[t]]
  BY <1>2
<1> QED
  BY <1>3, <1>4 DEF GoodRows

\* A row is the record of its fields, after an update, too.
LEMMA RowUpdated ==
    ASSUME NEW r, IsRow(r), NEW state, NEW out, NEW run, NEW via
    PROVE  [r EXCEPT !.state = state, !.out = out, !.via = via, !.run = run] =
               [state |-> state, input |-> r.input, out |-> out, receipt |-> r.receipt,
                run |-> run, bound |-> r.bound, via |-> via]
<1> DEFINE R(a, b, c, d) == [state |-> a, input |-> r.input, out |-> b, receipt |-> r.receipt,
                             run |-> d, bound |-> r.bound, via |-> c]
<1>1. r = R(r.state, r.out, r.via, r.run)
  BY DEF IsRow
<1>2. \A a, b, c, d, x : [R(a, b, c, d) EXCEPT !.state = x] = R(x, b, c, d)
  OBVIOUS
<1>3. \A a, b, c, d, x : [R(a, b, c, d) EXCEPT !.out = x] = R(a, x, c, d)
  OBVIOUS
<1>4. \A a, b, c, d, x : [R(a, b, c, d) EXCEPT !.via = x] = R(a, b, x, d)
  OBVIOUS
<1>5. \A a, b, c, d, x : [R(a, b, c, d) EXCEPT !.run = x] = R(a, b, c, x)
  OBVIOUS
<1> HIDE DEF R
<1> DEFINE r1 == [r EXCEPT !.state = state]
           r2 == [r1 EXCEPT !.out = out]
           r3 == [r2 EXCEPT !.via = via]
           r4 == [r3 EXCEPT !.run = run]
<1>6. [r EXCEPT !.state = state, !.out = out, !.via = via, !.run = run] = r4
  OBVIOUS
<1>7. r1 = R(state, r.out, r.via, r.run)
  BY <1>1, <1>2
<1> HIDE DEF r1
<1>8. r2 = R(state, out, r.via, r.run)
  BY <1>7, <1>3
<1> HIDE DEF r2
<1>9. r3 = R(state, out, via, r.run)
  BY <1>8, <1>4
<1> HIDE DEF r3
<1>10. r4 = R(state, out, via, run)
  BY <1>9, <1>5
<1> QED
  BY <1>6, <1>10 DEF R, r1, r2, r3

\* What a result does to the rows, and where the command goes.
LEMMA ReturnFacts ==
    ASSUME ShapeInv, NEW state \in RowStates, NEW out, NEW run, Return(state, out, run)
    PROVE  /\ GoodRows(mem')
           /\ \A t \in Stages : t # cmd.stage => mem'[t] = mem[t]
           /\ mem'[cmd.stage].state = state /\ mem'[cmd.stage].out = out
           /\ mem'[cmd.stage].input = mem[cmd.stage].input
           /\ mem'[cmd.stage].receipt = mem[cmd.stage].receipt
           /\ mem'[cmd.stage].run = IF run = 0 THEN mem[cmd.stage].run ELSE run
           /\ cmd' = [cmd EXCEPT !.pc = cmd'.pc]
           /\ cmd'.pc = IF state \notin Committable \/ (Kind[cmd.stage] = "snapshot" /\ state = "INTERRUPTED")
                        THEN "settle" ELSE "commit"
<1> DEFINE row == [mem[cmd.stage] EXCEPT !.state = state, !.out = out, !.via = "apply",
                                         !.run = IF run = 0 THEN mem[cmd.stage].run ELSE run]
<1>1. cmd.stage \in Stages /\ GoodRow(mem[cmd.stage]) /\ GoodRows(mem)
  BY DEF ShapeInv, Commands, GoodRows
<1>2. /\ GoodRow(row)
      /\ row.state = state /\ row.out = out /\ row.input = mem[cmd.stage].input
      /\ row.receipt = mem[cmd.stage].receipt
      /\ row.run = IF run = 0 THEN mem[cmd.stage].run ELSE run
  <2> DEFINE m == mem[cmd.stage]
             k == IF run = 0 THEN m.run ELSE run
  <2>1. row = [state |-> state, input |-> m.input, out |-> out, receipt |-> m.receipt,
               run |-> k, bound |-> m.bound, via |-> "apply"]
    <3>1. IsRow(m)
      BY <1>1 DEF GoodRow
    <3>2. row = [m EXCEPT !.state = state, !.out = out, !.via = "apply", !.run = k]
      OBVIOUS
    <3> HIDE DEF k, m, row
    <3> QED
      BY <3>1, <3>2, RowUpdated
  <2>2. m.receipt \in BOOLEAN
    BY <1>1 DEF GoodRow
  <2> HIDE DEF row, k
  <2>3. /\ row.state = state /\ row.out = out /\ row.input = m.input
        /\ row.receipt = m.receipt /\ row.run = k /\ row.bound = m.bound /\ row.via = "apply"
    BY <2>1
  <2>4. IsRow(row)
    BY <2>1, <2>3 DEF IsRow
  <2> QED
    BY <2>2, <2>3, <2>4 DEF GoodRow, k
<1>3. mem' = [mem EXCEPT ![cmd.stage] = row]
  BY DEF Return
<1> HIDE DEF row
<1>4. GoodRows(mem') /\ mem'[cmd.stage] = row /\ \A t \in Stages : t # cmd.stage => mem'[t] = mem[t]
  <2>1. /\ GoodRows([mem EXCEPT ![cmd.stage] = row])
        /\ [mem EXCEPT ![cmd.stage] = row][cmd.stage] = row
        /\ \A t \in Stages : t # cmd.stage => [mem EXCEPT ![cmd.stage] = row][t] = mem[t]
    BY <1>1, <1>2, RowReplaced
  <2> QED
    BY <1>3, <2>1
<1>5. /\ cmd' = [cmd EXCEPT !.pc = cmd'.pc]
      /\ cmd'.pc = IF state \notin Committable \/ (Kind[cmd.stage] = "snapshot" /\ state = "INTERRUPTED")
                   THEN "settle" ELSE "commit"
  BY DEF Return, GoTo, ShapeInv, Commands
<1> QED
  BY <1>2, <1>4, <1>5

\* One field of a row at a time.
FieldSet(r, new, field, x) ==
    /\ IsRow(new)
    /\ new.state = IF field = "state" THEN x ELSE r.state
    /\ new.input = IF field = "input" THEN x ELSE r.input
    /\ new.out = IF field = "out" THEN x ELSE r.out
    /\ new.receipt = IF field = "receipt" THEN x ELSE r.receipt
    /\ new.run = IF field = "run" THEN x ELSE r.run
    /\ new.bound = IF field = "bound" THEN x ELSE r.bound
    /\ new.via = IF field = "via" THEN x ELSE r.via

\* One field of a row replaced.
LEMMA FieldUpdated ==
    ASSUME NEW r, IsRow(r), NEW x
    PROVE  /\ FieldSet(r, [r EXCEPT !.state = x], "state", x)
           /\ FieldSet(r, [r EXCEPT !.input = x], "input", x)
           /\ FieldSet(r, [r EXCEPT !.out = x], "out", x)
           /\ FieldSet(r, [r EXCEPT !.receipt = x], "receipt", x)
           /\ FieldSet(r, [r EXCEPT !.bound = x], "bound", x)
           /\ FieldSet(r, [r EXCEPT !.via = x], "via", x)
<1>1. FieldSet(r, [r EXCEPT !.state = x], "state", x)
  BY DEF FieldSet, IsRow
<1>2. FieldSet(r, [r EXCEPT !.input = x], "input", x)
  BY DEF FieldSet, IsRow
<1>3. FieldSet(r, [r EXCEPT !.out = x], "out", x)
  BY DEF FieldSet, IsRow
<1>4. FieldSet(r, [r EXCEPT !.receipt = x], "receipt", x)
  BY DEF FieldSet, IsRow
<1>5. FieldSet(r, [r EXCEPT !.bound = x], "bound", x)
  BY DEF FieldSet, IsRow
<1>6. FieldSet(r, [r EXCEPT !.via = x], "via", x)
  BY DEF FieldSet, IsRow
<1> QED
  BY <1>1, <1>2, <1>3, <1>4, <1>5, <1>6

\* A stage found running, a stage begun.
LEMMA InterruptRows ==
    ASSUME ShapeInv
    PROVE  LET new == [mem EXCEPT ![cmd.stage].state = "INTERRUPTED"] IN
           /\ GoodRows(new)
           /\ \A t \in Stages : t # cmd.stage => new[t] = mem[t]
           /\ new[cmd.stage].state = "INTERRUPTED" /\ new[cmd.stage].run = mem[cmd.stage].run
<1> DEFINE m == mem[cmd.stage]
           row == [m EXCEPT !.state = "INTERRUPTED"]
<1>1. cmd.stage \in Stages /\ GoodRow(m) /\ GoodRows(mem)
  BY DEF ShapeInv, Commands, GoodRows
<1>2. FieldSet(m, row, "state", "INTERRUPTED")
  BY <1>1, FieldUpdated DEF GoodRow
<1>3. [mem EXCEPT ![cmd.stage].state = "INTERRUPTED"] = [mem EXCEPT ![cmd.stage] = row]
  OBVIOUS
<1> HIDE DEF row, m
<1>4. GoodRow(row) /\ row.state = "INTERRUPTED" /\ row.run = m.run
  BY <1>1, <1>2 DEF FieldSet, GoodRow, RowStates, Committable
<1>5. /\ GoodRows([mem EXCEPT ![cmd.stage] = row])
      /\ [mem EXCEPT ![cmd.stage] = row][cmd.stage] = row
      /\ \A t \in Stages : t # cmd.stage => [mem EXCEPT ![cmd.stage] = row][t] = mem[t]
  BY <1>1, <1>4, RowReplaced
<1> QED
  BY <1>3, <1>4, <1>5 DEF m

\* The rows with a stage marked as running.
LEMMA BeginRows ==
    ASSUME ShapeInv
    PROVE  LET new == [mem EXCEPT ![cmd.stage].state = "RUNNING",
                                  ![cmd.stage].input = Input(cmd.stage, mem),
                                  ![cmd.stage].bound = TRUE] IN
           /\ GoodRows(new)
           /\ \A t \in Stages : t # cmd.stage => new[t] = mem[t]
           /\ new[cmd.stage].state = "RUNNING" /\ new[cmd.stage].run = mem[cmd.stage].run
           /\ new[cmd.stage].input = Input(cmd.stage, mem)
<1> DEFINE m == mem[cmd.stage]
           i == Input(cmd.stage, mem)
           r1 == [m EXCEPT !.state = "RUNNING"]
           r2 == [r1 EXCEPT !.input = i]
           row == [r2 EXCEPT !.bound = TRUE]
<1>1. cmd.stage \in Stages /\ GoodRow(m) /\ GoodRows(mem) /\ DOMAIN mem = Stages
  BY DEF ShapeInv, Commands, GoodRows
<1>2. [mem EXCEPT ![cmd.stage].state = "RUNNING", ![cmd.stage].input = i, ![cmd.stage].bound = TRUE]
        = [mem EXCEPT ![cmd.stage] = row]
  <2> DEFINE m1 == [mem EXCEPT ![cmd.stage].state = "RUNNING"]
             m2 == [m1 EXCEPT ![cmd.stage].input = i]
             m3 == [m2 EXCEPT ![cmd.stage].bound = TRUE]
  <2> HIDE DEF i
  <2>1. [mem EXCEPT ![cmd.stage].state = "RUNNING", ![cmd.stage].input = i, ![cmd.stage].bound = TRUE] = m3
    OBVIOUS
  <2>2. m1 = [mem EXCEPT ![cmd.stage] = r1]
    OBVIOUS
  <2>3. m2 = [mem EXCEPT ![cmd.stage] = r2]
    BY <1>1, <2>2
  <2> HIDE DEF m2
  <2>4. m3 = [mem EXCEPT ![cmd.stage] = row]
    BY <1>1, <2>3
  <2> QED
    BY <2>1, <2>4 DEF m2
<1> HIDE DEF m, i
<1>3. FieldSet(m, r1, "state", "RUNNING")
  BY <1>1, FieldUpdated DEF GoodRow
<1> HIDE DEF r1
<1>4. FieldSet(r1, r2, "input", i)
  <2>1. IsRow(r1)
    BY <1>3 DEF FieldSet
  <2> QED
    BY <2>1, FieldUpdated
<1> HIDE DEF r2
<1>5. FieldSet(r2, row, "bound", TRUE)
  <2>1. IsRow(r2)
    BY <1>4 DEF FieldSet
  <2> QED
    BY <2>1, FieldUpdated
<1> HIDE DEF row
<1>6. GoodRow(row) /\ row.state = "RUNNING" /\ row.run = m.run /\ row.input = i
  BY <1>1, <1>3, <1>4, <1>5 DEF FieldSet, GoodRow, RowStates
<1>7. /\ GoodRows([mem EXCEPT ![cmd.stage] = row])
      /\ [mem EXCEPT ![cmd.stage] = row][cmd.stage] = row
      /\ \A t \in Stages : t # cmd.stage => [mem EXCEPT ![cmd.stage] = row][t] = mem[t]
  BY <1>1, <1>6, RowReplaced
<1> QED
  BY <1>2, <1>6, <1>7 DEF m, i, row, r1, r2

\* A stage committed.
LEMMA CommitRows ==
    ASSUME ShapeInv
    PROVE  LET new == [mem EXCEPT ![cmd.stage].receipt = TRUE]
               row == mem[cmd.stage] IN
           /\ GoodRows(new)
           /\ \A t \in Stages : t # cmd.stage => new[t] = mem[t]
           /\ new[cmd.stage].state = row.state /\ new[cmd.stage].run = row.run
           /\ new[cmd.stage] = AsRow(AsReceipt(cmd.stage, row))
<1> DEFINE m == mem[cmd.stage]
           row == [m EXCEPT !.receipt = TRUE]
<1>1. cmd.stage \in Stages /\ GoodRow(m) /\ GoodRows(mem)
  BY DEF ShapeInv, Commands, GoodRows
<1>2. FieldSet(m, row, "receipt", TRUE)
  BY <1>1, FieldUpdated DEF GoodRow
<1>3. [mem EXCEPT ![cmd.stage].receipt = TRUE] = [mem EXCEPT ![cmd.stage] = row]
  OBVIOUS
<1> HIDE DEF row, m
<1>4. GoodRow(row) /\ row.state = m.state /\ row.run = m.run
  BY <1>1, <1>2 DEF FieldSet, GoodRow
<1>5. row = AsRow(AsReceipt(cmd.stage, m))
  <2>1. row = [state |-> m.state, input |-> m.input, out |-> m.out, receipt |-> TRUE,
               run |-> m.run, bound |-> m.bound, via |-> m.via]
    BY <1>2 DEF FieldSet, IsRow
  <2> QED
    BY <2>1 DEF AsRow, AsReceipt
<1>6. /\ GoodRows([mem EXCEPT ![cmd.stage] = row])
      /\ [mem EXCEPT ![cmd.stage] = row][cmd.stage] = row
      /\ \A t \in Stages : t # cmd.stage => [mem EXCEPT ![cmd.stage] = row][t] = mem[t]
  BY <1>1, <1>4, RowReplaced
<1> QED
  BY <1>3, <1>4, <1>5, <1>6 DEF m

\* A gate decided by approve.
LEMMA GateRows ==
    ASSUME ShapeInv, Gate, InputKnown(cmd.stage, mem)
    PROVE  /\ GoodRows(mem')
           /\ \A t \in Stages : t # cmd.stage => mem'[t] = mem[t]
           /\ mem'[cmd.stage].state = IF cmd.decision = "approve" THEN "COMPLETE" ELSE "BLOCKED"
           /\ mem'[cmd.stage].out = Binding(cmd.stage, mem)
           /\ mem'[cmd.stage].input = Input(cmd.stage, mem)
           /\ mem'[cmd.stage].run = mem[cmd.stage].run
<1> DEFINE m == mem[cmd.stage]
           i == Input(cmd.stage, mem)
           b == Binding(cmd.stage, mem)
           x == IF cmd.decision = "approve" THEN "COMPLETE" ELSE "BLOCKED"
           r1 == [m EXCEPT !.state = x]
           r2 == [r1 EXCEPT !.out = b]
           r3 == [r2 EXCEPT !.input = i]
           row == [r3 EXCEPT !.via = "approve"]
<1>1. cmd.stage \in Stages /\ GoodRow(m) /\ GoodRows(mem) /\ x \in RowStates
  BY DEF ShapeInv, Commands, GoodRows, RowStates, Committable
<1>2. mem' = [mem EXCEPT ![cmd.stage] = row]
  <2>1. mem' = [mem EXCEPT ![cmd.stage] =
                  [m EXCEPT !.state = x, !.out = b, !.input = i, !.via = "approve"]]
    BY DEF Gate
  <2> HIDE DEF m, i, b, x
  <2>2. [m EXCEPT !.state = x, !.out = b, !.input = i, !.via = "approve"] = row
    OBVIOUS
  <2> QED
    BY <2>1, <2>2
<1> HIDE DEF m, i, b, x
<1>3. FieldSet(m, r1, "state", x)
  BY <1>1, FieldUpdated DEF GoodRow
<1> HIDE DEF r1
<1>4. FieldSet(r1, r2, "out", b)
  <2>1. IsRow(r1)
    BY <1>3 DEF FieldSet
  <2> QED
    BY <2>1, FieldUpdated
<1> HIDE DEF r2
<1>5. FieldSet(r2, r3, "input", i)
  <2>1. IsRow(r2)
    BY <1>4 DEF FieldSet
  <2> QED
    BY <2>1, FieldUpdated
<1> HIDE DEF r3
<1>6. FieldSet(r3, row, "via", "approve")
  <2>1. IsRow(r3)
    BY <1>5 DEF FieldSet
  <2> QED
    BY <2>1, FieldUpdated
<1> HIDE DEF row
<1>7. GoodRow(row) /\ row.state = x /\ row.out = b /\ row.input = i /\ row.run = m.run
  BY <1>1, <1>3, <1>4, <1>5, <1>6 DEF FieldSet, GoodRow
<1>8. /\ GoodRows([mem EXCEPT ![cmd.stage] = row])
      /\ [mem EXCEPT ![cmd.stage] = row][cmd.stage] = row
      /\ \A t \in Stages : t # cmd.stage => [mem EXCEPT ![cmd.stage] = row][t] = mem[t]
  BY <1>1, <1>7, RowReplaced
<1> QED
  BY <1>2, <1>7, <1>8 DEF m, i, b, x, row, r1, r2, r3

-----------------------------------------------------------------------------
(* Shapes are kept. *)

\* A command stays one.
LEMMA CommandsKept == ShapeInv /\ CountInv /\ [Next]_vars => cmd' \in Commands
<1> SUFFICES ASSUME ShapeInv, CountInv, [Next]_vars PROVE cmd' \in Commands
  OBVIOUS
<1>c. cmd \in Commands /\ \A pc \in Pcs : [cmd EXCEPT !.pc = pc] \in Commands
  BY DEF ShapeInv, Commands
<1>s. \A s \in Stages, lost \in BOOLEAN, pc \in Pcs :
        [cmd EXCEPT !.stage = s, !.lost = lost, !.pc = pc] \in Commands
  BY <1>c DEF Commands
<1>n. NoCommand \in Commands
  BY StageFacts DEF NoCommand, Commands, Pcs
<1>r. ASSUME NEW state, NEW out, NEW run, Return(state, out, run) PROVE cmd' \in Commands
  BY <1>c, <1>r DEF Return, GoTo, Pcs
<1> USE DEF GoTo, End, Pcs
<1>1. ASSUME NEW execute \in BOOLEAN, NEW resume \in BOOLEAN, Apply(execute, resume) PROVE cmd' \in Commands
  BY <1>n, <1>1 DEF Apply, Commands
<1>2. ASSUME NEW g \in Gates, NEW decision \in {"approve", "reject"}, Approve(g, decision) PROVE cmd' \in Commands
  BY <1>n, <1>2, StageFacts DEF Approve, Commands
<1>3. CASE Load
  BY <1>c, <1>3 DEF Load
<1>4. CASE Select
  <2>1. PICK found \in Finds(mem) :
           LET rows == Projection(mem, found) IN
           \/ End
           \/ /\ ~AllComplete(rows)
              /\ cmd' = [cmd EXCEPT !.stage = Current(rows),
                            !.lost = Kind[Current(rows)] = "run" /\ LostSubmission(Current(rows)),
                            !.pc = IF mem[Current(rows)].state = "RUNNING" /\ Kind[Current(rows)] # "run"
                                   THEN "interrupt" ELSE "begin"]
    BY <1>4 DEF Select
  <2> DEFINE s == Current(Projection(mem, found))
  <2>2. CASE End
    BY <2>2, <1>n
  <2>3. CASE /\ ~AllComplete(Projection(mem, found))
             /\ cmd' = [cmd EXCEPT !.stage = s, !.lost = Kind[s] = "run" /\ LostSubmission(s),
                            !.pc = IF mem[s].state = "RUNNING" /\ Kind[s] # "run"
                                   THEN "interrupt" ELSE "begin"]
    <3>1. s \in Stages
      BY <2>3, CurrentFacts
    <3> HIDE DEF s
    <3>2. (Kind[s] = "run" /\ LostSubmission(s)) \in BOOLEAN
      OBVIOUS
    <3>3. (IF mem[s].state = "RUNNING" /\ Kind[s] # "run" THEN "interrupt" ELSE "begin") \in Pcs
      OBVIOUS
    <3> QED
      BY <1>s, <2>3, <3>1, <3>2, <3>3
  <2> QED
    BY <2>1, <2>2, <2>3
<1>5. CASE Interrupt
  BY <1>c, <1>5 DEF Interrupt
<1>6. CASE Begin
  BY <1>c, <1>6 DEF Begin
<1>7. CASE Raise
  BY <1>c, <1>r, <1>7 DEF Raise
<1>8. CASE Build
  BY <1>r, <1>8 DEF Build
<1>9. CASE AskApproval
  BY <1>c, <1>r, <1>9 DEF AskApproval
<1>10. CASE Submit
  BY <1>c, <1>r, <1>10 DEF Submit
<1>11. CASE Wait
  <2>1. attempt[cmd.stage].status \in {"none", "active", "complete", "error", "failed", "cancelled"}
    BY DEF CountInv, ShapeInv, Commands
  <2> QED
    BY <1>r, <2>1, <1>11 DEF Wait
<1>12. CASE Commit
  BY <1>c, <1>n, <1>12 DEF Commit
<1>13. CASE Link
  BY <1>c, <1>13 DEF Link
<1>14. CASE Unlink
  BY <1>c, <1>14 DEF Unlink
<1>15. CASE Settle
  BY <1>c, <1>n, <1>15 DEF Settle
<1>16. CASE PublishApproval
  BY <1>c, <1>16 DEF PublishApproval
<1>17. CASE Gate
  BY <1>c, <1>n, <1>17 DEF Gate
<1>18. ASSUME NEW killed \in BOOLEAN, Stop(killed) PROVE cmd' \in Commands
  BY <1>c, <1>n, <1>18 DEF Stop
<1>19. ASSUME NEW r \in Runs, Progress(r) PROVE cmd' \in Commands
  BY <1>c, <1>19 DEF Progress
<1>20. CASE LoseController
  BY <1>c, <1>20 DEF LoseController
<1>21. CASE UNCHANGED vars
  BY <1>c, <1>21 DEF vars
<1> QED
  BY <1>1, <1>2, <1>3, <1>4, <1>5, <1>6, <1>7, <1>8, <1>9, <1>10, <1>11, <1>12, <1>13, <1>14, <1>15, <1>16, <1>17, <1>18, <1>19, <1>20, <1>21
  DEF Next, CommandStep

\* Index and memory keep their shape.
LEMMA RowsStayGood == ShapeInv /\ CountInv /\ [Next]_vars => GoodRows(index') /\ GoodRows(mem')
<1> SUFFICES ASSUME ShapeInv, CountInv, [Next]_vars PROVE GoodRows(index') /\ GoodRows(mem')
  OBVIOUS
<1>g. GoodRows(index) /\ GoodRows(mem)
  BY DEF ShapeInv
<1>i. GoodRows(Initial)
  BY GoodInitial
<1>e. End => GoodRows(mem')
  BY <1>i DEF End
<1>s. {"COMPLETE", "BLOCKED", "FAILED", "INCONCLUSIVE", "INTERRUPTED", "RUNNING", "AWAITING_APPROVAL"}
        \subseteq RowStates
  BY DEF RowStates, Committable
<1>r. ASSUME NEW state \in RowStates, NEW out, NEW run, Return(state, out, run) PROVE GoodRows(mem')
  BY <1>r, ReturnFacts
<1>f. \A rows : GoodRows(rows) /\ Record(rows) => GoodRows(index') /\ GoodRows(mem')
  BY RecordFacts
<1>1. ASSUME NEW execute \in BOOLEAN, NEW resume \in BOOLEAN, Apply(execute, resume) PROVE GoodRows(index') /\ GoodRows(mem')
  BY <1>g, <1>1, GoodReconcile DEF Apply, files
<1>2. ASSUME NEW g \in Gates, NEW decision \in {"approve", "reject"}, Approve(g, decision) PROVE GoodRows(index') /\ GoodRows(mem')
  BY <1>g, <1>2, GoodReconcile DEF Approve, files
<1>3. CASE Load
  BY <1>g, <1>f, <1>3 DEF Load
<1>4. CASE Select
  BY <1>g, <1>e, <1>4 DEF Select, files
<1>5. CASE Interrupt
  BY <1>f, InterruptRows, <1>5 DEF Interrupt
<1>6. CASE Begin
  BY <1>f, BeginRows, <1>6 DEF Begin
<1>7. CASE Raise
  BY <1>g, <1>r, <1>s, <1>7 DEF Raise, files
<1>8. CASE Build
  BY <1>g, <1>r, <1>s, <1>8 DEF Build, files
<1>9. CASE AskApproval
  <2>1. Decided(Approved(cmd.stage, mem)) \in RowStates
    BY <1>s DEF Decided
  <2> QED
    BY <1>g, <1>r, <2>1, <1>9 DEF AskApproval, files
<1>10. CASE Submit
  BY <1>g, <1>r, <1>s, <1>10 DEF Submit, files
<1>11. CASE Wait
  <2>1. attempt[cmd.stage].status \in {"none", "active", "complete", "error", "failed", "cancelled"}
    BY DEF CountInv, ShapeInv, Commands
  <2> QED
    BY <1>g, <1>r, <1>s, <2>1, <1>11 DEF Wait, files
<1>12. CASE Commit
  BY <1>g, <1>e, CommitRows, <1>12 DEF Commit, files
<1>13. CASE Link
  BY <1>g, CommitRows, <1>13 DEF Link
<1>14. CASE Unlink
  BY <1>g, <1>14 DEF Unlink, files
<1>15. CASE Settle
  <2>1. PICK found \in Finds(mem) :
           index' = Projection(mem, found) /\ (mem' = index' \/ End)
    BY <1>15 DEF Settle
  <2> QED
    BY <1>g, <1>e, <2>1, ProjectionFacts
<1>16. CASE PublishApproval
  BY <1>g, <1>16 DEF PublishApproval
<1>17. CASE Gate
  <2>1. CASE InputKnown(cmd.stage, mem)
    BY <1>g, <1>17, <2>1, GateRows DEF Gate, files
  <2>2. CASE ~InputKnown(cmd.stage, mem)
    BY <1>g, <1>e, <1>17, <2>2 DEF Gate, files
  <2> QED
    BY <2>1, <2>2
<1>18. ASSUME NEW killed \in BOOLEAN, Stop(killed) PROVE GoodRows(index') /\ GoodRows(mem')
  BY <1>g, <1>e, <1>18 DEF Stop
<1>19. ASSUME NEW r \in Runs, Progress(r) PROVE GoodRows(index') /\ GoodRows(mem')
  BY <1>g, <1>19 DEF Progress, files
<1>20. CASE LoseController
  BY <1>g, <1>20 DEF LoseController, files
<1>21. CASE UNCHANGED vars
  BY <1>g, <1>21 DEF vars, files
<1> QED
  BY <1>1, <1>2, <1>3, <1>4, <1>5, <1>6, <1>7, <1>8, <1>9, <1>10, <1>11, <1>12, <1>13, <1>14, <1>15, <1>16, <1>17, <1>18, <1>19, <1>20, <1>21
  DEF Next, CommandStep

\* ShapeInv, for every step.
LEMMA ShapesKept == ShapeInv /\ CountInv /\ StageInv /\ [Next]_vars => ShapeInv'
<1> SUFFICES ASSUME ShapeInv, CountInv, StageInv, [Next]_vars PROVE ShapeInv'
  OBVIOUS
<1>1. cmd' \in Commands /\ GoodRows(index') /\ GoodRows(mem')
  BY CommandsKept, RowsStayGood
<1>2. \/ receipts' = receipts
      \/ Link
  BY DEF Next, CommandStep, Apply, Approve, Load, Record, Select, Interrupt, Begin, Raise, Build,
         AskApproval, Submit, Wait, Commit, Unlink, Settle, PublishApproval, Gate, Stop, Progress,
         LoseController, vars, files
<1>3. \/ approvals' = approvals
      \/ PublishApproval
  BY DEF Next, CommandStep, Apply, Approve, Load, Record, Select, Interrupt, Begin, Raise, Build,
         AskApproval, Submit, Wait, Commit, Link, Unlink, Settle, Gate, Stop, Progress,
         LoseController, vars, files
<1>4. \A r \in receipts' : IsReceipt(r) /\ r.stage \in Stages /\ r.state \in Committable
  <2>1. \A r \in receipts : IsReceipt(r) /\ r.stage \in Stages /\ r.state \in Committable
    BY DEF ShapeInv
  <2>2. ASSUME Link PROVE receipts' = receipts \cup {AsReceipt(cmd.stage, mem[cmd.stage])}
                          /\ mem[cmd.stage].state \in Committable /\ cmd.stage \in Stages
    BY <2>2 DEF Link, StageInv, Result, ShapeInv, Commands
  <2>3. LET r == AsReceipt(cmd.stage, mem[cmd.stage])
        IN  IsReceipt(r) /\ r.stage = cmd.stage /\ r.state = mem[cmd.stage].state
    BY DEF AsReceipt, IsReceipt
  <2> QED
    BY <1>2, <2>1, <2>2, <2>3
<1>5. \A a \in approvals' : IsApproval(a) /\ a.stage \in Gates /\ a.decision \in {"approve", "reject"}
  <2> DEFINE new == [stage |-> cmd.stage, binding |-> Binding(cmd.stage, mem), decision |-> cmd.decision]
  <2>1. \A a \in approvals : IsApproval(a) /\ a.stage \in Gates /\ a.decision \in {"approve", "reject"}
    BY DEF ShapeInv
  <2>2. ASSUME PublishApproval PROVE approvals' = approvals \cup {new} /\ cmd.stage \in Gates
    BY <2>2 DEF PublishApproval, StageInv
  <2>3. IsApproval(new) /\ new.stage = cmd.stage /\ new.decision \in {"approve", "reject"}
    BY DEF IsApproval, ShapeInv, Commands
  <2> HIDE DEF new
  <2> QED
    BY <1>3, <2>1, <2>2, <2>3
<1> QED
  BY <1>1, <1>4, <1>5 DEF ShapeInv

-----------------------------------------------------------------------------
(* Attempts. *)

\* A new attempt, under the lock of a command that may execute.
Submits ==
    /\ cmd.pc = "dispatch" /\ Kind[cmd.stage] = "run"
    /\ ~LostSubmission(cmd.stage) /\ attempt[cmd.stage] = NoAttempt
    /\ submitted' = [submitted EXCEPT ![cmd.stage] = @ + 1]
    /\ attempt' = [attempt EXCEPT ![cmd.stage] = [id |-> submitted'[cmd.stage], status |-> "active"]]
    /\ UNCHANGED <<files, losses, mem, stops>>

\* Who changes attempts: a submission, the controller, or its loss.
LEMMA FleetSteps ==
    ASSUME [Next]_vars
    PROVE  \/ UNCHANGED <<attempt, submitted, losses>>
           \/ Submits
           \/ \E r \in Runs : Progress(r)
           \/ LoseController
<1> USE DEF fleet
<1>1. CASE Submit
  BY <1>1 DEF Submit, Submits
<1> QED
  BY <1>1 DEF Next, CommandStep, Apply, Approve, Load, Select, Interrupt, Begin, Raise, Build,
         AskApproval, Wait, Commit, Link, Unlink, Settle, PublishApproval, Gate, Stop, vars

\* Attempts are numbered, and no more of them than losses and one.
LEMMA FleetKept ==
    ASSUME CountInv, ShapeInv, [Next]_vars
    PROVE  /\ losses' \in 0..MaxLosses /\ submitted' \in [Stages -> Nat]
           /\ attempt' \in [Stages -> [id : Nat, status : {"none", "active", "complete", "error",
                                                           "failed", "cancelled"}]]
           /\ \A s \in Stages :
                /\ submitted[s] <= submitted'[s]
                /\ attempt'[s].id <= submitted'[s]
                /\ submitted'[s] <= losses' + (IF attempt'[s] = NoAttempt THEN 0 ELSE 1)
<1>c. /\ losses \in 0..MaxLosses /\ submitted \in [Stages -> Nat]
      /\ attempt \in [Stages -> [id : Nat, status : {"none", "active", "complete", "error",
                                                      "failed", "cancelled"}]]
      /\ \A s \in Stages :
           /\ attempt[s].id <= submitted[s]
           /\ submitted[s] <= losses + (IF attempt[s] = NoAttempt THEN 0 ELSE 1)
  BY DEF CountInv
<1>m. MaxLosses \in Nat /\ cmd.stage \in Stages
  BY CampaignAssumption DEF ShapeInv, Commands
<1>1. CASE UNCHANGED <<attempt, submitted, losses>>
  BY <1>c, <1>1
<1>2. CASE Submits
  <2> DEFINE new == [id |-> submitted[cmd.stage] + 1, status |-> "active"]
  <2>1. /\ submitted' = [submitted EXCEPT ![cmd.stage] = submitted[cmd.stage] + 1]
        /\ losses' = losses /\ attempt[cmd.stage] = NoAttempt
    BY <1>2 DEF Submits
  <2>2. submitted'[cmd.stage] = submitted[cmd.stage] + 1
    BY <1>c, <1>m, <2>1
  <2>3. attempt' = [attempt EXCEPT ![cmd.stage] = new]
    BY <1>2, <2>2 DEF Submits
  <2>4. new # NoAttempt /\ new.id = submitted[cmd.stage] + 1
        /\ new \in [id : Nat, status : {"none", "active", "complete", "error", "failed", "cancelled"}]
    BY <1>c, <1>m DEF NoAttempt
  <2> HIDE DEF new
  <2>5. \A s \in Stages : s # cmd.stage => attempt'[s] = attempt[s] /\ submitted'[s] = submitted[s]
    BY <1>c, <2>1, <2>3
  <2>6. attempt'[cmd.stage] = new
    BY <1>c, <1>m, <2>3
  <2>7. /\ submitted' \in [Stages -> Nat]
        /\ attempt' \in [Stages -> [id : Nat, status : {"none", "active", "complete", "error",
                                                        "failed", "cancelled"}]]
    BY <1>c, <1>m, <2>1, <2>3, <2>4
  <2> QED
    BY <1>c, <1>m, <2>1, <2>2, <2>4, <2>5, <2>6, <2>7
<1>3. ASSUME NEW r \in Runs, Progress(r)
      PROVE  /\ losses' \in 0..MaxLosses /\ submitted' \in [Stages -> Nat]
             /\ attempt' \in [Stages -> [id : Nat, status : {"none", "active", "complete", "error",
                                                             "failed", "cancelled"}]]
             /\ \A s \in Stages :
                  /\ submitted[s] <= submitted'[s]
                  /\ attempt'[s].id <= submitted'[s]
                  /\ submitted'[s] <= losses' + (IF attempt'[s] = NoAttempt THEN 0 ELSE 1)
  <2>1. r \in Stages /\ UNCHANGED <<submitted, losses>>
    BY <1>3 DEF Runs, Progress
  <2>2. PICK status \in {"complete", "error", "failed", "cancelled"} :
           attempt' = [attempt EXCEPT ![r].status = status]
    BY <1>3 DEF Progress
  <2>3. /\ attempt'[r].id = attempt[r].id /\ attempt'[r].status = status
        /\ attempt' \in [Stages -> [id : Nat, status : {"none", "active", "complete", "error",
                                                        "failed", "cancelled"}]]
        /\ \A s \in Stages : s # r => attempt'[s] = attempt[s]
    BY <1>c, <2>1, <2>2
  <2>4. attempt[r] # NoAttempt /\ attempt'[r] # NoAttempt
    BY <1>3, <2>3 DEF Progress, NoAttempt
  <2> QED
    BY <1>c, <2>1, <2>3, <2>4
<1>4. CASE LoseController
  <2>1. /\ losses' = losses + 1 /\ losses < MaxLosses /\ UNCHANGED submitted
        /\ \A s \in Stages : attempt'[s] = NoAttempt
        /\ NoAttempt.id = 0
    BY <1>4 DEF LoseController, NoAttempt
  <2>2. attempt' \in [Stages -> [id : Nat, status : {"none", "active", "complete", "error",
                                                     "failed", "cancelled"}]]
    BY <1>4 DEF LoseController, NoAttempt
  <2> QED
    BY <1>c, <1>m, <2>1, <2>2
<1> QED
  BY <1>1, <1>2, <1>3, <1>4, FleetSteps

\* A row names only attempts that were submitted.
LEMMA RunNumbersKept ==
    ASSUME ShapeInv, CountInv, [Next]_vars, NEW s \in Stages
    PROVE  index'[s].run \in 0..submitted[s] /\ mem'[s].run \in 0..submitted[s]
<1> DEFINE G == index'[s].run \in 0..submitted[s] /\ mem'[s].run \in 0..submitted[s]
<1>g. index[s].run \in 0..submitted[s] /\ mem[s].run \in 0..submitted[s] /\ submitted[s] \in Nat
  BY DEF CountInv
<1>m. GoodRows(mem)
  BY DEF ShapeInv
<1>i. Initial[s].run \in 0..submitted[s]
  BY <1>g, GoodInitial DEF NewRow
<1>e. End => mem'[s].run \in 0..submitted[s]
  BY <1>i DEF End
<1>c. Reconcile(index)[s].run \in 0..submitted[s]
  <2>1. CASE Committed(s)
    <3>1. PICK r \in ReceiptOf(s) : Reconcile(index)[s] = AsRow(r)
      BY <2>1 DEF Reconcile, Committed
    <3> QED
      BY <3>1 DEF CountInv, AsRow
  <2>2. CASE ~Committed(s)
    BY <1>g, <2>2 DEF Reconcile
  <2> QED
    BY <2>1, <2>2
<1>s. {"COMPLETE", "BLOCKED", "FAILED", "INCONCLUSIVE", "INTERRUPTED", "RUNNING", "AWAITING_APPROVAL"}
        \subseteq RowStates
  BY DEF RowStates, Committable
<1>r. ASSUME NEW state \in RowStates, NEW out, NEW run, Return(state, out, run),
             run = 0 \/ run = attempt[cmd.stage].id
      PROVE  mem'[s].run \in 0..submitted[s]
  <2>1. s # cmd.stage => mem'[s] = mem[s]
    BY <1>r, ReturnFacts
  <2>2. mem'[cmd.stage].run = IF run = 0 THEN mem[cmd.stage].run ELSE run
    BY <1>r, ReturnFacts
  <2>3. s = cmd.stage => attempt[cmd.stage].id \in 0..submitted[s]
    BY DEF CountInv
  <2> QED
    BY <1>r, <1>g, <2>1, <2>2, <2>3
<1>f. \A rows : GoodRows(rows) /\ Record(rows) => index'[s].run = rows[s].run /\ mem'[s].run = rows[s].run
  BY RecordFacts
<1>1. ASSUME NEW execute \in BOOLEAN, NEW resume \in BOOLEAN, Apply(execute, resume) PROVE G
  BY <1>g, <1>c, <1>1 DEF Apply, files
<1>2. ASSUME NEW g \in Gates, NEW decision \in {"approve", "reject"}, Approve(g, decision) PROVE G
  BY <1>g, <1>c, <1>2 DEF Approve, files
<1>3. CASE Load
  BY <1>g, <1>m, <1>f, <1>3 DEF Load
<1>4. CASE Select
  BY <1>g, <1>e, <1>4 DEF Select, files
<1>5. CASE Interrupt
  <2> DEFINE new == [mem EXCEPT ![cmd.stage].state = "INTERRUPTED"]
  <2>1. GoodRows(new) /\ new[s].run = mem[s].run
    BY InterruptRows
  <2>2. Record(new)
    BY <1>5 DEF Interrupt
  <2> HIDE DEF new
  <2> QED
    BY <1>g, <1>f, <2>1, <2>2
<1>6. CASE Begin
  <2> DEFINE new == [mem EXCEPT ![cmd.stage].state = "RUNNING",
                                ![cmd.stage].input = Input(cmd.stage, mem),
                                ![cmd.stage].bound = TRUE]
  <2>1. GoodRows(new) /\ new[s].run = mem[s].run
    BY BeginRows
  <2>2. Record(new)
    BY <1>6 DEF Begin
  <2> HIDE DEF new
  <2> QED
    BY <1>g, <1>f, <2>1, <2>2
<1>7. CASE Raise
  BY <1>g, <1>r, <1>s, <1>7 DEF Raise, files
<1>8. CASE Build
  BY <1>g, <1>r, <1>s, <1>8 DEF Build, files
<1>9. CASE AskApproval
  <2>1. Decided(Approved(cmd.stage, mem)) \in RowStates
    BY <1>s DEF Decided
  <2> QED
    BY <1>g, <1>r, <2>1, <1>9 DEF AskApproval, files
<1>10. CASE Submit
  BY <1>g, <1>r, <1>s, <1>10 DEF Submit, files
<1>11. CASE Wait
  <2>1. attempt[cmd.stage].status \in {"none", "active", "complete", "error", "failed", "cancelled"}
    BY DEF CountInv, ShapeInv, Commands
  <2> QED
    BY <1>g, <1>r, <1>s, <2>1, <1>11 DEF Wait, files
<1>12. CASE Commit
  BY <1>g, <1>e, CommitRows, <1>12 DEF Commit, files
<1>13. CASE Link
  BY <1>g, CommitRows, <1>13 DEF Link
<1>14. CASE Unlink
  BY <1>g, <1>14 DEF Unlink, files
<1>15. CASE Settle
  <2>1. PICK found \in Finds(mem) :
           index' = Projection(mem, found) /\ (mem' = index' \/ End)
    BY <1>15 DEF Settle
  <2>2. Projection(mem, found)[s].run = mem[s].run
    BY <1>m, ProjectionFacts
  <2> QED
    BY <1>g, <1>e, <2>1, <2>2
<1>16. CASE PublishApproval
  BY <1>g, <1>16 DEF PublishApproval
<1>17. CASE Gate
  <2>1. CASE InputKnown(cmd.stage, mem)
    BY <1>g, <1>17, <2>1, GateRows DEF Gate, files
  <2>2. CASE ~InputKnown(cmd.stage, mem)
    BY <1>g, <1>e, <1>17, <2>2 DEF Gate, files
  <2> QED
    BY <2>1, <2>2
<1>18. ASSUME NEW killed \in BOOLEAN, Stop(killed) PROVE G
  BY <1>g, <1>e, <1>18 DEF Stop
<1>19. ASSUME NEW r \in Runs, Progress(r) PROVE G
  BY <1>g, <1>19 DEF Progress, files
<1>20. CASE LoseController
  BY <1>g, <1>20 DEF LoseController, files
<1>21. CASE UNCHANGED vars
  BY <1>g, <1>21 DEF vars, files
<1> QED
  BY <1>1, <1>2, <1>3, <1>4, <1>5, <1>6, <1>7, <1>8, <1>9, <1>10, <1>11, <1>12, <1>13, <1>14, <1>15, <1>16, <1>17, <1>18, <1>19, <1>20, <1>21
  DEF Next, CommandStep

\* CountInv, for every step.
LEMMA CountsKept == ShapeInv /\ CountInv /\ [Next]_vars => CountInv'
<1> SUFFICES ASSUME ShapeInv, CountInv, [Next]_vars PROVE CountInv'
  OBVIOUS
<1>1. stops' \in 0..MaxStops
  <2>1. stops' = stops \/ (stops < MaxStops /\ stops' = stops + 1)
    BY DEF Next, CommandStep, Apply, Approve, Load, Select, Interrupt, Begin,
       Raise, Build, AskApproval, Submit, Wait, Commit, Link, Unlink, Settle, PublishApproval, Gate,
       Stop, Progress, LoseController, vars
  <2> QED
    BY <2>1, CampaignAssumption DEF CountInv
<1>2. saved' \in BOOLEAN
  BY DEF CountInv, Next, CommandStep, Apply, Approve, Load, Record, Select, Interrupt, Begin,
     Raise, Build, AskApproval, Submit, Wait, Commit, Link, Unlink, Settle, PublishApproval, Gate, Stop,
     Progress, LoseController, vars, files
<1>3. litter' \in BOOLEAN
  BY DEF CountInv, Next, CommandStep, Apply, Approve, Load, Record, Select, Interrupt, Begin,
     Raise, Build, AskApproval, Submit, Wait, Commit, Link, Unlink, Settle, PublishApproval, Gate, Stop,
     Progress, LoseController, vars, files
<1>4. /\ losses' \in 0..MaxLosses /\ submitted' \in [Stages -> Nat]
      /\ attempt' \in [Stages -> [id : Nat, status : {"none", "active", "complete", "error",
                                                      "failed", "cancelled"}]]
      /\ \A s \in Stages :
           /\ submitted[s] <= submitted'[s]
           /\ attempt'[s].id <= submitted'[s]
           /\ submitted'[s] <= losses' + (IF attempt'[s] = NoAttempt THEN 0 ELSE 1)
  BY FleetKept
<1>5. ASSUME NEW s \in Stages
      PROVE  /\ index'[s].run \in 0..submitted'[s] /\ mem'[s].run \in 0..submitted'[s]
             /\ \A r \in ReceiptOf(s)' : r.run \in 0..submitted'[s]
  <2>1. submitted[s] \in Nat /\ submitted'[s] \in Nat /\ submitted[s] <= submitted'[s]
    BY <1>4 DEF CountInv
  <2>2. index'[s].run \in 0..submitted[s] /\ mem'[s].run \in 0..submitted[s]
    BY RunNumbersKept
  <2>3. \/ receipts' = receipts
        \/ receipts' = receipts \cup {AsReceipt(cmd.stage, mem[cmd.stage])}
    BY DEF Next, CommandStep, Apply, Approve, Load, Record, Select, Interrupt, Begin, Raise, Build,
       AskApproval, Submit, Wait, Commit, Link, Unlink, Settle, PublishApproval, Gate, Stop, Progress,
       LoseController, vars, files
  <2>4. /\ AsReceipt(cmd.stage, mem[cmd.stage]).run = mem[cmd.stage].run
        /\ AsReceipt(cmd.stage, mem[cmd.stage]).stage = cmd.stage
    BY DEF AsReceipt
  <2>5. ASSUME NEW r \in ReceiptOf(s)' PROVE r.run \in 0..submitted[s]
    <3>1. r \in ReceiptOf(s) \/ (r = AsReceipt(cmd.stage, mem[cmd.stage]) /\ s = cmd.stage)
      BY <2>3, <2>4 DEF ReceiptOf
    <3> QED
      BY <2>4, <3>1 DEF CountInv
  <2> QED
    BY <2>1, <2>2, <2>5
<1> QED
  BY <1>1, <1>2, <1>3, <1>4, <1>5 DEF CountInv

-----------------------------------------------------------------------------
(* The ledger only grows. *)

\* What the ledger has of a stage.
LEMMA LedgerValue ==
    \A s \in Stages : Ledger[s] = IF Committed(s) THEN AsRow(CHOOSE r \in ReceiptOf(s) : TRUE) ELSE NewRow
BY DEF Ledger, Reconcile, Initial

\* What the link of a receipt makes of the receipts.
LEMMA LinkFacts ==
    ASSUME ShapeInv, StageInv, Link
    PROVE  LET new == AsReceipt(cmd.stage, mem[cmd.stage]) IN
           /\ new.stage = cmd.stage /\ receipts' = receipts \cup {new}
           /\ cmd.stage \in Stages /\ ~Committed(cmd.stage) /\ UNCHANGED approvals
           /\ \A s \in Stages : s = cmd.stage =>
                ReceiptOf(s)' = {new} /\ Committed(s)' /\ Ledger'[s] = AsRow(new)
           /\ \A s \in Stages : s # cmd.stage =>
                /\ ReceiptOf(s)' = ReceiptOf(s) /\ Committed(s)' = Committed(s)
                /\ Ledger'[s] = Ledger[s]
<1> DEFINE new == AsReceipt(cmd.stage, mem[cmd.stage])
<1>1. receipts' = receipts \cup {new} /\ ~Committed(cmd.stage) /\ UNCHANGED approvals
      /\ cmd.stage \in Stages
  BY DEF Link, StageInv, ShapeInv, Commands
<1>2. new.stage = cmd.stage
  BY DEF AsReceipt
<1> HIDE DEF new
<1>3. \A s \in Stages : Ledger'[s] = IF Committed(s)' THEN AsRow(CHOOSE r \in ReceiptOf(s)' : TRUE) ELSE NewRow
  <2>1. (\A s \in Stages : Ledger[s] = IF Committed(s) THEN AsRow(CHOOSE r \in ReceiptOf(s) : TRUE) ELSE NewRow)'
    BY LedgerValue, PTL
  <2> QED
    BY <2>1
<1>4. \A r \in receipts : r.stage # cmd.stage
  BY <1>1 DEF Committed, ReceiptOf
<1>5. ASSUME NEW s \in Stages, s = cmd.stage
      PROVE  ReceiptOf(s)' = {new} /\ Committed(s)' /\ Ledger'[s] = AsRow(new)
  <2>1. ReceiptOf(s)' = {new}
    BY <1>1, <1>2, <1>4, <1>5 DEF ReceiptOf
  <2>2. Committed(s)'
    BY <2>1 DEF Committed
  <2>3. (CHOOSE r \in {new} : TRUE) = new
    OBVIOUS
  <2> QED
    BY <1>3, <2>1, <2>2, <2>3
<1>6. ASSUME NEW s \in Stages, s # cmd.stage
      PROVE  /\ ReceiptOf(s)' = ReceiptOf(s) /\ Committed(s)' = Committed(s)
             /\ Ledger'[s] = Ledger[s]
  <2>1. ReceiptOf(s)' = ReceiptOf(s)
    BY <1>1, <1>2, <1>6 DEF ReceiptOf
  <2>2. Committed(s)' = Committed(s)
    BY <2>1 DEF Committed
  <2> QED
    BY <1>3, <2>1, <2>2, LedgerValue
<1> QED
  BY <1>1, <1>2, <1>5, <1>6 DEF new

\* No step takes a receipt or an approval back.
LEMMA LedgerGrows ==
    ASSUME ShapeInv, StageInv, [Next]_vars
    PROVE  /\ approvals \subseteq approvals'
           /\ \A s \in Stages : /\ Committed(s) => Committed(s)' /\ Ledger'[s] = Ledger[s]
                                /\ Done(s) => Done(s)'
           /\ ~Link => receipts' = receipts
<1>1. \/ receipts' = receipts
      \/ Link
  BY DEF Next, CommandStep, Apply, Approve, Load, Record, Select, Interrupt, Begin, Raise, Build,
         AskApproval, Submit, Wait, Commit, Unlink, Settle, PublishApproval, Gate, Stop, Progress,
         LoseController, vars, files
<1>2. approvals \subseteq approvals'
  BY DEF Next, CommandStep, Apply, Approve, Load, Record, Select, Interrupt, Begin, Raise, Build,
         AskApproval, Submit, Wait, Commit, Link, Unlink, Settle, PublishApproval, Gate, Stop, Progress,
         LoseController, vars, files
<1>3. ASSUME NEW s \in Stages, Committed(s) PROVE Committed(s)' /\ Ledger'[s] = Ledger[s]
  <2>1. CASE receipts' = receipts
    BY <1>3, <2>1, SameReceipts
  <2>2. CASE Link
    <3>1. ~Committed(cmd.stage)
      BY <2>2, LinkFacts
    <3>2. s # cmd.stage
      BY <1>3, <3>1
    <3> QED
      BY <1>3, <2>2, <3>2, LinkFacts
  <2> QED
    BY <1>1, <2>1, <2>2
<1> QED
  BY <1>1, <1>2, <1>3 DEF Done

\* So do inputs, bindings and results that were computed from it.
LEMMA ResultsStay ==
    ASSUME ShapeInv, StageInv, [Next]_vars
    PROVE  /\ \A s \in Stages : (\A d \in Requires[s] : Done(d)) => Input(s, Ledger)' = Input(s, Ledger)
           /\ \A g \in Gates : (\A b \in Bind[g] : Done(b)) => Binding(g, Ledger)' = Binding(g, Ledger)
           /\ \A s \in Stages : \A row : (\A d \in Requires[s] : Done(d)) /\ Result(s, row) =>
                /\ row.input = Input(s, Ledger)'
                /\ Kind[s] = "approval" /\ row.state = "COMPLETE" => Opened(s, row.out)'
<1>1. ASSUME NEW s \in Stages, \A d \in Requires[s] : Done(d) PROVE Input(s, Ledger)' = Input(s, Ledger)
  <2>1. \A d \in Requires[s] : Ledger'[d] = Ledger[d]
    BY <1>1, LedgerGrows, StageFacts DEF Done
  <2> QED
    BY <2>1 DEF Input
<1>2. ASSUME NEW g \in Gates, \A b \in Bind[g] : Done(b) PROVE Binding(g, Ledger)' = Binding(g, Ledger)
  <2>1. \A b \in Bind[g] : Ledger'[b] = Ledger[b]
    BY <1>2, LedgerGrows, StageFacts DEF Done
  <2> QED
    BY <2>1 DEF Binding
<1>3. ASSUME NEW s \in Stages, NEW row, \A d \in Requires[s] : Done(d), Result(s, row),
             Kind[s] = "approval", row.state = "COMPLETE"
      PROVE  Opened(s, row.out)'
  <2>1. s \in Gates /\ Opened(s, row.out)
    BY <1>3 DEF Result, Gates
  <2>2. Binding(s, Ledger)' = Binding(s, Ledger)
    BY <1>2, <2>1 DEF Opened
  <2>3. \A b \in Bind[s] : Done(b)'
    BY <2>1, LedgerGrows, StageFacts DEF Opened
  <2>4. [stage |-> s, binding |-> row.out, decision |-> "approve"] \in approvals'
    BY <2>1, LedgerGrows DEF Opened
  <2> QED
    BY <2>1, <2>2, <2>3, <2>4 DEF Opened
<1> QED
  BY <1>1, <1>2, <1>3 DEF Result

\* LedgerInv, for every step.
LEMMA LedgerKept == ShapeInv /\ StageInv /\ LedgerInv /\ [Next]_vars => LedgerInv'
<1> SUFFICES ASSUME ShapeInv, StageInv, LedgerInv, [Next]_vars, NEW r \in receipts'
             PROVE  /\ ReceiptOf(r.stage)' = {r}
                    /\ \A d \in Requires[r.stage] : Done(d)'
                    /\ Result(r.stage, r)'
  BY DEF LedgerInv
<1>1. CASE r \in receipts
  <2>1. /\ r.stage \in Stages /\ ReceiptOf(r.stage) = {r}
        /\ \A d \in Requires[r.stage] : Done(d)
        /\ Result(r.stage, r)
    BY <1>1 DEF LedgerInv, ShapeInv
  <2>2. Committed(r.stage)
    BY <2>1 DEF Committed
  <2>3. ReceiptOf(r.stage)' = {r}
    <3>1. CASE Link
      <4>1. r.stage # cmd.stage
        BY <2>2, <3>1, LinkFacts
      <4> QED
        BY <2>1, <3>1, <4>1, LinkFacts
    <3>2. CASE ~Link
      BY <2>1, <3>2, LedgerGrows, SameReceipts
    <3> QED
      BY <3>1, <3>2
  <2>4. \A d \in Requires[r.stage] : Done(d)'
    BY <2>1, LedgerGrows, StageFacts
  <2>5. /\ r.input = Input(r.stage, Ledger)'
        /\ Kind[r.stage] = "approval" /\ r.state = "COMPLETE" => Opened(r.stage, r.out)'
    BY <2>1, ResultsStay
  <2> QED
    BY <2>1, <2>3, <2>4, <2>5 DEF Result
<1>2. CASE r \notin receipts
  <2>1. Link
    BY <1>2, LedgerGrows
  <2> DEFINE row == mem[cmd.stage]
  <2>2. r = AsReceipt(cmd.stage, row) /\ cmd.stage \in Stages
    BY <1>2, <2>1, LinkFacts
  <2>3. r.stage = cmd.stage /\ r.input = row.input /\ r.state = row.state /\ r.out = row.out
    BY <2>2 DEF AsReceipt
  <2>4. ReceiptOf(r.stage)' = {r}
    BY <2>1, <2>2, <2>3, LinkFacts
  <2>5. (\A d \in Requires[cmd.stage] : Done(d)) /\ Result(cmd.stage, row)
    BY <2>1 DEF Link, StageInv
  <2> HIDE DEF row
  <2>6. Result(cmd.stage, r)
    BY <2>3, <2>5 DEF Result
  <2>7. \A d \in Requires[r.stage] : Done(d)'
    BY <2>2, <2>3, <2>5, LedgerGrows, StageFacts
  <2>8. /\ r.input = Input(r.stage, Ledger)'
        /\ Kind[r.stage] = "approval" /\ r.state = "COMPLETE" => Opened(r.stage, r.out)'
    BY <2>2, <2>3, <2>5, <2>6, ResultsStay
  <2>9. r.state \in Committable /\ (r.state = "INTERRUPTED" => Kind[r.stage] = "run")
    BY <2>3, <2>6 DEF Result
  <2> QED
    BY <2>4, <2>7, <2>8, <2>9 DEF Result
<1> QED
  BY <1>1, <1>2

-----------------------------------------------------------------------------
(* A command's rows and the ledger. *)

Agree(rows) ==
    \A s \in Stages : /\ Committed(s) => rows[s] = Ledger[s]
                      /\ ~Committed(s) => rows[s].state # "COMPLETE"

\* A command's rows agree with the ledger, but for the result it commits.
LEMMA AgreeMem ==
    ASSUME RowsInv, cmd.pc \notin {"none", "commit", "link"} PROVE Agree(mem)
BY DEF RowsInv, Agree

\* reconcile refuses an index that has more complete stages than receipts.
LEMMA AgreeReconcile ==
    ASSUME ShapeInv, LedgerInv, ~Wedged PROVE Agree(Reconcile(index))
<1>1. ASSUME NEW s \in Stages, ~Committed(s) PROVE index[s].state # "COMPLETE"
  BY <1>1 DEF Wedged, ReconcileRefuses, ReceiptMissing
<1> QED
  BY <1>1, LedgerFacts DEF Agree

\* The projection keeps the agreement.
LEMMA AgreeProject ==
    ASSUME ShapeInv, LedgerInv, NEW rows, GoodRows(rows), Agree(rows), NEW found \in Finds(rows)
    PROVE  Agree(Projection(rows, found))
<1> DEFINE new == Projection(rows, found)
<1>1. \A s \in Stages :
         /\ new[s].state = "COMPLETE" <=> rows[s].state = "COMPLETE"
         /\ rows[s].receipt /\ rows[s].state \in Committable => new[s] = rows[s]
  BY ProjectionFacts
<1> HIDE DEF new
<1>2. ASSUME NEW s \in Stages, Committed(s) PROVE new[s] = Ledger[s]
  BY <1>1, <1>2, LedgerFacts DEF Agree
<1>3. ASSUME NEW s \in Stages, ~Committed(s) PROVE new[s].state # "COMPLETE"
  BY <1>1, <1>3 DEF Agree
<1> QED
  BY <1>2, <1>3 DEF Agree, new

\* So does what _record puts into index and memory.
LEMMA AgreeRecord ==
    ASSUME ShapeInv, LedgerInv, NEW rows, GoodRows(rows), Agree(rows), Record(rows)
    PROVE  Agree(mem')
<1>1. PICK found \in Finds(rows) : mem' = Projection(rows, found)
  BY DEF Record
<1> QED
  BY <1>1, AgreeProject

\* A complete row is a committed one.
LEMMA AgreeDone ==
    ASSUME NEW rows, Agree(rows), NEW s \in Stages, rows[s].state = "COMPLETE"
    PROVE  Done(s) /\ rows[s] = Ledger[s]
BY DEF Agree, Done

\* Digests of rows that agree with the ledger are the ledger's.
LEMMA AgreeDigests ==
    ASSUME NEW rows, Agree(rows), NEW s \in Stages
    PROVE  /\ (\A d \in Requires[s] : Done(d)) => Input(s, rows) = Input(s, Ledger)
           /\ s \in Gates /\ (\A b \in Bind[s] : Done(b)) => Binding(s, rows) = Binding(s, Ledger)
<1>1. ASSUME \A d \in Requires[s] : Done(d) PROVE Input(s, rows) = Input(s, Ledger)
  <2>1. \A d \in Requires[s] : rows[d] = Ledger[d]
    BY <1>1, StageFacts DEF Agree, Done
  <2> QED
    BY <2>1 DEF Input
<1>2. ASSUME s \in Gates, \A b \in Bind[s] : Done(b) PROVE Binding(s, rows) = Binding(s, Ledger)
  <2>1. \A b \in Bind[s] : rows[b] = Ledger[b]
    BY <1>2, StageFacts DEF Agree, Done
  <2> QED
    BY <2>1 DEF Binding
<1> QED
  BY <1>1, <1>2

\* Rows that agree satisfy RowsInv.
LEMMA AgreeKept ==
    ASSUME receipts' = receipts, Agree(mem') PROVE RowsInv'
BY SameReceipts DEF Agree, RowsInv

\* What a dispatch comes back with.
Dispatches == Raise \/ Build \/ AskApproval \/ Submit \/ Wait

\* It goes on to wait, or returns a result that may be committed.
LEMMA DispatchFacts ==
    ASSUME ShapeInv, CountInv, LedgerInv, RowsInv, StageInv, Dispatches
    PROVE  /\ cmd.pc \in {"dispatch", "wait"} /\ UNCHANGED files /\ cmd.stage \in Stages
           /\ \/ /\ cmd.pc = "dispatch" /\ Kind[cmd.stage] = "run"
                 /\ mem' = mem /\ cmd' = [cmd EXCEPT !.pc = "wait"]
              \/ \E state \in RowStates : \E out, run :
                   /\ Return(state, out, run)
                   /\ state = "INTERRUPTED" => Kind[cmd.stage] \in {"snapshot", "run"}
                   /\ Kind[cmd.stage] = "approval" /\ state = "COMPLETE" => Opened(cmd.stage, out)
<1> DEFINE Q == \E state \in RowStates : \E out, run :
                   /\ Return(state, out, run)
                   /\ state = "INTERRUPTED" => Kind[cmd.stage] \in {"snapshot", "run"}
                   /\ Kind[cmd.stage] = "approval" /\ state = "COMPLETE" => Opened(cmd.stage, out)
<1>1. cmd.pc \in {"dispatch", "wait"} /\ UNCHANGED files /\ cmd.stage \in Stages
  BY DEF Dispatches, Raise, Build, AskApproval, Submit, Wait, ShapeInv, Commands
<1>2. CASE Raise
  BY <1>1, <1>2 DEF Raise, RowStates, Committable
<1>3. CASE Build
  <2>1. CASE Kind[cmd.stage] \in {"build", "snapshot"} /\ \E out \in Outputs : Return("COMPLETE", out, 0)
    BY <1>1, <2>1 DEF RowStates, Committable
  <2>2. CASE Kind[cmd.stage] = "build" /\ Return("BLOCKED", NoOutput, 0)
    BY <1>1, <2>2 DEF RowStates, Committable
  <2>3. CASE Kind[cmd.stage] = "build" /\ Return("INCONCLUSIVE", NoOutput, 0)
    BY <1>1, <2>3 DEF RowStates, Committable
  <2>4. CASE Kind[cmd.stage] = "snapshot" /\ Return("INTERRUPTED", NoOutput, 0)
    BY <1>1, <2>4 DEF RowStates, Committable
  <2> QED
    BY <1>1, <1>3, <2>1, <2>2, <2>3, <2>4 DEF Build
<1>4. CASE AskApproval
  <2> DEFINE g == cmd.stage
             found == Approved(g, mem)
             state == Decided(found)
             out == IF state = "COMPLETE" THEN Binding(g, mem) ELSE NoOutput
  <2>1. Kind[g] = "approval" /\ Return(state, out, 0)
    BY <1>4 DEF AskApproval
  <2>2. g \in Gates /\ Agree(mem) /\ \A b \in Bind[g] : Done(b)
    <3>1. g \in Gates
      BY <1>1, <2>1 DEF Gates
    <3>2. \A t \in Earlier(g) : Done(t)
      BY <1>1 DEF StageInv
    <3> QED
      BY <1>1, <3>1, <3>2, StageFacts, AgreeMem
  <2>3. state \in RowStates /\ state # "INTERRUPTED"
    BY DEF Decided, RowStates, Committable
  <2>4. ASSUME state = "COMPLETE" PROVE Opened(g, out)
    <3>1. found # {} /\ ~\E a \in found : a.decision = "reject"
      BY <2>4 DEF Decided
    <3>2. PICK a \in found : a.decision # "reject"
      BY <3>1
    <3>3. a \in approvals /\ a.stage = g /\ a.binding = Binding(g, mem)
      BY <3>2 DEF Approved
    <3>4. a = [stage |-> g, binding |-> Binding(g, mem), decision |-> "approve"]
      BY <3>2, <3>3 DEF ShapeInv, IsApproval
    <3>5. Binding(g, mem) = Binding(g, Ledger)
      BY <1>1, <2>2, AgreeDigests
    <3>6. out = Binding(g, Ledger)
      BY <2>4, <3>5
    <3> QED
      BY <2>2, <3>3, <3>4, <3>5, <3>6 DEF Opened
  <2> HIDE DEF state, out, found
  <2> QED
    BY <1>1, <2>1, <2>3, <2>4
<1>5. CASE Submit
  <2>1. \/ Return("FAILED", NoOutput, 0)
        \/ Return("BLOCKED", NoOutput, 0)
        \/ cmd.pc = "dispatch" /\ Kind[cmd.stage] = "run" /\ mem' = mem /\ GoTo("wait")
    BY <1>5 DEF Submit
  <2>2. CASE Return("FAILED", NoOutput, 0)
    BY <1>1, <2>2 DEF RowStates, Committable
  <2>3. CASE Return("BLOCKED", NoOutput, 0)
    BY <1>1, <2>3 DEF RowStates, Committable
  <2> QED
    BY <1>1, <2>1, <2>2, <2>3 DEF GoTo
<1>6. CASE Wait
  <2> DEFINE now == attempt[cmd.stage]
  <2>1. Kind[cmd.stage] = "run"
    BY <1>6 DEF Wait, StageInv
  <2>2. now.status \in {"none", "active", "complete", "error", "failed", "cancelled"}
    BY <1>1 DEF CountInv
  <2>3. \E state \in RowStates : \E out, run : Return(state, out, run)
    <3>1. \/ Return("FAILED", NoOutput, 0)
          \/ Return("RUNNING", NoOutput, now.id)
          \/ Return("COMPLETE", now.id, now.id)
          \/ Return("FAILED", NoOutput, now.id)
          \/ Return("INTERRUPTED", NoOutput, now.id)
      BY <1>6, <2>2 DEF Wait
    <3> QED
      BY <3>1, Zenon DEF RowStates, Committable
  <2> QED
    BY <1>1, <2>1, <2>3
<1> QED
  BY <1>1, <1>2, <1>3, <1>4, <1>5, <1>6 DEF Dispatches

-----------------------------------------------------------------------------
(* The rows stay in agreement. *)

\* A command that only goes on.
LEMMA CommandUpdated ==
    ASSUME ShapeInv, NEW pc, cmd' = [cmd EXCEPT !.pc = pc]
    PROVE  /\ cmd.stage \in Stages /\ cmd'.stage = cmd.stage /\ cmd'.pc = pc
           /\ cmd'.decision = cmd.decision /\ cmd'.op = cmd.op
BY DEF ShapeInv, Commands

\* A command that ends.
LEMMA CommandEnded == End => cmd'.pc = "none"
BY DEF End, NoCommand

\* A result is committed where no receipt is, or is the receipt there is.
LEMMA CommitFacts ==
    ASSUME ShapeInv, LedgerInv, StageInv, Commit
    PROVE  LET new == AsReceipt(cmd.stage, mem[cmd.stage]) IN
           \/ ~Committed(cmd.stage) /\ cmd' = [cmd EXCEPT !.pc = "link"] /\ UNCHANGED mem
           \/ /\ Committed(cmd.stage) /\ Ledger[cmd.stage] = AsRow(new)
              /\ cmd' = [cmd EXCEPT !.pc = "settle"]
              /\ mem' = [mem EXCEPT ![cmd.stage].receipt = TRUE]
           \/ End
<1> DEFINE new == AsReceipt(cmd.stage, mem[cmd.stage])
           old == {r \in ReceiptOf(cmd.stage) : r.input = new.input}
<1>1. new.input = mem[cmd.stage].input /\ cmd.stage \in Stages
  BY DEF AsReceipt, ShapeInv, Commands
<1>2. \/ old = {} /\ GoTo("link") /\ UNCHANGED mem
      \/ old = {new} /\ GoTo("settle") /\ mem' = [mem EXCEPT ![cmd.stage].receipt = TRUE]
      \/ End
  BY DEF Commit
<1>3. new.input = Input(cmd.stage, Ledger)
  BY <1>1 DEF Commit, StageInv, Result
<1> HIDE DEF new
<1>4. ASSUME old = {} PROVE ~Committed(cmd.stage)
  <2> SUFFICES ASSUME Committed(cmd.stage) PROVE FALSE
    OBVIOUS
  <2>1. PICK r \in receipts : r.stage = cmd.stage /\ ReceiptOf(cmd.stage) = {r}
    BY <1>1, LedgerFacts
  <2>2. r.input = Input(cmd.stage, Ledger)
    BY <2>1 DEF LedgerInv, Result
  <2> QED
    BY <1>3, <1>4, <2>1, <2>2
<1>5. ASSUME old = {new} PROVE Committed(cmd.stage) /\ Ledger[cmd.stage] = AsRow(new)
  <2>1. new \in ReceiptOf(cmd.stage)
    BY <1>5
  <2>2. Committed(cmd.stage)
    BY <2>1 DEF Committed
  <2> QED
    BY <1>1, <2>1, <2>2, LedgerFacts
<1> QED
  BY <1>2, <1>4, <1>5 DEF GoTo, new

\* RowsInv, for every step.
LEMMA RowsKept ==
    ShapeInv /\ CountInv /\ LedgerInv /\ RowsInv /\ StageInv /\ [Next]_vars => RowsInv'
<1> SUFFICES ASSUME ShapeInv, CountInv, LedgerInv, RowsInv, StageInv, [Next]_vars
             PROVE  RowsInv'
  OBVIOUS
<1>0. cmd.stage \in Stages /\ GoodRows(mem)
  BY DEF ShapeInv, Commands
<1>1. ASSUME UNCHANGED <<cmd, mem, receipts>> PROVE RowsInv'
  BY <1>1, SameReceipts DEF RowsInv
<1>2. ASSUME cmd'.pc = "none" PROVE RowsInv'
  BY <1>2 DEF RowsInv
<1>3. ASSUME mem' = Reconcile(index), ~Wedged, receipts' = receipts PROVE RowsInv'
  BY <1>3, AgreeReconcile, AgreeKept
<1>4. CASE Load
  BY <1>0, <1>4, AgreeMem, AgreeRecord, AgreeKept, RecordFacts DEF Load
<1>5. CASE Select
  <2>1. receipts' = receipts /\ (End \/ mem' = mem) /\ cmd.pc = "select"
    BY <1>5 DEF Select, files
  <2> QED
    BY <1>2, <2>1, AgreeMem, AgreeKept, CommandEnded
<1>6. CASE Interrupt
  <2> DEFINE new == [mem EXCEPT ![cmd.stage].state = "INTERRUPTED"]
  <2>1. Agree(mem) /\ ~Committed(cmd.stage) /\ Record(new)
    BY <1>6, AgreeMem DEF Interrupt, StageInv
  <2>2. GoodRows(new) /\ Agree(new)
    BY <1>0, <2>1, InterruptRows DEF Agree
  <2> HIDE DEF new
  <2> QED
    BY <2>1, <2>2, AgreeRecord, AgreeKept, RecordFacts
<1>7. CASE Begin
  <2> DEFINE new == [mem EXCEPT ![cmd.stage].state = "RUNNING",
                                ![cmd.stage].input = Input(cmd.stage, mem),
                                ![cmd.stage].bound = TRUE]
  <2>1. Agree(mem) /\ ~Committed(cmd.stage) /\ Record(new)
    BY <1>7, AgreeMem DEF Begin, StageInv
  <2>2. /\ GoodRows(new) /\ \A t \in Stages : t # cmd.stage => new[t] = mem[t]
        /\ new[cmd.stage].state = "RUNNING"
    BY BeginRows
  <2> HIDE DEF new
  <2>3. Agree(new)
    BY <1>0, <2>1, <2>2 DEF Agree
  <2> QED
    BY <2>1, <2>2, <2>3, AgreeRecord, AgreeKept, RecordFacts
<1>8. CASE Dispatches
  <2>1. Agree(mem) /\ receipts' = receipts /\ ~Committed(cmd.stage)
    BY <1>8, DispatchFacts, AgreeMem DEF files, StageInv
  <2>2. CASE mem' = mem
    BY <2>1, <2>2, AgreeKept
  <2>3. ASSUME NEW state \in RowStates, NEW out, NEW run, Return(state, out, run) PROVE RowsInv'
    <3>1. /\ \A t \in Stages : t # cmd.stage => mem'[t] = mem[t]
          /\ mem'[cmd.stage].state = state /\ cmd' = [cmd EXCEPT !.pc = cmd'.pc]
          /\ cmd'.pc = IF state \notin Committable \/ (Kind[cmd.stage] = "snapshot" /\ state = "INTERRUPTED")
                       THEN "settle" ELSE "commit"
      BY <2>3, ReturnFacts
    <3>2. cmd'.stage = cmd.stage
      BY <3>1, CommandUpdated
    <3>3. state = "COMPLETE" => cmd'.pc = "commit"
      BY <3>1 DEF Committable
    <3>4. \A s \in Stages : Committed(s)' = Committed(s) /\ Ledger'[s] = Ledger[s]
      BY <2>1, SameReceipts
    <3> QED
      BY <2>1, <3>1, <3>2, <3>3, <3>4 DEF RowsInv, Agree
  <2> QED
    BY <1>8, <2>2, <2>3, DispatchFacts
<1>9. CASE Commit
  <2> DEFINE new == AsReceipt(cmd.stage, mem[cmd.stage])
  <2>1. receipts' = receipts /\ cmd.pc = "commit"
    BY <1>9 DEF Commit, files
  <2>2. \A s \in Stages : Committed(s)' = Committed(s) /\ Ledger'[s] = Ledger[s]
    BY <2>1, SameReceipts
  <2>3. \A s \in Stages : s # cmd.stage => /\ Committed(s) => mem[s] = Ledger[s]
                                           /\ ~Committed(s) => mem[s].state # "COMPLETE"
    BY <2>1 DEF RowsInv
  <2>4. CASE ~Committed(cmd.stage) /\ cmd' = [cmd EXCEPT !.pc = "link"] /\ UNCHANGED mem
    <3>1. cmd'.pc = "link" /\ cmd'.stage = cmd.stage
      BY <2>4, CommandUpdated
    <3> QED
      BY <2>2, <2>3, <2>4, <3>1 DEF RowsInv
  <2>5. CASE /\ Committed(cmd.stage) /\ Ledger[cmd.stage] = AsRow(new)
             /\ cmd' = [cmd EXCEPT !.pc = "settle"]
             /\ mem' = [mem EXCEPT ![cmd.stage].receipt = TRUE]
    <3>1. /\ \A t \in Stages : t # cmd.stage => mem'[t] = mem[t]
          /\ mem'[cmd.stage] = AsRow(new)
      BY <2>5, CommitRows
    <3> HIDE DEF new
    <3>2. Agree(mem')
      BY <2>3, <2>5, <3>1 DEF Agree
    <3> QED
      BY <2>1, <3>2, AgreeKept
  <2> QED
    BY <1>2, <1>9, <2>4, <2>5, CommitFacts, CommandEnded
<1>10. CASE Link
  <2> DEFINE new == AsReceipt(cmd.stage, mem[cmd.stage])
  <2>1. cmd.pc = "link" /\ mem' = [mem EXCEPT ![cmd.stage].receipt = TRUE]
        /\ cmd' = [cmd EXCEPT !.pc = "unlink"]
    BY <1>10 DEF Link, GoTo
  <2>2. /\ \A t \in Stages : t # cmd.stage => mem'[t] = mem[t]
        /\ mem'[cmd.stage] = AsRow(new)
    BY <2>1, CommitRows
  <2>3. /\ \A s \in Stages : s = cmd.stage => Committed(s)' /\ Ledger'[s] = AsRow(new)
        /\ \A s \in Stages : s # cmd.stage => Committed(s)' = Committed(s) /\ Ledger'[s] = Ledger[s]
    BY <1>10, LinkFacts
  <2> HIDE DEF new
  <2>4. \A s \in Stages : s # cmd.stage => /\ Committed(s) => mem[s] = Ledger[s]
                                           /\ ~Committed(s) => mem[s].state # "COMPLETE"
    BY <2>1 DEF RowsInv
  <2>5. \A s \in Stages : /\ Committed(s)' => mem'[s] = Ledger'[s]
                          /\ ~Committed(s)' => mem'[s].state # "COMPLETE"
    BY <2>2, <2>3, <2>4
  <2> QED
    BY <2>5 DEF RowsInv
<1>11. CASE Unlink
  BY <1>11, AgreeMem, AgreeKept DEF Unlink, files
<1>12. CASE Settle
  <2>1. PICK found \in Finds(mem) : End \/ mem' = Projection(mem, found)
    BY <1>12 DEF Settle
  <2>2. cmd.pc = "settle" /\ receipts' = receipts
    BY <1>12 DEF Settle
  <2> QED
    BY <1>0, <1>2, <2>1, <2>2, AgreeMem, AgreeProject, AgreeKept, CommandEnded
<1>13. CASE PublishApproval
  BY <1>13, AgreeMem, AgreeKept DEF PublishApproval
<1>14. CASE Gate
  <2>1. cmd.pc = "gate" /\ receipts' = receipts
    BY <1>14 DEF Gate, files
  <2>2. CASE InputKnown(cmd.stage, mem)
    <3>1. \A t \in Stages : t # cmd.stage => mem'[t] = mem[t]
      BY <1>14, <2>2, GateRows
    <3>2. cmd' = [cmd EXCEPT !.pc = "commit"]
      BY <1>14, <2>2 DEF Gate, GoTo
    <3>3. cmd'.pc = "commit" /\ cmd'.stage = cmd.stage
      BY <3>2, CommandUpdated
    <3>4. \A s \in Stages : Committed(s)' = Committed(s) /\ Ledger'[s] = Ledger[s]
      BY <2>1, SameReceipts
    <3>5. Agree(mem)
      BY <2>1, AgreeMem
    <3> QED
      BY <3>1, <3>3, <3>4, <3>5 DEF RowsInv, Agree
  <2>3. CASE ~InputKnown(cmd.stage, mem)
    BY <1>2, <1>14, <2>3, CommandEnded DEF Gate
  <2> QED
    BY <2>2, <2>3
<1>15. CASE CommandStep
  BY <1>4, <1>5, <1>6, <1>7, <1>8, <1>9, <1>10, <1>11, <1>12, <1>13, <1>14, <1>15
     DEF CommandStep, Dispatches
<1>16. CASE \E execute, resume \in BOOLEAN : Apply(execute, resume)
  BY <1>3, <1>16 DEF Apply, files
<1>17. CASE \E g \in Gates, decision \in {"approve", "reject"} : Approve(g, decision)
  BY <1>3, <1>17 DEF Approve, files
<1>18. CASE \E killed \in BOOLEAN : Stop(killed)
  BY <1>2, <1>18, CommandEnded DEF Stop
<1>19. CASE \E r \in Runs : Progress(r)
  BY <1>1, <1>19 DEF Progress, files
<1>20. CASE LoseController
  BY <1>1, <1>20 DEF LoseController, files
<1>21. CASE UNCHANGED vars
  BY <1>1, <1>21 DEF vars, files
<1> QED
  BY <1>15, <1>16, <1>17, <1>18, <1>19, <1>20, <1>21 DEF Next

-----------------------------------------------------------------------------
(* Where a command is. *)

\* StageInv, for every step.
LEMMA StageKept ==
    ShapeInv /\ CountInv /\ LedgerInv /\ RowsInv /\ StageInv /\ [Next]_vars => StageInv'
<1> SUFFICES ASSUME ShapeInv, CountInv, LedgerInv, RowsInv, StageInv, [Next]_vars
             PROVE  StageInv'
  OBVIOUS
<1>0. cmd.stage \in Stages /\ GoodRows(mem)
  BY DEF ShapeInv, Commands
<1>1. ASSUME cmd'.pc \in {"none", "load", "select", "unlink", "settle"} PROVE StageInv'
  BY <1>1 DEF StageInv
<1>2. ASSUME UNCHANGED <<cmd, mem, index, receipts, approvals>> PROVE StageInv'
  <2>1. Ledger' = Ledger /\ \A s : Committed(s)' = Committed(s) /\ Done(s)' = Done(s)
    BY <1>2, SameReceipts
  <2> QED
    BY <1>2, <2>1 DEF StageInv, Result, Opened
<1>3. ASSUME receipts' = receipts
      PROVE  Ledger' = Ledger /\ \A s : Committed(s)' = Committed(s) /\ Done(s)' = Done(s)
  BY <1>3, SameReceipts
<1>4. CASE Load
  BY <1>1, <1>4, CommandUpdated DEF Load, GoTo
<1>5. CASE Select
  <2>1. receipts' = receipts /\ cmd.pc = "select" /\ Agree(mem)
    BY <1>5, AgreeMem DEF Select, files
  <2>2. PICK found \in Finds(mem) :
          LET rows == Projection(mem, found)
              s == Current(rows)
          IN  \/ End
              \/ /\ ~AllComplete(rows) /\ Proceeds(s, rows)
                 /\ cmd' = [cmd EXCEPT !.stage = s,
                                !.lost = Kind[s] = "run" /\ LostSubmission(s),
                                !.pc = IF mem[s].state = "RUNNING" /\ Kind[s] # "run"
                                       THEN "interrupt" ELSE "begin"]
    BY <1>5 DEF Select
  <2> DEFINE rows == Projection(mem, found)
             c == Current(rows)
  <2>3. CASE End
    BY <1>1, <2>3, CommandEnded
  <2>4. CASE ~End
    <3>1. ~AllComplete(rows) /\ Proceeds(c, rows)
      BY <2>2, <2>4
    <3>2. cmd'.stage = c /\ cmd'.pc \in {"interrupt", "begin"}
      BY <2>2, <2>4 DEF ShapeInv, Commands
    <3>3. Agree(rows)
      BY <1>0, <2>1, AgreeProject
    <3>4. c \in Stages /\ \A t \in Earlier(c) : rows[t].state = "COMPLETE"
      BY <3>1, CurrentFacts
    <3> HIDE DEF rows, c
    <3>5. \A t \in Earlier(c) : Done(t)
      BY <3>3, <3>4, AgreeDone, StageFacts
    <3>6. ~Committed(c)
      <4> SUFFICES ASSUME Committed(c) PROVE FALSE
        OBVIOUS
      <4>1. PICK r \in receipts : r.stage = c /\ Ledger[c] = AsRow(r)
        BY <3>4, LedgerFacts
      <4>2. rows[c] = Ledger[c] /\ Ledger[c].state = r.state /\ r.state \in Committable
        BY <3>3, <3>4, <4>1 DEF Agree, AsRow, ShapeInv
      <4>3. r.state = "INTERRUPTED" /\ Kind[c] # "run"
        BY <3>1, <4>2 DEF Proceeds, Committable
      <4> QED
        BY <4>1, <4>3 DEF LedgerInv, Result
    <3> QED
      BY <1>3, <2>1, <3>2, <3>5, <3>6 DEF StageInv
  <2> QED
    BY <2>3, <2>4
<1>6. CASE Interrupt
  <2>1. receipts' = receipts /\ cmd.pc = "interrupt" /\ cmd'.pc = "begin" /\ cmd'.stage = cmd.stage
    BY <1>6, CommandUpdated DEF Interrupt, Record, GoTo
  <2> QED
    BY <1>3, <2>1 DEF StageInv
<1>7. CASE Begin
  <2> DEFINE new == [mem EXCEPT ![cmd.stage].state = "RUNNING",
                                ![cmd.stage].input = Input(cmd.stage, mem),
                                ![cmd.stage].bound = TRUE]
  <2>1. cmd.pc = "begin" /\ cmd'.pc = "dispatch" /\ cmd'.stage = cmd.stage /\ Record(new)
    BY <1>7, CommandUpdated DEF Begin, GoTo
  <2>2. GoodRows(new) /\ new[cmd.stage].input = Input(cmd.stage, mem)
    BY BeginRows
  <2> HIDE DEF new
  <2>3. receipts' = receipts /\ index' = mem' /\ mem'[cmd.stage].input = Input(cmd.stage, mem)
    BY <1>0, <2>1, <2>2, RecordFacts
  <2>4. \A d \in Requires[cmd.stage] : Done(d)
    BY <1>0, <2>1, StageFacts DEF StageInv
  <2>5. Input(cmd.stage, mem) = Input(cmd.stage, Ledger)
    BY <1>0, <2>1, <2>4, AgreeMem, AgreeDigests
  <2> QED
    BY <1>3, <2>1, <2>3, <2>5 DEF StageInv
<1>8. CASE Dispatches
  <2>1. /\ receipts' = receipts /\ approvals' = approvals /\ cmd.pc \in {"dispatch", "wait"}
        /\ ~Committed(cmd.stage) /\ \A t \in Earlier(cmd.stage) : Done(t)
        /\ mem[cmd.stage].input = Input(cmd.stage, Ledger)
    BY <1>8, DispatchFacts DEF files, StageInv
  <2>2. CASE Kind[cmd.stage] = "run" /\ mem' = mem /\ cmd' = [cmd EXCEPT !.pc = "wait"]
    <3>1. cmd'.pc = "wait" /\ cmd'.stage = cmd.stage
      BY <2>2, CommandUpdated
    <3> QED
      BY <1>3, <2>1, <2>2, <3>1 DEF StageInv
  <2>3. ASSUME NEW state \in RowStates, NEW out, NEW run, Return(state, out, run),
               state = "INTERRUPTED" => Kind[cmd.stage] \in {"snapshot", "run"},
               Kind[cmd.stage] = "approval" /\ state = "COMPLETE" => Opened(cmd.stage, out)
        PROVE  StageInv'
    <3>1. /\ mem'[cmd.stage].state = state /\ mem'[cmd.stage].out = out
          /\ mem'[cmd.stage].input = mem[cmd.stage].input
          /\ cmd' = [cmd EXCEPT !.pc = cmd'.pc]
          /\ cmd'.pc = IF state \notin Committable \/ (Kind[cmd.stage] = "snapshot" /\ state = "INTERRUPTED")
                       THEN "settle" ELSE "commit"
      BY <2>3, ReturnFacts
    <3>2. cmd'.stage = cmd.stage
      BY <3>1, CommandUpdated
    <3>3. CASE cmd'.pc = "settle"
      BY <1>1, <3>3
    <3>4. CASE cmd'.pc = "commit"
      <4>1. state \in Committable /\ (state = "INTERRUPTED" => Kind[cmd.stage] = "run")
        BY <2>3, <3>1, <3>4
      <4>2. \A d \in Requires[cmd.stage] : Done(d)
        BY <1>0, <2>1, StageFacts
      <4>3. Ledger' = Ledger /\ \A s : Done(s)' = Done(s)
        BY <1>3, <2>1
      <4>4. ASSUME NEW s, s = cmd.stage PROVE Result(s, mem[s])'
        BY <2>1, <2>3, <3>1, <4>1, <4>3, <4>4 DEF Result, Opened
      <4> QED
        BY <3>2, <3>4, <4>2, <4>3, <4>4 DEF StageInv
    <3> QED
      BY <3>1, <3>3, <3>4
  <2> QED
    BY <1>8, <2>2, <2>3, DispatchFacts
<1>9. CASE Commit
  <2>1. receipts' = receipts /\ approvals' = approvals /\ cmd.pc = "commit"
    BY <1>9 DEF Commit, files
  <2>2. CASE ~Committed(cmd.stage) /\ cmd' = [cmd EXCEPT !.pc = "link"] /\ UNCHANGED mem
    <3>1. cmd'.pc = "link" /\ cmd'.stage = cmd.stage
      BY <2>2, CommandUpdated
    <3> QED
      BY <1>3, <2>1, <2>2, <3>1 DEF StageInv, Result, Opened
  <2>3. CASE cmd' = [cmd EXCEPT !.pc = "settle"]
    BY <1>1, <2>3, CommandUpdated
  <2> QED
    BY <1>1, <1>9, <2>2, <2>3, CommitFacts, CommandEnded
<1>10. CASE Link
  BY <1>1, <1>10, CommandUpdated DEF Link, GoTo
<1>11. CASE Unlink
  BY <1>1, <1>11, CommandUpdated DEF Unlink, GoTo
<1>12. CASE Settle
  BY <1>1, <1>12, CommandUpdated, CommandEnded DEF Settle, GoTo
<1>13. CASE PublishApproval
  <2>1. /\ receipts' = receipts /\ cmd.pc = "approve" /\ cmd'.pc = "gate" /\ cmd'.stage = cmd.stage
        /\ cmd'.decision = cmd.decision
        /\ [stage |-> cmd.stage, binding |-> Binding(cmd.stage, mem), decision |-> cmd.decision] \in approvals'
    BY <1>13, CommandUpdated DEF PublishApproval, GoTo
  <2>2. cmd.stage \in Gates /\ \A b \in Bind[cmd.stage] : Done(b)
    BY <2>1 DEF StageInv
  <2>3. Binding(cmd.stage, mem) = Binding(cmd.stage, Ledger)
    BY <1>0, <2>1, <2>2, AgreeMem, AgreeDigests
  <2> QED
    BY <1>3, <2>1, <2>2, <2>3 DEF StageInv
<1>14. CASE Gate
  <2>1. cmd.pc = "gate" /\ receipts' = receipts /\ approvals' = approvals /\ Agree(mem)
    BY <1>14, AgreeMem DEF Gate, files
  <2>2. CASE InputKnown(cmd.stage, mem)
    <3>1. /\ mem'[cmd.stage].state = IF cmd.decision = "approve" THEN "COMPLETE" ELSE "BLOCKED"
          /\ mem'[cmd.stage].out = Binding(cmd.stage, mem)
          /\ mem'[cmd.stage].input = Input(cmd.stage, mem)
      BY <1>14, <2>2, GateRows
    <3>2. cmd' = [cmd EXCEPT !.pc = "commit"]
      BY <1>14, <2>2 DEF Gate, GoTo
    <3>3. cmd'.pc = "commit" /\ cmd'.stage = cmd.stage
      BY <3>2, CommandUpdated
    <3>4. \A d \in Requires[cmd.stage] : Done(d)
      BY <1>0, <2>1, <2>2, AgreeDone, StageFacts DEF InputKnown
    <3>5. cmd.stage \in Gates /\ \A b \in Bind[cmd.stage] : Done(b)
      BY <2>1 DEF StageInv
    <3>6. /\ Input(cmd.stage, mem) = Input(cmd.stage, Ledger)
          /\ Binding(cmd.stage, mem) = Binding(cmd.stage, Ledger)
      BY <1>0, <2>1, <3>4, <3>5, AgreeDigests
    <3>7. cmd.decision = "approve" => Opened(cmd.stage, Binding(cmd.stage, Ledger))
      BY <2>1, <3>5 DEF StageInv, Opened
    <3>8. Ledger' = Ledger /\ \A s : Done(s)' = Done(s)
      BY <1>3, <2>1
    <3>9. ASSUME NEW s, s = cmd.stage PROVE Result(s, mem[s])'
      <4>1. mem'[s].state \in Committable /\ mem'[s].state # "INTERRUPTED"
        BY <3>1, <3>9 DEF Committable
      <4>2. mem'[s].state = "COMPLETE" => cmd.decision = "approve"
        BY <3>1, <3>9
      <4>3. mem'[s].out = Binding(s, Ledger) /\ mem'[s].input = Input(s, Ledger)
        BY <3>1, <3>6, <3>9
      <4>4. mem'[s].state = "COMPLETE" => Opened(s, mem'[s].out)
        BY <3>7, <3>9, <4>2, <4>3
      <4> QED
        BY <2>1, <3>8, <4>1, <4>3, <4>4 DEF Result, Opened
    <3> QED
      BY <3>3, <3>4, <3>8, <3>9 DEF StageInv
  <2>3. CASE ~InputKnown(cmd.stage, mem)
    BY <1>1, <1>14, <2>3, CommandEnded DEF Gate
  <2> QED
    BY <2>2, <2>3
<1>15. CASE CommandStep
  BY <1>4, <1>5, <1>6, <1>7, <1>8, <1>9, <1>10, <1>11, <1>12, <1>13, <1>14, <1>15
     DEF CommandStep, Dispatches
<1>16. CASE \E execute, resume \in BOOLEAN : Apply(execute, resume)
  BY <1>1, <1>16 DEF Apply, NoCommand
<1>17. ASSUME NEW g \in Gates, NEW decision \in {"approve", "reject"}, Approve(g, decision)
       PROVE  StageInv'
  <2>1. /\ receipts' = receipts /\ ~Wedged /\ cmd'.pc = "approve" /\ cmd'.stage = g
        /\ \A b \in Bind[g] : Reconcile(index)[b].state = "COMPLETE"
    BY <1>17 DEF Approve, files, NoCommand
  <2>2. \A b \in Bind[g] : Done(b)
    BY <2>1, AgreeReconcile, AgreeDone, StageFacts
  <2> QED
    BY <1>3, <2>1, <2>2 DEF StageInv
<1>18. CASE \E killed \in BOOLEAN : Stop(killed)
  BY <1>1, <1>18, CommandEnded DEF Stop
<1>19. CASE \E r \in Runs : Progress(r)
  BY <1>2, <1>19 DEF Progress, files
<1>20. CASE LoseController
  BY <1>2, <1>20 DEF LoseController, files
<1>21. CASE UNCHANGED vars
  BY <1>2, <1>21 DEF vars, files
<1> QED
  BY <1>15, <1>16, <1>17, <1>18, <1>19, <1>20, <1>21 DEF Next

\* RunsInv, for every step.
LEMMA RunsKept == ShapeInv /\ CountInv /\ StageInv /\ RunsInv /\ [Next]_vars => RunsInv'
<1> SUFFICES ASSUME ShapeInv, CountInv, StageInv, RunsInv, [Next]_vars,
                    NEW r \in Runs, submitted'[r] > 0, NEW d \in Requires[r]
             PROVE  Done(d)'
  BY DEF RunsInv
<1>1. r \in Stages /\ d \in Stages /\ d \in Earlier(r)
  BY StageFacts DEF Runs
<1>2. submitted[r] \in Nat /\ submitted'[r] \in Nat
  BY <1>1, FleetKept DEF CountInv
<1>3. CASE submitted[r] > 0
  BY <1>1, <1>3, LedgerGrows DEF RunsInv
<1>4. CASE ~(submitted[r] > 0)
  <2>1. Submits
    BY <1>2, <1>4, FleetSteps DEF Progress, LoseController
  <2>2. cmd.pc = "dispatch" /\ cmd.stage = r
    BY <1>1, <1>2, <1>4, <2>1 DEF Submits, CountInv
  <2> QED
    BY <1>1, <2>2, LedgerGrows DEF StageInv
<1> QED
  BY <1>3, <1>4

-----------------------------------------------------------------------------
(* The theorems. *)

\* Every state a campaign can reach satisfies the inductive invariant: rows and
\* receipts are whole, a command's rows agree with what the receipts alone say,
\* and each step of a command relies only on committed stages (engine.py:1544,
\* state.py:415-540).
THEOREM StagesInvariant == Spec => []StagesInv
<1>1. Init => StagesInv
  <2> SUFFICES ASSUME Init PROVE StagesInv
    OBVIOUS
  <2>1. cmd = NoCommand /\ cmd.pc = "none" /\ cmd \in Commands
    BY StageFacts DEF Init, NoCommand, Commands, Pcs
  <2>2. ShapeInv
    BY <2>1, GoodInitial DEF Init, ShapeInv
  <2>3. CountInv
    <3>1. \A s \in Stages : Initial[s].run = 0
      BY GoodInitial DEF NewRow
    <3>2. \A s \in Stages : ReceiptOf(s) = {}
      BY DEF Init, ReceiptOf
    <3>3. NoAttempt.id = 0 /\ NoAttempt.status = "none"
      BY DEF NoAttempt
    <3>4. NoAttempt \in [id : Nat, status : {"none", "active", "complete", "error", "failed", "cancelled"}]
      BY DEF NoAttempt
    <3>5. MaxLosses \in Nat /\ MaxStops \in Nat
      BY CampaignAssumption
    <3>6. losses = 0 /\ stops = 0 /\ saved = FALSE /\ litter = FALSE
      BY DEF Init
    <3>7. losses \in 0..MaxLosses /\ stops \in 0..MaxStops
      BY <3>5, <3>6
    <3>8. saved \in BOOLEAN /\ litter \in BOOLEAN
      BY <3>6, Zenon
    <3>9. submitted \in [Stages -> Nat] /\ \A s \in Stages : submitted[s] = 0
      BY DEF Init
    <3>10. /\ attempt \in [Stages -> [id : Nat, status : {"none", "active", "complete", "error",
                                                         "failed", "cancelled"}]]
          /\ \A s \in Stages : attempt[s] = NoAttempt
      BY <3>4 DEF Init
    <3>11. losses = 0 /\ \A s \in Stages : index[s].run = 0 /\ mem[s].run = 0
      BY <3>1 DEF Init
    <3> QED
      BY <3>2, <3>3, <3>7, <3>8, <3>9, <3>10, <3>11 DEF CountInv
  <2>4. LedgerInv /\ RowsInv /\ StageInv /\ RunsInv
    BY <2>1 DEF Init, LedgerInv, RowsInv, StageInv, RunsInv, Runs
  <2> QED
    BY <2>2, <2>3, <2>4 DEF StagesInv
<1>2. StagesInv /\ [Next]_vars => StagesInv'
  BY ShapesKept, CountsKept, LedgerKept, RowsKept, StageKept, RunsKept DEF StagesInv
<1> QED
  BY <1>1, <1>2, PTL DEF Spec

\* Rows, receipts, approvals, attempts and commands keep their types, and no more
\* attempts are submitted than the controller's state is lost, and one.
THEOREM CampaignTyping == Spec => []TypeOK
<1>1. StagesInv => TypeOK
  <2> SUFFICES ASSUME StagesInv PROVE TypeOK
    OBVIOUS
  <2> USE DEF StagesInv
  <2>1. saved \in BOOLEAN /\ litter \in BOOLEAN /\ stops \in 0..MaxStops /\ losses \in 0..MaxLosses
    BY DEF CountInv
  <2>2. DOMAIN index = Stages /\ DOMAIN mem = Stages
    BY DEF ShapeInv, GoodRows
  <2>3. \A s \in Stages : \A r \in {index[s], mem[s]} :
           r.state \in RowStates /\ r.receipt \in BOOLEAN /\ r.run \in 0..submitted[s]
    BY DEF ShapeInv, CountInv, GoodRows, GoodRow
  <2>4. \A r \in receipts : r.stage \in Stages /\ r.state \in Committable /\ r.input # NoInput
    BY StageFacts DEF ShapeInv, LedgerInv, Result
  <2>5. \A s \in Stages : submitted[s] \in 0..(MaxLosses + 1) /\ attempt[s].id \in 0..(MaxLosses + 1)
    BY CampaignAssumption DEF CountInv
  <2>6. submitted \in [Stages -> 0..(MaxLosses + 1)]
    BY <2>5 DEF CountInv
  <2>7. attempt \in [Stages -> [id : 0..(MaxLosses + 1),
                                status : {"none", "active", "complete", "error", "failed", "cancelled"}]]
    BY <2>5 DEF CountInv
  <2> QED
    BY <2>1, <2>2, <2>3, <2>4, <2>6, <2>7 DEF TypeOK, ShapeInv, Commands, Pcs
<1> QED
  BY <1>1, StagesInvariant, PTL

\* For any declaration, a stage with a receipt is never dispatched again,
\* whichever of receipt and index a killed command left behind (engine.py:1544,
\* state.py:518).
THEOREM CommittedIsFinal == Spec => []CommittedNeverRerun
<1>1. StagesInv => CommittedNeverRerun
  BY DEF StagesInv, StageInv, CommittedNeverRerun
<1> QED
  BY <1>1, StagesInvariant, PTL

\* For any declaration, an attempt exists only below gates approved for exactly
\* the committed outputs they bind (engine.py:1824, 2349-2379).
THEOREM OnlyApprovedRuns == Spec => []RunsAreApproved
<1>1. ASSUME StagesInv, NEW r \in Runs, NEW g \in Gates \cap Requires[r], submitted[r] > 0
      PROVE  [stage |-> g, binding |-> Binding(g, Reconcile(index)), decision |-> "approve"] \in approvals
  <2> USE DEF StagesInv
  <2>1. g \in Stages /\ Done(g) /\ Kind[g] = "approval"
    BY <1>1 DEF RunsInv, Gates
  <2>2. PICK c \in receipts : c.stage = g /\ Ledger[g] = AsRow(c)
    BY <1>1, <2>1, LedgerFacts DEF Done
  <2>3. c.state = "COMPLETE"
    BY <2>1, <2>2 DEF Done, AsRow
  <2>4. Opened(g, c.out)
    BY <1>1, <2>1, <2>2, <2>3 DEF LedgerInv, Result
  <2>5. \A b \in Bind[g] : Reconcile(index)[b] = Ledger[b]
    BY <1>1, <2>4, LedgerFacts, StageFacts DEF Opened, Done
  <2>6. Binding(g, Reconcile(index)) = Binding(g, Ledger)
    BY <2>5 DEF Binding
  <2> QED
    BY <2>4, <2>6 DEF Opened
<1>2. StagesInv => RunsAreApproved
  BY <1>1 DEF RunsAreApproved
<1> QED
  BY <1>2, StagesInvariant, PTL

\* For any declaration, receipts form one chain: one for each stage, for the
\* input its requirements' receipts make, all of them COMPLETE (state.py:314,
\* 415).
THEOREM ReceiptsFormChain == Spec => []ReceiptsCohere
<1>1. ASSUME StagesInv, NEW r \in receipts
      PROVE  /\ ReceiptOf(r.stage) = {r}
             /\ InputKnown(r.stage, Ledger)
             /\ r.input = Input(r.stage, Ledger)
  <2> USE DEF StagesInv
  <2>1. /\ r.stage \in Stages /\ ReceiptOf(r.stage) = {r} /\ r.input = Input(r.stage, Ledger)
        /\ \A d \in Requires[r.stage] : Done(d)
    BY <1>1 DEF LedgerInv, ShapeInv, Result
  <2>2. ASSUME NEW d \in Requires[r.stage]
        PROVE  Ledger[d].state = "COMPLETE" /\ Ledger[d].input # NoInput
    <3>1. d \in Stages /\ Done(d)
      BY <2>1, <2>2, StageFacts
    <3>2. PICK c \in receipts : c.stage = d /\ Ledger[d] = AsRow(c)
      BY <1>1, <3>1, LedgerFacts DEF Done
    <3>3. c.input = Input(d, Ledger)
      BY <1>1, <3>2 DEF LedgerInv, Result
    <3> QED
      BY <3>1, <3>2, <3>3, StageFacts DEF Done, AsRow
  <2> QED
    BY <2>1, <2>2 DEF InputKnown
<1>2. StagesInv => ReceiptsCohere
  BY <1>1 DEF ReceiptsCohere, Ledger
<1> QED
  BY <1>2, StagesInvariant, PTL

\* For any declaration, a run whose attempt was recorded is never given another
\* one, the loss of the controller's state included (engine.py:1413-1425,
\* 2393-2413).
THEOREM AttemptNeverReplaced == Spec => NeverReplaced
<1>1. ASSUME StagesInv, [Next]_vars, NEW r \in Runs, submitted'[r] # submitted[r]
      PROVE  index[r].run = 0 /\ ~Committed(r)
  <2> USE DEF StagesInv
  <2>1. r \in Stages
    BY DEF Runs
  <2>2. Submits
    BY <1>1, FleetSteps DEF Progress, LoseController
  <2>3. cmd.stage = r
    BY <1>1, <2>1, <2>2 DEF Submits, CountInv
  <2>4. index = mem /\ ~Committed(r)
    BY <1>1, <2>2, <2>3 DEF Submits, StageInv
  <2>5. mem[r].run = 0
    BY <2>2, <2>3 DEF Submits, LostSubmission, NoAttempt
  <2> QED
    BY <2>4, <2>5
<1>2. StagesInv /\ [Next]_vars =>
        [\A r \in Runs : submitted'[r] # submitted[r] => index[r].run = 0 /\ ~Committed(r)]_vars
  BY <1>1
<1> QED
  BY <1>2, StagesInvariant, PTL DEF Spec, NeverReplaced
=============================================================================
