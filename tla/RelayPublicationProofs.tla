----------------------- MODULE RelayPublicationProofs -----------------------
(***************************************************************************)
(* The safety properties of RelayPublication for any number of attempts,   *)
(* processes, checkpoints and failures.                                    *)
(*                                                                         *)
(* The argument: an attempt's chain is Sound as long as one process at a   *)
(* time publishes it.  The two locks alone do not see to that; the         *)
(* recorded frontier does, because a launch publishes only what has none   *)
(* and nothing is claimed before it has one.  A cancellation before the    *)
(* attempt began breaks this (EndedEarly), but then there is no checkpoint *)
(* to lose.                                                                *)
(***************************************************************************)
EXTENDS RelayPublication, FiniteSetTheorems, TLAPS

Active(p) == pc[p] # "idle"
Launching(p, a) == Active(p) /\ job[p] = "launch" /\ att[p] = a

\* Which lock a process holds, and what it may assume of its attempt.
Placed(p) ==
    /\ att[p] \in Attempts
    /\ job[p] = "launch" => admission = p /\ mode[p] = "open"
    /\ job[p] # "launch" => claim[att[p]] = p
    /\ job[p] \in {"recover", "flush"} => mode[p] = "final"
    /\ pc[p] = "run" => job[p] = "execute" /\ mode[p] # "final"
    /\ mode[p] = "final" => IsTerminal(receipt[att[p]])
    /\ job[p] = "execute" /\ mode[p] # "final" => receipt[att[p]].state = "RUNNING"

ProcInv == \A p \in Procs : Active(p) => Placed(p)

ClaimInv ==
    \A a \in Attempts : claim[a] # Nobody =>
        Active(claim[a]) /\ att[claim[a]] = a /\ job[claim[a]] # "launch"

\* The first n sequences are on the relay.
Covered(a, n) == \A k \in 0..n - 1 : \E c \in remote[a] : c.seq = k

CoverInv ==
    /\ \A a \in Attempts : Covered(a, frontier[a])
    /\ \A p \in Procs :
         /\ pc[p] = "upload" => Covered(att[p], draft[p].seq)
         /\ pc[p] = "record" => Covered(att[p], draft[p].seq + 1)

\* Who publishes a has nobody beside it ...
OnePublisher(a) ==
    /\ frontier[a] = 0 =>
         receipt[a].state \in {"NONE", "PREPARED"} /\ a \notin spawned /\ claim[a] = Nobody
    /\ \A p \in Procs : Launching(p, a) => frontier[a] = 0 /\ receipt[a].state = "PREPARED"

\* ... so the chain is readable, its checkpoints never step back, and what is
\* about to be uploaded goes on from there.
ChainInv(a) ==
    /\ Readable(a)
    /\ \A c, d \in remote[a] : c.seq = d.seq => c = d
    /\ \A c, d \in remote[a] : c.seq < d.seq => c.saved <= d.saved
    /\ \A c \in remote[a] : c.saved <= disk[a]
    /\ \A p \in Procs : pc[p] = "upload" /\ att[p] = a =>
         /\ draft[p].seq = Cardinality(remote[a])
         /\ draft[p].saved <= disk[a]
         /\ \A c \in remote[a] : c.saved <= draft[p].saved

Sound(a) == OnePublisher(a) /\ ChainInv(a)

\* The receipt cancel_attempt leaves of an attempt that has not begun.
Unbegun(r) == r.state = "INTERRUPTED" /\ r.acknowledged /\ ~r.training

\* An attempt that was ended before it began.
EndedEarly(a) ==
    /\ Unbegun(receipt[a])
    /\ disk[a] = 0
    /\ \A c \in remote[a] : c.saved = 0
    /\ \A p \in Procs : pc[p] = "upload" /\ att[p] = a => draft[p].saved = 0

SoundInv ==
    \A a \in Attempts :
        /\ Sound(a) \/ EndedEarly(a)
        /\ ~Cancels => Sound(a)
        /\ receipt[a].state \in {"NONE", "PREPARED"} => disk[a] = 0 /\ ~receipt[a].training

\* Without cancellations a publisher's receipt is the attempt's own, and a
\* terminal one, once on the relay, is the last there is.
ReceiptInv ==
    \A a \in Attempts :
        /\ \A p \in Procs : pc[p] \in {"read", "upload", "record"} /\ att[p] = a =>
             draft[p].receipt = receipt[a]
        /\ \A c \in remote[a] : IsTerminal(c.receipt) => c.receipt = receipt[a]

PublicationInv ==
    /\ TypeOK
    /\ \A a \in Attempts : IsFiniteSet(remote[a])
    /\ ProcInv
    /\ ClaimInv
    /\ CoverInv
    /\ SoundInv
    /\ ~Cancels => ReceiptInv /\ TerminalEndsChain

-----------------------------------------------------------------------------
(* Receipts and chains. *)

LEMMA FinishedFacts ==
    ASSUME NEW r \in Receipts, NEW o \in Outcomes
    PROVE  /\ Finished(r, o) \in Receipts
           /\ IsTerminal(Finished(r, o))
           /\ IsTerminal(r) => Finished(r, o) = r
BY DEF Finished, Receipts, IsTerminal, TerminalStates, Outcomes

LEMMA NewestIsLast ==
    ASSUME TypeOK, NEW a \in Attempts, IsFiniteSet(remote[a]), Readable(a), remote[a] # {}
    PROVE  /\ Newest(a) \in remote[a]
           /\ Newest(a) \in Commit
           /\ Newest(a).seq = Cardinality(remote[a]) - 1
           /\ \A d \in remote[a] : d.seq <= Newest(a).seq
<1> DEFINE n == Cardinality(remote[a])
<1>1. n \in Nat /\ n # 0
  BY FS_CardinalityType, FS_EmptySet
<1>2. remote[a] \subseteq Commit
  BY DEF TypeOK
<1>3. \A d \in remote[a] : d.seq \in 0..n - 1
  BY DEF Readable
<1>4. PICK c \in remote[a] : c.seq = n - 1
  <2>1. n - 1 \in {c.seq : c \in remote[a]}
    BY <1>1 DEF Readable
  <2> QED
    BY <2>1
<1>5. \A d \in remote[a] : d.seq <= c.seq
  BY <1>1, <1>3, <1>4
<1>6. Newest(a) \in remote[a] /\ \A d \in remote[a] : d.seq <= Newest(a).seq
  BY <1>4, <1>5 DEF Newest
<1>7. Newest(a).seq >= n - 1 /\ Newest(a).seq \in 0..n - 1
  BY <1>3, <1>4, <1>6
<1> QED
  BY <1>1, <1>2, <1>6, <1>7

-----------------------------------------------------------------------------
(* Types, and which process is where. *)

ProcsInv == TypeOK /\ (\A a \in Attempts : IsFiniteSet(remote[a])) /\ ProcInv /\ ClaimInv

\* The locks and what a process knows.
LocalsOK ==
    /\ admission \in Procs \cup {Nobody}
    /\ claim \in [Attempts -> Procs \cup {Nobody}]
    /\ job \in [Procs -> Jobs]
    /\ mode \in [Procs -> Modes]
    /\ pc \in [Procs -> Steps]
    /\ att \in [Procs -> Attempts \cup {Nobody}]
    /\ draft \in [Procs -> Commit]

LEMMA LocalsTyped ==
    ASSUME TypeOK, NEW p \in Procs, att[p] \in Attempts
    PROVE  /\ Exit(p) => LocalsOK'
           /\ Raised(p) => LocalsOK' /\ receipt' \in [Attempts -> Receipts]
<1>b. Blank \in Commit
  BY DEF Blank, Commit, NoReceipt, Receipts
<1>f. Finished(receipt[att[p]], "FAILED") \in Receipts
  BY FinishedFacts DEF Outcomes, TypeOK
<1>1. ASSUME Exit(p) PROVE LocalsOK'
  BY <1>1, <1>b DEF Exit, TypeOK, LocalsOK, Jobs, Modes, Steps
<1>2. ASSUME receipt' = [receipt EXCEPT ![att[p]] = Finished(@, "FAILED")],
             Start(p, "execute", "final", att[p]), UNCHANGED <<admission, claim>>
      PROVE  LocalsOK' /\ receipt' \in [Attempts -> Receipts]
  BY <1>2, <1>f DEF Start, TypeOK, LocalsOK, Jobs, Modes, Steps
<1> QED
  BY <1>1, <1>2 DEF Raised, TypeOK

\* The type invariant, for every step.
LEMMA TypesKept == ProcsInv /\ [Next]_vars => TypeOK'
<1> SUFFICES ASSUME ProcsInv, [Next]_vars PROVE TypeOK'
  OBVIOUS
<1> USE PublicationAssumption
<1>t. TypeOK
  BY DEF ProcsInv
<1>r. \A a \in Attempts : receipt[a] \in Receipts
  BY DEF ProcsInv, TypeOK
<1>i. \A q \in Procs : pc[q] # "idle" => att[q] \in Attempts
  BY DEF ProcsInv, ProcInv, Active, Placed
<1>f. \A r \in Receipts, o \in Outcomes : Finished(r, o) \in Receipts
  BY FinishedFacts
<1>o. "UNKNOWN" \in Outcomes /\ "FAILED" \in Outcomes /\ "CANCELLED" \in Outcomes
  BY DEF Outcomes
<1>b. Blank \in Commit /\ Prepared \in Receipts
  BY DEF Blank, Commit, NoReceipt, Receipts, Prepared
<1>1. ASSUME NEW p \in Procs, Run(p) PROVE TypeOK'
  <2>i. att[p] \in Attempts
    BY <1>1, <1>i DEF Run
  <2>1. receipt' \in [Attempts -> Receipts] /\ UNCHANGED marker
    <3>1. CASE Arm(att[p])
      BY <3>1, <2>i, <1>r, <1>t DEF Arm, Receipts, TypeOK
    <3>2. CASE UNCHANGED contractVars
      BY <3>2, <1>t DEF contractVars, TypeOK
    <3>3. CASE Finish(att[p])
      BY <3>3, <2>i, <1>r, <1>t, <1>f DEF Finish, TypeOK
    <3> QED
      BY <1>1, <3>1, <3>2, <3>3 DEF Run
  <2>2. disk' \in [Attempts -> 0..MaxSaves]
    BY <1>1, <2>i, <1>t DEF Run, TypeOK
  <2> QED
    BY <1>1, <2>1, <2>2, <2>i, <1>t DEF Run, Start, TypeOK, Jobs, Modes, Steps, procVars
<1>2. ASSUME NEW p \in Procs, Load(p) PROVE TypeOK'
  BY <1>2, <1>t, <1>r, <1>i DEF Load, TypeOK, Steps, Commit, contractVars
<1>3. ASSUME NEW p \in Procs, Read(p) PROVE TypeOK'
  <2>i. att[p] \in Attempts
    BY <1>3, <1>i DEF Read
  <2>1. CASE Refuses(p)
    BY <1>3, <2>1, <2>i, <1>t, LocalsTyped DEF Read, LocalsOK, TypeOK
  <2>2. CASE ~Refuses(p) /\ AlreadyPublished(p)
    BY <1>3, <2>2, <2>i, <1>t, <1>b DEF Read, Published, Step, Exit, TypeOK, Jobs, Modes, Steps
  <2>3. CASE ~Refuses(p) /\ ~AlreadyPublished(p)
    <3>1. Readable(att[p]) /\ IsFiniteSet(remote[att[p]])
      BY <2>i, <2>3 DEF Refuses, ProcsInv
    <3>2. Cardinality(remote[att[p]]) \in Nat
      BY <3>1, FS_CardinalityType
    <3>3. remote[att[p]] # {} => Newest(att[p]) \in Commit
      BY <3>1, <2>i, <1>t, NewestIsLast
    <3>4. draft[p] \in Commit /\ disk[att[p]] \in Nat
      BY <1>t, <2>i DEF TypeOK
    <3>5. Extend(p) \in Commit
      BY <3>2, <3>3, <3>4 DEF Extend, Commit
    <3> QED
      BY <1>3, <2>3, <2>i, <3>5, <1>t DEF Read, TypeOK, Steps
  <2> QED
    BY <2>1, <2>2, <2>3
<1>4. ASSUME NEW p \in Procs, Upload(p) PROVE TypeOK'
  BY <1>4, <1>t, <1>i DEF Upload, Step, TypeOK, Steps, contractVars
<1>5. ASSUME NEW p \in Procs, Record(p) PROVE TypeOK'
  <2>1. draft[p].seq + 1 \in Nat
    BY <1>t DEF TypeOK, Commit
  <2>i. att[p] \in Attempts
    BY <1>5, <1>i DEF Record
  <2>2. frontier' \in [Attempts -> Nat]
    BY <1>5, <2>1, <1>t DEF Record, TypeOK
  <2>3. CASE Step(p, "run") /\ UNCHANGED <<admission, claim>>
    BY <1>5, <2>2, <2>3, <2>i, <1>t DEF Record, Published, Step, TypeOK, Steps, contractVars
  <2>4. CASE Exit(p)
    BY <1>5, <2>2, <2>4, <2>i, <1>t, LocalsTyped DEF Record, Published, LocalsOK, TypeOK, contractVars
  <2> QED
    BY <1>5, <2>3, <2>4 DEF Record, Published
<1>6. ASSUME NEW p \in Procs, Fail(p) PROVE TypeOK'
  <2>1. att[p] \in Attempts
    BY <1>6, <1>i DEF Fail
  <2> QED
    BY <1>6, <2>1, <1>t, LocalsTyped DEF Fail, LocalsOK, TypeOK
<1>7. ASSUME NEW p \in Procs, Crash(p) PROVE TypeOK'
  BY <1>7, <1>t, <1>b DEF Crash, Exit, TypeOK, Jobs, Modes, Steps, contractVars
<1>8. ASSUME NEW p \in Procs, NEW a \in Attempts, Launch(p, a) PROVE TypeOK'
  BY <1>8, <1>t, <1>b DEF Launch, Prepare, Start, TypeOK, Jobs, Modes, Steps, contractVars, procVars
<1>9. ASSUME NEW p \in Procs, NEW a \in Attempts, Execute(p, a) PROVE TypeOK'
  <2>1. receipt' \in [Attempts -> Receipts] /\ UNCHANGED marker
    <3>1. CASE Begin(a)
      BY <3>1, <1>r, <1>t DEF Begin, Receipts, TypeOK
    <3>2. CASE UNCHANGED contractVars
      BY <3>2, <1>t DEF contractVars, TypeOK
    <3>3. CASE Finish(a)
      BY <3>3, <1>r, <1>t, <1>f DEF Finish, TypeOK
    <3> QED
      BY <1>9, <3>1, <3>2, <3>3 DEF Execute
  <2> QED
    BY <1>9, <2>1, <1>t DEF Execute, Start, TypeOK, Jobs, Modes, Steps, procVars
<1>10. ASSUME NEW p \in Procs, NEW a \in Attempts, Recover(p, a) PROVE TypeOK'
  BY <1>10, <1>t, <1>r, <1>f, <1>o DEF Recover, Start, TypeOK, Jobs, Modes, Steps
<1>11. ASSUME NEW p \in Procs, NEW a \in Attempts, Flush(p, a) PROVE TypeOK'
  BY <1>11, <1>t DEF Flush, Start, TypeOK, Jobs, Modes, Steps, contractVars
<1>12. ASSUME NEW a \in Attempts, Cancel(a) PROVE TypeOK'
  <2>1. receipt'[a] \in Receipts
    BY <1>12, <1>t, <1>r, <1>f, <1>o DEF Cancel, TypeOK, Receipts
  <2> QED
    BY <1>12, <2>1, <1>t DEF Cancel, TypeOK, procVars
<1>13. CASE UNCHANGED vars
  BY <1>13, <1>t DEF TypeOK, vars, procVars, contractVars
<1> QED
  BY <1>1, <1>2, <1>3, <1>4, <1>5, <1>6, <1>7, <1>8, <1>9, <1>10, <1>11, <1>12, <1>13 DEF Next, ProcStep

\* A step adds at most one commit.
LEMMA ChainsStayFinite ==
    ProcsInv /\ [Next]_vars => \A a \in Attempts : IsFiniteSet(remote'[a])
<1> SUFFICES ASSUME ProcsInv, [Next]_vars, NEW b \in Attempts PROVE IsFiniteSet(remote'[b])
  OBVIOUS
<1>1. IsFiniteSet(remote[b]) /\ remote \in [Attempts -> SUBSET Commit]
  BY DEF ProcsInv, TypeOK
<1>2. CASE UNCHANGED remote
  BY <1>1, <1>2
<1>3. ASSUME NEW p \in Procs, Upload(p) PROVE IsFiniteSet(remote'[b])
  BY <1>1, <1>3, FS_AddElement DEF Upload
<1> QED
  BY <1>2, <1>3 DEF Next, ProcStep, Run, Load, Read, Record, Fail, Crash, Launch, Execute,
                    Recover, Flush, Cancel, vars

\* ProcInv, for every step.
LEMMA ProcsKept == ProcsInv /\ [Next]_vars => ProcInv'
<1> SUFFICES ASSUME ProcsInv, [Next]_vars, NEW q \in Procs, Active(q)' PROVE Placed(q)'
  BY DEF ProcInv
<1>t. TypeOK
  BY DEF ProcsInv
<1>q. Active(q) => Placed(q)
  BY DEF ProcsInv, ProcInv
<1>n. q # Nobody
  BY PublicationAssumption
<1>f. \A r \in Receipts, o \in Outcomes : IsTerminal(Finished(r, o)) /\ (IsTerminal(r) => Finished(r, o) = r)
  BY FinishedFacts
<1>o. "UNKNOWN" \in Outcomes /\ "FAILED" \in Outcomes /\ "CANCELLED" \in Outcomes
  BY DEF Outcomes
<1>r. \A a \in Attempts : receipt[a] \in Receipts
  BY <1>t DEF TypeOK
<1>s. \A r \in Receipts : r.state \in {"NONE", "PREPARED", "RUNNING"} => ~IsTerminal(r)
  BY DEF IsTerminal, TerminalStates
<1> USE DEF Placed, Active, procVars, contractVars
<1>1. ASSUME NEW p \in Procs, Run(p) PROVE Placed(q)'
  <2>p. Active(p) /\ Placed(p)
    BY <1>1 DEF Run, ProcsInv, ProcInv, Idle
  <2>1. CASE q = p
    <3>1. CASE Arm(att[p]) /\ UNCHANGED <<disk, procVars>>
      BY <1>t, <1>q, <1>r, <1>1, <2>p, <2>1, <3>1 DEF Run, Arm, TypeOK
    <3>2. CASE Start(p, "execute", "saved", att[p]) /\ UNCHANGED contractVars
      BY <1>t, <1>q, <1>1, <2>p, <2>1, <3>2 DEF Run, Start, TypeOK
    <3>3. CASE Finish(att[p]) /\ Start(p, "execute", "final", att[p])
      <4>1. IsTerminal(receipt'[att[p]])
        BY <1>t, <1>f, <1>r, <2>p, <3>3 DEF Finish, TypeOK
      <4> QED
        BY <1>t, <1>q, <1>1, <2>p, <2>1, <3>3, <4>1 DEF Run, Start, TypeOK
    <3> QED
      BY <1>1, <3>1, <3>2, <3>3 DEF Run
  <2>2. CASE q # p
    BY <1>t, <1>q, <1>n, <2>p, <1>f, <1>o, <1>r, <1>s, <1>1, <2>2 DEF Run, Start, Arm, Finish, TypeOK
  <2> QED
    BY <2>1, <2>2
<1>2. ASSUME NEW p \in Procs, Load(p) PROVE Placed(q)'
  <2>p. Active(p) /\ Placed(p)
    BY <1>2 DEF Load, ProcsInv, ProcInv, Idle
  <2>1. CASE q = p
    BY <1>t, <1>q, <1>n, <2>p, <1>f, <1>o, <1>r, <1>s, <1>2, <2>1 DEF Load, TypeOK
  <2>2. CASE q # p
    BY <1>t, <1>q, <1>n, <2>p, <1>f, <1>o, <1>r, <1>s, <1>2, <2>2 DEF Load, TypeOK
  <2> QED
    BY <2>1, <2>2
<1>3. ASSUME NEW p \in Procs, Read(p) PROVE Placed(q)'
  <2>p. Active(p) /\ Placed(p)
    BY <1>3 DEF Read, ProcsInv, ProcInv, Idle
  <2>1. CASE q = p
    BY <1>t, <1>q, <1>n, <2>p, <1>f, <1>o, <1>r, <1>s, <1>3, <2>1 DEF Read, Raised, Published, Start, Step, Exit, TypeOK
  <2>2. CASE q # p
    BY <1>t, <1>q, <1>n, <2>p, <1>f, <1>o, <1>r, <1>s, <1>3, <2>2 DEF Read, Raised, Published, Start, Step, Exit, TypeOK
  <2> QED
    BY <2>1, <2>2
<1>4. ASSUME NEW p \in Procs, Upload(p) PROVE Placed(q)'
  <2>p. Active(p) /\ Placed(p)
    BY <1>4 DEF Upload, ProcsInv, ProcInv, Idle
  <2>1. CASE q = p
    BY <1>t, <1>q, <1>n, <2>p, <1>f, <1>o, <1>r, <1>s, <1>4, <2>1 DEF Upload, Step, TypeOK
  <2>2. CASE q # p
    BY <1>t, <1>q, <1>n, <2>p, <1>f, <1>o, <1>r, <1>s, <1>4, <2>2 DEF Upload, Step, TypeOK
  <2> QED
    BY <2>1, <2>2
<1>5. ASSUME NEW p \in Procs, Record(p) PROVE Placed(q)'
  <2>p. Active(p) /\ Placed(p)
    BY <1>5 DEF Record, ProcsInv, ProcInv, Idle
  <2>1. CASE q = p
    BY <1>t, <1>q, <1>n, <2>p, <1>f, <1>o, <1>r, <1>s, <1>5, <2>1 DEF Record, Published, Step, Exit, TypeOK
  <2>2. CASE q # p
    BY <1>t, <1>q, <1>n, <2>p, <1>f, <1>o, <1>r, <1>s, <1>5, <2>2 DEF Record, Published, Step, Exit, TypeOK
  <2> QED
    BY <2>1, <2>2
<1>6. ASSUME NEW p \in Procs, Fail(p) PROVE Placed(q)'
  <2>p. Active(p) /\ Placed(p)
    BY <1>6 DEF Fail, ProcsInv, ProcInv, Idle
  <2>1. CASE q = p
    BY <1>t, <1>q, <1>n, <2>p, <1>f, <1>o, <1>r, <1>s, <1>6, <2>1 DEF Fail, Raised, Start, Exit, TypeOK
  <2>2. CASE q # p
    BY <1>t, <1>q, <1>n, <2>p, <1>f, <1>o, <1>r, <1>s, <1>6, <2>2 DEF Fail, Raised, Start, Exit, TypeOK
  <2> QED
    BY <2>1, <2>2
<1>7. ASSUME NEW p \in Procs, Crash(p) PROVE Placed(q)'
  <2>p. Active(p) /\ Placed(p)
    BY <1>7 DEF Crash, ProcsInv, ProcInv, Idle
  <2>1. CASE q = p
    BY <1>t, <1>q, <1>n, <2>p, <1>f, <1>o, <1>r, <1>s, <1>7, <2>1 DEF Crash, Exit, TypeOK
  <2>2. CASE q # p
    BY <1>t, <1>q, <1>n, <2>p, <1>f, <1>o, <1>r, <1>s, <1>7, <2>2 DEF Crash, Exit, TypeOK
  <2> QED
    BY <2>1, <2>2
<1>8. ASSUME NEW p \in Procs, NEW a \in Attempts, Launch(p, a) PROVE Placed(q)'
  <2>1. CASE q = p
    BY <1>t, <1>q, <1>n, <1>f, <1>o, <1>r, <1>s, <1>8, <2>1 DEF Launch, Prepare, Start, TypeOK
  <2>2. CASE q # p
    BY <1>t, <1>q, <1>n, <1>f, <1>o, <1>r, <1>s, <1>8, <2>2 DEF Launch, Prepare, Start, TypeOK
  <2> QED
    BY <2>1, <2>2
<1>9. ASSUME NEW p \in Procs, NEW a \in Attempts, Execute(p, a) PROVE Placed(q)'
  <2>1. CASE q = p
    <3>1. CASE Begin(a) /\ claim' = [claim EXCEPT ![a] = p] /\ Start(p, "execute", "open", a)
      BY <1>t, <1>r, <1>9, <2>1, <3>1 DEF Execute, Begin, Start, TypeOK
    <3>2. CASE Finish(a) /\ claim' = [claim EXCEPT ![a] = p] /\ Start(p, "execute", "final", a)
      <4>1. IsTerminal(receipt'[a])
        BY <1>t, <1>f, <1>r, <3>2 DEF Finish, TypeOK
      <4> QED
        BY <1>t, <1>9, <2>1, <3>2, <4>1 DEF Execute, Start, TypeOK
    <3>3. CASE UNCHANGED <<contractVars, claim, procVars>>
      BY <1>q, <1>9, <2>1, <3>3 DEF Execute
    <3> QED
      BY <1>9, <3>1, <3>2, <3>3 DEF Execute
  <2>2. CASE q # p
    BY <1>t, <1>q, <1>n, <1>f, <1>o, <1>r, <1>s, <1>9, <2>2 DEF Execute, Begin, Finish, Start, TypeOK
  <2> QED
    BY <2>1, <2>2
<1>10. ASSUME NEW p \in Procs, NEW a \in Attempts, Recover(p, a) PROVE Placed(q)'
  <2>1. CASE q = p
    BY <1>t, <1>q, <1>n, <1>f, <1>o, <1>r, <1>s, <1>10, <2>1 DEF Recover, Start, TypeOK
  <2>2. CASE q # p
    BY <1>t, <1>q, <1>n, <1>f, <1>o, <1>r, <1>s, <1>10, <2>2 DEF Recover, Start, TypeOK
  <2> QED
    BY <2>1, <2>2
<1>11. ASSUME NEW p \in Procs, NEW a \in Attempts, Flush(p, a) PROVE Placed(q)'
  <2>1. CASE q = p
    BY <1>t, <1>q, <1>n, <1>f, <1>o, <1>r, <1>s, <1>11, <2>1 DEF Flush, Start, TypeOK
  <2>2. CASE q # p
    BY <1>t, <1>q, <1>n, <1>f, <1>o, <1>r, <1>s, <1>11, <2>2 DEF Flush, Start, TypeOK
  <2> QED
    BY <2>1, <2>2
<1>12. ASSUME NEW a \in Attempts, Cancel(a) PROVE Placed(q)'
  BY <1>t, <1>q, <1>n, <1>f, <1>o, <1>r, <1>s, <1>12 DEF Cancel, TypeOK
<1>13. CASE UNCHANGED vars
  BY <1>t, <1>q, <1>n, <1>13 DEF vars
<1> QED
  BY <1>1, <1>2, <1>3, <1>4, <1>5, <1>6, <1>7, <1>8, <1>9, <1>10, <1>11, <1>12, <1>13 DEF Next, ProcStep

\* ClaimInv, for every step.
LEMMA ClaimsKept == ProcsInv /\ [Next]_vars => ClaimInv'
<1> SUFFICES ASSUME ProcsInv, [Next]_vars, NEW b \in Attempts, claim'[b] # Nobody
             PROVE  (Active(claim[b]) /\ att[claim[b]] = b /\ job[claim[b]] # "launch")'
  BY DEF ClaimInv
<1>t. TypeOK
  BY DEF ProcsInv
<1>q. claim[b] # Nobody => Active(claim[b]) /\ att[claim[b]] = b /\ job[claim[b]] # "launch"
  BY DEF ProcsInv, ClaimInv
<1>n. Nobody \notin Procs
  BY PublicationAssumption
<1>p. \A p \in Procs : Active(p) => Placed(p)
  BY DEF ProcsInv, ProcInv
<1> USE DEF Active, procVars, contractVars
<1>1. ASSUME NEW p \in Procs, Run(p) PROVE (Active(claim[b]) /\ att[claim[b]] = b /\ job[claim[b]] # "launch")'
  BY <1>t, <1>q, <1>n, <1>p, <1>1 DEF Run, Start, Idle, Placed, TypeOK
<1>2. ASSUME NEW p \in Procs, Load(p) PROVE (Active(claim[b]) /\ att[claim[b]] = b /\ job[claim[b]] # "launch")'
  BY <1>t, <1>q, <1>n, <1>p, <1>2 DEF Load, Idle, Placed, TypeOK
<1>3. ASSUME NEW p \in Procs, Read(p) PROVE (Active(claim[b]) /\ att[claim[b]] = b /\ job[claim[b]] # "launch")'
  BY <1>t, <1>q, <1>n, <1>p, <1>3 DEF Read, Raised, Published, Start, Step, Exit, Idle, Placed, TypeOK
<1>4. ASSUME NEW p \in Procs, Upload(p) PROVE (Active(claim[b]) /\ att[claim[b]] = b /\ job[claim[b]] # "launch")'
  BY <1>t, <1>q, <1>n, <1>p, <1>4 DEF Upload, Step, Idle, Placed, TypeOK
<1>5. ASSUME NEW p \in Procs, Record(p) PROVE (Active(claim[b]) /\ att[claim[b]] = b /\ job[claim[b]] # "launch")'
  BY <1>t, <1>q, <1>n, <1>p, <1>5 DEF Record, Published, Step, Exit, Idle, Placed, TypeOK
<1>6. ASSUME NEW p \in Procs, Fail(p) PROVE (Active(claim[b]) /\ att[claim[b]] = b /\ job[claim[b]] # "launch")'
  BY <1>t, <1>q, <1>n, <1>p, <1>6 DEF Fail, Raised, Start, Exit, Idle, Placed, TypeOK
<1>7. ASSUME NEW p \in Procs, Crash(p) PROVE (Active(claim[b]) /\ att[claim[b]] = b /\ job[claim[b]] # "launch")'
  BY <1>t, <1>q, <1>n, <1>p, <1>7 DEF Crash, Exit, Idle, Placed, TypeOK
<1>8. ASSUME NEW p \in Procs, NEW a \in Attempts, Launch(p, a) PROVE (Active(claim[b]) /\ att[claim[b]] = b /\ job[claim[b]] # "launch")'
  BY <1>t, <1>q, <1>n, <1>p, <1>8 DEF Launch, Start, Idle, Placed, TypeOK
<1>9. ASSUME NEW p \in Procs, NEW a \in Attempts, Execute(p, a) PROVE (Active(claim[b]) /\ att[claim[b]] = b /\ job[claim[b]] # "launch")'
  BY <1>t, <1>q, <1>n, <1>p, <1>9 DEF Execute, Start, Idle, Placed, TypeOK
<1>10. ASSUME NEW p \in Procs, NEW a \in Attempts, Recover(p, a) PROVE (Active(claim[b]) /\ att[claim[b]] = b /\ job[claim[b]] # "launch")'
  BY <1>t, <1>q, <1>n, <1>p, <1>10 DEF Recover, Start, Idle, Placed, TypeOK
<1>11. ASSUME NEW p \in Procs, NEW a \in Attempts, Flush(p, a) PROVE (Active(claim[b]) /\ att[claim[b]] = b /\ job[claim[b]] # "launch")'
  BY <1>t, <1>q, <1>n, <1>p, <1>11 DEF Flush, Start, Idle, Placed, TypeOK
<1>12. ASSUME NEW a \in Attempts, Cancel(a) PROVE (Active(claim[b]) /\ att[claim[b]] = b /\ job[claim[b]] # "launch")'
  BY <1>q, <1>12 DEF Cancel
<1>13. CASE UNCHANGED vars
  BY <1>q, <1>13 DEF vars
<1> QED
  BY <1>1, <1>2, <1>3, <1>4, <1>5, <1>6, <1>7, <1>8, <1>9, <1>10, <1>11, <1>12, <1>13 DEF Next, ProcStep

\* What does not depend on the chains, for every step.
LEMMA ProcsInvariant == ProcsInv /\ [Next]_vars => ProcsInv'
BY TypesKept, ChainsStayFinite, ProcsKept, ClaimsKept DEF ProcsInv

-----------------------------------------------------------------------------
(* How a publication proceeds. *)

\* The chain was read and will be extended.
Reads(q) ==
    /\ pc[q] = "read" /\ ~Refuses(q) /\ ~AlreadyPublished(q)
    /\ att'[q] = att[q] /\ draft'[q] = Extend(q)
    /\ UNCHANGED <<receipt, remote, frontier, disk>>

\* Nothing is on its way to the relay that was not read and drafted.
Proceeds(q) ==
    /\ pc'[q] = "read" =>
         \/ pc[q] = "read" /\ att'[q] = att[q] /\ draft'[q] = draft[q]
         \/ pc[q] = "load" /\ att'[q] = att[q] /\ draft'[q].receipt = receipt'[att[q]]
    /\ pc'[q] = "upload" =>
         \/ pc[q] = "upload" /\ att'[q] = att[q] /\ draft'[q] = draft[q]
         \/ Reads(q)
    /\ pc'[q] = "record" =>
         \/ pc[q] = "record" /\ att'[q] = att[q] /\ draft'[q] = draft[q]
         \/ /\ pc[q] = "upload" /\ att'[q] = att[q] /\ draft'[q] = draft[q]
            /\ remote' = [remote EXCEPT ![att[q]] = @ \cup {draft[q]}]

LEMMA PublicationsProceed ==
    ASSUME ProcsInv, [Next]_vars, NEW q \in Procs
    PROVE  Proceeds(q)
<1>t. TypeOK
  BY DEF ProcsInv
<1> USE DEF Proceeds, procVars, contractVars
<1>1. ASSUME NEW p \in Procs, Run(p) PROVE Proceeds(q)
  BY <1>t, <1>1 DEF Run, Start, TypeOK
<1>2. ASSUME NEW p \in Procs, Load(p) PROVE Proceeds(q)
  BY <1>t, <1>2 DEF Load, Commit, TypeOK
<1>3. ASSUME NEW p \in Procs, Read(p) PROVE Proceeds(q)
  <2>1. CASE q = p
    BY <1>t, <1>3, <2>1 DEF Read, Raised, Published, Start, Step, Exit, Reads, TypeOK
  <2>2. CASE q # p
    BY <1>t, <1>3, <2>2 DEF Read, Raised, Published, Start, Step, Exit, TypeOK
  <2> QED
    BY <2>1, <2>2
<1>4. ASSUME NEW p \in Procs, Upload(p) PROVE Proceeds(q)
  BY <1>t, <1>4 DEF Upload, Step, TypeOK
<1>5. ASSUME NEW p \in Procs, Record(p) PROVE Proceeds(q)
  BY <1>t, <1>5 DEF Record, Published, Step, Exit, TypeOK
<1>6. ASSUME NEW p \in Procs, Fail(p) PROVE Proceeds(q)
  BY <1>t, <1>6 DEF Fail, Raised, Start, Exit, TypeOK
<1>7. ASSUME NEW p \in Procs, Crash(p) PROVE Proceeds(q)
  BY <1>t, <1>7 DEF Crash, Exit, TypeOK
<1>8. ASSUME NEW p \in Procs, NEW a \in Attempts, Launch(p, a) PROVE Proceeds(q)
  BY <1>t, <1>8 DEF Launch, Start, TypeOK
<1>9. ASSUME NEW p \in Procs, NEW a \in Attempts, Execute(p, a) PROVE Proceeds(q)
  BY <1>t, <1>9 DEF Execute, Start, TypeOK
<1>10. ASSUME NEW p \in Procs, NEW a \in Attempts, Recover(p, a) PROVE Proceeds(q)
  BY <1>t, <1>10 DEF Recover, Start, TypeOK
<1>11. ASSUME NEW p \in Procs, NEW a \in Attempts, Flush(p, a) PROVE Proceeds(q)
  BY <1>t, <1>11 DEF Flush, Start, TypeOK
<1>12. ASSUME NEW a \in Attempts, Cancel(a) PROVE Proceeds(q)
  BY <1>12 DEF Cancel
<1>13. CASE UNCHANGED vars
  BY <1>13 DEF vars
<1> QED
  BY <1>1, <1>2, <1>3, <1>4, <1>5, <1>6, <1>7, <1>8, <1>9, <1>10, <1>11, <1>12, <1>13 DEF Next, ProcStep

\* Commits are never taken away, the recorded frontier moves only over one that
\* was uploaded, and a checkpoint is written by an executor that runs.
LEMMA RelaySteps ==
    ASSUME ProcsInv, [Next]_vars, NEW b \in Attempts
    PROVE  /\ \/ remote'[b] = remote[b]
              \/ \E p \in Procs : Upload(p) /\ att[p] = b /\ remote'[b] = remote[b] \cup {draft[p]}
           /\ \/ frontier'[b] = frontier[b]
              \/ \E p \in Procs : Record(p) /\ att[p] = b /\ frontier'[b] = draft[p].seq + 1
           /\ \/ disk'[b] = disk[b]
              \/ \E p \in Procs : Run(p) /\ att[p] = b /\ disk'[b] = disk[b] + 1
<1>1. TypeOK
  BY DEF ProcsInv
<1>2. \/ UNCHANGED remote
      \/ \E p \in Procs : Upload(p)
  BY DEF Next, ProcStep, Run, Load, Read, Record, Fail, Crash, Launch, Execute, Recover, Flush,
         Cancel, vars
<1>3. \/ UNCHANGED frontier
      \/ \E p \in Procs : Record(p)
  BY DEF Next, ProcStep, Run, Load, Read, Upload, Fail, Crash, Launch, Execute, Recover, Flush,
         Cancel, vars
<1>4. \/ UNCHANGED disk
      \/ \E p \in Procs : Run(p) /\ disk' = [disk EXCEPT ![att[p]] = @ + 1]
  BY DEF Next, ProcStep, Run, Load, Read, Upload, Record, Fail, Crash, Launch, Execute, Recover,
         Flush, Cancel, vars
<1>5. \/ remote'[b] = remote[b]
      \/ \E p \in Procs : Upload(p) /\ att[p] = b /\ remote'[b] = remote[b] \cup {draft[p]}
  BY <1>1, <1>2 DEF Upload, TypeOK
<1>6. \/ frontier'[b] = frontier[b]
      \/ \E p \in Procs : Record(p) /\ att[p] = b /\ frontier'[b] = draft[p].seq + 1
  BY <1>1, <1>3 DEF Record, TypeOK
<1>7. \/ disk'[b] = disk[b]
      \/ \E p \in Procs : Run(p) /\ att[p] = b /\ disk'[b] = disk[b] + 1
  BY <1>1, <1>4 DEF TypeOK
<1> QED
  BY <1>5, <1>6, <1>7

\* CoverInv, for every step.
LEMMA CoverKept == ProcsInv /\ CoverInv /\ [Next]_vars => CoverInv'
<1> SUFFICES ASSUME ProcsInv, CoverInv, [Next]_vars PROVE CoverInv'
  OBVIOUS
<1>1. \A b \in Attempts : remote[b] \subseteq remote'[b]
  BY RelaySteps
<1>2. \A b \in Attempts, n \in Nat : Covered(b, n) => Covered(b, n)'
  BY <1>1 DEF Covered
<1>d. \A p \in Procs : draft[p].seq \in Nat
  BY DEF ProcsInv, TypeOK, Commit
<1>i. \A p \in Procs : pc[p] # "idle" => att[p] \in Attempts
  BY DEF ProcsInv, ProcInv, Active, Placed
<1>3. ASSUME NEW b \in Attempts PROVE Covered(b, frontier[b])'
  <2>1. frontier[b] \in Nat /\ Covered(b, frontier[b])
    BY DEF CoverInv, ProcsInv, TypeOK
  <2>2. CASE frontier'[b] = frontier[b]
    BY <1>2, <2>1, <2>2 DEF Covered
  <2>3. ASSUME NEW p \in Procs, Record(p), att[p] = b, frontier'[b] = draft[p].seq + 1
        PROVE  Covered(b, frontier[b])'
    <3>1. Covered(b, draft[p].seq + 1)
      BY <2>3 DEF Record, CoverInv
    <3>2. UNCHANGED remote
      BY <2>3 DEF Record
    <3> QED
      BY <2>3, <3>1, <3>2 DEF Covered
  <2> QED
    BY <2>2, <2>3, RelaySteps
<1>4. ASSUME NEW q \in Procs, pc'[q] = "upload" PROVE Covered(att[q], draft[q].seq)'
  <2>1. CASE pc[q] = "upload" /\ att'[q] = att[q] /\ draft'[q] = draft[q]
    <3>1. Covered(att[q], draft[q].seq) /\ att[q] \in Attempts
      BY <2>1, <1>i DEF CoverInv
    <3> QED
      BY <2>1, <3>1, <1>1, <1>d DEF Covered
  <2>2. CASE Reads(q)
    <3>1. Readable(att[q]) /\ att[q] \in Attempts /\ IsFiniteSet(remote[att[q]])
      BY <2>2, <1>i DEF Reads, Refuses, ProcsInv
    <3>2. draft'[q].seq = Cardinality(remote[att[q]]) /\ Cardinality(remote[att[q]]) \in Nat
      BY <2>2, <3>1, FS_CardinalityType DEF Reads, Extend, ProcsInv, TypeOK, Commit
    <3>3. \A k \in 0..draft'[q].seq - 1 : \E c \in remote[att[q]] : c.seq = k
      BY <3>1, <3>2 DEF Readable
    <3> QED
      BY <2>2, <3>3 DEF Reads, Covered
  <2> QED
    BY <1>4, <2>1, <2>2, PublicationsProceed DEF Proceeds
<1>5. ASSUME NEW q \in Procs, pc'[q] = "record" PROVE Covered(att[q], draft[q].seq + 1)'
  <2>1. CASE pc[q] = "record" /\ att'[q] = att[q] /\ draft'[q] = draft[q]
    <3>1. Covered(att[q], draft[q].seq + 1) /\ att[q] \in Attempts
      BY <2>1, <1>i DEF CoverInv
    <3> QED
      BY <2>1, <3>1, <1>1, <1>d DEF Covered
  <2>2. CASE /\ pc[q] = "upload" /\ att'[q] = att[q] /\ draft'[q] = draft[q]
             /\ remote' = [remote EXCEPT ![att[q]] = @ \cup {draft[q]}]
    <3>1. Covered(att[q], draft[q].seq) /\ att[q] \in Attempts
      BY <2>2, <1>i DEF CoverInv
    <3>2. remote'[att[q]] = remote[att[q]] \cup {draft[q]}
      BY <2>2, <3>1 DEF ProcsInv, TypeOK
    <3>3. ASSUME NEW k \in 0..(draft'[q].seq + 1) - 1 PROVE \E c \in remote'[att'[q]] : c.seq = k
      <4>0. k \in 0..draft[q].seq /\ att'[q] = att[q]
        BY <1>d, <2>2
      <4>1. CASE k = draft[q].seq
        BY <4>0, <4>1, <3>2
      <4>2. CASE k # draft[q].seq
        <5>1. k \in 0..draft[q].seq - 1
          BY <4>0, <4>2, <1>d
        <5> QED
          BY <5>1, <4>0, <3>1, <3>2 DEF Covered
      <4> QED
        BY <4>1, <4>2
    <3> QED
      BY <3>3 DEF Covered
  <2> QED
    BY <1>5, <2>1, <2>2, PublicationsProceed DEF Proceeds
<1> QED
  BY <1>3, <1>4, <1>5 DEF CoverInv

-----------------------------------------------------------------------------
(* One publisher at a time. *)

\* A terminal receipt is final, and nothing goes back to before it began.
LEMMA ReceiptSteps ==
    ASSUME ProcsInv, [Next]_vars, NEW b \in Attempts
    PROVE  /\ IsTerminal(receipt[b]) => receipt'[b] = receipt[b]
           /\ receipt'[b].state \in {"NONE", "PREPARED"} =>
                   /\ receipt[b].state \in {"NONE", "PREPARED"}
                   /\ receipt'[b].training => receipt[b].training
<1> DEFINE G == /\ IsTerminal(receipt[b]) => receipt'[b] = receipt[b]
                /\ receipt'[b].state \in {"NONE", "PREPARED"} =>
                   /\ receipt[b].state \in {"NONE", "PREPARED"}
                   /\ receipt'[b].training => receipt[b].training
<1>t. TypeOK
  BY DEF ProcsInv
<1>r. \A a \in Attempts : receipt[a] \in Receipts
  BY <1>t DEF TypeOK
<1>f. \A r \in Receipts, o \in Outcomes : IsTerminal(Finished(r, o)) /\ (IsTerminal(r) => Finished(r, o) = r)
  BY FinishedFacts
<1>o. "UNKNOWN" \in Outcomes /\ "FAILED" \in Outcomes /\ "CANCELLED" \in Outcomes
  BY DEF Outcomes
<1>s. \A r \in Receipts : r.state \in {"NONE", "PREPARED", "RUNNING"} => ~IsTerminal(r)
  BY DEF IsTerminal, TerminalStates
<1>e. \A r : IsTerminal(r) => r.state \notin {"NONE", "PREPARED"}
  BY DEF IsTerminal, TerminalStates
<1>0. CASE UNCHANGED receipt
  BY <1>0
<1>1. ASSUME NEW p \in Procs, Run(p) PROVE G
  <2>1. CASE Arm(att[p])
    BY <1>t, <1>r, <1>f, <1>o, <1>s, <1>e, <2>1 DEF Arm, TypeOK
  <2>2. CASE Finish(att[p])
    BY <1>t, <1>r, <1>f, <1>o, <1>s, <1>e, <2>2 DEF Finish, TypeOK
  <2> QED
    BY <1>1, <1>0, <2>1, <2>2 DEF Run, contractVars
<1>2. ASSUME NEW p \in Procs, Load(p) PROVE G
  BY <1>0, <1>2 DEF Load, contractVars
<1>3. ASSUME NEW p \in Procs, Read(p) PROVE G
  BY <1>t, <1>r, <1>f, <1>o, <1>s, <1>e, <1>0, <1>3 DEF Read, Raised, Exit, TypeOK
<1>4. ASSUME NEW p \in Procs, Upload(p) PROVE G
  BY <1>0, <1>4 DEF Upload, contractVars
<1>5. ASSUME NEW p \in Procs, Record(p) PROVE G
  BY <1>0, <1>5 DEF Record, contractVars
<1>6. ASSUME NEW p \in Procs, Fail(p) PROVE G
  BY <1>t, <1>r, <1>f, <1>o, <1>s, <1>e, <1>0, <1>6 DEF Fail, Raised, Exit, TypeOK
<1>7. ASSUME NEW p \in Procs, Crash(p) PROVE G
  BY <1>0, <1>7 DEF Crash, contractVars
<1>8. ASSUME NEW p \in Procs, NEW a \in Attempts, Launch(p, a) PROVE G
  BY <1>t, <1>r, <1>f, <1>o, <1>s, <1>e, <1>0, <1>8 DEF Launch, Prepare, Prepared, NoReceipt, contractVars, TypeOK
<1>9. ASSUME NEW p \in Procs, NEW a \in Attempts, Execute(p, a) PROVE G
  <2>1. CASE Begin(a)
    BY <1>t, <1>r, <1>f, <1>o, <1>s, <1>e, <2>1 DEF Begin, TypeOK
  <2>2. CASE Finish(a)
    BY <1>t, <1>r, <1>f, <1>o, <1>s, <1>e, <2>2 DEF Finish, TypeOK
  <2> QED
    BY <1>9, <1>0, <2>1, <2>2 DEF Execute, contractVars
<1>10. ASSUME NEW p \in Procs, NEW a \in Attempts, Recover(p, a) PROVE G
  BY <1>t, <1>r, <1>f, <1>o, <1>s, <1>e, <1>10 DEF Recover, TypeOK
<1>11. ASSUME NEW p \in Procs, NEW a \in Attempts, Flush(p, a) PROVE G
  BY <1>0, <1>11 DEF Flush, contractVars
<1>12. ASSUME NEW a \in Attempts, Cancel(a) PROVE G
  BY <1>t, <1>r, <1>f, <1>o, <1>s, <1>e, <1>12 DEF Cancel, TypeOK
<1>13. CASE UNCHANGED vars
  BY <1>0, <1>13 DEF vars, contractVars
<1> QED
  BY <1>1, <1>2, <1>3, <1>4, <1>5, <1>6, <1>7, <1>8, <1>9, <1>10, <1>11, <1>12, <1>13 DEF Next, ProcStep

LEMMA PublishersExclude ==
    ASSUME ProcsInv, NEW b \in Attempts, OnePublisher(b),
           NEW p \in Procs, NEW q \in Procs, Active(p), Active(q), att[p] = b, att[q] = b
    PROVE  p = q
<1>1. Placed(p) /\ Placed(q)
  BY DEF ProcsInv, ProcInv
<1>2. Nobody \notin Procs
  BY PublicationAssumption
<1> QED
  BY <1>1, <1>2 DEF Placed, OnePublisher, Launching

\* The cancellation that ends an attempt before it began.
EndsEarly(b) == Cancel(b) /\ receipt[b].state = "PREPARED" /\ claim[b] = Nobody

\* OnePublisher, for every step but a cancellation before the attempt began.
LEMMA OnePublisherKept ==
    ASSUME ProcsInv, [Next]_vars, NEW b \in Attempts, OnePublisher(b), ~EndsEarly(b)
    PROVE  OnePublisher(b)'
<1>t. TypeOK
  BY DEF ProcsInv
<1>n. Nobody \notin Procs
  BY PublicationAssumption
<1>p. \A p \in Procs : Active(p) => Placed(p)
  BY DEF ProcsInv, ProcInv
<1>d. \A p \in Procs : draft[p].seq + 1 # 0
  BY <1>t DEF TypeOK, Commit
<1>e. \A r : IsTerminal(r) => r.state \notin {"NONE", "PREPARED", "RUNNING"}
  BY DEF IsTerminal, TerminalStates
<1>l. \A p \in Procs : Launching(p, b) => frontier[b] = 0 /\ receipt[b].state = "PREPARED"
  BY DEF OnePublisher
<1>z. frontier[b] = 0 => /\ receipt[b].state \in {"NONE", "PREPARED"}
                         /\ b \notin spawned /\ claim[b] = Nobody
  BY DEF OnePublisher
<1>f. frontier'[b] = 0 => frontier[b] = 0
  BY <1>d, RelaySteps
<1> DEFINE Z == frontier'[b] = 0 => /\ receipt'[b].state \in {"NONE", "PREPARED"}
                                    /\ b \notin spawned' /\ claim'[b] = Nobody
           L == \A p \in Procs : Launching(p, b)' => frontier'[b] = 0 /\ receipt'[b].state = "PREPARED"
<1> SUFFICES Z /\ L
  BY DEF OnePublisher
<1> USE DEF Active, Launching, Idle, procVars, contractVars
<1>1. ASSUME NEW p \in Procs, Run(p) PROVE Z /\ L
  <2>1. Z
    BY <1>t, <1>n, <1>p, <1>e, <1>f, <1>l, <1>z, <1>1 DEF Run, Start, Arm, Finish, Placed, TypeOK
  <2>2. L
    BY <1>t, <1>n, <1>p, <1>e, <1>f, <1>l, <1>z, <1>1 DEF Run, Start, Arm, Finish, Placed, TypeOK
  <2> QED
    BY <2>1, <2>2
<1>2. ASSUME NEW p \in Procs, Load(p) PROVE Z /\ L
  <2>1. Z
    BY <1>t, <1>n, <1>p, <1>e, <1>f, <1>l, <1>z, <1>2 DEF Load, Placed, TypeOK
  <2>2. L
    BY <1>t, <1>n, <1>p, <1>e, <1>f, <1>l, <1>z, <1>2 DEF Load, Placed, TypeOK
  <2> QED
    BY <2>1, <2>2
<1>3. ASSUME NEW p \in Procs, Read(p) PROVE Z /\ L
  <2>1. Z
    BY <1>t, <1>n, <1>p, <1>e, <1>f, <1>l, <1>z, <1>3 DEF Read, Raised, Published, Start, Step, Exit, AlreadyPublished, Placed, TypeOK
  <2>2. L
    BY <1>t, <1>n, <1>p, <1>e, <1>f, <1>l, <1>z, <1>3 DEF Read, Raised, Published, Start, Step, Exit, AlreadyPublished, Placed, TypeOK
  <2> QED
    BY <2>1, <2>2
<1>4. ASSUME NEW p \in Procs, Upload(p) PROVE Z /\ L
  <2>1. Z
    BY <1>t, <1>n, <1>p, <1>e, <1>f, <1>l, <1>z, <1>4 DEF Upload, Step, Placed, TypeOK
  <2>2. L
    BY <1>t, <1>n, <1>p, <1>e, <1>f, <1>l, <1>z, <1>4 DEF Upload, Step, Placed, TypeOK
  <2> QED
    BY <2>1, <2>2
<1>5. ASSUME NEW p \in Procs, Record(p) PROVE Z /\ L
  <2>1. Z
    <3>1. CASE att[p] = b
      <4>1. frontier'[b] = draft[p].seq + 1
        BY <1>t, <1>5, <3>1 DEF Record, TypeOK
      <4> QED
        BY <4>1, <1>d
    <3>2. CASE att[p] # b
      BY <1>t, <1>n, <1>f, <1>z, <1>5, <3>2 DEF Record, Published, Step, Exit, TypeOK
    <3> QED
      BY <3>1, <3>2
  <2>2. L
    BY <1>t, <1>n, <1>p, <1>e, <1>f, <1>l, <1>z, <1>5 DEF Record, Published, Step, Exit, Placed, TypeOK
  <2> QED
    BY <2>1, <2>2
<1>6. ASSUME NEW p \in Procs, Fail(p) PROVE Z /\ L
  <2>1. Z
    BY <1>t, <1>n, <1>p, <1>e, <1>f, <1>l, <1>z, <1>6 DEF Fail, Raised, Start, Exit, Placed, TypeOK
  <2>2. L
    BY <1>t, <1>n, <1>p, <1>e, <1>f, <1>l, <1>z, <1>6 DEF Fail, Raised, Start, Exit, Placed, TypeOK
  <2> QED
    BY <2>1, <2>2
<1>7. ASSUME NEW p \in Procs, Crash(p) PROVE Z /\ L
  <2>1. Z
    BY <1>t, <1>n, <1>p, <1>e, <1>f, <1>l, <1>z, <1>7 DEF Crash, Exit, Placed, TypeOK
  <2>2. L
    BY <1>t, <1>n, <1>p, <1>e, <1>f, <1>l, <1>z, <1>7 DEF Crash, Exit, Placed, TypeOK
  <2> QED
    BY <2>1, <2>2
<1>8. ASSUME NEW p \in Procs, NEW a \in Attempts, Launch(p, a) PROVE Z /\ L
  <2>1. Z
    BY <1>t, <1>n, <1>p, <1>e, <1>f, <1>l, <1>z, <1>8 DEF Launch, Prepare, Start, Prepared, NoReceipt, Placed, TypeOK
  <2>2. L
    BY <1>t, <1>n, <1>p, <1>e, <1>f, <1>l, <1>z, <1>8 DEF Launch, Prepare, Start, Prepared, NoReceipt, Placed, TypeOK
  <2> QED
    BY <2>1, <2>2
<1>9. ASSUME NEW p \in Procs, NEW a \in Attempts, Execute(p, a) PROVE Z /\ L
  <2>1. Z
    BY <1>t, <1>n, <1>p, <1>e, <1>f, <1>l, <1>z, <1>9 DEF Execute, Begin, Finish, Start, Placed, TypeOK
  <2>2. L
    BY <1>t, <1>n, <1>p, <1>e, <1>f, <1>l, <1>z, <1>9 DEF Execute, Begin, Finish, Start, Placed, TypeOK
  <2> QED
    BY <2>1, <2>2
<1>10. ASSUME NEW p \in Procs, NEW a \in Attempts, Recover(p, a) PROVE Z /\ L
  <2>1. Z
    BY <1>t, <1>n, <1>p, <1>e, <1>f, <1>l, <1>z, <1>10 DEF Recover, Start, Placed, TypeOK
  <2>2. L
    BY <1>t, <1>n, <1>p, <1>e, <1>f, <1>l, <1>z, <1>10 DEF Recover, Start, Placed, TypeOK
  <2> QED
    BY <2>1, <2>2
<1>11. ASSUME NEW p \in Procs, NEW a \in Attempts, Flush(p, a) PROVE Z /\ L
  <2>1. Z
    BY <1>t, <1>n, <1>p, <1>e, <1>f, <1>l, <1>z, <1>11 DEF Flush, Start, Placed, TypeOK
  <2>2. L
    BY <1>t, <1>n, <1>p, <1>e, <1>f, <1>l, <1>z, <1>11 DEF Flush, Start, Placed, TypeOK
  <2> QED
    BY <2>1, <2>2
<1>12. ASSUME NEW a \in Attempts, Cancel(a) PROVE Z /\ L
  <2>1. Z
    BY <1>t, <1>n, <1>p, <1>e, <1>f, <1>l, <1>z, <1>12 DEF Cancel, EndsEarly, Placed, TypeOK
  <2>2. L
    BY <1>t, <1>n, <1>p, <1>e, <1>f, <1>l, <1>z, <1>12 DEF Cancel, EndsEarly, Placed, TypeOK
  <2> QED
    BY <2>1, <2>2
<1>13. CASE UNCHANGED vars
  BY <1>l, <1>z, <1>13 DEF vars
<1> QED
  BY <1>1, <1>2, <1>3, <1>4, <1>5, <1>6, <1>7, <1>8, <1>9, <1>10, <1>11, <1>12, <1>13 DEF Next, ProcStep

-----------------------------------------------------------------------------
(* The chain. *)

\* What a publisher drafts after reading a chain.
LEMMA ExtendsChain ==
    ASSUME ProcsInv, NEW q \in Procs, att[q] \in Attempts, Readable(att[q])
    PROVE  /\ Extend(q).seq = Cardinality(remote[att[q]])
           /\ Extend(q).receipt = draft[q].receipt
           /\ Extend(q).saved = IF mode[q] # "open" THEN disk[att[q]]
                                ELSE IF remote[att[q]] = {} THEN 0 ELSE Newest(att[q]).saved
           /\ remote[att[q]] # {} => Newest(att[q]) \in remote[att[q]]
BY NewestIsLast DEF ProcsInv, TypeOK, Extend, Commit

\* A commit with the next sequence keeps a chain in order.
LEMMA ChainGrows ==
    ASSUME NEW R \in SUBSET Commit, IsFiniteSet(R), NEW d \in Commit,
           {c.seq : c \in R} = 0..Cardinality(R) - 1, d.seq = Cardinality(R)
    PROVE  /\ {c.seq : c \in R \cup {d}} = 0..Cardinality(R \cup {d}) - 1
           /\ \A c \in R : c.seq < d.seq
<1>1. Cardinality(R) \in Nat
  BY FS_CardinalityType
<1>2. \A c \in R : c.seq \in 0..Cardinality(R) - 1
  OBVIOUS
<1>3. d \notin R
  BY <1>1, <1>2
<1>4. Cardinality(R \cup {d}) = Cardinality(R) + 1
  BY <1>3, FS_AddElement
<1>5. 0..(Cardinality(R) + 1) - 1 = (0..Cardinality(R) - 1) \cup {Cardinality(R)}
  BY <1>1
<1>6. {c.seq : c \in R \cup {d}} = {c.seq : c \in R} \cup {d.seq}
  OBVIOUS
<1>7. \A c \in R : c.seq < d.seq
  BY <1>1, <1>2
<1> QED
  BY <1>4, <1>5, <1>6, <1>7

\* ChainInv, for every step.
LEMMA ChainKept ==
    ASSUME ProcsInv, [Next]_vars, NEW b \in Attempts, Sound(b)
    PROVE  ChainInv(b)'
<1>p. ProcsInv'
  BY ProcsInvariant
<1>t. TypeOK /\ TypeOK'
  BY <1>p DEF ProcsInv
<1>c. ChainInv(b) /\ OnePublisher(b)
  BY DEF Sound
<1>n. /\ \A c \in remote[b] : c.seq \in Nat /\ c.saved \in Nat
      /\ disk[b] \in Nat /\ disk'[b] \in Nat
      /\ \A q \in Procs : draft[q] \in Commit /\ draft[q].seq \in Nat /\ draft[q].saved \in Nat
      /\ remote[b] \in SUBSET Commit /\ IsFiniteSet(remote[b])
  BY <1>t DEF TypeOK, Commit, ProcsInv
<1>d. disk[b] <= disk'[b]
  BY <1>n, RelaySteps
<1>a. \A q \in Procs : pc[q] # "idle" => att[q] \in Attempts
  BY DEF ProcsInv, ProcInv, Active, Placed
<1>1. CASE remote'[b] = remote[b]
  <2>1. Readable(b)'
    BY <1>1, <1>c DEF ChainInv, Readable
  <2>2. /\ \A c, d \in remote'[b] : c.seq = d.seq => c = d
        /\ \A c, d \in remote'[b] : c.seq < d.seq => c.saved <= d.saved
    BY <1>1, <1>c DEF ChainInv
  <2>3. \A c \in remote'[b] : c.saved <= disk'[b]
    BY <1>1, <1>c, <1>n, <1>d DEF ChainInv
  <2>4. ASSUME NEW q \in Procs, pc'[q] = "upload", att'[q] = b
        PROVE  /\ draft'[q].seq = Cardinality(remote'[b])
               /\ draft'[q].saved <= disk'[b]
               /\ \A c \in remote'[b] : c.saved <= draft'[q].saved
    <3>1. CASE pc[q] = "upload" /\ att'[q] = att[q] /\ draft'[q] = draft[q]
      BY <1>1, <1>c, <1>n, <1>d, <2>4, <3>1 DEF ChainInv
    <3>2. CASE Reads(q)
      <4>1. att[q] = b /\ draft'[q] = Extend(q) /\ disk'[b] = disk[b]
        BY <2>4, <3>2 DEF Reads
      <4>2. /\ Extend(q).seq = Cardinality(remote[b])
            /\ Extend(q).saved = IF mode[q] # "open" THEN disk[b]
                                 ELSE IF remote[b] = {} THEN 0 ELSE Newest(b).saved
        BY <4>1, <1>c, ExtendsChain DEF ChainInv
      <4>3. remote[b] # {} => /\ Newest(b) \in remote[b]
                              /\ \A c \in remote[b] : c.seq <= Newest(b).seq
        BY <1>t, <1>n, <1>c, NewestIsLast DEF ChainInv
      <4>4. remote[b] # {} => \A c \in remote[b] : c.saved <= Newest(b).saved
        BY <4>3, <1>n, <1>c DEF ChainInv
      <4> QED
        BY <1>1, <1>c, <1>n, <4>1, <4>2, <4>3, <4>4 DEF ChainInv
    <3> QED
      BY <2>4, <3>1, <3>2, PublicationsProceed DEF Proceeds
  <2> QED
    BY <2>1, <2>2, <2>3, <2>4 DEF ChainInv
<1>2. ASSUME NEW p \in Procs, Upload(p), att[p] = b, remote'[b] = remote[b] \cup {draft[p]}
      PROVE  ChainInv(b)'
  <2> DEFINE d == draft[p]
  <2>u. UNCHANGED disk /\ pc[p] = "upload" /\ pc'[p] = "record"
    BY <1>2, <1>t DEF Upload, Step, TypeOK
  <2>d. /\ d \in Commit /\ d.seq = Cardinality(remote[b]) /\ d.saved <= disk[b]
        /\ \A c \in remote[b] : c.saved <= d.saved
    BY <1>2, <1>c, <1>n, <2>u DEF ChainInv
  <2>1. /\ {c.seq : c \in remote[b] \cup {d}} = 0..Cardinality(remote[b] \cup {d}) - 1
        /\ \A c \in remote[b] : c.seq < d.seq
    BY <1>c, <1>n, <2>d, ChainGrows DEF ChainInv, Readable
  <2>2. Readable(b)'
    BY <1>2, <2>1 DEF Readable
  <2>3. /\ \A c, e \in remote'[b] : c.seq = e.seq => c = e
        /\ \A c, e \in remote'[b] : c.seq < e.seq => c.saved <= e.saved
    BY <1>2, <1>c, <1>n, <2>d, <2>1 DEF ChainInv
  <2>4. \A c \in remote'[b] : c.saved <= disk'[b]
    BY <1>2, <1>c, <2>u, <2>d DEF ChainInv
  <2>5. ASSUME NEW q \in Procs, pc'[q] = "upload", att'[q] = b PROVE FALSE
    <3>1. q # p
      BY <2>5, <2>u
    <3>2. pc[q] = "upload" /\ att[q] = b
      BY <1>2, <1>t, <2>5, <3>1 DEF Upload, Step, TypeOK
    <3> QED
      BY <1>2, <1>c, <2>u, <3>1, <3>2, PublishersExclude DEF Active
  <2> QED
    BY <2>2, <2>3, <2>4, <2>5 DEF ChainInv
<1> QED
  BY <1>1, <1>2, RelaySteps

\* EndedEarly, for every step.
LEMMA EarlyEndKept ==
    ASSUME ProcsInv, [Next]_vars, NEW b \in Attempts, EndedEarly(b)
    PROVE  EndedEarly(b)'
<1>t. TypeOK
  BY DEF ProcsInv
<1>e. IsTerminal(receipt[b])
  BY DEF EndedEarly, Unbegun, IsTerminal, TerminalStates
<1>1. Unbegun(receipt'[b])
  BY <1>e, ReceiptSteps DEF EndedEarly
<1>2. disk'[b] = 0
  <2>1. ASSUME NEW p \in Procs, Run(p), att[p] = b PROVE FALSE
    <3>1. receipt[b].state = "RUNNING"
      BY <2>1 DEF Run, ProcsInv, ProcInv, Active, Placed
    <3> QED
      BY <3>1, <1>e DEF IsTerminal, TerminalStates
  <2> QED
    BY <2>1, RelaySteps DEF EndedEarly
<1>3. \A c \in remote'[b] : c.saved = 0
  BY RelaySteps DEF EndedEarly, Upload
<1>4. ASSUME NEW q \in Procs, pc'[q] = "upload", att'[q] = b PROVE draft'[q].saved = 0
  <2>1. CASE pc[q] = "upload" /\ att'[q] = att[q] /\ draft'[q] = draft[q]
    BY <1>4, <2>1 DEF EndedEarly
  <2>2. CASE Reads(q)
    <3>1. att[q] = b /\ draft'[q] = Extend(q) /\ Readable(b)
      BY <1>4, <2>2 DEF Reads, Refuses
    <3> QED
      BY <3>1, ExtendsChain DEF EndedEarly
  <2> QED
    BY <1>4, <2>1, <2>2, PublicationsProceed DEF Proceeds
<1> QED
  BY <1>1, <1>2, <1>3, <1>4 DEF EndedEarly

\* SoundInv, for every step.
LEMMA SoundKept == ProcsInv /\ SoundInv /\ [Next]_vars => SoundInv'
<1> SUFFICES ASSUME ProcsInv, SoundInv, [Next]_vars, NEW b \in Attempts
             PROVE  /\ Sound(b)' \/ EndedEarly(b)'
                    /\ ~Cancels => Sound(b)'
                    /\ receipt'[b].state \in {"NONE", "PREPARED"} =>
                         disk'[b] = 0 /\ ~receipt'[b].training
  BY DEF SoundInv
<1>t. TypeOK
  BY DEF ProcsInv
<1>d. receipt'[b].state \in {"NONE", "PREPARED"} => disk'[b] = 0 /\ ~receipt'[b].training
  <2>1. ASSUME NEW p \in Procs, Run(p), att[p] = b PROVE receipt[b].state = "RUNNING"
    BY <2>1 DEF Run, ProcsInv, ProcInv, Active, Placed
  <2>2. disk'[b] # disk[b] => receipt[b].state = "RUNNING"
    BY <2>1, RelaySteps
  <2> QED
    BY <2>2, ReceiptSteps DEF SoundInv
<1>1. CASE EndedEarly(b) /\ Cancels
  BY <1>1, <1>d, EarlyEndKept
<1>2. CASE Sound(b) /\ ~EndsEarly(b)
  BY <1>2, <1>d, OnePublisherKept, ChainKept DEF Sound
<1>3. CASE Sound(b) /\ EndsEarly(b)
  <2>1. Cancels /\ receipt[b].state = "PREPARED" /\ UNCHANGED <<remote, disk, procVars>>
    BY <1>3 DEF EndsEarly, Cancel
  <2>2. Unbegun(receipt'[b])
    <3>1. receipt'[b] = Finished(receipt[b], "CANCELLED")
      BY <1>3, <1>t DEF EndsEarly, Cancel, TypeOK
    <3>2. receipt[b] \in Receipts /\ receipt[b].state = "PREPARED" /\ ~receipt[b].training
      BY <1>t, <2>1 DEF SoundInv, TypeOK
    <3> QED
      BY <3>1, <3>2 DEF Finished, Unbegun, IsTerminal, TerminalStates, Receipts
  <2>3. disk[b] = 0
    BY <2>1 DEF SoundInv
  <2>4. /\ \A c \in remote[b] : c.saved \in Nat /\ c.saved <= 0
        /\ \A p \in Procs : pc[p] = "upload" /\ att[p] = b => draft[p].saved \in Nat /\ draft[p].saved <= 0
    BY <1>3, <1>t, <2>3 DEF Sound, ChainInv, TypeOK, Commit
  <2>5. EndedEarly(b)'
    BY <2>1, <2>2, <2>3, <2>4 DEF EndedEarly, procVars
  <2> QED
    BY <2>1, <2>5, <1>d
<1> QED
  BY <1>1, <1>2, <1>3, PublicationAssumption DEF SoundInv

-----------------------------------------------------------------------------
(* What the commits say, when nothing is cancelled. *)

\* Nobody changes the receipt that another process is publishing.
LEMMA PublishedReceiptStays ==
    ASSUME ProcsInv, [Next]_vars, ~Cancels, NEW b \in Attempts, OnePublisher(b),
           NEW q \in Procs, pc[q] \in {"read", "upload", "record"}, att[q] = b,
           pc'[q] \in {"read", "upload", "record"}
    PROVE  receipt'[b] = receipt[b]
<1>t. TypeOK
  BY DEF ProcsInv
<1>n. Nobody \notin Procs
  BY PublicationAssumption
<1>q. Active(q) /\ Placed(q)
  BY DEF Active, ProcsInv, ProcInv
<1>x. \A p \in Procs : Active(p) /\ att[p] = b => p = q
  BY <1>q, PublishersExclude
<1>o. /\ receipt[b].state # "NONE"
      /\ claim[b] = Nobody => receipt[b].state = "PREPARED" /\ b \notin spawned
  BY <1>t, <1>n, <1>q DEF OnePublisher, Launching, Placed, IsTerminal, TerminalStates, TypeOK, Jobs, Modes
<1>1. ASSUME NEW p \in Procs, Run(p) PROVE receipt'[b] = receipt[b]
  BY <1>t, <1>n, <1>q, <1>x, <1>o, <1>1 DEF Run, Arm, Finish, Active, contractVars, TypeOK
<1>2. ASSUME NEW p \in Procs, Load(p) PROVE receipt'[b] = receipt[b]
  BY <1>2 DEF Load, contractVars
<1>3. ASSUME NEW p \in Procs, Read(p) PROVE receipt'[b] = receipt[b]
  BY <1>t, <1>n, <1>q, <1>x, <1>o, <1>3 DEF Read, Raised, Start, Active, TypeOK
<1>4. ASSUME NEW p \in Procs, Upload(p) PROVE receipt'[b] = receipt[b]
  BY <1>4 DEF Upload, contractVars
<1>5. ASSUME NEW p \in Procs, Record(p) PROVE receipt'[b] = receipt[b]
  BY <1>5 DEF Record, contractVars
<1>6. ASSUME NEW p \in Procs, Fail(p) PROVE receipt'[b] = receipt[b]
  BY <1>t, <1>n, <1>q, <1>x, <1>o, <1>6 DEF Fail, Raised, Start, Active, TypeOK
<1>7. ASSUME NEW p \in Procs, Crash(p) PROVE receipt'[b] = receipt[b]
  BY <1>7 DEF Crash, contractVars
<1>8. ASSUME NEW p \in Procs, NEW a \in Attempts, Launch(p, a) PROVE receipt'[b] = receipt[b]
  BY <1>t, <1>n, <1>q, <1>x, <1>o, <1>8 DEF Launch, Prepare, contractVars, TypeOK
<1>9. ASSUME NEW p \in Procs, NEW a \in Attempts, Execute(p, a) PROVE receipt'[b] = receipt[b]
  BY <1>t, <1>n, <1>q, <1>x, <1>o, <1>9 DEF Execute, Begin, Finish, contractVars, TypeOK
<1>10. ASSUME NEW p \in Procs, NEW a \in Attempts, Recover(p, a) PROVE receipt'[b] = receipt[b]
  BY <1>t, <1>n, <1>q, <1>x, <1>o, <1>10 DEF Recover, TypeOK
<1>11. ASSUME NEW p \in Procs, NEW a \in Attempts, Flush(p, a) PROVE receipt'[b] = receipt[b]
  BY <1>11 DEF Flush, contractVars
<1>12. ASSUME NEW a \in Attempts, Cancel(a) PROVE receipt'[b] = receipt[b]
  BY <1>12 DEF Cancel
<1>13. CASE UNCHANGED vars
  BY <1>13 DEF vars, contractVars
<1> QED
  BY <1>1, <1>2, <1>3, <1>4, <1>5, <1>6, <1>7, <1>8, <1>9, <1>10, <1>11, <1>12, <1>13 DEF Next, ProcStep

\* ReceiptInv and TerminalEndsChain, for every step.
LEMMA ReceiptsKept ==
    ProcsInv /\ SoundInv /\ ReceiptInv /\ TerminalEndsChain /\ ~Cancels /\ [Next]_vars
        => ReceiptInv' /\ TerminalEndsChain'
<1> SUFFICES ASSUME ProcsInv, SoundInv, ReceiptInv, TerminalEndsChain, ~Cancels, [Next]_vars,
                    NEW b \in Attempts
             PROVE  /\ \A q \in Procs : pc'[q] \in {"read", "upload", "record"} /\ att'[q] = b =>
                         draft'[q].receipt = receipt'[b]
                    /\ \A c \in remote'[b] : IsTerminal(c.receipt) => c.receipt = receipt'[b]
                    /\ \A c, d \in remote'[b] :
                         IsTerminal(c.receipt) /\ c.seq < d.seq => d.receipt = c.receipt
  BY DEF ReceiptInv, TerminalEndsChain
<1>t. TypeOK
  BY DEF ProcsInv
<1>o. OnePublisher(b) /\ ChainInv(b)
  BY DEF SoundInv, Sound
<1>1. ASSUME NEW q \in Procs, pc'[q] \in {"read", "upload", "record"}, att'[q] = b
      PROVE  draft'[q].receipt = receipt'[b]
  <2>1. CASE pc[q] \in {"read", "upload", "record"} /\ att[q] = b /\ draft'[q].receipt = draft[q].receipt
    <3>1. receipt'[b] = receipt[b]
      BY <1>1, <1>o, <2>1, PublishedReceiptStays
    <3> QED
      BY <2>1, <3>1 DEF ReceiptInv
  <2>2. ASSUME Reads(q) PROVE draft'[q].receipt = draft[q].receipt /\ att[q] = b
    BY <1>1, <2>2, ExtendsChain DEF Reads, Refuses
  <2> QED
    BY <1>1, <2>1, <2>2, PublicationsProceed DEF Proceeds, Reads
<1>2. \A c \in remote[b] : IsTerminal(c.receipt) => c.receipt = receipt'[b]
  BY ReceiptSteps DEF ReceiptInv
<1>3. CASE remote'[b] = remote[b]
  BY <1>1, <1>2, <1>3 DEF TerminalEndsChain
<1>4. ASSUME NEW p \in Procs, Upload(p), att[p] = b, remote'[b] = remote[b] \cup {draft[p]}
      PROVE  /\ \A c \in remote'[b] : IsTerminal(c.receipt) => c.receipt = receipt'[b]
             /\ \A c, d \in remote'[b] :
                  IsTerminal(c.receipt) /\ c.seq < d.seq => d.receipt = c.receipt
  <2>1. pc[p] = "upload" /\ receipt' = receipt
    BY <1>4 DEF Upload, contractVars
  <2>2. draft[p].receipt = receipt'[b]
    BY <1>4, <2>1 DEF ReceiptInv
  <2>3. \A c \in remote'[b] : IsTerminal(c.receipt) => c.receipt = receipt'[b]
    BY <1>2, <1>4, <2>2
  <2>4. \A c \in remote[b] : c.seq < draft[p].seq
    <3>1. draft[p].seq = Cardinality(remote[b]) /\ Readable(b)
      BY <1>4, <1>o, <2>1 DEF ChainInv
    <3> QED
      BY <3>1, <1>t, ChainGrows DEF Readable, ProcsInv, TypeOK
  <2>5. /\ remote[b] \in SUBSET Commit /\ draft[p].seq \in Nat /\ \A c \in remote[b] : c.seq \in Nat
    BY <1>t DEF TypeOK, Commit
  <2>6. ASSUME NEW c \in remote'[b], NEW d \in remote'[b], IsTerminal(c.receipt), c.seq < d.seq
        PROVE  d.receipt = c.receipt
    <3>1. c \in remote[b]
      BY <1>4, <2>4, <2>5, <2>6
    <3>2. CASE d \in remote[b]
      BY <3>1, <3>2, <2>6 DEF TerminalEndsChain
    <3>3. CASE d = draft[p]
      BY <3>1, <3>3, <2>2, <2>3, <2>6
    <3> QED
      BY <1>4, <3>2, <3>3
  <2> QED
    BY <2>3, <2>6
<1> QED
  BY <1>1, <1>3, <1>4, RelaySteps

-----------------------------------------------------------------------------
(* Theorems. *)

\* A relay without commits satisfies the invariant.
LEMMA PublicationStarts == Init => PublicationInv
<1> SUFFICES ASSUME Init PROVE PublicationInv
  OBVIOUS
<1> USE PublicationAssumption DEF Init, ContractInit
<1>1. TypeOK
  BY DEF TypeOK, NoReceipt, Receipts, Blank, Commit, Jobs, Modes, Steps, TerminalStates
<1>2. \A a \in Attempts : remote[a] = {} /\ IsFiniteSet(remote[a]) /\ Cardinality(remote[a]) = 0
  BY FS_EmptySet
<1>3. ProcInv /\ ClaimInv
  BY DEF ProcInv, ClaimInv, Active
<1>4. CoverInv
  BY DEF CoverInv, Covered
<1>5. ASSUME NEW a \in Attempts PROVE Sound(a) /\ disk[a] = 0 /\ ~receipt[a].training
  <2>1. OnePublisher(a)
    BY DEF OnePublisher, Launching, Active, NoReceipt
  <2>2. Readable(a)
    BY <1>2 DEF Readable
  <2> QED
    BY <1>2, <2>1, <2>2 DEF Sound, ChainInv, NoReceipt
<1>6. SoundInv
  BY <1>5 DEF SoundInv
<1>7. ReceiptInv /\ TerminalEndsChain
  BY <1>2 DEF ReceiptInv, TerminalEndsChain
<1> QED
  BY <1>1, <1>2, <1>3, <1>4, <1>6, <1>7 DEF PublicationInv

\* All of it, for every step.
LEMMA PublicationKept == PublicationInv /\ [Next]_vars => PublicationInv'
<1> SUFFICES ASSUME PublicationInv, [Next]_vars PROVE PublicationInv'
  OBVIOUS
<1>1. ProcsInv
  BY DEF PublicationInv, ProcsInv
<1>2. ProcsInv'
  BY <1>1, ProcsInvariant
<1>3. CoverInv' /\ SoundInv'
  BY <1>1, CoverKept, SoundKept DEF PublicationInv
<1>4. ~Cancels => ReceiptInv' /\ TerminalEndsChain'
  BY <1>1, ReceiptsKept DEF PublicationInv
<1> QED
  BY <1>2, <1>3, <1>4 DEF PublicationInv, ProcsInv

(***************************************************************************)
(* The inductive invariant of publish_boundary and its four callers, for   *)
(* any number of processes: who holds which lock, that the frontier is     *)
(* covered, and that every chain is in order or its attempt ended before   *)
(* it began.                                                               *)
(***************************************************************************)
THEOREM PublicationInvariant == Spec => []PublicationInv
BY PublicationStarts, PublicationKept, PTL DEF Spec

(***************************************************************************)
(* Locks, processes, drafts and commits keep their types; a draft is       *)
(* always a commit that could be uploaded.                                 *)
(***************************************************************************)
THEOREM PublicationTyping == Spec => []TypeOK
<1>1. PublicationInv => TypeOK
  BY DEF PublicationInv
<1> QED
  BY <1>1, PublicationInvariant, PTL

(***************************************************************************)
(* What relay-commit.json records is on the relay, whatever is cancelled,  *)
(* fails or dies between the upload and the record.                        *)
(***************************************************************************)
THEOREM FrontierStaysCommitted == Spec => []FrontierIsCommitted
<1>1. PublicationInv => FrontierIsCommitted
  BY DEF PublicationInv, CoverInv, Covered, FrontierIsCommitted
<1> QED
  BY <1>1, PublicationInvariant, PTL

(***************************************************************************)
(* Launch, wrapper, recovery and flush publish under different locks: when *)
(* two of them overlap so that the chain forks, the attempt was cancelled  *)
(* before it began, and has no training and no recovery point to lose.     *)
(***************************************************************************)
THEOREM ForksLoseNothing == Spec => []ForkedNeverBegan
<1>1. PublicationInv => ForkedNeverBegan
  BY DEF PublicationInv, SoundInv, Sound, ChainInv, EndedEarly, Unbegun, ForkedNeverBegan
<1> QED
  BY <1>1, PublicationInvariant, PTL

(***************************************************************************)
(* Without cancellations the terminal commit ends the chain: everything    *)
(* after it repeats its receipt.                                           *)
(***************************************************************************)
THEOREM TerminalIsTheEnd == ~Cancels => (Spec => []TerminalEndsChain)
<1> SUFFICES ASSUME ~Cancels PROVE Spec => []TerminalEndsChain
  OBVIOUS
<1>1. PublicationInv => TerminalEndsChain
  BY DEF PublicationInv
<1> QED
  BY <1>1, PublicationInvariant, PTL

(***************************************************************************)
(* No step loses a recovery point on the relay, cancellations included: an *)
(* attempt with a checkpoint did not end before it began, so its chain     *)
(* stays verifiable and the newest commit names a checkpoint at least as   *)
(* new.                                                                    *)
(***************************************************************************)
THEOREM RecoveryPointsSurvive == Spec => RecoveryPointSurvives
<1>1. ASSUME PublicationInv, PublicationInv', [Next]_vars, NEW a \in Attempts, NEW c \in remote[a],
             c.saved # 0
      PROVE  Readable(a)' /\ Newest(a)'.saved >= c.saved
  <2>1. ProcsInv /\ ProcsInv'
    BY <1>1 DEF PublicationInv, ProcsInv
  <2>2. c \in remote'[a]
    BY <1>1, <2>1, RelaySteps
  <2>3. ~EndedEarly(a)'
    BY <1>1, <2>2 DEF EndedEarly
  <2>4. ChainInv(a)'
    BY <1>1, <2>3 DEF PublicationInv, SoundInv, Sound
  <2>5. Readable(a)' /\ TypeOK' /\ IsFiniteSet(remote'[a])
    BY <2>1, <2>4 DEF ChainInv, ProcsInv
  <2>6. /\ Newest(a)' \in remote'[a]
        /\ \A d \in remote'[a] : d.seq <= Newest(a)'.seq
    <3>1. (TypeOK /\ IsFiniteSet(remote[a]) /\ Readable(a) /\ remote[a] # {} =>
              /\ Newest(a) \in remote[a]
              /\ \A d \in remote[a] : d.seq <= Newest(a).seq)'
      BY NewestIsLast, PTL
    <3> QED
      BY <3>1, <2>2, <2>5
  <2>7. \A d \in remote'[a] : d.seq \in Nat /\ d.saved \in Nat
    BY <2>5 DEF TypeOK, Commit
  <2> QED
    BY <2>2, <2>4, <2>5, <2>6, <2>7 DEF ChainInv
<1>2. PublicationInv /\ PublicationInv' /\ [Next]_vars =>
        [\A a \in Attempts : \A c \in remote[a] : c.saved # 0 =>
            Readable(a)' /\ Newest(a)'.saved >= c.saved]_vars
  BY <1>1
<1> QED
  BY <1>2, PublicationInvariant, PTL DEF Spec, RecoveryPointSurvives
=============================================================================
