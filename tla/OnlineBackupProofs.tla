------------------------- MODULE OnlineBackupProofs --------------------------
(***************************************************************************)
(* The online copy, for every size of the source, every number of writes   *)
(* and every tuning: types, that a step gets on, and that the copy implements  *)
(* the atomic one that the engine is modelled with.                        *)
(***************************************************************************)
EXTENDS OnlineBackup, TLAPS

\* As long as nothing was written since the last step, the pages copied so far
\* are the first pages of the source, and not yet all of them.  So it is with any
\* backup object that starts over after a write; what Copy adds is that it takes
\* the last step for the end.
CopiedInv ==
    (pc \in {"loop", "pause"} /\ seen = writes) =>
        /\ Len(copied) < Len(source)
        /\ \A i \in 1 .. Len(copied) : copied[i] = source[i]

\* The inductive invariant: nothing is kept when the first step is taken.
Inv ==
    /\ TypeOK
    /\ CopiedInv
    /\ pc = "probe" => copied = <<>>

\* What a step leaves of the pages copied before it, and what it adds: they are
\* the first pages of the source as it is now.
LEMMA CopiedIsPrefix ==
    ASSUME Inv, NEW n \in Int, pc \in {"probe", "loop"}
    PROVE  /\ CopiedAfter(n) \in Seq(Nat)
           /\ Len(CopiedAfter(n)) <= Len(source)
           /\ \A i \in 1 .. Len(CopiedAfter(n)) : CopiedAfter(n)[i] = source[i]
           /\ Len(CopiedAfter(n)) = Len(source) => CopiedAfter(n) = source
<1> DEFINE kept == IF seen = writes THEN copied ELSE <<>>
           upto == IF n < 0 THEN Len(source) ELSE Smaller(Len(kept) + n, Len(source))
           after == [i \in 1 .. upto |-> IF i <= Len(kept) THEN kept[i] ELSE source[i]]
<1>1. source \in Seq(Nat) /\ copied \in Seq(Nat)
  BY DEF Inv, TypeOK
<1>2. /\ kept \in Seq(Nat)
      /\ Len(kept) <= Len(source)
      /\ \A i \in 1 .. Len(kept) : kept[i] = source[i]
  BY <1>1 DEF Inv, CopiedInv
<1>3. upto \in Nat /\ upto <= Len(source)
  BY <1>1, <1>2 DEF Smaller
<1> HIDE DEF kept, upto
<1>4. \A i \in 1 .. upto :
        (IF i <= Len(kept) THEN kept[i] ELSE source[i]) = source[i]
  BY <1>1, <1>2, <1>3
<1>5. after = [i \in 1 .. upto |-> source[i]]
  BY <1>4
<1>6. after \in Seq(Nat) /\ Len(after) = upto
  BY <1>1, <1>3, <1>5
<1>7. upto = Len(source) => after = source
  BY <1>1, <1>5
<1>8. CopiedAfter(n) = after
  BY DEF CopiedAfter, kept, upto
<1> QED
  BY <1>3, <1>5, <1>6, <1>7, <1>8

\* The invariant is inductive: Copy reads its tuning, steps, pauses, fails and
\* is cancelled, and the source and the box change at any moment.
LEMMA InvStep == Inv /\ [Next]_vars => Inv'
<1> SUFFICES ASSUME Inv, [Next]_vars PROVE Inv'
  OBVIOUS
<1> USE BackupAssumption
<1>1. CASE Begin
  BY <1>1 DEF Begin, Inv, TypeOK, CopiedInv, sourceVars, Resting, Copying
<1>2. CASE Open
  BY <1>2 DEF Open, Inv, TypeOK, CopiedInv, sourceVars, Resting, Copying, ZeroTuning
<1>3. CASE FailOpen
  BY <1>3 DEF FailOpen, Fail, Inv, TypeOK, CopiedInv, sourceVars, Resting, Copying, ZeroTuning
<1>4. ASSUME pc \in {"probe", "loop"}, NEW n \in Int, NEW more \in {"loop", "pause"},
             Step(n, more), UNCHANGED <<sourceVars, box, failures, tuning, cancelled>>
      PROVE  Inv'
  <2>1. /\ CopiedAfter(n) \in Seq(Nat)
        /\ Len(CopiedAfter(n)) <= Len(source)
        /\ \A i \in 1 .. Len(CopiedAfter(n)) : CopiedAfter(n)[i] = source[i]
        /\ Len(CopiedAfter(n)) = Len(source) => CopiedAfter(n) = source
    BY <1>4, CopiedIsPrefix
  <2>2. /\ copied' = CopiedAfter(n) /\ seen' = writes
        /\ source' = source /\ writes' = writes
    BY <1>4 DEF Step, sourceVars
  <2>3. CASE Len(CopiedAfter(n)) = Len(source)
    <3>1. dest' = source /\ pc' = "ok"
      BY <1>4, <2>1, <2>3 DEF Step
    <3> QED
      BY <1>4, <2>1, <2>2, <3>1 DEF Inv, TypeOK, CopiedInv, Resting, Copying
  <2>4. CASE Len(CopiedAfter(n)) # Len(source)
    <3>1. dest' = dest /\ pc' = more
      BY <1>4, <2>4 DEF Step
    <3>2. dest = <<>>
      BY <1>4 DEF Inv, TypeOK
    <3>3. Len(CopiedAfter(n)) < Len(source)
      BY <2>1, <2>4 DEF Inv, TypeOK
    <3>4. TypeOK'
      BY <1>4, <2>1, <2>2, <3>1, <3>2 DEF Inv, TypeOK, Resting, Copying
    <3>5. CopiedInv'
      BY <1>4, <2>1, <2>2, <3>1, <3>3 DEF CopiedInv
    <3> QED
      BY <1>4, <3>1, <3>4, <3>5 DEF Inv
  <2> QED
    BY <2>3, <2>4
<1>5. CASE Probe
  BY <1>4, <1>5 DEF Probe
<1>6. CASE CopyPages
  <2>1. tuning.pages \in Int
    BY DEF Inv, TypeOK
  <2> QED
    BY <1>4, <1>6, <2>1 DEF CopyPages
<1>7. CASE EndPause
  BY <1>7 DEF EndPause, Inv, TypeOK, CopiedInv, sourceVars, Resting, Copying
<1>8. CASE FailStep
  BY <1>8 DEF FailStep, Fail, Inv, TypeOK, CopiedInv, sourceVars, Resting, Copying
<1>9. CASE Abort
  BY <1>9 DEF Abort, Inv, TypeOK, CopiedInv, sourceVars, Resting, Copying
<1>10. CASE Write
  <2>1. PICK n \in 1 .. MaxPages : \E P \in SUBSET (1 .. n) :
            source' = [i \in 1 .. n |-> IF i \in P \/ i > Len(source)
                                        THEN writes' ELSE source[i]]
    BY <1>10 DEF Write
  <2>2. PICK P \in SUBSET (1 .. n) :
            source' = [i \in 1 .. n |-> IF i \in P \/ i > Len(source)
                                        THEN writes' ELSE source[i]]
    BY <2>1
  <2>3. /\ source \in Seq(Nat) /\ n \in Nat /\ n <= MaxPages
        /\ writes \in Nat /\ writes' = writes + 1
        /\ writes' \in 0 .. MaxWrites /\ seen \in 0 .. writes
    BY <1>10 DEF Write, Inv, TypeOK
  <2>4. \A i \in 1 .. n :
            (IF i \in P \/ i > Len(source) THEN writes' ELSE source[i]) \in Nat
    BY <2>3
  <2>5. source' \in Seq(Nat) /\ Len(source') = n
    BY <2>2, <2>3, <2>4
  <2>6. UNCHANGED <<box, failures, pc, tuning, copied, seen, dest, cancelled>>
    BY <1>10 DEF Write
  <2>7. TypeOK'
    BY <2>3, <2>5, <2>6 DEF Inv, TypeOK
  <2>8. seen' # writes'
    BY <2>3, <2>6
  <2>9. CopiedInv'
    BY <2>8 DEF CopiedInv
  <2> QED
    BY <2>6, <2>7, <2>9 DEF Inv
<1>11. CASE Reload
  BY <1>11 DEF Reload, Inv, TypeOK, CopiedInv, sourceVars, Resting, Copying
<1>12. CASE Cancel
  BY <1>12 DEF Cancel, Inv, TypeOK, CopiedInv, sourceVars, Resting, Copying
<1>13. CASE UNCHANGED vars
  BY <1>13 DEF vars, sourceVars, Inv, TypeOK, CopiedInv
<1> QED
  BY <1>1, <1>2, <1>3, <1>5, <1>6, <1>7, <1>8, <1>9, <1>10, <1>11, <1>12,
     <1>13 DEF Next, CopyStep

LEMMA InvInit == Init => Inv
<1> SUFFICES ASSUME Init PROVE Inv
  OBVIOUS
<1>1. source \in Seq(Nat) /\ Len(source) <= MaxPages /\ copied \in Seq(Nat)
  BY BackupAssumption DEF Init
<1>2. tuning \in [pages : Int, sleep : Nat]
  BY DEF Init, ZeroTuning
<1>3. writes \in 0 .. MaxWrites /\ seen \in 0 .. writes /\ failures \in 0 .. MaxFailures
  BY BackupAssumption DEF Init
<1>4. dest \in Seq(Nat) \cup {Nothing} /\ pc = "idle"
  BY DEF Init
<1>5. TypeOK
  BY <1>1, <1>2, <1>3, <1>4 DEF Init, TypeOK, Resting, Copying
<1> QED
  BY <1>5 DEF Init, Inv, CopiedInv

\* The strengthened invariant holds in every reachable state.
THEOREM Inductive == Spec => []Inv
BY InvInit, InvStep, PTL DEF Spec

\* Types, and that nothing is committed before the copy is done.
THEOREM TypeCorrect == Spec => []TypeOK
<1>1. Inv => TypeOK
  BY DEF Inv
<1> QED
  BY <1>1, Inductive, PTL

-----------------------------------------------------------------------------
(* What keeps the loop from going on for ever.                             *)

\* The entry stays in the configuration, and asks for some pages per step.
Tuned == Removed \notin Boxes /\ \A t \in Tunings : t.pages # 0

\* The second read of the configuration has found it.
TuningInv == pc \in {"probe", "loop", "pause"} => tuning.pages # 0

LEMMA TuningStep ==
    ASSUME Inv, Tuned, TuningInv, [Next]_vars
    PROVE  TuningInv'
<1>1. CASE Open
  <2>1. box \in Tunings /\ box # Removed
    BY BackupAssumption DEF Inv, TypeOK, Tuned
  <2> QED
    BY <1>1, <2>1 DEF Open, Tuned, TuningInv
<1>2. CASE Begin \/ FailOpen \/ FailStep \/ Abort
  BY <1>2 DEF Begin, FailOpen, FailStep, Abort, TuningInv
<1>3. CASE Probe \/ CopyPages \/ EndPause
  BY <1>3 DEF Probe, CopyPages, Step, EndPause, TuningInv
<1>4. CASE Write \/ Reload \/ Cancel \/ UNCHANGED vars
  BY <1>4 DEF Write, Reload, Cancel, vars, TuningInv
<1> QED
  BY <1>1, <1>2, <1>3, <1>4 DEF Next, CopyStep

\* A step of some pages that has not met a write is nearer to the end.
LEMMA StepGains ==
    ASSUME Inv, seen = writes, pc = "loop", NEW n \in Int \ {0}
    PROVE  Len(CopiedAfter(n)) = Len(source) \/ Len(CopiedAfter(n)) > Len(copied)
<1> DEFINE upto == IF n < 0 THEN Len(source) ELSE Smaller(Len(copied) + n, Len(source))
<1>1. source \in Seq(Nat) /\ copied \in Seq(Nat)
  BY DEF Inv, TypeOK
<1>2. upto \in Nat /\ (upto = Len(source) \/ upto > Len(copied))
  BY <1>1 DEF Smaller
<1> HIDE DEF upto
<1>3. CopiedAfter(n) = [i \in 1 .. upto |-> IF i <= Len(copied) THEN copied[i] ELSE source[i]]
  BY DEF CopiedAfter, upto
<1>4. CopiedAfter(n) \in Seq(Nat)
  BY CopiedIsPrefix
<1>5. Len(CopiedAfter(n)) = upto
  BY <1>2, <1>3, <1>4
<1> QED
  BY <1>2, <1>5

\* While its entry stays in the configuration, with any tuning but zero pages,
\* every step of a copy gets on, or was held up by a write: the loop has a
\* variant, and only writers without end can keep it going.
THEOREM LoopGetsOn ==
    ASSUME Tuned
    PROVE  Spec => StepsGetOn
<1>1. Init => TuningInv
  BY DEF Init, TuningInv
<1>2. Inv /\ TuningInv /\ [Next]_vars => TuningInv'
  BY TuningStep
<1>3. Inv /\ TuningInv /\ CopyPages =>
        seen # writes \/ pc' = "ok" \/ Len(copied') > Len(copied)
  <2> SUFFICES ASSUME Inv, TuningInv, CopyPages, seen = writes
               PROVE  pc' = "ok" \/ Len(copied') > Len(copied)
    OBVIOUS
  <2>1. pc = "loop" /\ tuning.pages \in Int \ {0}
    BY DEF Inv, TypeOK, TuningInv, CopyPages
  <2>2. \/ Len(CopiedAfter(tuning.pages)) = Len(source)
        \/ Len(CopiedAfter(tuning.pages)) > Len(copied)
    BY <2>1, StepGains
  <2> QED
    BY <2>2 DEF CopyPages, Step
<1> QED
  BY <1>1, <1>2, <1>3, Inductive, PTL DEF Spec, StepsGetOn

-----------------------------------------------------------------------------
(* The refinement.                                                         *)

\* The result the atomic copy sees.
Result == IF dest = <<>> /\ pc # "ok" THEN Nothing ELSE dest

\* The copy starts as the atomic copy does.
LEMMA AtomicInit == Init => Atomic!Init
BY DEF Init, Atomic!Init, Copying

\* Every step of the copy is a step of the atomic one, or changes nothing that
\* it shows: the step that copies the last page is its Finish.
LEMMA AtomicStep == Inv /\ Inv' /\ [Next]_vars => [Atomic!Next]_Atomic!vars
<1> SUFFICES ASSUME Inv, Inv', [Next]_vars PROVE [Atomic!Next]_Atomic!vars
  OBVIOUS
<1> USE DEF Atomic!Next, Atomic!vars
<1>1. CASE Begin
  <2>1. Atomic!Start
    BY <1>1 DEF Begin, Atomic!Start, sourceVars, Resting, Copying
  <2> QED
    BY <2>1
<1>2. CASE Open
  BY <1>2 DEF Open, Inv, TypeOK, sourceVars, Copying
<1>3. CASE FailOpen \/ FailStep \/ Abort
  <2>1. /\ pc \in {"open", "probe", "loop", "pause"} /\ pc' = "failed"
        /\ UNCHANGED <<source, dest>>
    BY <1>3 DEF FailOpen, FailStep, Abort, sourceVars
  <2>2. Atomic!Fail
    BY <2>1 DEF Atomic!Fail, Copying
  <2> QED
    BY <2>2
<1>4. ASSUME pc \in {"probe", "loop"}, NEW n \in Int, NEW more \in {"loop", "pause"},
             Step(n, more), UNCHANGED <<sourceVars, box, failures, tuning, cancelled>>
      PROVE  [Atomic!Next]_Atomic!vars
  <2>1. source' = source
    BY <1>4 DEF sourceVars
  <2>2. CASE Len(CopiedAfter(n)) = Len(source)
    <3>1. dest' = source /\ pc' = "ok"
      BY <1>4, <2>2, CopiedIsPrefix DEF Step
    <3>2. Atomic!Finish
      BY <1>4, <2>1, <3>1 DEF Atomic!Finish, Copying
    <3> QED
      BY <3>2
  <2>3. CASE Len(CopiedAfter(n)) # Len(source)
    <3>1. dest' = dest /\ pc' = more
      BY <1>4, <2>3 DEF Step
    <3> QED
      BY <1>4, <2>1, <3>1 DEF Copying
  <2> QED
    BY <2>2, <2>3
<1>5. CASE Probe
  BY <1>4, <1>5 DEF Probe
<1>6. CASE CopyPages
  <2>1. tuning.pages \in Int
    BY DEF Inv, TypeOK
  <2> QED
    BY <1>4, <1>6, <2>1 DEF CopyPages
<1>7. CASE EndPause
  BY <1>7 DEF EndPause, sourceVars, Copying
<1>8. CASE Write
  <2>1. Atomic!Change
    BY <1>8 DEF Write, Inv, TypeOK, Atomic!Change
  <2> QED
    BY <2>1
<1>9. CASE Reload \/ Cancel \/ UNCHANGED vars
  BY <1>9 DEF Reload, Cancel, vars, sourceVars
<1> QED
  BY <1>1, <1>2, <1>3, <1>5, <1>6, <1>7, <1>8, <1>9 DEF Next, CopyStep

\* For every database and every interleaving the page-by-page copy implements
\* the atomic copy of the engine's model.
THEOREM Refinement == Spec => ImplementsAtomicCopy
BY AtomicInit, AtomicStep, Inductive, PTL DEF Spec, Atomic!Spec, ImplementsAtomicCopy
=============================================================================
