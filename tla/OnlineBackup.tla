---------------------------- MODULE OnlineBackup -----------------------------
(***************************************************************************)
(* The copy of the online strategy (src/onlineapi/onlineapi.go, Copy): it  *)
(* reads its two tuning fields from the configuration box again, opens a   *)
(* backup of the pooled connection into the destination, asks for the size *)
(* of the source with Step(0), and then copies some pages per step, with a *)
(* pause between, until the backup is done, a step fails or the context    *)
(* ends.  The database is written all the while.                           *)
(*                                                                         *)
(* A page is the number of the write that last changed it, a database the  *)
(* sequence of its pages.  SQLite's backup object is external: it copies   *)
(* in page order under a read lock it holds for one step, starts over when *)
(* the source was written since the step before, and commits the           *)
(* destination in the step that copies the last page.                      *)
(***************************************************************************)
EXTENDS Integers, Sequences

CONSTANTS
    MaxPages,   \* bound: the size of the source
    MaxWrites,  \* bound: the writes to the source
    Tunings,    \* the entries the box may hold, [pages : Int, sleep : Nat]
    Removed,    \* a box without the entry
    Boxes,      \* what the box may hold, Removed among it or not
    Nothing,    \* no destination
    Failures,   \* "open", "step": the calls that may fail
    MaxFailures \* bound: how often one of them does

ASSUME BackupAssumption ==
    /\ MaxPages \in Nat /\ MaxWrites \in Nat /\ MaxFailures \in Nat
    /\ Tunings \subseteq [pages : Int, sleep : Nat]
    /\ Removed \notin Tunings
    /\ Boxes \subseteq Tunings \cup {Removed}
    /\ Nothing \notin Seq(Nat)
    /\ Failures \subseteq {"open", "step"}

VARIABLES
    source,    \* the pages of the source
    writes,    \* the writes so far
    box,       \* the entry in the configuration box
    failures,  \* failed calls so far
    pc,        \* where Copy stands; "ok", "failed": what it returned
    tuning,    \* pages per step and pause, as Copy read them
    copied,    \* the pages copied; SQLite has yet to commit them
    seen,      \* writes at the last step, as the backup object noticed it
    dest,      \* the committed pages of the destination
    cancelled  \* the context of the pass is done

sourceVars == <<source, writes>>
vars == <<source, writes, box, failures, pc, tuning, copied, seen, dest,
          cancelled>>

Resting == {"idle", "ok", "failed"}
Copying == {"open", "probe", "loop", "pause"}

TypeOK ==
    /\ source \in Seq(Nat) /\ Len(source) <= MaxPages
    /\ writes \in 0 .. MaxWrites /\ seen \in 0 .. writes
    /\ box \in Boxes
    /\ failures \in 0 .. MaxFailures
    /\ pc \in Resting \cup Copying
    /\ tuning \in [pages : Int, sleep : Nat]
    /\ copied \in Seq(Nat)
    /\ dest \in Seq(Nat) \cup {Nothing}
    /\ cancelled \in BOOLEAN
    /\ pc = "open" => dest = Nothing
    /\ pc \in {"probe", "loop", "pause"} => dest = <<>>
    /\ pc = "ok" => dest # Nothing

\* What Copy finds for an entry that is not in the map: the zero value.
ZeroTuning == [pages |-> 0, sleep |-> 0]

Init ==
    /\ source = <<>>
    /\ writes = 0 /\ seen = 0 /\ failures = 0
    /\ box \in Boxes
    /\ pc = "idle"
    /\ tuning = ZeroTuning
    /\ copied = <<>>
    /\ dest = Nothing
    /\ cancelled = FALSE

Fail(call) ==
    /\ call \in Failures /\ failures < MaxFailures
    /\ failures' = failures + 1

-----------------------------------------------------------------------------
(* The copy.                                                               *)

\* The pass has found the entry in the box, and it is due.
Begin ==
    /\ pc \in Resting /\ box # Removed
    /\ pc' = "open" /\ cancelled' = FALSE /\ dest' = Nothing
    /\ UNCHANGED <<sourceVars, box, failures, tuning, copied, seen>>

\* Mutant: the entry is looked up under another key than its label.
OpenOtherKey ==
    /\ pc = "open"
    /\ tuning' = ZeroTuning
    /\ pc' = "probe" /\ dest' = <<>> /\ copied' = <<>> /\ seen' = writes
    /\ UNCHANGED <<sourceVars, box, failures, cancelled>>

\* The configuration is read again, NewBackup creates the destination.
Open ==
    /\ pc = "open"
    /\ tuning' = IF box = Removed THEN ZeroTuning ELSE box
    /\ pc' = "probe" /\ dest' = <<>> /\ copied' = <<>> /\ seen' = writes
    /\ UNCHANGED <<sourceVars, box, failures, cancelled>>

FailOpen ==
    /\ pc = "open" /\ Fail("open")
    /\ tuning' = IF box = Removed THEN ZeroTuning ELSE box
    /\ pc' = "failed"
    /\ UNCHANGED <<sourceVars, box, copied, seen, dest, cancelled>>

Smaller(a, b) == IF a < b THEN a ELSE b

\* The pages copied after a step of n pages; n < 0 asks for all of them.
CopiedAfter(n) ==
    LET kept == IF seen = writes THEN copied ELSE <<>>
        upto == IF n < 0 THEN Len(source) ELSE Smaller(Len(kept) + n, Len(source))
    IN  [i \in 1 .. upto |-> IF i <= Len(kept) THEN kept[i] ELSE source[i]]

\* backup.Step(n): returns "no more" when it copied the last page, and has then
\* committed the destination.
Step(n, more) ==
    /\ copied' = CopiedAfter(n) /\ seen' = writes
    /\ IF Len(CopiedAfter(n)) = Len(source)
       THEN dest' = CopiedAfter(n) /\ pc' = "ok"
       ELSE pc' = more /\ UNCHANGED dest

\* newModuloLogger: Step(0).  An empty source is done at once.
Probe ==
    /\ pc = "probe"
    /\ Step(0, "loop")
    /\ UNCHANGED <<sourceVars, box, failures, tuning, cancelled>>

\* Mutant: the loop repeats the Step(0) of the progress logger.
CopyPagesProbing ==
    /\ pc = "loop" /\ ~cancelled
    /\ Step(0, IF tuning.sleep > 0 THEN "pause" ELSE "loop")
    /\ UNCHANGED <<sourceVars, box, failures, tuning, cancelled>>

\* A step of the loop, and the pause after it.
CopyPages ==
    /\ pc = "loop" /\ ~cancelled
    /\ Step(tuning.pages, IF tuning.sleep > 0 THEN "pause" ELSE "loop")
    /\ UNCHANGED <<sourceVars, box, failures, tuning, cancelled>>

EndPause ==
    /\ pc = "pause"
    /\ pc' = "loop"
    /\ UNCHANGED <<sourceVars, box, failures, tuning, copied, seen, dest,
                   cancelled>>

\* Mutant: the error of a step is taken for its "no more".
FailStepIgnored ==
    /\ pc \in {"probe", "loop"} /\ Fail("step")
    /\ pc = "loop" => ~cancelled
    /\ pc' = "ok"
    /\ UNCHANGED <<sourceVars, box, tuning, copied, seen, dest, cancelled>>

\* Step fails (a busy source, an I/O error): Finish rolls the destination back.
FailStep ==
    /\ pc \in {"probe", "loop"} /\ Fail("step")
    /\ pc = "loop" => ~cancelled
    /\ pc' = "failed"
    /\ UNCHANGED <<sourceVars, box, tuning, copied, seen, dest, cancelled>>

\* The context is done, before a step or in the pause.
Abort ==
    /\ pc \in {"loop", "pause"} /\ cancelled
    /\ pc' = "failed"
    /\ UNCHANGED <<sourceVars, box, failures, tuning, copied, seen, dest,
                   cancelled>>

-----------------------------------------------------------------------------
(* The environment.                                                        *)

\* Another connection writes: it changes the pages in P, and the size to n.
Write ==
    /\ writes < MaxWrites
    /\ writes' = writes + 1
    /\ \E n \in 1 .. MaxPages : \E P \in SUBSET (1 .. n) :
        source' = [i \in 1 .. n |-> IF i \in P \/ i > Len(source)
                                    THEN writes' ELSE source[i]]
    /\ UNCHANGED <<box, failures, pc, tuning, copied, seen, dest, cancelled>>

\* SIGHUP: another configuration in the box.
Reload ==
    /\ box' \in Boxes \ {box}
    /\ UNCHANGED <<sourceVars, failures, pc, tuning, copied, seen, dest,
                   cancelled>>

\* Shutdown.
Cancel ==
    /\ pc \in Copying /\ ~cancelled
    /\ cancelled' = TRUE
    /\ UNCHANGED <<sourceVars, box, failures, pc, tuning, copied, seen, dest>>

CopyStep ==
    \/ Open \/ FailOpen \/ Probe \/ CopyPages \/ EndPause \/ FailStep \/ Abort

Next == Begin \/ CopyStep \/ Write \/ Reload \/ Cancel

Spec == Init /\ [][Next]_vars

\* The goroutine runs, and a pause ends.
FairSpec == Spec /\ WF_vars(CopyStep)

-----------------------------------------------------------------------------
(* What the copy promises.                                                 *)

\* A step of the loop gets on: it ends the copy, or has more pages than before,
\* or finds that the source was written since the last one, and starts over.  So
\* between two writes a copy has no more steps than pages (Copy, the loop).
StepsGetOn ==
    [][CopyPages => \/ seen # writes
                    \/ pc' = "ok"
                    \/ Len(copied') > Len(copied)]_vars

\* Copy is the atomic copy the engine takes it for: what it returns nil for is
\* the whole content of the source at that moment, and not of when it began or
\* of several moments; when it returns an error nothing is committed.
Atomic == INSTANCE AtomicCopy WITH
            content <- source,
            copying <- pc \in Copying,
            result <- IF dest = <<>> /\ pc # "ok" THEN Nothing ELSE dest

ImplementsAtomicCopy == Atomic!Spec

\* Once the writes are over a copy ends, by itself or by its context, however
\* the configuration is reloaded meanwhile (onlineapi.go, New: "a configuration
\* reload is visible at the next scheduled run").
CopyEnds == pc \in Copying ~> pc \in Resting
=============================================================================
