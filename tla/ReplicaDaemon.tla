--------------------------- MODULE ReplicaDaemon ----------------------------
(***************************************************************************)
(* The schedule of the replica daemon (src/sqlitersync/replica/daemon.go), *)
(* started by src/cmd/sqlite-rsync/replica/daemon on a configuration that  *)
(* readConfig accepts: one goroutine that makes a round over the entries   *)
(* at start and one at every tick, pulling those whose replica file is old *)
(* enough.  A pull lasts from nothing to sync_timeout, succeeds or fails;  *)
(* what it does on the wire is the client run of OriginSync.               *)
(*                                                                         *)
(* Time passes only while the goroutine waits: for its ticker, or for a    *)
(* pull.  The ticker holds one tick and drops the others.                  *)
(***************************************************************************)
EXTENDS Integers, FiniteSetsExt

CONSTANTS
    NumEntries,  \* number of entries: 1 .. NumEntries, in name order
    Files,       \* the replica files entries may name
    Freqs,       \* the frequencies of an entry that are considered, 0: disabled
    Ages,        \* how old a replica file may be when the daemon starts
    Missing,     \* no such entry, no replica file, no pull yet
    SyncTimeout, \* the longest pull
    MaxTime      \* bound: the clock stops there

ASSUME ReplicaAssumption ==
    /\ NumEntries \in Nat \ {0} /\ SyncTimeout \in Nat /\ MaxTime \in Nat
    /\ Freqs \subseteq Nat /\ Ages \subseteq Nat
    /\ Missing \notin Int

Entries == 1 .. NumEntries

VARIABLES
    freq,    \* the configuration: freq[e], or Missing, and path[e]
    path,
    now,     \* the clock
    stopped, \* Stop has cancelled the context
    pc,      \* where the goroutine stands; "done": ShutdownDone is closed
    at,      \* the time the round was started with
    todo,    \* the entries of the round not yet visited
    mtime,   \* mtime[f]: of the replica file f
    began,   \* when the pull under way began, 0: none
    tried,   \* tried[e]: when a pull or a stat of e last ended, or the file's time
             \* at start (history)
    next,    \* when the ticker fires next, 0: no ticker yet
    tick     \* a tick is waiting in the ticker's channel

ticker == <<next, tick>>
files == <<mtime, tried>>
conf == <<freq, path>>
vars == <<conf, now, stopped, pc, at, todo, files, began, ticker>>

Moment == Int \cup {Missing}

TypeOK ==
    /\ freq \in [Entries -> Freqs \cup {Missing}] /\ path \in [Entries -> Files]
    /\ now \in 0 .. MaxTime /\ at \in 0 .. MaxTime /\ began \in 0 .. MaxTime
    /\ stopped \in BOOLEAN /\ tick \in BOOLEAN
    /\ pc \in {"boot", "refused", "start", "round", "pull", "wait", "done"}
    /\ todo \subseteq Entries
    /\ mtime \in [Files -> Moment] /\ tried \in [Entries -> Moment]
    /\ next \in Nat
    /\ pc = "pull" => todo # {}
    /\ pc = "wait" /\ ~tick => next > now   \* a ticker of no interval panics

Init ==
    /\ freq \in [Entries -> Freqs \cup {Missing}] /\ path \in [Entries -> Files]
    /\ now = 0 /\ at = 0
    /\ stopped = FALSE
    /\ pc = "boot"
    /\ todo = {}
    /\ \E old \in [Files -> Ages \cup {Missing}] :
        mtime = [f \in Files |-> IF old[f] = Missing THEN Missing ELSE -old[f]]
    /\ began = 0
    /\ tried = [e \in Entries |-> mtime[path[e]]]
    /\ next = 0 /\ tick = FALSE

-----------------------------------------------------------------------------
Configured == {e \in Entries : freq[e] # Missing}
Active == {e \in Configured : freq[e] > 0}

\* Mutant: two entries may name the same file.
AcceptsShared == Configured = {} \/ Active # {}

\* readConfig: no two entries, active or not, share a path, and a document with
\* entries has an active one.  Its other rules look at one field each.
Accepts ==
    /\ \A e, f \in Configured : path[e] = path[f] => e = f
    /\ Configured = {} \/ Active # {}

\* main reads the configuration; nothing has happened when it is refused.
Boot ==
    /\ pc = "boot"
    /\ pc' = IF Accepts THEN "start" ELSE "refused"
    /\ UNCHANGED <<conf, now, stopped, at, todo, files, began, ticker>>

\* interval(): the smallest frequency of an active entry.
Interval == IF Active = {} THEN 0 ELSE Min({freq[e] : e \in Active})

\* isSyncDue, with the time of the round.
IsSyncDue(e) ==
    e \in Active /\ (mtime[path[e]] # Missing => at - mtime[path[e]] >= freq[e])

\* The goroutine starts: no first round when it is stopped already.
Start ==
    /\ pc = "start"
    /\ IF stopped THEN pc' = "done" /\ UNCHANGED <<at, todo>>
       ELSE pc' = "round" /\ at' = now /\ todo' = Configured
    /\ UNCHANGED <<conf, now, stopped, files, began, ticker>>

\* The next entry in name order is disabled or not due.
Skip ==
    /\ pc = "round" /\ todo # {}
    /\ ~IsSyncDue(Min(todo))
    /\ todo' = todo \ {Min(todo)}
    /\ UNCHANGED <<conf, now, stopped, pc, at, files, began, ticker>>

\* The stat of the replica file fails, and not because the file is missing: the
\* entry is left out of this round.
LeaveOut ==
    /\ pc = "round" /\ todo # {}
    /\ Min(todo) \in Active
    /\ todo' = todo \ {Min(todo)}
    /\ tried' = [tried EXCEPT ![Min(todo)] = now]
    /\ UNCHANGED <<conf, now, stopped, pc, at, mtime, began, ticker>>

\* syncOne: with a cancelled context the dial fails at once.
Pull ==
    /\ pc = "round" /\ todo # {}
    /\ IsSyncDue(Min(todo))
    /\ IF stopped
       THEN todo' = todo \ {Min(todo)} /\ UNCHANGED <<pc, began>>
       ELSE /\ pc' = "pull"
            /\ began' = now
            /\ UNCHANGED todo
    /\ UNCHANGED <<conf, now, stopped, at, files, ticker>>

\* The pull succeeds, the file is written.
FinishPull ==
    /\ pc = "pull"
    /\ pc' = "round" /\ todo' = todo \ {Min(todo)} /\ began' = 0
    /\ mtime' = [mtime EXCEPT ![path[Min(todo)]] = now]
    /\ tried' = [tried EXCEPT ![Min(todo)] = now]
    /\ UNCHANGED <<conf, now, stopped, at, ticker>>

\* The pull fails, by itself, by its timeout or by Stop; a file that it had
\* opened may be new, or touched.
FailPull ==
    /\ pc = "pull"
    /\ pc' = "round" /\ todo' = todo \ {Min(todo)} /\ began' = 0
    /\ tried' = [tried EXCEPT ![Min(todo)] = now]
    /\ \/ UNCHANGED mtime
       \/ mtime' = [mtime EXCEPT ![path[Min(todo)]] = now]
    /\ UNCHANGED <<conf, now, stopped, at, ticker>>

\* Mutant: the ticker is started without a look at the interval.
StartTickerAlways ==
    /\ pc = "round" /\ todo = {} /\ next = 0
    /\ pc' = "wait" /\ next' = now + Interval
    /\ UNCHANGED <<conf, now, stopped, at, todo, files, began, tick>>

\* After the first round: a daemon without active entries is over, the others
\* start their ticker.
StartTicker ==
    /\ pc = "round" /\ todo = {} /\ next = 0
    /\ IF Interval = 0 THEN pc' = "done" /\ UNCHANGED next
                       ELSE pc' = "wait" /\ next' = now + Interval
    /\ UNCHANGED <<conf, now, stopped, at, todo, files, began, tick>>

EndRound ==
    /\ pc = "round" /\ todo = {} /\ next # 0
    /\ pc' = "wait"
    /\ UNCHANGED <<conf, now, stopped, at, todo, files, began, ticker>>

\* The select: with both cases ready either may be taken.
TakeTick ==
    /\ pc = "wait" /\ tick
    /\ pc' = "round" /\ at' = now /\ todo' = Configured /\ tick' = FALSE
    /\ UNCHANGED <<conf, now, stopped, files, began, next>>

\* Mutant: a break in the select, which leaves the select only.
TakeStopBreak == pc = "wait" /\ stopped /\ UNCHANGED vars

TakeStop ==
    /\ pc = "wait" /\ stopped
    /\ pc' = "done"
    /\ UNCHANGED <<conf, now, stopped, at, todo, files, began, ticker>>

Stop ==
    /\ ~stopped /\ pc \notin {"boot", "refused"}
    /\ stopped' = TRUE
    /\ UNCHANGED <<conf, now, pc, at, todo, files, began, ticker>>

\* What the goroutine waits for has not come yet: a tick, or the end of a pull
\* within its timeout.  Stop ends either wait.
Waiting ==
    /\ ~stopped
    /\ \/ pc = "wait" /\ ~tick
       \/ pc = "pull" /\ now < began + SyncTimeout

\* A unit of time passes; the ticker fires and drops a tick that finds the
\* channel full.
Clock ==
    /\ Waiting /\ now < MaxTime
    /\ now' = now + 1
    /\ IF next = now' THEN tick' = TRUE /\ next' = next + Interval
                      ELSE UNCHANGED ticker
    /\ UNCHANGED <<conf, stopped, pc, at, todo, files, began>>

Step ==
    \/ Boot \/ Start \/ Skip \/ LeaveOut \/ Pull \/ FinishPull \/ FailPull
    \/ StartTicker \/ EndRound \/ TakeTick \/ TakeStop

Next == Step \/ Stop \/ Clock

Spec == Init /\ [][Next]_vars

\* The goroutine runs, and a wait of bounded length ends.
FairSpec == Spec /\ WF_vars(Step)

-----------------------------------------------------------------------------
(* What the schedule promises.                                             *)

\* Whenever the daemon waits for its ticker, every active entry was tried at
\* most one frequency, one interval and the length of a first round ago (an entry
\* whose file cannot be looked at counts as tried then): ticks that were dropped
\* during long pulls, rounds that came too early for an entry, failures, and the pulls of other entries never add up or stand in for it
\* (daemon.go, interval: "each entry is checked at least once per its own
\* frequency").
NeverLate ==
    (pc = "wait" /\ ~tick /\ ~stopped) =>
        \A e \in Active :
            /\ tried[e] # Missing
            /\ now - tried[e] <= freq[e] + Interval + NumEntries * SyncTimeout

\* After Stop the goroutine ends, in the middle of a pull, in the rest of a round
\* or at a select with a tick ready: it never goes on to another round for ever
\* (daemon.go, Run).
StopEnds == stopped ~> pc = "done"
=============================================================================
