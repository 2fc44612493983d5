---------------------------- MODULE ReplicaProofs ----------------------------
(***************************************************************************)
(* The schedule of the replica daemon, for every number of entries, every  *)
(* configuration and every length of the pulls: types, and that no entry   *)
(* is ever late.                                                           *)
(***************************************************************************)
EXTENDS ReplicaDaemon, TLAPS, WellFoundedInduction, NaturalsInduction

\* How late the goroutine may be in a round: a pull of full length for every
\* entry it has been at.
Visited(e) == tried[e] # Missing /\ at - tried[e] < freq[e]

Paced ==
    /\ at <= now
    /\ pc = "round" /\ todo = {} => now <= at + NumEntries * SyncTimeout
    /\ pc = "round" /\ todo # {} => now <= at + (Min(todo) - 1) * SyncTimeout
    /\ pc = "pull" =>
        /\ at <= began
        /\ began <= at + (Min(todo) - 1) * SyncTimeout
        /\ now <= began + SyncTimeout

\* The ticker is ahead of the clock by at most an interval, and a tick is
\* waiting once more than that has passed since the round was started.
Ticking ==
    /\ next # 0 => /\ Active # {} /\ now < next /\ next <= now + Interval
                   /\ ~tick => next <= at + Interval + NumEntries * SyncTimeout
    /\ pc = "wait" => next # 0 /\ todo = {}

\* A file belongs to one entry, and is as new as the last try of it at most.
Owned ==
    /\ todo \subseteq Configured
    /\ pc \notin {"boot", "refused"} => Accepts
    /\ \A e \in Configured : mtime[path[e]] # Missing =>
            tried[e] # Missing /\ mtime[path[e]] <= tried[e] /\ tried[e] <= now

\* The inductive invariant.
Inv ==
    /\ TypeOK
    /\ Paced /\ Ticking /\ Owned
    /\ pc \in {"round", "pull", "wait"} /\ ~stopped =>
            \A e \in Active \ todo : Visited(e)

(***************************************************************************)
(* Facts about the next entry, the interval and the length of a round.     *)
(***************************************************************************)

\* A set of numbers has a least one, and Min is it: sync visits the entries in
\* the order of their names.
LEMMA LeastIsMin ==
    ASSUME NEW S \in SUBSET Nat, S # {}
    PROVE  Min(S) \in S /\ \A x \in S : Min(S) <= x
<1> DEFINE R == OpToRel(<, Nat)
<1>1. \A x, y \in Nat : x < y => <<x, y>> \in R
  BY DEF OpToRel
<1>2. IsWellFoundedOn(R, Nat)
  BY NatLessThanWellFounded
<1>3. PICK y \in S : \A z \in S : ~(<<z, y>> \in R)
  <2>. HIDE DEF R
  <2>. QED  BY <1>2, WFMin
<1>4. \A z \in S : y <= z
  <2>. HIDE DEF R
  <2>. SUFFICES ASSUME NEW z \in S, z < y PROVE FALSE
    OBVIOUS
  <2>1. z \in Nat /\ y \in Nat
    OBVIOUS
  <2>. QED  BY <1>1, <1>3, <2>1
<1>. QED
  <2>. HIDE DEF R
  <2>. QED  BY <1>4 DEF Min

\* The entry in hand, and the one after it.
LEMMA NextEntry ==
    ASSUME TypeOK, todo # {}
    PROVE  /\ Min(todo) \in todo /\ Min(todo) \in Entries
           /\ LET rest == todo \ {Min(todo)}
              IN  rest # {} => Min(rest) \in Entries /\ Min(rest) >= Min(todo) + 1
<1>1. todo \in SUBSET Nat
  BY ReplicaAssumption DEF TypeOK, Entries
<1>2. Min(todo) \in todo /\ \A x \in todo : Min(todo) <= x
  BY <1>1, LeastIsMin
<1> DEFINE rest == todo \ {Min(todo)}
<1>3. ASSUME rest # {}
      PROVE  Min(rest) \in Entries /\ Min(rest) >= Min(todo) + 1
  <2>1. rest \in SUBSET Nat
    BY <1>1
  <2>2. Min(rest) \in rest
    BY <1>3, <2>1, LeastIsMin
  <2>3. Min(rest) \in todo /\ Min(rest) # Min(todo)
    BY <2>2
  <2>4. Min(todo) \in Nat /\ Min(rest) \in Nat /\ Min(todo) <= Min(rest)
    BY <1>1, <1>2, <2>3
  <2>5. Min(rest) \in Entries
    BY <2>3 DEF TypeOK
  <2>. QED
    BY <2>3, <2>4, <2>5
<1>. QED
  BY <1>2, <1>3 DEF TypeOK

\* interval() is positive exactly when an entry is active.
LEMMA IntervalIs ==
    ASSUME TypeOK
    PROVE  /\ Interval \in Nat
           /\ Active # {} => Interval > 0
           /\ Active = {} => Interval = 0
<1> DEFINE S == {freq[e] : e \in Active}
<1>1. S \in SUBSET Nat /\ \A x \in S : x > 0
  BY ReplicaAssumption DEF TypeOK, Active, Configured
<1>2. CASE Active = {}
  BY <1>2 DEF Interval
<1>3. CASE Active # {}
  <2>1. S # {}
    BY <1>3
  <2>2. Min(S) \in S
    BY <1>1, <2>1, LeastIsMin
  <2>. QED
    BY <1>1, <1>3, <2>2 DEF Interval
<1>. QED  BY <1>2, <1>3

\* One more pull fits before the next entry, and before the end of the round.
LEMMA RoomForPull ==
    ASSUME NEW i \in Entries
    PROVE  /\ (i - 1) * SyncTimeout \in Nat
           /\ NumEntries * SyncTimeout \in Nat
           /\ (i - 1) * SyncTimeout + SyncTimeout <= NumEntries * SyncTimeout
           /\ \A j \in Entries : j >= i + 1 =>
                (i - 1) * SyncTimeout + SyncTimeout <= (j - 1) * SyncTimeout
<1>1. \A a, b, t \in Nat : a + 1 <= b => a * t + t <= b * t
  <2> SUFFICES ASSUME NEW a \in Nat, NEW b \in Nat, NEW t \in Nat, a + 1 <= b
               PROVE  a * t + t <= b * t
    OBVIOUS
  <2>1. PICK d \in Nat : b = a + 1 + d
    <3>1. b - (a + 1) \in Nat /\ b = a + 1 + (b - (a + 1))  OBVIOUS
    <3>. QED  BY <3>1
  <2>2. b * t = a * t + t + d * t
    BY <2>1
  <2>3. d * t \in Nat /\ a * t \in Nat
    OBVIOUS
  <2>. QED  BY <2>2, <2>3
<1>2. i - 1 \in Nat /\ (i - 1) + 1 <= NumEntries /\ NumEntries \in Nat /\ SyncTimeout \in Nat
  BY ReplicaAssumption DEF Entries
<1>3. \A j \in Entries : j - 1 \in Nat /\ (j >= i + 1 => (i - 1) + 1 <= j - 1)
  BY <1>2 DEF Entries
<1>4. \A a, t \in Nat : a * t \in Nat
  OBVIOUS
<1>. QED  BY <1>1, <1>2, <1>3, <1>4

(***************************************************************************)
(* The invariant is inductive.                                             *)
(***************************************************************************)

Late == NumEntries * SyncTimeout

\* The configuration and what is read off it do not change while it runs.
LEMMA ConfKept ==
    ASSUME conf' = conf
    PROVE  /\ Configured' = Configured /\ Active' = Active
           /\ Interval' = Interval /\ Accepts' = Accepts
  BY DEF conf, Configured, Active, Interval, Accepts

\* An entry that is left alone was visited in this round: it is new enough.
LEMMA NotDueIsVisited ==
    ASSUME Inv, NEW e \in Active, ~IsSyncDue(e)
    PROVE  Visited(e)
<1>1. e \in Configured /\ e \in Entries /\ freq[e] \in Nat /\ freq[e] > 0
  BY ReplicaAssumption DEF Inv, TypeOK, Active, Configured
<1>2. mtime[path[e]] # Missing /\ ~(at - mtime[path[e]] >= freq[e])
  BY DEF IsSyncDue
<1>3. tried[e] # Missing /\ mtime[path[e]] <= tried[e]
  BY <1>1, <1>2 DEF Inv, Owned
<1>4. mtime[path[e]] \in Int /\ tried[e] \in Int /\ at \in Int
  BY <1>1, <1>2, <1>3 DEF Inv, TypeOK, Moment
<1>. QED  BY <1>1, <1>2, <1>3, <1>4 DEF Visited

\* A round begins, with every entry still to be visited.
LEMMA RoundBegins ==
    ASSUME Inv, pc \in {"start", "wait"}, pc' = "round", at' = now, todo' = Configured,
           UNCHANGED <<conf, now, stopped, files, began, next>>,
           tick' = tick \/ tick' = FALSE
    PROVE  Inv'
<1> USE ReplicaAssumption
<1>1. now \in Nat /\ Interval \in Nat /\ NumEntries * SyncTimeout \in Nat
  BY IntervalIs DEF Inv, TypeOK
<1>2. Configured \in SUBSET Entries /\ Configured \in SUBSET Nat /\ Active \subseteq Configured
  BY DEF Configured, Active, Entries
<1>3. Configured # {} => Min(Configured) \in Entries
  BY <1>2, LeastIsMin
<1>4. Configured # {} => (Min(Configured) - 1) * SyncTimeout \in Nat
  BY <1>3, RoomForPull
<1>5. TypeOK'
  BY <1>2 DEF Inv, TypeOK, conf, files
<1>6. Paced'
  BY <1>1, <1>4 DEF Inv, TypeOK, Paced, files
<1>7. Ticking'
  BY <1>1, ConfKept DEF Inv, TypeOK, Ticking
<1>8. Owned'
  BY ConfKept DEF Inv, Owned, conf, files
<1>. QED
  BY <1>2, <1>5, <1>6, <1>7, <1>8, ConfKept DEF Inv

\* The end of a visit without a pull.
LEMMA SkipStep ==
    ASSUME Inv, pc = "round", todo # {}, pc' = pc,
           todo' = todo \ {Min(todo)},
           UNCHANGED <<conf, now, stopped, at, files, began, ticker>>,
           ~stopped => ~IsSyncDue(Min(todo))
    PROVE  Inv'
<1> USE ReplicaAssumption
<1>1. /\ Min(todo) \in todo /\ Min(todo) \in Entries
      /\ todo' # {} => Min(todo') \in Entries /\ Min(todo') >= Min(todo) + 1
  BY NextEntry DEF Inv
<1>2. /\ (Min(todo) - 1) * SyncTimeout \in Nat /\ Late \in Nat
      /\ (Min(todo) - 1) * SyncTimeout <= Late
      /\ todo' # {} => (Min(todo) - 1) * SyncTimeout <= (Min(todo') - 1) * SyncTimeout
                       /\ (Min(todo') - 1) * SyncTimeout \in Nat
  BY <1>1, RoomForPull DEF Late
<1>3. TypeOK'
  BY DEF Inv, TypeOK, conf, files, ticker
<1>4. Paced'
  BY <1>2 DEF Inv, TypeOK, Paced, Late, conf, files, ticker
<1>5. Ticking' /\ Owned'
  BY ConfKept DEF Inv, Ticking, Owned, conf, files, ticker
<1>6. ASSUME ~stopped PROVE \A e \in Active' \ todo' : Visited(e)'
  <2> SUFFICES ASSUME NEW e \in Active, e \notin todo' PROVE Visited(e)'
    BY ConfKept
  <2>1. Visited(e)
    BY <1>1, <1>6, NotDueIsVisited DEF Inv
  <2>. QED  BY <2>1 DEF Visited, conf, files
<1>. QED  BY <1>3, <1>4, <1>5, <1>6 DEF Inv

\* The end of a pull, which writes the file or leaves it, or of a look at the file
\* that failed.
LEMMA PullEnds ==
    ASSUME Inv, pc \in {"round", "pull"}, todo # {}, pc' = "round", todo' = todo \ {Min(todo)},
           tried' = [tried EXCEPT ![Min(todo)] = now],
           mtime' \in {mtime, [mtime EXCEPT ![path[Min(todo)]] = now]},
           began' \in {0, began}, UNCHANGED <<conf, now, stopped, at, ticker>>
    PROVE  Inv'
<1> USE ReplicaAssumption
<1> DEFINE m == Min(todo)
<1>1. /\ m \in todo /\ m \in Entries
      /\ todo' # {} => Min(todo') \in Entries /\ Min(todo') >= m + 1
  BY NextEntry DEF Inv, TypeOK
<1>2. /\ (m - 1) * SyncTimeout + SyncTimeout <= Late /\ Late \in Nat
      /\ (m - 1) * SyncTimeout \in Nat
      /\ todo' # {} => /\ (m - 1) * SyncTimeout + SyncTimeout <= (Min(todo') - 1) * SyncTimeout
                       /\ (Min(todo') - 1) * SyncTimeout \in Nat
  BY <1>1, RoomForPull DEF Late
<1>3. now \in Int /\ at \in Int /\ at <= now /\ began \in Int
  BY DEF Inv, TypeOK, Paced
<1>4. path[m] \in Files
  BY <1>1 DEF Inv, TypeOK
<1>5. TypeOK'
  <2>1. now \in Moment /\ mtime \in [Files -> Moment] /\ tried \in [Entries -> Moment]
    BY <1>3 DEF Inv, TypeOK, Moment
  <2>2. mtime' \in [Files -> Moment] /\ tried' \in [Entries -> Moment]
    BY <2>1
  <2>. QED
    BY <2>2 DEF Inv, TypeOK, conf, ticker
<1>6. Paced'
  <2>1. now <= at + (m - 1) * SyncTimeout + SyncTimeout
    <3>1. CASE pc = "pull"
      BY <1>2, <1>3, <3>1 DEF Inv, Paced
    <3>2. CASE pc = "round"
      BY <1>2, <1>3, <3>2, ReplicaAssumption DEF Inv, Paced
    <3>. QED  BY <3>1, <3>2
  <2>. QED
    BY <1>2, <1>3, <2>1 DEF Inv, Paced, Late
<1>7. Ticking'
  BY ConfKept DEF Inv, Ticking, ticker
<1>8. Owned'
  <2>1. ASSUME NEW e \in Configured, mtime'[path[e]] # Missing
        PROVE  tried'[e] # Missing /\ mtime'[path[e]] <= tried'[e] /\ tried'[e] <= now
    <3>1. e \in Entries /\ path[e] \in Files /\ m \in Configured
      BY <1>1 DEF Inv, TypeOK, Owned, Configured
    <3>2. CASE e = m
      <4>1. tried'[e] = now /\ now # Missing
        BY <1>1, <1>3, <3>2 DEF Inv, TypeOK
      <4>2. CASE mtime' = mtime
        <5>1. mtime[path[e]] \in Int /\ mtime[path[e]] <= now
          BY <1>3, <2>1, <3>1, <4>2 DEF Inv, TypeOK, Moment, Owned
        <5>. QED  BY <1>3, <4>1, <4>2, <5>1
      <4>3. CASE mtime' = [mtime EXCEPT ![path[m]] = now]
        <5>1. mtime \in [Files -> Moment]
          BY DEF Inv, TypeOK
        <5>2. mtime'[path[e]] = now
          BY <1>4, <3>2, <4>3, <5>1
        <5>. QED  BY <1>3, <4>1, <5>2
      <4>. QED  BY <4>2, <4>3
    <3>3. CASE e # m
      <4>1. path[e] # path[m]
        BY <3>1, <3>3 DEF Inv, Owned, Accepts
      <4>. QED
        BY <2>1, <3>1, <3>3, <4>1 DEF Inv, TypeOK, Owned
    <3>. QED  BY <3>2, <3>3
  <2>2. path' = path /\ now' = now
    BY DEF conf
  <2>. QED  BY <2>1, <2>2, ConfKept DEF Inv, Owned
<1>9. ASSUME ~stopped PROVE \A e \in Active' \ todo' : Visited(e)'
  <2> SUFFICES ASSUME NEW e \in Active, e \notin todo' PROVE Visited(e)'
    BY ConfKept
  <2>1. e \in Entries /\ freq[e] \in Nat /\ freq[e] > 0 /\ freq' = freq
    BY DEF Active, Configured, Inv, TypeOK, conf
  <2>2. CASE e = m
    BY <1>3, <2>1, <2>2 DEF Visited, Inv, TypeOK
  <2>3. CASE e # m
    <3>1. Visited(e)
      BY <1>9, <2>3 DEF Inv
    <3>. QED  BY <2>1, <2>3, <3>1 DEF Visited, Inv, TypeOK
  <2>. QED  BY <2>2, <2>3
<1>. QED  BY <1>5, <1>6, <1>7, <1>8, <1>9 DEF Inv

\* Time passes: the ticker stays ahead of the clock, a pull in its timeout.
LEMMA ClockStep ==
    ASSUME Inv, Clock
    PROVE  Inv'
<1> USE ReplicaAssumption
<1>1. Interval \in Nat /\ (Active # {} => Interval > 0)
  BY IntervalIs DEF Inv
<1>2. /\ ~stopped /\ now' = now + 1 /\ now \in Nat /\ now' \in 0 .. MaxTime
      /\ at \in Nat /\ next \in Nat
      /\ UNCHANGED <<conf, stopped, pc, at, todo, files, began>>
      /\ \/ pc = "wait" /\ ~tick
         \/ pc = "pull" /\ now < began + SyncTimeout
  BY DEF Clock, Waiting, Inv, TypeOK
<1>3. /\ next = now + 1 => tick' = TRUE /\ next' = next + Interval
      /\ next # now + 1 => tick' = tick /\ next' = next
  BY <1>2 DEF Clock, ticker
<1>4. next' \in Nat /\ tick' \in BOOLEAN
  <2>1. tick \in BOOLEAN
    BY DEF Inv, TypeOK
  <2>2. CASE next = now + 1
    BY <1>1, <1>2, <1>3, <2>2
  <2>3. CASE next # now + 1
    BY <1>2, <1>3, <2>1, <2>3
  <2>. QED  BY <2>2, <2>3
<1>5. Ticking'
  <2>1. next' # 0 => next # 0
    BY <1>2, <1>3
  <2>2. next # 0 => Active # {} /\ now < next /\ next <= now + Interval
    BY DEF Inv, Ticking
  <2>3. next' # 0 => now' < next' /\ next' <= now' + Interval
    BY <1>1, <1>2, <1>3, <2>1, <2>2
  <2>4. next' # 0 /\ ~tick' => next' <= at + Interval + NumEntries * SyncTimeout
    BY <1>2, <1>3, <2>1 DEF Inv, Ticking
  <2>5. next' = next \/ next' = next + Interval
    BY <1>3
  <2>6. pc = "wait" => next' # 0 /\ todo = {}
    BY <1>1, <1>2, <2>5 DEF Inv, Ticking
  <2>. QED
    BY <1>2, <2>1, <2>2, <2>3, <2>4, <2>6, ConfKept DEF Ticking
<1>6. Paced'
  <2>1. pc = "pull" => began \in Int
    BY DEF Inv, TypeOK
  <2>. QED
    BY <1>2, <2>1 DEF Inv, Paced, files
<1>7. TypeOK'
  BY <1>2, <1>4, <1>5 DEF Inv, TypeOK, Ticking, conf, files
<1>8. Owned'
  <2>1. ASSUME NEW e \in Configured, mtime[path[e]] # Missing
        PROVE  tried[e] # Missing /\ mtime[path[e]] <= tried[e] /\ tried[e] <= now + 1
    <3>1. tried[e] # Missing /\ mtime[path[e]] <= tried[e] /\ tried[e] <= now
      BY <2>1 DEF Inv, Owned
    <3>2. tried[e] \in Int
      BY <3>1 DEF Inv, TypeOK, Moment, Configured
    <3>. QED  BY <1>2, <3>1, <3>2
  <2>. QED  BY <1>2, <2>1, ConfKept DEF Inv, Owned, conf, files
<1>9. ASSUME ~stopped PROVE pc \in {"round", "pull", "wait"} =>
                                \A e \in Active' \ todo' : Visited(e)'
  BY <1>2, <1>9, ConfKept DEF Inv, Visited, conf, files
<1>. QED  BY <1>2, <1>5, <1>6, <1>7, <1>8, <1>9 DEF Inv

\* Every step keeps the invariant.
LEMMA InvStep == Inv /\ [Next]_vars => Inv'
<1> SUFFICES ASSUME Inv, [Next]_vars PROVE Inv'
  OBVIOUS
<1> USE ReplicaAssumption
<1>1. CASE Boot
  BY <1>1, ConfKept DEF Boot, Inv, TypeOK, Paced, Ticking, Owned, Visited, conf, files, ticker
<1>2. CASE Start
  <2>1. UNCHANGED <<conf, now, stopped, files, began, ticker>> /\ pc = "start"
    BY <1>2 DEF Start
  <2>2. CASE stopped
    <3>1. pc' = "done" /\ UNCHANGED <<at, todo>>
      BY <1>2, <2>2 DEF Start
    <3>. QED
      BY <2>1, <3>1, ConfKept DEF Inv, TypeOK, Paced, Ticking, Owned, conf, files, ticker
  <2>3. CASE ~stopped
    <3>1. pc' = "round" /\ at' = now /\ todo' = Configured
      BY <1>2, <2>3 DEF Start
    <3>. QED
      BY <2>1, <3>1, RoundBegins DEF ticker
  <2>. QED  BY <2>2, <2>3
<1>3. CASE Skip
  BY <1>3, SkipStep DEF Skip
<1>4. CASE Pull
  <2>1. CASE stopped
    BY <1>4, <2>1, SkipStep DEF Pull, files
  <2>2. CASE ~stopped
    <3>1. /\ Min(todo) \in todo /\ Min(todo) \in Entries
          /\ pc = "round" /\ todo # {} /\ pc' = "pull"
          /\ began' = now
          /\ UNCHANGED <<conf, now, stopped, at, todo, files, ticker>>
      BY <1>4, <2>2, NextEntry DEF Pull, Inv
    <3>2. began' \in 0 .. MaxTime /\ now \in Nat
      BY <3>1 DEF Inv, TypeOK
    <3>3. Paced'
      BY <3>1, <3>2 DEF Inv, TypeOK, Paced
    <3>4. TypeOK'
      BY <3>1, <3>2 DEF Inv, TypeOK, conf, files, ticker
    <3>. QED
      BY <3>1, <3>3, <3>4, ConfKept DEF Inv, Ticking, Owned, Visited, conf, files, ticker
  <2>. QED  BY <2>1, <2>2
<1>5. CASE FinishPull
  BY <1>5, PullEnds DEF FinishPull, Inv, TypeOK
<1>6. CASE FailPull
  BY <1>6, PullEnds DEF FailPull, Inv, TypeOK
<1>7. CASE StartTicker
  <2>1. /\ pc = "round" /\ todo = {} /\ next = 0
        /\ UNCHANGED <<conf, now, stopped, at, todo, files, began, tick>>
    BY <1>7 DEF StartTicker
  <2>2. Interval \in Nat /\ (Active = {} => Interval = 0)
    BY IntervalIs DEF Inv
  <2>3. CASE Interval = 0
    <3>1. pc' = "done" /\ next' = next
      BY <1>7, <2>3 DEF StartTicker
    <3>. QED
      BY <2>1, <3>1, ConfKept DEF Inv, TypeOK, Paced, Ticking, Owned, conf, files
  <2>4. CASE Interval # 0
    <3>1. pc' = "wait" /\ next' = now + Interval
      BY <1>7, <2>4 DEF StartTicker
    <3>2. Ticking'
      BY <2>1, <2>2, <2>4, <3>1, ConfKept DEF Inv, TypeOK, Paced, Ticking
    <3>3. TypeOK'
      BY <2>1, <2>2, <2>4, <3>1 DEF Inv, TypeOK, conf, files
    <3>. QED
      BY <2>1, <3>1, <3>2, <3>3, ConfKept DEF Inv, Paced, Owned, Visited, conf, files
  <2>. QED  BY <2>3, <2>4
<1>8. CASE EndRound
  BY <1>8, ConfKept DEF EndRound, Inv, TypeOK, Paced, Ticking, Owned, Visited, conf, files, ticker
<1>9. CASE TakeTick
  <2>1. /\ pc = "wait" /\ pc' = "round"
        /\ at' = now /\ todo' = Configured /\ tick' = FALSE
        /\ UNCHANGED <<conf, now, stopped, files, began, next>>
    BY <1>9 DEF TakeTick
  <2>. QED
    BY <2>1, RoundBegins
<1>10. CASE TakeStop
  BY <1>10, ConfKept DEF TakeStop, Inv, TypeOK, Paced, Ticking, Owned, conf, files, ticker
<1>11. CASE Stop
  BY <1>11, ConfKept DEF Stop, Inv, TypeOK, Paced, Ticking, Owned, conf, files, ticker
<1>12. CASE Clock
  BY <1>12, ClockStep
<1>13. CASE LeaveOut
  BY <1>13, PullEnds DEF LeaveOut
<1>14. CASE UNCHANGED vars
  BY <1>14, ConfKept DEF vars, Inv, TypeOK, Paced, Ticking, Owned, Visited, conf, files, ticker
<1>. QED
  BY <1>1, <1>2, <1>3, <1>4, <1>5, <1>6, <1>7, <1>8, <1>9, <1>10, <1>11, <1>12, <1>13, <1>14
     DEF Next, Step

\* The files are found as old as they are, and nothing has been tried since.
LEMMA InvInit == Init => Inv
<1> SUFFICES ASSUME Init PROVE Inv
  OBVIOUS
<1> USE ReplicaAssumption
<1>1. PICK old \in [Files -> Ages \cup {Missing}] :
        mtime = [f \in Files |-> IF old[f] = Missing THEN Missing ELSE -old[f]]
  BY DEF Init
<1>2. \A f \in Files : mtime[f] \in Moment
  <2> SUFFICES ASSUME NEW f \in Files PROVE mtime[f] \in Moment
    OBVIOUS
  <2>1. old[f] = Missing \/ old[f] \in Nat
    BY <1>1
  <2>. QED  BY <1>1, <2>1 DEF Moment
<1>3. mtime \in [Files -> Moment]
  BY <1>1, <1>2
<1>4. tried \in [Entries -> Moment] /\ \A e \in Entries : tried[e] = mtime[path[e]]
  BY <1>3 DEF Init
<1>5. began \in 0 .. MaxTime
  BY DEF Init
<1>6. TypeOK
  <2>1. now \in 0 .. MaxTime /\ at \in 0 .. MaxTime /\ next \in Nat
    BY DEF Init
  <2>2. /\ freq \in [Entries -> Freqs \cup {Missing}] /\ path \in [Entries -> Files]
        /\ stopped = FALSE /\ tick = FALSE
        /\ pc = "boot" /\ todo = {}
    BY DEF Init
  <2>. QED  BY <1>3, <1>4, <1>5, <2>1, <2>2 DEF TypeOK
<1>7. Owned
  <2> SUFFICES ASSUME NEW e \in Configured, mtime[path[e]] # Missing
               PROVE  tried[e] # Missing /\ mtime[path[e]] <= tried[e] /\ tried[e] <= now
    BY DEF Init, Owned
  <2>1. e \in Entries /\ path[e] \in Files
    BY DEF Configured, Init
  <2>2. mtime[path[e]] \in Int /\ mtime[path[e]] <= 0
    <3>1. old[path[e]] \in Nat /\ mtime[path[e]] = -old[path[e]]
      BY <1>1, <2>1
    <3>. QED  BY <3>1
  <2>. QED  BY <1>4, <2>1, <2>2 DEF Init
<1>. QED
  BY <1>6, <1>7 DEF Inv, Init, Paced, Ticking

(***************************************************************************)
(* The theorems.                                                           *)
(***************************************************************************)

\* The invariant holds in every reachable state of the schedule (daemon.go, Run).
THEOREM Inductive == Spec => []Inv
  BY InvInit, InvStep, PTL DEF Spec

\* Type correctness: an entry is in hand during a pull, and the ticker is never
\* started without an interval (daemon.go, Run and interval).
THEOREM TypeCorrect == Spec => []TypeOK
<1>1. Inv => TypeOK
  BY DEF Inv
<1>. QED  BY <1>1, Inductive, PTL

\* An entry that is waited for was tried, at most its frequency, an interval and
\* the pulls of a first round ago.
LEMMA InvNeverLate == Inv => NeverLate
<1> SUFFICES ASSUME Inv, pc = "wait", ~tick, ~stopped, NEW e \in Active
             PROVE  /\ tried[e] # Missing
                    /\ now - tried[e] <= freq[e] + Interval + NumEntries * SyncTimeout
  BY DEF NeverLate
<1>1. Interval \in Nat /\ NumEntries * SyncTimeout \in Nat
  BY IntervalIs, ReplicaAssumption DEF Inv
<1>2. Visited(e)
  BY DEF Inv, Ticking
<1>3. e \in Entries /\ freq[e] \in Nat
  BY ReplicaAssumption DEF Active, Configured, Inv, TypeOK
<1>4. now \in Int /\ at \in Int /\ tried[e] \in Int /\ next \in Nat
  BY <1>2, <1>3, ReplicaAssumption DEF Inv, TypeOK, Moment, Visited
<1>5. now < next /\ next <= at + Interval + NumEntries * SyncTimeout
  BY DEF Inv, Ticking
<1>. QED  BY <1>1, <1>2, <1>3, <1>4, <1>5 DEF Visited

\* No entry is ever late, whatever the frequencies, the lengths of the pulls,
\* their failures and the ticks that were dropped (daemon.go, interval).
THEOREM NeverForgotten == Spec => []NeverLate
  BY Inductive, InvNeverLate, PTL
=============================================================================
