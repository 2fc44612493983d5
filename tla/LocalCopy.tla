----------------------------- MODULE LocalCopy -----------------------------
(***************************************************************************)
(* The local copy engine (src/internal/localcopy): the pass that the       *)
(* online-API and the VACUUM jobs share.  A pass reads the configuration,  *)
(* scans the destination directories for the newest snapshot of every      *)
(* entry, and copies each due entry: into a staging file, from there by a  *)
(* rename under its final timestamped name, and for a plain snapshot a     *)
(* hard link latest-<id> is swung to it.  Every system call is a step of   *)
(* its own, between any two of which the process may crash, the other job  *)
(* may run, the clock may tick and the sources may change; every call may  *)
(* fail.                                                                   *)
(*                                                                         *)
(* A name is a sequence of dash-separated segments.  A time is a second of *)
(* the wall clock (the resolution of the file names).  The content of a    *)
(* database file is the set of the times at which it was changed.          *)
(***************************************************************************)
EXTENDS Integers, Sequences, FiniteSetsExt

CONSTANTS
    Jobs,       \* the engines of the process: the online and the vacuum job
    VacuumJobs, \* those of Jobs whose strategy is VACUUM INTO
    Sources,    \* paths of source databases
    Base,       \* Base[s]: the basename of source s, as segments
    NumDirs,    \* number of destination directories
    NoPath,     \* the empty path: the entry is deactivated
    Configs,    \* the configurations the config box may hold
    Live,       \* a connection whose file is the one now at the path
    Absent,     \* no file, no connection, no backup
    MaxTime,    \* bound: the clock stops there
    IdleLimit,  \* SetConnMaxIdleTime, in clock units
    MaxChanges, \* bound: changes of one source database
    Events,     \* the failures and outside events the environment may inject
    MaxEvents   \* bound: how many of them happen in a behaviour

EventKinds == {"scan", "stat", "open", "copy", "gzip", "close", "rename",
               "link", "remove", "crash", "cancel", "replace", "reload",
               "clock"}

ASSUME BoundsAssumption ==
    /\ MaxTime \in Nat /\ MaxEvents \in Nat /\ IdleLimit \in Nat
    /\ MaxChanges \in Nat /\ NumDirs \in Nat
    /\ Events \subseteq EventKinds
    /\ VacuumJobs \subseteq Jobs

Time == 0 .. MaxTime

Dirs == 1 .. NumDirs  \* the destination directories, in path order

Entry == [label : Seq(STRING), src : Sources \cup {NoPath},
          dir : Dirs \cup {NoPath}, freq : Nat, gz : BOOLEAN]

ASSUME ConfigAssumption ==
    /\ Base \in [Sources -> Seq(STRING)]
    /\ Configs # {}
    /\ \A c \in Configs : /\ DOMAIN c = Jobs
                          /\ \A j \in Jobs : \A e \in c[j] : e \in Entry

VARIABLES
    now,      \* the wall clock
    spent,    \* injected events so far
    untidy,   \* a crash or a failed os.Remove was among them (history)
    config,   \* the content of the config box
    contents, \* contents[s]: the database now at source path s
    pool,     \* pool[j][s]: the pooled connection of engine j to s
    job,      \* job[j]: where the pass of engine j stands
    staged,   \* dumps in os.TempDir, as <<j, id, at>>
    part,     \* part[n]: the file <n>.tmp in the destination directory
    snap,     \* snap[n]: the file under the final name n
    ltmp,     \* ltmp[p]: the hard link latest-<id>.tmp
    link      \* link[p]: the hard link latest-<id>

fileVars == <<staged, part, snap, ltmp, link>>
envVars == <<now, config, contents>>
vars == <<now, spent, untidy, config, contents, pool, job, staged, part,
          snap, ltmp, link>>

-----------------------------------------------------------------------------
(* Entries, names and what is found in the directories.                    *)

Entries == UNION {c[j] : c \in Configs, j \in Jobs}

\* Steps 1 and 2 of handle: an empty source or destination path.
Active(e) == e.src # NoPath /\ e.dir # NoPath

\* Mutant: the label is left out.
BackupIDUnlabelled(e) == Base[e.src]

\* buildBackupID: the label, a dash, the basename.
BackupID(e) == e.label \o Base[e.src]

IDs == {BackupID(e) : e \in {x \in Entries : Active(x)}}

Name == [dir : Dirs, id : IDs, at : Time, gz : BOOLEAN]
Place == Dirs \X IDs

\* A label is a key of one strategy's table, and no two strategies write the
\* same id into the same directory: two entries of one job may still clash.
ASSUME OneWriterAssumption ==
    \A c, d \in Configs : (c = d \/ "reload" \in Events) =>
        \A j, k \in Jobs : \A e \in c[j], f \in d[k] :
            (j # k /\ Active(e) /\ Active(f) /\ e.dir = f.dir)
                => BackupID(e) # BackupID(f)

NameOf(e, t) == [dir |-> e.dir, id |-> BackupID(e), at |-> t, gz |-> e.gz]
PlaceOf(e) == <<e.dir, BackupID(e)>>

\* The usual deployment, in which the names tell the entries apart: within a
\* job an id belongs to one entry, and a frequency is at least one second.
Orderly ==
    /\ \A c \in Configs : \A j \in Jobs : \A e, f \in c[j] :
            (Active(e) /\ Active(f) /\ BackupID(e) = BackupID(f)) => e = f
    /\ \A e \in Entries : Active(e) => e.freq > 0

\* A place stands for one source.
OneSource == \A e, f \in Entries :
    (Active(e) /\ Active(f) /\ PlaceOf(e) = PlaceOf(f)) => e.src = f.src

\* A database file: the changes it holds, and whether it is a complete
\* database (a dump in progress or a cut gzip stream is not).
Content == [data : SUBSET Time, whole : BOOLEAN]
Partial == [data |-> {}, whole |-> FALSE]
Whole(d) == [data |-> d, whole |-> TRUE]

Linked == [at : Time, file : Content]

\* A connection: its file (Live, or the frozen content of a file that is no
\* longer at the path) and the time it was last returned to the pool.
Conn == [file : (SUBSET Time) \cup {Live}, used : Time]

ASSUME AbsentAssumption == Absent \notin Time \cup Content \cup Linked \cup Conn

\* The timestamps of the snapshots at place p, plain and compressed alike.
Stamps(p) == {t \in Time : \E z \in BOOLEAN :
                snap[[dir |-> p[1], id |-> p[2], at |-> t, gz |-> z]] # Absent}

\* latestBackupFiles over the entries es: a directory in bad cannot be read;
\* an id found in two directories takes the one scanned last.
Scan(es, bad) ==
    [id \in IDs |->
        LET found == {d \in Dirs \ bad :
                        /\ \E e \in es : Active(e) /\ PlaceOf(e) = <<d, id>>
                        /\ Stamps(<<d, id>>) # {}}
        IN  IF found = {} THEN Absent ELSE Max(Stamps(<<Max(found), id>>))]

\* Mutant: a second early.
IsBackupDueEarly(latest, freq, t) ==
    IF latest = Absent THEN TRUE ELSE t + 1 >= latest + freq

\* isBackupDue.
IsBackupDue(latest, freq, t) ==
    IF latest = Absent THEN TRUE ELSE t >= latest + freq

-----------------------------------------------------------------------------
(* The pass of an engine.                                                  *)

Steps == {"copy", "copying", "dropFailed", "gzip", "zipping", "drop",
          "discard", "promote", "unlink", "link", "swap"}
Resting == {"idle", "done"}

NoEntry == [label |-> <<>>, src |-> NoPath, dir |-> NoPath, freq |-> 0,
            gz |-> FALSE]

Job == [pc : Resting \cup {"loop"} \cup Steps,
        at : Time,                        \* the time the pass was fired
        took : SUBSET Entries,            \* the entries of the pass (history)
        todo : SUBSET Entries,            \* those not yet visited
        seen : [IDs -> Time \cup {Absent}], \* the scan of the directories
        cur : Entries \cup {NoEntry},     \* the entry being copied
        got : Content,                    \* the dump of cur, once there
        ok : BOOLEAN,                     \* compressFile returned no error
        since : 0 .. MaxEvents,           \* events before the pass (history)
        failed : BOOLEAN,                 \* an entry returned an error
        cancelled : BOOLEAN]              \* ctx of the pass is done

IdleJob == [pc |-> "idle", at |-> 0, took |-> {}, todo |-> {},
            seen |-> [id \in IDs |-> Absent], cur |-> NoEntry,
            got |-> Partial, ok |-> TRUE, since |-> 0, failed |-> FALSE,
            cancelled |-> FALSE]

TypeOK ==
    /\ now \in Time
    /\ spent \in 0 .. MaxEvents
    /\ untidy \in BOOLEAN
    /\ config \in Configs
    /\ contents \in [Sources -> SUBSET Time]
    /\ pool \in [Jobs -> [Sources -> Conn \cup {Absent}]]
    /\ job \in [Jobs -> Job]
    /\ \A j \in Jobs : job[j].pc \in Steps =>
            job[j].cur \in Entries /\ Active(job[j].cur)
    /\ staged \subseteq (Jobs \X IDs \X Time)
    /\ part \in [Name -> Content \cup {Absent}]
    /\ snap \in [Name -> Content \cup {Absent}]
    /\ ltmp \in [Place -> Linked \cup {Absent}]
    /\ link \in [Place -> Linked \cup {Absent}]

Init ==
    /\ now = 0
    /\ spent = 0
    /\ untidy = FALSE
    /\ config \in Configs
    /\ contents = [s \in Sources |-> {}]
    /\ pool = [j \in Jobs |-> [s \in Sources |-> Absent]]
    /\ job = [j \in Jobs |-> IdleJob]
    /\ staged = {}
    /\ part = [n \in Name |-> Absent]
    /\ snap = [n \in Name |-> Absent]
    /\ ltmp = [p \in Place |-> Absent]
    /\ link = [p \in Place |-> Absent]

\* An injected event, and a step without one.
Inject(kind) ==
    /\ kind \in Events
    /\ spent < MaxEvents
    /\ spent' = spent + 1
    /\ untidy' = (untidy \/ kind \in {"crash", "remove"})
NoEvent == UNCHANGED <<spent, untidy>>

cur(j) == job[j].cur
File(j) == NameOf(cur(j), job[j].at)
At(j) == PlaceOf(cur(j))
Dump(j) == <<j, BackupID(cur(j)), job[j].at>>

Goto(j, label) == job' = [job EXCEPT ![j].pc = label]

\* handleFile returns, its deferred Close hands the connection back to the
\* pool, and handle goes on with the next entry.
EndEntry(j, err) ==
    /\ job' = [job EXCEPT ![j].pc = "loop",
                          ![j].todo = @ \ {cur(j)},
                          ![j].cur = NoEntry,
                          ![j].got = Partial,
                          ![j].failed = @ \/ err]
    /\ pool' = [pool EXCEPT ![j][cur(j).src].used = now]

\* handle: the entries are read once and the directories scanned once, before
\* the first entry.  A configuration without entries makes no pass.
Fire(j) ==
    /\ job[j].pc \in Resting
    /\ config[j] # {}
    /\ \E bad \in SUBSET Dirs :
        /\ IF bad = {} THEN NoEvent ELSE Inject("scan")
        /\ job' = [job EXCEPT ![j] =
                    [IdleJob EXCEPT !.pc = "loop", !.at = now,
                                    !.took = config[j], !.todo = config[j],
                                    !.since = spent,
                                    !.seen = Scan(config[j], bad)]]
    /\ UNCHANGED <<envVars, pool, fileVars>>

\* Mutant: the engine gives up after a pass with an error.
FireUnlessFailed(j) == ~job[j].failed /\ Fire(j)

StartPass(j) == Fire(j)

\* Mutant: a pass that is cancelled returns no error.
AbortPassQuietly(j) ==
    /\ job[j].pc = "loop" /\ job[j].todo # {} /\ job[j].cancelled
    /\ job' = [job EXCEPT ![j].pc = "done", ![j].todo = {}]
    /\ NoEvent
    /\ UNCHANGED <<envVars, pool, fileVars>>

\* Step 0: the context is checked before every entry.  The errors collected
\* so far are dropped, but the pass does return one.
AbortPass(j) ==
    /\ job[j].pc = "loop" /\ job[j].todo # {} /\ job[j].cancelled
    /\ job' = [job EXCEPT ![j].pc = "done", ![j].todo = {}, ![j].failed = TRUE]
    /\ NoEvent
    /\ UNCHANGED <<envVars, pool, fileVars>>

EndPass(j) ==
    /\ job[j].pc = "loop" /\ job[j].todo = {}
    /\ Goto(j, "done")
    /\ NoEvent
    /\ UNCHANGED <<envVars, pool, fileVars>>

Due(j, e) == IsBackupDue(job[j].seen[BackupID(e)], e.freq, job[j].at)

Visiting(j, e) ==
    job[j].pc = "loop" /\ e \in job[j].todo /\ ~job[j].cancelled

\* Steps 1 to 3: a deactivated entry, or one that is not due.
SkipEntry(j, e) ==
    /\ Visiting(j, e)
    /\ Active(e) => ~Due(j, e)
    /\ job' = [job EXCEPT ![j].todo = @ \ {e}]
    /\ NoEvent
    /\ UNCHANGED <<envVars, pool, fileVars>>

\* Steps 4 and 5, and the open of the source: a missing directory or file,
\* a connection that cannot be made.
RefuseEntry(j, e) ==
    /\ Visiting(j, e) /\ Active(e) /\ Due(j, e)
    /\ Inject("stat") \/ Inject("open")
    /\ job' = [job EXCEPT ![j].todo = @ \ {e}, ![j].failed = TRUE]
    /\ UNCHANGED <<envVars, pool, fileVars>>

\* Mutant: the pooled connection keeps the read transaction of its first use.
OpenSourcePinned(j, e) ==
    /\ Visiting(j, e) /\ Active(e) /\ Due(j, e)
    /\ job' = [job EXCEPT ![j].pc = "copy", ![j].cur = e]
    /\ pool' = IF pool[j][e.src] = Absent
               THEN [pool EXCEPT ![j][e.src] =
                        [file |-> contents[e.src], used |-> now]]
               ELSE pool
    /\ NoEvent
    /\ UNCHANGED <<envVars, fileVars>>

\* poolConn: the idle connection of the pool when there is one, else a new one
\* to the file now at the path.
OpenSource(j, e) ==
    /\ Visiting(j, e) /\ Active(e) /\ Due(j, e)
    /\ job' = [job EXCEPT ![j].pc = "copy", ![j].cur = e]
    /\ pool' = IF pool[j][e.src] = Absent
               THEN [pool EXCEPT ![j][e.src] = [file |-> Live, used |-> now]]
               ELSE pool
    /\ NoEvent
    /\ UNCHANGED <<envVars, fileVars>>

\* What a read through the connection of job j to source s returns.
Read(j, s) == IF pool[j][s].file = Live THEN contents[s] ELSE pool[j][s].file

\* Strategy.Copy begins: the destination exists from here on.  VACUUM INTO
\* holds one read transaction from here and refuses a file that exists.
StartCopy(j) ==
    /\ job[j].pc = "copy"
    /\ ~(j \in VacuumJobs /\ ~cur(j).gz /\ part[File(j)] # Absent)
    /\ IF cur(j).gz THEN staged' = staged \cup {Dump(j)} /\ UNCHANGED part
                    ELSE part' = [part EXCEPT ![File(j)] = Partial]
                         /\ UNCHANGED staged
    /\ job' = [job EXCEPT ![j].pc = "copying",
                          ![j].got = [data |-> Read(j, cur(j).src),
                                      whole |-> FALSE]]
    /\ NoEvent
    /\ UNCHANGED <<envVars, pool, snap, ltmp, link>>

\* Copy returns nil.  The online backup restarts when the source changes under
\* it, so it ends with the content of its last step.
FinishCopy(j) ==
    /\ job[j].pc = "copying"
    /\ LET d == IF j \in VacuumJobs THEN job[j].got.data
                                    ELSE Read(j, cur(j).src)
       IN  IF cur(j).gz
           THEN /\ job' = [job EXCEPT ![j].pc = "gzip", ![j].got = Whole(d)]
                /\ UNCHANGED part
           ELSE /\ Goto(j, "promote")
                /\ part' = [part EXCEPT ![File(j)] = Whole(d)]
    /\ NoEvent
    /\ UNCHANGED <<envVars, pool, staged, snap, ltmp, link>>

\* Copy returns an error: any failure, a context that is done, or VACUUM INTO
\* finding the destination there already.
FailCopy(j) ==
    /\ \/ /\ job[j].pc \in {"copy", "copying"}
          /\ Inject("copy")
       \/ /\ job[j].pc \in {"copy", "copying"} /\ job[j].cancelled
          /\ NoEvent
       \/ /\ job[j].pc = "copy" /\ j \in VacuumJobs /\ ~cur(j).gz
          /\ part[File(j)] # Absent
          /\ NoEvent
    /\ Goto(j, IF cur(j).gz THEN "dropFailed" ELSE "discard")
    /\ UNCHANGED <<envVars, pool, fileVars>>

\* compressFile creates the destination and copies into it.
StartGzip(j) ==
    /\ job[j].pc = "gzip"
    /\ part' = [part EXCEPT ![File(j)] = Partial]
    /\ Goto(j, "zipping")
    /\ NoEvent
    /\ UNCHANGED <<envVars, pool, staged, snap, ltmp, link>>

FinishGzip(j) ==
    /\ job[j].pc = "zipping"
    /\ job' = [job EXCEPT ![j].pc = "drop", ![j].ok = TRUE]
    /\ part' = [part EXCEPT ![File(j)] = job[j].got]
    /\ NoEvent
    /\ UNCHANGED <<envVars, pool, staged, snap, ltmp, link>>

\* The flush in the deferred gzipWriter.Close, or destFile.Close, fails: the
\* error is logged, compressFile returns nil.
LoseTail(j) ==
    /\ job[j].pc = "zipping"
    /\ Inject("close")
    /\ job' = [job EXCEPT ![j].pc = "drop", ![j].ok = TRUE]
    /\ UNCHANGED <<envVars, pool, fileVars>>

\* Mutant: the error of the copy into the gzip stream is ignored as well.
FailGzipIgnored(j) ==
    /\ job[j].pc \in {"gzip", "zipping"}
    /\ Inject("gzip")
    /\ job' = [job EXCEPT ![j].pc = "drop", ![j].ok = TRUE]
    /\ UNCHANGED <<envVars, pool, fileVars>>

FailGzip(j) ==
    /\ job[j].pc \in {"gzip", "zipping"}
    /\ Inject("gzip")
    /\ job' = [job EXCEPT ![j].pc = "drop", ![j].ok = FALSE]
    /\ UNCHANGED <<envVars, pool, fileVars>>

\* os.Remove(tempPath), whose own error is only logged: after a failed dump
\* the entry is over, after compressFile its error decides.
DropDump(j) ==
    /\ job[j].pc \in {"dropFailed", "drop"}
    /\ \/ NoEvent /\ staged' = staged \ {Dump(j)}
       \/ Inject("remove") /\ UNCHANGED staged
    /\ IF job[j].pc = "dropFailed"
       THEN EndEntry(j, TRUE)
       ELSE /\ Goto(j, IF job[j].ok THEN "promote" ELSE "discard")
            /\ UNCHANGED pool
    /\ UNCHANGED <<envVars, part, snap, ltmp, link>>

\* os.Remove(tempFinalPath) on every error path that may have left it.
Discard(j) ==
    /\ job[j].pc = "discard"
    /\ \/ NoEvent /\ part' = [part EXCEPT ![File(j)] = Absent]
       \/ Inject("remove") /\ UNCHANGED part
    /\ EndEntry(j, TRUE)
    /\ UNCHANGED <<envVars, staged, snap, ltmp, link>>

\* Mutant: the link is made before the rename.
PromoteAfterLink(j) ==
    /\ job[j].pc = "promote" /\ ~cur(j).gz
    /\ Goto(j, "unlink")
    /\ NoEvent
    /\ UNCHANGED <<envVars, pool, fileVars>>

\* The rename to the final name; compressed snapshots get no latest link.
Promote(j) ==
    /\ job[j].pc = "promote"
    /\ snap' = [snap EXCEPT ![File(j)] = part[File(j)]]
    /\ part' = [part EXCEPT ![File(j)] = Absent]
    /\ IF cur(j).gz THEN EndEntry(j, FALSE)
                    ELSE Goto(j, "unlink") /\ UNCHANGED pool
    /\ NoEvent
    /\ UNCHANGED <<envVars, staged, ltmp, link>>

\* Mutant: the .tmp stays after a failed rename.
FailPromoteUntidy(j) ==
    /\ job[j].pc = "promote"
    /\ Inject("rename")
    /\ EndEntry(j, TRUE)
    /\ UNCHANGED <<envVars, fileVars>>

FailPromote(j) ==
    /\ job[j].pc = "promote"
    /\ Inject("rename")
    /\ Goto(j, "discard")
    /\ UNCHANGED <<envVars, pool, fileVars>>

\* Mutant: no stale link is expected.
KeepStaleLink(j) ==
    /\ job[j].pc = "unlink"
    /\ Goto(j, "link")
    /\ NoEvent
    /\ UNCHANGED <<envVars, pool, fileVars>>

\* Mutant: the latest link itself is removed to make room for the new one.
RemoveLatestLink(j) ==
    /\ job[j].pc = "unlink"
    /\ link' = [link EXCEPT ![At(j)] = Absent]
    /\ ltmp' = [ltmp EXCEPT ![At(j)] = Absent]
    /\ Goto(j, "link")
    /\ NoEvent
    /\ UNCHANGED <<envVars, pool, staged, part, snap>>

\* linkLatest: remove a stale link, whatever the outcome,
RemoveStaleLink(j) ==
    /\ job[j].pc = "unlink"
    /\ \/ NoEvent /\ ltmp' = [ltmp EXCEPT ![At(j)] = Absent]
       \/ Inject("remove") /\ UNCHANGED ltmp
    /\ Goto(j, "link")
    /\ UNCHANGED <<envVars, pool, staged, part, snap, link>>

\* link(2) the snapshot under the temporary name, which must be free,
MakeLink(j) ==
    /\ job[j].pc = "link"
    /\ ltmp[At(j)] = Absent
    /\ ltmp' = [ltmp EXCEPT ![At(j)] =
                    [at |-> job[j].at, file |-> snap[File(j)]]]
    /\ Goto(j, "swap")
    /\ NoEvent
    /\ UNCHANGED <<envVars, pool, staged, part, snap, link>>

\* and rename(2) it over the latest link.
SwapLink(j) ==
    /\ job[j].pc = "swap"
    /\ link' = [link EXCEPT ![At(j)] = ltmp[At(j)]]
    /\ ltmp' = [ltmp EXCEPT ![At(j)] = Absent]
    /\ EndEntry(j, FALSE)
    /\ NoEvent
    /\ UNCHANGED <<envVars, staged, part, snap>>

\* Either of the last two fails: the error is returned and nothing undone.
FailLink(j) ==
    /\ \/ job[j].pc = "link" /\ ltmp[At(j)] # Absent /\ NoEvent
       \/ job[j].pc \in {"link", "swap"} /\ Inject("link")
    /\ EndEntry(j, TRUE)
    /\ UNCHANGED <<envVars, fileVars>>

-----------------------------------------------------------------------------
(* The environment.                                                        *)

Tick ==
    /\ now < MaxTime
    /\ now' = now + 1
    /\ NoEvent
    /\ UNCHANGED <<config, contents, pool, job, fileVars>>

\* The wall clock is set back.
SetBack ==
    /\ now > 0
    /\ Inject("clock")
    /\ now' = now - 1
    /\ UNCHANGED <<config, contents, pool, job, fileVars>>

\* The application changes its database, in place.
Commit(s) ==
    /\ now \notin contents[s] /\ Cardinality(contents[s]) < MaxChanges
    /\ contents' = [contents EXCEPT ![s] = @ \cup {now}]
    /\ NoEvent
    /\ UNCHANGED <<now, config, pool, job, fileVars>>

\* Another file is put at the source path (a restore, a redeploy): a pooled
\* connection keeps the old one.
ReplaceSource(s) ==
    /\ now \notin contents[s]
    /\ Inject("replace")
    /\ contents' = [contents EXCEPT ![s] = @ \cup {now}]
    /\ pool' = [j \in Jobs |-> [pool[j] EXCEPT ![s] =
                    IF @ # Absent /\ @.file = Live
                    THEN [@ EXCEPT !.file = contents[s]] ELSE @]]
    /\ UNCHANGED <<now, config, job, fileVars>>

\* The pool's cleaner closes a connection that was idle for IdleLimit.
CloseIdle(j, s) ==
    /\ pool[j][s] # Absent
    /\ ~(job[j].pc \in Steps /\ cur(j).src = s)
    /\ now >= pool[j][s].used + IdleLimit
    /\ pool' = [pool EXCEPT ![j][s] = Absent]
    /\ NoEvent
    /\ UNCHANGED <<envVars, job, fileVars>>

\* ClosePools, before the process ends: a job started later is a new process.
ClosePools(j) ==
    /\ job[j].pc \in Resting
    /\ \E s \in Sources : pool[j][s] # Absent
    /\ pool' = [pool EXCEPT ![j] = [s \in Sources |-> Absent]]
    /\ NoEvent
    /\ UNCHANGED <<envVars, job, fileVars>>

\* Shutdown cancels the context of a running pass.
Cancel(j) ==
    /\ job[j].pc \notin Resting /\ ~job[j].cancelled
    /\ Inject("cancel")
    /\ job' = [job EXCEPT ![j].cancelled = TRUE]
    /\ UNCHANGED <<envVars, pool, fileVars>>

\* SIGHUP: another configuration in the box.
Reload ==
    /\ Inject("reload")
    /\ config' \in Configs \ {config}
    /\ UNCHANGED <<now, contents, pool, job, fileVars>>

\* The process dies; only the files survive.
Crash ==
    /\ \E j \in Jobs : job[j].pc \notin Resting
    /\ Inject("crash")
    /\ job' = [j \in Jobs |-> IdleJob]
    /\ pool' = [j \in Jobs |-> [s \in Sources |-> Absent]]
    /\ UNCHANGED <<envVars, fileVars>>

-----------------------------------------------------------------------------
CopyStep(j) ==
    StartCopy(j) \/ FinishCopy(j) \/ FailCopy(j)

GzipStep(j) ==
    StartGzip(j) \/ FinishGzip(j) \/ LoseTail(j) \/ FailGzip(j) \/ DropDump(j)

PublishStep(j) ==
    \/ Discard(j) \/ Promote(j) \/ FailPromote(j)
    \/ RemoveStaleLink(j) \/ MakeLink(j) \/ SwapLink(j) \/ FailLink(j)

PassStep(j) ==
    \/ AbortPass(j) \/ EndPass(j)
    \/ \E e \in job[j].todo :
            SkipEntry(j, e) \/ RefuseEntry(j, e) \/ OpenSource(j, e)
    \/ CopyStep(j) \/ GzipStep(j) \/ PublishStep(j)

Environment ==
    \/ Tick \/ SetBack \/ Reload \/ Crash
    \/ \E s \in Sources : Commit(s) \/ ReplaceSource(s)
    \/ \E j \in Jobs : \/ ClosePools(j) \/ Cancel(j)
                       \/ \E s \in Sources : CloseIdle(j, s)

Next ==
    \/ \E j \in Jobs : StartPass(j) \/ PassStep(j)
    \/ Environment

Spec == Init /\ [][Next]_vars

\* The scheduler keeps firing the job, and a pass that has a step to take
\* takes it: no step of a pass waits for another process.
FairSpec ==
    /\ Spec
    /\ \A j \in Jobs : WF_vars(StartPass(j)) /\ WF_vars(PassStep(j))

-----------------------------------------------------------------------------
(* What the engine promises.                                               *)

\* A file under a final name is a complete database: the staging file, the
\* rename and every error path between keep a partial one out of sight of the
\* clients, which select files by name (engine.go, handleFile).
PromotedIsWhole == \A n \in Name : snap[n] # Absent => snap[n].whole

\* The latest link always resolves to one of the snapshots of its place, whole,
\* and to the one of its own time, however link, rename and crash interleave
\* (engine.go, linkLatest: "clients always observe a valid link").
LinkIsSnapshot ==
    \A p \in Place : link[p] # Absent =>
        /\ link[p].file.whole
        /\ snap[[dir |-> p[1], id |-> p[2], at |-> link[p].at,
                 gz |-> FALSE]] = link[p].file

\* Two snapshots of one place are as far apart as an entry of that place asks:
\* whatever fails or restarts in between, a pass never snapshots ahead of the
\* frequency (engine.go, step 3 of handle, from a scan made before the loop).
SnapshotsSpaced ==
    \A p \in Place : \A t, u \in Stamps(p) : t < u =>
        \E e \in Entries : Active(e) /\ PlaceOf(e) = p /\ u >= t + e.freq

\* A snapshot named t holds every change made to its source before t, also
\* those made while earlier copies ran and through a pooled connection: a
\* restore from it loses at most what came after the time in its name.
SnapshotCoversItsTime ==
    \A n \in Name : snap[n] # Absent =>
        \A e \in Entries : (Active(e) /\ PlaceOf(e) = <<n.dir, n.id>>) =>
            {t \in contents[e.src] : t < n.at} \subseteq snap[n].data

\* When no pass runs, no dump and no .tmp is left, whatever calls failed: every
\* error path removes what the pass had made (as long as the process did not
\* crash and os.Remove itself worked).
NothingLeftBehind ==
    (~untidy /\ \A j \in Jobs : job[j].pc \in Resting) =>
        staged = {} /\ \A n \in Name : part[n] = Absent

\* What an earlier crash or failure left in the directories never makes a later
\* pass of the online job fail: an error needs a cause within the pass.
FailureHasItsCause ==
    \A j \in Jobs \ VacuumJobs : job[j].failed => spent > job[j].since

\* A pass that ends without an error leaves none of the entries it read due at
\* its time: an entry is passed over only for a snapshot that is there, and one
\* whose copy, rename or link did not come about makes the pass fail (engine.go,
\* the errors joined by handle).
CleanPassServes ==
    \A j \in Jobs : (job[j].pc = "done" /\ ~job[j].failed) =>
        \A e \in job[j].took : Active(e) =>
            \E t \in Stamps(PlaceOf(e)) : ~IsBackupDue(t, e.freq, job[j].at)

\* An entry that is due by what its directory holds.
NowDue(j, e) ==
    /\ e \in config[j] /\ Active(e)
    /\ \A t \in Stamps(PlaceOf(e)) : now >= t + e.freq

\* With the failures at an end and the scheduler firing, a due entry is
\* backed up or taken out of the configuration: no leftover file, stale
\* connection or failed earlier pass keeps it from its snapshot for good.
DueIsServed ==
    \A j \in Jobs : \A e \in Entries : NowDue(j, e) ~> ~NowDue(j, e)

-----------------------------------------------------------------------------
(* The abstract store that the clients rely on.                            *)

Store == INSTANCE SnapshotStore WITH
            published <- [p \in Place |-> Stamps(p)],
            latest <- [p \in Place |->
                        IF link[p] = Absent THEN Absent ELSE link[p].at]

\* The engine implements the store: snapshots appear one at a time, in time
\* order, and are never taken back; the latest link, once there, never
\* disappears and only ever moves to what is then the newest snapshot.
ImplementsStore == Store!Spec
=============================================================================
