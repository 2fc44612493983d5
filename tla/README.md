# A verification development for restinpieces-backup

TLA+ modules that model the backup jobs and daemons of this repository, TLC
configurations that check them on small instances, and proofs that TLAPS checks.
Paths and line numbers are those of the Go source under `src/`.

## 1. The system

The repository is a set of programs around one task: getting SQLite databases
from the machine that writes them to machines that keep copies. They do not call
each other. They meet in **directories** (snapshots, downloads), in an **S3
bucket**, on **TCP or SSH connections**, and in a **configuration box** that a
reload swaps under a running process.

```
 live db ──copy──▶ snapshot dir ──upload──▶ S3 bucket ──download──▶ downloads
   │      (local copy engine)   │  (S3 upload)      (S3 download, recover)   │
   │                            ├──rsync / sftp──▶ pulled copies             ▼
   └──origin daemon ◀──pull── replica daemon ──▶ replica file         data/app.db
```

### 1.1 Inventory

**Local copy engine** (`internal/localcopy`).
- State: destination directories (snapshots `<id>-<time>.bck[.gz]`, `.tmp` files,
  the hard link `latest-<id>`), dumps in the temporary directory, a pool of
  connections per source path.
- Operations: a pass (`handle`): scan the directories, decide per entry whether a
  backup is due, dump, compress, promote by rename, swing the link. `ClosePools`.
- Interaction: fired by the scheduler or by a one-shot; its strategy copies from
  the live database while the application writes. Its directories are read by
  S3 upload, rsync and sftp, with no lock.
- Hard: about ten system calls per entry, each of which may fail or be the last one
  before a crash; leftovers of an earlier pass; names of one second's resolution;
  pooled connections to replaced files; reload between passes.
- Correct when: everything under a final name is a complete database; the link
  always names a snapshot; snapshots are spaced by the frequency and hold what their
  time says; nothing is left behind; a due entry is served in the end.

**Online backup and VACUUM INTO strategies** (`onlineapi`, `vacuum`).
- State: none between passes; SQLite's backup object, the two tuning fields that `Copy` reads
  from the configuration box for itself.
- Operations: `Copy`, pages in steps with pauses that start over when the source changes;
  or one statement in one read transaction that refuses an existing target.
- Hard: writers at any step, a source that grows and shrinks, a reload between the pass that
  selects an entry and the copy that reads its tuning.
- Correct when: what it returns nil for is one state of the source, of the moment it ended;
  it ends.

**Origin daemon** (`sqlitersync/origin`, `sqlitersync/label.go`).
- State: listener, accept loop, a goroutine per connection, a group that joins them.
- Operations: accept, label preamble, lookup, echo or rejection, sync, `Stop`.
- Hard: silent and vanishing clients, stop and reload between any two steps,
  resets that overtake data, two protocols on one byte stream.
- Correct when: the shutdown waits for every handler and still ends; preamble and sync
  do not mix; answers follow the configuration; an undisturbed client is answered.

**Replica client** (`internal/sqlitersync/replica`). One pull: dial (locally or over
SSH), preamble, sync, cancellation by closing the connection.

**Replica daemon** (`sqlitersync/replica`, `cmd/sqlite-rsync/replica/daemon`).
- State: the entries it accepted at start, one goroutine, a ticker, the modification times of the replica files.
- Operations: first round, round per tick, due check, pull with a timeout, `Stop`.
- Hard: pulls longer than the interval, dropped ticks, tick and stop ready at once.
- Correct when: no entry is forgotten; after `Stop` it ends.

**S3 upload** (`s3/upload`, `s3/key.go`).
- State: none of its own between passes; the files it selects and the bucket.
- Operations: select the file, `HEAD`, measure the ciphertext if the provider wants a
  length, `PUT` (directly, or through a pipe with a goroutine that encrypts).
- Hard: the file changes between stat, `HEAD` and open; lost answers; two ends of a
  pipe that wait for each other; files still being written.
- Correct when: an object holds what its key says; what counts as done is stored;
  every backup arrives.

**S3 download** (`s3/download`).
- State: the downloads, whose names and times are all it remembers; hidden temp files.
- Operations: due check, list, get, create, copy, rename.
- Hard: crash between any two steps; `min_interval` over restarts; label prefixes.
- Correct when: a partial file never looks like a download; the interval is kept; an
  entry that passed without an error has its backup on disk.

**Recover command** (`cmd/s3/download/recover`).
- State: the downloads, the files decrypted and decompressed beside them, `data/app.db`.
- Operations: download pass, decrypt, decompress, find the application's database, move.
- Hard: products are written under their final names; runs are repeated after failures;
  errors of single files are only logged; uploads go on meanwhile.
- Correct when: what is installed is a complete application database and the newest, no
  backup that arrived is lost, and running again gets there.

**rsync pull** (`rsync`, `cmd/rsync`).
- State: the local directory, a child process or an SSH session, the daemon's ticker.
- Operations: start-up, spawn or session, transfer, wait, the deferred clean-up, verification; in
  the daemon again at every tick, until `Stop`.
- Interaction: reads a backup directory while a copy job publishes and moves links in it.
- Hard: the receiver replaces the good copy before anything is verified; the server may fail, skip
  a file, or end with an error after the transfer looked complete; a process or a session
  must be released on every path.
- Correct when: a run without an error brought whole and current databases; between runs
  nothing is open; `Stop` ends the daemon.

**sftp pull** (`cmd/sftp/oneshot`). One run: list, take the greatest name, open, copy, decompress,
check. Correct when a run without an error brought the newest snapshot of the id it picked.

**SSH transport** (`ssh`). Connections and sessions for the pull clients and the replica.
**Configuration** (`config`): decides in which environments the rsync commands start.

**Not modelled**: the one-shot and embedded commands of the copy jobs (`cmd/onlineapi`, `cmd/vacuum`), and
the SQLite and landlock helpers. Reasons are in section 7.

### 1.2 Hazards

`PROJECT.json` lists what is hard to test here, each at its line with the properties
aimed at it, or the reason there is none. They fall into a few families: a crash
or a failing call between two file-system steps (the engine, downloads, recover);
something checked and used later (due checks, the file that upload selects, pooled
connections, the list of a pull); a configuration read twice (the online copy); a source that
changes under a copy; a shutdown that must both wait and end (the daemons, the pipe); time
compared at the wrong end (`isSyncDue`); names that stand for two things (backup ids,
label prefixes, `.tmp` files, the greatest name of a directory).

## 2. Modules

| module | models | kind |
|---|---|---|
| `LocalCopy` | a pass of the engine with either strategy, crash, cancel, reload | component |
| `SnapshotStore` | what a backup directory promises its clients | abstract |
| `LocalCopyProofs` | theorems about `LocalCopy` | proofs |
| `AtomicCopy` | what the engine takes a copy for | abstract |
| `OnlineBackup` | `Copy` of the online strategy, page by page | component |
| `OnlineBackupProofs` | theorems about `OnlineBackup`, and that it implements `AtomicCopy` | proofs |
| `OriginSync` | origin daemon composed with client runs over connections | composition |
| `OriginProofs` | theorems about `OriginSync` | proofs |
| `ReplicaDaemon` | start-up and schedule of the replica daemon | component |
| `ReplicaProofs` | theorems about `ReplicaDaemon` | proofs |
| `S3Bucket` | bucket, keys and their order, clock, injected failures | shared state |
| `S3Upload` | an upload pass, the pipe, the files other programs write | component |
| `S3Download` | a download pass | component |
| `S3Archive` | upload on one machine, download on another, one bucket | composition |
| `Archive` | what the two S3 jobs promise together: downloads in the order of their times | abstract |
| `DownloadProofs` | lemmas about a step of `S3Download`, shared by the next two | proofs |
| `S3Proofs` | theorems about `S3Archive`, and that it implements `Archive` | proofs |
| `Recover` | the recover command around a pass of `S3Download` | composition |
| `RecoverProofs` | theorems about `Recover` | proofs |
| `BackupDir` | a backup directory, filled as `SnapshotStore` promises, and the puller's own | shared state |
| `PullClient` | start-up, SSH connection and outcome of the pull commands | shared state |
| `RsyncPull` | the rsync run over a child or a session, verification, daemon | component |
| `SftpPull` | the sftp one-shot | component |
| `PullClients` | a pull command against the directory | composition |
| `PullProofs` | theorems about `PullClients` | proofs |
| `MC*` | small instances for TLC | instances |

`PROJECT.json`'s `map` gives the lines of each definition. The correspondence:

**`LocalCopy`**. `now` is the second of the wall clock used in file names; a database is the
set of times at which it was changed, with `whole` false for a dump in the making or a
cut gzip stream. `snap`, `part`, `ltmp`, `link` and `staged` are the files under a final
name, `<final>.tmp`, `latest-<id>.tmp`, `latest-<id>`, and the dumps in the temporary
directory. `pool` is the map of `*sql.DB`: a connection reads the file now at the path
(`Live`) or the one that was replaced. `job[j]` is the stack of the running pass. `Fire`
reads the configuration and scans; `SkipEntry`, `RefuseEntry`, `OpenSource` are the
guards of `handle`; `StartCopy`, `FinishCopy`, `FailCopy` the strategy;
`StartGzip` ... `DropDump` are `compressFile` and the clean-up after it; `Promote`,
`FailPromote`, `Discard` the rename and its error path; `RemoveStaleLink`, `MakeLink`,
`SwapLink`, `FailLink` are `linkLatest`. A name is a sequence of dash-separated segments,
because label and basename are joined by a dash and two pairs may join to one id. `took` is a
history variable: the entries the pass read at its start.

**`OnlineBackup`**. A page is the number of the write that last changed it, so that pages of two
states can be told apart. `Begin` is the engine that has found the entry due, `Open` the second
read of the box and `NewBackup`, `Probe` the `Step(0)` of `newModuloLogger`, `CopyPages` and `EndPause` the
loop, `FailStep` and `Abort` its two errors. `CopiedAfter` is SQLite's backup object, external: it starts
over when the source was written since its last step. With `AtomicCopy` as the middle, the page
loop refines the start and the end of a copy in `LocalCopy`.

**`OriginSync`**. A connection is two queues of messages; a side that closes with unread data
resets it. `Check` ... `CloseConn` are `handleConn` in its order; `Dial` ... `LoseServer` the
client run; the label is two writes, as in `label.go`. The sync library is external: rounds
of hashes and pages that look at the context at every message.

**`ReplicaDaemon`**. `Boot` is `main` with `readConfig`: a document whose entries share a file, or none of
which is active, is refused. Time passes only while the goroutine waits for its ticker or for a pull.
`Start`, `Skip`, `LeaveOut` (a stat that fails), `Pull`, `FinishPull`, `FailPull`, `StartTicker`, `EndRound`, `TakeTick`,
`TakeStop` follow `Run` and `syncRound`; the ticker's channel holds one tick.

**`S3Upload`, `S3Download`, `S3Archive`**. A key is label, pad and name; the pad counts the
modification time down so that the newest object is listed first. `up` and `dl` are the
stacks of the passes; `up.pipe` is the goroutine that encrypts; `flying` holds requests
that were given up and may still be carried out. `Replace`, `Stage`, `Finish`, `Prune` are the
programs that write and delete the files. `kept` and `held` are history variables. For `Archive` the store is
the keys of the bucket, and what an entry has pulled is the object (`ObjectOf`) of each of its downloads.

**`Recover`**. A file made beside a download has the download's key without `.age`, or with
`.db` for `.bck.gz`. `Make`, `Made`, `Spoil`, `FailMake` are `decryptOne` and
`decompressOne`; `Find` and `Move` are `findAppDB` and `moveAppDB`. Whether SQLite reads a cut
file as a database is left open (`MayRead`).

**`BackupDir`, `PullClient`, `RsyncPull`, `SftpPull`, `PullClients`**. A behaviour is one process running one of
the three commands. The directory is the abstract store of `SnapshotStore` (`Publish`, `Point`), with the
`.tmp` file in the making and, with the event `flaw`, a snapshot that a power loss left empty or
broken. A `latest-<id>.tmp` may be found too: for a moment, or after a crash until the next link (`Listings`).
`Startup` is `config.New` with its validations and the mains; `Dial` the SSH connection.
`NewSession` and `Spawn` start the server, `SendFile` ... `BreakTransfer` are the external transfer, one file
at a time, `CloseStdin`, `Wait` and `Close` the wait and the deferred functions of `SSHClient.Run` and
`LocalClient.Run`, `Verify` is `VerifyBackup`, `EndRun` ... `TakeStop` the daemon. `List` ... `Exit` are the sftp
one-shot; the order of names is `Key`. `silent` is a server that stops answering without closing.

**Failures** are injected: a kind must be in `Events` and a behaviour has at most
`MaxEvents` of them. A definition whose comment starts with "Mutant" is not part of the
specification: it is a variant of the next definition with a plausible bug, and shows
that a property notices it.

## 3. Runs

### 3.1 What each run shows

| run | configuration | result |
|---|---|---|
| `localcopy_store` | one job, online or vacuum, two copying entries of one source; any two failures, crashes, cancellations; an application that commits | passes |
| `localcopy_served` | the online job with every kind of event, reloads between a plain, a compressed and a deactivated entry; fairness | passes |
| `localcopy_tail` | closing the gzip stream may fail | violation (finding) |
| `online_backup` | three tunings, a source of up to three pages written three times, reloads, a failing call, cancellation; fairness | passes |
| `online_reload` | a reload may take the entry out | violation (finding) |
| `origin_sync` | two clients that want different databases, two rounds each, one event, `Stop` at any moment, three configurations | passes |
| `replica_schedule` | two entries of every mix of frequencies 0, 2, 3 and of files; files missing or 0 or 2 old; pulls of 0 to 2 units | passes |
| `s3_archive` | an encrypted file at a fixed path, with a required length, and a plain one under a prefix; the first pulled by another machine; one failure | passes |
| `s3_order` | files of one entry that are deleted, given up and uploaded late, so that an older one is stored after a newer one; pulled at any moment | passes |
| `s3_staging` | an upload prefix over the directory of a backup job | violation (finding) |
| `recover` | two labels, one of them the application's, any subset of four backups at first; four failures, uploads or further runs | passes |
| `pull` | the three commands over six directories of plain and compressed ids, two events | passes |

What the passing runs check:

- `localcopy_store`: `PromotedIsWhole`, `LinkIsSnapshot`, `SnapshotsSpaced`,
  `SnapshotCoversItsTime`, `NothingLeftBehind`, `FailureHasItsCause`, `CleanPassServes` (a pass
  that reports no error has left none of the entries it read due), and the refinement
  `ImplementsStore`: snapshots appear in time order and are never taken back, the link
  never disappears and only moves to what is then the newest snapshot.
- `localcopy_served`: `DueIsServed`, a due entry is backed up in the end.
- `online_backup`: the refinement `ImplementsAtomicCopy`, what is returned without an error is one
  state of the source, of the moment it ended; the action property `StepsGetOn`, a step that meets no
  write has more pages than before or ends the copy; `CopyEnds` under fairness.
- `origin_sync`: `DoneMeansQuiet`, `PreambleSeparated`, `AnswerMatchesConfig`,
  `UndisturbedIsAnswered` (what happens to the other client is no excuse: `disturbed` is kept for each
  connection), the action property `HandlersGetOn` (a handler never turns back, and waits
  for its client only under a deadline), and `StopEnds` under fairness.
- `replica_schedule`: `NeverLate`, and `StopEnds` under fairness.
- `s3_archive`: `ObjectCoversItsPad`, `DoneIsStored`, `PartialNeverLooksComplete`,
  `MinIntervalKept`, `ServedIsOnDisk`, and `BackupArrives` under fairness.
- `s3_order`: the refinement `ImplementsArchive`: an entry's downloads arrive in the order of their times,
  none twice, each of an object that the bucket holds.
- `recover`: `InstalledIsWhole`, the action properties `InstallsNewest`, `NothingLost` (no step takes
  the last complete file of a backup away) and `CleanRunRecovers` (a run without an error succeeds,
  whatever cut files those before it left), and `RunningAgainRecovers`
  under fairness.
- `pull`: `CleanRunIsCurrent`, a run without an error brought whole and current databases;
  `NothingLeftOpen`; `StopEnds` under fairness.

`localcopy_store`, `replica_schedule` and `pull` also check `TypeOK`, which says there what an entry in hand, a
ticker and an accepted interval must be. The type invariants of the other modules are proved for every
value of the constants (`TypeCorrect`, section 6), and no run repeats them.

### 3.2 Bounds, and why they are enough

- *`localcopy_store`: `MaxTime` 1, two events.* Two passes in two seconds are what it takes for
  a second snapshot to meet the leftovers of the first; two events are a crash (or a failure)
  and a failure of the clean-up after it. Entries of frequency 1 and 2 in one directory
  make one due and the other not. The two jobs do not run side by side here: they share
  no file (they write different ids, `OneWriterAssumption`) and no pool, and the proofs cover
  any number of jobs that interleave (lemma `Isolated`).
  Left out of this run's events: `close`, which has a run of its own; `replace`, which a pooled
  connection does not follow (section 5); the
  unreadable directory, which the code documents as "treated as due" and which then
  breaks the spacing by design; a reload, which changes what a name stands for; the
  clock being set back, after which a name may be used twice.
  `localcopy_served` has them all; and the proofs of `LinkIsSnapshot`, `SnapshotsSpaced` and
  `ImplementsStore` allow reloads and a clock set back at any point.
- *`online_backup`: three pages, three writes.* A copy of one page at a time has a state before,
  between and after its steps; three writes fall into every mix of them, and grow and shrink the
  source. The proofs have no bound.
- *`origin_sync`: two clients, one event.* Handlers share nothing but the configuration and
  the shutdown, so two of them show every pairwise interleaving; stop, deadline and silence are
  not events and always possible, and one more (reload, cancellation, a vanished
  client, a failing sync) comes between any two steps. Two rounds are a first and a last one. The
  safety properties are proved for any number of clients, events and rounds.
- *`replica_schedule`: `MaxTime` 10.* Several periods of both frequencies, and pulls as long
  as the smaller one, so that ticks are dropped. The bound `NeverLate` states is proved for any
  number of entries.
- *`s3_archive`: `MaxWrites` 2, `MaxTime` 1.* Two files and two seconds: a file is replaced within
  the second and in the next one. One failure of each kind at each step.
- *`s3_order`: one entry, two files, two seconds, two events.* Two objects are the least that can come
  in the wrong order, and deleting the newer file or giving up its request is one event; the second
  is a failure or a crash of either job. The proof has no bound.
- *`recover`: four backups, four events.* For the application an older compressed backup and
  a newer plain one, both encrypted, and two of another database whose label has the first as
  a prefix; four events let two runs fail before the last one.

- *`pull`: two ids, `MaxTime` 2, two events.* An id before and one after the links in the order of
  names, plain or compressed; a second snapshot moves a link during a run or between two. Two events
  are a failure of the server and one of the clean-up, or a spoilt file and a failed run. The one-shots run
  over both ids, the daemon, whose runs repeat without end, over one.

Deadlock checking is off where the modelled system does stop: a daemon that has ended, a
command that is done, a job whose clock has reached its bound with nothing due.

### 3.3 Fairness

Weak fairness, with one exception, of steps that no other process can hold up:

- engine: the scheduler keeps firing a job, and a pass takes its next step. The
  environment (clock, application, failures) has no fairness.
- origin: the daemon's own goroutines. Clients have none: they may stay silent for
  ever, and `StopEnds` holds because a deadline is always among a handler's steps.
- replica: the goroutine, including the end of a pull: `sync_timeout` bounds it.
- S3: the passes, the goroutine that encrypts, the program that finishes a staged file,
  and the clock.
- recover: the command goes on, and the operator runs it until it succeeds, which the usage
  asks for.

- online backup: the goroutine of the pass, and the timer of a pause. Writers have none, and
  write finitely often: a source that is written for ever may keep a copy from ending.
- pull: the goroutine of the command, and the server process as long as it answers. *Strong*
  fairness of `TakeStop`: a `select` picks among its ready cases at random, so with a tick ready
  each time the stop is not continuously enabled, but is taken in the end.

Failures are finite (`MaxEvents`): the liveness properties say what happens once they are over.

## 4. Findings

Each is a run that ends in a violation of what the repository says of itself.

1. `localcopy_tail` (`internal/localcopy/engine.go:478`). `compressFile` closes the gzip writer and
   the destination in deferred functions that only log an error. A stream without its last
   block is promoted as a snapshot by a pass that returns nil.
2. `online_reload` (`onlineapi/onlineapi.go:51`). `Copy` reads the configuration a second time and does
   not check that its entry is still there. With zero pages per step it copies nothing,
   reports more, and goes on without a pause until the pass is cancelled.
3. `s3_staging` (`s3/upload/handler.go:170`). The newest file under a prefix may be the `.tmp` that a
   backup job is writing. It is uploaded cut, and the bucket lists it first.

## 5. Observations without a run

Behaviours of the code that the models contain and that no run shows; the properties are stated
so that they allow them.

- *An entry may be pulled at every second tick.* The due check of the replica daemon
  (`sqlitersync/replica/daemon.go:177`) compares the time of a tick with the end of the last pull. An entry whose
  frequency is the interval is not due at the next tick, and is pulled at every second one, though
  README.md:133 says "every frequency". `NeverLate` allows one tick and the timeouts of a round on top.
- *A label that extends another shares its names.* With the labels `app` and `app-1` in one directory
  the pattern `s3download-app-*.db` also matches the databases of `app-1`. A pad starts with 25, so they
  come first, and the path that `findDbPaths` (`cmd/s3/download/recover/main.go:367`) gives for `app` is the database of
  `app-1`: that of `app` is downloaded and readable, is never looked at, and the command fails each time
  it is run. `Prefixed` of `Recover` says which labels extend which. With the order of `app` and `app-logs`, as in
  `Recover.cfg`, `CleanRunRecovers` holds; with the labels ordered as here TLC finds it violated in a
  run in which nothing fails. The theorem `CleanRunsRecover` has the order as its hypothesis.
  The download job looks for its last download by the same prefix (`s3/download/handler.go:179`): a
  download of `app-logs` makes `app` wait for its `min_interval`. `IsDue` of `S3Download` says so.
- *A link may stay behind.* A crash between the promotion and the link
  (`internal/localcopy/engine.go:333` and `:347`) leaves the link on an older snapshot, or absent. The
  entry is not due any more, so the next passes do not repair it; the next snapshot does.
- *A pooled connection may stay on a replaced source.* A connection used more often than its idle
  limit (`engine.go:138`) never closes, and goes on reading the file that a restore replaced (`engine.go:449`).
- *A rejection may be lost.* With nothing to serve the origin rejects and closes before it reads the
  label (`sqlitersync/origin/daemon.go:205`), and the client's second write (`sqlitersync/label.go:38`) may meet
  the reset. `UndisturbedIsAnswered` excepts a run during which nothing was served.
  The same rejection is written before any deadline is set, though `handleConn` says that no I/O is ever
  unbounded (`daemon.go:211-212`). One short write into a fresh connection does not wait, and
  `HandlersGetOn` asks for a deadline wherever a handler reads or streams.
- *A silent SSH server may keep the rsync daemon.* Neither the handshake of `ssh.Dial` nor the wait for
  the end of a session looks at the context, though the daemon's loop does
  (`cmd/rsync/daemon/daemon.go:60`). `StopEnds` of `PullClients` excepts it.
- *A good pull may be reported as failed.* The input of a session is closed after the transfer; when
  the server has ended already, that close may return an error.
- *sftp takes the greatest name for the newest.* Over all ids, links and `.tmp` files. A link sorts
  by its prefix, so it may hide newer snapshots; it always decompresses, so a plain snapshot fails; a
  second id hides the first. The run then ends with an error, or brings the newest snapshot of the
  id it picked, which is what `CleanRunIsCurrent` asks.
- *A file that is replaced between measuring and `PUT`.* The request announces the length of the first
  encryption (`s3/upload/handler.go:242`), or of the file it opened. A body of another length fails the
  request, and the next pass tries again; but of a longer one the server may have got as much as was
  announced, under the key of the file that was selected. `Differs` and `Received` of `S3Upload` say so.
- *A file that cannot be looked at counts as no file.* An error of `os.Stat`, `ReadDir` or `Info`
  (`s3/upload/handler.go:148`, `:159`, `:173`) leaves out the entry, or a file of it, without an error of
  the pass; an older file of the prefix may be uploaded instead. `SkipUpload` and `Select` do the same.
- *A label longer than the protocol allows* (`sqlitersync/label.go:67`) passes start-up and fails every
  pull at the client. *An `Accept` error that persists* (`sqlitersync/origin/daemon.go:149`) makes the loop spin.
- *A first pull that fails* after it created the replica file leaves a fresh modification time
  (`sqlitersync/replica/daemon.go:128`): the next try comes after one frequency. `FailPull` has both outcomes,
  and `NeverLate` counts tries; a round in which the file cannot be looked at (`LeaveOut`) is one.

## 6. Proofs

No proof uses anything but the named assumptions on the constants, which TLC evaluates on the
instances, and the hypotheses a theorem states. Safety only: liveness under fairness is out of the prover's reach and stays with TLC.

**`LocalCopyProofs`**, for any jobs, sources, configurations, bounds and failures:

- `Inductive`: `Spec => []IInv`, the strengthened invariant below.
- `TypeCorrect`: `Spec => []TypeOK`. `TypeOK` includes that a pass that copies has an active
  entry in hand.
- `WholeUnlessCloseFails`: with `"close"` not among the failures, `Spec => []PromotedIsWhole`. Together
  with `localcopy_tail`: the unchecked close is the *only* way to an incomplete snapshot.
- `LatestIsWhole`: a latest link, once there, names a complete database, even when closing a gzip
  stream may fail, because only plain snapshots are linked.
- `NothingStays`: `Spec => []NothingLeftBehind`, and `ErrorsHaveCauses`: `Spec => []FailureHasItsCause`. Neither
  has a hypothesis.
- `WholeHoldsItsTime`, under `Dated` (no source replaced under a pooled connection, no clock set back: a
  name and its content are otherwise of different times or files): every complete snapshot holds what
  was written before its time to one of the active sources of its place. A place may stand for several
  sources, and closing a gzip stream may fail.
- `SnapshotsHoldTheirTime` (`SnapshotCoversItsTime`), under `Trusted`: `Dated`, a place stands for one source
  (`OneSource`), and no failing close. It follows from the two before it.
- `LatestIsSnapshot` (`LinkIsSnapshot`), `FrequencyKept` (`SnapshotsSpaced`) and `Refinement` (`Spec => ImplementsStore`),
  under `Orderly` and with readable directories (`"scan"` not among the events): within a job an
  id belongs to one entry, and an active frequency is at least a second. Crashes, reloads, cancellations,
  replaced sources and a clock set back are all allowed.
- `CleanPasses` (`CleanPassServes`), under `Orderly` alone: an unreadable directory is allowed too, since
  it only makes an entry be copied once more.

`Orderly` and `OneSource` describe the usual deployment; the code enforces neither. They are
hypotheses of these theorems and not assumptions on the constants. The entries of `MCLocalCopy` meet
both, so its runs check the same formulas under the same hypotheses.

Assumptions: `BoundsAssumption`, `ConfigAssumption`, `AbsentAssumption` (types of the constants), and
`OneWriterAssumption`: no two strategies write one backup id into one directory. That is the
deployment the README describes, an entry belonging to one strategy, and it is not
enforced by the code.

`PromotedIsWhole` is not inductive. It says nothing of the `.tmp` file about to be renamed, and the
file may have been written several steps before. `IInv` adds, per job (`PassInv`): the entry in hand
was offered by a configuration the job can have read, and its connection is in the
pool; the gzip steps are reached for compressed entries only and the link steps for plain
ones; the dump handed to gzip is whole; and at `promote` (or `drop` after a successful
compression) the `.tmp` file is there and sound, where *sound* means complete, except
for a compressed file when closing may fail. At `unlink` and `link` the snapshot is there. For the
directory: `SnapsSound` and `LinksWhole`. `Isolated` shows that two jobs at work have different `.tmp`
names and places, from `OneWriterAssumption`; `AfterStep` reduces a step of a pass to its effect on its
own job and files; then there is one lemma per action, and `EnvironmentStep`, `CancelStep`, `CrashStep`
for the rest. A reload is why entries are *offered* and not simply those of `config`.

The other properties each add one invariant to `IInv`:

- `OwnedInv`: as long as no crash and no failed removal came, every dump and `.tmp` file belongs to the
  entry in hand of a pass that still has the step ahead which renames or removes it.
- `BlameInv`: in every state that leads a pass of the online job to an error, an event since the start of
  that pass is on record.
- `CoverInv`: a pooled connection is to the source that is there, and what was copied was read
  no earlier than the second in the name. The name is taken before the connection is asked for; the
  other order would break it.
- `WorkInv`, for `CleanPasses`: the entries a pass has gone through are served by a snapshot that is there,
  or the pass has failed; no snapshot is ever taken back (`Growing`), so what the scan found stays true,
  and what is about to be linked is there.
- `StoreInv`: what the scan saw is still the newest snapshot of every entry the pass has ahead
  (`SeenInv`; `ScanNewest` for the scan itself, and nobody else writes there by `OneWriterAssumption`), and
  links name snapshots (`LinksNamed`). Then a promoted name is later than every other of its place by the
  frequency (`PromoteLater`). For the refinement `Promote` is a `Publish` and `SwapLink` a `Point` of
  `SnapshotStore`; every other action is a stutter.

**`OnlineBackupProofs`**, for any number of pages, writes and tunings: `TypeCorrect`, `Refinement`
(`Spec => ImplementsAtomicCopy`) and, under `Tuned`, `LoopGetsOn` (`StepsGetOn`). The invariant has what
SQLite keeps of a copy (`CopiedInv`: pages of one state, unless the source was written since, when the
next step starts over), that nothing is kept before the first step, and that the destination is empty
until the last page is copied. `LoopGetsOn` is the variant behind `CopyEnds`: between two writes a copy
has no more steps than pages. `Tuned` says that the entry stays in the configuration and asks for some
pages; `online_reload` shows what happens without it.

**`ReplicaProofs`**, for any entries, frequencies, files, timeouts and lengths of pulls: `TypeCorrect`
and `NeverForgotten` (`NeverLate`). `NeverLate` speaks of the moments at
which the daemon waits, and needs what happened since the last of them. `Inv` adds `Paced` (how late a
round can be when the entries before the one in hand have been visited: one timeout each), `Ticking` (the
next firing is at most an interval ahead, and at most an interval and a round after the start of the
last one), `Owned` (a file belongs to one entry, from `readConfig`, and is never newer than the last
try of it) and `Visited` (an entry this round has been at was tried less than a frequency before its
start, or just now).

**`OriginProofs`**, for any number of connections, configurations, events and rounds: `TypeCorrect`,
`ShutdownJoins` (`DoneMeansQuiet`), `Separated` (`PreambleSeparated`), `AnswerFollowsConfig` (`AnswerMatchesConfig`),
`EveryRunAnswered` (`UndisturbedIsAnswered`) and `EveryHandlerGetsOn` (`HandlersGetOn`). The invariant is about one connection at a time: `Talk` says in
which of six phases it is (not dialled, before its label was read, answering, turned away, the echo
still ahead of the client, syncing) and which one or two messages its queues hold in each; `Meant`
that whatever the handler decided was named by the label since the dial; `Smooth` that a run nothing
disturbs is at its turn, so that no side closes on unread bytes. `ShutdownInv` is the order of the
shutdown. `MoveKeeps` reduces a step of one connection to a fact about values, `Fits`, and there is one
lemma per handler step; after `Stop` no run is owed an answer any more (`StoppedKeeps`). `disturbed` keeps, for
each connection, whether something happened to its run, so an event on one leaves the others smooth.
`EveryHandlerGetsOn` is the safe half of `StopEnds`: `Left` counts the steps a handler may still take,
every step of its own makes it smaller (`Forward`, `ForwardGains`), no step of anybody else changes it
(`OthersStay`), and where the handler waits it has a deadline (`BoundedInv`). That the remaining steps
are taken is fairness, and stays with TLC.

**`PullProofs`**, for any ids, snapshots, failures and number of runs: `TypeCorrect`, `CleanRuns`
(`CleanRunIsCurrent`) and `AllClosed` (`NothingLeftOpen`). For the second the invariant `Closed` carries through
a run that a child or session that is not held any more has been waited for and its input closed: the
deferred functions act on nothing else. For rsync the argument follows the list of a
run: what the directory held when the list was made is *owed*, and is still to come or has a
fresh copy, as long as the server has met no error; a server that met one never ends with
success, and a clean run has read how it ended. For sftp it is the order of names: a
compressed snapshot that sorts above every other name of its id is the newest snapshot of
that id, and the run refuses anything that does not decompress. `DirAssumption` asks for
finitely many ids.

**`DownloadProofs`, `S3Proofs`**, for any labels, entries, intervals, failures and numbers of files: `TypeCorrect`,
`ObjectsCover` (`ObjectCoversItsPad`), `DoneStored` (`DoneIsStored`), `DownloadsWhole`
(`PartialNeverLooksComplete`), `IntervalsKept` (`MinIntervalKept`), `ServedStored` (`ServedIsOnDisk`) and
`ArchiveRefinement` (`Spec => ImplementsArchive`). Both sides rest on
one fact, that an object is never older than its key. For the upload it follows from the order
of stat, `HEAD` and open: `FilesInv` says that under its name a file only gets younger, `SelectInv`
and `BodyInv` that what is at the selected path, and then what was opened, is the selected file
or a younger one, `FlyingInv` the same of the requests that were given up. The download then
need only compare keys: `FetchInv` follows the object in hand to the one complete temp file of its
name, `DueInv` the age of the entry's other downloads up to the rename. `EntryKeeps` reduces a
step of a pass to one of three effects on the downloads, which is all the two compositions use. The refinement needs `OrderInv`: the object of every download is
still in the bucket, from which neither job deletes, so the first key of a listing is at least as new
as all of them (`ListedInv`); and the object in hand keeps that until its rename, because only its own
entry adds downloads that could be newer (`ChosenInv`). Objects that come late change neither.

**`RecoverProofs`**, for any labels, backups, failures and number of runs: `TypeCorrect`, `InstalledWhole`
(`InstalledIsWhole`), `NewestInstalled` (`InstallsNewest`), `NothingIsLost` (`NothingLost`) and, under
`LongerLabelsLater`, `CleanRunsRecover` (`CleanRunRecovers`). The names of the files are
enough to follow a run: `NewestInv` says that, in a run without an error, an entry that is gone
through has its newest backup on disk, as a database or with the steps that make one still ahead
(`Ready`); `HeldInv` that only an entry the bucket holds something of has files; `PickInv` that the database
about to be moved is the first name of its label; `WholeInv` that a cut file is the one being
written, or was left behind. `RecoverAssumption` has the deployment: the command pulls every label
from itself with no interval, and stored objects are complete.
`CleanRunsRecover` needs two more: `OriginalsInv`, that no step takes away the last file a cut one may be
made of again, because the copy that fails removes its product only and the file that is moved is no
original of another (`ProductOrigins`); and `RemadeInv`, that a run without an error still has such
an original ahead for every cut file, and has none left when it looks for the database.
`NothingIsLost` rests on the same: every cut file has a complete one of its backup beside it, found by
going back from product to original until one is whole (`CutIsHeld`); no step takes a name away without
leaving another of that backup (`NamesStay`), but the move, which makes it `app.db`; and an `app.db` that is
replaced was cut (`AppStays`).
`LongerLabelsLater` says that the files of a label that extends another sort after the other's; without
it the entry's path is another's database (`OwnPath`): section 5 has the counterexample.

Only model-checked: every liveness property.

## 7. What is not modelled, and why

- *The transfers themselves* are external: pages and hashes of `go-sqlite-rsync`, the file protocol of
  `gokrazy/rsync`, SQLite's backup object. They are modelled by what the code relies on.
- *`LatestBackupPath`* has no client in the model.
- *Power loss* inside `LocalCopy`: a crash ends the process, the file system keeps every completed
  call. The code syncs nothing before a rename, so more can be lost; what that leaves for the
  clients is the event `flaw` of `BackupDir`.
- *The one-shot and embedded commands of the copy jobs* build a handler and fire it once, or register
  it; `Fire` and `ClosePools` are what they do to the engine. *SQLite and landlock helpers* have no state.
- *SSH*: key files and `known_hosts` are one condition of start-up; quoting of the remote command is left
  out; the origin's clients dial in one step.
- *S3*: an exact object key as a download prefix, an invalid recipient, a missing endpoint, and a
  reload between passes. Two versions of a fixed path within one second share a key, so the later
  one is not uploaded; `BackupArrives` excludes that case, and an entry of the download job that is
  not due.
- *Recover*: `InstalledIsWhole` excepts runs where a crash hit the writing of a product or
  removing one failed, because `decryptOne` and `decompressOne` write under the final name.
- *Origin*: messages fit the socket buffer, so writes never wait; `Accept` does not fail.
- *Clocks*: only `LocalCopy` sets one back.

## 8. Plan

The order of the modules, most important behaviour first: `SnapshotStore`, `LocalCopy` and its proofs;
`OriginSync`; `ReplicaDaemon`; `S3Bucket`, `S3Upload`, `S3Download`, `S3Archive`, `Archive`; `Recover`; `AtomicCopy`,
`OnlineBackup` and its proofs; `BackupDir`, `PullClient`, `RsyncPull`, `SftpPull`, `PullClients`; the proofs of
`ReplicaDaemon`, `OriginSync`, `PullClients`, `S3Archive` and `Recover`. These are built. What would come next:

1. *Model.* A source that is written while the replica's sync reads it. `LatestBackupPath`, once a client
   calls it.
2. *Prove.* The safe half of `StopEnds` for the pull commands and for a round of the replica daemon, as
   `HandlersGetOn` is that of the origin.
   The composition of `AtomicCopy` with `LocalCopy`, which is now an argument over two modules.
