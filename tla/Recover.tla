------------------------------ MODULE Recover ------------------------------
(***************************************************************************)
(* The recover command (src/cmd/s3/download/recover/main.go): on a machine *)
(* that has no data it runs one pass of the S3 download handler over the   *)
(* upload entries, decrypts and decompresses what arrived next to the      *)
(* originals, and moves the database that ripc reads to data/app.db.  It   *)
(* is one process; any call may fail, the process may die between any two  *)
(* of them, and the operator runs it again until it succeeds, while the    *)
(* old machine may still be uploading.                                     *)
(*                                                                         *)
(* The files made next to the downloads are in dest too: the decrypted     *)
(* file has the download's key without .age, the decompressed one has .db  *)
(* for .bck.gz.  Which databases ripc reads is external: a complete one of *)
(* AppLabels, no complete one of another label, perhaps a cut one.         *)
(***************************************************************************)
EXTENDS S3Download

CONSTANTS
    Backups,    \* the objects an upload job may have stored: [key, body]
    AppLabels   \* the labels whose database is the application's

ASSUME RecoverAssumption ==
    /\ \A o \in Backups : /\ o.key \in Key /\ o.body \in Body /\ o.body.whole
                          /\ o.key.name.ext \in {"gz", "db"}
                          /\ o.key.pad = Pad(o.body.time)
    /\ AppLabels \subseteq Labels
    /\ Absent \notin Key \cup Download
    /\ \A l \in Labels : Source[l] = l /\ Interval[l] = 0

VARIABLES
    app,     \* data/app.db
    run,     \* where the command stands
    untidy   \* a crash or a failed os.Remove left a cut file (history)

vars == <<now, spent, bucket, downloadVars, app, run, untidy>>

Run == [pc : {"idle", "download", "decrypt", "decompress", "find", "move",
              "done"},
        todo : SUBSET Key,            \* files to decrypt or decompress
        product : Key \cup {Absent},  \* the file being written
        pick : Key \cup {Absent},     \* the database chosen
        clean : BOOLEAN]              \* no error was logged (history)

TypeOK ==
    /\ now \in Time /\ spent \in 0 .. MaxEvents
    /\ DOMAIN bucket \subseteq Key
    /\ \A k \in DOMAIN bucket : bucket[k] \in Body
    /\ DownloadType
    /\ app \in Download \cup {Absent}
    /\ run \in Run
    /\ dl # NoDownload => run.pc = "download"
    /\ run.todo # {} => run.pc \in {"decrypt", "decompress"}
    /\ run.product # Absent => run.todo # {}
    /\ untidy \in BOOLEAN

Idle == [pc |-> "idle", todo |-> {}, product |-> Absent, pick |-> Absent,
         clean |-> TRUE]

\* A machine that has no data, and a bucket that an upload job filled.
Init ==
    /\ now = 0 /\ spent = 0
    /\ \E some \in SUBSET Backups :
           bucket = [k \in {o.key : o \in some} |->
                        (CHOOSE o \in some : o.key = k).body]
    /\ DownloadInit
    /\ app = Absent /\ run = Idle /\ untidy = FALSE

\* The old machine stores another backup.
Upload ==
    \E o \in Backups :
        /\ o.key \notin DOMAIN bucket /\ Inject("upload")
        /\ bucket' = WithObject(o.key, o.body)
        /\ UNCHANGED <<now, downloadVars, app, run, untidy>>

-----------------------------------------------------------------------------
(* Start and download.                                                     *)

OnlyRun == UNCHANGED <<now, bucket, downloadVars, app, untidy>>

\* The configuration and the key are read, the directories are made, the pass
\* starts.  After a success the operator may run the command once more.
Start ==
    /\ \/ run.pc = "idle" /\ NoEvent
       \/ run.pc = "done" /\ Inject("again")
    /\ run' = [Idle EXCEPT !.pc = "download"]
    /\ dl.pc = "idle" /\ Labels # {}
    /\ dl' = [NoDownload EXCEPT !.pc = "next", !.todo = Labels]
    /\ UNCHANGED <<now, bucket, dest, temp, held, app, untidy>>

\* The configuration does not load or is not valid, the key does not parse, or a
\* directory cannot be made: exit 1 before anything is downloaded.
FailStart ==
    /\ run.pc = "idle" /\ Inject("start")
    /\ UNCHANGED run /\ OnlyRun

\* findAgeEncryptedFiles: s3download-*.age.
Encrypted(files) == {f.key : f \in {x \in files : x.key.name.age}}

\* findCompressedFiles: s3download-*.bck.gz, downloaded or decrypted.
Compressed(files) ==
    {f.key : f \in {x \in files : x.key.name.ext = "gz" /\ ~x.key.name.age}}

\* The handler's pass; its errors are only logged.
DownloadBackups ==
    /\ run.pc = "download"
    /\ DownloadStep
    /\ LET ends == dl'.pc = "idle"
           clean == run.clean /\ UNCHANGED spent
       IN run' = [run EXCEPT !.pc = IF ends THEN "decrypt" ELSE @,
                             !.todo = IF ends THEN Encrypted(dest') ELSE @,
                             !.clean = clean]
    /\ UNCHANGED <<app, untidy>>

-----------------------------------------------------------------------------
(* Decrypt, decompress.                                                    *)

Making == run.pc \in {"decrypt", "decompress"}

\* The files are taken in the order of their names.  So the labels are numbered
\* here, in which order the download goes through them is of no consequence:
\* the files of app-1 come before those of app, and those of app-logs after.
First(keys) ==
    CHOOSE k \in keys : \A j \in keys \ {k} :
        k.label < j.label \/ (k.label = j.label /\ Precedes(k, j))

Current == First(run.todo)
Original == CHOOSE f \in dest : f.key = Current

\* The name without ".age", or with ".db" for ".bck.gz".
Product == IF run.pc = "decrypt" THEN [Current EXCEPT !.name.age = FALSE]
                                 ELSE [Current EXCEPT !.name.ext = "db"]

With(key, cut) ==
    (dest \ FileAt(dest, key))
        \cup {[Original EXCEPT !.key = key, !.cut = cut, !.mtime = now]}

\* On to the next file.
Leave(clean) ==
    run' = [run EXCEPT !.todo = @ \ {Current}, !.product = Absent,
                       !.clean = @ /\ clean]

\* Mutant: a product that is there already is taken for done.
MakeOnce ==
    /\ Making /\ run.todo # {} /\ run.product = Absent
    /\ IF FileAt(dest, Product) # {}
       THEN Leave(TRUE) /\ UNCHANGED dest
       ELSE /\ run' = [run EXCEPT !.product = Product]
            /\ dest' = With(Product, TRUE)
    /\ NoEvent /\ UNCHANGED <<now, bucket, temp, dl, held, app, untidy>>

\* The original is opened and its product created, which truncates.
Make ==
    /\ Making /\ run.todo # {} /\ run.product = Absent
    /\ run' = [run EXCEPT !.product = Product]
    /\ dest' = With(Product, TRUE)
    /\ NoEvent /\ UNCHANGED <<now, bucket, temp, dl, held, app, untidy>>

\* Opening, reading the header or creating fails; a cut original may end before
\* its header does.
FailMake ==
    /\ Making /\ run.todo # {} /\ run.product = Absent
    /\ \/ Original.cut /\ NoEvent
       \/ Inject("make")
    /\ Leave(FALSE)
    /\ OnlyRun

\* io.Copy to the end of a complete original, and Close.
Made ==
    /\ Making /\ run.product # Absent /\ ~Original.cut
    /\ dest' = With(run.product, FALSE)
    /\ Leave(TRUE)
    /\ NoEvent /\ UNCHANGED <<now, bucket, temp, dl, held, app, untidy>>

\* Mutant: a failed copy leaves its file.
SpoilLeaving ==
    /\ Making /\ run.product # Absent
    /\ \/ Original.cut /\ NoEvent
       \/ Inject("spoil")
    /\ Leave(FALSE)
    /\ UNCHANGED <<now, bucket, dest, temp, dl, held, app, untidy>>

\* Mutant: the clean-up of a failed copy removes the original.
SpoilOriginal ==
    /\ Making /\ run.product # Absent
    /\ \/ Original.cut /\ NoEvent
       \/ Inject("spoil")
    /\ dest' = dest \ FileAt(dest, Current)
    /\ Leave(FALSE)
    /\ UNCHANGED <<now, bucket, temp, dl, held, app, untidy>>

\* It fails, on a cut original always: the product is removed, unless that
\* fails too.
Spoil ==
    /\ Making /\ run.product # Absent
    /\ \/ Original.cut /\ NoEvent
       \/ Inject("spoil")
    /\ \/ dest' = dest \ FileAt(dest, run.product) /\ UNCHANGED untidy
       \/ "remove" \in Events /\ untidy' = TRUE /\ UNCHANGED dest
    /\ Leave(FALSE)
    /\ UNCHANGED <<now, bucket, temp, dl, held, app>>

\* What was decrypted is decompressed next.
EndMaking ==
    /\ Making /\ run.todo = {}
    /\ run' = IF run.pc = "decrypt"
              THEN [run EXCEPT !.pc = "decompress", !.todo = Compressed(dest)]
              ELSE [run EXCEPT !.pc = "find"]
    /\ NoEvent /\ OnlyRun

-----------------------------------------------------------------------------
(* Find, move.                                                             *)

\* isAppDB: what ripc reads.
Reads(f) == f.key.label \in AppLabels /\ ~f.cut
MayRead(f) == f.key.label \in AppLabels

Databases(l) ==
    {f.key : f \in {x \in Seen(l) : x.key.name.ext = "db" /\ ~x.key.name.age}}

\* Mutant: the last of the names.
DbPathLast(l) ==
    CHOOSE k \in Databases(l) : \A j \in Databases(l) \ {k} :
        j.label < k.label \/ (k.label = j.label /\ Precedes(j, k))

\* findDbPaths: the first of s3download-<label>-*.db.
DbPath(l) == First(Databases(l))

DbPaths == {DbPath(l) : l \in {x \in Labels : Databases(x) # {}}}

FileOf(key) == CHOOSE f \in dest : f.key = key

\* isAppDB(appDBPath), of main and again of moveAppDB.
AppReads == app # Absent /\ Reads(app)
AppMayRead == app # Absent /\ MayRead(app)

AlreadyThere ==
    /\ run.pc = "find" /\ AppMayRead
    /\ run' = [Idle EXCEPT !.pc = "done"]
    /\ NoEvent /\ OnlyRun

\* findAppDB looks at them in the random order of a map.
Find ==
    /\ run.pc = "find" /\ ~AppReads
    /\ \E key \in DbPaths :
           /\ MayRead(FileOf(key))
           /\ run' = [run EXCEPT !.pc = "move", !.pick = key]
    /\ NoEvent /\ OnlyRun

\* None reads: exit 1, and the operator tries again.
FailFind ==
    /\ run.pc = "find" /\ ~AppReads
    /\ \A key \in DbPaths : ~Reads(FileOf(key))
    /\ run' = Idle
    /\ NoEvent /\ OnlyRun

Move ==
    /\ run.pc = "move" /\ ~AppReads
    /\ app' = FileOf(run.pick)
    /\ dest' = dest \ FileAt(dest, run.pick)
    /\ run' = [Idle EXCEPT !.pc = "done"]
    /\ NoEvent /\ UNCHANGED <<now, bucket, temp, dl, held, untidy>>

FailMove ==
    /\ run.pc = "move"
    /\ \/ AppMayRead /\ NoEvent
       \/ Inject("move")
    /\ run' = Idle
    /\ OnlyRun

\* The process dies; a file being written stays as it is.
Crash ==
    /\ run.pc \notin {"idle", "done"} /\ Inject("crash")
    /\ run' = Idle
    /\ dl' = NoDownload
    /\ untidy' = (untidy \/ run.product # Absent)
    /\ UNCHANGED <<now, bucket, dest, temp, held, app>>

Work ==
    \/ Start \/ FailStart \/ DownloadBackups
    \/ Make \/ FailMake \/ Made \/ Spoil \/ EndMaking
    \/ AlreadyThere \/ Find \/ FailFind \/ Move \/ FailMove

Next == Work \/ Crash \/ Upload

Spec == Init /\ [][Next]_vars

\* The command goes on, and the operator runs it again until it succeeds.
FairSpec == Spec /\ WF_vars(Work)

-----------------------------------------------------------------------------
(* Properties.                                                             *)

\* data/app.db is a complete application database, unless a crash or a failed
\* removal left a cut file next to the downloads ("a failed copy leaves nothing
\* behind", decryptOne, decompressOne; findAppDB).
InstalledIsWhole ==
    app # Absent => app.key.label \in AppLabels /\ (app.cut => untidy)

\* A run without an error installs the newest backup of its label that the
\* bucket listed, although older downloads and products of earlier runs are
\* still there (findDbPaths takes the first name of several).
InstallsNewest ==
    [][app' # app /\ run.clean =>
           /\ held[app'.key.label] # Absent
           /\ app'.key.pad <= held[app'.key.label]]_vars

\* The backups the machine holds a complete file of, as it was downloaded, as it
\* was decrypted or decompressed, or installed.
Whole == {f \in dest : ~f.cut} \cup (IF app # Absent /\ ~app.cut THEN {app} ELSE {})
HeldBackups == {<<f.key.label, f.key.pad>> : f \in Whole}

\* A backup that arrived is never lost: every run truncates the products of the
\* runs before it, failed copies are removed, and a rename may replace app.db, but
\* in whatever order runs, failures and crashes come, a complete file of the backup
\* stays ("the compressed originals are kept", decryptOne, decompressOne; moveAppDB
\* refuses a target that reads).
NothingLost == [][HeldBackups \subseteq HeldBackups']_vars

\* A run without an error does what the command is for, whatever earlier runs
\* left: it moves a complete database, though a cut one may have been left where
\* that one is made (decryptOne, decompressOne), and it only finds none when the
\* bucket listed nothing of the application ("moves the first downloaded
\* database that ripc can read", the package comment; findDbPaths, findAppDB).
CleanRunRecovers ==
    [][run.clean =>
           /\ Move => ~app'.cut
           /\ FailFind => \A l \in AppLabels : held[l] = Absent]_vars

\* Whatever a failed run left behind, running the command again recovers an
\* application database the bucket holds.
RunningAgainRecovers ==
    (\E l \in AppLabels : KeysOf(l) # {}) ~> (app # Absent)
=============================================================================
