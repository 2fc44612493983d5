------------------------------ MODULE S3Upload ------------------------------
(***************************************************************************)
(* The S3 upload job (src/s3/upload/handler.go): a pass over the entries   *)
(* that selects one file of each, asks the bucket whether it is there, and *)
(* puts it.  An encrypted file goes through a pipe: a goroutine encrypts   *)
(* while the request reads.  The files are written by other programs while *)
(* the pass runs, every call may fail, a request whose answer was lost may *)
(* still be carried out later, and the process may crash.                  *)
(***************************************************************************)
EXTENDS S3Bucket

CONSTANTS
    Entry,          \* Entry[l]: what the configuration says of label l
    RequireLength   \* the provider wants a content length

ASSUME EntryAssumption ==
    /\ Entry \in [Labels -> [mode : {"none", "path", "prefix"}, age : BOOLEAN]]
    /\ RequireLength \in BOOLEAN

VARIABLES
    disk,     \* disk[l]: the files that the path or the prefix of l names
    writes,   \* files written so far
    up,       \* where the pass stands
    flying,   \* requests that were given up and may still be carried out
    kept      \* kept[l]: time of the last file of l dealt with (history)

uploadVars == <<disk, writes, up, flying, kept>>

File == [base : 0 .. MaxWrites, ext : Exts, time : Time, ver : 0 .. MaxWrites]

Active(l) == Entry[l].mode # "none"
Encrypted(l) == Entry[l].age

\* A file that is still being written is read as far as it got.
BodyOf(f) == [ver |-> f.ver, time |-> f.time, whole |-> f.ext # "tmp"]

UploadPass == [pc : {"idle", "next", "head", "measure", "open", "put",
                     "close", "wait"},
               todo : SUBSET Labels,
               file : File \cup {Absent},     \* what fileToUpload returned
               \* the file whose length the request announces
               length : Body \cup {Absent},
               body : Body \cup {Absent},     \* what was opened
               \* the goroutine that encrypts into the pipe
               pipe : {"none", "start", "writing", "done", "broken"}]

NoUpload == [pc |-> "idle", todo |-> {}, file |-> Absent, length |-> Absent,
             body |-> Absent, pipe |-> "none"]

UploadType ==
    /\ disk \in [Labels -> SUBSET File]
    /\ writes \in 0 .. MaxWrites
    /\ up \in UploadPass
    /\ up.pc \in {"head", "measure", "open", "put", "close", "wait"} =>
           up.todo # {} /\ up.file \in File
    /\ \A o \in flying : o.key \in Key /\ o.body \in Body
    /\ kept \in [Labels -> Time \cup {Absent}]

UploadInit ==
    /\ disk = [l \in Labels |-> {}]
    /\ writes = 0
    /\ up = NoUpload
    /\ flying = {}
    /\ kept = [l \in Labels |-> Absent]

-----------------------------------------------------------------------------
(* The programs that write the files.                                      *)

NewFile(base, ext, ver) ==
    [base |-> base, ext |-> ext, time |-> now, ver |-> ver]

\* A new file takes the place of the one at a fixed path.
Replace(l) ==
    /\ Entry[l].mode = "path" /\ writes < MaxWrites
    /\ writes' = writes + 1
    /\ disk' = [disk EXCEPT ![l] = {NewFile(0, "db", writes + 1)}]
    /\ NoEvent /\ UNCHANGED <<now, bucket, up, flying, kept>>

\* A local copy job stages its next file as <name>.tmp, in the same directory.
Stage(l) ==
    /\ Entry[l].mode = "prefix" /\ writes < MaxWrites
    /\ \A f \in disk[l] : f.ext # "tmp"
    /\ writes' = writes + 1
    /\ disk' = [disk EXCEPT ![l] =
                    @ \cup {NewFile(writes + 1, "tmp", writes + 1)}]
    /\ NoEvent /\ UNCHANGED <<now, bucket, up, flying, kept>>

\* It writes the rest and renames it.
Finish(l) ==
    \E f \in disk[l] :
        /\ f.ext = "tmp"
        /\ disk' = [disk EXCEPT ![l] =
                        (@ \ {f}) \cup {NewFile(f.base, "db", f.ver)}]
        /\ NoEvent /\ UNCHANGED <<now, bucket, writes, up, flying, kept>>

\* Somebody deletes a file.
Prune(l) ==
    \E f \in disk[l] :
        /\ Inject("prune")
        /\ disk' = [disk EXCEPT ![l] = @ \ {f}]
        /\ UNCHANGED <<now, bucket, writes, up, flying, kept>>

-----------------------------------------------------------------------------
(* One pass.                                                               *)

\* handle takes the labels in sorted order.
Uploading(l) == up.todo # {} /\ l = Min(up.todo)
UploadAt(l, pc) == Uploading(l) /\ up.pc = pc

\* The next entry, or the end of the pass.  The error of an entry is added to
\* those that handle returns, which nothing in the pass looks at.
LeaveUpload(l) ==
    up' = IF up.todo = {l} THEN NoUpload
          ELSE [NoUpload EXCEPT !.pc = "next", !.todo = up.todo \ {l}]

OnlyUp == UNCHANGED <<now, bucket, disk, writes, flying, kept>>

StartUpload ==
    /\ up.pc = "idle" /\ Labels # {}
    /\ up' = [NoUpload EXCEPT !.pc = "next", !.todo = Labels]
    /\ NoEvent /\ OnlyUp

\* The context is done between two entries.
CancelUpload ==
    /\ up.pc = "next"
    /\ Inject("cancel")
    /\ up' = NoUpload
    /\ OnlyUp

\* fileToUpload: the file of a fixed path; of a prefix the one modified last,
\* the first of them in the order of names.
Newest(files) ==
    CHOOSE f \in files : \A g \in files :
        \/ g.time < f.time
        \/ g.time = f.time /\ (g.base > f.base \/ g = f)

\* Mutant: the pad is the time of the upload.
KeyOfNow(l, f) ==
    ObjectKey(l, Pad(now), [base |-> f.base, ext |-> f.ext, age |-> Encrypted(l)])

\* The key of a file: its modification time and its name.
KeyOf(l, f) ==
    ObjectKey(l, Pad(f.time),
              [base |-> f.base, ext |-> f.ext, age |-> Encrypted(l)])

\* The entry is deactivated, or there is no file, or a stat or the reading of the
\* directory fails, which counts as none.
SkipUpload(l) ==
    /\ UploadAt(l, "next")
    /\ \/ (~Active(l) \/ disk[l] = {}) /\ NoEvent
       \/ Active(l) /\ Inject("stat")
    /\ LeaveUpload(l)
    /\ OnlyUp

\* The files of a prefix that cannot be looked at are left out.
Select(l) ==
    /\ UploadAt(l, "next") /\ Active(l)
    /\ \E found \in (SUBSET disk[l]) \ {{}} :
           /\ \/ found = disk[l] /\ NoEvent
              \/ Entry[l].mode = "prefix" /\ found # disk[l] /\ Inject("stat")
           /\ up' = [up EXCEPT !.pc = "head", !.file = Newest(found)]
    /\ OnlyUp

Existing(l) ==
    /\ UploadAt(l, "head") /\ KeyOf(l, up.file) \in DOMAIN bucket
    /\ kept' = [kept EXCEPT ![l] = up.file.time]
    /\ LeaveUpload(l)
    /\ NoEvent /\ UNCHANGED <<now, bucket, disk, writes, flying>>

\* Status 404.
Missing(l) ==
    /\ UploadAt(l, "head") /\ KeyOf(l, up.file) \notin DOMAIN bucket
    /\ up' = [up EXCEPT !.pc = IF Encrypted(l) /\ RequireLength
                               THEN "measure" ELSE "open"]
    /\ NoEvent /\ OnlyUp

\* Mutant: any error of the HEAD request counts as "there".
FailHeadAsExisting(l) ==
    /\ UploadAt(l, "head") /\ Inject("head")
    /\ kept' = [kept EXCEPT ![l] = up.file.time]
    /\ LeaveUpload(l)
    /\ UNCHANGED <<now, bucket, disk, writes, flying>>

FailHead(l) ==
    /\ UploadAt(l, "head") /\ Inject("head")
    /\ LeaveUpload(l)
    /\ OnlyUp

\* The files that are now at the selected path.
AtPath(l) == {f \in disk[l] : f.base = up.file.base /\ f.ext = up.file.ext}

\* encryptedContentLength: a first encryption of the file, thrown away.
Measure(l) ==
    /\ UploadAt(l, "measure")
    /\ \E f \in AtPath(l) : up' = [up EXCEPT !.pc = "open", !.length = BodyOf(f)]
    /\ NoEvent /\ OnlyUp

FailMeasure(l) ==
    /\ UploadAt(l, "measure")
    /\ \/ AtPath(l) = {} /\ NoEvent
       \/ Inject("read")
    /\ LeaveUpload(l)
    /\ OnlyUp

\* uploadObject opens the file, whose size is its length; an encrypted upload
\* starts the goroutine.
Open(l) ==
    /\ UploadAt(l, "open")
    /\ \/ /\ Encrypted(l)
          /\ up' = [up EXCEPT !.pc = "put", !.pipe = "start"]
       \/ /\ ~Encrypted(l)
          /\ \E f \in AtPath(l) :
                 up' = [up EXCEPT !.pc = "put", !.length = BodyOf(f), !.body = BodyOf(f)]
    /\ NoEvent /\ OnlyUp

FailOpen(l) ==
    /\ UploadAt(l, "open") /\ ~Encrypted(l)
    /\ \/ AtPath(l) = {} /\ NoEvent
       \/ Inject("read")
    /\ LeaveUpload(l)
    /\ OnlyUp

-----------------------------------------------------------------------------
(* The goroutine of an encrypted upload: encryptFile, then CloseWithError. *)

OpenPlain(l) ==
    /\ Uploading(l) /\ up.pipe = "start"
    /\ \E f \in AtPath(l) :
           up' = [up EXCEPT !.pipe = "writing", !.body = BodyOf(f)]
    /\ NoEvent /\ OnlyUp

\* A write to the pipe returns when the request has read it.
SendBody(l) ==
    /\ UploadAt(l, "put") /\ up.pipe = "writing"
    /\ up' = [up EXCEPT !.pipe = "done"]
    /\ NoEvent /\ OnlyUp

\* The file is gone, a read fails, or the reading end was closed.
BreakPipe(l) ==
    /\ Uploading(l)
    /\ \/ up.pipe = "start" /\ AtPath(l) = {} /\ NoEvent
       \/ up.pipe \in {"start", "writing"} /\ Inject("read")
       \/ up.pipe = "writing" /\ up.pc = "wait" /\ NoEvent
    /\ up' = [up EXCEPT !.pipe = "broken"]
    /\ OnlyUp

-----------------------------------------------------------------------------
(* The request.                                                            *)

\* The whole body is on its way.
Sent(l) == UploadAt(l, "put") /\ (Encrypted(l) => up.pipe = "done")

\* The body may not be as long as announced: the file was replaced since it was
\* measured, or is still growing.
Differs == up.length # Absent /\ (up.length # up.body \/ ~up.body.whole)

\* What the server may have got when the whole body was sent: of a longer one, as
\* much as was announced.
Received == {up.body} \cup (IF Differs THEN {[up.body EXCEPT !.whole = FALSE]} ELSE {})

Request(l, body) == [key |-> KeyOf(l, up.file), body |-> body]

\* What follows PutObject: a plain upload is over, an encrypted one closes
\* the reading end.
AfterPut(l) ==
    IF Encrypted(l) THEN up' = [up EXCEPT !.pc = "close"] ELSE LeaveUpload(l)

Put(l) ==
    /\ Sent(l)
    /\ bucket' = WithObject(KeyOf(l, up.file), up.body)
    /\ kept' = [kept EXCEPT ![l] = up.file.time]
    /\ AfterPut(l)
    /\ NoEvent /\ UNCHANGED <<now, disk, writes, flying>>

\* The request fails: the producer broke off, the body was not as long as
\* announced, or at any moment.  When it was all sent, only the answer may be
\* missing; a body that was too short is never carried out.
FailPut(l) ==
    /\ UploadAt(l, "put")
    /\ \/ up.pipe = "broken" /\ NoEvent /\ UNCHANGED flying
       \/ /\ Sent(l) /\ Differs /\ NoEvent
          /\ \/ UNCHANGED flying
             \/ flying' = flying \cup {Request(l, [up.body EXCEPT !.whole = FALSE])}
       \/ ~Sent(l) /\ Inject("put") /\ UNCHANGED flying
       \/ /\ Sent(l) /\ Inject("put")
          /\ \E body \in Received : flying' = flying \cup {Request(l, body)}
    /\ AfterPut(l)
    /\ UNCHANGED <<now, bucket, disk, writes, kept>>

\* Mutant: the reading end stays open.
CloseReaderNever(l) ==
    /\ UploadAt(l, "close") /\ up.pipe \in {"done", "broken"}
    /\ up' = [up EXCEPT !.pc = "wait"]
    /\ NoEvent /\ OnlyUp

\* pipeReader.Close(), so that a producer still writing is released.
CloseReader(l) ==
    /\ UploadAt(l, "close")
    /\ up' = [up EXCEPT !.pc = "wait"]
    /\ NoEvent /\ OnlyUp

\* The result of the producer arrives; its error is joined to the request's.
Join(l) ==
    /\ UploadAt(l, "wait") /\ up.pipe \in {"done", "broken"}
    /\ LeaveUpload(l)
    /\ NoEvent /\ OnlyUp

-----------------------------------------------------------------------------
\* The server carries out a request that the client gave up.
Land ==
    \E o \in flying :
        /\ bucket' = WithObject(o.key, o.body)
        /\ flying' = flying \ {o}
        /\ NoEvent /\ UNCHANGED <<now, disk, writes, up, kept>>

CrashUpload ==
    /\ up.pc # "idle" /\ Inject("crash")
    /\ \/ UNCHANGED flying
       \/ \E l \in Labels :
              /\ Sent(l)
              /\ \E body \in Received : flying' = flying \cup {Request(l, body)}
    /\ up' = NoUpload
    /\ UNCHANGED <<now, bucket, disk, writes, kept>>

Produce(l) == Replace(l) \/ Stage(l) \/ Finish(l) \/ Prune(l)

UploadEntry(l) ==
    \/ SkipUpload(l) \/ Select(l) \/ Existing(l) \/ Missing(l) \/ FailHead(l)
    \/ Measure(l) \/ FailMeasure(l) \/ Open(l) \/ FailOpen(l)
    \/ Put(l) \/ FailPut(l) \/ CloseReader(l) \/ Join(l)

Producer(l) == OpenPlain(l) \/ SendBody(l) \/ BreakPipe(l)

UploadStep == \E l \in Labels : UploadEntry(l)

UploadNext ==
    \/ StartUpload \/ UploadStep \/ CancelUpload \/ CrashUpload \/ Land
    \/ \E l \in Labels : Produce(l) \/ Producer(l)

-----------------------------------------------------------------------------
(* Properties.                                                             *)

\* An object under the pad of some time holds what the file was at that time
\* or a later write, although the file may be replaced between the stat, the
\* HEAD request and the open, and although a given-up request may be carried
\* out late (fileToUpload, uploadObject, encryptFile).
ObjectCoversItsPad ==
    \A k \in DOMAIN bucket : k.pad >= Pad(bucket[k].time)

\* An entry the pass ended without an error is in the bucket, under its
\* modification time and with at least that content: an answer that was not
\* "404" or "found", or a failed request, is never taken for one of them.
DoneIsStored ==
    \A l \in Labels : kept[l] # Absent =>
        \E k \in KeysOf(l) :
            k.pad = Pad(kept[l]) /\ bucket[k].time >= kept[l]

\* What the bucket lists first is a backup, not a file in the making: the job
\* "puts the newest backup into an S3-compatible bucket" (README).
ListedIsWhole ==
    \A l \in Labels : KeysOf(l) # {} => bucket[FirstKey(l)].whole
=============================================================================
