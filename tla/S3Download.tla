----------------------------- MODULE S3Download -----------------------------
(***************************************************************************)
(* The S3 download job (src/s3/download/handler.go): a pass over the       *)
(* entries that asks the bucket for the first key under a prefix, and      *)
(* fetches it into a hidden temp file that a rename makes a download.      *)
(* When a label was last served is read off the downloads themselves.      *)
(***************************************************************************)
EXTENDS S3Bucket

CONSTANTS
    Source,     \* Source[l]: the label whose objects entry l pulls, or Absent
    Interval,   \* Interval[l]: min_interval of entry l
    Prefixed    \* Prefixed[l]: the labels that start with "<l>-"

ASSUME DownloadAssumption ==
    /\ Absent \notin Labels
    /\ Source \in [Labels -> Labels \cup {Absent}]
    /\ Interval \in [Labels -> Nat]
    /\ Prefixed \in [Labels -> SUBSET Labels]

VARIABLES
    dest,   \* the downloads: s3download-<label>-<pad>-<name>
    temp,   \* the hidden files: .tmp-s3download-...
    dl,     \* where the pass stands
    held    \* held[l]: pad the bucket listed first when entry l was last
            \* gone through without an error (history)

downloadVars == <<dest, temp, dl, held>>

\* A download is an object's key with the label of the entry; the body, or
\* what arrived of it; and the modification time.
Download == [key : Key, body : Body, cut : BOOLEAN, mtime : Time]

DownloadPass == [pc : {"idle", "next", "list", "get", "create", "copy", "rename"},
                 todo : SUBSET Labels,
                 object : Key \cup {Absent},    \* what the listing returned
                 first : {Pad(t) : t \in Time} \cup {Absent},
                 body : Body \cup {Absent}]

NoDownload == [pc |-> "idle", todo |-> {}, object |-> Absent,
               first |-> Absent, body |-> Absent]

DownloadType ==
    /\ dest \subseteq Download /\ temp \subseteq Download
    /\ \A f, g \in dest : f.key = g.key => f = g
    /\ \A f, g \in temp : f.key = g.key => f = g
    /\ dl \in DownloadPass
    /\ dl.pc \in {"get", "create", "copy", "rename"} =>
           dl.todo # {} /\ dl.object \in Key
    /\ held \in [Labels -> {Pad(t) : t \in Time} \cup {Absent}]

DownloadInit ==
    /\ dest = {} /\ temp = {}
    /\ dl = NoDownload
    /\ held = [l \in Labels |-> Absent]

-----------------------------------------------------------------------------
Downloading(l) == dl.todo # {} /\ l = Min(dl.todo)
DownloadAt(l, pc) == Downloading(l) /\ dl.pc = pc

\* As in the upload, an error is only collected.
LeaveDownload(l) ==
    dl' = IF dl.todo = {l} THEN NoDownload
          ELSE [NoDownload EXCEPT !.pc = "next", !.todo = dl.todo \ {l}]

OnlyDl == UNCHANGED <<now, bucket, dest, temp, held>>

StartDownload ==
    /\ dl.pc = "idle" /\ Labels # {}
    /\ dl' = [NoDownload EXCEPT !.pc = "next", !.todo = Labels]
    /\ NoEvent /\ OnlyDl

CancelDownload ==
    /\ dl.pc = "next"
    /\ Inject("cancel")
    /\ dl' = NoDownload
    /\ OnlyDl

\* lastDestFileDownloadTime looks at every name that starts with
\* s3download-<label>-: those of longer labels too.
Seen(l) == {f \in dest : f.key.label \in {l} \cup Prefixed[l]}

\* Mutant: the files of the label are not looked at.
IsDueAlways(l) == TRUE

IsDue(l) == \A f \in Seen(l) : now - f.mtime >= Interval[l]

\* Deactivated, or not due yet.
SkipDownload(l) ==
    /\ DownloadAt(l, "next")
    /\ Source[l] = Absent \/ ~IsDue(l)
    /\ LeaveDownload(l)
    /\ NoEvent /\ OnlyDl

Attempt(l) ==
    /\ DownloadAt(l, "next")
    /\ Source[l] # Absent /\ IsDue(l)
    /\ dl' = [dl EXCEPT !.pc = "list"]
    /\ NoEvent /\ OnlyDl

\* buildDestFilePath: the entry's label with the object's pad and name.
DestKey(l, key) == ObjectKey(l, key.pad, key.name)

FileAt(files, key) == {f \in files : f.key = key}

NotFound(l) ==
    /\ DownloadAt(l, "list") /\ KeysOf(Source[l]) = {}
    /\ LeaveDownload(l)
    /\ NoEvent /\ OnlyDl

\* The first key, and the check whether it is already here.
List(l) ==
    /\ DownloadAt(l, "list") /\ KeysOf(Source[l]) # {}
    /\ LET key == FirstKey(Source[l]) IN
       IF FileAt(dest, DestKey(l, key)) # {}
       THEN /\ LeaveDownload(l)
            /\ held' = [held EXCEPT ![l] = key.pad]
       ELSE /\ dl' = [dl EXCEPT !.pc = "get", !.object = key,
                                !.first = key.pad]
            /\ UNCHANGED held
    /\ NoEvent /\ UNCHANGED <<now, bucket, dest, temp>>

FailList(l) ==
    /\ DownloadAt(l, "list") /\ Inject("list")
    /\ LeaveDownload(l)
    /\ OnlyDl

\* GetObject.
Get(l) ==
    /\ DownloadAt(l, "get")
    /\ dl' = [dl EXCEPT !.pc = "create", !.body = bucket[dl.object]]
    /\ NoEvent /\ OnlyDl

FailGet(l) ==
    /\ DownloadAt(l, "get") /\ Inject("get")
    /\ LeaveDownload(l)
    /\ OnlyDl

TempFile(l, cut) ==
    [key |-> DestKey(l, dl.object), body |-> dl.body, cut |-> cut, mtime |-> now]

WithoutTemp(l) == temp \ FileAt(temp, DestKey(l, dl.object))

\* os.Create truncates what a crash may have left.
Create(l) ==
    /\ DownloadAt(l, "create")
    /\ temp' = WithoutTemp(l) \cup {TempFile(l, TRUE)}
    /\ dl' = [dl EXCEPT !.pc = "copy"]
    /\ NoEvent /\ UNCHANGED <<now, bucket, dest, held>>

FailCreate(l) ==
    /\ DownloadAt(l, "create") /\ Inject("create")
    /\ LeaveDownload(l)
    /\ OnlyDl

\* io.Copy to its end, and Close.
Copy(l) ==
    /\ DownloadAt(l, "copy")
    /\ temp' = WithoutTemp(l) \cup {TempFile(l, FALSE)}
    /\ dl' = [dl EXCEPT !.pc = "rename"]
    /\ NoEvent /\ UNCHANGED <<now, bucket, dest, held>>

\* The temp file is removed, unless that fails too.
Tidy(l) == \/ temp' = WithoutTemp(l)
           \/ "remove" \in Events /\ UNCHANGED temp

\* Mutant: the end of a broken answer is taken for the end of the object.
FailCopyIgnored(l) ==
    /\ DownloadAt(l, "copy") /\ Inject("copy")
    /\ dl' = [dl EXCEPT !.pc = "rename"]
    /\ UNCHANGED <<now, bucket, dest, temp, held>>

FailCopy(l) ==
    /\ DownloadAt(l, "copy") /\ Inject("copy")
    /\ Tidy(l)
    /\ LeaveDownload(l)
    /\ UNCHANGED <<now, bucket, dest, held>>

\* Mutant: the rename is taken for done when it was not.
FailRenameIgnored(l) ==
    /\ DownloadAt(l, "rename") /\ Inject("rename")
    /\ Tidy(l)
    /\ held' = [held EXCEPT ![l] = dl.first]
    /\ LeaveDownload(l)
    /\ UNCHANGED <<now, bucket, dest>>

FailRename(l) ==
    /\ DownloadAt(l, "rename") /\ Inject("rename")
    /\ Tidy(l)
    /\ LeaveDownload(l)
    /\ UNCHANGED <<now, bucket, dest, held>>

Rename(l) ==
    /\ DownloadAt(l, "rename")
    /\ LET key == DestKey(l, dl.object) IN
       dest' = (dest \ FileAt(dest, key)) \cup FileAt(temp, key)
    /\ temp' = WithoutTemp(l)
    /\ held' = [held EXCEPT ![l] = dl.first]
    /\ LeaveDownload(l)
    /\ NoEvent /\ UNCHANGED <<now, bucket>>

CrashDownload ==
    /\ dl.pc # "idle" /\ Inject("crash")
    /\ dl' = NoDownload
    /\ OnlyDl

DownloadEntry(l) ==
    \/ SkipDownload(l) \/ Attempt(l) \/ NotFound(l) \/ List(l) \/ FailList(l)
    \/ Get(l) \/ FailGet(l) \/ Create(l) \/ FailCreate(l)
    \/ Copy(l) \/ FailCopy(l) \/ Rename(l) \/ FailRename(l)

DownloadStep == \E l \in Labels : DownloadEntry(l)

DownloadNext == StartDownload \/ DownloadStep \/ CancelDownload \/ CrashDownload

-----------------------------------------------------------------------------
(* Properties.                                                             *)

\* A partial download never looks complete (downloadObject), whatever call
\* fails and whenever the process dies.
PartialNeverLooksComplete == \A f \in dest : ~f.cut

\* Two downloads of an entry are min_interval apart, over failures and
\* restarts (downloadOne, lastDestFileDownloadTime).
MinIntervalKept ==
    \A f, g \in dest :
        f.key.label = g.key.label /\ f # g =>
            \/ f.mtime - g.mtime >= Interval[f.key.label]
            \/ g.mtime - f.mtime >= Interval[f.key.label]

\* An entry gone through without an error has, on disk, a backup at least as
\* new as the bucket listed: neither a failed step nor a file left by an
\* earlier attempt is taken for it (downloadOne).
ServedIsOnDisk ==
    \A l \in Labels : held[l] # Absent =>
        \E f \in dest : /\ f.key.label = l
                        /\ f.key.pad <= held[l]
                        /\ Pad(f.body.time) <= held[l]
=============================================================================
