----------------------------- MODULE S3Archive -----------------------------
(***************************************************************************)
(* The upload job of one machine and the download job of another, on the   *)
(* same bucket.                                                            *)
(***************************************************************************)
EXTENDS S3Upload, S3Download

vars == <<now, spent, bucket, uploadVars, downloadVars>>

TypeOK ==
    /\ now \in Time /\ spent \in 0 .. MaxEvents
    /\ DOMAIN bucket \subseteq Key
    /\ \A k \in DOMAIN bucket : bucket[k] \in Body
    /\ UploadType /\ DownloadType

Init ==
    /\ now = 0 /\ spent = 0 /\ bucket = <<>>
    /\ UploadInit /\ DownloadInit

Clock == Tick /\ NoEvent /\ UNCHANGED <<bucket, uploadVars, downloadVars>>

Next == \/ UploadNext /\ UNCHANGED downloadVars
        \/ DownloadNext /\ UNCHANGED uploadVars
        \/ Clock

Spec == Init /\ [][Next]_vars

\* The scheduler starts both jobs again and again and a pass that runs goes on,
\* the goroutine that encrypts runs, a job that stages a file finishes it, and
\* time passes.
Fairness ==
    /\ WF_vars((StartUpload \/ UploadStep) /\ UNCHANGED downloadVars)
    /\ WF_vars((StartDownload \/ DownloadStep) /\ UNCHANGED uploadVars)
    /\ WF_vars((\E l \in Labels : Producer(l)) /\ UNCHANGED downloadVars)
    /\ WF_vars((\E l \in Labels : Finish(l)) /\ UNCHANGED downloadVars)
    /\ WF_vars(Clock)

FairSpec == Spec /\ Fairness

-----------------------------------------------------------------------------
(* Properties.                                                             *)

\* The entries that pull the backups of l.
Pulling(l) == {m \in Labels : Source[m] = l}

\* The objects and the downloads of l, by pad and body.
Copies(l) ==
    {<<k.pad, bucket[k]>> : k \in KeysOf(l)}
        \cup {<<g.key.pad, g.body>> : g \in {x \in dest : Source[x.key.label] = l}}

\* Write ver is the newest file of l and complete, and what the bucket and the
\* machines that pull it hold of l is only that file and older ones: nothing newer,
\* no other file of the same second (of two that have one name the second is never
\* uploaded), and no part of it under its own key (nor is what is there).
Standing(l, ver) ==
    \E f \in disk[l] :
        /\ f.ver = ver /\ f.ext = "db" /\ f = Newest(disk[l])
        /\ \A c \in Copies(l) : \/ c[2].ver = ver /\ c[2].whole
                                \/ c[1] > Pad(f.time)

Arrived(m, ver) ==
    \E f \in dest : f.key.label = m /\ f.body.ver = ver /\ f.body.whole

\* A backup that stays the newest of its entry reaches every machine that pulls
\* it, once the failures are over, unless the entry there is not due: no pass
\* hangs, and nothing that an earlier attempt left is in the way (handle of
\* both jobs, the pipe of uploadObjectEncrypted, and the keys between them).
BackupArrives ==
    \A l \in Labels : \A m \in Pulling(l), ver \in 1 .. MaxWrites :
        <>[]Standing(l, ver) => <>Arrived(m, ver) \/ []<>~IsDue(m)

-----------------------------------------------------------------------------
(* The abstract archive.                                                   *)

\* The object that a download is of.
ObjectOf(f) == [f.key EXCEPT !.label = Source[f.key.label]]

TimeOf(key) == MaxTime - key.pad

\* What an entry may pull, and what it has pulled.
Offers == [m \in Labels |-> {k \in Key : k.label = Source[m]}]
Pulled == [m \in Labels |-> {ObjectOf(f) : f \in {x \in dest : x.key.label = m}}]

Store == INSTANCE Archive WITH
            Objects <- Key, Pullers <- Labels, Offered <- Offers, Taken <- TimeOf,
            stored <- DOMAIN bucket, pulled <- Pulled

\* The two jobs implement the archive: whatever order files are uploaded in, and
\* however late a request that was given up is carried out, an entry's downloads
\* arrive in the order of their times, none twice, each of an object that the
\* bucket holds (downloadOne: "downloads the newest backup for the label").
ImplementsArchive == Store!Spec
=============================================================================
