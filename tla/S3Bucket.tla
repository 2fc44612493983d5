------------------------------ MODULE S3Bucket ------------------------------
(***************************************************************************)
(* What the S3 jobs share: the bucket, the key layout of src/s3/key.go,    *)
(* the clock, and the failures that may be injected.  The bucket itself is *)
(* external: a map from keys to bodies that lists its keys in order.       *)
(***************************************************************************)
EXTENDS Integers, FiniteSetsExt

CONSTANTS
    NumLabels,  \* number of entries
    Absent,     \* nothing: no file, no entry, no time
    MaxTime,    \* bound: the clock stops there
    MaxWrites,  \* bound: files written on the uploading machine
    Events,     \* the failures the environment may inject
    MaxEvents   \* bound: how many of them happen in a behaviour

ASSUME BucketAssumption ==
    /\ NumLabels \in Nat /\ MaxTime \in Nat /\ MaxWrites \in Nat
    /\ MaxEvents \in Nat
    /\ Absent \notin 0 .. MaxTime

VARIABLES
    now,     \* the wall clock, in seconds
    spent,   \* injected events so far
    bucket   \* the bucket: a function from keys to bodies

Labels == 1 .. NumLabels  \* in the order of slices.Sorted
Time == 0 .. MaxTime

Inject(kind) == kind \in Events /\ spent < MaxEvents /\ spent' = spent + 1
NoEvent == UNCHANGED spent

-----------------------------------------------------------------------------
(* Keys.                                                                   *)

\* File names: which file it is, its extension (".db", ".bck.gz", or the
\* ".tmp" of a file that is still being written), and the uploader's ".age".
Exts == {"gz", "db", "tmp"}
Name == [base : 0 .. MaxWrites, ext : Exts, age : BOOLEAN]

\* Pad: the modification time counted down (MaxTime stands for year 9999).
Pad(t) == MaxTime - t

Key == [label : Labels, pad : {Pad(t) : t \in Time}, name : Name]

\* ObjectKey: backup/<label>/<pad>/<name>.
ObjectKey(label, pad, name) == [label |-> label, pad |-> pad, name |-> name]

\* What a file or an object holds: which write, when it was written, and
\* whether it is all of it.
Body == [ver : 0 .. MaxWrites, time : Time, whole : BOOLEAN]

\* The order of the keys of one label.
ExtRank == [e \in Exts |-> CASE e = "gz" -> 0 [] e = "db" -> 1 [] e = "tmp" -> 2]

\* Mutant: the keys of a label are listed by name before time.
PrecedesByName(j, k) ==
    \/ j.name.base < k.name.base
    \/ j.name.base = k.name.base /\ ExtRank[j.name.ext] < ExtRank[k.name.ext]
    \/ j.name.base = k.name.base /\ j.name.ext = k.name.ext /\ j.pad < k.pad

Precedes(j, k) ==
    \/ j.pad < k.pad
    \/ j.pad = k.pad /\ j.name.base < k.name.base
    \/ /\ j.pad = k.pad /\ j.name.base = k.name.base
       /\ ExtRank[j.name.ext] < ExtRank[k.name.ext]

KeysOf(label) == {k \in DOMAIN bucket : k.label = label}

\* The first key of a listing of backup/<label>/.
FirstKey(label) ==
    CHOOSE k \in KeysOf(label) : \A j \in KeysOf(label) : ~Precedes(j, k)

\* A PUT replaces the object.
WithObject(key, body) ==
    [k \in DOMAIN bucket \cup {key} |-> IF k = key THEN body ELSE bucket[k]]

Tick == now < MaxTime /\ now' = now + 1
=============================================================================
