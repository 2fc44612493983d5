----------------------------- MODULE AtomicCopy ------------------------------
(***************************************************************************)
(* What the local copy engine takes a strategy's Copy for: an operation on *)
(* a database that others keep writing, which either ends with the content *)
(* the database has at that moment, or fails and leaves nothing that could *)
(* be taken for a copy.                                                    *)
(***************************************************************************)
EXTENDS Naturals, Sequences

CONSTANT Nothing  \* no copy

VARIABLES
    content,  \* the pages of the database
    copying,  \* a copy is under way
    result    \* the pages of the copy that ended well, or Nothing

vars == <<content, copying, result>>

Init ==
    /\ content \in Seq(Nat)
    /\ copying = FALSE
    /\ result = Nothing

Change ==
    /\ content' \in Seq(Nat)
    /\ UNCHANGED <<copying, result>>

\* The destination has a name of its own: an earlier copy is another file.
Start ==
    /\ ~copying
    /\ copying' = TRUE /\ result' = Nothing
    /\ UNCHANGED content

Finish ==
    /\ copying
    /\ copying' = FALSE /\ result' = content
    /\ UNCHANGED content

Fail ==
    /\ copying
    /\ copying' = FALSE
    /\ UNCHANGED <<content, result>>

Next == Change \/ Start \/ Finish \/ Fail

Spec == Init /\ [][Next]_vars
=============================================================================
