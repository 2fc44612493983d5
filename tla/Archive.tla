------------------------------- MODULE Archive -------------------------------
(***************************************************************************)
(* What the S3 jobs promise together.  Objects come to the store in any    *)
(* order, the older after the newer too, and none is ever taken away.  A   *)
(* machine that pulls some of them takes one at a time, none twice, and    *)
(* never goes back to one of an earlier time.                              *)
(***************************************************************************)
EXTENDS Integers

CONSTANTS
    Objects,   \* what may be stored
    Pullers,   \* the entries that pull
    Offered,   \* Offered[m]: the objects m may pull
    Taken(_)   \* Taken(o): the time of the backup that o is

VARIABLES
    stored,    \* the objects in the store
    pulled     \* pulled[m]: those that m has on disk

vars == <<stored, pulled>>

Init ==
    /\ stored = {}
    /\ pulled = [m \in Pullers |-> {}]

Store(o) ==
    /\ stored' = stored \cup {o}
    /\ UNCHANGED pulled

Pull(m, o) ==
    /\ o \in stored \cap Offered[m]
    /\ o \notin pulled[m]
    /\ \A p \in pulled[m] : Taken(p) <= Taken(o)
    /\ pulled' = [pulled EXCEPT ![m] = @ \cup {o}]
    /\ UNCHANGED stored

Next ==
    \/ \E o \in Objects : Store(o)
    \/ \E m \in Pullers, o \in Objects : Pull(m, o)

Spec == Init /\ [][Next]_vars
=============================================================================
