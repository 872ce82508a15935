---------------------------- MODULE DeviceStates ----------------------------
(***************************************************************************)
(* What the bucket owes its readers, independently of how it is updated:   *)
(* for each key, the message that each field of its entry is from.         *)
(* Messages are published in their order.  Only the one that was published *)
(* last changes an entry, in one step: the fields of its own type get its  *)
(* values, and the others stay, or are gone if the entry begins anew.  So  *)
(* no reading and putting back of entries brings a replaced value back, or *)
(* takes one message's values away while another's are written.  NatsSink, *)
(* which reads, merges and puts, is shown to implement this.               *)
(***************************************************************************)
EXTENDS Naturals

CONSTANTS
    Messages,   \* [n, key, type]: n numbers them in the order they are published
    Keys,       \* keys of the bucket
    Fields,     \* fields of an entry
    FieldsOf    \* those a message of each type is about

VARIABLES
    newest,     \* the message that was published last
    latest      \* key -> field -> number of the message it is from, 0 for none

vars == <<newest, latest>>

NoMessage == [n |-> 0]

Nothing == [f \in Fields |-> 0]

Init ==
    /\ newest = NoMessage
    /\ latest = [k \in Keys |-> Nothing]

Publish ==
    /\ newest' \in Messages
    /\ newest'.n > newest.n
    /\ UNCHANGED latest

\* What the newest message makes of an entry.
Updated(entry) ==
    [f \in Fields |-> IF f \in FieldsOf[newest.type] THEN newest.n ELSE entry[f]]

Merge ==
    /\ newest # NoMessage
    /\ latest' = [latest EXCEPT ![newest.key] = Updated(@)]
    /\ UNCHANGED newest

\* The entry is not there, or cannot be read.
Begin ==
    /\ newest # NoMessage
    /\ latest' = [latest EXCEPT ![newest.key] = Updated(Nothing)]
    /\ UNCHANGED newest

\* An entry goes as a whole.
Forget ==
    /\ \E k \in Keys : latest' = [latest EXCEPT ![k] = Nothing]
    /\ UNCHANGED newest

Next == Publish \/ Merge \/ Begin \/ Forget

Spec == Init /\ [][Next]_vars

-----------------------------------------------------------------------------
(* What readers can rely on                                                *)

\* A field never goes back to a message that was published before the one it is
\* from: it is from a later one, or gone.
NeverGoesBack ==
    [][\A k \in Keys, f \in Fields : latest'[k][f] = 0 \/ latest'[k][f] >= latest[k][f]]_vars
=============================================================================
