---------------------------- MODULE SinkContract ----------------------------
(***************************************************************************)
(* What a sink owes the relay, independently of how it buffers: a bounded  *)
(* FIFO inbox that the relay fills and the sink's backend empties, which   *)
(* can be sealed once and stops only after it has emptied.  The Sink       *)
(* interface (internal/sinks/sink.go) has the two operations this is about,*)
(* WriteMessage (Accept) and Close (Seal ... Stop); AsyncSink is shown to  *)
(* implement it.                                                           *)
(***************************************************************************)
EXTENDS Naturals, Sequences

CONSTANTS
    Messages,   \* what may be written to the sink
    Bound       \* how many accepted messages may be unfinished at a time

VARIABLES
    inbox,      \* accepted and not finished, oldest first
    finished,   \* messages whose one delivery attempt is over, in order
    phase       \* life of the sink

vars == <<inbox, finished, phase>>

Phases == {"open", "sealed", "stopped", "aborted"}

\* The values the contract's variables range over.
ContractTypeOK ==
    /\ inbox \in Seq(Messages)
    /\ Len(inbox) <= Bound
    /\ finished \in Seq(Messages)
    /\ phase \in Phases

Init ==
    /\ inbox = <<>>
    /\ finished = <<>>
    /\ phase = "open"

\* A write is taken only while the sink is open and there is room.
Accept ==
    /\ phase = "open"
    /\ Len(inbox) < Bound
    /\ \E m \in Messages : inbox' = Append(inbox, m)
    /\ UNCHANGED <<finished, phase>>

\* The backend is done with the oldest message, successfully or not.
Finish ==
    /\ phase \in {"open", "sealed"}
    /\ inbox # <<>>
    /\ inbox' = Tail(inbox)
    /\ finished' = Append(finished, Head(inbox))
    /\ UNCHANGED phase

Seal ==
    /\ phase = "open"
    /\ phase' = "sealed"
    /\ UNCHANGED <<inbox, finished>>

\* Close returns to its caller: nothing accepted is left behind.
Stop ==
    /\ phase = "sealed"
    /\ inbox = <<>>
    /\ phase' = "stopped"
    /\ UNCHANGED <<inbox, finished>>

\* The process dies under the sink.
Abort ==
    /\ phase # "aborted"
    /\ phase' = "aborted"
    /\ UNCHANGED <<inbox, finished>>

Next == Accept \/ Finish \/ Seal \/ Stop \/ Abort

Spec == Init /\ [][Next]_vars

\* An open sink works off its inbox, and a sealed one stops.
FairSpec == Spec /\ WF_vars(Finish) /\ WF_vars(Stop)
=============================================================================
