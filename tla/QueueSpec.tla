----------------------------- MODULE QueueSpec -----------------------------
(***************************************************************************)
(* What a queue of a running pipeline promises to the two sides of it and  *)
(* to the pipeline, and nothing of how (lib/src/core/queue.rs, the         *)
(* module's text and Queue's): what is accepted leaves at the other end in *)
(* the order it was accepted, one at a time; nothing leaves while the      *)
(* pipeline is paused or stopped, from the moment the call has returned;   *)
(* and what a Flush discards it discards between its call and its return,  *)
(* so that what is handed over after it is kept.                           *)
(***************************************************************************)
EXTENDS Sequences

CONSTANTS
    Items,      \* what can be handed over
    Callers     \* the threads that can ask for a Flush

VARIABLES
    between,    \* accepted and not yet gone at the other end, in order
    closed,     \* the queue is over, and what it still held with it
    held,       \* the pipeline is paused or stopped, and has been told so
    flushes     \* the callers whose Flush has not returned

vars == <<between, closed, held, flushes>>

Init == between = <<>> /\ ~closed /\ ~held /\ flushes = {}

Accept ==
    /\ ~closed
    /\ \E x \in Items : between' = Append(between, x)
    /\ UNCHANGED <<closed, held, flushes>>

HandOn ==
    /\ ~held
    /\ between # <<>> /\ between' = Tail(between)
    /\ UNCHANGED <<closed, held, flushes>>

Discard ==
    /\ flushes # {}
    /\ between' = <<>>
    /\ UNCHANGED <<closed, held, flushes>>

\* However it ends, all that waits for it is let go.
Close ==
    /\ ~closed /\ closed' = TRUE
    /\ between' = <<>> /\ flushes' = {}
    /\ UNCHANGED held

FlushCalled ==
    /\ ~closed
    /\ \E c \in Callers \ flushes : flushes' = flushes \union {c}
    /\ UNCHANGED <<between, closed, held>>

FlushReturns ==
    /\ flushes' \in SUBSET flushes
    /\ UNCHANGED <<between, closed, held>>

\* The pipeline's own: it pauses or stops, and it goes on.
Hold == ~held /\ held' = TRUE /\ UNCHANGED <<between, closed, flushes>>
Release == held /\ held' = FALSE /\ UNCHANGED <<between, closed, flushes>>

Next == \/ Accept \/ HandOn \/ Discard \/ Close
        \/ FlushCalled \/ FlushReturns \/ Hold \/ Release

Spec == Init /\ [][Next]_vars

=============================================================================
