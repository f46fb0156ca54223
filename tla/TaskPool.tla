-------------------------------- MODULE TaskPool --------------------------------
(***************************************************************************)
(* What a thread pool promises of the tasks handed to it: a task is        *)
(* refused, or it is accepted and then started at most once, in the order  *)
(* of acceptance; an accepted task is given up only once the pool closes.  *)
(***************************************************************************)
EXTENDS Sequences

CONSTANT Tasks      \* the tasks clients submit, each once

VARIABLES
    pending,        \* accepted tasks nobody has started, oldest first
    stage,          \* per task, what has become of it
    closing         \* whether the pool has been told to shut down

vars == <<pending, stage, closing>>

Init ==
    /\ pending = <<>>
    /\ stage = [t \in Tasks |-> "new"]
    /\ closing = FALSE

Moves(t, from, to) ==
    /\ stage[t] = from
    /\ stage' = [stage EXCEPT ![t] = to]

Accept(t) ==
    /\ Moves(t, "new", "pending")
    /\ pending' = Append(pending, t)
    /\ UNCHANGED closing

Refuse(t) ==
    /\ Moves(t, "new", "refused")
    /\ UNCHANGED <<pending, closing>>

\* The overflow policy NEW_THREAD: the task bypasses the queue.
StartAtOnce(t) ==
    /\ Moves(t, "new", "running")
    /\ UNCHANGED <<pending, closing>>

TakeOldest(t) == pending # <<>> /\ t = Head(pending) /\ pending' = Tail(pending)

Start(t) ==
    /\ TakeOldest(t)
    /\ Moves(t, "pending", "running")
    /\ UNCHANGED closing

Finish(t) ==
    /\ Moves(t, "running", "ran")
    /\ UNCHANGED <<pending, closing>>

GiveUp(t) ==
    /\ closing
    /\ TakeOldest(t)
    /\ Moves(t, "pending", "dropped")
    /\ UNCHANGED closing

Close ==
    /\ ~closing
    /\ closing' = TRUE
    /\ UNCHANGED <<pending, stage>>

Next ==
    \/ \E t \in Tasks :
          Accept(t) \/ Refuse(t) \/ StartAtOnce(t) \/ Start(t) \/ Finish(t) \/ GiveUp(t)
    \/ Close

Spec == Init /\ [][Next]_vars
================================================================================
