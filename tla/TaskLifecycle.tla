--------------------------- MODULE TaskLifecycle ----------------------------
(***************************************************************************)
(* What the HTTP API of buildctl-daemon promises about a build task, with  *)
(* no word on goroutines, workers, retries or cancel handlers: a task that *)
(* has been accepted is queued or running until it ends in exactly one way, *)
(* it succeeds only when every image it asks for has been pushed, in order, *)
(* and it is forgotten only after it has ended.                            *)
(***************************************************************************)
EXTENDS Naturals, Sequences

CONSTANTS
    Tasks,   \* task IDs
    Wanted   \* the sequences of image formats a request may ask for

VARIABLES
    life,    \* what GET /v1/builds/<id> shows
    wanted,  \* the formats asked for
    pushed   \* how many of them have been pushed

vars == <<life, wanted, pushed>>

Init ==
    /\ life = [t \in Tasks |-> "absent"]
    /\ wanted \in [Tasks -> Wanted]
    /\ pushed = [t \in Tasks |-> 0]

Become(t, from, to) ==
    /\ life[t] \in from
    /\ life' = [life EXCEPT ![t] = to]
    /\ UNCHANGED pushed

\* POST /v1/builds is accepted.
Submit(t) ==
    /\ Become(t, {"absent"}, "queued")
    /\ \E w \in Wanted : wanted' = [wanted EXCEPT ![t] = w]

\* A solve starts on a worker, or the task goes back to waiting for one.
Assign(t)  == Become(t, {"queued"}, "running") /\ UNCHANGED wanted
Requeue(t) == Become(t, {"running"}, "queued") /\ UNCHANGED wanted

\* A solve completes. That of a canceled task may complete late, even after
\* the task has been forgotten; that of a task that has failed or succeeded
\* cannot.
Push(t) ==
    /\ life[t] \in {"running", "canceled", "removed"}
    /\ pushed[t] < Len(wanted[t])
    /\ pushed' = [pushed EXCEPT ![t] = @ + 1]
    /\ UNCHANGED <<life, wanted>>

Succeed(t) ==
    /\ pushed[t] = Len(wanted[t])
    /\ Become(t, {"running"}, "succeeded")
    /\ UNCHANGED wanted

Fail(t)   == Become(t, {"queued", "running"}, "failed") /\ UNCHANGED wanted
Cancel(t) == Become(t, {"queued", "running"}, "canceled") /\ UNCHANGED wanted

\* --keep-ttl expires, for several tasks at once.
Expire(S) ==
    /\ \A t \in S : life[t] \in {"succeeded", "failed", "canceled"}
    /\ life' = [t \in Tasks |-> IF t \in S THEN "removed" ELSE life[t]]
    /\ UNCHANGED <<wanted, pushed>>

End(t) == Succeed(t) \/ Fail(t) \/ Cancel(t)

Next ==
    \/ \E t \in Tasks : Submit(t) \/ Assign(t) \/ Requeue(t) \/ Push(t) \/ End(t)
    \/ \E S \in SUBSET Tasks : Expire(S)

Spec == Init /\ [][Next]_vars

\* A task does not stay queued or running for ever.
FairSpec == Spec /\ \A t \in Tasks : WF_vars(End(t))
=============================================================================
