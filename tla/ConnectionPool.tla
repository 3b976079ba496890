--------------------------- MODULE ConnectionPool ---------------------------
(***************************************************************************)
(* The SQL connections of one uvicorn worker (app/utils/postgres_client.py) *)
(* and who waits for them: the handlers of POST /score on the event loop,  *)
(* and the shadow and discovery threads with sessions of their own.  A     *)
(* checkout on the loop stops the loop, while a padded request may keep    *)
(* its connection until the loop wakes it: each waits for the other until  *)
(* the checkout times out.                                                 *)
(***************************************************************************)
EXTENDS Naturals, FiniteSets

CONSTANTS
    Callers,    \* requests this worker receives
    PoolSize    \* pool_size and max_overflow together

VARIABLES
    step,       \* step[c]: where the handler of c stands
    thread,     \* thread[x]: the background session x of a caller
    out         \* sessions that have a connection

poolVars == <<step, thread, out>>

ASSUME PoolAssumption == PoolSize \in Nat \ {0} /\ IsFiniteSet(Callers)

\* The committee's shadow thread and the discovery thread of a caller.
Background == {"shadow", "discovery"} \X Callers

\* A handler has no await before its padding.
HoldsLoop == {"first", "work", "count", "reload", "rest"}

LoopIdle == \A c \in Callers : step[c] \notin HoldsLoop

\* A session takes a connection for its first statement, and for the first
\* one after each commit.
Asks(c) == step[c] \in {"first", "reload"}

RoomLeft == Cardinality(out) < PoolSize

Goes(c, to) == step' = [step EXCEPT ![c] = to]
-----------------------------------------------------------------------------
(* The handler.                                                            *)

PoolInit ==
    /\ step = [c \in Callers |-> "new"]
    /\ thread = [x \in Background |-> "none"]
    /\ out = {}

Accept(c) ==
    /\ step[c] = "new" /\ LoopIdle
    /\ Goes(c, "first")
    /\ UNCHANGED <<thread, out>>

CheckOut(c) ==
    /\ Asks(c) /\ RoomLeft
    /\ out' = out \cup {c}
    /\ Goes(c, IF step[c] = "first" THEN "work" ELSE "rest")
    /\ UNCHANGED thread

\* pool_timeout: QueuePool raises, before anything was done or after all of
\* it was committed.
CheckOutTimesOut(c) ==
    /\ Asks(c) /\ ~RoomLeft
    /\ Goes(c, "raised")
    /\ UNCHANGED <<thread, out>>

\* A shadow thread starts within the pipeline, a discovery thread after the
\* commit.
Launch(x) ==
    /\ thread[x] = "none"
    /\ step[x[2]] = IF x[1] = "shadow" THEN "work" ELSE "rest"
    /\ thread' = [thread EXCEPT ![x] = "asks"]
    /\ UNCHANGED <<step, out>>

\* log_score_event commits, which gives the connection back.
CommitScore(c) ==
    /\ step[c] = "work"
    /\ out' = out \ {c}
    /\ Goes(c, "count")
    /\ UNCHANGED thread

\* increment_velocity; with a Tier 3 score fraud_score_row.id is read next,
\* which the commit has expired.
CountVelocity(c) ==
    /\ step[c] = "count"
    /\ Goes(c, "reload") \/ Goes(c, "rest")
    /\ UNCHANGED <<thread, out>>

\* The database or Redis fails; the audit logger rolls back before it raises,
\* nothing else does.
HandlerRaises(c) ==
    /\ step[c] \in HoldsLoop \ {"rest"}
    /\ out' = out \/ (step[c] = "work" /\ out' = out \ {c})
    /\ Goes(c, "raised")
    /\ UNCHANGED thread

\* await asyncio.sleep: the session stays as it is.
Pad(c) ==
    /\ step[c] = "rest"
    /\ Goes(c, "padding")
    /\ UNCHANGED <<thread, out>>

\* The handler is over, and a thread of the pool is to finish get_db.
Leave(c) ==
    /\ step[c] \in {"padding", "raised"} /\ LoopIdle
    /\ Goes(c, IF step[c] = "raised" THEN "unwinding" ELSE "returning")
    /\ UNCHANGED <<thread, out>>

\* Variant of Close: get_db without its finally.
CloseUnlessRaised(c) ==
    /\ step[c] \in {"returning", "unwinding"}
    /\ out' = IF step[c] = "unwinding" THEN out ELSE out \ {c}
    /\ Goes(c, "closed")
    /\ UNCHANGED thread

Close(c) ==
    /\ step[c] \in {"returning", "unwinding"}
    /\ out' = out \ {c}
    /\ Goes(c, "closed")
    /\ UNCHANGED thread

Answer(c) ==
    /\ step[c] = "closed" /\ LoopIdle
    /\ Goes(c, "answered")
    /\ UNCHANGED <<thread, out>>
-----------------------------------------------------------------------------
(* Background sessions: one transaction each.                              *)

ThreadChecksOut(x) ==
    /\ thread[x] = "asks" /\ RoomLeft
    /\ thread' = [thread EXCEPT ![x] = "holds"]
    /\ out' = out \cup {x}
    /\ UNCHANGED step

\* Both threads log the error and end.
ThreadTimesOut(x) ==
    /\ thread[x] = "asks" /\ ~RoomLeft
    /\ thread' = [thread EXCEPT ![x] = "over"]
    /\ UNCHANGED <<step, out>>

ThreadCloses(x) ==
    /\ thread[x] = "holds"
    /\ thread' = [thread EXCEPT ![x] = "over"]
    /\ out' = out \ {x}
    /\ UNCHANGED step

Serve(c) ==
    \/ CheckOut(c) \/ CheckOutTimesOut(c)
    \/ CommitScore(c) \/ CountVelocity(c) \/ Pad(c)
    \/ Leave(c) \/ Close(c) \/ Answer(c)

RunThread(x) == ThreadChecksOut(x) \/ ThreadTimesOut(x) \/ ThreadCloses(x)

PoolNext ==
    \/ \E c \in Callers : Accept(c) \/ Serve(c) \/ HandlerRaises(c)
    \/ \E x \in Background : Launch(x) \/ RunThread(x)

\* What is accepted goes on: the loop, the threads and the pool's timer.
PoolFairness ==
    /\ \A c \in Callers : WF_poolVars(Serve(c))
    /\ \A x \in Background : WF_poolVars(RunThread(x))
-----------------------------------------------------------------------------
PoolTypeOK ==
    /\ step \in [Callers -> HoldsLoop \cup {"new", "padding", "raised", "returning",
                                            "unwinding", "closed", "answered"}]
    /\ thread \in [Background -> {"none", "asks", "holds", "over"}]
    /\ out \subseteq Callers \cup Background
    /\ Cardinality(out) <= PoolSize

\* However full the pool, a request that was accepted is answered and leaves
\* no connection behind, and so do its threads: although the loop can wait for
\* a connection whose holder waits for the loop (score.py:203,
\* postgres_client.py:6).
EveryoneServed ==
    \A c \in Callers :
        step[c] = "first" ~>
            /\ step[c] = "answered"
            /\ out \cap ({c} \cup {x \in Background : x[2] = c}) = {}
=============================================================================
