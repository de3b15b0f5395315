----------------------------- MODULE ServerLoop -----------------------------
(***************************************************************************)
(* From the HTTP request to its answer: server/api.py with the loop of     *)
(* scheduler/loop.py.                                                      *)
(*                                                                         *)
(* Three kinds of threads share a job: the event loop, which queues it     *)
(* under _cv and awaits its future; a host-pool thread, which tokenizes it *)
(* and sets `ready`; and the worker, which picks jobs from the queue by    *)
(* longest prefix under a budget of beam rows, waits for their             *)
(* tokenization, runs them through prefill and decode, and posts their     *)
(* answers back to the event loop.  A job and its request are one here.    *)
(***************************************************************************)
EXTENDS Selection

CONSTANTS
    Jobs,
    N,          \* N[j]: beam width, at most Slots (chat_completions refuses more)
    Gen,        \* Gen[j]: decode steps after the prefill
    Slots,      \* resolved_batch_slots: the budget of beam rows
    SoftAdmit,  \* soft_admit_max_reqs
    MaxQueue,   \* max_queue_len
    Preferred,  \* preferred_batch_sizes, ascending
    InflightMin,\* target_admit_reqs, also inflight_min
    PackSlack,  \* max(target / 2, 4) of pack_release_count
    HighRate,   \* 4: recent batches from this size on mean a high rate
    ShortGenrec,\* decode is not interrupted by prefills
    MayFail,    \* jobs whose tokenization can raise
    AllAged,    \* every queued job has waited lpm_aging_ms: the oldest goes first
    MaxSteps,   \* max_steps of run_burst: 4096
    Resend      \* clients send again when answered

ASSUME ServerAssumption ==
    /\ \A j \in Jobs : N[j] \in 1 .. Slots /\ Gen[j] \in Nat
    /\ {Slots, SoftAdmit, MaxQueue, InflightMin, PackSlack, HighRate, MaxSteps} \subseteq Nat \ {0}
    /\ Preferred \in Seq(Nat \ {0}) /\ Preferred # <<>>
    /\ MayFail \subseteq Jobs
    /\ {ShortGenrec, AllAged, Resend} \subseteq BOOLEAN

VARIABLES
    queue,      \* _queue
    ready,      \* ready[j]: "no", "ok" or "failed": job.ready and job.error
    future,     \* future[j]: "none" before the job is sent, "pending", "result",
                \* "error", or "refused" for a 503
    posted,     \* callbacks handed to the event loop, in order
    by_rid,     \* job_by_rid
    waiting,    \* inflight.waiting
    running,    \* inflight.running
    left,       \* decode steps a running job still needs
    batch,      \* the jobs the worker has in hand
    next,       \* how many of them _submit_jobs has gone through
    recent,     \* recent_batch
    steps,      \* of the burst
    pc          \* the worker: "top", "window", "submit"; in a burst "burst",
                \* "extra" (submitting what peek took), "prefill", "decode"

vars == <<queue, ready, future, posted, by_rid, waiting, running, left, batch,
          next, recent, steps, pc>>

engine == <<waiting, running, left>>

Rows(js) == FoldLeft(LAMBDA n, j : n + N[j], 0, js)
Upto(s, n) == SubSeq(s, 1, n)
Without(js, S) == Only(js, Jobs \ S)

Busy == waiting # <<>> \/ running # <<>>
Used == Rows(running) + Rows(waiting)
UsedReqs == Len(running) + Len(waiting)

Init ==
    /\ queue = <<>>
    /\ ready = [j \in Jobs |-> "no"]
    /\ future = [j \in Jobs |-> "none"]
    /\ posted = <<>>
    /\ by_rid = {}
    /\ waiting = <<>>
    /\ running = <<>>
    /\ left = [j \in Jobs |-> 0]
    /\ batch = <<>>
    /\ next = 0
    /\ recent = 1
    /\ steps = 0
    /\ pc = "top"

-----------------------------------------------------------------------------
\* The event loop: chat_completions up to its await.
Send(j) ==
    /\ future[j] = "none"
    /\ \/ /\ Len(queue) < MaxQueue
          /\ queue' = Append(queue, j)
          /\ future' = [future EXCEPT ![j] = "pending"]
       \/ /\ Len(queue) >= MaxQueue
          /\ future' = [future EXCEPT ![j] = "refused"]
          /\ UNCHANGED queue
    /\ UNCHANGED <<ready, posted, by_rid, engine, batch, next, recent, steps, pc>>

\* A posted callback runs: it sets the future unless that is done.
Answer ==
    /\ posted # <<>>
    /\ posted' = Tail(posted)
    /\ LET m == Head(posted)
       IN  future' = IF future[m.job] = "pending"
                     THEN [future EXCEPT ![m.job] = m.outcome] ELSE future
    /\ UNCHANGED <<queue, ready, by_rid, engine, batch, next, recent, steps, pc>>

\* A client that has its answer sends another request like it.
Again(j) ==
    /\ Resend
    /\ future[j] \in {"result", "error", "refused"}
    /\ j \notin ToSet(waiting) \cup ToSet(running) \cup ToSet(batch)
    /\ ready' = [ready EXCEPT ![j] = "no"]
    /\ future' = [future EXCEPT ![j] = "none"]
    /\ UNCHANGED <<queue, posted, by_rid, engine, batch, next, recent, steps, pc>>

\* A host-pool thread: _tokenize_job, once the job is queued.
Tokenize(j) ==
    /\ future[j] = "pending"
    /\ ready[j] = "no"
    /\ \/ ready' = [ready EXCEPT ![j] = "ok"]
       \/ j \in MayFail /\ ready' = [ready EXCEPT ![j] = "failed"]
    /\ UNCHANGED <<queue, future, posted, by_rid, engine, batch, next, recent, steps, pc>>

-----------------------------------------------------------------------------
\* can_admit_job for a job of n rows.
CanAdmit(slots, reqs, n) ==
    /\ reqs < SoftAdmit
    /\ reqs > 0 => slots + n <= Slots

\* select_jobs_lpm: aged jobs first, the oldest before the others, then by the
\* length of their cached prefix, which can put them in any order.
Orders == IF AllAged THEN {queue} ELSE SetToSeqs(ToSet(queue))

AdmittedBeside(rows, reqs, order) ==
    FoldLeft(LAMBDA taken, j :
                IF CanAdmit(rows + Rows(taken), reqs + Len(taken), N[j])
                THEN Append(taken, j) ELSE taken,
             <<>>, order)

\* (mutant of Admitted: the waiting requests are not counted)
AdmittedRunning(order) == AdmittedBeside(Rows(running), Len(running), order)

Admitted(order) == AdmittedBeside(Used, UsedReqs, order)

\* The head of _run_worker's loop: pick jobs; if none fits, the first is
\* submitted all the same.  An idle worker first waits for more to come.
Forced(fit) == IF fit = <<>> THEN <<Head(queue)>> ELSE fit

Take ==
    /\ pc = "top"
    /\ queue # <<>>
    /\ \E order \in Orders :
         /\ batch' = Forced(Admitted(order))
         /\ queue' = Without(queue, ToSet(batch'))
    /\ pc' = IF Busy THEN "submit" ELSE "window"
    /\ UNCHANGED <<ready, future, posted, by_rid, engine, next, recent, steps>>

\* The straggler window: the head of the queue joins while it fits.
TakeMore ==
    /\ pc = "window"
    /\ queue # <<>>
    /\ Len(batch) < InflightMin
    /\ Rows(batch) < Slots
    /\ CanAdmit(Rows(batch), Len(batch), N[Head(queue)])
    /\ batch' = Append(batch, Head(queue))
    /\ queue' = Tail(queue)
    /\ UNCHANGED <<ready, future, posted, by_rid, engine, next, recent, steps, pc>>

\* The window closes.  pack_release_count: at a high rate a batch is cut to a
\* preferred size and the rest goes back to the head of the queue.
Largest(S) == CHOOSE n \in S : \A m \in S : m <= n

HighCap == Largest({Last(Preferred), InflightMin})

Released(n) ==
    IF recent < HighRate THEN n
    ELSE IF n >= HighCap THEN HighCap
    ELSE IF n >= InflightMin /\ n < InflightMin + PackSlack THEN InflightMin
    ELSE n

CloseWindow ==
    /\ pc = "window"
    /\ batch' = Upto(batch, Released(Len(batch)))
    /\ queue' = SubSeq(batch, Released(Len(batch)) + 1, Len(batch)) \o queue
    /\ pc' = "submit"
    /\ UNCHANGED <<ready, future, posted, by_rid, engine, next, recent, steps>>

\* The loop of _submit_jobs, which blocks until the job is tokenized.
Submitting == pc \in {"submit", "extra"} /\ next < Len(batch)

Submit ==
    /\ Submitting
    /\ ready[batch[next + 1]] = "ok"
    /\ by_rid' = by_rid \cup {batch[next + 1]}
    /\ waiting' = Append(waiting, batch[next + 1])
    /\ next' = next + 1
    /\ UNCHANGED <<queue, ready, future, posted, running, left, batch, recent, steps, pc>>

\* A job failed to tokenize: the whole batch gets its error, also the jobs that
\* are already submitted, whose requests stay with the engine.
Posts(js, outcome) == [i \in 1 .. Len(js) |-> [job |-> js[i], outcome |-> outcome]]

\* (mutant of Failed: only the first job gets the error)
FailedFirst(js) == Posts(Upto(js, 1), "error")

Failed(js) == Posts(js, "error")

\* job_by_rid without the jobs js (StillKnown, a mutant: they stay in it).
StillKnown(js) == by_rid

Unknown(js) == by_rid \ ToSet(js)

SubmitFails ==
    /\ Submitting
    /\ ready[batch[next + 1]] = "failed"
    /\ posted' = posted \o Failed(batch)
    /\ by_rid' = Unknown(batch)
    /\ next' = Len(batch)
    /\ UNCHANGED <<queue, ready, future, engine, batch, recent, steps, pc>>

Average(a, b) == (a + b) \div 2

Submitted ==
    /\ pc \in {"submit", "extra"}
    /\ next = Len(batch)
    /\ recent' = IF pc = "submit" THEN Largest({Len(batch), Average(recent, Len(batch)), 1})
                 ELSE recent
    /\ batch' = <<>>
    /\ next' = 0
    /\ pc' = IF pc = "extra" THEN "prefill" ELSE IF Busy THEN "burst" ELSE "top"
    /\ UNCHANGED <<queue, ready, future, posted, by_rid, engine, steps>>

-----------------------------------------------------------------------------
\* run_burst.  Nothing queued, but requests are left from the last burst.
Resume ==
    /\ pc = "top"
    /\ queue = <<>>
    /\ Busy
    /\ pc' = "burst"
    /\ UNCHANGED <<queue, ready, future, posted, by_rid, engine, batch, next, recent, steps>>

\* peek between steps: pick what fits beside the running and waiting requests.
Peek ==
    /\ pc = "burst"
    /\ Busy
    /\ steps < MaxSteps
    /\ \E order \in Orders : batch' = Admitted(order)
    /\ queue' = Without(queue, ToSet(batch'))
    /\ pc' = IF batch' = <<>> THEN "prefill" ELSE "extra"
    /\ UNCHANGED <<ready, future, posted, by_rid, engine, next, recent, steps>>

EndBurst ==
    /\ pc = "burst"
    /\ ~Busy \/ steps >= MaxSteps
    /\ steps' = 0
    /\ pc' = "top"
    /\ UNCHANGED <<queue, ready, future, posted, by_rid, engine, batch, next, recent>>

\* wants_prefill; every running request is expanded by its prefill
\* (WantsPrefillBusy, a mutant: an idle engine gets no exception).
WantsPrefillBusy ==
    /\ waiting # <<>>
    /\ ~ShortGenrec /\ Rows(running) + N[Head(waiting)] <= Slots

WantsPrefill ==
    /\ waiting # <<>>
    /\ running # <<>> => ~ShortGenrec /\ Rows(running) + N[Head(waiting)] <= Slots

\* take_prefill_batch: how many of the waiting requests to take.
Fits(k) == Rows(running) + Rows(Upto(waiting, k)) <= Slots

PreferredFit == {k \in ToSet(Preferred) : k <= Len(waiting) /\ (running = <<>> \/ Fits(k))}

PrefixFit == Largest({k \in 0 .. Len(waiting) : Fits(k)})

PrefillCount ==
    IF PreferredFit # {} THEN Largest(PreferredFit)
    ELSE IF running = <<>> THEN Len(waiting)
    ELSE IF InflightMin <= Len(waiting) /\ Fits(InflightMin) THEN InflightMin
    ELSE PrefixFit

\* Completing requests answers the jobs that are still known (CompletedAll, a
\* mutant: all of them).
CompletedAll(js) == js

Completed(js) == Only(js, by_rid)

Complete(js) ==
    /\ posted' = posted \o Posts(Completed(js), "result")
    /\ by_rid' = Unknown(js)

\* Which of the prefilled requests go on to decode.
GoesOn(rs) == Only(rs, {j \in Jobs : Gen[j] > 0})

\* _maybe_prefill; a request without decode steps is complete at once.
Prefill ==
    LET k == IF WantsPrefill THEN PrefillCount ELSE 0
        rs == Upto(waiting, k)
    IN  /\ pc = "prefill"
        /\ waiting' = SubSeq(waiting, k + 1, Len(waiting))
        /\ running' = running \o GoesOn(rs)
        /\ left' = [j \in Jobs |-> IF j \in ToSet(rs) THEN Gen[j] ELSE left[j]]
        /\ Complete(Only(rs, {j \in Jobs : Gen[j] = 0}))
        /\ pc' = "decode"
        /\ UNCHANGED <<queue, ready, future, batch, next, recent, steps>>

\* One forward over everything that runs.
Decode ==
    /\ pc = "decode"
    /\ left' = [j \in Jobs |-> IF j \in ToSet(running) THEN left[j] - 1 ELSE left[j]]
    /\ Complete(Only(running, {j \in Jobs : left[j] = 1}))
    /\ running' = Only(running, {j \in Jobs : left[j] > 1})
    /\ steps' = steps + 1
    /\ pc' = "burst"
    /\ UNCHANGED <<queue, ready, future, waiting, batch, next, recent>>

\* The engine raises: every job still known is answered with the error, and
\* the engine's requests are forgotten.
EngineRaises ==
    /\ pc \in {"prefill", "decode"}
    /\ posted' = posted \o Failed(SetToSeq(by_rid))
    /\ by_rid' = {}
    /\ waiting' = <<>>
    /\ running' = <<>>
    /\ steps' = 0
    /\ pc' = "top"
    /\ UNCHANGED <<queue, ready, future, left, batch, next, recent>>

WorkerStep ==
    \/ Take
    \/ TakeMore
    \/ CloseWindow
    \/ Submit
    \/ SubmitFails
    \/ Submitted
    \/ Resume
    \/ Peek
    \/ EndBurst
    \/ Prefill
    \/ Decode

Next ==
    \/ \E j \in Jobs : Send(j) \/ Again(j) \/ Tokenize(j)
    \/ Answer
    \/ WorkerStep
    \/ EngineRaises

Spec == Init /\ [][Next]_vars

\* The threads run; nothing makes a client send.
FairSpec ==
    /\ Spec
    /\ WF_vars(WorkerStep)
    /\ WF_vars(Answer)
    /\ \A j \in Jobs : WF_vars(Tokenize(j))

-----------------------------------------------------------------------------
\* A job that awaits its answer is in exactly one place: queued, in the worker's
\* hand, known to the engine by its rid, or answered by one posted callback.  So
\* no request is lost on an error path or answered twice (api.py:402-426,
\* 534-604).
Count(s, j) == Cardinality({i \in 1 .. Len(s) : s[i] = j})

InHand(j) == Count(SubSeq(batch, next + 1, Len(batch)), j)

PostsOf(j) == Cardinality({i \in 1 .. Len(posted) : posted[i].job = j})

AwaitedOnce ==
    \A j \in Jobs : future[j] = "pending" =>
        Count(queue, j) + InHand(j) + (IF j \in by_rid THEN 1 ELSE 0) + PostsOf(j) = 1

\* A callback finds its future pending: no answer is thrown away.
NoAnswerWasted == \A i \in 1 .. Len(posted) : future[posted[i].job] = "pending"

\* The engine's requests that a job waits for are exactly those in waiting or
\* running: a job known by its rid is never without a request, nor has two.
KnownIsServed ==
    \A j \in by_rid : Count(waiting, j) + Count(running, j) = 1

\* What was admitted fits the slot budget together, running and waiting: then
\* also the prefill of an idle engine, which does not look at the budget
\* (loop.py:101-108), fits it.
AdmittedWithinBudget == Used <= Slots

\* "Requests wait until the beam-row slot budget can hold them"
\* (docs/architecture.md:44): the beam rows that run stay within the budget.
RunningWithinBudget == Rows(running) <= Slots

\* A queue of answers drains: every job sent is answered or refused.
Answered == \A j \in Jobs : future[j] = "pending" ~> future[j] # "pending"
=============================================================================
