------------------------------ MODULE Profiler ------------------------------
(***************************************************************************)
(* profiler.py: HTTP handlers ask for a capture to start or to stop; the   *)
(* worker thread does it, when its loop or a forward polls.  A request is  *)
(* passed under the lock, but what poll took is applied outside it, so a   *)
(* handler may run between the two.  A capture may also start at a later   *)
(* forward, end by itself after num_steps of them, or be split into one    *)
(* of prefill and one of decode forwards.                                  *)
(***************************************************************************)
EXTENDS Integers

CONSTANTS
    Cmds,       \* what clients ask for: [num_steps, start_step, by_stage]
    None,       \* an absent option or command
    MaxCount    \* bound of the model: counts stop here, above every num_steps

ASSUME ProfilerAssumption ==
    /\ MaxCount \in Nat
    /\ None \notin Nat \cup Cmds
    /\ \A c \in Cmds : /\ c.num_steps \in 0 .. MaxCount - 1 \cup {None}
                       /\ c.start_step \in Nat \cup {None}
                       /\ c.by_stage \in BOOLEAN

VARIABLES
    pending_start,
    pending_stop,
    wake,       \* _wake is set: the worker's wait ends
    cap,        \* the fields that only the worker writes
    hand,       \* what poll has taken and not yet applied
    pc,         \* the worker: "idle", in poll "apply" or "clear", in a forward
                \* "stage" (rest of on_forward) or "forward"
    caller      \* who polls: "loop", or a forward of "prefill" or "decode"

vars == <<pending_start, pending_stop, wake, cap, hand, pc, caller>>
request == <<pending_start, pending_stop, wake>>

\* from is the number of forwards until _start_forward_ct, None if that is unset.
Fresh == [in_progress |-> FALSE, configured |-> FALSE, cmd |-> None, from |-> None,
          profiled_ct |-> 0, prefill_ct |-> 0, decode_ct |-> 0, target |-> None,
          stage |-> None]

Empty == [stop |-> FALSE, start |-> None]

Init ==
    /\ pending_start = None
    /\ pending_stop = FALSE
    /\ wake = FALSE
    /\ cap = Fresh
    /\ hand = Empty
    /\ pc = "idle"
    /\ caller = "loop"

Up(n) == IF n < MaxCount THEN n + 1 ELSE n

-----------------------------------------------------------------------------
\* request_start, when it is accepted.
RequestStart(c) ==
    /\ ~cap.in_progress
    /\ pending_start = None
    /\ pending_start' = c
    /\ pending_stop' = FALSE
    /\ wake' = TRUE
    /\ UNCHANGED <<cap, hand, pc, caller>>

\* request_stop, when it is accepted.
RequestStop ==
    /\ cap.in_progress \/ pending_start # None \/ cap.configured
    /\ pending_stop' = TRUE
    /\ wake' = TRUE
    /\ UNCHANGED <<pending_start, cap, hand, pc, caller>>

-----------------------------------------------------------------------------
Immediate(c) == c.start_step = None /\ ~c.by_stage

\* _configure.  forward_ct may be anything, so a start_step is from one forward
\* to start_step forwards away.
Waits(c) == IF c.start_step \in {0, None} THEN {None} ELSE 1 .. c.start_step

CountsStages(c) == c.by_stage /\ c.num_steps \notin {0, None}

Configured(k, c, n) ==
    [k EXCEPT !.cmd = c, !.configured = TRUE, !.profiled_ct = 0, !.from = n,
              !.target = IF CountsStages(c) THEN c.num_steps ELSE None,
              !.prefill_ct = IF CountsStages(c) THEN 0 ELSE @,
              !.decode_ct = IF CountsStages(c) THEN 0 ELSE @]

\* _start
Started(k, stage) ==
    IF k.in_progress THEN k
    ELSE [k EXCEPT !.in_progress = TRUE, !.stage = stage, !.profiled_ct = 0]

\* _stop; keep is when the capture of a prefill stage makes way for decode.
Keeps(k, suffix, final) == ~final /\ k.cmd # None /\ k.cmd.by_stage /\ suffix = "prefill"

\* (mutants of Stopped: an unused command stays configured; a capture without a
\* command is not stopped)
StoppedHalf(k, suffix, final) ==
    IF ~k.in_progress THEN [k EXCEPT !.cmd = None]
    ELSE [k EXCEPT !.in_progress = FALSE, !.stage = None, !.configured = FALSE,
                   !.cmd = None, !.from = None]

StoppedIfKnown(k, suffix, final) ==
    IF k.cmd = None THEN k
    ELSE [k EXCEPT !.in_progress = FALSE, !.stage = None, !.configured = FALSE,
                   !.cmd = None, !.from = None]

Stopped(k, suffix, final) ==
    IF ~k.in_progress THEN [k EXCEPT !.configured = FALSE, !.cmd = None]
    ELSE IF Keeps(k, suffix, final) THEN [k EXCEPT !.in_progress = FALSE, !.stage = None]
    ELSE [k EXCEPT !.in_progress = FALSE, !.stage = None, !.configured = FALSE,
                   !.cmd = None, !.from = None]

\* _step_by_stage; target None is never exceeded.
Over(k, n) == k.target # None /\ n > k.target

PrefillStage(k) ==
    LET other == IF k.in_progress /\ k.stage # "prefill" THEN Stopped(k, k.stage, FALSE) ELSE k
        s == IF k.prefill_ct = 0 THEN Started(other, "prefill") ELSE k
        t == [s EXCEPT !.prefill_ct = Up(@)]
    IN  IF Over(t, t.prefill_ct) /\ t.in_progress THEN Stopped(t, "prefill", FALSE) ELSE t

DecodeStage(k) ==
    LET suffix == IF k.stage = None THEN "prefill" ELSE k.stage
        other == IF k.in_progress THEN Stopped(k, suffix, FALSE) ELSE k
        s == IF k.decode_ct = 0 THEN Started(other, "decode") ELSE k
        t == [s EXCEPT !.decode_ct = Up(@)]
    IN  IF Over(t, t.decode_ct) /\ t.in_progress THEN Stopped(t, "decode", TRUE) ELSE t

\* The head of poll, under the lock; a forward has counted itself before.
Poll(who) ==
    /\ pc = "idle"
    /\ hand' = [stop |-> pending_stop, start |-> IF pending_stop THEN None ELSE pending_start]
    /\ pending_stop' = FALSE
    /\ pending_start' = IF pending_stop THEN pending_start ELSE None
    /\ cap' = IF who = "loop" \/ cap.from \in {None, 0} THEN cap ELSE [cap EXCEPT !.from = @ - 1]
    /\ caller' = who
    /\ pc' = "apply"
    /\ UNCHANGED wake

Apply ==
    /\ pc = "apply"
    /\ LET k == IF hand.stop THEN Stopped(cap, cap.stage, TRUE) ELSE cap
           c == hand.start
       IN  IF c = None THEN cap' = k
           ELSE \E n \in Waits(c) :
                 cap' = IF Immediate(c) THEN Started(Configured(k, c, n), None)
                        ELSE Configured(k, c, n)
    /\ hand' = Empty
    /\ pc' = "clear"
    /\ UNCHANGED <<request, caller>>

\* The tail of poll, under the lock again (mutants: the event is cleared whatever
\* has come in meanwhile; only a stop keeps it set).
WakeNever == FALSE
WakeForStop == pending_stop

WakeAfterPoll == pending_start # None \/ pending_stop

Clear ==
    /\ pc = "clear"
    /\ wake' = (wake /\ WakeAfterPoll)
    /\ pc' = IF caller = "loop" THEN "idle" ELSE "stage"
    /\ UNCHANGED <<pending_start, pending_stop, cap, hand, caller>>

\* The rest of on_forward.
Stage ==
    /\ pc = "stage"
    /\ cap' = IF ~cap.configured \/ cap.cmd = None THEN cap
              ELSE IF cap.cmd.by_stage
              THEN IF caller = "prefill" THEN PrefillStage(cap) ELSE DecodeStage(cap)
              ELSE IF cap.from = 0 THEN Started(cap, caller) ELSE cap
    /\ pc' = "forward"
    /\ UNCHANGED <<request, hand, caller>>

\* after_forward (AllStepsExactly, a mutant: the count is compared for equality).
AllStepsExactly(k) == k.cmd.num_steps # None /\ k.profiled_ct = k.cmd.num_steps

AllSteps(k) == k.cmd.num_steps # None /\ k.profiled_ct >= k.cmd.num_steps

AfterForward ==
    LET k == [cap EXCEPT !.profiled_ct = Up(@)]
    IN  /\ pc = "forward"
        /\ cap' = IF ~cap.in_progress THEN cap
                  ELSE IF k.cmd # None /\ ~k.cmd.by_stage /\ AllSteps(k)
                  THEN Stopped(k, caller, TRUE) ELSE k
        /\ pc' = "idle"
        /\ UNCHANGED <<request, hand, caller>>

Handler == RequestStop \/ \E c \in Cmds : RequestStart(c)
Forward == \E who \in {"prefill", "decode"} : Poll(who)
Continue == Apply \/ Clear \/ Stage \/ AfterForward

Next == Handler \/ Poll("loop") \/ Forward \/ Continue

Spec == Init /\ [][Next]_vars

\* The worker goes on with what it has begun and polls when it is woken.
FairSpec == Spec /\ WF_vars(Continue) /\ WF_vars(wake /\ (Poll("loop") \/ Forward))

-----------------------------------------------------------------------------
CapType ==
    [in_progress : BOOLEAN, configured : BOOLEAN, cmd : Cmds \cup {None},
     from : Nat \cup {None}, profiled_ct : 0 .. MaxCount, prefill_ct : 0 .. MaxCount,
     decode_ct : 0 .. MaxCount, target : Nat \cup {None},
     stage : {None, "prefill", "decode"}]

TypeOK ==
    /\ pending_start \in Cmds \cup {None} /\ pending_stop \in BOOLEAN /\ wake \in BOOLEAN
    /\ cap \in CapType
    /\ hand \in [stop : BOOLEAN, start : Cmds \cup {None}]
    /\ pc \in {"idle", "apply", "clear", "stage", "forward"}
    /\ caller \in {"loop", "prefill", "decode"}
    /\ pc \in {"stage", "forward"} => caller # "loop"

\* configured and cmd say the same, through every path of _stop: on_forward and
\* after_forward, which each look at one of them, never disagree on whether a
\* command is in force (profiler.py:138-170, 257-282).
ConfiguredByCmd == cap.configured <=> cap.cmd # None

\* No wake-up is lost: whatever comes in between the head and the tail of poll,
\* a request that no poll has taken leaves the event set (profiler.py:134-136).
WakeCovers == pending_start # None \/ pending_stop => wake

\* A start that does not wait for anything begins its capture, even with no
\* forward to poll for it, unless a stop comes (profiler.py:117-133).
StartWorks ==
    pending_start # None /\ Immediate(pending_start) ~> cap.in_progress \/ pending_stop

\* A stop requested during a capture ends it, whatever command it is under, or
\* none (profiler.py:107-115, 257-282).
StopWorks == cap.in_progress /\ pending_stop ~> ~cap.in_progress

\* "auto-stops at num_steps" (docs/configuration.md:206): if forwards keep coming,
\* a capture of a number of steps ends, also if that number is 0.
Counted ==
    cap.in_progress /\ cap.cmd # None /\ ~cap.cmd.by_stage /\ cap.cmd.num_steps # None

AutoStops == []<><<Forward>>_vars => (Counted ~> ~Counted)

\* "End the capture, write the trace" (docs/api.md:23): after a stop is accepted
\* there is, at some moment, no capture and none about to begin.
Capturing == cap.in_progress \/ pending_start # None \/ hand.start # None

StopEnds == pending_stop ~> ~Capturing
=============================================================================
