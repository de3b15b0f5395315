--------------------------- MODULE ProfilerProofs ---------------------------
(***************************************************************************)
(* Profiler: its types, that a command is in force exactly when it is      *)
(* configured, and that no wake-up is lost, for all commands.              *)
(***************************************************************************)
EXTENDS Profiler, TLAPS

\* What the worker's fields may be after any of its operations.
Sound(k) == k \in CapType /\ (k.configured <=> k.cmd # None)

\* _stop leaves sound fields sound, whatever it is told.
LEMMA StoppedSound ==
    ASSUME NEW k, Sound(k), NEW suffix, NEW final
    PROVE  Sound(Stopped(k, suffix, final))
<1>1. CASE ~k.in_progress
  <2>1. Stopped(k, suffix, final) = [k EXCEPT !.configured = FALSE, !.cmd = None]
    BY <1>1 DEF Stopped
  <2> QED
    BY <2>1 DEF Sound, CapType
<1>2. CASE k.in_progress /\ Keeps(k, suffix, final)
  <2>1. Stopped(k, suffix, final) = [k EXCEPT !.in_progress = FALSE, !.stage = None]
    BY <1>2 DEF Stopped
  <2> QED
    BY <2>1 DEF Sound, CapType
<1>3. CASE k.in_progress /\ ~Keeps(k, suffix, final)
  <2>1. Stopped(k, suffix, final) =
          [k EXCEPT !.in_progress = FALSE, !.stage = None, !.configured = FALSE,
                    !.cmd = None, !.from = None]
    BY <1>3 DEF Stopped
  <2> QED
    BY <2>1 DEF Sound, CapType
<1> QED
  BY <1>1, <1>2, <1>3

\* _start does too.
LEMMA StartedSound ==
    ASSUME NEW k, Sound(k), NEW stage \in {None, "prefill", "decode"}
    PROVE  Sound(Started(k, stage))
<1>1. CASE k.in_progress
  BY <1>1 DEF Started
<1>2. CASE ~k.in_progress
  <2>1. Started(k, stage) = [k EXCEPT !.in_progress = TRUE, !.stage = stage, !.profiled_ct = 0]
    BY <1>2 DEF Started
  <2>2. 0 \in 0 .. MaxCount
    BY ProfilerAssumption
  <2> QED
    BY <2>1, <2>2 DEF Sound, CapType
<1> QED
  BY <1>1, <1>2

LEMMA UpType ==
    ASSUME NEW n \in 0 .. MaxCount
    PROVE  Up(n) \in 0 .. MaxCount
  BY ProfilerAssumption DEF Up

\* _configure puts its command in force.
LEMMA ConfiguredSound ==
    ASSUME NEW k, Sound(k), NEW c \in Cmds, NEW n \in Waits(c)
    PROVE  Sound(Configured(k, c, n))
<1>1. n \in Nat \cup {None}
  BY ProfilerAssumption DEF Waits
<1>2. c.num_steps \in Nat \cup {None} /\ c # None
  BY ProfilerAssumption
<1>3. 0 \in 0 .. MaxCount
  BY ProfilerAssumption
<1> QED
  BY <1>1, <1>2, <1>3 DEF Sound, CapType, Configured

\* _step_by_stage, for a prefill forward and for a decode forward.
LEMMA PrefillStageSound ==
    ASSUME NEW k, Sound(k)
    PROVE  Sound(PrefillStage(k))
<1> DEFINE other == IF k.in_progress /\ k.stage # "prefill" THEN Stopped(k, k.stage, FALSE) ELSE k
           s == IF k.prefill_ct = 0 THEN Started(other, "prefill") ELSE k
           t == [s EXCEPT !.prefill_ct = Up(@)]
<1>1. Sound(other)
  BY StoppedSound
<1>2. Sound(s)
  BY <1>1, StartedSound
<1> HIDE DEF s
<1>3. Sound(t)
  BY <1>2, UpType DEF Sound, CapType
<1> HIDE DEF t
<1>4. Sound(Stopped(t, "prefill", FALSE))
  BY <1>3, StoppedSound
<1> QED
  BY <1>3, <1>4 DEF PrefillStage, s, t

LEMMA DecodeStageSound ==
    ASSUME NEW k, Sound(k)
    PROVE  Sound(DecodeStage(k))
<1> DEFINE suffix == IF k.stage = None THEN "prefill" ELSE k.stage
           other == IF k.in_progress THEN Stopped(k, suffix, FALSE) ELSE k
           s == IF k.decode_ct = 0 THEN Started(other, "decode") ELSE k
           t == [s EXCEPT !.decode_ct = Up(@)]
<1>1. Sound(other)
  BY StoppedSound
<1>2. Sound(s)
  BY <1>1, StartedSound
<1> HIDE DEF s
<1>3. Sound(t)
  BY <1>2, UpType DEF Sound, CapType
<1> HIDE DEF t
<1>4. Sound(Stopped(t, "decode", TRUE))
  BY <1>3, StoppedSound
<1> QED
  BY <1>3, <1>4 DEF DecodeStage, s, t

IInv == TypeOK /\ ConfiguredByCmd /\ WakeCovers

LEMMA SoundIsTyped == IInv => Sound(cap)
  BY DEF IInv, TypeOK, ConfiguredByCmd, Sound

\* The invariant is inductive.
LEMMA Inductive == IInv /\ [Next]_vars => IInv'
<1> SUFFICES ASSUME IInv, [Next]_vars PROVE IInv'
  OBVIOUS
<1> USE DEF request
<1>0. Sound(cap)
  BY SoundIsTyped
<1>1. SUFFICES ASSUME Sound(cap') => cap' \in CapType /\ ConfiguredByCmd'
               PROVE  IInv'
  BY DEF Sound, ConfiguredByCmd
<1>2. ASSUME NEW c \in Cmds, RequestStart(c) PROVE IInv'
  BY <1>2 DEF RequestStart, IInv, TypeOK, ConfiguredByCmd, WakeCovers
<1>3. CASE RequestStop
  BY <1>3 DEF RequestStop, IInv, TypeOK, ConfiguredByCmd, WakeCovers
<1>4. ASSUME NEW who \in {"loop", "prefill", "decode"}, Poll(who) PROVE IInv'
  <2>1. Sound(cap')
    BY <1>0, <1>4, ProfilerAssumption DEF Poll, Sound, CapType
  <2> QED
    BY <2>1, <1>1, <1>4 DEF Poll, IInv, TypeOK, WakeCovers
<1>5. CASE Apply
  <2> DEFINE k == IF hand.stop THEN Stopped(cap, cap.stage, TRUE) ELSE cap
  <2>1. Sound(k)
    BY <1>0, StoppedSound
  <2> HIDE DEF k
  <2>2. ASSUME NEW c \in Cmds, NEW n \in Waits(c)
        PROVE  Sound(Configured(k, c, n)) /\ Sound(Started(Configured(k, c, n), None))
    BY <2>1, ConfiguredSound, StartedSound
  <2>3. hand.start \in Cmds \cup {None}
    BY DEF IInv, TypeOK
  <2>4. Sound(cap')
    BY <1>5, <2>1, <2>2, <2>3 DEF Apply, k
  <2>5. hand' \in [stop : BOOLEAN, start : Cmds \cup {None}]
    BY <1>5 DEF Apply, Empty
  <2> QED
    BY <2>4, <2>5, <1>1, <1>5 DEF Apply, IInv, TypeOK, WakeCovers
<1>6. CASE Clear
  BY <1>6 DEF Clear, WakeAfterPoll, IInv, TypeOK, ConfiguredByCmd, WakeCovers
<1>7. CASE Stage
  <2>1. Sound(PrefillStage(cap)) /\ Sound(DecodeStage(cap))
    BY <1>0, PrefillStageSound, DecodeStageSound
  <2>2. Sound(Started(cap, caller))
    BY <1>0, <1>7, StartedSound DEF Stage, IInv, TypeOK
  <2>3. Sound(cap')
    BY <1>0, <1>7, <2>1, <2>2 DEF Stage
  <2> QED
    BY <2>3, <1>1, <1>7 DEF Stage, IInv, TypeOK, WakeCovers
<1>8. CASE AfterForward
  <2> DEFINE k == [cap EXCEPT !.profiled_ct = Up(@)]
  <2>1. Sound(k)
    BY <1>0, UpType DEF Sound, CapType
  <2> HIDE DEF k
  <2>2. Sound(cap')
    BY <1>0, <1>8, <2>1, StoppedSound DEF AfterForward, k
  <2> QED
    BY <2>2, <1>1, <1>8 DEF AfterForward, IInv, TypeOK, WakeCovers
<1>9. CASE UNCHANGED vars
  BY <1>9 DEF vars, IInv, TypeOK, ConfiguredByCmd, WakeCovers
<1> QED
  BY <1>2, <1>3, <1>4, <1>5, <1>6, <1>7, <1>8, <1>9 DEF Next, Handler, Forward, Continue

LEMMA Initially == Init => IInv
<1> SUFFICES ASSUME Init PROVE IInv
  OBVIOUS
<1>1. Fresh \in CapType
  BY ProfilerAssumption DEF Fresh, CapType
<1>2. Fresh.cmd = None /\ Fresh.configured = FALSE
  BY DEF Fresh
<1> QED
  BY <1>1, <1>2 DEF Init, IInv, TypeOK, ConfiguredByCmd, WakeCovers, Empty

\* In every behaviour, for every set of commands, the fields keep their types and
\* a command is in force exactly when it is configured: no path of _stop leaves
\* one without the other (profiler.py:172-282).
THEOREM CommandInForce == Spec => [](TypeOK /\ ConfiguredByCmd)
<1>1. IInv => TypeOK /\ ConfiguredByCmd
  BY DEF IInv
<1> QED
  BY <1>1, Initially, Inductive, PTL DEF Spec

\* In every behaviour, a request that no poll has taken leaves the event set, so
\* the worker cannot sleep on it (profiler.py:90-136).
THEOREM NoWakeupLost == Spec => []WakeCovers
<1>1. IInv => WakeCovers
  BY DEF IInv
<1> QED
  BY <1>1, Initially, Inductive, PTL DEF Spec
=============================================================================
