---------------------------- MODULE MCServerLoop ----------------------------
(* Instances of ServerLoop for TLC. *)
EXTENDS ServerLoop

\* One wide job and four narrow ones: three can come together when two have been
\* served together, so that the batch is packed to two and one is put back.
MCJobs == 1 .. 5
MCN == <<2, 1, 1, 1, 1>>
MCGen == <<1, 0, 2, 1, 1>>
MCPreferred == <<1, 2>>

\* Two narrow clients that send again and again, and a wide job.
WideJobs == 1 .. 3
WideN == <<2, 1, 1>>
WideGen == <<1, 2, 2>>

\* Clients of equal width that send again and again.
EvenJobs == 1 .. 3
EvenN == <<1, 1, 1>>
EvenGen == <<1, 0, 2>>

\* Sustained load on an engine that does not prefill while it decodes: the step
\* limit of a burst, though no request is longer, is met with work left.
LoadJobs == 1 .. 4
LoadN == <<1, 2, 2, 1>>
LoadGen == <<1, 1, 1, 3>>
=============================================================================
