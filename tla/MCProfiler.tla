----------------------------- MODULE MCProfiler -----------------------------
(* Instances of Profiler for TLC. *)
EXTENDS Profiler

CONSTANT NoOption

Cmd(num_steps, start_step, by_stage) ==
    [num_steps |-> num_steps, start_step |-> start_step, by_stage |-> by_stage]

\* Open-ended, counted, delayed, of no steps, and by stage with and without a
\* number of steps.
MCCmds == {Cmd(NoOption, NoOption, FALSE), Cmd(2, NoOption, FALSE), Cmd(1, 2, FALSE),
           Cmd(0, NoOption, FALSE), Cmd(1, NoOption, TRUE), Cmd(NoOption, NoOption, TRUE)}

\* A client that asks only for open-ended captures.
OpenCmds == {Cmd(NoOption, NoOption, FALSE)}
=============================================================================
