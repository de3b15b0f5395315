---------------------------- MODULE MCLaunchBuffers ----------------------------
(* Instances of LaunchBuffers for TLC. *)
EXTENDS LaunchBuffers

MCReqs == 1 .. 4

Mode(n, mixed, head, capture, gen, sampled) ==
    [pipes |-> n, mixed |-> mixed, head |-> head, capture |-> capture, gen |-> gen,
     sampled |-> sampled]

\* Requests of one length, as one catalog and one max_tokens make them, or not.
Even == <<2, 2, 2, 2>>
Uneven == <<2, 1, 3, 2>>

\* Up to 3 requests fit a graph, or all 4.
Plain == <<"plain", "plain", "plain">>
Single == <<"single", "none", "single", "single">>
PingPongs == <<"pingpong", "pingpong", "pingpong">>

MCModes ==
    {\* pipeline off, per-codebook head; two sizes failed to capture
     Mode(0, FALSE, "codebook", Plain, Uneven, {4}),
     Mode(0, FALSE, "codebook", <<"none", "plain", "none">>, Uneven, {}),
     \* full head, expand in the graph, with and without the second plane; then
     \* requests that end apart, which the pack refuses
     Mode(0, FALSE, "full", PingPongs, Even, {4}),
     Mode(0, TRUE, "full", Single, Uneven, {}),
     Mode(0, FALSE, "full", <<"none", "none", "pingpong">>, Uneven, {}),
     \* two pipes
     Mode(2, FALSE, "full", Plain, Uneven, {4}),
     Mode(2, TRUE, "full", Single, Uneven, {}),
     Mode(2, FALSE, "full", <<"pingpong", "none", "none">>, Even, {})}

\* Two pipes that replay one graph; requests of several depths in one launch.
HiddenModes == {Mode(2, FALSE, "codebook", Plain, Even, {})}
\* Two pipes of two or more requests that replay one graph with two token planes.
PlaneModes == {Mode(2, FALSE, "full", PingPongs, Even, {})}
MixedModes == {Mode(0, TRUE, "codebook", Plain, Even, {})}
=============================================================================
