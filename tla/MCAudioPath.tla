---------------------------- MODULE MCAudioPath -----------------------------
(* Devices for TLC: real rates, ranges in either order, and every fallback.  *)
EXTENDS AudioPath

Mono48    == [rate |-> 48000, channels |-> 1]
AnyRange  ==
    {[channels |-> 1, min |-> 8000, max |-> 48000, format |-> "f32"],
     [channels |-> 1, min |-> 48000, max |-> 48000, format |-> "i16"],
     [channels |-> 1, min |-> 8000, max |-> 96000, format |-> "other"],
     [channels |-> 2, min |-> 48000, max |-> 48000, format |-> "f32"],
     [channels |-> 1, min |-> 16000, max |-> 16000, format |-> "i16"]}
AnyDefault ==
    {NoConfig,
     [rate |-> 48000, channels |-> 2, format |-> "f32"],
     [rate |-> 44100, channels |-> 2, format |-> "f32"],
     [rate |-> 16000, channels |-> 1, format |-> "i16"],
     [rate |-> 48000, channels |-> 6, format |-> "i32"]}
AnyDevice ==
    [ranges : UNION {[1..n -> AnyRange] : n \in 0..2}, default : AnyDefault]
=============================================================================
