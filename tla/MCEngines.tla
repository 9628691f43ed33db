------------------------------ MODULE MCEngines ------------------------------
(* Engines for TLC: uploads at the boundaries of the checks.                *)
EXTENDS Engines

MCUploads ==
    {[bytes |-> b, loud |-> TRUE] :
        b \in {MinSamples * SampleBytes - SampleBytes, MinSamples * SampleBytes,
               MinSamples * SampleBytes + 1, MaxBytes, MaxBytes + SampleBytes}}
    \cup {[bytes |-> MaxBytes, loud |-> FALSE]}
==============================================================================
