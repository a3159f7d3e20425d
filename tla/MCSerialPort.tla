---------------------------- MODULE MCSerialPort ----------------------------
(* Small instances of SerialPort: frames of 2 to 4 bytes in 8 bytes.       *)
EXTENDS SerialPort

CONSTANTS h1, h2

TwoHandles == {h1, h2}

Lengths == {2, 4}

\* A frame has its own length; before the first, bytes claim any length, and
\* within and behind frames one and the same.
StreamsOf(frames, zeros, pushes) ==
  {[length |-> 8,
    claims |-> [p \in 1 .. 8 |-> IF p \in DOMAIN frames THEN frames[p]
                                ELSE IF p \in zeros THEN 2
                                ELSE IF p <= 2 THEN noise[p] ELSE inside],
    intact |-> DOMAIN frames \union zeros, zeros |-> zeros, pushes |-> pushes] :
     noise \in [1 .. 2 -> Lengths], inside \in Lengths}

\* Noise, then two frames; a frame, two zeros, and a frame.
NoisyStreams == StreamsOf([p \in {3, 7} |-> IF p = 3 THEN 4 ELSE 2], {}, {3})
ZeroStreams == StreamsOf([p \in {1, 5} |-> IF p = 1 THEN 2 ELSE 4], {3}, {5})

SomeStreams == NoisyStreams \union ZeroStreams
=============================================================================
