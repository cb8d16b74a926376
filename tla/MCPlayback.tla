------------------------------- MODULE MCPlayback -------------------------------
(* An instance of Playback: a clip of a single key frame and one of three.  *)
EXTENDS Playback, TLC

CONSTANTS blink, wave

MCNumFrames == blink :> 1 @@ wave :> 3

\* With key frames two ticks apart: less than a key frame, one, more than one,
\* and longer than both clips (a frame that has loaded a scene).
MCDeltas == {1, 2, 3, 5}
=================================================================================
