----------------------------- MODULE MCReceivePath -----------------------------
(* An instance of ReceivePath for TLC.  10 and 11 are the prefix; a frame  *)
(* of one byte, one whose payload looks like the start of another frame, a *)
(* heartbeat that ends like the start of a prefix; noise, a length that is *)
(* too large for any frame, and one that is only wrong.                    *)
EXTENDS ReceivePath

Bytes == 0..30
Short == <<10, 11, 1, 7>>
Nested == <<10, 11, 4, 10, 11, 1, 8>>
Beat == <<10, 11, 1, 10>>
Frames == {Short, Nested}
Beats == {Beat}
Noise == <<5, 10>>
TooLong == <<10, 11, 30, 7>>
WrongLength == <<10, 11, 9>>
Errors == {Noise, TooLong, WrongLength}

(* The streams of this instance are those that FramesExact is proved for.  *)
ASSUME Unambiguous == NoFrameInside /\ NoSplitStart
=============================================================================
