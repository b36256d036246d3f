------------------------------ MODULE FrameDecoder ------------------------------
(***************************************************************************)
(* LuxFrameDecoder (custom_components/lxp_modbus/classes/frame_decoder.py):*)
(* what feed() makes of the bytes it has buffered, as a function.          *)
(*                                                                         *)
(* A frame starts with the prefix A1 1A and carries its length.  Bytes are *)
(* numbers; the six bytes of the header are three here, the prefix and the *)
(* length.  Whether a frame passes its checksum is a set of frames.        *)
(***************************************************************************)
EXTENDS Naturals, Sequences, FiniteSets, SequencesExt, FiniteSetsExt

CONSTANTS
    Byte,         \* the bytes
    First, Second,\* the two bytes of the prefix
    MaxFrame,     \* max_frame_size
    Accepted,     \* frames that LxpResponse and the session accept as data
    Heartbeats    \* frames with TCP function 193, which has no checksum

Header == 3
MinFrame == Header + 1
Intact == Accepted \cup Heartbeats

(* Where a prefix starts in a buffer, and the candidate frame there.       *)
Starts(b) == {i \in 1..(Len(b) - 1) : b[i] = First /\ b[i + 1] = Second}
Headed(b, i) == i + Header - 1 <= Len(b)
Declared(b, i) == b[i + 2] + Header
Plausible(b, i) == Declared(b, i) >= MinFrame /\ Declared(b, i) <= MaxFrame
Complete(b, i) == Len(b) - i + 1 >= Declared(b, i)
Frame(b, i) == SubSeq(b, i, i + Declared(b, i) - 1)
From(b, i) == SubSeq(b, i, Len(b))

ASSUME ByteAssumption ==
    /\ Byte \subseteq Nat /\ {First, Second} \subseteq Byte /\ First # Second
    /\ MaxFrame \in Nat /\ MaxFrame >= MinFrame
ASSUME FrameAssumption ==
    \A f \in Intact :
        /\ f \in Seq(Byte) /\ 1 \in Starts(f) /\ Headed(f, 1)
        /\ Plausible(f, 1) /\ Len(f) = Declared(f, 1)

(* _find_valid_later_frame: whole accepted frames behind the first one.    *)
LaterFrames(b) ==
    {i \in Starts(b) : i > 2 /\ Headed(b, i) /\ Plausible(b, i)
                         /\ Complete(b, i) /\ Frame(b, i) \in Accepted}
(* Mutant of Later: only the next candidate is looked at.                  *)
NextCandidate(b) ==
    {i \in LaterFrames(b) : \A j \in Starts(b) : j > 2 => j >= i}
Later(b) == LaterFrames(b)

(* A possible first byte of a split prefix is kept.                        *)
SplitPrefix(b) == IF b # <<>> /\ Last(b) = First THEN <<First>> ELSE <<>>
NothingKept(b) == <<>>                          \* mutant of Retained
Retained(b) == SplitPrefix(b)

(* The frames, the bytes left over, the bytes dropped and the malformed    *)
(* lengths, from where a loop iteration leaves the buffer to the end.      *)
Stop(b) == [frames |-> <<>>, rest |-> b, discarded |-> 0, malformed |-> 0]
Emit(f, r) == [r EXCEPT !.frames = <<f>> \o @]
Drop(n, r) == [r EXCEPT !.discarded = @ + n]
DropUncounted(n, r) == r                        \* mutant of Skip
Skip(n, r) == Drop(n, r)
Malformed(n, r) == [Skip(n, r) EXCEPT !.malformed = @ + 1]

(* The byte a corrupt length costs, and its mutant: the whole buffer.      *)
OneByte(b) == 1
WholeBuffer(b) == Len(b)
BadLength(b) == OneByte(b)

Decode[b \in Seq(Byte)] ==
    IF Starts(b) = {}
    THEN Skip(Len(b) - Len(Retained(b)), Stop(Retained(b)))
    ELSE LET start == Min(Starts(b)) IN
         IF start > 1 THEN Skip(start - 1, Decode[From(b, start)])
         ELSE IF ~Headed(b, 1) THEN Stop(b)
         ELSE IF ~Plausible(b, 1)
              THEN Malformed(BadLength(b), Decode[From(b, BadLength(b) + 1)])
         ELSE IF Complete(b, 1)
              THEN Emit(Frame(b, 1), Decode[From(b, Declared(b, 1) + 1)])
         ELSE IF Later(b) # {}
              THEN Malformed(Min(Later(b)) - 1, Decode[From(b, Min(Later(b)))])
         ELSE Stop(b)

(* feed(data) with what is buffered.                                       *)
Feed(buffer, data) == Decode[buffer \o data]
=============================================================================
