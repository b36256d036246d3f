------------------------------- MODULE ReceivePath -------------------------------
(***************************************************************************)
(* The receiving half of LuxReadSession (custom_components/lxp_modbus/     *)
(* classes/read_session.py): the reader task feeds what TCP delivers, in   *)
(* chunks of any size, to the decoder (FrameDecoder), routes each frame    *)
(* and publishes what it accepts (ObservationSubscription).  A chunk is    *)
(* handled without an await, so it is one step.  What is sent, fed and     *)
(* emitted is remembered for the properties only.                          *)
(***************************************************************************)
EXTENDS FrameDecoder, ObservationSubscription

CONSTANTS
    Damage,          \* what the dongle may send instead of a frame
    MaxSent,         \* bound: packets sent
    MaxConnections   \* bound: connections

ASSUME StreamAssumption ==
    Damage \subseteq Seq(Byte) /\ {MaxSent, MaxConnections} \subseteq Nat

VARIABLES
    sent,            \* the packets the dongle has sent on this connection
    wire,            \* the bytes of them that TCP has yet to deliver
    fed,             \* the number of bytes it has delivered
    buffer,          \* the decoder's _buffer
    emitted,         \* the frames it has returned
    discarded,       \* its _discarded_bytes
    cut,             \* whether a partial frame was discarded
    invalid,         \* what it added to _invalid_frames
    packets,         \* packets sent on all connections, counter of the bound
    connections      \* _connections

decoder == <<buffer, emitted, discarded, cut, invalid>>
vars == <<sent, wire, fed, decoder, packets, connections, sequence, subscription,
          subscribes>>

Init ==
    /\ SubscriptionInit
    /\ sent = <<>> /\ wire = <<>> /\ fed = 0 /\ buffer = <<>> /\ emitted = <<>>
    /\ discarded = 0 /\ cut = FALSE /\ invalid = 0 /\ packets = 0
    /\ connections = 1

(* The dongle sends a packet.                                              *)
Send(packet) ==
    /\ packets < MaxSent
    /\ packets' = packets + 1
    /\ sent' = Append(sent, packet)
    /\ wire' = wire \o packet
    /\ UNCHANGED <<fed, decoder, connections, sequence, subscription, subscribes>>

(* _reader_loop receives n bytes: feed, then _route_frame for each frame.  *)
Observations(frames) == Cardinality({i \in DOMAIN frames : frames[i] \in Accepted})
Rejected(frames) == Cardinality({i \in DOMAIN frames : frames[i] \notin Intact})
Receive(n) ==
    LET result == Feed(buffer, SubSeq(wire, 1, n)) IN
    /\ n <= Len(wire)
    /\ wire' = SubSeq(wire, n + 1, Len(wire)) /\ fed' = fed + n
    /\ buffer' = result.rest
    /\ emitted' = emitted \o result.frames
    /\ discarded' = discarded + result.discarded
    /\ invalid' = invalid + result.malformed + Rejected(result.frames)
    /\ Publish(Observations(result.frames))
    /\ UNCHANGED <<sent, cut, packets, connections>>

(* Nothing follows a partial frame in time: discard_partial.               *)
PartialTimeout ==
    /\ buffer # <<>>
    /\ discarded' = discarded + Len(buffer)
    /\ buffer' = <<>> /\ cut' = TRUE /\ invalid' = invalid + 1
    /\ UNCHANGED <<sent, wire, fed, emitted, packets, connections, sequence,
                   subscription, subscribes>>

(* The connection is closed, with what is buffered, and replaced by one    *)
(* with a decoder of its own (_connect_locked, async_close).               *)
Reconnect ==
    /\ connections < MaxConnections
    /\ connections' = connections + 1
    /\ sent' = <<>> /\ wire' = <<>> /\ fed' = 0
    /\ buffer' = <<>> /\ emitted' = <<>> /\ discarded' = 0 /\ cut' = FALSE
    /\ invalid' = 0
    /\ UNCHANGED <<packets, sequence, subscription, subscribes>>

Stream ==
    \/ \E packet \in Intact \cup Damage : Send(packet)
    \/ \E n \in 1..Len(wire) : Receive(n)
    \/ PartialTimeout \/ Reconnect
Consumer ==
    /\ ConsumerStep
    /\ UNCHANGED <<sent, wire, fed, decoder, packets, connections>>
Next == Stream \/ Consumer

Spec == Init /\ [][Next]_vars

-----------------------------------------------------------------------------
(* Properties                                                              *)

TypeOK ==
    /\ SubscriptionType
    /\ sent \in Seq(Intact \cup Damage) /\ wire \in Seq(Byte) /\ buffer \in Seq(Byte)
    /\ emitted \in Seq(Seq(Byte)) /\ cut \in BOOLEAN
    /\ {fed, discarded, invalid, packets, connections} \subseteq Nat

(* Damage that the decoder always gets over: noise without a prefix, and a *)
(* prefix with a length no frame has.                                      *)
Recoverable(packet) ==
    \/ Starts(packet) = {}
    \/ Starts(packet) = {1} /\ Headed(packet, 1) /\ ~Plausible(packet, 1)

(* What no decoder could tell from a frame: a whole frame inside another   *)
(* one, that is found while the outer one is partial, and a prefix that    *)
(* two pieces of noise make together.  Streams without these are those     *)
(* that FramesExact is proved for.                                         *)
NoFrameInside == \A f \in Intact : LaterFrames(f) = {}
NoSplitStart == \A p \in Damage : Starts(p) = {} /\ p # <<>> => p[1] # Second

(* The frames among packets, in order.                                     *)
IntactOf(s) == FlattenSeq([i \in 1..Len(s) |-> IF s[i] \in Intact THEN <<s[i]>> ELSE <<>>])

(* "Assemble complete Lux frames across arbitrary TCP read boundaries",    *)
(* also between bytes of no frame and corrupt lengths ("so a following     *)
(* valid prefix remains discoverable even after a corrupt length field"):  *)
(* the frames are those that were sent on this connection, in order, and   *)
(* all of them once their last byte has arrived; a stream of frames alone  *)
(* costs no byte and no count of an invalid frame.                         *)
FramesExact ==
    ~cut /\ (\A i \in 1..Len(sent) : sent[i] \in Intact \/ Recoverable(sent[i])) =>
        LET frames == IntactOf(sent) IN
        /\ IsPrefix(emitted, frames)
        /\ wire = <<>> => emitted = frames
        /\ Len(frames) = Len(sent) => discarded = 0 /\ invalid = 0

(* No byte is lost uncounted or counted twice: what arrived was returned   *)
(* in a frame, discarded, or is buffered (and the variables have their     *)
(* types).                                                                 *)
BytesAccounted ==
    TypeOK /\ fed = Len(FlattenSeq(emitted)) + discarded + Len(buffer)

(* "A corrupt but plausible length can otherwise hold a complete following *)
(* frame hostage": no complete valid frame waits behind a partial one.     *)
NoHostage == LaterFrames(buffer) = {}
=============================================================================
