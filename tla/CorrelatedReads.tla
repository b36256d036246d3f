---------------------------- MODULE CorrelatedReads ----------------------------
(***************************************************************************)
(* What a caller of LuxReadSession.async_read_input may rely on, with no   *)
(* connection, generation or lock in sight: reads run one at a time, each  *)
(* run ends, and a run yields at most the dongle's answer to the read that *)
(* is running -- never one that answers an earlier read.                   *)
(***************************************************************************)
EXTENDS Naturals

CONSTANTS Callers, None

VARIABLES
    running,      \* the caller whose read is running
    issued,       \* reads issued so far; the running one is the latest
    delivered     \* the read whose answer the running read received, or 0

vars == <<running, issued, delivered>>

Init == running = None /\ issued = 0 /\ delivered = 0

Start(p) ==
    /\ running = None
    /\ running' = p /\ issued' = issued + 1 /\ delivered' = 0

Deliver ==
    /\ running # None /\ delivered = 0
    /\ delivered' = issued
    /\ UNCHANGED <<running, issued>>

(* With the answer or with an error; a caller may also lose an answer that *)
(* came too late.                                                          *)
Finish(p) ==
    /\ running = p
    /\ running' = None /\ delivered' = 0
    /\ UNCHANGED issued

Next == Deliver \/ \E p \in Callers : Start(p) \/ Finish(p)

Spec == Init /\ [][Next]_vars
FairSpec == Spec /\ \A p \in Callers : WF_vars(Finish(p))
=============================================================================
