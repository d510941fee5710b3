--------------------------- MODULE FrameOwnership ---------------------------
(***************************************************************************)
(* What the data path of stream_frame promises about a frame: it is free,  *)
(* or its source fills it, or it is shared by a number of readers; it goes *)
(* back to its source only after the last reader gave it up, and its       *)
(* memory is freed only while it is free.                                  *)
(***************************************************************************)
EXTENDS Naturals

CONSTANT Frames

VARIABLES phase,    \* "free", "filling", "shared" or "gone"
          shares    \* how many still read the frame

vars == <<phase, shares>>

Init == /\ phase = [f \in Frames |-> "free"]
        /\ shares = [f \in Frames |-> 0]

Take(f) ==
    /\ phase[f] = "free"
    /\ phase' = [phase EXCEPT ![f] = "filling"]
    /\ UNCHANGED shares

Publish(f) ==
    /\ phase[f] = "filling"
    /\ phase' = [phase EXCEPT ![f] = "shared"]
    /\ shares' = [shares EXCEPT ![f] = @ + 1]

(* Only who fills or reads a frame can let another one read it. *)
Share(f) ==
    /\ phase[f] = "filling" \/ (phase[f] = "shared" /\ shares[f] > 0)
    /\ shares' = [shares EXCEPT ![f] = @ + 1]
    /\ UNCHANGED phase

GiveUp(f) ==
    /\ phase[f] = "shared"
    /\ shares[f] > 0
    /\ shares' = [shares EXCEPT ![f] = @ - 1]
    /\ UNCHANGED phase

Recycle(f) ==
    /\ phase[f] = "shared"
    /\ shares[f] = 0
    /\ phase' = [phase EXCEPT ![f] = "free"]
    /\ UNCHANGED shares

Destroy(S) ==
    /\ \A f \in S : phase[f] = "free"
    /\ phase' = [f \in Frames |-> IF f \in S THEN "gone" ELSE phase[f]]
    /\ UNCHANGED shares

Create(S) ==
    /\ \A f \in S : phase[f] = "gone"
    /\ phase' = [f \in Frames |-> IF f \in S THEN "free" ELSE phase[f]]
    /\ UNCHANGED shares

Next ==
    \/ \E f \in Frames : \/ Take(f) \/ Publish(f) \/ Share(f)
                         \/ GiveUp(f) \/ Recycle(f)
    \/ \E S \in SUBSET Frames : Destroy(S) \/ Create(S)

Spec == Init /\ [][Next]_vars
=============================================================================
