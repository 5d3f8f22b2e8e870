----------------------------- MODULE ClaimStore -----------------------------
(***************************************************************************)
(* What the retort promises its pistons, after formal/Claims.lean: a lock  *)
(* table that holds at most one piston per frame, and a store to which     *)
(* yields are only ever appended.  claimStep, releaseStep and freezeStep   *)
(* are actions here.  The engine needs two things more than the Lean       *)
(* model: several holders may lose their frame in one step (the reaper),   *)
(* and bottoming a frame overwrites all of its yields (Poison).            *)
(***************************************************************************)
CONSTANTS Frames, Slots, Pistons, NoPiston, Values, Absent, Bottom

VARIABLES
  holder,      \* holder[f]: the piston holding frame f, or NoPiston
  yieldStore   \* yieldStore[s]: the value stored for slot s, or Absent

storeVars == <<holder, yieldStore>>

Init ==
  /\ holder = [f \in Frames |-> NoPiston]
  /\ yieldStore \in [Slots -> Values \cup {Absent}]

\* Add a holder if the frame is free.
ClaimStep(f, p) ==
  /\ holder[f] = NoPiston
  /\ holder' = [holder EXCEPT ![f] = p]
  /\ UNCHANGED yieldStore

\* Remove the holders of a set of frames.
ReleaseStep(F) ==
  /\ holder' = [f \in Frames |-> IF f \in F THEN NoPiston ELSE holder[f]]
  /\ UNCHANGED yieldStore

\* Append yields not already present.
FreezeStep(S, v) ==
  /\ \A s \in S : yieldStore[s] = Absent
  /\ yieldStore' = [s \in Slots |-> IF s \in S THEN v ELSE yieldStore[s]]
  /\ UNCHANGED holder

\* Give every slot of a frame the bottom value.
Poison(f) ==
  /\ yieldStore' = [s \in Slots |-> IF s[1] = f THEN Bottom ELSE yieldStore[s]]
  /\ UNCHANGED holder

Next ==
  \/ \E f \in Frames, p \in Pistons : ClaimStep(f, p)
  \/ \E F \in SUBSET Frames : ReleaseStep(F)
  \/ \E S \in SUBSET Slots, v \in Values : FreezeStep(S, v)
  \/ \E f \in Frames : Poison(f)

Spec == Init /\ [][Next]_storeVars
=============================================================================
