-------------------------- MODULE MCEventLifecycle --------------------------
(* EventLifecycle for TLC.  Edits and what they announce need several         *)
(* requests and dispatches at once; images need attaches, a removal and the   *)
(* cron, and one request beside them.  Each behaviour keeps to one of the two. *)
EXTENDS EventLifecycle

CONSTANT FewRevs        \* bound on the writes of a behaviour about images

VARIABLE scene

MCInit == Init /\ scene \in {"edits", "images"}

OnePatcher == CHOOSE p \in Patchers : TRUE
OneSender == CHOOSE x \in Senders : TRUE

OneRequest ==
  /\ \A p \in Patchers \ {OnePatcher} : patch'[p] = NoPatch
  /\ \A x \in Senders \ {OneSender} : send'[x] = NoSend
  /\ rev' <= FewRevs

MCNext ==
  /\ Next
  /\ IF scene = "edits" THEN UNCHANGED <<att, rem>> ELSE OneRequest
  /\ UNCHANGED scene

MCSpec == MCInit /\ [][MCNext]_<<vars, scene>> /\ Fairness
=============================================================================
