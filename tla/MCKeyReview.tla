---------------------------- MODULE MCKeyReview ----------------------------
(* KeyReview for TLC.  The review of keys, their subscriptions and the        *)
(* approved domains share no row but the status of a key: each behaviour      *)
(* keeps to one of the three.                                                 *)
EXTENDS KeyReview, TLC

VARIABLE scene

MCInit ==
  /\ Init
  /\ \/ scene = "review" /\ ask = [d \in Domains |-> "none"]
     \/ scene = "subscribe" /\ ask = [d \in Domains |-> "none"]
     \/ scene = "domains" /\ profile = [k \in Keys |-> None]

MCNext ==
  /\ \/ scene = "review" /\ ReviewStep
     \/ scene = "subscribe" /\ (SubscribeStep \/ \E k \in Keys : PatchKey(k, "revoked"))
     \/ scene = "domains" /\ DomainStep
     \/ Restart
  /\ UNCHANGED scene

MCSpec == MCInit /\ [][MCNext]_<<vars, scene>>

Symmetry == Permutations(Keys) \cup Permutations(Orgs) \cup Permutations(Domains)
              \cup Permutations(Requests)
=============================================================================
