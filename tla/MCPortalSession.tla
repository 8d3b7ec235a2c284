-------------------------- MODULE MCPortalSession --------------------------
(* PortalSession for TLC.  Signing in, stepping up and the logo share the     *)
(* sessions and nothing else, so each behaviour keeps to one of the three:    *)
(* the states add up instead of multiplying.                                  *)
EXTENDS PortalSession, TLC

VARIABLE scene

MCInit == Init /\ scene \in {"signIn", "mfa", "logo"}

MCNext ==
  /\ \/ scene = "signIn" /\ (SignInStep \/ \E s \in Sessions : SessionExpires(s))
     \/ scene = "mfa"    /\ MfaStep
     \/ scene = "logo"   /\ LogoStep
     \/ \E s \in Sessions : SignedUp(s) \/ Forget(s)
     \/ Restart
  /\ UNCHANGED scene

MCSpec == MCInit /\ [][MCNext]_<<vars, scene>>

Symmetry == Permutations(Links) \cup Permutations(Sessions) \cup Permutations(Codes)
              \cup Permutations(Requests)

\* What was counted before step-ups overlapped decides nothing after it.
View == IF "mfa" \in disturbed
        THEN <<signIn, enrolled, codes, failed, locked, lastStep, now, gate, text, picture, req,
               disturbed, scene>>
        ELSE <<vars, scene>>
=============================================================================
