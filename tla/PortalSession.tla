---------------------------- MODULE PortalSession ----------------------------
(***************************************************************************)
(* What a developer does in the portal once provisioned                    *)
(* (src/routes/developers.ts): sign in by a mailed link                    *)
(* (src/lib/developer-portal/magic-links.ts) into a session (sessions.ts), *)
(* enrol an authenticator, step up with a code of it or a backup code      *)
(* (totp.ts, backup-codes.ts), rotate the key, change the logo.            *)
(*                                                                         *)
(* There is one key, the newest of its address.  Every SQL statement and   *)
(* every call of the object store is one action, and each may be refused:  *)
(* the code looks at the error of some only.  A request that is turned     *)
(* away without a write is no step.                                        *)
(***************************************************************************)
EXTENDS Naturals, FiniteSets

CONSTANTS
  Links, Sessions,  \* rows of magic_login_tokens and developer_sessions
  Codes,            \* the backup codes of a batch
  Requests,         \* requests that may be in flight together
  None,             \* NULL
  MaxAttempts,      \* MFA_MAX_ATTEMPTS
  MaxStep           \* TOTP time steps (bound)

ASSUME IdsAssumption   == None \notin Links \cup Sessions \cup Codes
ASSUME LimitAssumption == MaxAttempts \in Nat \ {0} /\ MaxStep \in Nat \ {0}

VARIABLES
  active,                      \* api_keys.status = 'active'
  link, sess,                  \* rows of links and sessions
  elevated,                    \* sessions with mfa_verified_at inside the window
  enrolled, codes,             \* mfa_enrolled_at, mfa_backup_codes_hashed
  failed, locked, lastStep,    \* mfa_failed_attempts, mfa_locked_until, mfa_last_totp_step
  now,                         \* the TOTP time step
  text,                        \* the other fields of the profile: they change
  logo, object,                \* logo_url is set; the object it names is stored
  req,                         \* requests in flight
  opened,                      \* history: sessions a link has opened
  spent, passed,               \* history: backup codes and TOTP steps accepted
  again,                       \* history: one of them was accepted a second time
  streak,                      \* history: wrong codes in a row, up to MaxAttempts
  vouched, admitted,           \* history: sessions a code was accepted in, that a gate let in
  disturbed                    \* history: pages of which requests overlapped or lost a write

signIn  == <<active, link, sess, opened>>
factor  == <<enrolled, codes, spent, passed, again>>
guesses == <<failed, locked, lastStep, now, streak>>
gate    == <<elevated, vouched, admitted>>
mfa     == <<factor, guesses, gate>>
picture == <<logo, object>>
vars    == <<signIn, mfa, text, picture, req, disturbed>>

-----------------------------------------------------------------------------
Steps == 1 .. MaxStep

MfaPcs  == {"enrollRead", "enroll", "mfaRead", "spend", "fail", "clear", "elevate"}
LogoPcs == {"put", "point", "unpoint", "remove"}
Pages   == [mfa |-> MfaPcs, logo |-> LogoPcs]
Pcs     == {"idle", "issue", "claim", "dropLink", "findKey", "newSession", "refresh"}
             \cup MfaPcs \cup LogoPcs

Req  == [pc   : Pcs,
         s    : Sessions \cup {None},   \* req.developerSession
         link : Links \cup {None},      \* the link being redeemed
         n    : 0 .. MaxAttempts - 1,   \* mfa_failed_attempts as read
         code : Codes \cup {None},      \* the backup code that matched
         rest : SUBSET Codes,           \* the list without it
         step : {0} \cup Steps]         \* consumedTotpStep, 0: null
Idle == [pc |-> "idle", s |-> None, link |-> None, n |-> 0, code |-> None, rest |-> {},
         step |-> 0]

\* Every variable keeps its type; in particular the failures counted stay below
\* the limit.
TypeOK ==
  /\ active \in BOOLEAN
  /\ link \in [Links -> {"none", "open", "stale", "used", "gone"}]
  /\ sess \in [Sessions -> {"none", "open", "stale", "gone"}]
  /\ elevated \subseteq Sessions /\ vouched \subseteq Sessions /\ admitted \subseteq Sessions
  /\ enrolled \in BOOLEAN /\ codes \subseteq Codes
  /\ failed \in 0 .. MaxAttempts - 1 /\ locked \in BOOLEAN
  /\ lastStep \in {0} \cup Steps /\ now \in Steps
  /\ text \in BOOLEAN /\ logo \in BOOLEAN /\ object \in BOOLEAN
  /\ req \in [Requests -> Req]
  /\ opened \in [Links -> Nat] /\ spent \subseteq Codes /\ passed \subseteq Steps
  /\ again \in BOOLEAN /\ streak \in 0 .. MaxAttempts /\ disturbed \subseteq DOMAIN Pages

Init ==
  /\ active = TRUE
  /\ link = [l \in Links |-> "none"] /\ sess = [s \in Sessions |-> "none"]
  /\ elevated = {} /\ vouched = {} /\ admitted = {}
  /\ enrolled = FALSE /\ codes = {}
  /\ failed = 0 /\ locked = FALSE /\ lastStep = 0 /\ now = 1
  /\ text = FALSE /\ logo = FALSE /\ object = FALSE
  /\ req = [r \in Requests |-> Idle]
  /\ opened = [l \in Links |-> 0] /\ spent = {} /\ passed = {} /\ again = FALSE
  /\ streak = 0 /\ disturbed = {}

At(r, pc)   == req[r].pc = pc
Goes(r, pc) == req' = [req EXCEPT ![r].pc = pc]
Left(r, pc) == req' = [req EXCEPT ![r] = [Idle EXCEPT !.pc = pc, !.s = req[r].s]]
Ends(r)     == req' = [req EXCEPT ![r] = Idle]
Disturb(x)  == disturbed' = disturbed \cup {x}

\* requireDeveloperSession: a request of an open session begins as q says
Enters(r, q) ==
  /\ At(r, "idle") /\ sess[q.s] = "open"
  /\ req' = [req EXCEPT ![r] = q]
  /\ disturbed' = disturbed \cup {p \in DOMAIN Pages :
                      q.pc \in Pages[p] /\ \E x \in Requests : req[x].pc \in Pages[p]}

-----------------------------------------------------------------------------
(* Signing in and out *)

\* An operator suspends the key, or takes that back
SetActive ==
  /\ active' = ~active
  /\ UNCHANGED <<link, sess, opened, mfa, text, picture, req, disturbed>>

LoginRead(r) ==
  /\ At(r, "idle") /\ active /\ Goes(r, "issue")
  /\ UNCHANGED <<signIn, mfa, text, picture, disturbed>>

IssueLink(r) ==
  /\ At(r, "issue") /\ Ends(r)
  /\ \/ \E l \in Links : link[l] = "none" /\ link' = [link EXCEPT ![l] = "open"]
     \/ UNCHANGED link
  /\ UNCHANGED <<active, sess, opened, mfa, text, picture, disturbed>>

LinkExpires(l) ==
  /\ link[l] = "open" /\ link' = [link EXCEPT ![l] = "stale"]
  /\ UNCHANGED <<active, sess, opened, mfa, text, picture, req, disturbed>>

RedeemRead(r, l) ==
  /\ At(r, "idle") /\ link[l] \in {"open", "stale"}
  /\ req' = [req EXCEPT ![r] = [Idle EXCEPT !.link = l,
                                  !.pc = IF link[l] = "open" THEN "claim" ELSE "dropLink"]]
  /\ UNCHANGED <<signIn, mfa, text, picture, disturbed>>

DropLink(r) ==
  /\ At(r, "dropLink") /\ Ends(r)
  /\ link' \in {link, [link EXCEPT ![req[r].link] = "gone"]}
  /\ UNCHANGED <<active, sess, opened, mfa, text, picture, disturbed>>

\* Mutant: .is('consumed_at', null) is left out.
ClaimableMutant(l) == link[l] # "gone"
\* .eq('id', row.id).is('consumed_at', null)
Claimable(l) == link[l] \in {"open", "stale"}

ClaimLink(r) ==
  LET l == req[r].link IN
  /\ At(r, "claim")
  /\ \/ Claimable(l) /\ link' = [link EXCEPT ![l] = "used"] /\ Goes(r, "findKey")
     \/ UNCHANGED link /\ Ends(r)
  /\ UNCHANGED <<active, sess, opened, mfa, text, picture, disturbed>>

FindKey(r) ==
  /\ At(r, "findKey") /\ IF active THEN Goes(r, "newSession") ELSE Ends(r)
  /\ UNCHANGED <<signIn, mfa, text, picture, disturbed>>

OpenSession(r) ==
  LET l == req[r].link IN
  /\ At(r, "newSession") /\ Ends(r)
  /\ \/ \E s \in Sessions : /\ sess[s] = "none" /\ sess' = [sess EXCEPT ![s] = "open"]
                            /\ opened' = [opened EXCEPT ![l] = @ + 1]
     \/ UNCHANGED <<sess, opened>>
  /\ UNCHANGED <<active, link, mfa, text, picture, disturbed>>

\* the session that ends a sign-up (PortalSignUp)
SignedUp(s) ==
  /\ sess[s] = "none" /\ sess' = [sess EXCEPT ![s] = "open"]
  /\ UNCHANGED <<active, link, opened, mfa, text, picture, req, disturbed>>

SessionExpires(s) ==
  /\ sess[s] = "open" /\ sess' = [sess EXCEPT ![s] = "stale"]
  /\ UNCHANGED <<active, link, opened, mfa, text, picture, req, disturbed>>

\* destroySession, or validateSession of a session past its expiry
Forget(s) ==
  /\ sess[s] \in {"open", "stale"} /\ sess' = [sess EXCEPT ![s] = "gone"]
  /\ elevated' = elevated \ {s}
  /\ UNCHANGED <<active, link, opened, factor, guesses, vouched, admitted, text, picture, req,
                 disturbed>>

\* the process restarts: what its requests had in hand is lost
Restart ==
  /\ req' = [r \in Requests |-> Idle]
  /\ UNCHANGED <<signIn, mfa, text, picture, disturbed>>

-----------------------------------------------------------------------------
(* Enrolling an authenticator, stepping up, and what is behind it *)

\* POST /security/enroll-mfa up to verifyTotp, with a code of the secret shown
EnrollRead(r, s) ==
  /\ ~enrolled /\ Enters(r, [Idle EXCEPT !.pc = "enroll", !.s = s])
  /\ UNCHANGED <<signIn, mfa, text, picture>>

\* generateBackupCodes
NewBatch == Codes

EnrollWrite(r) ==
  /\ At(r, "enroll")
  /\ \/ /\ enrolled' = TRUE /\ codes' = NewBatch /\ spent' = {} /\ passed' = {}
        /\ vouched' = vouched \cup {req[r].s}
        /\ Left(r, "elevate") /\ UNCHANGED again
     \/ Ends(r) /\ UNCHANGED <<factor, vouched>>
  /\ UNCHANGED <<signIn, guesses, elevated, admitted, text, picture, disturbed>>

\* POST /security/step-up up to its first write: what the request carries on
\* from there is what loadKeyMfaState gave
StepUp(r, q) ==
  /\ enrolled /\ ~locked
  /\ Enters(r, [q EXCEPT !.n = IF q.pc = "clear" THEN 0 ELSE failed])
  /\ UNCHANGED <<signIn, mfa, text, picture>>

\* Mutant: the step last used is accepted once more.
FreshMutant(t) == t >= lastStep
\* step > (state.mfa_last_totp_step ?? -1)
Fresh(t) == t > lastStep

\* the steps verifyTotpStep compares with
Window == (now - 1) .. (now + 1)

\* a code of the authenticator
StepUpTotp(r, s, t) ==
  LET right == t \in Window /\ Fresh(t) IN
  StepUp(r, [Idle EXCEPT !.s = s, !.pc = IF right THEN "clear" ELSE "fail",
                         !.step = IF right THEN t ELSE 0])

\* consumeBackupCode: the list without the code
Remaining(c) == codes \ {c}

StepUpBackup(r, s, c) ==
  StepUp(r, IF c \in codes
            THEN [Idle EXCEPT !.s = s, !.pc = "spend", !.code = c, !.rest = Remaining(c)]
            ELSE [Idle EXCEPT !.s = s, !.pc = "fail"])

SpendBackup(r) ==
  LET c == req[r].code IN
  /\ At(r, "spend")
  /\ \/ /\ codes' = req[r].rest /\ Left(r, "clear")
        /\ spent' = spent \cup {c} /\ again' = (again \/ c \in spent)
     \/ /\ req' = [req EXCEPT ![r].pc = "fail", ![r].code = None, ![r].rest = {}]
        /\ UNCHANGED <<codes, spent, again>>
  /\ UNCHANGED <<signIn, enrolled, passed, guesses, gate, text, picture, disturbed>>

\* Mutant: one more failure is allowed than the limit says.
LocksMutant(n) == n + 1 > MaxAttempts
\* next >= MFA_MAX_ATTEMPTS
Locks(n) == n + 1 >= MaxAttempts

\* Mutant: the lock leaves the counter where it is.
CountedMutant(n) == n + 1
\* const next = failedAttempts + 1
Counted(n) == IF Locks(n) THEN 0 ELSE n + 1

\* recordMfaFailure
RecordFailure(r) ==
  /\ At(r, "fail") /\ Ends(r)
  /\ streak' = IF streak < MaxAttempts THEN streak + 1 ELSE streak
  /\ \/ /\ failed' = Counted(req[r].n) /\ locked' = (locked \/ Locks(req[r].n))
        /\ UNCHANGED disturbed
     \/ Disturb("mfa") /\ UNCHANGED <<failed, locked>>
  /\ UNCHANGED <<signIn, factor, gate, lastStep, now, text, picture>>

\* clearMfaFailures
ClearFailures(r) ==
  LET t == req[r].step IN
  /\ At(r, "clear") /\ Left(r, "elevate")
  /\ vouched' = vouched \cup {req[r].s} /\ streak' = 0
  /\ passed' = passed \cup ({t} \ {0}) /\ again' = (again \/ t \in passed)
  /\ \/ /\ failed' = 0 /\ locked' = FALSE /\ lastStep' = IF t = 0 THEN lastStep ELSE t
        /\ UNCHANGED disturbed
     \/ Disturb("mfa") /\ UNCHANGED <<failed, locked, lastStep>>
  /\ UNCHANGED <<signIn, enrolled, codes, spent, now, elevated, admitted, text, picture>>

\* markSessionElevated
Elevate(r) ==
  LET s == req[r].s IN
  /\ At(r, "elevate") /\ Ends(r)
  /\ elevated' \in {elevated, elevated \cup ({s} \cap {x \in Sessions : sess[x] # "gone"})}
  /\ UNCHANGED <<signIn, factor, guesses, vouched, admitted, text, picture, disturbed>>

\* mfa_verified_at falls out of MFA_ELEVATION_WINDOW_MS
ElevationLapses(s) ==
  /\ s \in elevated /\ elevated' = elevated \ {s}
  /\ UNCHANGED <<signIn, factor, guesses, vouched, admitted, text, picture, req, disturbed>>

LockEnds ==
  /\ locked /\ locked' = FALSE /\ streak' = 0
  /\ UNCHANGED <<signIn, factor, gate, failed, lastStep, now, text, picture, req, disturbed>>

Tick ==
  /\ now < MaxStep /\ now' = now + 1
  /\ UNCHANGED <<signIn, factor, gate, failed, locked, lastStep, streak, text, picture, req,
                 disturbed>>

\* requireStepUp
Passes(s) == enrolled /\ s \in elevated

\* POST /security/refresh-key, or a route of requireOperator, is let in
PassGate(r, s) ==
  /\ Passes(s) /\ Enters(r, [Idle EXCEPT !.pc = "refresh", !.s = s])
  /\ admitted' = admitted \cup {s}
  /\ UNCHANGED <<signIn, factor, guesses, elevated, vouched, text, picture>>

\* the new hash replaces the old, or the update is refused: the row is the same
RefreshKey(r) ==
  /\ At(r, "refresh") /\ Ends(r)
  /\ UNCHANGED <<signIn, mfa, text, picture, disturbed>>

-----------------------------------------------------------------------------
(* The profile and its logo *)

SaveProfile(s) ==
  /\ sess[s] = "open" /\ text' = ~text
  /\ UNCHANGED <<signIn, mfa, picture, req, disturbed>>

UploadLogo(r, s) ==
  /\ Enters(r, [Idle EXCEPT !.pc = "put", !.s = s])
  /\ UNCHANGED <<signIn, mfa, text, picture>>

\* processAndUploadLogo
PutObject(r) ==
  /\ At(r, "put")
  /\ \/ object' = TRUE /\ Goes(r, "point")
     \/ Ends(r) /\ UNCHANGED object
  /\ UNCHANGED <<signIn, mfa, text, logo, disturbed>>

PointLogo(r) ==
  /\ At(r, "point") /\ Ends(r)
  /\ logo' \in {logo, TRUE}
  /\ UNCHANGED <<signIn, mfa, text, object, disturbed>>

RemoveLogo(r, s) ==
  /\ Enters(r, [Idle EXCEPT !.pc = "unpoint", !.s = s])
  /\ UNCHANGED <<signIn, mfa, text, picture>>

\* Mutant: the object is deleted though the profile still names it.
GivesUpMutant(r) == Goes(r, "remove")
\* if (updErr) return
GivesUp(r) == Ends(r)

UnpointLogo(r) ==
  /\ At(r, "unpoint")
  /\ \/ logo' = FALSE /\ Goes(r, "remove")
     \/ GivesUp(r) /\ UNCHANGED logo
  /\ UNCHANGED <<signIn, mfa, text, object, disturbed>>

\* deleteLogo, best effort
RemoveObject(r) ==
  /\ At(r, "remove") /\ Ends(r)
  /\ object' \in {object, FALSE}
  /\ UNCHANGED <<signIn, mfa, text, logo, disturbed>>

-----------------------------------------------------------------------------
SignInStep ==
  \/ SetActive
  \/ \E l \in Links : LinkExpires(l)
  \/ \E r \in Requests : LoginRead(r) \/ IssueLink(r) \/ DropLink(r) \/ ClaimLink(r)
                           \/ FindKey(r) \/ OpenSession(r)
  \/ \E r \in Requests, l \in Links : RedeemRead(r, l)

SessionStep == \E s \in Sessions : SignedUp(s) \/ SessionExpires(s) \/ Forget(s)

MfaStep ==
  \/ LockEnds \/ Tick
  \/ \E s \in Sessions : ElevationLapses(s)
  \/ \E r \in Requests : EnrollWrite(r) \/ SpendBackup(r) \/ RecordFailure(r)
                           \/ ClearFailures(r) \/ Elevate(r) \/ RefreshKey(r)
  \/ \E r \in Requests, s \in Sessions :
       \/ EnrollRead(r, s) \/ PassGate(r, s)
       \/ \E t \in Steps : StepUpTotp(r, s, t)
       \/ \E c \in Codes : StepUpBackup(r, s, c)

LogoStep ==
  \/ \E s \in Sessions : SaveProfile(s)
  \/ \E r \in Requests : PutObject(r) \/ PointLogo(r) \/ UnpointLogo(r) \/ RemoveObject(r)
  \/ \E r \in Requests, s \in Sessions : UploadLogo(r, s) \/ RemoveLogo(r, s)

Next == SignInStep \/ SessionStep \/ MfaStep \/ LogoStep \/ Restart

Spec == Init /\ [][Next]_vars

-----------------------------------------------------------------------------
\* A sign-in link opens one session, although finding it unspent and spending it
\* are two statements (magic-links.ts) and requests may redeem it together.
LinkOnce == \A l \in Links : opened[l] <= 1

\* A backup code, and a step of the authenticator, is accepted once, unless
\* step-ups overlap or the clearing update of one is refused.
CodesOnce == "mfa" \in disturbed \/ ~again

\* Wrong codes in a row add up, across sessions and restarts, and the last one
\* allowed locks the key; unless step-ups overlap or a write of one is refused.
ThrottleHolds ==
  "mfa" \in disturbed \/ IF locked THEN streak = MaxAttempts
                                   ELSE streak = failed /\ streak < MaxAttempts

\* Only a session in which a code was accepted gets past a step-up gate or is
\* held elevated, whatever other sessions of the key do meanwhile.
ElevatedByCode == elevated \cup admitted \subseteq vouched

\* A session is elevated by a code of its own, and the code elevates no other.
StepUpHolds == CodesOnce /\ ElevatedByCode

\* A profile does not name a logo that is not stored, as long as the uploads and
\* removals of its owner do not overlap, whichever of their steps fail.
LogoServed == "logo" \in disturbed \/ (logo => object)
=============================================================================
