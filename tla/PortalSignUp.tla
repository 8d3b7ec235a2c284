----------------------------- MODULE PortalSignUp -----------------------------
(***************************************************************************)
(* Sign-up to the developer portal (POST /developers/register and          *)
(* POST /developers/verify in src/routes/developers.ts): the held form,    *)
(* the one-time code (src/lib/developer-otp.ts), and the provisioning with *)
(* its undo steps (src/lib/developer-portal/provision.ts).                 *)
(*                                                                         *)
(* Every SQL statement is one action.  The database may refuse any of      *)
(* them: a refused insert ends its request with an error, a refused delete *)
(* goes unnoticed.  A registration stands for its form and for the code it *)
(* is mailed (8 random digits: two registrations are not given the same).  *)
(* A visit of /verify provisions at most one developer and stands for the  *)
(* rows it makes.  A request that is turned away without a write is no     *)
(* step.                                                                   *)
(***************************************************************************)
EXTENDS FiniteSets

CONSTANTS
  Emails,       \* addresses developers register with
  Null,         \* NULL
  Registers,    \* POST /register requests (bound)
  Visits        \* POST /verify requests (bound)

ASSUME SignUpAssumption == /\ Null \notin Emails \cup Registers \cup Visits
                           /\ Registers \cap Visits = {}

VARIABLES
  held,      \* pending_registrations: the form an address is waiting with
  otps,      \* developer_otps rows
  expired,   \* codes past expires_at
  reg,       \* POST /register
  visit,     \* POST /verify
  profiles,  \* contributor_profiles rows, by the visit that made them
  accounts,  \* portal_accounts rows
  keys,      \* api_keys rows
  crossed,   \* history: requests another one of the same address overlapped
  slipped    \* history: requests of which a delete was refused, or cut by a restart

signUp == <<held, otps, expired, reg, visit, profiles, accounts, keys, crossed, slipped>>

-----------------------------------------------------------------------------
NoReg   == [pc |-> "idle", m |-> Null]
NoVisit == [pc |-> "idle", m |-> Null, code |-> Null, form |-> Null]

Reg     == {NoReg} \cup [pc : {"clear", "store", "mailed", "over"}, m : Emails]
Visit   == {NoVisit}
           \cup [pc   : {"drop", "spend", "form", "over"}, m : Emails,
                 code : Registers,                \* the otp row verifyOtp read
                 form : Registers \cup {Null}]
           \cup [pc   : {"profile", "account", "key", "undoAccount", "undoProfile", "forget",
                         "session", "shown"}, m : Emails, code : Registers,
                 form : Registers]                \* the form provisionDeveloper was given

\* Every variable keeps its type; a provisioning always has a form to go by.
SignUpTypeOK ==
  /\ held \in [Emails -> Registers \cup {Null}]
  /\ otps \subseteq Registers /\ expired \subseteq Registers
  /\ reg \in [Registers -> Reg] /\ visit \in [Visits -> Visit]
  /\ profiles \subseteq Visits /\ accounts \subseteq Visits /\ keys \subseteq Visits
  /\ crossed \subseteq Registers \cup Visits /\ slipped \subseteq Registers \cup Visits

SignUpInit ==
  /\ held = [m \in Emails |-> Null] /\ otps = {} /\ expired = {}
  /\ reg = [r \in Registers |-> NoReg] /\ visit = [v \in Visits |-> NoVisit]
  /\ profiles = {} /\ accounts = {} /\ keys = {}
  /\ crossed = {} /\ slipped = {}

-----------------------------------------------------------------------------
CodesOf(m) == {r \in otps : reg[r].m = m}

Registering(r) == reg[r].pc \in {"clear", "store"}
Visiting(v)    == visit[v].pc \notin {"idle", "shown", "over"}
Running(m)     == {r \in Registers : Registering(r) /\ reg[r].m = m}
                    \cup {v \in Visits : Visiting(v) /\ visit[v].m = m}

Begin(x, m) == crossed' = IF Running(m) = {} THEN crossed ELSE crossed \cup Running(m) \cup {x}

RegGoes(r, pc)   == reg'   = [reg EXCEPT ![r].pc = pc]
VisitGoes(v, pc) == visit' = [visit EXCEPT ![v].pc = pc]
Slips(x)         == slipped' = slipped \cup {x}

-----------------------------------------------------------------------------
(* POST /developers/register *)

\* .upsert(form, onConflict 'email'): the later form replaces the earlier one
Upserted(m, r) == [held EXCEPT ![m] = r]

RegisterHold(r, m) ==
  /\ reg[r].pc = "idle"
  /\ held' = Upserted(m, r)
  /\ reg' = [reg EXCEPT ![r] = [pc |-> "clear", m |-> m]]
  /\ Begin(r, m)
  /\ UNCHANGED <<otps, expired, visit, profiles, accounts, keys, slipped>>

\* Mutant: only the expired rows are cleaned up.
ClearedMutant(m) == otps \ (CodesOf(m) \cap expired)
\* storeOtp: delete the address's rows, whatever their number
Cleared(m) == otps \ CodesOf(m)

RegisterClear(r) ==
  /\ reg[r].pc = "clear" /\ RegGoes(r, "store")
  /\ \/ otps' = Cleared(reg[r].m) /\ UNCHANGED slipped
     \/ Slips(r) /\ UNCHANGED otps
  /\ UNCHANGED <<held, expired, visit, profiles, accounts, keys, crossed>>

\* storeOtp's insert, and the e-mail, which may fail after it
RegisterStore(r) ==
  /\ reg[r].pc = "store"
  /\ \/ otps' = otps \cup {r} /\ \E pc \in {"mailed", "over"} : RegGoes(r, pc)
     \/ RegGoes(r, "over") /\ UNCHANGED otps
  /\ UNCHANGED <<held, expired, visit, profiles, accounts, keys, crossed, slipped>>

CodeExpires(r) ==
  /\ r \in otps \ expired /\ expired' = expired \cup {r}
  /\ UNCHANGED <<held, otps, reg, visit, profiles, accounts, keys, crossed, slipped>>

-----------------------------------------------------------------------------
(* POST /developers/verify *)

\* verifyOtp: .maybeSingle() gives the row of the address if it is the only
\* one; an expired row is deleted whatever code was typed
VerifyRead(v, m, r) ==
  /\ visit[v].pc = "idle" /\ CodesOf(m) = {r}
  /\ r \in expired \/ reg[r].pc = "mailed"
  /\ visit' = [visit EXCEPT ![v] = [pc |-> IF r \in expired THEN "drop" ELSE "spend",
                                    m |-> m, code |-> r, form |-> Null]]
  /\ Begin(v, m)
  /\ UNCHANGED <<held, otps, expired, reg, profiles, accounts, keys, slipped>>

VerifyDrop(v) ==
  /\ visit[v].pc = "drop" /\ VisitGoes(v, "over")
  /\ otps' \in {otps, otps \ {visit[v].code}}
  /\ UNCHANGED <<held, expired, reg, profiles, accounts, keys, crossed, slipped>>

\* Mutant: a match leaves the row to expire.
SpentMutant(v) == otps
\* the match deletes the row by id
Spent(v) == otps \ {visit[v].code}

VerifySpend(v) ==
  /\ visit[v].pc = "spend" /\ VisitGoes(v, "form")
  /\ \/ otps' = Spent(v) /\ UNCHANGED slipped
     \/ Slips(v) /\ UNCHANGED otps
  /\ UNCHANGED <<held, expired, reg, profiles, accounts, keys, crossed>>

\* Mutant: the missing row is not looked for.
OnFileMutant(form) == TRUE
\* "We don't have your registration on file anymore."
OnFile(form) == form # Null

\* readPendingRegistration: the form is held for 30 minutes, longer than the
\* code that was stored after it lives, so it is not found expired here
VerifyForm(v) ==
  LET form == held[visit[v].m] IN
  /\ visit[v].pc = "form"
  /\ visit' = [visit EXCEPT ![v].pc = IF OnFile(form) THEN "profile" ELSE "over",
                            ![v].form = form]
  /\ UNCHANGED <<held, otps, expired, reg, profiles, accounts, keys, crossed, slipped>>

\* deriveUniqueSlug and the insert of the profile; the slug may be taken in
\* between, or none be derivable, and the insert is refused
InsertProfile(v) ==
  /\ visit[v].pc = "profile"
  /\ \/ profiles' = profiles \cup {v} /\ VisitGoes(v, "account")
     \/ VisitGoes(v, "over") /\ UNCHANGED profiles
  /\ UNCHANGED <<held, otps, expired, reg, accounts, keys, crossed, slipped>>

InsertAccount(v) ==
  /\ visit[v].pc = "account"
  /\ \/ accounts' = accounts \cup {v} /\ VisitGoes(v, "key")
     \/ VisitGoes(v, "undoProfile") /\ UNCHANGED accounts
  /\ UNCHANGED <<held, otps, expired, reg, profiles, keys, crossed, slipped>>

\* Mutant: the account is not rolled back.
KeyRefusedMutant == "undoProfile"
\* where a refused insert of the key leads: account first, then profile
KeyRefused == "undoAccount"

InsertKey(v) ==
  /\ visit[v].pc = "key"
  /\ \/ keys' = keys \cup {v} /\ VisitGoes(v, "forget")
     \/ VisitGoes(v, KeyRefused) /\ UNCHANGED keys
  /\ UNCHANGED <<held, otps, expired, reg, profiles, accounts, crossed, slipped>>

UndoAccount(v) ==
  /\ visit[v].pc = "undoAccount" /\ VisitGoes(v, "undoProfile")
  /\ \/ accounts' = accounts \ {v} /\ UNCHANGED slipped
     \/ Slips(v) /\ UNCHANGED accounts
  /\ UNCHANGED <<held, otps, expired, reg, profiles, keys, crossed>>

UndoProfile(v) ==
  /\ visit[v].pc = "undoProfile" /\ VisitGoes(v, "over")
  /\ \/ profiles' = profiles \ {v} /\ UNCHANGED slipped
     \/ Slips(v) /\ UNCHANGED profiles
  /\ UNCHANGED <<held, otps, expired, reg, accounts, keys, crossed>>

\* the form is deleted by address: whichever is held by then
ClearForm(v) ==
  /\ visit[v].pc = "forget" /\ VisitGoes(v, "session")
  /\ held' \in {held, [held EXCEPT ![visit[v].m] = Null]}
  /\ UNCHANGED <<otps, expired, reg, profiles, accounts, keys, crossed, slipped>>

\* createSession: if it is refused the request ends with an error, and nobody
\* has seen the raw key of the row that stays
CreateSession(v) ==
  /\ visit[v].pc = "session" /\ \E pc \in {"shown", "over"} : VisitGoes(v, pc)
  /\ UNCHANGED <<held, otps, expired, reg, profiles, accounts, keys, crossed, slipped>>

-----------------------------------------------------------------------------
\* A restart of the process cuts every request short, wherever it is
SignUpRestart ==
  LET cut == UNION {Running(m) : m \in Emails} IN
  /\ cut # {}
  /\ reg'   = [r \in Registers |-> IF r \in cut THEN [reg[r] EXCEPT !.pc = "over"] ELSE reg[r]]
  /\ visit' = [v \in Visits |-> IF v \in cut THEN [visit[v] EXCEPT !.pc = "over"] ELSE visit[v]]
  /\ slipped' = slipped \cup cut
  /\ UNCHANGED <<held, otps, expired, profiles, accounts, keys, crossed>>

RegisterStep(r) ==
  \/ \E m \in Emails : RegisterHold(r, m)
  \/ RegisterClear(r) \/ RegisterStore(r) \/ CodeExpires(r)

VisitStep(v) ==
  \/ \E m \in Emails, r \in Registers : VerifyRead(v, m, r)
  \/ VerifyDrop(v) \/ VerifySpend(v) \/ VerifyForm(v)
  \/ InsertProfile(v) \/ InsertAccount(v) \/ InsertKey(v)
  \/ UndoAccount(v) \/ UndoProfile(v) \/ ClearForm(v) \/ CreateSession(v)

SignUpNext ==
  \/ \E r \in Registers : RegisterStep(r)
  \/ \E v \in Visits : VisitStep(v)
  \/ SignUpRestart

SignUpSpec == SignUpInit /\ [][SignUpNext]_signUp

-----------------------------------------------------------------------------
\* A request no other of its address overlapped, all of whose deletes were made
Clean(x) == x \notin crossed \cup slipped

\* "Cleans up any prior codes": of the codes of an address that are stored, all
\* but one stem from registrations that overlapped or lost their delete. While
\* two are stored no code of the address is accepted.
OneCode ==
  \A r, s \in otps : (reg[r].m = reg[s].m /\ Clean(r) /\ Clean(s)) => r = s

\* "Deletes the code on success": a code provisions one developer. (Visits that
\* overlap, or whose delete is refused, may provision several.)
CodeOnce ==
  \A v, w \in keys :
    (visit[v].code = visit[w].code /\ Clean(v) /\ Clean(w)) => v = w

\* The developer is made from the form whose code was typed, not from one that
\* was sent before or after it.
FormOfCode ==
  \A v \in keys :
    (Clean(v) /\ Clean(visit[v].code) /\ Clean(visit[v].form)) =>
      visit[v].form = visit[v].code

\* A code makes one developer, of the form it was mailed for.
CodeHonoured == CodeOnce /\ FormOfCode

\* A provisioning that is over has made all three rows or has left none, unless
\* an undo was refused or the process restarted, whatever overlapped it.
WholeOrNothing ==
  \A v \in Visits \ slipped :
    visit[v].pc \in {"shown", "over"} =>
      /\ v \in profiles <=> v \in keys
      /\ v \in accounts <=> v \in keys
=============================================================================
