------------------------------ MODULE Directory ------------------------------
(***************************************************************************)
(* What service keys write about organizations (src/routes/service):       *)
(* organizations and the links of keys to them (organizations.ts), the     *)
(* accounts that own them (accounts.ts), their verification by mail or by  *)
(* hand (verifications.ts, src/lib/verification.ts), and what they publish *)
(* beside events (broadcasts.ts, lists.ts, places.ts).                     *)
(*                                                                         *)
(* Every SQL statement that writes is one action and may be refused; a     *)
(* read is joined with the write before it.  A request that is turned away *)
(* without a write is no step.                                             *)
(***************************************************************************)
EXTENDS Naturals, FiniteSets

CONSTANTS
  Orgs, Accounts,        \* rows; those of accounts all carry one e-mail address
  Keys,                  \* service keys, each with a brand of its own
  Admins, Trusted,       \* keys with is_admin; with the authorities of a key
  Apps,                  \* names a consumer app may claim an account under
  Ids, Personal,         \* e-mail addresses to verify; those of personal domains
  Challenges, Reviews,   \* rows of verification_challenges, verification_pending_reviews
  Broadcasts, Places,    \* rows of broadcasts; google place ids
  Items, Positions,      \* what a list may hold, and where
  Requests,              \* requests that may be in flight together
  None,                  \* NULL, or an optional field left out
  MaxAttempts            \* MAX_CONFIRM_ATTEMPTS

ASSUME SubsetAssumption == Admins \subseteq Keys /\ Trusted \subseteq Keys /\ Personal \subseteq Ids
ASSUME NoneAssumption   == None \notin Accounts \cup Apps \cup {"api"} \cup Ids \cup Orgs \cup Reviews
ASSUME LimitAssumption  == MaxAttempts \in Nat \ {0}

VARIABLES
  org, links,            \* organizations; api_key_organization_links
  acct, tenant,          \* portal_accounts; api_keys.tenant_account_id
  verif,                 \* organization_verifications
  challenge, review,     \* rows of the two ways to get there
  bc, place,             \* broadcasts; google place ids that have a row
  curator, items,        \* one list: curator_org_id and list_items
  req,                   \* requests in flight
  muddled, broken,       \* history: rows of which requests overlapped; lost a write or a request
  guesses,               \* history: wrong codes answered, by challenge (to one over the limit)
  claimants, crossed     \* history: apps told an account is theirs; such requests overlapped,
                         \* or one lost its write

orgs    == <<org, links>>
owners  == <<acct, tenant, claimants, crossed>>
proofs  == <<verif, challenge, review, muddled, broken, guesses>>
content == <<bc, place, curator, items>>
vars    == <<orgs, owners, proofs, content, req>>

-----------------------------------------------------------------------------
Methods == {"seeded", "self_asserted", "observed"}   \* observed: proxied or witnessed

Org  == [live : BOOLEAN, method : Methods, owner : Accounts \cup {None}, commercial : BOOLEAN]
Acct == [state     : {"none", "live", "gone"},
         auth      : BOOLEAN,                        \* auth_user_id is set
         claimed   : BOOLEAN,                        \* claimed_at is set
         by        : Apps \cup {"api", None},        \* claimed_by
         suspended : BOOLEAN,
         events    : BOOLEAN]                        \* events name it as their creator
Verif     == [o : Orgs, i : Ids, how : {"mail", "hand"}, k : Keys, from : Reviews \cup {None}]
Challenge == [state : {"none", "open", "stale", "used"}, o : Orgs \cup {None},
              i : Ids \cup {None}, n : Nat]
Bcast     == [state : {"none", "active", "expired", "retracted"}, o : Orgs \cup {None}]
Review    == [state : {"none", "pending", "approved", "rejected"}, o : Orgs \cup {None},
              i : Ids \cup {None}]

Idle == [pc |-> "idle"]
Req  ==
  {Idle}
  \cup [pc : {"challenge", "queue"}, o : Orgs, i : Ids]
  \cup [pc : {"byHand"}, o : Orgs, i : Ids, k : Keys]
  \cup [pc : {"attempt"}, on : Challenges, n : Nat]
  \cup [pc : {"consume", "record"}, on : Challenges, k : Keys]
  \cup [pc : {"admit", "decide"}, on : Reviews, k : Keys]
  \cup [pc : {"refuse"}, on : Reviews]
  \cup [pc : {"promote"}, o : Orgs]
  \cup [pc : {"make", "find"}, who : Apps \cup {None}]
  \cup [pc : {"claim"}, a : Accounts, who : Apps \cup {None}]
  \cup [pc : {"dropEvents", "drop"}, a : Accounts]
  \cup [pc : {"link"}, k : Keys, o : Orgs]
  \cup [pc : {"retract"}, b : Broadcasts]
  \cup [pc : {"place"}, p : Places]

\* Every variable keeps its type; in particular no challenge counts more wrong
\* codes than it answered.
TypeOK ==
  /\ org \in [Orgs -> Org] /\ links \subseteq Keys \X Orgs
  /\ acct \in [Accounts -> Acct] /\ tenant \in [Keys -> Accounts \cup {None}]
  /\ verif \subseteq Verif
  /\ challenge \in [Challenges -> Challenge] /\ review \in [Reviews -> Review]
  /\ bc \in [Broadcasts -> Bcast] /\ place \subseteq Places
  /\ curator \in Orgs \cup {None} /\ items \subseteq Positions \X Items
  /\ req \in [Requests -> Req]
  /\ muddled \subseteq Challenges \cup Reviews /\ broken \subseteq Challenges \cup Reviews \cup Orgs
  /\ guesses \in [Challenges -> 0 .. MaxAttempts + 1] /\ \A c \in Challenges : challenge[c].n <= guesses[c]
  /\ claimants \in [Accounts -> SUBSET Apps] /\ crossed \in BOOLEAN

Absent    == [live |-> FALSE, method |-> "seeded", owner |-> None, commercial |-> FALSE]
NoAccount == [state |-> "none", auth |-> FALSE, claimed |-> FALSE, by |-> None,
              suspended |-> FALSE, events |-> FALSE]
NoRow     == [state |-> "none", o |-> None, i |-> None]

Live == {a \in Accounts : acct[a].state = "live"}

\* organizations may have been imported, with an owner or without; at most one
\* account has the address
Init ==
  /\ acct \in [Accounts -> {NoAccount} \cup {[NoAccount EXCEPT !.state = "live", !.auth = u] :
                                               u \in BOOLEAN}]
  /\ Cardinality(Live) <= 1
  /\ org \in [Orgs -> {row \in Org :
                      \/ row = Absent
                      \/ /\ row.live /\ row.owner \in Live \cup {None}
                         /\ row.method = IF row.owner = None THEN "seeded" ELSE "self_asserted"}]
  /\ tenant \in [Keys -> Live \cup {None}]
  /\ links = {} /\ verif = {}
  /\ challenge = [c \in Challenges |-> [state |-> "none", o |-> None, i |-> None, n |-> 0]]
  /\ review = [v \in Reviews |-> NoRow]
  /\ bc = [b \in Broadcasts |-> [state |-> "none", o |-> None]] /\ place = {} /\ curator = None /\ items = {}
  /\ req = [r \in Requests |-> Idle]
  /\ muddled = {} /\ broken = {} /\ guesses = [c \in Challenges |-> 0]
  /\ claimants = [a \in Accounts |-> {}] /\ crossed = FALSE

-----------------------------------------------------------------------------
At(r, pc)  == req[r].pc = pc
Goes(r, q) == req' = [req EXCEPT ![r] = q]
Ends(r)    == Goes(r, Idle)

RowPcs == {"attempt", "consume", "record", "admit", "decide", "refuse"}
On(x)  == {r \in Requests : req[r].pc \in RowPcs /\ req[r].on = x}

\* a request about a challenge or a review begins
Opens(r, q) ==
  /\ At(r, "idle") /\ Goes(r, q)
  /\ muddled' = IF On(q.on) = {} THEN muddled ELSE muddled \cup {q.on}

\* organizations a request has yet to promote
Owed(r) == CASE At(r, "promote") -> {req[r].o}
             [] At(r, "decide")  -> {review[req[r].on].o}
             [] OTHER            -> {}

\* the process restarts: what its requests had in hand is lost
Restart ==
  /\ req' = [r \in Requests |-> Idle]
  /\ broken' = broken \cup {x \in Challenges \cup Reviews : On(x) # {}}
                      \cup UNION {Owed(r) : r \in Requests}
  /\ UNCHANGED <<orgs, owners, verif, challenge, review, muddled, guesses, content>>

-----------------------------------------------------------------------------
(* Verification by a mailed code *)

\* what a request to verify is asked for: a code by mail, or a review by hand
MailAdmits(o, i) == org[o].live /\ ~(org[o].commercial /\ i \in Personal)
HandAdmits(o, i) == org[o].live /\ ~(org[o].commercial /\ i \notin Personal)

\* decideVerificationPath: how GET /verifications/path tells apps to go about it
RequiredMethod(o, i) == IF org[o].commercial /\ i \in Personal THEN "hand" ELSE "mail"

\* POST /verifications/challenges
ChallengeRead(r, o, i) ==
  /\ At(r, "idle") /\ MailAdmits(o, i)
  /\ Goes(r, [pc |-> "challenge", o |-> o, i |-> i])
  /\ UNCHANGED <<orgs, owners, proofs, content>>

ChallengeInsert(r) ==
  /\ At(r, "challenge") /\ Ends(r)
  /\ \/ \E c \in Challenges :
          /\ challenge[c].state = "none"
          /\ challenge' = [challenge EXCEPT ![c] = [state |-> "open", o |-> req[r].o,
                                                    i |-> req[r].i, n |-> 0]]
     \/ UNCHANGED challenge
  /\ UNCHANGED <<orgs, owners, verif, review, muddled, broken, guesses, content>>

ChallengeExpires(c) ==
  /\ challenge[c].state = "open" /\ challenge' = [challenge EXCEPT ![c].state = "stale"]
  /\ UNCHANGED <<orgs, owners, verif, review, muddled, broken, guesses, content, req>>

\* Mutant: a challenge out of attempts is still confirmed.
ConfirmableMutant(c) == challenge[c].state = "open"
\* not consumed, not expired, attempts below MAX_CONFIRM_ATTEMPTS
Confirmable(c) == challenge[c].state = "open" /\ challenge[c].n < MaxAttempts

\* POST /verifications/challenges/:id/confirm
ConfirmRead(r, k, c, right) ==
  /\ Confirmable(c)
  /\ Opens(r, IF right THEN [pc |-> "consume", on |-> c, k |-> k]
                       ELSE [pc |-> "attempt", on |-> c, n |-> challenge[c].n])
  /\ UNCHANGED <<orgs, owners, verif, challenge, review, broken, guesses, content>>

\* .update({ attempts: challenge.attempts + 1 })
Counted(c, n) == [challenge EXCEPT ![c].n = n + 1]

CountAttempt(r) ==
  LET c == req[r].on IN
  /\ At(r, "attempt") /\ Ends(r)
  /\ guesses' = [guesses EXCEPT ![c] = IF @ <= MaxAttempts THEN @ + 1 ELSE @]
  /\ \/ challenge' = Counted(c, req[r].n) /\ UNCHANGED broken
     \/ broken' = broken \cup {c} /\ UNCHANGED challenge
  /\ UNCHANGED <<orgs, owners, verif, review, muddled, content>>

\* its error is not looked at
Consume(r) ==
  LET c == req[r].on IN
  /\ At(r, "consume") /\ Goes(r, [req[r] EXCEPT !.pc = "record"])
  /\ challenge' \in {challenge, [challenge EXCEPT ![c].state = "used"]}
  /\ UNCHANGED <<orgs, owners, verif, review, muddled, broken, guesses, content>>

\* UNIQUE (organization_id, method, approved_by_app)
Taken(o, how, k) == \E x \in verif : x.o = o /\ x.how = how /\ x.k = k

\* findExistingVerifiedIdentifier: .maybeSingle() of the rows of the pair
FindExisting(o, i) == Cardinality({x \in verif : x.o = o /\ x.i = i}) = 1
VerificationPath(o, i) == IF FindExisting(o, i) THEN "verified" ELSE RequiredMethod(o, i)

RecordIdentifier(r) ==
  LET c == req[r].on
      o == challenge[c].o
      i == challenge[c].i
  IN
  /\ At(r, "record")
  /\ \/ /\ ~Taken(o, "mail", req[r].k)
        /\ verif' = verif \cup {[o |-> o, i |-> i, how |-> "mail", k |-> req[r].k,
                                 from |-> None]}
        /\ Goes(r, [pc |-> "promote", o |-> o]) /\ UNCHANGED broken
     \/ /\ Taken(o, "mail", req[r].k)
        /\ IF FindExisting(o, i) THEN Goes(r, [pc |-> "promote", o |-> o]) ELSE Ends(r)
        /\ UNCHANGED <<verif, broken>>
     \/ Ends(r) /\ broken' = broken \cup {c} /\ UNCHANGED verif
  /\ UNCHANGED <<orgs, owners, challenge, review, muddled, guesses, content>>

\* Mutant: only an organization with an owner is promoted.
PromotedMutant(o) == [org EXCEPT ![o].method = IF @ = "seeded" /\ org[o].owner # None
                                               THEN "self_asserted" ELSE @]
\* .update({ method: 'self_asserted' }) ... .eq('method', 'seeded')
Promoted(o) == [org EXCEPT ![o].method = IF @ = "seeded" THEN "self_asserted" ELSE @]

\* promoteOrganizationOnVerification, best effort
Promote(r) ==
  LET o == req[r].o IN
  /\ At(r, "promote") /\ Ends(r)
  /\ \/ org' = Promoted(o) /\ UNCHANGED broken
     \/ broken' = broken \cup {o} /\ UNCHANGED org
  /\ UNCHANGED <<links, owners, verif, challenge, review, muddled, guesses, content>>

-----------------------------------------------------------------------------
(* Verification by hand *)

\* hasVerificationAuthority
HasAuthority(k) == k \in Trusted

\* POST /verifications/manual: a key with the authority records at once, another queues
ManualRead(r, k, o, i) ==
  /\ At(r, "idle") /\ HandAdmits(o, i)
  /\ Goes(r, IF HasAuthority(k) THEN [pc |-> "byHand", o |-> o, i |-> i, k |-> k]
                                ELSE [pc |-> "queue", o |-> o, i |-> i])
  /\ UNCHANGED <<orgs, owners, proofs, content>>

RecordByHand(r) ==
  LET o == req[r].o IN
  /\ At(r, "byHand")
  /\ \/ /\ ~Taken(o, "hand", req[r].k)
        /\ verif' = verif \cup {[o |-> o, i |-> req[r].i, how |-> "hand", k |-> req[r].k,
                                 from |-> None]}
        /\ Goes(r, [pc |-> "promote", o |-> o])
     \/ Ends(r) /\ UNCHANGED verif
  /\ UNCHANGED <<orgs, owners, challenge, review, muddled, broken, guesses, content>>

QueueReview(r) ==
  /\ At(r, "queue") /\ Ends(r)
  /\ \/ \E v \in Reviews :
          /\ review[v].state = "none"
          /\ review' = [review EXCEPT ![v] = [state |-> "pending", o |-> req[r].o,
                                              i |-> req[r].i]]
     \/ UNCHANGED review
  /\ UNCHANGED <<orgs, owners, verif, challenge, muddled, broken, guesses, content>>

\* Mutant: any review may be decided.
PendingMutant(v) == review[v].state # "none"
\* review.status !== 'pending'
Pending(v) == review[v].state = "pending"

\* POST /verifications/pending/:id/approve
ApproveRead(r, k, v) ==
  /\ k \in Admins /\ Pending(v)
  /\ Opens(r, [pc |-> "admit", on |-> v, k |-> k])
  /\ UNCHANGED <<orgs, owners, verif, challenge, review, broken, guesses, content>>

AdmitReview(r) ==
  LET v == req[r].on IN
  /\ At(r, "admit")
  /\ \/ /\ ~Taken(review[v].o, "hand", req[r].k)
        /\ verif' = verif \cup {[o |-> review[v].o, i |-> review[v].i, how |-> "hand",
                                 k |-> req[r].k, from |-> v]}
        /\ Goes(r, [req[r] EXCEPT !.pc = "decide"])
     \/ Ends(r) /\ UNCHANGED verif
  /\ UNCHANGED <<orgs, owners, challenge, review, muddled, broken, guesses, content>>

\* its error is not looked at
DecideReview(r) ==
  LET v == req[r].on IN
  /\ At(r, "decide") /\ Goes(r, [pc |-> "promote", o |-> review[v].o])
  /\ \/ review' = [review EXCEPT ![v].state = "approved"] /\ UNCHANGED broken
     \/ broken' = broken \cup {v} /\ UNCHANGED review
  /\ UNCHANGED <<orgs, owners, verif, challenge, muddled, guesses, content>>

\* POST /verifications/pending/:id/reject
RejectRead(r, k, v) ==
  /\ k \in Admins /\ Pending(v)
  /\ Opens(r, [pc |-> "refuse", on |-> v])
  /\ UNCHANGED <<orgs, owners, verif, challenge, review, broken, guesses, content>>

RejectReview(r) ==
  /\ At(r, "refuse") /\ Ends(r)
  /\ review' \in {review, [review EXCEPT ![req[r].on].state = "rejected"]}
  /\ UNCHANGED <<orgs, owners, verif, challenge, muddled, broken, guesses, content>>

-----------------------------------------------------------------------------
(* Organizations and the keys that may write them *)

\* the provenance gate of organizations.ts
Admitted(k, m) ==
  \/ k \in Admins \/ m = "seeded"
  \/ m = "self_asserted" /\ tenant[k] # None
  \/ m = "observed" /\ k \in Trusted

\* POST /organizations: the row, and then the link of its creator
CreateOrg(r, k, m) ==
  /\ At(r, "idle") /\ Admitted(k, m)
  /\ \E o \in Orgs :
       /\ ~org[o].live
       /\ org' = [org EXCEPT ![o] = [Absent EXCEPT !.live = TRUE, !.method = m,
                                                   !.owner = tenant[k]]]
       /\ Goes(r, [pc |-> "link", k |-> k, o |-> o])
  /\ UNCHANGED <<links, owners, proofs, content>>

\* POST /organizations/link
LinkRead(r, k, o) ==
  /\ At(r, "idle") /\ org[o].live /\ <<k, o>> \notin links
  /\ k \in Admins \/ (tenant[k] # None /\ org[o].owner = tenant[k])
  /\ Goes(r, [pc |-> "link", k |-> k, o |-> o])
  /\ UNCHANGED <<orgs, owners, proofs, content>>

LinkInsert(r) ==
  /\ At(r, "link") /\ Ends(r)
  /\ links' \in {links, links \cup {<<req[r].k, req[r].o>>}}
  /\ UNCHANGED <<org, owners, proofs, content>>

\* assertLinkedOrganization
Linked(k, o) == k \in Admins \/ <<k, o>> \in links

\* PATCH /organizations/:id; the method is not among its fields
PatchOrg(k, o) ==
  /\ org[o].live /\ Linked(k, o)
  /\ org' = [org EXCEPT ![o].commercial = ~@]
  /\ UNCHANGED <<links, owners, proofs, content, req>>

-----------------------------------------------------------------------------
(* Accounts of one address *)

Claims == {r \in Requests : req[r].pc \in {"make", "find", "claim"}}

\* Mutant: the app of a request that names none is taken to be one.
ToldMutant(a, who) == claimants' = [claimants EXCEPT ![a] = @ \cup {who}]
\* the response names the account as claimed
Told(a, who) == claimants' = [claimants EXCEPT ![a] = @ \cup ({who} \cap Apps)]

\* Mutant: an account claimed by another app is handed out.
FreeForMutant(a, who) == ~acct[a].auth
\* no auth_user_id, and not claimed by a different consumer app
FreeFor(a, who) ==
  ~acct[a].auth /\ (acct[a].claimed /\ who # None => acct[a].by \in {who, None})

\* POST /accounts/link by a key that is no administrator's
AccountRead(r, who) ==
  /\ At(r, "idle")
  /\ \/ Live = {} /\ Goes(r, [pc |-> "make", who |-> who]) /\ UNCHANGED claimants
     \/ \E a \in Live :
          /\ FreeFor(a, who)
          /\ IF acct[a].claimed THEN Told(a, who) /\ UNCHANGED req
                                ELSE /\ Goes(r, [pc |-> "claim", a |-> a, who |-> who])
                                     /\ UNCHANGED claimants
  /\ crossed' = (crossed \/ Claims # {})
  /\ UNCHANGED <<orgs, acct, tenant, proofs, content>>

\* the insert; UNIQUE (email) sends the request to look again
AccountMake(r) ==
  /\ At(r, "make")
  /\ \/ \E a \in Accounts :
          /\ Live = {} /\ acct[a].state = "none"
          /\ acct' = [acct EXCEPT ![a].state = "live"]
          /\ Goes(r, [pc |-> "claim", a |-> a, who |-> req[r].who])
     \/ Live # {} /\ Goes(r, [req[r] EXCEPT !.pc = "find"]) /\ UNCHANGED acct
     \/ Ends(r) /\ UNCHANGED acct
  /\ UNCHANGED <<orgs, tenant, claimants, crossed, proofs, content>>

\* raceAccount: taken as it is
AccountFind(r) ==
  /\ At(r, "find")
  /\ \/ \E a \in Live : IF acct[a].claimed
                        THEN Told(a, req[r].who) /\ Ends(r)
                        ELSE /\ Goes(r, [pc |-> "claim", a |-> a, who |-> req[r].who])
                             /\ UNCHANGED claimants
     \/ Live = {} /\ Ends(r) /\ UNCHANGED claimants
  /\ UNCHANGED <<orgs, acct, tenant, crossed, proofs, content>>

\* by id, whatever the row says by now; its error is not looked at
AccountClaim(r) ==
  LET a == req[r].a
      w == req[r].who
  IN
  /\ At(r, "claim") /\ Ends(r) /\ Told(a, w)
  /\ \/ /\ acct' = IF a \in Live
                   THEN [acct EXCEPT ![a].claimed = TRUE, ![a].by = IF w = None THEN "api" ELSE w]
                   ELSE acct
        /\ UNCHANGED crossed
     \/ crossed' = TRUE /\ UNCHANGED acct
  /\ UNCHANGED <<orgs, tenant, proofs, content>>

\* POST /accounts
CreateAccount(who) ==
  /\ Live = {}
  /\ \E a \in Accounts :
       /\ acct[a].state = "none"
       /\ acct' = [acct EXCEPT ![a].state = "live", ![a].claimed = (who # None), ![a].by = who]
       /\ Told(a, who)
  /\ crossed' = (crossed \/ Claims # {})
  /\ UNCHANGED <<orgs, tenant, proofs, content, req>>

\* assertLinkedAccount
LinkedAccount(k, a) == k \in Admins \/ \E o \in Orgs : org[o].owner = a /\ <<k, o>> \in links

\* PATCH /accounts/:id; a new claimed_by hands the account over
PatchAccount(k, a, who, suspended) ==
  /\ a \in Live /\ LinkedAccount(k, a)
  /\ acct' = [acct EXCEPT ![a].suspended = suspended,
                          ![a].by = IF who = None THEN @ ELSE who]
  /\ claimants' = IF who = None THEN claimants ELSE [claimants EXCEPT ![a] = {}]
  /\ crossed' = (crossed \/ (who # None /\ Claims # {}))
  /\ UNCHANGED <<orgs, tenant, proofs, content, req>>

\* an event is created under the account (EventLifecycle)
EventOf(a) ==
  /\ a \in Live /\ ~acct[a].events /\ acct' = [acct EXCEPT ![a].events = TRUE]
  /\ UNCHANGED <<orgs, tenant, claimants, crossed, proofs, content, req>>

\* DELETE /accounts/:id
DeleteRead(r, k, a) ==
  /\ At(r, "idle") /\ a \in Live /\ LinkedAccount(k, a)
  /\ Goes(r, [pc |-> "dropEvents", a |-> a])
  /\ UNCHANGED <<orgs, owners, proofs, content>>

\* its error is not looked at
DropEvents(r) ==
  /\ At(r, "dropEvents") /\ Goes(r, [req[r] EXCEPT !.pc = "drop"])
  /\ acct' \in {acct, [acct EXCEPT ![req[r].a].events = FALSE]}
  /\ UNCHANGED <<orgs, tenant, claimants, crossed, proofs, content>>

\* ON DELETE SET NULL, for the owner of organizations and the tenant of keys
DropAccount(r) ==
  LET a == req[r].a IN
  /\ At(r, "drop") /\ Ends(r)
  /\ \/ /\ acct' = [acct EXCEPT ![a] = [NoAccount EXCEPT !.state = "gone"]]
        /\ org' = [o \in Orgs |-> IF org[o].owner = a THEN [org[o] EXCEPT !.owner = None]
                                                      ELSE org[o]]
        /\ tenant' = [k \in Keys |-> IF tenant[k] = a THEN None ELSE tenant[k]]
     \/ UNCHANGED <<acct, org, tenant>>
  /\ UNCHANGED <<links, claimants, crossed, proofs, content>>

-----------------------------------------------------------------------------
(* Places, broadcasts and the list of a curator *)

\* POST /places: nothing has the google place id
PlaceRead(r, p) ==
  /\ At(r, "idle") /\ p \notin place /\ Goes(r, [pc |-> "place", p |-> p])
  /\ UNCHANGED <<orgs, owners, proofs, content>>

\* UNIQUE (google_place_id): the insert of a second request is refused
PlaceInsert(r) ==
  /\ At(r, "place") /\ Ends(r)
  /\ place' \in {place, place \cup {req[r].p}}
  /\ UNCHANGED <<orgs, owners, proofs, bc, curator, items>>

\* POST /broadcasts
Broadcast(k, o, b) ==
  /\ bc[b].state = "none" /\ org[o].live /\ Linked(k, o) /\ place # {}
  /\ bc' = [bc EXCEPT ![b] = [state |-> "active", o |-> o]]
  /\ UNCHANGED <<orgs, owners, proofs, place, curator, items, req>>

\* expires_at passes; the status stays active
BroadcastExpires(b) ==
  /\ bc[b].state = "active" /\ bc' = [bc EXCEPT ![b].state = "expired"]
  /\ UNCHANGED <<orgs, owners, proofs, place, curator, items, req>>

\* POST /broadcasts/:id/retract
RetractRead(r, k, b) ==
  /\ At(r, "idle") /\ bc[b].state \in {"active", "expired"} /\ Linked(k, bc[b].o)
  /\ Goes(r, [pc |-> "retract", b |-> b])
  /\ UNCHANGED <<orgs, owners, proofs, content>>

RetractWrite(r) ==
  /\ At(r, "retract") /\ Ends(r)
  /\ bc' \in {bc, [bc EXCEPT ![req[r].b].state = "retracted"]}
  /\ UNCHANGED <<orgs, owners, proofs, place, curator, items>>

\* POST /lists
CreateList(k, o) ==
  /\ curator = None /\ org[o].live /\ Linked(k, o) /\ curator' = o
  /\ UNCHANGED <<orgs, owners, proofs, bc, place, items, req>>

\* assertLinkedListCurator
Curates(k) == curator # None /\ Linked(k, curator)

\* POST /lists/:id/items; UNIQUE (list_id, position)
AddItem(k, p, x) ==
  /\ Curates(k) /\ \A e \in items : e[1] # p
  /\ items' = items \cup {<<p, x>>}
  /\ UNCHANGED <<orgs, owners, proofs, bc, place, curator, req>>

\* DELETE /lists/:id/items/:position
RemoveItem(k, p) ==
  /\ Curates(k) /\ items' = {e \in items : e[1] # p} /\ items' # items
  /\ UNCHANGED <<orgs, owners, proofs, bc, place, curator, req>>

-----------------------------------------------------------------------------
MailStep ==
  \/ \E r \in Requests : ChallengeInsert(r) \/ CountAttempt(r) \/ Consume(r)
                           \/ RecordIdentifier(r)
  \/ \E r \in Requests, o \in Orgs, i \in Ids : ChallengeRead(r, o, i)
  \/ \E c \in Challenges : ChallengeExpires(c)
  \/ \E r \in Requests, k \in Keys, c \in Challenges, right \in BOOLEAN :
       ConfirmRead(r, k, c, right)

HandStep ==
  \/ \E r \in Requests : RecordByHand(r) \/ QueueReview(r) \/ AdmitReview(r)
                           \/ DecideReview(r) \/ RejectReview(r)
  \/ \E r \in Requests, k \in Keys, o \in Orgs, i \in Ids : ManualRead(r, k, o, i)
  \/ \E r \in Requests, k \in Keys, v \in Reviews : ApproveRead(r, k, v) \/ RejectRead(r, k, v)

OrgStep ==
  \/ \E r \in Requests : LinkInsert(r)
  \/ \E r \in Requests, k \in Keys, m \in Methods : CreateOrg(r, k, m)
  \/ \E r \in Requests, k \in Keys, o \in Orgs : LinkRead(r, k, o)
  \/ \E k \in Keys, o \in Orgs : PatchOrg(k, o)

AccountStep ==
  \/ \E r \in Requests : AccountMake(r) \/ AccountFind(r) \/ AccountClaim(r)
                           \/ DropEvents(r) \/ DropAccount(r)
  \/ \E r \in Requests, who \in Apps \cup {None} : AccountRead(r, who)
  \/ \E who \in Apps \cup {None} : CreateAccount(who)
  \/ \E k \in Keys, a \in Accounts, who \in Apps \cup {None}, u \in BOOLEAN :
       PatchAccount(k, a, who, u)
  \/ \E a \in Accounts : EventOf(a)
  \/ \E r \in Requests, k \in Keys, a \in Accounts : DeleteRead(r, k, a)

ContentStep ==
  \/ \E r \in Requests, p \in Places : PlaceRead(r, p)
  \/ \E r \in Requests : PlaceInsert(r) \/ RetractWrite(r)
  \/ \E k \in Keys, o \in Orgs, b \in Broadcasts : Broadcast(k, o, b)
  \/ \E b \in Broadcasts : BroadcastExpires(b)
  \/ \E r \in Requests, k \in Keys, b \in Broadcasts : RetractRead(r, k, b)
  \/ \E k \in Keys, o \in Orgs : CreateList(k, o)
  \/ \E k \in Keys, p \in Positions, x \in Items : AddItem(k, p, x)
  \/ \E k \in Keys, p \in Positions : RemoveItem(k, p)

Next ==
  \/ MailStep \/ HandStep \/ OrgStep \/ AccountStep \/ ContentStep \/ Restart
  \/ \E r \in Requests : Promote(r)

Spec == Init /\ [][Next]_vars

-----------------------------------------------------------------------------
\* Whoever confirms a challenge, and however often the process restarts, no more
\* wrong codes are answered than MAX_CONFIRM_ATTEMPTS, unless confirmations of it
\* overlap or the update that counts one is refused.
AttemptsBounded ==
  \A c \in Challenges \ (muddled \cup broken) :
    guesses[c] = challenge[c].n /\ guesses[c] <= MaxAttempts

\* A challenge that is consumed and no longer worked at has verified its address
\* for its organization, unless a write or a request was lost, or the
\* organization had verified another address by mail: then the unique constraint
\* refuses the row, which verifications.ts takes for the same address again.
SpentIsVerified ==
  \A c \in Challenges \ broken :
    LET row == challenge[c] IN
    row.state = "used" /\ On(c) = {} =>
      \E x \in verif : x.o = row.o /\ (x.i = row.i \/ x.how = "mail")

\* A challenge can be guessed at only so often, and spent only for a verification.
ChallengeHolds == AttemptsBounded /\ SpentIsVerified

\* An organization with a verification is no longer a seeded one, as soon as the
\* request that verified it has ended, unless that request or its best-effort
\* promotion was lost.
VerifiedIsPromoted ==
  \A x \in verif : \/ org[x.o].method # "seeded" \/ x.o \in broken
                   \/ \E r \in Requests : x.o \in Owed(r)

\* A review that is no longer worked at is approved exactly if it verified its
\* organization, unless decisions about it overlapped or were lost.
ReviewsAgree ==
  \A v \in Reviews \ (muddled \cup broken) :
    On(v) = {} => (review[v].state = "approved" <=> \E x \in verif : x.from = v)

\* Two apps are never both told that they claimed an account, whether it was
\* found, created on the way or created before, unless requests that claim or
\* create it overlap or the update of the first is refused.
ClaimOnce == crossed \/ \A a \in Accounts : Cardinality(claimants[a]) <= 1
=============================================================================
