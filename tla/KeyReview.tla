------------------------------ MODULE KeyReview ------------------------------
(***************************************************************************)
(* From the application of a developer to a working key: the review in the *)
(* operator portal (src/routes/operator.ts), the administrator's routes on *)
(* keys and approved domains (src/routes/service/admin-ops.ts), what the   *)
(* developer may ask for meanwhile (src/routes/developers.ts), and the     *)
(* limit of webhook subscriptions of a key (migration 013).                *)
(*                                                                         *)
(* Every SQL statement is one action and may be refused: the code looks at *)
(* the error of most, but has no way to take back more than the statement  *)
(* before.  A request that is turned away without a write is no step.      *)
(***************************************************************************)
EXTENDS Naturals, FiniteSets

CONSTANTS
  Keys, Orgs,    \* rows of api_keys, and of organizations made as collectives
  Domains,       \* domains links may lead to
  Requests,      \* requests that may be in flight together
  None,          \* NULL
  MaxSubs        \* MAX_SUBSCRIPTIONS_PER_KEY

ASSUME IdsAssumption    == None \notin Keys \cup Orgs \cup Domains
ASSUME StatusAssumption == None \notin {"pending", "active", "suspended"}
ASSUME LimitAssumption  == MaxSubs \in Nat \ {0}

VARIABLES
  key,       \* api_keys rows
  profile,   \* status of the contributor profile of a key, or None
  org,       \* organizations: none, named "<App> Community", named otherwise, gone
  links,     \* api_key_organization_links
  subs,      \* webhook subscriptions of a key
  listed,    \* approved_domains
  ask,       \* domain_approval_requests.status, by domain
  cache,     \* cachedDomains of the process, or None
  req,       \* requests in flight
  muddled,   \* history: keys of which requests overlapped, were cut or lost a write
  dropped,   \* history: domains taken off the list
  blurred    \* history: a load of the domains overlapped a change of them

review  == <<key, profile, org, links, muddled>>
domains == <<listed, ask, cache, dropped, blurred>>
vars    == <<review, subs, domains, req>>

-----------------------------------------------------------------------------
\* application_metadata: the review record and the witness_grant record
Meta == [review : {"none", "approved", "equipped", "rejected"},  \* equipped: with witnessing
         grant  : BOOLEAN]

Key == [status    : {"none", "active", "rejected", "revoked"},
        activated : BOOLEAN,                 \* activated_at is set
        witness   : BOOLEAN,                 \* witness_authority
        asked     : BOOLEAN,                 \* witness_authority_requested_at is set
        meta      : Meta]

\* generateAndStoreKey, for an application, or POST /service/api-keys: either way a
\* key is made without activated_at
NewKey(status) == [status |-> status, activated |-> FALSE, witness |-> FALSE, asked |-> FALSE,
                   meta |-> [review |-> "none", grant |-> FALSE]]

Idle == [pc |-> "idle"]
Req  ==
  {Idle}
  \cup [pc : {"org"}, k : Keys, verdict : {"approved", "equipped", "provision"}, meta : Meta]
  \cup [pc : {"link", "unorg", "activate"}, k : Keys, o : Orgs,
        verdict : {"approved", "equipped", "provision"}, meta : Meta]
  \cup [pc : {"reject", "grant"}, k : Keys, meta : Meta]
  \cup [pc : {"ask", "admit"}, k : Keys]
  \cup [pc : {"profile"}, k : Keys, to : {"active", "suspended"}]
  \cup [pc : {"count", "insert"}, k : Keys]
  \cup [pc : {"list", "settle", "unlist", "refuse"}, d : Domains, all : BOOLEAN]
  \cup [pc : {"load"}]
  \cup [pc : {"store"}, read : SUBSET Domains]

\* Every variable keeps its type; in particular a request that links or activates
\* has an organization to do it with.
TypeOK ==
  /\ key \in [Keys -> Key]
  /\ profile \in [Keys -> {None, "pending", "active", "suspended"}]
  /\ org \in [Orgs -> {"none", "named", "other", "gone"}]
  /\ links \subseteq Keys \X Orgs
  /\ subs \in [Keys -> Nat]
  /\ listed \subseteq Domains /\ ask \in [Domains -> {"none", "pending", "approved", "rejected"}]
  /\ cache = None \/ cache \subseteq Domains
  /\ req \in [Requests -> Req]
  /\ muddled \subseteq Keys /\ dropped \subseteq Domains /\ blurred \in BOOLEAN

Init ==
  /\ key \in [Keys -> {NewKey(status) : status \in {"none", "active"}}]
  /\ profile \in [Keys -> {None, "pending"}]
  /\ \A k \in Keys : key[k].status = "none" => profile[k] = None
  /\ org = [o \in Orgs |-> "none"] /\ links = {}
  /\ subs = [k \in Keys |-> 0]
  /\ listed = {} /\ ask \in [Domains -> {"none", "pending"}] /\ cache = None
  /\ req = [r \in Requests |-> Idle]
  /\ muddled = {} /\ dropped = {} /\ blurred = FALSE

-----------------------------------------------------------------------------
At(r, pc)   == req[r].pc = pc
Goes(r, q)  == req' = [req EXCEPT ![r] = q]
Ends(r)     == Goes(r, Idle)
Reviews     == {"org", "link", "unorg", "activate", "reject", "grant", "ask", "admit", "profile"}
OnKey(k)    == {x \in Requests : req[x].pc \in Reviews /\ req[x].k = k}

\* a request about key k begins
Begins(r, k, q) ==
  /\ At(r, "idle") /\ Goes(r, q)
  /\ muddled' = IF OnKey(k) = {} THEN muddled ELSE muddled \cup {k}

\* the process restarts: what its requests had in hand is lost, and the cache
Restart ==
  /\ req' = [r \in Requests |-> Idle] /\ cache' = None
  /\ muddled' = muddled \cup {k \in Keys : OnKey(k) # {}}
  /\ UNCHANGED <<key, profile, org, links, subs, listed, ask, dropped, blurred>>

-----------------------------------------------------------------------------
(* What a key is good for, and who finds it where *)

\* optionalApiKey, requireApiKey
Resolves(k) == key[k].status = "active"
\* requireServiceApiKey
MayWrite(k) == Resolves(k) /\ key[k].activated

\* GET /contributors and GET /contributors/:idOrSlug
Contributors == {k \in Keys : profile[k] = "active"}

\* isPending, statusBadge
Pending(k) == key[k].status = "active" /\ ~key[k].activated

\* GET /operator/applications, without a filter: applications and requests of
\* witnessing.  The requests are not asked for the status of their key.
Applications    == {k \in Keys : Pending(k)}
WitnessRequests == {k \in Keys : key[k].asked /\ ~key[k].witness}

\* what GET /operator/applications/:id offers
Offered(k) == CASE Pending(k) -> "decision"
                [] ~Pending(k) /\ k \in WitnessRequests -> "grant"
                [] OTHER -> "nothing"

-----------------------------------------------------------------------------
(* The operator's decisions *)

ApproveRead(r, k, verdict) ==
  /\ Pending(k)
  /\ Begins(r, k, [pc |-> "org", k |-> k, verdict |-> verdict, meta |-> key[k].meta])
  /\ UNCHANGED <<key, profile, org, links, subs, domains>>

\* Mutant: the error of the insert is not looked at.
NoOrgMutant(r) == Goes(r, [pc |-> "link", k |-> req[r].k, o |-> None,
                           verdict |-> req[r].verdict, meta |-> req[r].meta])
\* the slug is taken or the insert fails
NoOrg(r) == Ends(r)

\* insert into organizations, by an approval or by the developer
MakeOrg(r) ==
  /\ At(r, "org")
  /\ \/ \E o \in Orgs, name \in {"named", "other"} :
          /\ org[o] = "none" /\ org' = [org EXCEPT ![o] = name]
          /\ req[r].verdict = "provision" => name = "named"
          /\ Goes(r, [pc |-> "link", k |-> req[r].k, o |-> o,
                      verdict |-> req[r].verdict, meta |-> req[r].meta])
     \/ NoOrg(r) /\ UNCHANGED org
  /\ UNCHANGED <<key, profile, links, muddled, subs, domains>>

\* Mutant: an approval goes on without its link.
UnlinkedMutant(r) == IF req[r].verdict = "provision" THEN "unorg" ELSE "activate"
\* if (linkErr)
Unlinked(r) == "unorg"

LinkOrg(r) ==
  /\ At(r, "link")
  /\ \/ /\ links' = links \cup {<<req[r].k, req[r].o>>}
        /\ IF req[r].verdict = "provision" THEN Ends(r)
                                           ELSE Goes(r, [req[r] EXCEPT !.pc = "activate"])
     \/ Goes(r, [req[r] EXCEPT !.pc = Unlinked(r)]) /\ UNCHANGED links
  /\ UNCHANGED <<key, profile, org, muddled, subs, domains>>

UndoOrg(r) ==
  /\ At(r, "unorg") /\ Ends(r)
  /\ org' \in {org, [org EXCEPT ![req[r].o] = "gone"]}
  /\ UNCHANGED <<key, profile, links, muddled, subs, domains>>

\* Mutant: the metadata is written without what was in it.
ReviewedMutant(meta, verdict) == [review |-> verdict, grant |-> FALSE]
\* { ...application_metadata, review }
Reviewed(meta, verdict) == [meta EXCEPT !.review = verdict]

\* the profile is updated next, if the key has one
ThenProfile(r, k, to) ==
  IF profile[k] = None THEN Ends(r) ELSE Goes(r, [pc |-> "profile", k |-> k, to |-> to])

Activate(r) ==
  LET k == req[r].k
      w == req[r].verdict = "equipped" IN
  /\ At(r, "activate")
  /\ \/ /\ key' = [key EXCEPT ![k] =
            [key[k] EXCEPT !.activated = TRUE, !.witness = @ \/ w, !.asked = @ /\ ~w,
                           !.meta = Reviewed(req[r].meta, req[r].verdict)]]
        /\ ThenProfile(r, k, "active")
     \/ Ends(r) /\ UNCHANGED key
  /\ UNCHANGED <<profile, org, links, muddled, subs, domains>>

RejectRead(r, k) ==
  /\ Pending(k) /\ Begins(r, k, [pc |-> "reject", k |-> k, meta |-> key[k].meta])
  /\ UNCHANGED <<key, profile, org, links, subs, domains>>

RejectWrite(r) ==
  LET k == req[r].k IN
  /\ At(r, "reject")
  /\ \/ /\ key' = [key EXCEPT ![k] =
            [key[k] EXCEPT !.status = "rejected", !.meta = Reviewed(req[r].meta, "rejected")]]
        /\ ThenProfile(r, k, "suspended")
     \/ Ends(r) /\ UNCHANGED key
  /\ UNCHANGED <<profile, org, links, muddled, subs, domains>>

\* an error of this update is logged and the decision reported as made
UpdateProfile(r) ==
  LET k == req[r].k IN
  /\ At(r, "profile") /\ Ends(r)
  /\ \/ profile' = [profile EXCEPT ![k] = req[r].to] /\ UNCHANGED muddled
     \/ muddled' = muddled \cup {k} /\ UNCHANGED profile
  /\ UNCHANGED <<key, org, links, subs, domains>>

\* POST /applications/:id/grant-witnessing, whatever the state of the review
GrantRead(r, k) ==
  /\ key[k].status # "none" /\ ~key[k].witness
  /\ Begins(r, k, [pc |-> "grant", k |-> k, meta |-> key[k].meta])
  /\ UNCHANGED <<key, profile, org, links, subs, domains>>

GrantWrite(r) ==
  LET k == req[r].k IN
  /\ At(r, "grant") /\ Ends(r)
  /\ key' \in {key, [key EXCEPT ![k] =
                     [key[k] EXCEPT !.witness = TRUE, !.asked = FALSE,
                                    !.meta = [req[r].meta EXCEPT !.grant = TRUE]]]}
  /\ UNCHANGED <<profile, org, links, muddled, subs, domains>>

-----------------------------------------------------------------------------
(* The developer and the administrator *)

\* POST /developers/collective/request-witnessing
AskRead(r, k) ==
  /\ key[k].status # "none" /\ ~key[k].witness
  /\ Begins(r, k, [pc |-> "ask", k |-> k])
  /\ UNCHANGED <<key, profile, org, links, subs, domains>>

AskWrite(r) ==
  /\ At(r, "ask") /\ Ends(r)
  /\ key' \in {key, [key EXCEPT ![req[r].k].asked = TRUE]}
  /\ UNCHANGED <<profile, org, links, muddled, subs, domains>>

HasCollective(k) == \E o \in Orgs : <<k, o>> \in links /\ org[o] = "named"

\* POST /developers/collective/provision: the key may be pending still
ProvisionRead(r, k) ==
  /\ key[k].status # "none" /\ ~HasCollective(k)
  /\ Begins(r, k, [pc |-> "org", k |-> k, verdict |-> "provision", meta |-> key[k].meta])
  /\ UNCHANGED <<key, profile, org, links, subs, domains>>

\* POST /service/api-keys
IssueKey(k) ==
  /\ key[k].status = "none" /\ key' = [key EXCEPT ![k] = NewKey("active")]
  /\ UNCHANGED <<profile, org, links, muddled, subs, domains, req>>

\* PATCH /service/api-keys/:id, one statement
PatchKey(k, status) ==
  /\ key[k].status \notin {"none", status} /\ key' = [key EXCEPT ![k].status = status]
  /\ UNCHANGED <<profile, org, links, muddled, subs, domains, req>>

\* POST /service/api-keys/:id/activate: neither status nor review is looked at
AdminActivateRead(r, k) ==
  /\ key[k].status # "none" /\ ~key[k].activated /\ Begins(r, k, [pc |-> "admit", k |-> k])
  /\ UNCHANGED <<key, profile, org, links, subs, domains>>

AdminActivateWrite(r) ==
  /\ At(r, "admit") /\ Ends(r)
  /\ key' \in {key, [key EXCEPT ![req[r].k].activated = TRUE]}
  /\ UNCHANGED <<profile, org, links, muddled, subs, domains>>

-----------------------------------------------------------------------------
(* Webhook subscriptions: create_webhook_subscription is one transaction of *)
(* several statements, and each of them sees what was committed before it.  *)

\* Mutant: the function takes no lock.
FreeMutant(k) == TRUE
\* pg_advisory_xact_lock of the key, held until the transaction ends
Free(k) == \A x \in Requests : req[x].pc \in {"count", "insert"} => req[x].k # k

SubscribeLock(r, k) ==
  /\ At(r, "idle") /\ Resolves(k) /\ Free(k)
  /\ Goes(r, [pc |-> "count", k |-> k])
  /\ UNCHANGED <<review, subs, domains>>

SubscribeCount(r) ==
  /\ At(r, "count")
  /\ IF subs[req[r].k] >= MaxSubs THEN Ends(r) ELSE Goes(r, [req[r] EXCEPT !.pc = "insert"])
  /\ UNCHANGED <<review, subs, domains>>

\* the insert, and the commit that shows it to others
SubscribeCommit(r) ==
  /\ At(r, "insert") /\ Ends(r)
  /\ subs' \in {subs, [subs EXCEPT ![req[r].k] = @ + 1]}
  /\ UNCHANGED <<review, domains>>

Unsubscribe(k) ==
  /\ subs[k] > 0 /\ subs' = [subs EXCEPT ![k] = @ - 1]
  /\ UNCHANGED <<review, domains, req>>

-----------------------------------------------------------------------------
(* Approved domains and the cache of them *)

Loading == \E x \in Requests : req[x].pc = "store"
Changes == blurred' = (blurred \/ Loading)

\* Mutant: the list changes and the cache is kept.
InvalidatedMutant == cache
\* invalidateApprovedDomainsCache
Invalidated == None

\* POST /approved-domains (all: every pending request of the domain is settled),
\* or POST /domain-approval-requests/:id/approve
ApproveDomain(r, d, all) ==
  /\ At(r, "idle") /\ (all \/ ask[d] = "pending")
  /\ Goes(r, [pc |-> "list", d |-> d, all |-> all])
  /\ UNCHANGED <<review, subs, domains>>

ListDomain(r) ==
  LET d == req[r].d IN
  /\ At(r, "list")
  /\ \/ listed' = listed \cup {d} /\ Goes(r, [req[r] EXCEPT !.pc = "settle"]) /\ Changes
     \/ Ends(r) /\ UNCHANGED <<listed, blurred>>
  /\ UNCHANGED <<review, subs, ask, cache, dropped>>

\* its error is not looked at; the cache is dropped when it returns
SettleRequest(r) ==
  LET d == req[r].d IN
  /\ At(r, "settle") /\ Ends(r)
  /\ \/ ask' = IF req[r].all /\ ask[d] # "pending" THEN ask ELSE [ask EXCEPT ![d] = "approved"]
     \/ UNCHANGED ask
  /\ cache' = Invalidated
  /\ UNCHANGED <<review, subs, listed, dropped, blurred>>

\* DELETE /approved-domains/:domain
RemoveDomain(r, d) ==
  /\ At(r, "idle")
  /\ listed' = listed \ {d} /\ dropped' = dropped \cup ({d} \cap listed) /\ Changes
  /\ Goes(r, [pc |-> "unlist", d |-> d, all |-> TRUE])
  /\ UNCHANGED <<review, subs, ask, cache>>

RemovedDomain(r) ==
  /\ At(r, "unlist") /\ Ends(r) /\ cache' = Invalidated
  /\ UNCHANGED <<review, subs, listed, ask, dropped, blurred>>

\* POST /domain-approval-requests/:id/reject
RefuseRead(r, d) ==
  /\ At(r, "idle") /\ ask[d] = "pending"
  /\ Goes(r, [pc |-> "refuse", d |-> d, all |-> FALSE])
  /\ UNCHANGED <<review, subs, domains>>

RefuseWrite(r) ==
  /\ At(r, "refuse") /\ Ends(r)
  /\ ask' \in {ask, [ask EXCEPT ![req[r].d] = "rejected"]}
  /\ UNCHANGED <<review, subs, listed, cache, dropped, blurred>>

\* loadApprovedDomains, while the cache is empty or past CACHE_TTL_MS
LoadBegins(r) ==
  /\ At(r, "idle") /\ Goes(r, [pc |-> "load"])
  /\ UNCHANGED <<review, subs, domains>>

LoadRead(r) ==
  /\ At(r, "load")
  /\ Goes(r, [pc |-> "store", read |-> listed]) \/ Ends(r)
  /\ UNCHANGED <<review, subs, domains>>

LoadStore(r) ==
  /\ At(r, "store") /\ Ends(r) /\ cache' = req[r].read
  /\ UNCHANGED <<review, subs, listed, ask, dropped, blurred>>

-----------------------------------------------------------------------------
ReviewStep ==
  \/ \E r \in Requests, k \in Keys :
       \/ \E verdict \in {"approved", "equipped"} : ApproveRead(r, k, verdict)
       \/ RejectRead(r, k) \/ GrantRead(r, k) \/ AskRead(r, k) \/ ProvisionRead(r, k)
       \/ AdminActivateRead(r, k)
  \/ \E r \in Requests :
       \/ MakeOrg(r) \/ LinkOrg(r) \/ UndoOrg(r) \/ Activate(r) \/ RejectWrite(r)
       \/ UpdateProfile(r) \/ GrantWrite(r) \/ AskWrite(r) \/ AdminActivateWrite(r)
  \/ \E k \in Keys : IssueKey(k) \/ \E status \in {"active", "revoked"} : PatchKey(k, status)

SubscribeStep ==
  \/ \E r \in Requests, k \in Keys : SubscribeLock(r, k)
  \/ \E r \in Requests : SubscribeCount(r) \/ SubscribeCommit(r)
  \/ \E k \in Keys : Unsubscribe(k)

DomainStep ==
  \/ \E r \in Requests, d \in Domains :
       \/ \E all \in BOOLEAN : ApproveDomain(r, d, all)
       \/ RemoveDomain(r, d) \/ RefuseRead(r, d)
  \/ \E r \in Requests :
       \/ ListDomain(r) \/ SettleRequest(r) \/ RemovedDomain(r) \/ RefuseWrite(r)
       \/ LoadBegins(r) \/ LoadRead(r) \/ LoadStore(r)

Next == ReviewStep \/ SubscribeStep \/ DomainStep \/ Restart

Spec == Init /\ [][Next]_vars

-----------------------------------------------------------------------------
\* A key that was approved has a collective it may write for, whatever ran beside
\* the approval and wherever it was cut: the order of its statements sees to it.
EquippedWhenApproved ==
  \A k \in Keys : key[k].meta.review \in {"approved", "equipped"} =>
    \E o \in Orgs : <<k, o>> \in links /\ org[o] \in {"named", "other"}

\* The key, its profile and the record of its review agree once no request about
\* it is under way: an approved key that was not revoked may write and is a public
\* contributor, a rejected one is not; a capability granted is on record; and what
\* was decided waits in no list of the operator, whose page offers something for
\* all that waits.  Requests that overlap, a restart within one and a refused
\* update of the profile are excepted.
DecisionOnRecord ==
  /\ \A k \in Applications \cup WitnessRequests : Offered(k) # "nothing"
  /\ \A k \in Keys : k \notin muddled /\ OnKey(k) = {} =>
       LET m == key[k].meta IN
       /\ m.review \in {"approved", "equipped"} =>
            /\ Resolves(k) => MayWrite(k)
            /\ k \notin Applications
            /\ profile[k] # None => k \in Contributors
       /\ m.review = "rejected" /\ key[k].status = "rejected" =>
            k \notin Contributors \cup Applications
       /\ key[k].witness => (m.grant \/ m.review = "equipped") /\ k \notin WitnessRequests

\* A key never has more subscriptions than the limit, however many requests
\* create them at once.
SubscriptionLimit == \A k \in Keys : subs[k] <= MaxSubs

\* A domain whose request was approved is on the list until an administrator takes
\* it off; and the cache holds what the list does while nobody is changing it,
\* unless a load overlapped a change.
DomainsAgree ==
  /\ \A d \in Domains : ask[d] = "approved" => d \in listed \cup dropped
  /\ \/ blurred \/ cache = None \/ cache = listed
     \/ \E x \in Requests : req[x].pc \in {"settle", "unlist"}
=============================================================================
