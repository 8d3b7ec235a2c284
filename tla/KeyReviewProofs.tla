--------------------------- MODULE KeyReviewProofs ---------------------------
(***************************************************************************)
(* Theorems about KeyReview for every set of keys, organizations, domains  *)
(* and requests, and every limit of subscriptions.                         *)
(***************************************************************************)
EXTENDS KeyReview, TLAPS

-----------------------------------------------------------------------------
(* The requests there are *)

Verdicts == {"approved", "equipped", "provision"}

OrgReq(k, v, m)         == [pc |-> "org", k |-> k, verdict |-> v, meta |-> m]
LinkReq(pc, k, o, v, m) == [pc |-> pc, k |-> k, o |-> o, verdict |-> v, meta |-> m]
MetaReq(pc, k, m)       == [pc |-> pc, k |-> k, meta |-> m]
KeyReq(pc, k)           == [pc |-> pc, k |-> k]
ProfileReq(k, to)       == [pc |-> "profile", k |-> k, to |-> to]
DomainReq(pc, d, all)   == [pc |-> pc, d |-> d, all |-> all]
StoreReq(read)          == [pc |-> "store", read |-> read]

LinkPcs   == {"link", "unorg", "activate"}
DomainPcs == {"list", "settle", "unlist", "refuse"}

LEMMA ReqMade ==
  /\ Idle \in Req /\ Idle.pc = "idle" /\ [pc |-> "load"] \in Req
  /\ \A k \in Keys, v \in Verdicts, m \in Meta : OrgReq(k, v, m) \in Req
  /\ \A k \in Keys, v \in Verdicts, m \in Meta, o \in Orgs, pc \in LinkPcs :
       LinkReq(pc, k, o, v, m) \in Req
  /\ \A k \in Keys, m \in Meta, pc \in {"reject", "grant"} : MetaReq(pc, k, m) \in Req
  /\ \A k \in Keys, pc \in {"ask", "admit", "count", "insert"} : KeyReq(pc, k) \in Req
  /\ \A k \in Keys, to \in {"active", "suspended"} : ProfileReq(k, to) \in Req
  /\ \A d \in Domains, all \in BOOLEAN, pc \in DomainPcs : DomainReq(pc, d, all) \in Req
  /\ \A read \in SUBSET Domains : StoreReq(read) \in Req
  <1> USE DEF Req
  <1>1. Idle \in Req /\ Idle.pc = "idle" /\ [pc |-> "load"] \in Req
    BY DEF Idle
  <1>2. \A k \in Keys, v \in Verdicts, m \in Meta : OrgReq(k, v, m) \in Req
    BY DEF OrgReq, Verdicts
  <1>3. \A k \in Keys, v \in Verdicts, m \in Meta, o \in Orgs, pc \in LinkPcs :
          LinkReq(pc, k, o, v, m) \in Req
    BY DEF LinkReq, Verdicts, LinkPcs
  <1>4. \A k \in Keys, m \in Meta, pc \in {"reject", "grant"} : MetaReq(pc, k, m) \in Req
    BY DEF MetaReq
  <1>5. \A k \in Keys, pc \in {"ask", "admit", "count", "insert"} : KeyReq(pc, k) \in Req
    BY DEF KeyReq
  <1>6. \A k \in Keys, to \in {"active", "suspended"} : ProfileReq(k, to) \in Req
    BY DEF ProfileReq
  <1>7. \A d \in Domains, all \in BOOLEAN, pc \in DomainPcs : DomainReq(pc, d, all) \in Req
    BY DEF DomainReq, DomainPcs
  <1>8. \A read \in SUBSET Domains : StoreReq(read) \in Req
    BY DEF StoreReq
  <1> QED
    BY <1>1, <1>2, <1>3, <1>4, <1>5, <1>6, <1>7, <1>8

LEMMA ReqIs ==
  ASSUME NEW q \in Req
  PROVE  /\ q.pc = "org" => q.k \in Keys /\ q.verdict \in Verdicts /\ q.meta \in Meta
         /\ q.pc \in LinkPcs => /\ q.k \in Keys /\ q.o \in Orgs /\ q.verdict \in Verdicts
                                /\ q.meta \in Meta
                                /\ q = LinkReq(q.pc, q.k, q.o, q.verdict, q.meta)
         /\ q.pc \in {"reject", "grant"} => q.k \in Keys /\ q.meta \in Meta
         /\ q.pc \in {"ask", "admit", "count", "insert"} => q.k \in Keys /\ q = KeyReq(q.pc, q.k)
         /\ q.pc = "profile" => q.k \in Keys /\ q.to \in {"active", "suspended"}
         /\ q.pc \in DomainPcs => /\ q.d \in Domains /\ q.all \in BOOLEAN
                                  /\ q = DomainReq(q.pc, q.d, q.all)
         /\ q.pc = "store" => q.read \in SUBSET Domains
  BY DEF Req, Idle, Verdicts, LinkPcs, DomainPcs, LinkReq, KeyReq, DomainReq

LEMMA Moved ==
  /\ \A pc, k, o, v, m, x : [LinkReq(pc, k, o, v, m) EXCEPT !.pc = x] = LinkReq(x, k, o, v, m)
  /\ \A pc, k, x : [KeyReq(pc, k) EXCEPT !.pc = x] = KeyReq(x, k)
  /\ \A pc, d, all, x : [DomainReq(pc, d, all) EXCEPT !.pc = x] = DomainReq(x, d, all)
  BY DEF LinkReq, KeyReq, DomainReq

LEMMA KeyMade ==
  ASSUME NEW row \in Key, NEW meta \in Meta, NEW st \in {"none", "active", "rejected", "revoked"},
         NEW w \in BOOLEAN
  PROVE  /\ [row EXCEPT !.activated = TRUE, !.witness = @ \/ w, !.asked = @ /\ ~w, !.meta = meta]
              \in Key
         /\ [row EXCEPT !.status = st, !.meta = meta] \in Key
         /\ [row EXCEPT !.witness = TRUE, !.asked = FALSE, !.meta = meta] \in Key
         /\ [row EXCEPT !.asked = TRUE] \in Key
         /\ [row EXCEPT !.status = st] \in Key
         /\ [row EXCEPT !.activated = TRUE] \in Key
  BY DEF Key

-----------------------------------------------------------------------------
(* Types, and which requests move. *)

RowsOK ==
  /\ key \in [Keys -> Key]
  /\ profile \in [Keys -> {None, "pending", "active", "suspended"}]
  /\ org \in [Orgs -> {"none", "named", "other", "gone"}]
  /\ links \subseteq Keys \X Orgs
  /\ subs \in [Keys -> Nat]
  /\ listed \subseteq Domains /\ ask \in [Domains -> {"none", "pending", "approved", "rejected"}]
  /\ cache = None \/ cache \subseteq Domains
  /\ muddled \subseteq Keys /\ dropped \subseteq Domains /\ blurred \in BOOLEAN

\* what the developer provisions is not activated by it
Sane(q) == q \in Req /\ (q.pc = "activate" => q.verdict # "provision")

\* with that, TypeOK is inductive
Typed == RowsOK /\ req \in [Requests -> Req] /\ \A x \in Requests : Sane(req[x])

LEMMA TypedIs == (Typed => TypeOK) /\ (Typed' => TypeOK')
  BY DEF Typed, TypeOK, RowsOK

SubscribePcs == {"count", "insert"}
ListPcs      == DomainPcs \cup {"load", "store"}

\* the requests stay typed, and one moves, if any, within S
Moves(S) ==
  /\ req' \in [Requests -> Req] /\ \A x \in Requests : Sane(req'[x])
  /\ \A x \in Requests : \/ req'[x] = req[x]
                         \/ req[x].pc \in S \cup {"idle"} /\ req'[x].pc \in S \cup {"idle"}

\* only request r moves, and becomes q
Becomes(r, q) == req'[r] = q /\ \A x \in Requests : x # r => req'[x] = req[x]

LEMMA Put ==
  ASSUME Typed, NEW r \in Requests, NEW q, Goes(r, q)
  PROVE  Becomes(r, q)
  BY DEF Goes, Becomes, Typed

LEMMA PutMoves ==
  ASSUME Typed, NEW r \in Requests, NEW q, Goes(r, q), NEW S, Sane(q),
         req[r].pc \in S \cup {"idle"}, q.pc \in S \cup {"idle"}
  PROVE  Moves(S)
  BY DEF Goes, Moves, Typed, Sane

LEMMA EndsMoves ==
  ASSUME Typed, NEW r \in Requests, Ends(r), NEW S, req[r].pc \in S \cup {"idle"}
  PROVE  Moves(S)
  BY PutMoves, ReqMade DEF Ends, Sane

LEMMA StillMoves ==
  ASSUME Typed, UNCHANGED req, NEW S
  PROVE  Moves(S)
  BY DEF Moves, Typed

LEMMA InitTyped == Init => Typed
  <1> SUFFICES ASSUME Init PROVE Typed
    OBVIOUS
  <1>1. key \in [Keys -> Key]
    <2>1. \A st \in {"none", "active"} : NewKey(st) \in Key
      BY DEF NewKey, Key, Meta
    <2> QED
      BY <2>1 DEF Init
  <1>3. RowsOK
    BY <1>1 DEF Init, RowsOK
  <1>2. Sane(Idle)
    BY ReqMade DEF Sane
  <1> QED
    BY <1>2, <1>3 DEF Init, Typed, Sane

LEMMA SaneMade ==
  /\ \A k \in Keys, v \in Verdicts, m \in Meta : Sane(OrgReq(k, v, m))
  /\ \A k \in Keys, v \in Verdicts, m \in Meta, o \in Orgs, pc \in LinkPcs :
       (pc = "activate" => v # "provision") => Sane(LinkReq(pc, k, o, v, m))
  /\ \A k \in Keys, m \in Meta, pc \in {"reject", "grant"} : Sane(MetaReq(pc, k, m))
  /\ \A k \in Keys, pc \in {"ask", "admit", "count", "insert"} : Sane(KeyReq(pc, k))
  /\ \A k \in Keys, to \in {"active", "suspended"} : Sane(ProfileReq(k, to))
  /\ \A d \in Domains, all \in BOOLEAN, pc \in DomainPcs : Sane(DomainReq(pc, d, all))
  /\ \A read \in SUBSET Domains : Sane(StoreReq(read))
  /\ Sane([pc |-> "load"])
  <1> USE ReqMade DEF Sane
  <1>1. \A k \in Keys, v \in Verdicts, m \in Meta : Sane(OrgReq(k, v, m))
    BY DEF OrgReq
  <1>2. \A k \in Keys, v \in Verdicts, m \in Meta, o \in Orgs, pc \in LinkPcs :
          (pc = "activate" => v # "provision") => Sane(LinkReq(pc, k, o, v, m))
    BY DEF LinkReq
  <1>3. \A k \in Keys, m \in Meta, pc \in {"reject", "grant"} : Sane(MetaReq(pc, k, m))
    BY DEF MetaReq
  <1>4. \A k \in Keys, pc \in {"ask", "admit", "count", "insert"} : Sane(KeyReq(pc, k))
    BY DEF KeyReq
  <1>5. \A k \in Keys, to \in {"active", "suspended"} : Sane(ProfileReq(k, to))
    BY DEF ProfileReq
  <1>6. \A d \in Domains, all \in BOOLEAN, pc \in DomainPcs : Sane(DomainReq(pc, d, all))
    BY DEF DomainReq, DomainPcs
  <1>7. \A read \in SUBSET Domains : Sane(StoreReq(read))
    BY DEF StoreReq
  <1>8. Sane([pc |-> "load"])
    OBVIOUS
  <1> QED
    BY <1>1, <1>2, <1>3, <1>4, <1>5, <1>6, <1>7, <1>8

LEMMA KeyPut ==
  ASSUME key \in [Keys -> Key], NEW k \in Keys, NEW row \in Key,
         key' = key \/ key' = [key EXCEPT ![k] = row]
  PROVE  key' \in [Keys -> Key]
  OBVIOUS

LEMMA ReviewedTyped ==
  ASSUME NEW m \in Meta, NEW v \in {"approved", "equipped", "rejected"}
  PROVE  /\ Reviewed(m, v) \in Meta /\ Reviewed(m, v).review = v /\ Reviewed(m, v).grant = m.grant
         /\ [m EXCEPT !.grant = TRUE] \in Meta /\ [m EXCEPT !.grant = TRUE].review = m.review
         /\ [m EXCEPT !.grant = TRUE].grant = TRUE
  BY DEF Reviewed, Meta

LEMMA ReviewedIs ==
  \A m \in Meta : \A v \in {"approved", "equipped", "rejected"} :
    Reviewed(m, v) \in Meta /\ Reviewed(m, v).review = v /\ Reviewed(m, v).grant = m.grant
  BY DEF Reviewed, Meta

LEMMA BeginsTyped ==
  ASSUME Typed, NEW r \in Requests, NEW k \in Keys, NEW q, Begins(r, k, q),
         UNCHANGED <<key, profile, org, links, subs, domains>>,
         \/ \E v \in Verdicts, m \in Meta : q = OrgReq(k, v, m)
         \/ \E pc \in {"reject", "grant"}, m \in Meta : q = MetaReq(pc, k, m)
         \/ \E pc \in {"ask", "admit"} : q = KeyReq(pc, k)
  PROVE  RowsOK' /\ Moves(Reviews)
  <1>1. RowsOK'
    BY DEF Typed, RowsOK, Begins, domains
  <1>2. Sane(q) /\ q.pc \in Reviews
    <2>1. ASSUME NEW v \in Verdicts, NEW m \in Meta, q = OrgReq(k, v, m)
          PROVE  Sane(q) /\ q.pc \in Reviews
      BY <2>1, SaneMade DEF OrgReq, Reviews
    <2>2. ASSUME NEW pc \in {"reject", "grant"}, NEW m \in Meta, q = MetaReq(pc, k, m)
          PROVE  Sane(q) /\ q.pc \in Reviews
      BY <2>2, SaneMade DEF MetaReq, Reviews
    <2>3. ASSUME NEW pc \in {"ask", "admit"}, q = KeyReq(pc, k)
          PROVE  Sane(q) /\ q.pc \in Reviews
      BY <2>3, SaneMade DEF KeyReq, Reviews
    <2> QED
      BY <2>1, <2>2, <2>3
  <1>3. Goes(r, q) /\ req[r].pc = "idle"
    BY DEF Begins, At
  <1> QED
    BY <1>1, <1>2, <1>3, PutMoves

LEMMA ReviewTyped == Typed /\ ReviewStep => RowsOK' /\ Moves(Reviews)
  <1> SUFFICES ASSUME Typed, ReviewStep PROVE RowsOK' /\ Moves(Reviews)
    OBVIOUS
  <1>0. /\ RowsOK /\ \A x \in Requests : req[x] \in Req /\ Sane(req[x])
        /\ \A k \in Keys : key[k] \in Key /\ key[k].meta \in Meta
    BY DEF Typed, RowsOK, Key
  <1>a. {"approved", "equipped", "provision"} \subseteq Verdicts
    BY DEF Verdicts
  <1>b. \A x \in Requests :
          /\ req[x].pc = "org" => /\ req[x].k \in Keys /\ req[x].verdict \in Verdicts
                                  /\ req[x].meta \in Meta
          /\ req[x].pc \in LinkPcs =>
               /\ req[x].k \in Keys /\ req[x].o \in Orgs /\ req[x].verdict \in Verdicts
               /\ req[x].meta \in Meta
               /\ req[x] = LinkReq(req[x].pc, req[x].k, req[x].o, req[x].verdict, req[x].meta)
          /\ req[x].pc \in {"reject", "grant"} => req[x].k \in Keys /\ req[x].meta \in Meta
          /\ req[x].pc \in {"ask", "admit"} => req[x].k \in Keys
          /\ req[x].pc = "profile" => req[x].k \in Keys /\ req[x].to \in {"active", "suspended"}
    BY <1>0, ReqIs
  <1>1. ASSUME NEW r \in Requests, NEW k \in Keys, NEW v \in {"approved", "equipped"},
               ApproveRead(r, k, v)
        PROVE  RowsOK' /\ Moves(Reviews)
    <2>1. /\ Begins(r, k, OrgReq(k, v, key[k].meta))
          /\ UNCHANGED <<key, profile, org, links, subs, domains>>
      BY <1>1 DEF ApproveRead, OrgReq, MetaReq, KeyReq
    <2> QED
      BY <1>0, <1>a, <2>1, BeginsTyped
  <1>2. ASSUME NEW r \in Requests, NEW k \in Keys, RejectRead(r, k)
        PROVE  RowsOK' /\ Moves(Reviews)
    <2>1. /\ Begins(r, k, MetaReq("reject", k, key[k].meta))
          /\ UNCHANGED <<key, profile, org, links, subs, domains>>
      BY <1>2 DEF RejectRead, OrgReq, MetaReq, KeyReq
    <2> QED
      BY <1>0, <1>a, <2>1, BeginsTyped
  <1>3. ASSUME NEW r \in Requests, NEW k \in Keys, GrantRead(r, k)
        PROVE  RowsOK' /\ Moves(Reviews)
    <2>1. /\ Begins(r, k, MetaReq("grant", k, key[k].meta))
          /\ UNCHANGED <<key, profile, org, links, subs, domains>>
      BY <1>3 DEF GrantRead, OrgReq, MetaReq, KeyReq
    <2> QED
      BY <1>0, <1>a, <2>1, BeginsTyped
  <1>4. ASSUME NEW r \in Requests, NEW k \in Keys, AskRead(r, k) PROVE RowsOK' /\ Moves(Reviews)
    <2>1. /\ Begins(r, k, KeyReq("ask", k))
          /\ UNCHANGED <<key, profile, org, links, subs, domains>>
      BY <1>4 DEF AskRead, OrgReq, MetaReq, KeyReq
    <2> QED
      BY <1>0, <1>a, <2>1, BeginsTyped
  <1>5. ASSUME NEW r \in Requests, NEW k \in Keys, ProvisionRead(r, k)
        PROVE  RowsOK' /\ Moves(Reviews)
    <2>1. /\ Begins(r, k, OrgReq(k, "provision", key[k].meta))
          /\ UNCHANGED <<key, profile, org, links, subs, domains>>
      BY <1>5 DEF ProvisionRead, OrgReq, MetaReq, KeyReq
    <2> QED
      BY <1>0, <1>a, <2>1, BeginsTyped
  <1>6. ASSUME NEW r \in Requests, NEW k \in Keys, AdminActivateRead(r, k)
        PROVE  RowsOK' /\ Moves(Reviews)
    <2>1. /\ Begins(r, k, KeyReq("admit", k))
          /\ UNCHANGED <<key, profile, org, links, subs, domains>>
      BY <1>6 DEF AdminActivateRead, OrgReq, MetaReq, KeyReq
    <2> QED
      BY <1>0, <1>a, <2>1, BeginsTyped
  <1>7. ASSUME NEW r \in Requests, MakeOrg(r) PROVE RowsOK' /\ Moves(Reviews)
    <2>1. req[r].pc = "org" /\ req[r].pc \in Reviews
      BY <1>7 DEF MakeOrg, At, Reviews
    <2>2. RowsOK'
      BY <1>0, <1>7 DEF MakeOrg, RowsOK, domains
    <2>3. CASE Ends(r)
      BY <2>1, <2>2, <2>3, EndsMoves
    <2>4. ASSUME NEW o \in Orgs,
                 Goes(r, LinkReq("link", req[r].k, o, req[r].verdict, req[r].meta))
          PROVE  Moves(Reviews)
      <3> DEFINE q == LinkReq("link", req[r].k, o, req[r].verdict, req[r].meta)
      <3>1. Sane(q)
        BY <1>b, <2>1, SaneMade DEF LinkPcs
      <3>2. q.pc \in Reviews
        BY DEF LinkReq, Reviews
      <3> QED
        BY <2>1, <2>4, <3>1, <3>2, PutMoves
    <2> QED
      BY <1>7, <2>2, <2>3, <2>4 DEF MakeOrg, NoOrg, LinkReq
  <1>8. ASSUME NEW r \in Requests, LinkOrg(r) PROVE RowsOK' /\ Moves(Reviews)
    <2>1. req[r].pc = "link" /\ req[r].pc \in Reviews /\ req[r].pc \in LinkPcs
      BY <1>8 DEF LinkOrg, At, Reviews, LinkPcs
    <2>2. RowsOK'
      BY <1>0, <1>b, <1>8, <2>1 DEF LinkOrg, RowsOK, domains
    <2>3. CASE Ends(r)
      BY <2>1, <2>2, <2>3, EndsMoves
    <2>4. ASSUME NEW pc \in {"activate", "unorg"}, Goes(r, [req[r] EXCEPT !.pc = pc]),
                 pc = "activate" => req[r].verdict # "provision"
          PROVE  Moves(Reviews)
      <3> DEFINE q == LinkReq(pc, req[r].k, req[r].o, req[r].verdict, req[r].meta)
      <3>1. [req[r] EXCEPT !.pc = pc] = q
        BY <1>b, <2>1, Moved
      <3>2. Sane(q)
        BY <1>b, <2>1, <2>4, SaneMade DEF LinkPcs
      <3>3. q.pc \in Reviews
        BY DEF LinkReq, Reviews
      <3> QED
        BY <2>1, <2>4, <3>1, <3>2, <3>3, PutMoves
    <2> QED
      BY <1>8, <2>2, <2>3, <2>4 DEF LinkOrg, Unlinked
  <1>9. ASSUME NEW r \in Requests, UndoOrg(r) PROVE RowsOK' /\ Moves(Reviews)
    <2>1. Moves(Reviews)
      BY <1>9, EndsMoves DEF UndoOrg, At, Reviews
    <2>2. RowsOK'
      BY <1>0, <1>9 DEF UndoOrg, RowsOK, domains
    <2> QED
      BY <2>1, <2>2
  <1>c. ASSUME NEW r \in Requests, NEW k \in Keys, NEW to \in {"active", "suspended"},
               ThenProfile(r, k, to), req[r].pc \in Reviews
        PROVE  Moves(Reviews)
    <2>1. CASE Ends(r)
      BY <1>c, <2>1, EndsMoves
    <2>2. CASE Goes(r, ProfileReq(k, to))
      <3>1. Sane(ProfileReq(k, to)) /\ ProfileReq(k, to).pc \in Reviews
        BY SaneMade DEF ProfileReq, Reviews
      <3> QED
        BY <1>c, <2>2, <3>1, PutMoves
    <2> QED
      BY <1>c, <2>1, <2>2 DEF ThenProfile, ProfileReq
  <1>10. ASSUME NEW r \in Requests, Activate(r) PROVE RowsOK' /\ Moves(Reviews)
    <2> DEFINE k == req[r].k
               w == req[r].verdict = "equipped"
               m == Reviewed(req[r].meta, req[r].verdict)
    <2>1. req[r].pc = "activate" /\ req[r].pc \in Reviews /\ req[r].pc \in LinkPcs
      BY <1>10 DEF Activate, At, Reviews, LinkPcs
    <2>2. k \in Keys /\ w \in BOOLEAN /\ m \in Meta
      <3>1. req[r].verdict \in {"approved", "equipped", "rejected"}
        BY <1>0, <1>b, <2>1 DEF Verdicts, Sane
      <3> QED
        BY <1>b, <2>1, <3>1, ReviewedTyped
    <2>3. /\ \/ key' = key
             \/ key' = [key EXCEPT ![k] = [key[k] EXCEPT !.activated = TRUE, !.witness = @ \/ w,
                                                         !.asked = @ /\ ~w, !.meta = m]]
          /\ ThenProfile(r, k, "active") \/ Ends(r)
          /\ UNCHANGED <<profile, org, links, muddled, subs, domains>>
      BY <1>10 DEF Activate
    <2> HIDE <1>10 DEF k, w, m
    <2>4. key' \in [Keys -> Key]
      <3> DEFINE row == [key[k] EXCEPT !.activated = TRUE, !.witness = @ \/ w, !.asked = @ /\ ~w,
                                   !.meta = m]
      <3>1. row \in Key
        BY <1>0, <2>2, KeyMade
      <3>2. key' = key \/ key' = [key EXCEPT ![k] = row]
        BY <2>3
      <3> HIDE DEF row
      <3> QED
        BY <1>0, <2>2, <3>1, <3>2, KeyPut DEF RowsOK
    <2>5. RowsOK'
      BY <1>0, <2>3, <2>4 DEF RowsOK, domains
    <2> QED
      BY <1>c, <2>1, <2>2, <2>3, <2>5, EndsMoves
  <1>11. ASSUME NEW r \in Requests, RejectWrite(r) PROVE RowsOK' /\ Moves(Reviews)
    <2> DEFINE k == req[r].k
               m == Reviewed(req[r].meta, "rejected")
    <2>1. req[r].pc = "reject" /\ req[r].pc \in Reviews
      BY <1>11 DEF RejectWrite, At, Reviews
    <2>2. k \in Keys /\ m \in Meta
      BY <1>b, <2>1, ReviewedTyped
    <2>3. /\ \/ key' = key
             \/ key' = [key EXCEPT ![k] = [key[k] EXCEPT !.status = "rejected", !.meta = m]]
          /\ ThenProfile(r, k, "suspended") \/ Ends(r)
          /\ UNCHANGED <<profile, org, links, muddled, subs, domains>>
      BY <1>11 DEF RejectWrite
    <2> HIDE <1>11 DEF k, m
    <2>4. key' \in [Keys -> Key]
      <3> DEFINE row == [key[k] EXCEPT !.status = "rejected", !.meta = m]
      <3>1. row \in Key
        BY <1>0, <2>2, KeyMade
      <3>2. key' = key \/ key' = [key EXCEPT ![k] = row]
        BY <2>3
      <3> HIDE DEF row
      <3> QED
        BY <1>0, <2>2, <3>1, <3>2, KeyPut DEF RowsOK
    <2>5. RowsOK'
      BY <1>0, <2>3, <2>4 DEF RowsOK, domains
    <2> QED
      BY <1>c, <2>1, <2>2, <2>3, <2>5, EndsMoves
  <1>12. ASSUME NEW r \in Requests, UpdateProfile(r) PROVE RowsOK' /\ Moves(Reviews)
    <2>1. Moves(Reviews)
      BY <1>12, EndsMoves DEF UpdateProfile, At, Reviews
    <2>2. req[r].k \in Keys /\ req[r].to \in {"active", "suspended"}
      BY <1>b, <1>12 DEF UpdateProfile, At
    <2>3. RowsOK'
      BY <1>0, <1>12, <2>2 DEF UpdateProfile, RowsOK, domains
    <2> QED
      BY <2>1, <2>3
  <1>13. ASSUME NEW r \in Requests, GrantWrite(r) PROVE RowsOK' /\ Moves(Reviews)
    <2> DEFINE k == req[r].k
               m == [req[r].meta EXCEPT !.grant = TRUE]
    <2>1. Moves(Reviews)
      BY <1>13, EndsMoves DEF GrantWrite, At, Reviews
    <2>2. k \in Keys /\ m \in Meta
      BY <1>b, <1>13, ReviewedTyped DEF GrantWrite, At
    <2>3. /\ key' \in {key, [key EXCEPT ![k] = [key[k] EXCEPT !.witness = TRUE, !.asked = FALSE,
                                                              !.meta = m]]}
          /\ UNCHANGED <<profile, org, links, muddled, subs, domains>>
      BY <1>13 DEF GrantWrite
    <2> HIDE <1>13 DEF k, m
    <2>4. key' \in [Keys -> Key]
      <3> DEFINE row == [key[k] EXCEPT !.witness = TRUE, !.asked = FALSE, !.meta = m]
      <3>1. row \in Key
        BY <1>0, <2>2, KeyMade
      <3>2. key' = key \/ key' = [key EXCEPT ![k] = row]
        BY <2>3
      <3> HIDE DEF row
      <3> QED
        BY <1>0, <2>2, <3>1, <3>2, KeyPut DEF RowsOK
    <2> QED
      BY <1>0, <2>1, <2>3, <2>4 DEF RowsOK, domains
  <1>14. ASSUME NEW r \in Requests, AskWrite(r) \/ AdminActivateWrite(r)
         PROVE  RowsOK' /\ Moves(Reviews)
    <2>1. Moves(Reviews)
      BY <1>14, EndsMoves DEF AskWrite, AdminActivateWrite, At, Reviews
    <2>2. req[r].k \in Keys
      BY <1>b, <1>14 DEF AskWrite, AdminActivateWrite, At
    <2>3. /\ \/ key' = key
             \/ key' = [key EXCEPT ![req[r].k] = [key[req[r].k] EXCEPT !.asked = TRUE]]
             \/ key' = [key EXCEPT ![req[r].k] = [key[req[r].k] EXCEPT !.activated = TRUE]]
          /\ UNCHANGED <<profile, org, links, muddled, subs, domains>>
      BY <1>14 DEF AskWrite, AdminActivateWrite
    <2>4. key' \in [Keys -> Key]
      <3>1. /\ [key[req[r].k] EXCEPT !.asked = TRUE] \in Key
            /\ [key[req[r].k] EXCEPT !.activated = TRUE] \in Key
        BY <1>0, <2>2 DEF Key
      <3> QED
        BY <1>0, <2>2, <2>3, <3>1, KeyPut DEF RowsOK
    <2> QED
      BY <1>0, <2>1, <2>3, <2>4 DEF RowsOK, domains
  <1>15. ASSUME NEW k \in Keys, IssueKey(k) \/ \E st \in {"active", "revoked"} : PatchKey(k, st)
         PROVE  RowsOK' /\ Moves(Reviews)
    <2>1. Moves(Reviews)
      BY <1>15, StillMoves DEF IssueKey, PatchKey
    <2>2. NewKey("active") \in Key
      BY DEF NewKey, Key, Meta
    <2>3. /\ \/ key' = [key EXCEPT ![k] = NewKey("active")]
             \/ \E st \in {"active", "revoked"} : key' = [key EXCEPT ![k].status = st]
          /\ UNCHANGED <<profile, org, links, muddled, subs, domains>>
      BY <1>15 DEF IssueKey, PatchKey
    <2>4. key' \in [Keys -> Key]
      BY <1>0, <2>2, <2>3 DEF RowsOK, Key
    <2> QED
      BY <1>0, <2>1, <2>3, <2>4 DEF RowsOK, domains
  <1> QED
    BY <1>1, <1>2, <1>3, <1>4, <1>5, <1>6, <1>7, <1>8, <1>9, <1>10, <1>11, <1>12, <1>13, <1>14,
       <1>15 DEF ReviewStep

LEMMA SubscribeTyped == Typed /\ SubscribeStep => RowsOK' /\ Moves(SubscribePcs)
  <1> SUFFICES ASSUME Typed, SubscribeStep PROVE RowsOK' /\ Moves(SubscribePcs)
    OBVIOUS
  <1> USE DEF review, domains
  <1>0. RowsOK /\ \A x \in Requests : req[x] \in Req
    BY DEF Typed
  <1>b. \A x \in Requests : req[x].pc = "count" => /\ req[x].k \in Keys
                                                   /\ req[x] = KeyReq("count", req[x].k)
    <2>1. \A x \in Requests : req[x].pc \in {"ask", "admit", "count", "insert"} =>
             req[x].k \in Keys /\ req[x] = KeyReq(req[x].pc, req[x].k)
      BY <1>0, ReqIs
    <2> QED
      BY <2>1
  <1>1. ASSUME NEW r \in Requests, NEW k \in Keys, SubscribeLock(r, k)
        PROVE  RowsOK' /\ Moves(SubscribePcs)
    <2>1. req[r].pc = "idle" /\ Goes(r, KeyReq("count", k)) /\ UNCHANGED <<review, subs, domains>>
      BY <1>1 DEF SubscribeLock, At, KeyReq
    <2>2. Sane(KeyReq("count", k)) /\ KeyReq("count", k).pc = "count"
      BY SaneMade DEF KeyReq
    <2>3. Moves(SubscribePcs)
      BY <2>1, <2>2, PutMoves DEF SubscribePcs
    <2> QED
      BY <1>0, <2>1, <2>3 DEF RowsOK
  <1>2. ASSUME NEW r \in Requests, SubscribeCount(r) PROVE RowsOK' /\ Moves(SubscribePcs)
    <2> DEFINE q == KeyReq("insert", req[r].k)
    <2>1. /\ req[r].pc = "count"
          /\ Ends(r) \/ Goes(r, [req[r] EXCEPT !.pc = "insert"])
          /\ UNCHANGED <<review, subs, domains>>
      BY <1>2 DEF SubscribeCount, At
    <2>2. req[r].k \in Keys /\ req[r] = KeyReq("count", req[r].k)
      BY <1>b, <2>1
    <2>3. [req[r] EXCEPT !.pc = "insert"] = q
      BY <2>2, Moved
    <2>4. Sane(q) /\ q.pc = "insert"
      BY <2>2, SaneMade DEF KeyReq
    <2>5. Moves(SubscribePcs)
      BY <2>1, <2>3, <2>4, PutMoves, EndsMoves DEF SubscribePcs
    <2> QED
      BY <1>0, <2>1, <2>5 DEF RowsOK
  <1>3. ASSUME NEW r \in Requests, SubscribeCommit(r) PROVE RowsOK' /\ Moves(SubscribePcs)
    <2>1. Moves(SubscribePcs)
      BY <1>3, EndsMoves DEF SubscribeCommit, At, SubscribePcs
    <2>2. req[r].k \in Keys
      BY <1>0, <1>3, ReqIs DEF SubscribeCommit, At
    <2> QED
      BY <1>0, <1>3, <2>1, <2>2 DEF SubscribeCommit, RowsOK
  <1>4. ASSUME NEW k \in Keys, Unsubscribe(k) PROVE RowsOK' /\ Moves(SubscribePcs)
    BY <1>0, <1>4, StillMoves DEF Unsubscribe, RowsOK
  <1> QED
    BY <1>1, <1>2, <1>3, <1>4 DEF SubscribeStep

LEMMA DomainTyped == Typed /\ DomainStep => RowsOK' /\ Moves(ListPcs)
  <1> SUFFICES ASSUME Typed, DomainStep PROVE RowsOK' /\ Moves(ListPcs)
    OBVIOUS
  <1>0. RowsOK /\ \A x \in Requests : req[x] \in Req
    BY DEF Typed
  <1>b. \A x \in Requests :
          /\ req[x].pc \in DomainPcs => /\ req[x].d \in Domains /\ req[x].all \in BOOLEAN
                                        /\ req[x] = DomainReq(req[x].pc, req[x].d, req[x].all)
          /\ req[x].pc = "store" => req[x].read \subseteq Domains
    BY <1>0, ReqIs
  <1>a. ASSUME NEW r \in Requests, NEW pc \in DomainPcs, NEW d \in Domains, NEW all \in BOOLEAN,
               Goes(r, DomainReq(pc, d, all)), req[r].pc \in ListPcs \cup {"idle"}
        PROVE  Moves(ListPcs)
    <2>1. Sane(DomainReq(pc, d, all)) /\ DomainReq(pc, d, all).pc \in ListPcs
      BY SaneMade DEF DomainReq, ListPcs
    <2> QED
      BY <1>a, <2>1, PutMoves
  <1>1. ASSUME NEW r \in Requests, NEW d \in Domains, NEW all \in BOOLEAN,
               ApproveDomain(r, d, all)
        PROVE  RowsOK' /\ Moves(ListPcs)
    <2>1. req[r].pc = "idle" /\ Goes(r, DomainReq("list", d, all))
      BY <1>1 DEF ApproveDomain, At, DomainReq
    <2>2. Moves(ListPcs)
      BY <1>a, <2>1 DEF DomainPcs
    <2> QED
      BY <1>0, <1>1, <2>2 DEF ApproveDomain, RowsOK, review, domains
  <1>2. ASSUME NEW r \in Requests, NEW d \in Domains, RemoveDomain(r, d)
        PROVE  RowsOK' /\ Moves(ListPcs)
    <2>1. req[r].pc = "idle" /\ Goes(r, DomainReq("unlist", d, TRUE))
      BY <1>2 DEF RemoveDomain, At, DomainReq
    <2>2. Moves(ListPcs)
      BY <1>a, <2>1 DEF DomainPcs
    <2> QED
      BY <1>0, <1>2, <2>2 DEF RemoveDomain, RowsOK, review, Changes
  <1>3. ASSUME NEW r \in Requests, NEW d \in Domains, RefuseRead(r, d)
        PROVE  RowsOK' /\ Moves(ListPcs)
    <2>1. req[r].pc = "idle" /\ Goes(r, DomainReq("refuse", d, FALSE))
      BY <1>3 DEF RefuseRead, At, DomainReq
    <2>2. Moves(ListPcs)
      BY <1>a, <2>1 DEF DomainPcs
    <2> QED
      BY <1>0, <1>3, <2>2 DEF RefuseRead, RowsOK, review, domains
  <1>4. ASSUME NEW r \in Requests, ListDomain(r) PROVE RowsOK' /\ Moves(ListPcs)
    <2>1. req[r].pc = "list" /\ (Ends(r) \/ Goes(r, [req[r] EXCEPT !.pc = "settle"]))
      BY <1>4 DEF ListDomain, At
    <2>2. [req[r] EXCEPT !.pc = "settle"] = DomainReq("settle", req[r].d, req[r].all)
      BY <1>b, <2>1, Moved DEF DomainPcs
    <2>3. Moves(ListPcs)
      BY <1>a, <1>b, <2>1, <2>2, EndsMoves DEF DomainPcs, ListPcs
    <2>4. RowsOK'
      BY <1>0, <1>b, <1>4, <2>1 DEF ListDomain, DomainPcs, RowsOK, review, Changes
    <2> QED
      BY <2>3, <2>4
  <1>5. ASSUME NEW r \in Requests, SettleRequest(r) PROVE RowsOK' /\ Moves(ListPcs)
    <2>1. Moves(ListPcs)
      BY <1>5, EndsMoves DEF SettleRequest, At, ListPcs, DomainPcs
    <2>2. RowsOK'
      BY <1>0, <1>b, <1>5 DEF SettleRequest, At, DomainPcs, RowsOK, review, Changes, Invalidated
    <2> QED
      BY <2>1, <2>2
  <1>6. ASSUME NEW r \in Requests, RemovedDomain(r) PROVE RowsOK' /\ Moves(ListPcs)
    <2>1. Moves(ListPcs)
      BY <1>6, EndsMoves DEF RemovedDomain, At, ListPcs, DomainPcs
    <2>2. RowsOK'
      BY <1>0, <1>b, <1>6 DEF RemovedDomain, At, DomainPcs, RowsOK, review, Changes, Invalidated
    <2> QED
      BY <2>1, <2>2
  <1>7. ASSUME NEW r \in Requests, RefuseWrite(r) PROVE RowsOK' /\ Moves(ListPcs)
    <2>1. Moves(ListPcs)
      BY <1>7, EndsMoves DEF RefuseWrite, At, ListPcs, DomainPcs
    <2>2. RowsOK'
      BY <1>0, <1>b, <1>7 DEF RefuseWrite, At, DomainPcs, RowsOK, review, Changes, Invalidated
    <2> QED
      BY <2>1, <2>2
  <1>8. ASSUME NEW r \in Requests, LoadStore(r) PROVE RowsOK' /\ Moves(ListPcs)
    <2>1. Moves(ListPcs)
      BY <1>8, EndsMoves DEF LoadStore, At, ListPcs, DomainPcs
    <2>2. RowsOK'
      BY <1>0, <1>b, <1>8 DEF LoadStore, At, DomainPcs, RowsOK, review, Changes, Invalidated
    <2> QED
      BY <2>1, <2>2
  <1>9. ASSUME NEW r \in Requests, LoadBegins(r) PROVE RowsOK' /\ Moves(ListPcs)
    <2>1. Moves(ListPcs)
      <3> DEFINE q == [pc |-> "load"]
      <3>1. Sane(q) /\ q.pc = "load" /\ Goes(r, q) /\ req[r].pc = "idle"
        BY <1>9, SaneMade DEF LoadBegins, At
      <3> HIDE DEF q
      <3> QED
        BY <3>1, PutMoves DEF ListPcs
    <2> QED
      BY <1>0, <1>9, <2>1 DEF LoadBegins, RowsOK, review, domains
  <1>10. ASSUME NEW r \in Requests, LoadRead(r) PROVE RowsOK' /\ Moves(ListPcs)
    <2>1. req[r].pc = "load" /\ (Ends(r) \/ Goes(r, StoreReq(listed)))
      BY <1>10 DEF LoadRead, At, StoreReq
    <2>2. Sane(StoreReq(listed)) /\ StoreReq(listed).pc = "store"
      BY <1>0, SaneMade DEF StoreReq, RowsOK
    <2>3. Moves(ListPcs)
      BY <2>1, <2>2, PutMoves, EndsMoves DEF ListPcs
    <2> QED
      BY <1>0, <1>10, <2>3 DEF LoadRead, RowsOK, review, domains
  <1> QED
    BY <1>1, <1>2, <1>3, <1>4, <1>5, <1>6, <1>7, <1>8, <1>9, <1>10 DEF DomainStep

LEMMA RestartTyped ==
  Typed /\ Restart => /\ RowsOK' /\ req' \in [Requests -> Req]
                      /\ \A x \in Requests : Sane(req'[x]) /\ req'[x].pc = "idle"
  BY ReqMade DEF Typed, Restart, RowsOK, Sane

LEMMA NextTyped == Typed /\ [Next]_vars => Typed'
  <1> SUFFICES ASSUME Typed, [Next]_vars PROVE Typed'
    OBVIOUS
  <1>1. CASE UNCHANGED vars
    BY <1>1 DEF Typed, RowsOK, Sane, vars, review, domains
  <1>2. CASE Next
    <2>1. /\ RowsOK' /\ req' \in [Requests -> Req] /\ \A x \in Requests : Sane(req'[x])
      BY <1>2, ReviewTyped, SubscribeTyped, DomainTyped, RestartTyped DEF Next, Moves
    <2> QED
      BY <2>1 DEF Typed, Sane
  <1> QED
    BY <1>1, <1>2

\* Every variable keeps its type; in particular a request that links or activates
\* has an organization to do it with.
THEOREM TypeCorrect == Spec => []TypeOK
  BY InitTyped, NextTyped, TypedIs, PTL DEF Spec

-----------------------------------------------------------------------------
(* Subscriptions: the lock leaves one request at a key. *)

SubsInv ==
  /\ \A r, q \in Requests :
       req[r].pc \in SubscribePcs /\ req[q].pc \in SubscribePcs /\ req[r].k = req[q].k => r = q
  /\ \A r \in Requests : req[r].pc = "insert" => subs[req[r].k] < MaxSubs
  /\ \A k \in Keys : subs[k] <= MaxSubs

LEMMA SubsInit == Init => SubsInv
  <1> SUFFICES ASSUME Init PROVE SubsInv
    OBVIOUS
  <1>1. \A x \in Requests : req[x].pc = "idle"
    BY DEF Init, Idle
  <1>2. \A k \in Keys : subs[k] = 0
    BY DEF Init
  <1>3. 0 <= MaxSubs
    BY LimitAssumption
  <1> QED
    BY <1>1, <1>2, <1>3 DEF SubsInv, SubscribePcs

LEMMA SubsFrame ==
  ASSUME SubsInv, UNCHANGED subs,
         \A x \in Requests : req'[x].pc \in SubscribePcs => req'[x] = req[x]
  PROVE  SubsInv'
  <1>1. \A x \in Requests : req'[x].pc = "insert" => req'[x].pc \in SubscribePcs
    BY DEF SubscribePcs
  <1> HIDE DEF SubscribePcs
  <1> QED
    BY <1>1 DEF SubsInv

LEMMA SubsStep == Typed /\ SubsInv /\ SubscribeStep => SubsInv'
  <1> SUFFICES ASSUME Typed, SubsInv, SubscribeStep PROVE SubsInv'
    OBVIOUS
  <1> USE DEF SubscribePcs
  <1>0. /\ subs \in [Keys -> Nat] /\ MaxSubs \in Nat
        /\ \A x \in Requests : req[x].pc \in SubscribePcs => req[x].k \in Keys
    BY ReqIs, LimitAssumption DEF Typed, RowsOK
  <1>1. ASSUME NEW r \in Requests, NEW k \in Keys, SubscribeLock(r, k) PROVE SubsInv'
    <2>1. Becomes(r, KeyReq("count", k)) /\ UNCHANGED subs /\ Free(k)
      BY <1>1, Put DEF SubscribeLock, KeyReq
    <2>2. /\ req'[r].pc = "count" /\ req'[r].k = k
          /\ \A x \in Requests : x # r => req'[x] = req[x]
      BY <2>1 DEF Becomes, KeyReq
    <2> QED
      BY <2>1, <2>2 DEF SubsInv, Free
  <1>2. ASSUME NEW r \in Requests, SubscribeCount(r) PROVE SubsInv'
    <2>1. req[r].pc = "count" /\ UNCHANGED subs
      BY <1>2 DEF SubscribeCount, At
    <2>2. CASE Ends(r)
      BY <2>1, <2>2, Put, ReqMade, SubsFrame DEF Ends, Becomes
    <2>3. CASE Goes(r, [req[r] EXCEPT !.pc = "insert"]) /\ ~(subs[req[r].k] >= MaxSubs)
      <3>1. [req[r] EXCEPT !.pc = "insert"] = KeyReq("insert", req[r].k)
        BY <2>1, ReqIs, Moved DEF Typed
      <3>2. /\ req'[r].pc = "insert" /\ req'[r].k = req[r].k
            /\ \A x \in Requests : x # r => req'[x] = req[x]
        BY <2>3, <3>1, Put DEF Becomes, KeyReq
      <3>3. subs[req[r].k] < MaxSubs
        BY <1>0, <2>1, <2>3
      <3> QED
        BY <2>1, <3>2, <3>3 DEF SubsInv
    <2> QED
      BY <1>2, <2>2, <2>3 DEF SubscribeCount
  <1>3. ASSUME NEW r \in Requests, SubscribeCommit(r) PROVE SubsInv'
    <2>1. /\ req[r].pc = "insert" /\ req'[r].pc = "idle"
          /\ \A x \in Requests : x # r => req'[x] = req[x]
      BY <1>3, Put, ReqMade DEF SubscribeCommit, At, Ends, Becomes
    <2>4. subs' = subs \/ subs' = [subs EXCEPT ![req[r].k] = @ + 1]
      BY <1>3 DEF SubscribeCommit
    <2>2. req[r].k \in Keys /\ subs[req[r].k] < MaxSubs
      BY <1>0, <2>1 DEF SubsInv
    <2>3. \A x \in Requests : x # r /\ req[x].pc \in SubscribePcs => req[x].k # req[r].k
      BY <2>1 DEF SubsInv
    <2>5. \A k \in Keys : /\ subs'[k] <= MaxSubs
                          /\ k # req[r].k => subs'[k] = subs[k]
      BY <1>0, <2>2, <2>4 DEF SubsInv
    <2>6. \A x \in Requests : req'[x].pc = "insert" => subs'[req'[x].k] < MaxSubs
      <3> SUFFICES ASSUME NEW x \in Requests, req'[x].pc = "insert"
                   PROVE  subs'[req'[x].k] < MaxSubs
        OBVIOUS
      <3>1. x # r /\ req'[x] = req[x] /\ req[x].pc = "insert"
        BY <2>1
      <3>2. req[x].k \in Keys /\ req[x].k # req[r].k /\ subs[req[x].k] < MaxSubs
        BY <1>0, <2>3, <3>1 DEF SubsInv
      <3> QED
        BY <2>5, <3>1, <3>2
    <2>7. \A x, y \in Requests :
            req'[x].pc \in SubscribePcs /\ req'[y].pc \in SubscribePcs /\ req'[x].k = req'[y].k
              => x = y
      <3>1. \A x \in Requests : req'[x].pc \in SubscribePcs => req'[x] = req[x]
        BY <2>1
      <3> HIDE DEF SubscribePcs
      <3> QED
        BY <3>1 DEF SubsInv
    <2> QED
      BY <2>5, <2>6, <2>7 DEF SubsInv
  <1>4. ASSUME NEW k \in Keys, Unsubscribe(k) PROVE SubsInv'
    BY <1>0, <1>4 DEF Unsubscribe, SubsInv
  <1> QED
    BY <1>1, <1>2, <1>3, <1>4 DEF SubscribeStep

LEMMA SubsNext == Typed /\ SubsInv /\ [Next]_vars => SubsInv'
  <1> SUFFICES ASSUME Typed, SubsInv, [Next]_vars PROVE SubsInv'
    OBVIOUS
  <1>1. CASE UNCHANGED vars
    BY <1>1, SubsFrame DEF vars
  <1>2. CASE SubscribeStep
    BY <1>2, SubsStep
  <1>3. CASE ReviewStep \/ DomainStep \/ Restart
    <2>1. UNCHANGED subs
      <3>1. ReviewStep => UNCHANGED subs
        BY DEF ReviewStep, ApproveRead, RejectRead, GrantRead, AskRead, ProvisionRead,
           AdminActivateRead, MakeOrg, LinkOrg, UndoOrg, Activate, RejectWrite, UpdateProfile,
           GrantWrite, AskWrite, AdminActivateWrite, IssueKey, PatchKey
      <3>2. DomainStep => UNCHANGED subs
        BY DEF DomainStep, ApproveDomain, RemoveDomain, RefuseRead, ListDomain, SettleRequest,
           RemovedDomain, RefuseWrite, LoadBegins, LoadRead, LoadStore
      <3> QED
        BY <1>3, <3>1, <3>2 DEF Restart
    <2>2. Moves(Reviews) \/ Moves(ListPcs) \/ \A x \in Requests : req'[x].pc = "idle"
      BY <1>3, ReviewTyped, DomainTyped, RestartTyped
    <2>3. \A x \in Requests : req'[x].pc \in SubscribePcs => req'[x] = req[x]
      BY <2>2 DEF Moves, Reviews, ListPcs, DomainPcs, SubscribePcs
    <2> QED
      BY <2>1, <2>3, SubsFrame
  <1> QED
    BY <1>1, <1>2, <1>3 DEF Next

\* A key never has more subscriptions than the limit, however many requests
\* create them at once.
THEOREM SubscriptionsLimited == Spec => []SubscriptionLimit
  <1>1. SubsInv => SubscriptionLimit
    BY DEF SubsInv, SubscriptionLimit
  <1> QED
    BY <1>1, InitTyped, NextTyped, SubsInit, SubsNext, PTL DEF Spec

-----------------------------------------------------------------------------
(* Approved domains: what is under way decides what the list and the cache may *)
(* differ by.                                                                  *)

DomainsInv ==
  /\ \A d \in Domains : ask[d] = "approved" => d \in listed \cup dropped
  /\ \A x \in Requests : req[x].pc = "settle" => req[x].d \in listed \cup dropped
  /\ \/ blurred \/ cache = None \/ cache = listed
     \/ \E x \in Requests : req[x].pc \in {"settle", "unlist"}
  /\ ~blurred => \A x \in Requests : req[x].pc = "store" => req[x].read = listed

LEMMA DomainsInit == Init => DomainsInv
  <1> SUFFICES ASSUME Init PROVE DomainsInv
    OBVIOUS
  <1>1. \A x \in Requests : req[x].pc = "idle"
    BY DEF Init, Idle
  <1> QED
    BY <1>1 DEF Init, DomainsInv

\* a request about something else moves
LEMMA DomainsFrame ==
  ASSUME DomainsInv, UNCHANGED domains,
         \A x \in Requests : \/ req'[x] = req[x]
                             \/ req[x].pc \notin ListPcs /\ req'[x].pc \notin ListPcs
  PROVE  DomainsInv'
  <1>1. \A x \in Requests : req[x].pc \in ListPcs \/ req'[x].pc \in ListPcs => req'[x] = req[x]
    OBVIOUS
  <1> QED
    BY <1>1 DEF DomainsInv, domains, ListPcs, DomainPcs

\* the list changes in request r, which goes on to drop the cache
LEMMA ListChanges ==
  ASSUME Typed, DomainsInv, NEW r \in Requests, NEW pc \in {"settle", "unlist"},
         NEW d \in Domains, NEW all \in BOOLEAN, Becomes(r, DomainReq(pc, d, all)), Changes,
         req[r].pc \in {"idle", "list"}, UNCHANGED <<ask, cache>>,
         listed \cup dropped \subseteq listed' \cup dropped',
         pc = "settle" => d \in listed' \cup dropped'
  PROVE  DomainsInv'
  <1>1. req'[r].pc = pc /\ req'[r].d = d
    BY DEF Becomes, DomainReq
  <1>2. \A x \in Requests : x # r => req'[x] = req[x]
    BY DEF Becomes
  <1>3. \A x \in Requests : req'[x].pc = "settle" => req'[x].d \in listed' \cup dropped'
    BY <1>1, <1>2 DEF DomainsInv
  <1>4. ~blurred' => \A x \in Requests : req'[x].pc # "store"
    BY <1>1, <1>2 DEF Changes, Loading
  <1> QED
    BY <1>1, <1>3, <1>4 DEF DomainsInv

LEMMA DomainsStep == Typed /\ DomainsInv /\ DomainStep => DomainsInv'
  <1> SUFFICES ASSUME Typed, DomainsInv, DomainStep PROVE DomainsInv'
    OBVIOUS
  <1>0. /\ RowsOK
        /\ \A x \in Requests :
             /\ req[x].pc \in DomainPcs => /\ req[x].d \in Domains /\ req[x].all \in BOOLEAN
                                           /\ req[x] = DomainReq(req[x].pc, req[x].d, req[x].all)
             /\ req[x].pc = "store" => req[x].read \subseteq Domains
    BY ReqIs DEF Typed
  \* a request that is not at "settle" or "unlist" begins, goes on or ends
  <1>a. ASSUME NEW r \in Requests, NEW q, Becomes(r, q),
               req[r].pc \notin {"settle", "unlist"},
               q.pc \notin {"settle", "unlist"}, q.pc = "store" => q.read = listed,
               UNCHANGED <<listed, cache, dropped, blurred>>,
               \A d \in Domains : ask'[d] = "approved" => ask[d] = "approved"
        PROVE  DomainsInv'
    <2>1. req'[r] = q /\ \A x \in Requests : x # r => req'[x] = req[x]
      BY <1>a DEF Becomes
    <2>2. (\E x \in Requests : req[x].pc \in {"settle", "unlist"})
             => \E x \in Requests : req'[x].pc \in {"settle", "unlist"}
      BY <1>a, <2>1
    <2>3. \A x \in Requests : req'[x].pc = "settle" => req'[x].d \in listed \cup dropped
      BY <1>a, <2>1 DEF DomainsInv
    <2>4. ~blurred => \A x \in Requests : req'[x].pc = "store" => req'[x].read = listed
      BY <1>a, <2>1 DEF DomainsInv
    <2> QED
      BY <1>a, <2>2, <2>3, <2>4 DEF DomainsInv
  <1>b. Idle.pc = "idle"
    BY DEF Idle
  <1>1. ASSUME NEW r \in Requests, NEW d \in Domains, NEW all \in BOOLEAN,
               ApproveDomain(r, d, all)
        PROVE  DomainsInv'
    <2> DEFINE q == [pc |-> "list", d |-> d, all |-> all]
    <2>1. Becomes(r, q) /\ q.pc = "list" /\ req[r].pc = "idle" /\ UNCHANGED domains
      BY <1>1, Put DEF ApproveDomain, At
    <2> HIDE DEF q
    <2> QED
      BY <1>a, <2>1 DEF domains
  <1>2. ASSUME NEW r \in Requests, NEW d \in Domains, RemoveDomain(r, d) PROVE DomainsInv'
    <2>1. Becomes(r, DomainReq("unlist", d, TRUE))
      BY <1>2, Put DEF RemoveDomain, DomainReq
    <2>2. /\ listed \cup dropped \subseteq listed' \cup dropped'
          /\ Changes /\ UNCHANGED <<ask, cache>> /\ req[r].pc = "idle"
      BY <1>2 DEF RemoveDomain, At
    <2> QED
      BY <2>1, <2>2, ListChanges
  <1>3. ASSUME NEW r \in Requests, NEW d \in Domains, RefuseRead(r, d) PROVE DomainsInv'
    <2> DEFINE q == [pc |-> "refuse", d |-> d, all |-> FALSE]
    <2>1. Becomes(r, q) /\ q.pc = "refuse" /\ req[r].pc = "idle" /\ UNCHANGED domains
      BY <1>3, Put DEF RefuseRead, At
    <2> HIDE DEF q
    <2> QED
      BY <1>a, <2>1 DEF domains
  <1>4. ASSUME NEW r \in Requests, ListDomain(r) PROVE DomainsInv'
    <2>1. req[r].pc = "list" /\ req[r].pc \in DomainPcs /\ UNCHANGED <<ask, cache, dropped>>
      BY <1>4 DEF ListDomain, At, DomainPcs
    <2>2. CASE Ends(r) /\ UNCHANGED <<listed, blurred>>
      BY <1>a, <1>b, <2>1, <2>2, Put DEF Ends
    <2>3. CASE /\ listed' = listed \cup {req[r].d} /\ Changes
               /\ Goes(r, [req[r] EXCEPT !.pc = "settle"])
      <3>1. [req[r] EXCEPT !.pc = "settle"] = DomainReq("settle", req[r].d, req[r].all)
        BY <1>0, <2>1, Moved
      <3>2. Becomes(r, DomainReq("settle", req[r].d, req[r].all))
        BY <2>3, <3>1, Put
      <3>3. req[r].d \in Domains /\ req[r].all \in BOOLEAN
        BY <1>0, <2>1
      <3> QED
        BY <2>1, <2>3, <3>2, <3>3, ListChanges
    <2> QED
      BY <1>4, <2>2, <2>3 DEF ListDomain
  <1>c. ASSUME NEW r \in Requests, Becomes(r, Idle), UNCHANGED <<listed, dropped, blurred>>,
               cache' = None \/ cache' = listed \/ blurred,
               \A d \in Domains : ask'[d] = "approved" => d \in listed \cup dropped
        PROVE  DomainsInv'
    <2>1. req'[r].pc = "idle" /\ \A x \in Requests : x # r => req'[x] = req[x]
      BY <1>b, <1>c DEF Becomes
    <2> QED
      BY <1>c, <2>1 DEF DomainsInv
  <1>5. ASSUME NEW r \in Requests, SettleRequest(r) PROVE DomainsInv'
    <2>1. /\ Becomes(r, Idle) /\ cache' = None /\ UNCHANGED <<listed, dropped, blurred>>
          /\ req[r].pc = "settle" /\ req[r].pc \in DomainPcs
          /\ ask' = ask \/ ask' = [ask EXCEPT ![req[r].d] = "approved"]
      BY <1>5, Put DEF SettleRequest, At, Ends, Invalidated, DomainPcs
    <2>2. \A d \in Domains : ask'[d] = "approved" => d \in listed \cup dropped
      BY <1>0, <2>1 DEF DomainsInv, RowsOK
    <2> QED
      BY <1>c, <2>1, <2>2
  <1>6. ASSUME NEW r \in Requests, RemovedDomain(r) PROVE DomainsInv'
    <2>1. Becomes(r, Idle) /\ cache' = None /\ UNCHANGED <<listed, ask, dropped, blurred>>
      BY <1>6, Put DEF RemovedDomain, Ends, Invalidated
    <2> QED
      BY <1>c, <2>1 DEF DomainsInv
  <1>7. ASSUME NEW r \in Requests, RefuseWrite(r) PROVE DomainsInv'
    <2>1. /\ Becomes(r, Idle) /\ UNCHANGED <<listed, cache, dropped, blurred>>
          /\ req[r].pc = "refuse" /\ req[r].pc \in DomainPcs
          /\ ask' = ask \/ ask' = [ask EXCEPT ![req[r].d] = "rejected"]
      BY <1>7, Put DEF RefuseWrite, At, Ends, DomainPcs
    <2>2. \A d \in Domains : ask'[d] = "approved" => ask[d] = "approved"
      BY <1>0, <2>1 DEF RowsOK
    <2> QED
      BY <1>a, <1>b, <2>1, <2>2
  <1>8. ASSUME NEW r \in Requests, LoadBegins(r) PROVE DomainsInv'
    <2> DEFINE q == [pc |-> "load"]
    <2>1. Becomes(r, q) /\ q.pc = "load" /\ req[r].pc = "idle" /\ UNCHANGED domains
      BY <1>8, Put DEF LoadBegins, At
    <2> HIDE DEF q
    <2> QED
      BY <1>a, <2>1 DEF domains
  <1>9. ASSUME NEW r \in Requests, LoadRead(r) PROVE DomainsInv'
    <2>1. /\ Becomes(r, StoreReq(listed)) \/ Becomes(r, Idle)
          /\ req[r].pc = "load" /\ UNCHANGED domains
      BY <1>9, Put DEF LoadRead, At, Ends, StoreReq
    <2>2. StoreReq(listed).pc = "store" /\ StoreReq(listed).read = listed
      BY DEF StoreReq
    <2> QED
      BY <1>a, <1>b, <2>1, <2>2 DEF domains
  <1>10. ASSUME NEW r \in Requests, LoadStore(r) PROVE DomainsInv'
    <2>1. /\ Becomes(r, Idle) /\ cache' = req[r].read /\ req[r].pc = "store"
          /\ UNCHANGED <<listed, ask, dropped, blurred>>
      BY <1>10, Put DEF LoadStore, At, Ends
    <2>2. blurred \/ cache' = listed
      BY <2>1 DEF DomainsInv
    <2> QED
      BY <1>c, <2>1, <2>2 DEF DomainsInv
  <1> QED
    BY <1>1, <1>2, <1>3, <1>4, <1>5, <1>6, <1>7, <1>8, <1>9, <1>10 DEF DomainStep

LEMMA DomainsNext == Typed /\ DomainsInv /\ [Next]_vars => DomainsInv'
  <1> SUFFICES ASSUME Typed, DomainsInv, [Next]_vars PROVE DomainsInv'
    OBVIOUS
  <1>1. CASE UNCHANGED vars
    BY <1>1, DomainsFrame DEF vars
  <1>2. CASE DomainStep
    BY <1>2, DomainsStep
  <1>3. CASE ReviewStep \/ SubscribeStep
    <2>1. UNCHANGED domains
      <3>1. ReviewStep => UNCHANGED domains
        BY DEF ReviewStep, ApproveRead, RejectRead, GrantRead, AskRead, ProvisionRead,
           AdminActivateRead, MakeOrg, LinkOrg, UndoOrg, Activate, RejectWrite, UpdateProfile,
           GrantWrite, AskWrite, AdminActivateWrite, IssueKey, PatchKey
      <3>2. SubscribeStep => UNCHANGED domains
        BY DEF SubscribeStep, SubscribeLock, SubscribeCount, SubscribeCommit, Unsubscribe
      <3> QED
        BY <1>3, <3>1, <3>2
    <2>2. Moves(Reviews) \/ Moves(SubscribePcs)
      BY <1>3, ReviewTyped, SubscribeTyped
    <2>3. \A x \in Requests : \/ req'[x] = req[x]
                              \/ req[x].pc \notin ListPcs /\ req'[x].pc \notin ListPcs
      BY <2>2 DEF Moves, Reviews, ListPcs, DomainPcs, SubscribePcs
    <2> QED
      BY <2>1, <2>3, DomainsFrame
  <1>4. CASE Restart
    <2>1. /\ \A x \in Requests : req'[x].pc = "idle"
          /\ cache' = None /\ UNCHANGED <<listed, ask, dropped, blurred>>
      BY <1>4, RestartTyped DEF Restart
    <2> QED
      BY <2>1 DEF DomainsInv
  <1> QED
    BY <1>1, <1>2, <1>3, <1>4 DEF Next

\* A domain whose request was approved is on the list until an administrator takes
\* it off, and the cache follows the list unless a load overlapped a change of it.
THEOREM DomainsStayInStep == Spec => []DomainsAgree
  <1>1. DomainsInv => DomainsAgree
    BY DEF DomainsInv, DomainsAgree
  <1> QED
    BY <1>1, InitTyped, NextTyped, DomainsInit, DomainsNext, PTL DEF Spec

-----------------------------------------------------------------------------
(* Approved keys: links are never taken away, and an organization is undone only *)
(* by the request that made it and could not link it.                            *)

Granted  == {"approved", "equipped"}
MetaPcs  == {"org", "link", "unorg", "activate", "reject", "grant"}
Linked(k, ls) == \E o \in Orgs : <<k, o>> \in ls

EquipInv ==
  /\ \A k \in Keys : key[k].meta.review \in Granted => Linked(k, links)
  /\ \A x \in Requests : req[x].pc \in MetaPcs /\ req[x].meta.review \in Granted
                           => Linked(req[x].k, links)
  /\ \A x \in Requests : req[x].pc \in LinkPcs => org[req[x].o] \in {"named", "other"}
  /\ \A x \in Requests : req[x].pc \in {"link", "unorg"} =>
                           \A k \in Keys : <<k, req[x].o>> \notin links
  /\ \A x, y \in Requests :
       req[x].pc \in LinkPcs /\ req[y].pc \in LinkPcs /\ req[x].o = req[y].o => x = y
  /\ \A x \in Requests : req[x].pc = "activate" => <<req[x].k, req[x].o>> \in links
  /\ \A k \in Keys, o \in Orgs : <<k, o>> \in links => org[o] \in {"named", "other"}

LEMMA EquipInit == Init => EquipInv
  <1> SUFFICES ASSUME Init PROVE EquipInv
    OBVIOUS
  <1>1. /\ \A x \in Requests : req[x].pc = "idle"
        /\ \A k \in Keys : key[k].meta.review = "none"
        /\ links = {}
    BY DEF Init, Idle, NewKey
  <1> QED
    BY <1>1 DEF EquipInv, Granted, MetaPcs, LinkPcs

\* Request r moves or ends without an organization in hand, and the reviews on
\* record and in hand come from those there were.
LEMMA EquipFrame ==
  ASSUME Typed, EquipInv, UNCHANGED <<org, links>>,
         \A k \in Keys : key'[k].meta.review \in Granted => Linked(k, links),
         \A x \in Requests : \/ req'[x] = req[x]
                             \/ /\ req'[x].pc \notin LinkPcs
                                /\ req'[x].pc \in MetaPcs /\ req'[x].meta.review \in Granted
                                     => Linked(req'[x].k, links)
  PROVE  EquipInv'
  <1>1. \A k : Linked(k, links') <=> Linked(k, links)
    BY DEF Linked
  <1>2. \A x \in Requests : req'[x].pc \in LinkPcs => req'[x] = req[x]
    OBVIOUS
  <1>3. \A x \in Requests : req'[x].pc \in MetaPcs /\ req'[x].meta.review \in Granted
                              => Linked(req'[x].k, links)
    BY DEF EquipInv
  <1>4. \A x \in Requests : req'[x].pc \in {"link", "unorg", "activate"} => req'[x].pc \in LinkPcs
    BY DEF LinkPcs
  <1> HIDE DEF LinkPcs, MetaPcs, Granted, Linked
  <1> QED
    BY <1>1, <1>2, <1>3, <1>4 DEF EquipInv

LEMMA EquipReads ==
  ASSUME Typed, EquipInv, NEW r \in Requests, NEW k \in Keys,
         \/ \E v \in {"approved", "equipped"} : ApproveRead(r, k, v)
         \/ RejectRead(r, k) \/ GrantRead(r, k) \/ AskRead(r, k) \/ ProvisionRead(r, k)
         \/ AdminActivateRead(r, k)
  PROVE  EquipInv'
  <1>1. ASSUME NEW q, Begins(r, k, q), q.pc \notin LinkPcs, q.k = k,
               q.pc \in MetaPcs => q.meta = key[k].meta, UNCHANGED <<key, org, links>>
        PROVE  EquipInv'
    <2>1. Becomes(r, q)
      BY <1>1, Put DEF Begins
    <2>2. \A x \in Requests : x # r => req'[x] = req[x]
      BY <2>1 DEF Becomes
    <2>3. req'[r] = q
      BY <2>1 DEF Becomes
    <2>4. q.pc \in MetaPcs /\ q.meta.review \in Granted => Linked(q.k, links)
      BY <1>1 DEF EquipInv
    <2>5. \A j \in Keys : key'[j].meta.review \in Granted => Linked(j, links)
      BY <1>1 DEF EquipInv
    <2> QED
      BY <1>1, <2>2, <2>3, <2>4, <2>5, EquipFrame
  <1>2. ASSUME NEW v, Begins(r, k, OrgReq(k, v, key[k].meta)), UNCHANGED <<key, org, links>>
        PROVE  EquipInv'
    BY <1>1, <1>2 DEF OrgReq, LinkPcs
  <1>3. ASSUME NEW pc \in {"reject", "grant"}, Begins(r, k, MetaReq(pc, k, key[k].meta)),
               UNCHANGED <<key, org, links>>
        PROVE  EquipInv'
    BY <1>1, <1>3 DEF MetaReq, LinkPcs
  <1>4. ASSUME NEW pc \in {"ask", "admit"}, Begins(r, k, KeyReq(pc, k)),
               UNCHANGED <<key, org, links>>
        PROVE  EquipInv'
    BY <1>1, <1>4 DEF KeyReq, LinkPcs, MetaPcs
  <1>5. UNCHANGED <<key, org, links>>
    BY DEF ApproveRead, RejectRead, GrantRead, AskRead, ProvisionRead, AdminActivateRead
  <1>6. \/ \E v \in Verdicts : Begins(r, k, OrgReq(k, v, key[k].meta))
        \/ \E pc \in {"reject", "grant"} : Begins(r, k, MetaReq(pc, k, key[k].meta))
        \/ \E pc \in {"ask", "admit"} : Begins(r, k, KeyReq(pc, k))
    BY DEF ApproveRead, RejectRead, GrantRead, AskRead, ProvisionRead, AdminActivateRead,
           OrgReq, MetaReq, KeyReq, Verdicts
  <1> QED
    BY <1>2, <1>3, <1>4, <1>5, <1>6

LEMMA EquipMakeOrg ==
  ASSUME Typed, EquipInv, NEW r \in Requests, MakeOrg(r)
  PROVE  EquipInv'
  <1>0. /\ req[r].pc = "org" /\ req[r].pc \in MetaPcs /\ req[r].k \in Keys
        /\ UNCHANGED <<key, links>>
        /\ org \in [Orgs -> {"none", "named", "other", "gone"}]
    BY ReqIs DEF MakeOrg, At, Typed, RowsOK, MetaPcs
  <1>1. CASE Ends(r) /\ UNCHANGED org
    <2>1. Becomes(r, Idle) /\ Idle.pc = "idle"
      BY <1>1, Put DEF Ends, Idle
    <2>2. \A x \in Requests : req'[x] = req[x] \/ req'[x].pc = "idle"
      BY <2>1 DEF Becomes
    <2>3. \A j \in Keys : key'[j].meta.review \in Granted => Linked(j, links)
      BY <1>0 DEF EquipInv
    <2>4. "idle" \notin LinkPcs /\ "idle" \notin MetaPcs
      BY DEF LinkPcs, MetaPcs
    <2> QED
      BY <1>0, <1>1, <2>2, <2>3, <2>4, EquipFrame
  <1>2. ASSUME NEW o \in Orgs, NEW name \in {"named", "other"}, org[o] = "none",
               org' = [org EXCEPT ![o] = name],
               Goes(r, LinkReq("link", req[r].k, o, req[r].verdict, req[r].meta))
        PROVE  EquipInv'
    <2> DEFINE q == LinkReq("link", req[r].k, o, req[r].verdict, req[r].meta)
    <2>1. Becomes(r, q)
      BY <1>2, Put
    <2>2. q.pc = "link" /\ q.k = req[r].k /\ q.o = o /\ q.meta = req[r].meta
      BY DEF LinkReq
    <2> HIDE DEF q
    <2>3. req'[r] = q /\ \A x \in Requests : x # r => req'[x] = req[x]
      BY <2>1 DEF Becomes
    <2>4. org'[o] = name /\ \A p \in Orgs : p # o => org'[p] = org[p]
      BY <1>0, <1>2
    <2>5. \A k \in Keys : <<k, o>> \notin links
      BY <1>2 DEF EquipInv
    <2>6. \A x \in Requests : req[x].pc \in LinkPcs => req[x].o \in Orgs /\ req[x].o # o
      BY <1>2, ReqIs DEF EquipInv, Typed
    <2>7. \A k : Linked(k, links') <=> Linked(k, links)
      BY <1>0 DEF Linked
    <2>8. req[r].meta.review \in Granted => Linked(req[r].k, links)
      BY <1>0 DEF EquipInv
    <2>9. /\ \A x \in Requests : req'[x].pc \in MetaPcs /\ req'[x].meta.review \in Granted
                                   => Linked(req'[x].k, links')
          /\ \A k \in Keys : key'[k].meta.review \in Granted => Linked(k, links')
      BY <1>0, <2>2, <2>3, <2>7, <2>8 DEF EquipInv
    <2>10. \A x \in Requests : req'[x].pc \in LinkPcs => org'[req'[x].o] \in {"named", "other"}
      BY <2>2, <2>3, <2>4, <2>6 DEF EquipInv
    <2>11. \A x \in Requests : req'[x].pc \in {"link", "unorg"} =>
                                 \A k \in Keys : <<k, req'[x].o>> \notin links'
      BY <1>0, <2>2, <2>3, <2>5 DEF EquipInv
    <2>12. \A x, y \in Requests :
             req'[x].pc \in LinkPcs /\ req'[y].pc \in LinkPcs /\ req'[x].o = req'[y].o => x = y
      BY <2>2, <2>3, <2>6 DEF EquipInv
    <2>13. \A x \in Requests : req'[x].pc = "activate" => <<req'[x].k, req'[x].o>> \in links'
      BY <1>0, <2>2, <2>3 DEF EquipInv
    <2>14. \A k \in Keys, p \in Orgs : <<k, p>> \in links' => org'[p] \in {"named", "other"}
      BY <1>0, <2>4, <2>5 DEF EquipInv
    <2> QED
      BY <2>9, <2>10, <2>11, <2>12, <2>13, <2>14 DEF EquipInv
  <1> QED
    BY <1>0, <1>1, <1>2 DEF MakeOrg, NoOrg, LinkReq

LEMMA EquipLinkOrg ==
  ASSUME Typed, EquipInv, NEW r \in Requests, LinkOrg(r)
  PROVE  EquipInv'
  <1> DEFINE k == req[r].k
             o == req[r].o
  <1>0. /\ req[r].pc = "link" /\ req[r].pc \in LinkPcs /\ req[r].pc \in MetaPcs
        /\ k \in Keys /\ o \in Orgs
        /\ req[r] = LinkReq("link", k, o, req[r].verdict, req[r].meta)
        /\ UNCHANGED <<key, org>>
    <2>1. req[r].pc = "link" /\ req[r].pc \in LinkPcs /\ req[r].pc \in MetaPcs
      BY DEF LinkOrg, At, LinkPcs, MetaPcs
    <2> QED
      BY <2>1, ReqIs DEF Typed, LinkOrg
  <1>1. /\ \A x \in Requests : x # r /\ req[x].pc \in LinkPcs => req[x].o # o
        /\ \A j \in Keys : <<j, o>> \notin links
        /\ org[o] \in {"named", "other"}
        /\ req[r].meta.review \in Granted => Linked(k, links)
    BY <1>0 DEF EquipInv
  \* the three ways on: linked and done, linked and to be activated, not linked
  <1>2. ASSUME NEW q, Becomes(r, q), links' = links \cup {<<k, o>>},
               \/ q.pc = "idle"
               \/ q.pc = "activate" /\ q.k = k /\ q.o = o /\ q.meta = req[r].meta
        PROVE  EquipInv'
    <2>1. req'[r] = q /\ \A x \in Requests : x # r => req'[x] = req[x]
      BY <1>2 DEF Becomes
    <2>2. \A j : Linked(j, links) => Linked(j, links')
      BY <1>2 DEF Linked
    <2>3. "idle" \notin LinkPcs /\ "idle" \notin MetaPcs
      BY DEF LinkPcs, MetaPcs
    <2>4. /\ \A x \in Requests : req'[x].pc \in MetaPcs /\ req'[x].meta.review \in Granted
                                   => Linked(req'[x].k, links')
          /\ \A j \in Keys : key'[j].meta.review \in Granted => Linked(j, links')
      BY <1>0, <1>1, <1>2, <2>1, <2>2, <2>3 DEF EquipInv
    <2>5. \A x \in Requests : req'[x].pc \in LinkPcs => org'[req'[x].o] \in {"named", "other"}
      BY <1>0, <1>1, <1>2, <2>1, <2>3 DEF EquipInv
    <2>6. \A x \in Requests : req'[x].pc \in {"link", "unorg"} =>
                                \A j \in Keys : <<j, req'[x].o>> \notin links'
      BY <1>0, <1>1, <1>2, <2>1 DEF EquipInv, LinkPcs
    <2>7. \A x, y \in Requests :
            req'[x].pc \in LinkPcs /\ req'[y].pc \in LinkPcs /\ req'[x].o = req'[y].o => x = y
      BY <1>1, <1>2, <2>1, <2>3 DEF EquipInv
    <2>8. \A x \in Requests : req'[x].pc = "activate" => <<req'[x].k, req'[x].o>> \in links'
      BY <1>2, <2>1 DEF EquipInv
    <2>9. \A j \in Keys, p \in Orgs : <<j, p>> \in links' => org'[p] \in {"named", "other"}
      BY <1>0, <1>1, <1>2 DEF EquipInv
    <2> QED
      BY <2>4, <2>5, <2>6, <2>7, <2>8, <2>9 DEF EquipInv
  <1>3. ASSUME NEW q, Becomes(r, q), UNCHANGED links,
               q.pc = "unorg" /\ q.k = k /\ q.o = o /\ q.meta = req[r].meta
        PROVE  EquipInv'
    <2>1. req'[r] = q /\ \A x \in Requests : x # r => req'[x] = req[x]
      BY <1>3 DEF Becomes
    <2>2. \A j : Linked(j, links') <=> Linked(j, links)
      BY <1>3 DEF Linked
    <2>3. /\ \A x \in Requests : req'[x].pc \in MetaPcs /\ req'[x].meta.review \in Granted
                                   => Linked(req'[x].k, links')
          /\ \A j \in Keys : key'[j].meta.review \in Granted => Linked(j, links')
      BY <1>0, <1>1, <1>3, <2>1, <2>2 DEF EquipInv
    <2>4. \A x \in Requests : req'[x].pc \in LinkPcs => org'[req'[x].o] \in {"named", "other"}
      BY <1>0, <1>1, <1>3, <2>1 DEF EquipInv
    <2>5. \A x \in Requests : req'[x].pc \in {"link", "unorg"} =>
                                \A j \in Keys : <<j, req'[x].o>> \notin links'
      BY <1>1, <1>3, <2>1 DEF EquipInv
    <2>6. \A x, y \in Requests :
            req'[x].pc \in LinkPcs /\ req'[y].pc \in LinkPcs /\ req'[x].o = req'[y].o => x = y
      BY <1>1, <1>3, <2>1 DEF EquipInv
    <2>7. \A x \in Requests : req'[x].pc = "activate" => <<req'[x].k, req'[x].o>> \in links'
      BY <1>3, <2>1 DEF EquipInv
    <2> QED
      BY <1>0, <1>3, <2>3, <2>4, <2>5, <2>6, <2>7 DEF EquipInv
  <1>4. \A pc : [req[r] EXCEPT !.pc = pc] = LinkReq(pc, k, o, req[r].verdict, req[r].meta)
    BY <1>0, Moved
  <1>5. \A pc : LET q == LinkReq(pc, k, o, req[r].verdict, req[r].meta) IN
                  q.pc = pc /\ q.k = k /\ q.o = o /\ q.meta = req[r].meta
    BY DEF LinkReq
  <1>6. \/ links' = links \cup {<<k, o>>} /\ Becomes(r, Idle)
        \/ /\ links' = links \cup {<<k, o>>}
           /\ Becomes(r, LinkReq("activate", k, o, req[r].verdict, req[r].meta))
        \/ /\ UNCHANGED links
           /\ Becomes(r, LinkReq("unorg", k, o, req[r].verdict, req[r].meta))
    BY <1>4, Put DEF LinkOrg, Ends, Unlinked
  <1>7. Idle.pc = "idle"
    BY DEF Idle
  <1> QED
    BY <1>2, <1>3, <1>5, <1>6, <1>7

LEMMA EquipUndoOrg ==
  ASSUME Typed, EquipInv, NEW r \in Requests, UndoOrg(r)
  PROVE  EquipInv'
  <1> DEFINE o == req[r].o
  <1>0. /\ req[r].pc = "unorg" /\ req[r].pc \in LinkPcs /\ o \in Orgs
        /\ UNCHANGED <<key, links>>
        /\ Becomes(r, Idle) /\ Idle.pc = "idle"
        /\ org \in [Orgs -> {"none", "named", "other", "gone"}]
        /\ org' = org \/ org' = [org EXCEPT ![o] = "gone"]
    <2>1. req[r].pc = "unorg" /\ req[r].pc \in LinkPcs
      BY DEF UndoOrg, At, LinkPcs
    <2> QED
      BY <2>1, ReqIs, Put DEF Typed, RowsOK, UndoOrg, Ends, Idle
  <1>1. /\ \A x \in Requests : x # r /\ req[x].pc \in LinkPcs => req[x].o # o
        /\ \A j \in Keys : <<j, o>> \notin links
    BY <1>0 DEF EquipInv
  <1>2. req'[r].pc = "idle" /\ \A x \in Requests : x # r => req'[x] = req[x]
    BY <1>0 DEF Becomes
  <1>3. \A p \in Orgs : p # o => org'[p] = org[p]
    BY <1>0
  <1>4. \A j : Linked(j, links') <=> Linked(j, links)
    BY <1>0 DEF Linked
  <1>5. "idle" \notin LinkPcs /\ "idle" \notin MetaPcs
    BY DEF LinkPcs, MetaPcs
  <1>6. /\ \A x \in Requests : req'[x].pc \in MetaPcs /\ req'[x].meta.review \in Granted
                                 => Linked(req'[x].k, links')
        /\ \A j \in Keys : key'[j].meta.review \in Granted => Linked(j, links')
    BY <1>0, <1>2, <1>4, <1>5 DEF EquipInv
  <1>7. \A x \in Requests : req'[x].pc \in LinkPcs => org'[req'[x].o] \in {"named", "other"}
    <2> SUFFICES ASSUME NEW x \in Requests, req'[x].pc \in LinkPcs
                 PROVE  org'[req'[x].o] \in {"named", "other"}
      OBVIOUS
    <2>1. x # r /\ req'[x] = req[x] /\ req[x].pc \in LinkPcs
      BY <1>2, <1>5
    <2>2. \A y \in Requests : req[y].pc \in LinkPcs => req[y].o \in Orgs
      BY ReqIs DEF Typed
    <2> QED
      BY <1>1, <1>3, <2>1, <2>2 DEF EquipInv
  <1>8. \A x \in Requests : req'[x].pc \in {"link", "unorg"} =>
                              \A j \in Keys : <<j, req'[x].o>> \notin links'
    BY <1>0, <1>2 DEF EquipInv
  <1>9. \A x, y \in Requests :
          req'[x].pc \in LinkPcs /\ req'[y].pc \in LinkPcs /\ req'[x].o = req'[y].o => x = y
    BY <1>2, <1>5 DEF EquipInv
  <1>10. \A x \in Requests : req'[x].pc = "activate" => <<req'[x].k, req'[x].o>> \in links'
    BY <1>0, <1>2 DEF EquipInv
  <1>11. \A j \in Keys, p \in Orgs : <<j, p>> \in links' => org'[p] \in {"named", "other"}
    BY <1>0, <1>1, <1>3 DEF EquipInv
  <1> QED
    BY <1>6, <1>7, <1>8, <1>9, <1>10, <1>11 DEF EquipInv

\* the review a write leaves on a key is one it may have
LEMMA EquipWrite ==
  ASSUME Typed, EquipInv, UNCHANGED <<org, links>>, NEW k \in Keys, NEW row \in Key,
         key' = key \/ key' = [key EXCEPT ![k] = row],
         row.meta.review \in Granted => Linked(k, links)
  PROVE  \A j \in Keys : key'[j].meta.review \in Granted => Linked(j, links)
  <1>1. key \in [Keys -> Key]
    BY DEF Typed, RowsOK
  <1> QED
    BY <1>1 DEF EquipInv

LEMMA EquipEnds ==
  ASSUME Typed, EquipInv, UNCHANGED <<org, links>>, NEW r \in Requests,
         \A j \in Keys : key'[j].meta.review \in Granted => Linked(j, links),
         \/ Ends(r) \/ UNCHANGED req
         \/ \E k \in Keys, to \in {"active", "suspended"} : ThenProfile(r, k, to)
  PROVE  EquipInv'
  <1>1. \/ Becomes(r, Idle) \/ UNCHANGED req
        \/ \E k \in Keys, to \in {"active", "suspended"} : Becomes(r, ProfileReq(k, to))
    BY Put DEF Ends, ThenProfile, ProfileReq
  <1>2. \A x \in Requests : req'[x] = req[x] \/ req'[x].pc \in {"idle", "profile"}
    <2>1. Idle.pc = "idle" /\ \A k, to : ProfileReq(k, to).pc = "profile"
      BY DEF Idle, ProfileReq
    <2> QED
      BY <1>1, <2>1 DEF Becomes
  <1>3. \A x \in Requests : \/ req'[x] = req[x]
                            \/ req'[x].pc \notin LinkPcs /\ req'[x].pc \notin MetaPcs
    BY <1>2 DEF LinkPcs, MetaPcs
  <1> QED
    BY <1>3, EquipFrame

LEMMA EquipWrites ==
  ASSUME Typed, EquipInv, NEW r \in Requests,
         Activate(r) \/ RejectWrite(r) \/ GrantWrite(r)
  PROVE  EquipInv'
  <1> DEFINE k == req[r].k
  <1>0. /\ req \in [Requests -> Req] /\ key \in [Keys -> Key] /\ Sane(req[r])
        /\ \A j \in Keys : key[j] \in Key /\ (key[j].meta.review \in Granted => Linked(j, links))
    BY DEF Typed, RowsOK, EquipInv
  <1>1. CASE Activate(r)
    <2> DEFINE w == req[r].verdict = "equipped"
               m == Reviewed(req[r].meta, req[r].verdict)
               row == [key[k] EXCEPT !.activated = TRUE, !.witness = @ \/ w, !.asked = @ /\ ~w,
                                     !.meta = m]
    <2>1. req[r].pc = "activate" /\ req[r].pc \in LinkPcs
      BY <1>1 DEF Activate, At, LinkPcs
    <2>2. k \in Keys /\ req[r].o \in Orgs /\ w \in BOOLEAN /\ m \in Meta
      <3>1. k \in Keys /\ req[r].o \in Orgs /\ req[r].verdict \in Verdicts /\ req[r].meta \in Meta
        BY <1>0, <2>1, ReqIs
      <3>2. req[r].verdict \in {"approved", "equipped", "rejected"}
        BY <1>0, <2>1, <3>1 DEF Verdicts, Sane
      <3> QED
        BY <3>1, <3>2, ReviewedTyped
    <2>3. Linked(k, links)
      BY <2>1, <2>2 DEF EquipInv, Linked
    <2>4. row \in Key
      BY <1>0, <2>2, KeyMade
    <2>5. /\ key' = key \/ key' = [key EXCEPT ![k] = row]
          /\ UNCHANGED <<org, links>> /\ (ThenProfile(r, k, "active") \/ Ends(r))
      BY <1>1 DEF Activate
    <2> HIDE DEF row, k
    <2>6. \A j \in Keys : key'[j].meta.review \in Granted => Linked(j, links)
      BY <2>2, <2>3, <2>4, <2>5, EquipWrite
    <2> QED
      BY <2>2, <2>5, <2>6, EquipEnds
  <1>2. CASE RejectWrite(r)
    <2> DEFINE m == Reviewed(req[r].meta, "rejected")
               row == [key[k] EXCEPT !.status = "rejected", !.meta = m]
    <2>1. req[r].pc = "reject"
      BY <1>2 DEF RejectWrite, At
    <2>2. k \in Keys /\ m \in Meta /\ m.review = "rejected"
      <3>1. k \in Keys /\ req[r].meta \in Meta
        BY <1>0, <2>1, ReqIs
      <3> QED
        BY <3>1, ReviewedTyped
    <2>3. row \in Key /\ row.meta.review \notin Granted
      <3>1. row \in Key
        BY <1>0, <2>2, KeyMade
      <3>2. row.meta = m
        BY <1>0, <2>2 DEF Key
      <3> QED
        BY <2>2, <3>1, <3>2 DEF Granted
    <2>4. /\ key' = key \/ key' = [key EXCEPT ![k] = row]
          /\ UNCHANGED <<org, links>> /\ (ThenProfile(r, k, "suspended") \/ Ends(r))
      BY <1>2 DEF RejectWrite
    <2> HIDE DEF row, k
    <2>5. \A j \in Keys : key'[j].meta.review \in Granted => Linked(j, links)
      BY <2>2, <2>3, <2>4, EquipWrite
    <2> QED
      BY <2>2, <2>4, <2>5, EquipEnds
  <1>3. CASE GrantWrite(r)
    <2> DEFINE m == [req[r].meta EXCEPT !.grant = TRUE]
               row == [key[k] EXCEPT !.witness = TRUE, !.asked = FALSE, !.meta = m]
    <2>1. req[r].pc = "grant" /\ req[r].pc \in MetaPcs
      BY <1>3 DEF GrantWrite, At, MetaPcs
    <2>2. k \in Keys /\ m \in Meta /\ m.review = req[r].meta.review
      <3>1. k \in Keys /\ req[r].meta \in Meta
        BY <1>0, <2>1, ReqIs
      <3> QED
        BY <3>1, ReviewedTyped
    <2>3. row \in Key /\ (row.meta.review \in Granted => Linked(k, links))
      <3>1. row \in Key
        BY <1>0, <2>2, KeyMade
      <3>2. row.meta = m
        BY <1>0, <2>2 DEF Key
      <3>3. req[r].meta.review \in Granted => Linked(k, links)
        BY <2>1 DEF EquipInv
      <3> QED
        BY <2>2, <3>1, <3>2, <3>3
    <2>4. /\ key' = key \/ key' = [key EXCEPT ![k] = row]
          /\ UNCHANGED <<org, links>> /\ Ends(r)
      BY <1>3 DEF GrantWrite
    <2> HIDE DEF row, k
    <2>5. \A j \in Keys : key'[j].meta.review \in Granted => Linked(j, links)
      BY <2>2, <2>3, <2>4, EquipWrite
    <2> QED
      BY <2>2, <2>4, <2>5, EquipEnds
  <1> QED
    BY <1>1, <1>2, <1>3

\* these leave the metadata as it was
LEMMA EquipOthers ==
  ASSUME Typed, EquipInv,
         \/ \E r \in Requests : UpdateProfile(r) \/ AskWrite(r) \/ AdminActivateWrite(r)
         \/ \E k \in Keys : IssueKey(k) \/ \E st \in {"active", "revoked"} : PatchKey(k, st)
  PROVE  EquipInv'
  <1>0. key \in [Keys -> Key]
    BY DEF Typed, RowsOK
  <1>1. /\ \/ key' = key
           \/ \E j \in Keys : \/ key' = [key EXCEPT ![j] = NewKey("active")]
                              \/ key' = [key EXCEPT ![j] = [key[j] EXCEPT !.asked = TRUE]]
                              \/ key' = [key EXCEPT ![j] = [key[j] EXCEPT !.activated = TRUE]]
                              \/ \E st : key' = [key EXCEPT ![j] = [key[j] EXCEPT !.status = st]]
        /\ UNCHANGED <<org, links>>
    <2> DEFINE Kept == \/ key' = key
                       \/ \E j \in Keys :
                            \/ key' = [key EXCEPT ![j] = NewKey("active")]
                            \/ key' = [key EXCEPT ![j] = [key[j] EXCEPT !.asked = TRUE]]
                            \/ key' = [key EXCEPT ![j] = [key[j] EXCEPT !.activated = TRUE]]
                            \/ \E st : key' = [key EXCEPT ![j] = [key[j] EXCEPT !.status = st]]
    <2>1. ASSUME NEW r \in Requests, UpdateProfile(r) PROVE Kept /\ UNCHANGED <<org, links>>
      BY <2>1 DEF UpdateProfile
    <2>2. ASSUME NEW r \in Requests, AskWrite(r) PROVE Kept /\ UNCHANGED <<org, links>>
      <3>1. req[r].k \in Keys
        BY <2>2, ReqIs DEF AskWrite, At, Typed
      <3> QED
        BY <2>2, <3>1 DEF AskWrite
    <2>3. ASSUME NEW r \in Requests, AdminActivateWrite(r)
          PROVE  Kept /\ UNCHANGED <<org, links>>
      <3>1. req[r].k \in Keys
        BY <2>3, ReqIs DEF AdminActivateWrite, At, Typed
      <3> QED
        BY <2>3, <3>1 DEF AdminActivateWrite
    <2>4. ASSUME NEW k \in Keys, IssueKey(k) PROVE Kept /\ UNCHANGED <<org, links>>
      BY <2>4 DEF IssueKey
    <2>5. ASSUME NEW k \in Keys, NEW st \in {"active", "revoked"}, PatchKey(k, st)
          PROVE  Kept /\ UNCHANGED <<org, links>>
      BY <2>5 DEF PatchKey
    <2> QED
      BY <2>1, <2>2, <2>3, <2>4, <2>5
  <1>r. UNCHANGED req \/ \E r \in Requests : Ends(r)
    BY DEF UpdateProfile, AskWrite, AdminActivateWrite, IssueKey, PatchKey
  <1>2. NewKey("active").meta.review = "none" /\ "none" \notin Granted
    BY DEF NewKey, Granted
  <1>3. \A j \in Keys : key'[j].meta.review \in Granted => key'[j].meta = key[j].meta
    BY <1>0, <1>1, <1>2 DEF Key
  <1>4. \A j \in Keys : key'[j].meta.review \in Granted => Linked(j, links)
    BY <1>3 DEF EquipInv
  <1>5. ASSUME UNCHANGED req PROVE EquipInv'
    BY <1>1, <1>4, <1>5, EquipFrame
  <1>6. ASSUME NEW r \in Requests, Ends(r) PROVE EquipInv'
    BY <1>1, <1>4, <1>6, EquipEnds
  <1> QED
    BY <1>5, <1>6, <1>r

LEMMA EquipNext == Typed /\ EquipInv /\ [Next]_vars => EquipInv'
  <1> SUFFICES ASSUME Typed, EquipInv, [Next]_vars PROVE EquipInv'
    OBVIOUS
  <1>a. \A k \in Keys : key[k].meta.review \in Granted => Linked(k, links)
    BY DEF EquipInv
  <1>1. CASE UNCHANGED vars
    BY <1>1, <1>a, EquipFrame DEF vars, review
  <1>2. CASE ReviewStep
    <2>1. ASSUME NEW r \in Requests, MakeOrg(r) PROVE EquipInv'
      BY <2>1, EquipMakeOrg
    <2>2. ASSUME NEW r \in Requests, LinkOrg(r) PROVE EquipInv'
      BY <2>2, EquipLinkOrg
    <2>3. ASSUME NEW r \in Requests, UndoOrg(r) PROVE EquipInv'
      BY <2>3, EquipUndoOrg
    <2>4. ASSUME NEW r \in Requests, Activate(r) \/ RejectWrite(r) \/ GrantWrite(r)
          PROVE  EquipInv'
      BY <2>4, EquipWrites
    <2>5. ASSUME NEW r \in Requests, NEW k \in Keys,
                 \/ \E v \in {"approved", "equipped"} : ApproveRead(r, k, v)
                 \/ RejectRead(r, k) \/ GrantRead(r, k) \/ AskRead(r, k) \/ ProvisionRead(r, k)
                 \/ AdminActivateRead(r, k)
          PROVE  EquipInv'
      BY <2>5, EquipReads
    <2>6. ASSUME NEW r \in Requests, UpdateProfile(r) \/ AskWrite(r) \/ AdminActivateWrite(r)
          PROVE  EquipInv'
      BY <2>6, EquipOthers
    <2>7. ASSUME NEW k \in Keys, IssueKey(k) \/ \E st \in {"active", "revoked"} : PatchKey(k, st)
          PROVE  EquipInv'
      BY <2>7, EquipOthers
    <2> QED
      BY <1>2, <2>1, <2>2, <2>3, <2>4, <2>5, <2>6, <2>7 DEF ReviewStep
  <1>3. CASE SubscribeStep \/ DomainStep
    <2>1. UNCHANGED <<key, org, links>>
      BY <1>3 DEF SubscribeStep, SubscribeLock, SubscribeCount, SubscribeCommit, Unsubscribe,
         DomainStep, ApproveDomain, RemoveDomain, RefuseRead, ListDomain, SettleRequest,
         RemovedDomain, RefuseWrite, LoadBegins, LoadRead, LoadStore, review
    <2>2. Moves(SubscribePcs) \/ Moves(ListPcs)
      BY <1>3, SubscribeTyped, DomainTyped
    <2>3. \A x \in Requests : \/ req'[x] = req[x]
                              \/ req'[x].pc \notin LinkPcs /\ req'[x].pc \notin MetaPcs
      BY <2>2 DEF Moves, SubscribePcs, ListPcs, DomainPcs, LinkPcs, MetaPcs
    <2> QED
      BY <1>a, <2>1, <2>3, EquipFrame
  <1>4. CASE Restart
    <2>1. \A x \in Requests : req'[x].pc \notin LinkPcs /\ req'[x].pc \notin MetaPcs
      BY <1>4, RestartTyped DEF LinkPcs, MetaPcs
    <2> QED
      BY <1>4, <1>a, <2>1, EquipFrame DEF Restart
  <1> QED
    BY <1>1, <1>2, <1>3, <1>4 DEF Next

\* A key that was approved has a collective it may write for, whatever ran beside
\* the approval and wherever it was cut.
THEOREM ApprovedIsEquipped == Spec => []EquippedWhenApproved
  <1>1. EquipInv => EquippedWhenApproved
    BY DEF EquipInv, EquippedWhenApproved, Granted, Linked
  <1> QED
    BY <1>1, InitTyped, NextTyped, EquipInit, EquipNext, PTL DEF Spec

-----------------------------------------------------------------------------
(* What was decided: a key of which nothing overlapped is in the hands of one    *)
(* request at most, which read what the key still says.                          *)

Fits(q, row) ==
  /\ q.pc \in MetaPcs => q.meta = row.meta
  /\ q.pc \in {"org", "link", "unorg", "activate"} /\ q.verdict # "provision" => ~row.activated
  /\ q.pc = "reject" => ~row.activated
  /\ q.pc = "ask" => ~row.witness
  /\ q.pc = "profile" => /\ q.to = "active" => row.meta.review \in Granted
                         /\ q.to = "suspended" => row.meta.review = "rejected"

RowGood(row) ==
  /\ row.meta.review \in Granted => row.activated
  /\ row.witness => (row.meta.grant \/ row.meta.review = "equipped") /\ ~row.asked

ProfileGood(row, p) ==
  /\ row.meta.review \in Granted /\ p # None => p = "active"
  /\ row.meta.review = "rejected" /\ row.status = "rejected" => p # "active"

Settled(k) ==
  /\ \A x, y \in OnKey(k) : x = y
  /\ \A x \in OnKey(k) : Fits(req[x], key[k])
  /\ RowGood(key[k])
  /\ (\E x \in OnKey(k) : req[x].pc = "profile") \/ ProfileGood(key[k], profile[k])

DecisionInv ==
  /\ \A k \in Keys : key[k].status = "none" => key[k] = NewKey("none")
  /\ \A x \in Requests : req[x].pc \in Reviews => key[req[x].k].status # "none"
  /\ \A k \in Keys : k \notin muddled => Settled(k)

LEMMA DecisionInit == Init => DecisionInv
  <1> SUFFICES ASSUME Init PROVE DecisionInv
    OBVIOUS
  <1>1. \A x \in Requests : req[x].pc = "idle" /\ req[x].pc \notin Reviews
    BY DEF Init, Idle, Reviews
  <1>2. \A k \in Keys : /\ key[k] \in {NewKey("none"), NewKey("active")}
                        /\ profile[k] \in {None, "pending"}
    BY DEF Init
  <1>3. \A st \in {"none", "active"} :
          /\ NewKey(st).status = st /\ NewKey(st).meta.review = "none"
          /\ NewKey(st).witness = FALSE
    BY DEF NewKey
  <1>4. \A k \in Keys : RowGood(key[k]) /\ ProfileGood(key[k], profile[k])
    BY <1>2, <1>3 DEF RowGood, ProfileGood, Granted
  <1> QED
    BY <1>1, <1>2, <1>3, <1>4 DEF DecisionInv, Settled, OnKey

\* Request r, alone on key k if it is on it at all, becomes q.
LEMMA SettledMove ==
  ASSUME Typed, NEW r \in Requests, NEW k \in Keys, NEW q, Becomes(r, q),
         \A x \in OnKey(k) : x = r,
         q.pc \in Reviews /\ q.k = k => Fits(q, key'[k]),
         RowGood(key'[k]),
         \/ q.pc = "profile" /\ q.k = k
         \/ ProfileGood(key'[k], profile'[k])
  PROVE  Settled(k)'
  <1>1. req'[r] = q /\ \A x \in Requests : x # r => req'[x] = req[x]
    BY DEF Becomes
  <1>2. \A x \in Requests : req'[x].pc \in Reviews /\ req'[x].k = k => x = r
    BY <1>1 DEF OnKey
  <1>3. q.pc = "profile" => q.pc \in Reviews
    BY DEF Reviews
  <1> HIDE DEF Fits, RowGood, ProfileGood, Reviews
  <1> QED
    BY <1>1, <1>2, <1>3 DEF Settled, OnKey

\* a key that request r, and what it writes, are not about
LEMMA SettledElsewhere ==
  ASSUME NEW k \in Keys, Settled(k), key'[k] = key[k], profile'[k] = profile[k],
         \A x \in Requests :
           \/ req'[x] = req[x]
           \/ /\ ~(req[x].pc \in Reviews /\ req[x].k = k)
              /\ ~(req'[x].pc \in Reviews /\ req'[x].k = k)
  PROVE  Settled(k)'
  <1>1. \A x \in Requests :
          /\ (req'[x].pc \in Reviews /\ req'[x].k = k) <=> (req[x].pc \in Reviews /\ req[x].k = k)
          /\ req[x].pc \in Reviews /\ req[x].k = k => req'[x] = req[x]
    OBVIOUS
  <1>2. OnKey(k)' = OnKey(k) /\ \A x \in OnKey(k) : x \in Requests /\ req'[x] = req[x]
    BY <1>1 DEF OnKey
  <1> HIDE DEF Fits, RowGood, ProfileGood, OnKey
  <1> QED
    BY <1>2 DEF Settled

\* Request r, on key k, becomes q and writes only what is k's.
LEMMA DecisionMove ==
  ASSUME Typed, DecisionInv, NEW r \in Requests, NEW k \in Keys, NEW q, Becomes(r, q),
         req[r].pc \in Reviews => req[r].k = k,
         q.pc \in Reviews => q.k = k /\ key'[k].status # "none",
         muddled \subseteq muddled',
         \A j \in Keys : j # k => key'[j] = key[j] /\ profile'[j] = profile[j],
         key'[k].status = "none" => key'[k] = key[k],
         key[k].status # "none" => key'[k].status # "none",
         k \notin muddled' =>
           /\ \A x \in OnKey(k) : x = r
           /\ q.pc \in Reviews => Fits(q, key'[k])
           /\ RowGood(key'[k])
           /\ q.pc = "profile" \/ ProfileGood(key'[k], profile'[k])
  PROVE  DecisionInv'
  <1>1. req'[r] = q /\ \A x \in Requests : x # r => req'[x] = req[x]
    BY DEF Becomes
  <1>2. \A x \in Requests : req[x].pc \in Reviews => req[x].k \in Keys
    BY ReqIs DEF Typed, Reviews, LinkPcs
  <1>3. q.pc = "profile" => q.pc \in Reviews
    BY DEF Reviews
  <1> HIDE DEF Fits, RowGood, ProfileGood, Reviews
  <1>4. \A x \in Requests : req'[x].pc \in Reviews => key'[req'[x].k].status # "none"
    BY <1>1, <1>2 DEF DecisionInv
  <1>5. \A j \in Keys : key'[j].status = "none" => key'[j] = NewKey("none")
    BY DEF DecisionInv
  <1>6. ASSUME NEW j \in Keys, j \notin muddled' PROVE Settled(j)'
    <2>1. CASE j = k
      BY <1>3, <1>6, <2>1, SettledMove
    <2>2. CASE j # k
      <3>1. Settled(j)
        BY <1>6 DEF DecisionInv
      <3>2. \A x \in Requests :
              \/ req'[x] = req[x]
              \/ /\ ~(req[x].pc \in Reviews /\ req[x].k = j)
                 /\ ~(req'[x].pc \in Reviews /\ req'[x].k = j)
        BY <1>1, <2>2
      <3> QED
        BY <2>2, <3>1, <3>2, SettledElsewhere
    <2> QED
      BY <2>1, <2>2
  <1> QED
    BY <1>4, <1>5, <1>6 DEF DecisionInv

\* what holds of the key of a request under way, if nothing overlapped on it
LEMMA Mine ==
  ASSUME Typed, DecisionInv, NEW r \in Requests, req[r].pc \in Reviews
  PROVE  /\ req[r].k \in Keys /\ key[req[r].k] \in Key /\ key[req[r].k].status # "none"
         /\ req[r].k \notin muddled =>
              /\ \A x \in OnKey(req[r].k) : x = r
              /\ Fits(req[r], key[req[r].k])
              /\ RowGood(key[req[r].k])
              /\ req[r].pc # "profile" => ProfileGood(key[req[r].k], profile[req[r].k])
  <1>1. req[r].k \in Keys
    BY ReqIs DEF Typed, Reviews, LinkPcs
  <1>2. r \in OnKey(req[r].k)
    BY DEF OnKey
  <1> HIDE DEF OnKey, Fits, RowGood, ProfileGood
  <1>3. req[r].k \notin muddled => Settled(req[r].k)
    BY <1>1 DEF DecisionInv
  <1>4. key[req[r].k] \in Key /\ key[req[r].k].status # "none"
    BY <1>1 DEF DecisionInv, Typed, RowsOK
  <1> QED
    BY <1>1, <1>2, <1>3, <1>4 DEF Settled

LEMMA DecisionReads ==
  ASSUME Typed, DecisionInv, NEW r \in Requests, NEW k \in Keys,
         \/ \E v \in {"approved", "equipped"} : ApproveRead(r, k, v)
         \/ RejectRead(r, k) \/ GrantRead(r, k) \/ AskRead(r, k) \/ ProvisionRead(r, k)
         \/ AdminActivateRead(r, k)
  PROVE  DecisionInv'
  <1>1. ASSUME NEW q, Begins(r, k, q), q.pc \in Reviews, q.k = k, q.pc # "profile",
               Fits(q, key[k]), key[k].status # "none", UNCHANGED <<key, profile>>
        PROVE  DecisionInv'
    <2>1. Becomes(r, q) /\ req[r].pc = "idle"
      BY <1>1, Put DEF Begins, At
    <2>2. req[r].pc \notin Reviews
      BY <2>1 DEF Reviews
    <2>3. muddled \subseteq muddled' /\ (k \notin muddled' => OnKey(k) = {} /\ k \notin muddled)
      BY <1>1 DEF Begins
    <2> HIDE DEF Fits, RowGood, ProfileGood, Reviews, OnKey
    <2>4. k \notin muddled' => RowGood(key[k]) /\ ProfileGood(key[k], profile[k])
      BY <2>3 DEF DecisionInv, Settled
    <2> QED
      BY <1>1, <2>1, <2>2, <2>3, <2>4, DecisionMove
  <1>2. ASSUME NEW v, Begins(r, k, OrgReq(k, v, key[k].meta)), UNCHANGED <<key, profile>>,
               key[k].status # "none", v # "provision" => ~key[k].activated
        PROVE  DecisionInv'
    <2> DEFINE q == OrgReq(k, v, key[k].meta)
    <2>1. q.pc = "org" /\ q.k = k /\ q.verdict = v /\ q.meta = key[k].meta
      BY DEF OrgReq
    <2> HIDE DEF q
    <2>2. Fits(q, key[k]) /\ q.pc \in Reviews
      BY <1>2, <2>1 DEF Fits, Reviews
    <2> QED
      BY <1>1, <1>2, <2>1, <2>2 DEF q
  <1>3. ASSUME NEW pc \in {"reject", "grant"}, Begins(r, k, MetaReq(pc, k, key[k].meta)),
               UNCHANGED <<key, profile>>, key[k].status # "none",
               pc = "reject" => ~key[k].activated
        PROVE  DecisionInv'
    <2> DEFINE q == MetaReq(pc, k, key[k].meta)
    <2>1. q.pc = pc /\ q.k = k /\ q.meta = key[k].meta
      BY DEF MetaReq
    <2> HIDE DEF q
    <2>2. Fits(q, key[k]) /\ q.pc \in Reviews
      BY <1>3, <2>1 DEF Fits, Reviews
    <2> QED
      BY <1>1, <1>3, <2>1, <2>2 DEF q
  <1>4. ASSUME NEW pc \in {"ask", "admit"}, Begins(r, k, KeyReq(pc, k)),
               UNCHANGED <<key, profile>>, key[k].status # "none", pc = "ask" => ~key[k].witness
        PROVE  DecisionInv'
    <2> DEFINE q == KeyReq(pc, k)
    <2>1. q.pc = pc /\ q.k = k
      BY DEF KeyReq
    <2> HIDE DEF q
    <2>2. Fits(q, key[k]) /\ q.pc \in Reviews
      BY <1>4, <2>1 DEF Fits, Reviews, MetaPcs
    <2> QED
      BY <1>1, <1>4, <2>1, <2>2 DEF q
  <1>5. UNCHANGED <<key, profile>>
    BY DEF ApproveRead, RejectRead, GrantRead, AskRead, ProvisionRead, AdminActivateRead
  <1>6. CASE \E v \in {"approved", "equipped"} : ApproveRead(r, k, v)
    BY <1>2, <1>5, <1>6 DEF ApproveRead, OrgReq, Pending
  <1>7. CASE RejectRead(r, k)
    BY <1>3, <1>5, <1>7 DEF RejectRead, MetaReq, Pending
  <1>8. CASE GrantRead(r, k)
    BY <1>3, <1>5, <1>8 DEF GrantRead, MetaReq
  <1>9. CASE AskRead(r, k)
    BY <1>4, <1>5, <1>9 DEF AskRead, KeyReq
  <1>10. CASE ProvisionRead(r, k)
    BY <1>2, <1>5, <1>10 DEF ProvisionRead, OrgReq
  <1>11. CASE AdminActivateRead(r, k)
    BY <1>4, <1>5, <1>11 DEF AdminActivateRead, KeyReq
  <1> QED
    BY <1>6, <1>7, <1>8, <1>9, <1>10, <1>11

\* a request goes on, or ends, without a write to the key or the profile
LEMMA DecisionStill ==
  ASSUME Typed, DecisionInv, NEW r \in Requests, req[r].pc \in Reviews, req[r].pc # "profile",
         NEW q, Becomes(r, q), UNCHANGED <<key, profile, muddled>>,
         \/ q.pc = "idle"
         \/ /\ req[r].pc \in {"org", "link"} /\ q.pc \in LinkPcs
            /\ q.k = req[r].k /\ q.verdict = req[r].verdict /\ q.meta = req[r].meta
  PROVE  DecisionInv'
  <1> DEFINE k == req[r].k
  <1>1. /\ k \in Keys /\ key[k].status # "none"
        /\ k \notin muddled => /\ \A x \in OnKey(k) : x = r
                               /\ Fits(req[r], key[k]) /\ RowGood(key[k])
                               /\ ProfileGood(key[k], profile[k])
    BY Mine
  <1>2. Fits(req[r], key[k]) /\ q.pc # "idle" => Fits(q, key[k])
    BY DEF Fits, MetaPcs, LinkPcs
  <1>3. "idle" \notin Reviews /\ (q.pc \in Reviews => q.k = k)
    BY DEF Reviews
  <1> HIDE DEF Fits, RowGood, ProfileGood, Reviews, OnKey, k
  <1> QED
    BY <1>1, <1>2, <1>3, DecisionMove DEF k

\* a request writes its key, and ends or goes on to the profile
LEMMA DecisionWrite ==
  ASSUME Typed, DecisionInv, NEW r \in Requests, req[r].pc \in Reviews, req[r].pc # "profile",
         NEW row \in Key, key' = [key EXCEPT ![req[r].k] = row],
         UNCHANGED <<profile, muddled>>, row.status # "none",
         NEW q, Becomes(r, q), q.pc = "idle" \/ (q.pc = "profile" /\ q.k = req[r].k),
         req[r].k \notin muddled =>
           /\ RowGood(row)
           /\ q.pc = "profile" => Fits(q, row)
           /\ q.pc = "profile" \/ ProfileGood(row, profile[req[r].k])
  PROVE  DecisionInv'
  <1> DEFINE k == req[r].k
  <1>1. /\ k \in Keys /\ key[k].status # "none"
        /\ k \notin muddled => \A x \in OnKey(k) : x = r
    BY Mine
  <1>2. key \in [Keys -> Key]
    BY DEF Typed, RowsOK
  <1>3. key'[k] = row /\ \A j \in Keys : j # k => key'[j] = key[j]
    BY <1>1, <1>2
  <1>4. "idle" \notin Reviews
    BY DEF Reviews
  <1> HIDE DEF Fits, RowGood, ProfileGood, Reviews, OnKey, k
  <1> QED
    BY <1>1, <1>3, <1>4, DecisionMove DEF k

\* what the three writes of a decision make of a key
Admitted(row, v, m) ==
  [row EXCEPT !.activated = TRUE, !.witness = @ \/ v = "equipped",
              !.asked = @ /\ ~(v = "equipped"), !.meta = m]
Refused(row, m)    == [row EXCEPT !.status = "rejected", !.meta = m]
Witnessing(row, m) == [row EXCEPT !.witness = TRUE, !.asked = FALSE, !.meta = m]

LEMMA AdmittedFields ==
  \A row \in Key : \A m \in Meta : \A v \in {"approved", "equipped"} :
    /\ Admitted(row, v, m) \in Key /\ Admitted(row, v, m).status = row.status
    /\ Admitted(row, v, m).activated = TRUE /\ Admitted(row, v, m).meta = m
    /\ Admitted(row, v, m).witness => row.witness \/ v = "equipped"
    /\ Admitted(row, v, m).asked => row.asked /\ v # "equipped"
  <1> TAKE row \in Key
  <1> TAKE m \in Meta
  <1> TAKE v \in {"approved", "equipped"}
  <1> QED
    BY DEF Admitted, Key

LEMMA RefusedFields ==
  ASSUME NEW row \in Key, NEW m \in Meta
  PROVE  /\ Refused(row, m) \in Key /\ Refused(row, m).status = "rejected"
         /\ Refused(row, m).meta = m /\ Refused(row, m).activated = row.activated
         /\ Refused(row, m).witness = row.witness /\ Refused(row, m).asked = row.asked
  BY DEF Refused, Key

LEMMA WitnessingFields ==
  ASSUME NEW row \in Key, NEW m \in Meta
  PROVE  /\ Witnessing(row, m) \in Key /\ Witnessing(row, m).status = row.status
         /\ Witnessing(row, m).activated = row.activated /\ Witnessing(row, m).meta = m
         /\ Witnessing(row, m).asked = FALSE
  BY DEF Witnessing, Key

LEMMA DecisionOrgs ==
  ASSUME Typed, DecisionInv, NEW r \in Requests, MakeOrg(r) \/ LinkOrg(r) \/ UndoOrg(r)
  PROVE  DecisionInv'
  <1>0. Idle.pc = "idle" /\ UNCHANGED <<key, profile, muddled>>
    BY DEF Idle, MakeOrg, LinkOrg, UndoOrg
  <1>1. CASE MakeOrg(r)
    <2>1. req[r].pc = "org" /\ req[r].pc \in Reviews
      BY <1>1 DEF MakeOrg, At, Reviews
    <2>2. \/ Becomes(r, Idle)
          \/ \E o : Becomes(r, LinkReq("link", req[r].k, o, req[r].verdict, req[r].meta))
      BY <1>1, Put DEF MakeOrg, NoOrg, Ends, LinkReq
    <2>3. CASE Becomes(r, Idle)
      BY <1>0, <2>1, <2>3, DecisionStill
    <2>4. ASSUME NEW o, Becomes(r, LinkReq("link", req[r].k, o, req[r].verdict, req[r].meta))
          PROVE  DecisionInv'
      <3> DEFINE q == LinkReq("link", req[r].k, o, req[r].verdict, req[r].meta)
      <3>1. /\ q.pc \in LinkPcs /\ q.k = req[r].k /\ q.verdict = req[r].verdict
            /\ q.meta = req[r].meta /\ Becomes(r, q)
        BY <2>4 DEF LinkReq, LinkPcs
      <3> HIDE DEF q
      <3> QED
        BY <1>0, <2>1, <3>1, DecisionStill
    <2> QED
      BY <2>2, <2>3, <2>4
  <1>2. CASE LinkOrg(r)
    <2>1. req[r].pc = "link" /\ req[r].pc \in Reviews /\ req[r].pc \in LinkPcs
      BY <1>2 DEF LinkOrg, At, Reviews, LinkPcs
    <2>2. req[r] = LinkReq("link", req[r].k, req[r].o, req[r].verdict, req[r].meta)
      <3>1. \A x \in Requests : req[x].pc \in LinkPcs =>
              req[x] = LinkReq(req[x].pc, req[x].k, req[x].o, req[x].verdict, req[x].meta)
        BY ReqIs DEF Typed
      <3> QED
        BY <2>1, <3>1
    <2>3. \A pc : [req[r] EXCEPT !.pc = pc]
                    = LinkReq(pc, req[r].k, req[r].o, req[r].verdict, req[r].meta)
      BY <2>2, Moved
    <2>4. \/ Becomes(r, Idle)
          \/ \E pc \in {"activate", "unorg"} :
               Becomes(r, LinkReq(pc, req[r].k, req[r].o, req[r].verdict, req[r].meta))
      BY <1>2, <2>3, Put DEF LinkOrg, Ends, Unlinked
    <2>5. CASE Becomes(r, Idle)
      BY <1>0, <2>1, <2>5, DecisionStill
    <2>6. ASSUME NEW pc \in {"activate", "unorg"},
                 Becomes(r, LinkReq(pc, req[r].k, req[r].o, req[r].verdict, req[r].meta))
          PROVE  DecisionInv'
      <3> DEFINE q == LinkReq(pc, req[r].k, req[r].o, req[r].verdict, req[r].meta)
      <3>1. /\ q.pc \in LinkPcs /\ q.k = req[r].k /\ q.verdict = req[r].verdict
            /\ q.meta = req[r].meta /\ Becomes(r, q)
        BY <2>6 DEF LinkReq, LinkPcs
      <3> HIDE DEF q
      <3> QED
        BY <1>0, <2>1, <3>1, DecisionStill
    <2> QED
      BY <2>4, <2>5, <2>6
  <1>3. CASE UndoOrg(r)
    <2>1. req[r].pc = "unorg" /\ req[r].pc \in Reviews /\ Becomes(r, Idle)
      BY <1>3, Put DEF UndoOrg, At, Ends, Reviews
    <2> QED
      BY <1>0, <2>1, DecisionStill
  <1> QED
    BY <1>1, <1>2, <1>3

\* Request r decides: its key is written, and its profile comes next if it has one.
LEMMA DecisionVerdict ==
  ASSUME Typed, DecisionInv, NEW r \in Requests, req[r].pc \in {"activate", "reject"},
         NEW row \in Key, key' = [key EXCEPT ![req[r].k] = row], row.status # "none",
         UNCHANGED <<profile, muddled>>, NEW to \in {"active", "suspended"},
         ThenProfile(r, req[r].k, to),
         to = "active" => row.meta.review \in Granted,
         to = "suspended" => row.meta.review = "rejected",
         req[r].k \notin muddled => RowGood(row)
  PROVE  DecisionInv'
  <1> DEFINE k == req[r].k
  <1>0. req[r].pc \in Reviews /\ req[r].pc # "profile" /\ Idle.pc = "idle"
    BY DEF Reviews, Idle
  <1>1. CASE profile[k] = None
    <2>1. Becomes(r, Idle)
      BY <1>1, Put DEF ThenProfile, Ends
    <2>2. ProfileGood(row, profile[k])
      BY <1>1, StatusAssumption DEF ProfileGood
    <2> HIDE DEF Fits, RowGood, ProfileGood
    <2> QED
      BY <1>0, <2>1, <2>2, DecisionWrite
  <1>2. CASE profile[k] # None
    <2> DEFINE q == ProfileReq(k, to)
    <2>1. Becomes(r, q)
      BY <1>2, Put DEF ThenProfile, ProfileReq
    <2>2. q.pc = "profile" /\ q.k = k /\ q.to = to
      BY DEF ProfileReq
    <2> HIDE DEF q
    <2>3. Fits(q, row)
      BY <2>2 DEF Fits, MetaPcs
    <2> HIDE DEF Fits, RowGood, ProfileGood
    <2> QED
      BY <1>0, <2>1, <2>2, <2>3, DecisionWrite
  <1> QED
    BY <1>1, <1>2

LEMMA DecisionActivate ==
  ASSUME Typed, DecisionInv, NEW r \in Requests, Activate(r)
  PROVE  DecisionInv'
  <1> DEFINE k == req[r].k
             v == req[r].verdict
             m == Reviewed(req[r].meta, req[r].verdict)
             row == Admitted(key[k], v, m)
  <1>1. req[r].pc = "activate" /\ req[r].pc \in Reviews /\ req[r].pc \in LinkPcs
    BY DEF Activate, At, Reviews, LinkPcs
  <1>2. /\ k \in Keys /\ key[k] \in Key /\ key[k].status # "none"
        /\ k \notin muddled => Fits(req[r], key[k]) /\ RowGood(key[k])
    BY <1>1, Mine
  <1>3. /\ v \in {"approved", "equipped"}
        /\ m \in Meta /\ m.review = v /\ m.grant = req[r].meta.grant
    <2>1. req[r].verdict \in Verdicts /\ req[r].meta \in Meta /\ Sane(req[r])
      BY <1>1, ReqIs DEF Typed
    <2>2. req[r].verdict \in {"approved", "equipped"}
      BY <1>1, <2>1 DEF Verdicts, Sane
    <2>3. m \in Meta /\ m.review = req[r].verdict /\ m.grant = req[r].meta.grant
      <3>1. req[r].verdict \in {"approved", "equipped", "rejected"} /\ req[r].meta \in Meta
        BY <2>1, <2>2
      <3> QED
        BY <3>1, ReviewedIs
    <2> QED
      BY <2>2, <2>3
  <1>5. /\ row \in Key /\ row.status = key[k].status /\ row.activated = TRUE /\ row.meta = m
        /\ row.witness => key[k].witness \/ v = "equipped"
        /\ row.asked => key[k].asked /\ v # "equipped"
    <2> HIDE DEF m, k, v
    <2> QED
      BY <1>2, <1>3, AdmittedFields
  <1>6. /\ UNCHANGED <<profile, muddled>>
        /\ \/ key' = [key EXCEPT ![k] = row] /\ ThenProfile(r, k, "active")
           \/ Ends(r) /\ UNCHANGED key
    BY DEF Activate, Admitted
  <1> HIDE DEF row
  \* the key was not activated when the request read it, nor has been since: it
  \* has witnessing by a grant, if at all
  <1>7. k \notin muddled => RowGood(row)
    <2> SUFFICES ASSUME k \notin muddled PROVE RowGood(row)
      OBVIOUS
    <2>1. req[r].meta = key[k].meta /\ ~key[k].activated
      BY <1>1, <1>2, <1>3 DEF Fits, MetaPcs
    <2>2. key[k].meta.review \notin Granted
      BY <1>2, <2>1 DEF RowGood
    <2>3. key[k].witness => key[k].meta.grant /\ ~key[k].asked
      BY <1>2, <2>2 DEF RowGood, Granted
    <2> QED
      BY <1>3, <1>5, <2>1, <2>3 DEF RowGood
  <1>8. CASE key' = [key EXCEPT ![k] = row] /\ ThenProfile(r, k, "active")
    <2>1. row.meta.review \in Granted
      BY <1>3, <1>5 DEF Granted
    <2> QED
      BY <1>1, <1>2, <1>5, <1>6, <1>7, <1>8, <2>1, DecisionVerdict
  <1>9. CASE Ends(r) /\ UNCHANGED key
    <2>1. Becomes(r, Idle) /\ Idle.pc = "idle"
      BY <1>9, Put DEF Ends, Idle
    <2> QED
      BY <1>1, <1>6, <1>9, <2>1, DecisionStill
  <1> QED
    BY <1>6, <1>8, <1>9

LEMMA DecisionReject ==
  ASSUME Typed, DecisionInv, NEW r \in Requests, RejectWrite(r)
  PROVE  DecisionInv'
  <1> DEFINE k == req[r].k
             m == Reviewed(req[r].meta, "rejected")
             row == Refused(key[k], m)
  <1>1. req[r].pc = "reject" /\ req[r].pc \in Reviews
    BY DEF RejectWrite, At, Reviews
  <1>2. /\ k \in Keys /\ key[k] \in Key /\ key[k].status # "none"
        /\ k \notin muddled => Fits(req[r], key[k]) /\ RowGood(key[k])
    BY <1>1, Mine
  <1>3. m \in Meta /\ m.review = "rejected" /\ m.grant = req[r].meta.grant
    <2>1. req[r].meta \in Meta
      BY <1>1, ReqIs DEF Typed
    <2> QED
      BY <2>1, ReviewedTyped
  <1>4. /\ row \in Key /\ row.status = "rejected" /\ row.activated = key[k].activated
        /\ row.meta = m /\ row.witness = key[k].witness /\ row.asked = key[k].asked
    <2> HIDE DEF m, k
    <2> QED
      BY <1>2, <1>3, RefusedFields
  <1>5. /\ UNCHANGED <<profile, muddled>>
        /\ \/ key' = [key EXCEPT ![k] = row] /\ ThenProfile(r, k, "suspended")
           \/ Ends(r) /\ UNCHANGED key
    BY DEF RejectWrite, Refused
  <1> HIDE DEF row
  <1>6. k \notin muddled => RowGood(row)
    <2> SUFFICES ASSUME k \notin muddled PROVE RowGood(row)
      OBVIOUS
    <2>1. req[r].meta = key[k].meta /\ ~key[k].activated
      BY <1>1, <1>2 DEF Fits, MetaPcs
    <2>2. key[k].meta.review \notin Granted
      BY <1>2, <2>1 DEF RowGood
    <2>3. key[k].witness => key[k].meta.grant /\ ~key[k].asked
      BY <1>2, <2>2 DEF RowGood, Granted
    <2> QED
      BY <1>3, <1>4, <2>1, <2>3 DEF RowGood, Granted
  <1>7. CASE key' = [key EXCEPT ![k] = row] /\ ThenProfile(r, k, "suspended")
    <2>1. row.meta.review = "rejected" /\ row.status # "none"
      BY <1>3, <1>4
    <2> QED
      BY <1>1, <1>4, <1>5, <1>6, <1>7, <2>1, DecisionVerdict
  <1>8. CASE Ends(r) /\ UNCHANGED key
    <2>1. Becomes(r, Idle) /\ Idle.pc = "idle"
      BY <1>8, Put DEF Ends, Idle
    <2> QED
      BY <1>1, <1>5, <1>8, <2>1, DecisionStill
  <1> QED
    BY <1>5, <1>7, <1>8

LEMMA DecisionSingle ==
  ASSUME Typed, DecisionInv, NEW r \in Requests,
         GrantWrite(r) \/ AskWrite(r) \/ AdminActivateWrite(r)
  PROVE  DecisionInv'
  <1> DEFINE k == req[r].k
  <1>1. /\ req[r].pc \in {"grant", "ask", "admit"} /\ req[r].pc \in Reviews
        /\ req[r].pc # "profile"
        /\ Becomes(r, Idle) /\ Idle.pc = "idle" /\ UNCHANGED <<profile, muddled>>
    BY Put DEF GrantWrite, AskWrite, AdminActivateWrite, At, Ends, Idle, Reviews
  <1>2. /\ k \in Keys /\ key[k] \in Key /\ key[k].status # "none"
        /\ k \notin muddled => /\ Fits(req[r], key[k]) /\ RowGood(key[k])
                               /\ ProfileGood(key[k], profile[k])
    BY <1>1, Mine
  <1>3. CASE UNCHANGED key
    BY <1>1, <1>3, DecisionStill
  <1>4. ASSUME NEW row \in Key, key' = [key EXCEPT ![k] = row], row.status = key[k].status,
               row.meta.review = key[k].meta.review \/ k \in muddled,
               k \notin muddled => RowGood(row)
        PROVE  DecisionInv'
    <2>1. k \notin muddled => ProfileGood(row, profile[k])
      BY <1>2, <1>4 DEF ProfileGood
    <2> HIDE DEF Fits, RowGood, ProfileGood
    <2> QED
      BY <1>1, <1>2, <1>4, <2>1, DecisionWrite
  <1>5. CASE GrantWrite(r) /\ key' # key
    <2> DEFINE m == [req[r].meta EXCEPT !.grant = TRUE]
               row == Witnessing(key[k], m)
    <2>1. req[r].pc = "grant"
      BY <1>5 DEF GrantWrite, At
    <2>2. m \in Meta /\ m.review = req[r].meta.review /\ m.grant = TRUE
      <3>1. req[r].meta \in Meta
        BY <2>1, ReqIs DEF Typed
      <3> QED
        BY <3>1, ReviewedTyped
    <2>3. /\ row \in Key /\ row.status = key[k].status /\ row.activated = key[k].activated
          /\ row.meta = m /\ row.asked = FALSE
      <3> HIDE DEF m, k
      <3> QED
        BY <1>2, <2>2, WitnessingFields
    <2>4. key' = [key EXCEPT ![k] = row]
      BY <1>5 DEF GrantWrite, Witnessing
    <2> HIDE DEF row
    <2>5. k \notin muddled => req[r].meta = key[k].meta
      BY <1>2, <2>1 DEF Fits, MetaPcs
    <2>6. k \notin muddled => RowGood(row)
      BY <1>2, <2>2, <2>3, <2>5 DEF RowGood
    <2> QED
      BY <1>4, <2>2, <2>3, <2>4, <2>5, <2>6
  <1>6. CASE AskWrite(r) /\ key' # key
    <2> DEFINE row == [key[k] EXCEPT !.asked = TRUE]
    <2>1. req[r].pc = "ask" /\ key' = [key EXCEPT ![k] = row]
      BY <1>6 DEF AskWrite, At
    <2>2. /\ row \in Key /\ row.status = key[k].status /\ row.activated = key[k].activated
          /\ row.meta = key[k].meta /\ row.witness = key[k].witness
      BY <1>2 DEF Key
    <2> HIDE DEF row
    <2>3. k \notin muddled => ~key[k].witness
      BY <1>2, <2>1 DEF Fits
    <2>4. k \notin muddled => RowGood(row)
      BY <1>2, <2>2, <2>3 DEF RowGood
    <2> QED
      BY <1>4, <2>1, <2>2, <2>4
  <1>7. CASE AdminActivateWrite(r) /\ key' # key
    <2> DEFINE row == [key[k] EXCEPT !.activated = TRUE]
    <2>1. key' = [key EXCEPT ![k] = row]
      BY <1>7 DEF AdminActivateWrite
    <2>2. /\ row \in Key /\ row.status = key[k].status /\ row.activated = TRUE
          /\ row.meta = key[k].meta /\ row.witness = key[k].witness /\ row.asked = key[k].asked
      BY <1>2 DEF Key
    <2> HIDE DEF row
    <2>3. k \notin muddled => RowGood(row)
      BY <1>2, <2>2 DEF RowGood
    <2> QED
      BY <1>4, <2>1, <2>2, <2>3
  <1> QED
    BY <1>3, <1>5, <1>6, <1>7

LEMMA DecisionProfile ==
  ASSUME Typed, DecisionInv, NEW r \in Requests, UpdateProfile(r)
  PROVE  DecisionInv'
  <1> DEFINE k == req[r].k
  <1>1. /\ req[r].pc = "profile" /\ req[r].pc \in Reviews
        /\ Becomes(r, Idle) /\ Idle.pc = "idle" /\ UNCHANGED key
        /\ muddled \subseteq muddled'
        /\ \/ profile' = [profile EXCEPT ![k] = req[r].to] /\ UNCHANGED muddled
           \/ muddled' = muddled \cup {k} /\ UNCHANGED profile
    BY Put DEF UpdateProfile, At, Ends, Idle, Reviews
  <1>2. /\ k \in Keys /\ key[k].status # "none"
        /\ k \notin muddled => /\ \A x \in OnKey(k) : x = r
                               /\ Fits(req[r], key[k]) /\ RowGood(key[k])
    BY <1>1, Mine
  <1>3. req[r].to \in {"active", "suspended"} /\ DOMAIN profile = Keys
    BY <1>1, ReqIs DEF Typed, RowsOK
  <1>4. k \notin muddled' => ProfileGood(key[k], profile'[k])
    <2> SUFFICES ASSUME k \notin muddled' PROVE ProfileGood(key[k], profile'[k])
      OBVIOUS
    <2>1. k \notin muddled /\ profile'[k] = req[r].to
      BY <1>1, <1>2, <1>3
    <2>2. Fits(req[r], key[k])
      BY <1>2, <2>1
    <2> QED
      BY <1>1, <1>3, <2>1, <2>2 DEF Fits, ProfileGood, Granted
  <1>5. "idle" \notin Reviews
    BY DEF Reviews
  <1>6. \A j \in Keys : j # k => profile'[j] = profile[j]
    BY <1>1, <1>2, <1>3
  <1> HIDE DEF Fits, RowGood, ProfileGood, Reviews, OnKey, k
  <1> QED
    BY <1>1, <1>2, <1>4, <1>5, <1>6, DecisionMove DEF k

LEMMA DecisionAdmin ==
  ASSUME Typed, DecisionInv, NEW k \in Keys,
         IssueKey(k) \/ \E st \in {"active", "revoked"} : PatchKey(k, st)
  PROVE  DecisionInv'
  <1>1. key \in [Keys -> Key] /\ UNCHANGED <<req, profile, muddled>>
    BY DEF Typed, RowsOK, IssueKey, PatchKey
  \* either way only the status differs: what is issued is a key nothing happened to
  <1>2. /\ \A j \in Keys : j # k => key'[j] = key[j]
        /\ key'[k].status \in {"active", "revoked"} /\ key'[k].meta = key[k].meta
        /\ key'[k].activated = key[k].activated
        /\ key'[k].witness = key[k].witness /\ key'[k].asked = key[k].asked
    <2>1. CASE IssueKey(k)
      <3>1. key[k] = NewKey("none") /\ key' = [key EXCEPT ![k] = NewKey("active")]
        BY <2>1 DEF IssueKey, DecisionInv
      <3> QED
        BY <1>1, <3>1 DEF NewKey
    <2>2. ASSUME NEW st \in {"active", "revoked"}, PatchKey(k, st)
          PROVE  /\ \A j \in Keys : j # k => key'[j] = key[j]
                 /\ key'[k].status \in {"active", "revoked"} /\ key'[k].meta = key[k].meta
                 /\ key'[k].activated = key[k].activated
                 /\ key'[k].witness = key[k].witness /\ key'[k].asked = key[k].asked
      <3>1. key' = [key EXCEPT ![k] = [key[k] EXCEPT !.status = st]]
        BY <2>2 DEF PatchKey
      <3> QED
        BY <1>1, <3>1 DEF Key
    <2> QED
      BY <2>1, <2>2
  <1>3. \A j \in Keys : RowGood(key[j]) => RowGood(key'[j])
    BY <1>2 DEF RowGood
  <1>4. \A j \in Keys : ProfileGood(key[j], profile[j]) => ProfileGood(key'[j], profile[j])
    BY <1>2 DEF ProfileGood
  <1>5. \A q : \A j \in Keys : Fits(q, key[j]) => Fits(q, key'[j])
    BY <1>2 DEF Fits
  <1>6. \A x \in Requests : req[x].pc \in Reviews => req[x].k \in Keys
    BY ReqIs DEF Typed, Reviews, LinkPcs
  <1>7. \A j \in Keys : OnKey(j)' = OnKey(j)
    BY <1>1 DEF OnKey
  <1>8. ASSUME NEW j \in Keys, Settled(j) PROVE Settled(j)'
    <2> HIDE DEF Fits, RowGood, ProfileGood, OnKey
    <2> QED
      BY <1>1, <1>3, <1>4, <1>5, <1>7, <1>8 DEF Settled
  <1>9. \A j \in Keys : key'[j].status = "none" => key'[j] = key[j]
    BY <1>2
  <1>10. \A j \in Keys : key[j].status # "none" => key'[j].status # "none"
    BY <1>2
  <1> HIDE DEF Settled, Reviews
  <1> QED
    BY <1>1, <1>6, <1>8, <1>9, <1>10 DEF DecisionInv

LEMMA DecisionNext == Typed /\ DecisionInv /\ [Next]_vars => DecisionInv'
  <1> SUFFICES ASSUME Typed, DecisionInv, [Next]_vars PROVE DecisionInv'
    OBVIOUS
  \* the requests about keys, and what they are about, are as they were
  <1>a. ASSUME UNCHANGED <<key, profile, muddled>>,
               \A x \in Requests : \/ req'[x] = req[x]
                                   \/ req[x].pc \notin Reviews /\ req'[x].pc \notin Reviews
        PROVE  DecisionInv'
    <2>1. ASSUME NEW k \in Keys, k \notin muddled PROVE Settled(k)'
      <3>1. Settled(k)
        BY <2>1 DEF DecisionInv
      <3> HIDE DEF Settled, Reviews
      <3> QED
        BY <1>a, <3>1, SettledElsewhere
    <2>2. \A x \in Requests : req'[x].pc \in Reviews => req'[x] = req[x]
      BY <1>a
    <2> HIDE DEF Settled, Reviews
    <2> QED
      BY <1>a, <2>1, <2>2 DEF DecisionInv
  <1>1. CASE UNCHANGED vars
    BY <1>1, <1>a DEF vars, review
  <1>2. CASE ReviewStep
    BY <1>2, DecisionReads, DecisionOrgs, DecisionActivate, DecisionReject, DecisionSingle,
       DecisionProfile, DecisionAdmin DEF ReviewStep
  <1>3. CASE SubscribeStep \/ DomainStep
    <2>1. UNCHANGED <<key, profile, muddled>>
      BY <1>3 DEF SubscribeStep, SubscribeLock, SubscribeCount, SubscribeCommit, Unsubscribe,
         DomainStep, ApproveDomain, RemoveDomain, RefuseRead, ListDomain, SettleRequest,
         RemovedDomain, RefuseWrite, LoadBegins, LoadRead, LoadStore, review
    <2>2. Moves(SubscribePcs) \/ Moves(ListPcs)
      BY <1>3, SubscribeTyped, DomainTyped
    <2>3. \A x \in Requests : \/ req'[x] = req[x]
                              \/ req[x].pc \notin Reviews /\ req'[x].pc \notin Reviews
      BY <2>2 DEF Moves, SubscribePcs, ListPcs, DomainPcs, Reviews
    <2> QED
      BY <1>a, <2>1, <2>3
  <1>4. CASE Restart
    <2>1. /\ \A x \in Requests : req'[x].pc = "idle"
          /\ UNCHANGED <<key, profile>>
          /\ \A k \in Keys : k \notin muddled' => k \notin muddled /\ OnKey(k) = {}
      BY <1>4, RestartTyped DEF Restart
    <2>2. \A k : OnKey(k)' = {}
      BY <2>1 DEF OnKey, Reviews
    <2>3. ASSUME NEW k \in Keys, k \notin muddled' PROVE Settled(k)'
      <3>1. Settled(k) /\ OnKey(k) = {} /\ OnKey(k)' = {}
        BY <2>1, <2>2, <2>3 DEF DecisionInv
      <3> HIDE DEF OnKey, Fits, RowGood, ProfileGood
      <3> QED
        BY <2>1, <3>1 DEF Settled
    <2>4. \A x \in Requests : req'[x].pc \notin Reviews
      BY <2>1 DEF Reviews
    <2> HIDE DEF Settled
    <2> QED
      BY <2>1, <2>3, <2>4 DEF DecisionInv
  <1> QED
    BY <1>1, <1>2, <1>3, <1>4 DEF Next

LEMMA DecisionIs == DecisionInv => DecisionOnRecord
  <1> SUFFICES ASSUME DecisionInv PROVE DecisionOnRecord
    OBVIOUS
  <1>1. \A k \in Applications \cup WitnessRequests : Offered(k) # "nothing"
    <2> SUFFICES ASSUME NEW k \in Keys, Pending(k) \/ k \in WitnessRequests
                 PROVE  Offered(k) # "nothing"
      BY DEF Applications, WitnessRequests
    <2>1. CASE Pending(k)
      BY <2>1 DEF Offered
    <2>2. CASE ~Pending(k)
      BY <2>2 DEF Offered
    <2> QED
      BY <2>1, <2>2
  <1>2. ASSUME NEW k \in Keys, k \notin muddled, OnKey(k) = {}
        PROVE  RowGood(key[k]) /\ ProfileGood(key[k], profile[k])
    BY <1>2 DEF DecisionInv, Settled
  <1> QED
    BY <1>1, <1>2 DEF DecisionOnRecord, RowGood, ProfileGood, Granted, MayWrite, Resolves,
       Applications, Pending, Contributors, WitnessRequests

\* Key, profile and the record of the review agree, of every key of which no
\* requests overlapped, none was cut and no update of a profile was lost.
THEOREM DecisionsAreOnRecord == Spec => []DecisionOnRecord
  BY InitTyped, NextTyped, DecisionInit, DecisionNext, DecisionIs, PTL DEF Spec

=============================================================================
