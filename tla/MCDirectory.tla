---------------------------- MODULE MCDirectory ----------------------------
(* Directory and Feed for TLC.  Verification by mail, verification by hand,   *)
(* the accounts, the content, the pages and the changes share the             *)
(* organizations and little else, so each behaviour keeps to one of them; by  *)
(* mail, either to the wrong codes at one challenge, which may expire, or to  *)
(* several challenges, asked for one by one, and right codes, with one loss.  *)
EXTENDS Feed, TLC

VARIABLE scene

Only(names) == scene \in names

MCInit ==
  /\ scene \in {"guess", "mail", "hand", "claims", "content", "pages", "changes"}
  /\ Init
  /\ Only({"guess", "mail", "hand"}) => Live = {} /\ \A o \in Orgs : org[o].live
  /\ Only({"mail", "pages"}) => \A o \in Orgs : ~org[o].commercial
  /\ Only({"content", "changes"}) => Live = {}
  /\ Only({"claims", "changes"}) => \A o \in Orgs : ~org[o].live
  /\ Only({"claims"}) => \A k \in Admins : tenant[k] = None
  /\ Only({"pages"}) => /\ \A a \in Live : acct[a].auth
                        /\ \A k \in Keys : tenant[k] = None
                        /\ \A o \in Orgs : org[o].owner # None
  /\ Only({"pages"}) \/ event = [e \in Events |-> NoEvent]
  /\ FeedInit
  /\ Only({"pages"}) =>
       /\ \A e \in Events : event[e].state = "published"
       /\ \A e, f \in Events : e < f => RelevantUntil(e) <= RelevantUntil(f)
       /\ Cardinality({e \in Events : event[e].open}) <= 1
       /\ Cardinality({e \in Events : event[e].series # None}) # 1
       /\ ~Tied \/ \A e \in Events : event[e].start = 0 /\ ~event[e].open

OneAtATime(c) == Cardinality({x \in Challenges : c[x].state # "none"}) <= 1

DirectoryStep ==
  \/ Only({"guess"})   /\ MailStep /\ OneAtATime(challenge')
  \/ /\ Only({"mail"}) /\ MailStep /\ Cardinality(broken') <= 1
     /\ \A r \in Requests : req'[r].pc # "attempt"
     /\ \A c \in Challenges : challenge'[c].state # "stale"
     /\ (\E r \in Requests : req'[r].pc = "challenge") =>
          verif = {} /\ Cardinality({r \in Requests : req'[r] # Idle}) = 1
  \/ Only({"hand"})    /\ HandStep
  \/ Only({"claims"})  /\ \/ AccountStep /\ \A a \in Accounts : ~acct'[a].suspended
                          \/ \E r \in Requests : LinkInsert(r)
                          \/ \E r \in Requests, k \in Keys : CreateOrg(r, k, "seeded")
  \/ Only({"content"}) /\ (OrgStep \/ ContentStep)
  \/ Only({"pages"})   /\ walk.pc = "on" /\ \E k \in Admins, a \in Accounts : PatchAccount(k, a, None, TRUE)
  \/ ~Only({"pages", "changes"}) /\ (Restart \/ \E r \in Requests : Promote(r))

MCNext ==
  /\ \/ DirectoryStep /\ UNCHANGED <<table, sync>> /\ Noticed
     \/ /\ \/ /\ Only({"pages"}) /\ walk.pc = "on"
              /\ now = 0 /\ stamp = 0
              /\ \/ Tick
                 \/ \E e \in Events : SetStatus(e, 1)
                 \/ \E e \in Events, start \in 0 .. Horizon : Reschedule(e, start, 1)
           \/ /\ Only({"changes"})
              /\ \/ \E S \in SUBSET Events, s \in Series \cup {None}, t \in {stamp, stamp + 1} :
                      Insert(S, None, s, [e \in S |-> 0], FALSE, t)
                 \/ \E S \in SUBSET Events, t \in {stamp, stamp + 1} : Rewrite(S, t)
                 \/ \E e \in Events, t \in {stamp, stamp + 1} : SetStatus(e, t)
                 \/ \E e \in Events : Delete(e)
        /\ UNCHANGED <<vars, sync>> /\ Noticed
     \/ Only({"pages"}) /\ (WalkPage \/ \E collapse \in BOOLEAN : WalkStart(collapse))
     \/ Only({"changes"}) /\ Poll
  /\ Only({"pages"}) => ~walk.tied /\ ~(walk.left /\ walk.came) /\ (Tied => event' = event)
  /\ UNCHANGED scene

MCSpec == MCInit /\ [][MCNext]_<<vars, feed, scene>>

Symmetry == Permutations(Challenges) \cup Permutations(Reviews) \cup Permutations(Requests)
              \cup Permutations(Accounts) \cup Permutations(Apps)

\* What is excepted from a property is not told apart any further, nor what no step
\* looks at: whether an account has events.
View == <<orgs, [a \in Accounts |-> [acct[a] EXCEPT !.events = FALSE]], tenant,
          IF crossed THEN {} ELSE claimants, crossed, verif, challenge, review,
          muddled, broken, content, req, feed, scene,
          [c \in Challenges |-> IF c \in muddled \cup broken THEN 0 ELSE guesses[c]]>>
=============================================================================
