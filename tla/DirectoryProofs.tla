--------------------------- MODULE DirectoryProofs ---------------------------
(***************************************************************************)
(* Theorems about Directory for every set of organizations, accounts,      *)
(* keys, apps, addresses and rows, every number of requests in flight and  *)
(* every limit of attempts.                                                *)
(***************************************************************************)
EXTENDS Directory, FiniteSetTheorems, TLAPS

-----------------------------------------------------------------------------
(* The requests there are *)

CodePcs   == {"attempt", "consume", "record"}
ReviewPcs == {"admit", "decide", "refuse"}
ClaimPcs  == {"make", "find", "claim"}
MailPcs   == CodePcs \cup {"challenge", "promote"}
HandPcs   == ReviewPcs \cup {"byHand", "queue", "promote"}
OtherPcs  == {"dropEvents", "drop", "link", "retract", "place"}

LEMMA ReqMade ==
  /\ Idle \in Req /\ Idle.pc = "idle"
  /\ \A pc \in {"challenge", "queue"}, o \in Orgs, i \in Ids : [pc |-> pc, o |-> o, i |-> i] \in Req
  /\ \A o \in Orgs, i \in Ids, k \in Keys : [pc |-> "byHand", o |-> o, i |-> i, k |-> k] \in Req
  /\ \A c \in Challenges, n \in Nat : [pc |-> "attempt", on |-> c, n |-> n] \in Req
  /\ \A pc \in {"consume", "record"}, c \in Challenges, k \in Keys :
       [pc |-> pc, on |-> c, k |-> k] \in Req
  /\ \A pc \in {"admit", "decide"}, v \in Reviews, k \in Keys :
       [pc |-> pc, on |-> v, k |-> k] \in Req
  /\ \A v \in Reviews : [pc |-> "refuse", on |-> v] \in Req
  /\ \A o \in Orgs : [pc |-> "promote", o |-> o] \in Req
  /\ \A pc \in {"make", "find"}, who \in Apps \cup {None} : [pc |-> pc, who |-> who] \in Req
  /\ \A a \in Accounts, who \in Apps \cup {None} : [pc |-> "claim", a |-> a, who |-> who] \in Req
  /\ \A pc \in {"dropEvents", "drop"}, a \in Accounts : [pc |-> pc, a |-> a] \in Req
  /\ \A k \in Keys, o \in Orgs : [pc |-> "link", k |-> k, o |-> o] \in Req
  /\ \A b \in Broadcasts : [pc |-> "retract", b |-> b] \in Req
  /\ \A p \in Places : [pc |-> "place", p |-> p] \in Req
  BY DEF Req, Idle

LEMMA ReqIs ==
  ASSUME NEW q \in Req
  PROVE  /\ q.pc \in {"idle"} \cup MailPcs \cup HandPcs \cup ClaimPcs \cup OtherPcs
         /\ q.pc \in {"challenge", "queue"} => q.o \in Orgs /\ q.i \in Ids
         /\ q.pc = "byHand" => q.o \in Orgs /\ q.i \in Ids /\ q.k \in Keys
         /\ q.pc \in CodePcs => q.on \in Challenges
         /\ q.pc = "attempt" => q.n \in Nat
         /\ q.pc \in {"consume", "record"} => q.k \in Keys /\ q = [pc |-> q.pc, on |-> q.on, k |-> q.k]
         /\ q.pc \in ReviewPcs => q.on \in Reviews
         /\ q.pc \in {"admit", "decide"} => q.k \in Keys /\ q = [pc |-> q.pc, on |-> q.on, k |-> q.k]
         /\ q.pc = "promote" => q.o \in Orgs
         /\ q.pc \in ClaimPcs => q.who \in Apps \cup {None}
         /\ q.pc \in {"make", "find"} => q = [pc |-> q.pc, who |-> q.who]
         /\ q.pc = "claim" => q.a \in Accounts
         /\ q.pc \in {"dropEvents", "drop"} => q.a \in Accounts /\ q = [pc |-> q.pc, a |-> q.a]
         /\ q.pc = "link" => q.k \in Keys /\ q.o \in Orgs
         /\ q.pc = "retract" => q.b \in Broadcasts
         /\ q.pc = "place" => q.p \in Places
  BY DEF Req, Idle, CodePcs, ReviewPcs, ClaimPcs, MailPcs, HandPcs, OtherPcs

-----------------------------------------------------------------------------
(* Types, and what requests and rows name *)

Rows ==
  /\ org \in [Orgs -> Org] /\ links \subseteq Keys \X Orgs
  /\ acct \in [Accounts -> Acct] /\ tenant \in [Keys -> Accounts \cup {None}]
  /\ verif \subseteq Verif
  /\ challenge \in [Challenges -> Challenge] /\ review \in [Reviews -> Review]
  /\ bc \in [Broadcasts -> Bcast] /\ place \subseteq Places
  /\ curator \in Orgs \cup {None} /\ items \subseteq Positions \X Items
  /\ muddled \subseteq Challenges \cup Reviews /\ broken \subseteq Challenges \cup Reviews \cup Orgs
  /\ guesses \in [Challenges -> 0 .. MaxAttempts + 1]
  /\ claimants \in [Accounts -> SUBSET Apps] /\ crossed \in BOOLEAN

\* a row to verify by names an organization and an address
Asks(row, os) == row.state # "none" => row.o \in Orgs /\ row.i \in Ids /\ os[row.o].live

\* who is verified, and who asks to be, is there
Rooted(os, vs, cs, rs) ==
  /\ \A x \in vs : os[x.o].live
  /\ \A c \in Challenges : Asks(cs[c], os)
  /\ \A v \in Reviews : Asks(rs[v], os)

\* so is what a request has in hand; it has read fewer attempts than there were
Sane(q, os, cs, rs, gs) ==
  /\ q \in Req
  /\ q.pc \in {"challenge", "queue", "byHand"} => os[q.o].live
  /\ q.pc \in CodePcs => cs[q.on].state # "none"
  /\ q.pc \in ReviewPcs => rs[q.on].state # "none"
  /\ q.pc = "attempt" => q.n < MaxAttempts /\ q.n <= gs[q.on]

Typed ==
  /\ Rows
  /\ Rooted(org, verif, challenge, review)
  /\ \A c \in Challenges : challenge[c].n <= guesses[c]
  /\ req \in [Requests -> Req]
  /\ \A r \in Requests : Sane(req[r], org, challenge, review, guesses)

LEMMA TypedIs == (Typed => TypeOK) /\ (Typed' => TypeOK')
  BY DEF Typed, TypeOK, Rows

LEMMA InitTyped == Init => Typed
  <1> SUFFICES ASSUME Init PROVE Typed
    OBVIOUS
  <1>1. org \in [Orgs -> Org]
    BY DEF Init
  <1>2. acct \in [Accounts -> Acct]
    <2>1. NoAccount \in Acct
      BY DEF NoAccount, Acct
    <2>2. \A u \in BOOLEAN : [NoAccount EXCEPT !.state = "live", !.auth = u] \in Acct
      BY DEF NoAccount, Acct
    <2>3. /\ acct = [a \in Accounts |-> acct[a]]
          /\ \A a \in Accounts : acct[a] = NoAccount \/ \E u \in BOOLEAN :
               acct[a] = [NoAccount EXCEPT !.state = "live", !.auth = u]
      BY DEF Init
    <2>4. \A a \in Accounts : acct[a] \in Acct
      BY <2>1, <2>2, <2>3
    <2> QED
      BY <2>3, <2>4
  <1>3. tenant \in [Keys -> Accounts \cup {None}]
    <2>1. tenant \in [Keys -> Live \cup {None}]
      BY DEF Init
    <2>2. Live \cup {None} \subseteq Accounts \cup {None}
      BY DEF Live
    <2> QED
      BY <2>1, <2>2
  <1>4. challenge \in [Challenges -> Challenge] /\ \A c \in Challenges : challenge[c].state = "none" /\ challenge[c].n = 0
    BY DEF Init, Challenge
  <1>5. review \in [Reviews -> Review] /\ \A v \in Reviews : review[v].state = "none"
    BY DEF Init, Review, NoRow
  <1>6. bc \in [Broadcasts -> Bcast]
    BY DEF Init, Bcast
  <1>7. guesses \in [Challenges -> 0 .. MaxAttempts + 1] /\ \A c \in Challenges : guesses[c] = 0
    <2>1. 0 \in 0 .. MaxAttempts + 1
      BY LimitAssumption
    <2>2. guesses = [c \in Challenges |-> 0]
      BY DEF Init
    <2> QED
      BY <2>1, <2>2
  <1>8. Rows
    BY <1>1, <1>2, <1>3, <1>4, <1>5, <1>6, <1>7 DEF Init, Rows
  <1>9. Rooted(org, verif, challenge, review)
    BY <1>4, <1>5 DEF Init, Rooted, Asks
  <1>10. \A r \in Requests : Sane(req[r], org, challenge, review, guesses)
    BY ReqMade DEF Init, Sane, CodePcs, ReviewPcs
  <1>11. req \in [Requests -> Req]
    BY ReqMade DEF Init
  <1> QED
    BY <1>4, <1>7, <1>8, <1>9, <1>10, <1>11 DEF Typed

\* nothing that requests and rows name ever goes away
Grows ==
  /\ \A o \in Orgs : org[o].live => org'[o].live
  /\ \A c \in Challenges : challenge[c].state # "none" => challenge'[c].state # "none"
  /\ \A v \in Reviews : review[v].state # "none" => review'[v].state # "none"
  /\ \A c \in Challenges : guesses[c] <= guesses'[c]

LEMMA SaneKept ==
  ASSUME Typed, Rows', Grows, NEW q, Sane(q, org, challenge, review, guesses)
  PROVE  Sane(q, org', challenge', review', guesses')
  <1>1. /\ q \in Req
        /\ q.pc \in {"challenge", "queue", "byHand"} => q.o \in Orgs
        /\ q.pc \in CodePcs => q.on \in Challenges
        /\ q.pc \in ReviewPcs => q.on \in Reviews
        /\ q.pc = "attempt" => q.n \in Nat /\ q.on \in Challenges
    BY ReqIs DEF Sane, CodePcs
  <1>2. q.pc = "attempt" => q.n <= guesses'[q.on]
    <2> SUFFICES ASSUME q.pc = "attempt" PROVE q.n <= guesses'[q.on]
      OBVIOUS
    <2>1. guesses[q.on] \in Nat /\ guesses'[q.on] \in Nat
      BY <1>1, LimitAssumption DEF Typed, Rows
    <2> QED
      BY <1>1, <2>1 DEF Sane, Grows
  <1> QED
    BY <1>1, <1>2 DEF Grows, Sane

\* what becomes of the requests when one moves
LEMMA Move ==
  ASSUME Typed, Rows', Grows, NEW r \in Requests, NEW q, Goes(r, q),
         Sane(q, org', challenge', review', guesses')
  PROVE  /\ req' \in [Requests -> Req]
         /\ \A x \in Requests : Sane(req'[x], org', challenge', review', guesses')
         /\ req'[r] = q /\ \A x \in Requests : x # r => req'[x] = req[x]
  <1>1. req'[r] = q /\ \A x \in Requests : x # r => req'[x] = req[x]
    BY DEF Goes, Typed
  <1>2. \A x \in Requests : Sane(req[x], org', challenge', review', guesses')
    BY SaneKept DEF Typed
  <1>3. req' \in [Requests -> Req]
    BY DEF Goes, Typed, Sane
  <1> QED
    BY <1>1, <1>2, <1>3

LEMMA TypedBy ==
  ASSUME Typed, Rows', Grows, Rooted(org', verif', challenge', review'),
         \A c \in Challenges : challenge'[c].n <= guesses'[c],
         \/ UNCHANGED req
         \/ \E r \in Requests, q \in Req :
              Goes(r, q) /\ Sane(q, org', challenge', review', guesses')
  PROVE  Typed'
  <1>1. CASE UNCHANGED req
    <2>1. \A x \in Requests : Sane(req[x], org', challenge', review', guesses')
      BY SaneKept DEF Typed
    <2> QED
      BY <1>1, <2>1 DEF Typed
  <1>2. ASSUME NEW r \in Requests, NEW q, Goes(r, q), Sane(q, org', challenge', review', guesses')
        PROVE  Typed'
    BY <1>2, Move DEF Typed
  <1> QED
    BY <1>1, <1>2

\* steps that leave verification alone
LEMMA Aside ==
  ASSUME Typed, Rows', \A o \in Orgs : org[o].live => org'[o].live,
         UNCHANGED <<verif, challenge, review, guesses>>,
         \/ UNCHANGED req
         \/ \E r \in Requests, q \in Req :
              Goes(r, q) /\ Sane(q, org, challenge, review, guesses)
  PROVE  Typed'
  <1>1. Grows
    <2>1. \A c \in Challenges : guesses[c] <= guesses[c]
      BY LimitAssumption DEF Typed, Rows
    <2> QED
      BY <2>1 DEF Grows
  <1>2. Rooted(org', verif', challenge', review')
    BY DEF Typed, Rows, Rooted, Asks, Verif
  <1>3. \A c \in Challenges : challenge'[c].n <= guesses'[c]
    BY DEF Typed
  <1>4. \A q \in Req : Sane(q, org, challenge, review, guesses)
                        => Sane(q, org', challenge', review', guesses')
    BY <1>1, SaneKept
  <1> QED
    BY <1>1, <1>2, <1>3, <1>4, TypedBy

LEMMA SaneIdle ==
  ASSUME NEW os, NEW cs, NEW rs, NEW gs
  PROVE  Idle \in Req /\ Sane(Idle, os, cs, rs, gs)
  BY ReqMade DEF Sane, CodePcs, ReviewPcs

LEMMA MailTyped == Typed /\ MailStep => Typed'
  <1> SUFFICES ASSUME Typed, MailStep PROVE Typed'
    OBVIOUS
  <1>0. /\ Rows /\ \A x \in Requests : Sane(req[x], org, challenge, review, guesses) /\ req[x] \in Req
        /\ \A c \in Challenges : challenge[c] \in Challenge /\ guesses[c] \in 0 .. MaxAttempts + 1
                                 /\ challenge[c].n <= guesses[c] /\ Asks(challenge[c], org)
    BY DEF Typed, Rows, Rooted
  <1>1. ASSUME NEW r \in Requests, NEW o \in Orgs, NEW i \in Ids, ChallengeRead(r, o, i) PROVE Typed'
    <2> DEFINE q == [pc |-> "challenge", o |-> o, i |-> i]
    <2>1. q \in Req /\ Sane(q, org, challenge, review, guesses)
      BY <1>1, ReqMade DEF Sane, CodePcs, ReviewPcs, ChallengeRead, MailAdmits
    <2>2. Rows' /\ Goes(r, q) /\ UNCHANGED <<org, verif, challenge, review, guesses>>
      BY <1>0, <1>1 DEF ChallengeRead, Rows, orgs, owners, proofs, content
    <2> HIDE DEF q
    <2> QED
      BY <2>1, <2>2, Aside
  <1>2. ASSUME NEW r \in Requests, ChallengeInsert(r) PROVE Typed'
    <2>1. /\ Goes(r, Idle) /\ req[r].pc = "challenge" /\ req[r].o \in Orgs /\ req[r].i \in Ids
          /\ org[req[r].o].live
          /\ UNCHANGED <<orgs, owners, verif, review, muddled, broken, guesses, content>>
      BY <1>0, <1>2, ReqIs DEF ChallengeInsert, At, Ends, Sane
    <2>2. CASE UNCHANGED challenge
      <3>1. Rows'
        BY <1>0, <2>1, <2>2 DEF Rows, orgs, owners, content
      <3> QED
        BY <2>1, <2>2, <3>1, SaneIdle, Aside DEF orgs
    <2>3. ASSUME NEW c \in Challenges, challenge[c].state = "none",
                 challenge' = [challenge EXCEPT ![c] = [state |-> "open", o |-> req[r].o,
                                                        i |-> req[r].i, n |-> 0]]
          PROVE  Typed'
      <3> DEFINE row == [state |-> "open", o |-> req[r].o, i |-> req[r].i, n |-> 0]
      <3>1. row \in Challenge /\ row.state = "open" /\ row.n = 0 /\ Asks(row, org)
        BY <2>1 DEF Challenge, Asks
      <3>2. challenge' = [challenge EXCEPT ![c] = row]
        BY <2>3
      <3> HIDE DEF row
      <3>3. Rows'
        BY <1>0, <2>1, <3>1, <3>2 DEF Rows, orgs, owners, content
      <3>4. Rooted(org', verif', challenge', review')
        BY <1>0, <2>1, <3>1, <3>2 DEF Typed, Rooted, Rows, orgs
      <3>5. Grows /\ \A x \in Challenges : challenge'[x].n <= guesses'[x]
        <4>1. \A x \in Challenges : guesses[x] <= guesses[x] /\ 0 <= guesses[x]
          BY <1>0, LimitAssumption
        <4> QED
          BY <1>0, <2>1, <2>3, <3>1, <3>2, <4>1 DEF Grows, Rows, orgs
      <3> QED
        BY <2>1, <3>3, <3>4, <3>5, SaneIdle, TypedBy
    <2> QED
      BY <1>2, <2>2, <2>3 DEF ChallengeInsert
  <1>3. ASSUME NEW c \in Challenges, ChallengeExpires(c) PROVE Typed'
    <2> DEFINE row == [challenge[c] EXCEPT !.state = "stale"]
    <2>1. /\ row \in Challenge /\ Asks(row, org) /\ row.state = "stale" /\ row.n = challenge[c].n
          /\ UNCHANGED <<orgs, owners, verif, review, muddled, broken, guesses, content, req>>
          /\ challenge' = [challenge EXCEPT ![c] = row]
      BY <1>0, <1>3 DEF ChallengeExpires, Challenge, Asks
    <2> HIDE DEF row
    <2>2. Rows'
      BY <1>0, <2>1 DEF Rows, orgs, owners, content
    <2>3. Rooted(org', verif', challenge', review')
      BY <1>0, <2>1 DEF Typed, Rooted, Rows, orgs
    <2>4. Grows /\ \A x \in Challenges : challenge'[x].n <= guesses'[x]
      <3>1. \A x \in Challenges : guesses[x] <= guesses[x]
        BY <1>0, LimitAssumption
      <3> QED
        BY <1>0, <2>1, <3>1 DEF Grows, Rows, orgs
    <2> QED
      BY <2>1, <2>2, <2>3, <2>4, TypedBy
  <1>4. ASSUME NEW r \in Requests, NEW k \in Keys, NEW c \in Challenges, NEW right \in BOOLEAN,
               ConfirmRead(r, k, c, right)
        PROVE  Typed'
    <2> DEFINE q == IF right THEN [pc |-> "consume", on |-> c, k |-> k]
                             ELSE [pc |-> "attempt", on |-> c, n |-> challenge[c].n]
    <2>1. q \in Req /\ Sane(q, org, challenge, review, guesses) /\ q.on = c
      <3>1. challenge[c].n \in Nat
        BY <1>0 DEF Challenge
      <3>2. challenge[c].state # "none" /\ challenge[c].n < MaxAttempts
        BY <1>4 DEF ConfirmRead, Confirmable
      <3> QED
        BY <1>0, <3>1, <3>2, ReqMade DEF Sane, CodePcs, ReviewPcs
    <2>2. /\ Goes(r, q) /\ muddled' \in {muddled, muddled \cup {q.on}}
          /\ UNCHANGED <<orgs, owners, verif, challenge, review, broken, guesses, content>>
      BY <1>4 DEF ConfirmRead, Opens
    <2> HIDE DEF q
    <2>3. Rows'
      BY <1>0, <2>1, <2>2 DEF Rows, orgs, owners, content
    <2> QED
      BY <2>1, <2>2, <2>3, Aside DEF orgs
  <1>5. ASSUME NEW r \in Requests, CountAttempt(r) PROVE Typed'
    <2> DEFINE c == req[r].on
               n == req[r].n
               row == [challenge[c] EXCEPT !.n = n + 1]
    <2>1. c \in Challenges /\ n \in Nat /\ n < MaxAttempts /\ n <= guesses[c]
      BY <1>0, <1>5, ReqIs DEF CountAttempt, At, Sane, CodePcs
    <2>2. row \in Challenge /\ row.state = challenge[c].state /\ Asks(row, org) /\ row.n = n + 1
      BY <1>0, <2>1 DEF Challenge, Asks
    <2>3. /\ guesses' = [guesses EXCEPT ![c] = IF @ <= MaxAttempts THEN @ + 1 ELSE @]
          /\ \/ challenge' = [challenge EXCEPT ![c] = row] /\ UNCHANGED broken
             \/ broken' = broken \cup {c} /\ UNCHANGED challenge
          /\ Goes(r, Idle)
          /\ UNCHANGED <<orgs, owners, verif, review, muddled, content>>
      BY <1>5 DEF CountAttempt, Counted, Ends
    <2> HIDE DEF c, n, row
    <2>4. /\ guesses' \in [Challenges -> 0 .. MaxAttempts + 1] /\ n + 1 <= guesses'[c]
          /\ \A x \in Challenges : guesses[x] <= guesses'[x]
      <3>1. guesses \in [Challenges -> 0 .. MaxAttempts + 1] /\ MaxAttempts \in Nat
        BY <1>0, LimitAssumption DEF Rows
      <3> QED
        BY <2>1, <2>3, <3>1
    <2>5. Rows'
      BY <1>0, <2>1, <2>2, <2>3, <2>4 DEF Rows, orgs, owners, content
    <2>6. Rooted(org', verif', challenge', review')
      BY <1>0, <2>1, <2>2, <2>3 DEF Typed, Rooted, Rows, orgs
    <2>7. \A x \in Challenges : challenge'[x].n <= guesses'[x]
      <3>1. \A x \in Challenges : challenge[x].n \in Nat /\ guesses[x] \in Nat /\ guesses'[x] \in Nat
        BY <1>0, <2>4, LimitAssumption DEF Challenge
      <3>2. \A x \in Challenges : challenge[x].n <= guesses'[x]
        BY <1>0, <2>4, <3>1
      <3> QED
        BY <1>0, <2>1, <2>2, <2>3, <2>4, <3>1, <3>2 DEF Rows
    <2>8. Grows
      BY <1>0, <2>1, <2>2, <2>3, <2>4 DEF Grows, Rows, orgs
    <2> QED
      BY <2>3, <2>5, <2>6, <2>7, <2>8, SaneIdle, TypedBy
  <1>6. ASSUME NEW r \in Requests, Consume(r) PROVE Typed'
    <2> DEFINE c == req[r].on
               row == [challenge[c] EXCEPT !.state = "used"]
               q == [pc |-> "record", on |-> c, k |-> req[r].k]
    <2>1. c \in Challenges /\ req[r].k \in Keys /\ challenge[c].state # "none"
          /\ [req[r] EXCEPT !.pc = "record"] = q
      BY <1>0, <1>6, ReqIs DEF Consume, At, Sane, CodePcs
    <2>2. row \in Challenge /\ row.state # "none" /\ Asks(row, org) /\ row.n = challenge[c].n
      BY <1>0, <2>1 DEF Challenge, Asks
    <2>3. /\ challenge' = [challenge EXCEPT ![c] = row] \/ challenge' = challenge
          /\ Goes(r, q)
          /\ UNCHANGED <<orgs, owners, verif, review, muddled, broken, guesses, content>>
      BY <1>6, <2>1 DEF Consume
    <2>4. q \in Req /\ q.pc = "record" /\ q.on = c
      BY <2>1, ReqMade
    <2> HIDE DEF c, row, q
    <2>5. Rows'
      BY <1>0, <2>1, <2>2, <2>3 DEF Rows, orgs, owners, content
    <2>6. Rooted(org', verif', challenge', review')
      BY <1>0, <2>1, <2>2, <2>3 DEF Typed, Rooted, Rows, orgs
    <2>7. Grows /\ \A x \in Challenges : challenge'[x].n <= guesses'[x]
      <3>1. \A x \in Challenges : guesses[x] <= guesses[x]
        BY <1>0, LimitAssumption
      <3> QED
        BY <1>0, <2>1, <2>2, <2>3, <3>1 DEF Grows, Rows, orgs
    <2>8. Sane(q, org', challenge', review', guesses')
      BY <1>0, <2>1, <2>2, <2>3, <2>4 DEF Sane, CodePcs, ReviewPcs, Rows
    <2> QED
      BY <2>3, <2>4, <2>5, <2>6, <2>7, <2>8, TypedBy
  <1>7. ASSUME NEW r \in Requests, RecordIdentifier(r) PROVE Typed'
    <2> DEFINE c == req[r].on
               o == challenge[c].o
               x == [o |-> o, i |-> challenge[c].i, how |-> "mail", k |-> req[r].k, from |-> None]
    <2>1. /\ c \in Challenges /\ o \in Orgs /\ org[o].live
          /\ x \in Verif /\ x.o = o
      <3>1. c \in Challenges /\ req[r].k \in Keys /\ challenge[c].state # "none"
        BY <1>0, <1>7, ReqIs DEF RecordIdentifier, At, Sane, CodePcs
      <3> QED
        BY <1>0, <3>1 DEF Asks, Verif
    <2>2. /\ verif' = verif \/ verif' = verif \cup {x}
          /\ broken' = broken \/ broken' = broken \cup {c}
          /\ Goes(r, Idle) \/ Goes(r, [pc |-> "promote", o |-> o])
          /\ UNCHANGED <<orgs, owners, challenge, review, muddled, guesses, content>>
      BY <1>7 DEF RecordIdentifier, Ends
    <2>3. [pc |-> "promote", o |-> o] \in Req
          /\ Sane([pc |-> "promote", o |-> o], org, challenge, review, guesses)
      BY <2>1, ReqMade DEF Sane, CodePcs, ReviewPcs
    <2> HIDE DEF c, o, x
    <2>4. Rows'
      BY <1>0, <2>1, <2>2 DEF Rows, orgs, owners, content
    <2>5. Rooted(org', verif', challenge', review')
      BY <1>0, <2>1, <2>2 DEF Typed, Rooted, orgs
    <2>6. Grows /\ \A y \in Challenges : challenge'[y].n <= guesses'[y]
      <3>1. \A y \in Challenges : guesses[y] <= guesses[y]
        BY <1>0, LimitAssumption
      <3> QED
        BY <1>0, <2>2, <3>1 DEF Grows, orgs
    <2> QED
      BY <2>2, <2>3, <2>4, <2>5, <2>6, SaneIdle, TypedBy DEF orgs
  <1> QED
    BY <1>1, <1>2, <1>3, <1>4, <1>5, <1>6, <1>7 DEF MailStep

\* what the requests of a step know of the rows, from the types
LEMMA Known ==
  ASSUME Typed
  PROVE  /\ Rows /\ req \in [Requests -> Req]
         /\ \A x \in Requests : Sane(req[x], org, challenge, review, guesses) /\ req[x] \in Req
         /\ \A v \in Reviews : review[v] \in Review /\ Asks(review[v], org)
         /\ \A c \in Challenges : guesses[c] <= guesses[c]
  <1>1. \A c \in Challenges : guesses[c] \in 0 .. MaxAttempts + 1
    BY DEF Typed, Rows
  <1> QED
    BY <1>1, LimitAssumption DEF Typed, Rows, Rooted

LEMMA HandTyped == Typed /\ HandStep => Typed'
  <1> SUFFICES ASSUME Typed, HandStep PROVE Typed'
    OBVIOUS
  <1>0. /\ Rows /\ \A x \in Requests : Sane(req[x], org, challenge, review, guesses) /\ req[x] \in Req
        /\ \A v \in Reviews : review[v] \in Review /\ Asks(review[v], org)
        /\ \A c \in Challenges : guesses[c] <= guesses[c]
    BY Known
  <1>a. ASSUME NEW r \in Requests, NEW q \in Req, NEW S \in SUBSET (Challenges \cup Reviews),
               Sane(q, org, challenge, review, guesses), Goes(r, q), muddled' = S,
               UNCHANGED <<orgs, owners, verif, challenge, review, broken, guesses, content>>
        PROVE  Typed'
    <2>1. Rows'
      BY <1>0, <1>a DEF Rows, orgs, owners, content
    <2> QED
      BY <1>a, <2>1, Aside DEF orgs
  <1>1. ASSUME NEW r \in Requests, NEW k \in Keys, NEW o \in Orgs, NEW i \in Ids, ManualRead(r, k, o, i)
        PROVE  Typed'
    <2> DEFINE q == IF HasAuthority(k) THEN [pc |-> "byHand", o |-> o, i |-> i, k |-> k]
                                       ELSE [pc |-> "queue", o |-> o, i |-> i]
    <2>1. q \in Req /\ Sane(q, org, challenge, review, guesses)
      BY <1>1, ReqMade DEF Sane, CodePcs, ReviewPcs, ManualRead, HandAdmits
    <2>2. Goes(r, q) /\ UNCHANGED <<orgs, owners, proofs, content>> /\ muddled \in SUBSET (Challenges \cup Reviews)
      BY <1>0, <1>1 DEF ManualRead, Rows
    <2> HIDE DEF q
    <2> QED
      BY <1>a, <2>1, <2>2 DEF proofs
  <1>2. ASSUME NEW r \in Requests, RecordByHand(r) PROVE Typed'
    <2> DEFINE o == req[r].o
               x == [o |-> o, i |-> req[r].i, how |-> "hand", k |-> req[r].k, from |-> None]
    <2>1. o \in Orgs /\ org[o].live /\ x \in Verif /\ x.o = o
      <3>1. o \in Orgs /\ req[r].k \in Keys /\ req[r].i \in Ids /\ org[o].live
        BY <1>0, <1>2, ReqIs DEF RecordByHand, At, Sane
      <3> QED
        BY <1>0, <3>1 DEF Verif
    <2>2. /\ verif' = verif \/ verif' = verif \cup {x}
          /\ Goes(r, Idle) \/ Goes(r, [pc |-> "promote", o |-> o])
          /\ UNCHANGED <<orgs, owners, challenge, review, muddled, broken, guesses, content>>
      BY <1>2 DEF RecordByHand, Ends
    <2>3. [pc |-> "promote", o |-> o] \in Req
          /\ Sane([pc |-> "promote", o |-> o], org, challenge, review, guesses)
      BY <2>1, ReqMade DEF Sane, CodePcs, ReviewPcs
    <2> HIDE DEF o, x
    <2>4. Rows'
      BY <1>0, <2>1, <2>2 DEF Rows, orgs, owners, content
    <2>5. Rooted(org', verif', challenge', review')
      BY <2>1, <2>2 DEF Typed, Rooted, orgs
    <2>6. Grows /\ \A y \in Challenges : challenge'[y].n <= guesses'[y]
      BY <1>0, <2>2 DEF Grows, orgs, Typed
    <2> QED
      BY <2>2, <2>3, <2>4, <2>5, <2>6, SaneIdle, TypedBy DEF orgs
  <1>3. ASSUME NEW r \in Requests, QueueReview(r) PROVE Typed'
    <2> DEFINE row == [state |-> "pending", o |-> req[r].o, i |-> req[r].i]
    <2>1. /\ Goes(r, Idle) /\ req[r].o \in Orgs /\ req[r].i \in Ids /\ org[req[r].o].live
          /\ UNCHANGED <<orgs, owners, verif, challenge, muddled, broken, guesses, content>>
      BY <1>0, <1>3, ReqIs DEF QueueReview, At, Ends, Sane
    <2>2. row \in Review /\ row.state = "pending" /\ Asks(row, org)
      BY <2>1 DEF Review, Asks
    <2>3. review' = review \/ \E v \in Reviews : review' = [review EXCEPT ![v] = row]
      BY <1>3 DEF QueueReview
    <2> HIDE DEF row
    <2>4. Rows'
      BY <1>0, <2>1, <2>2, <2>3 DEF Rows, orgs, owners, content
    <2>5. Rooted(org', verif', challenge', review')
      BY <1>0, <2>1, <2>2, <2>3 DEF Typed, Rooted, Rows, orgs
    <2>6. Grows /\ \A y \in Challenges : challenge'[y].n <= guesses'[y]
      BY <1>0, <2>1, <2>2, <2>3 DEF Grows, Rows, orgs, Typed
    <2> QED
      BY <2>1, <2>4, <2>5, <2>6, SaneIdle, TypedBy
  <1>4. ASSUME NEW r \in Requests, NEW k \in Keys, NEW v \in Reviews, ApproveRead(r, k, v) PROVE Typed'
    <2> DEFINE q == [pc |-> "admit", on |-> v, k |-> k]
    <2>1. q \in Req /\ Sane(q, org, challenge, review, guesses) /\ q.on = v
      BY <1>4, ReqMade DEF Sane, CodePcs, ReviewPcs, ApproveRead, Pending
    <2>2. /\ Goes(r, q) /\ muddled' \in {muddled, muddled \cup {v}}
          /\ UNCHANGED <<orgs, owners, verif, challenge, review, broken, guesses, content>>
      BY <1>4, <2>1 DEF ApproveRead, Opens
    <2>3. muddled' \in SUBSET (Challenges \cup Reviews)
      BY <1>0, <2>2 DEF Rows
    <2> HIDE DEF q
    <2> QED
      BY <1>a, <2>1, <2>2, <2>3
  <1>5. ASSUME NEW r \in Requests, NEW k \in Keys, NEW v \in Reviews, RejectRead(r, k, v) PROVE Typed'
    <2> DEFINE q == [pc |-> "refuse", on |-> v]
    <2>1. q \in Req /\ Sane(q, org, challenge, review, guesses) /\ q.on = v
      BY <1>5, ReqMade DEF Sane, CodePcs, ReviewPcs, RejectRead, Pending
    <2>2. /\ Goes(r, q) /\ muddled' \in {muddled, muddled \cup {v}}
          /\ UNCHANGED <<orgs, owners, verif, challenge, review, broken, guesses, content>>
      BY <1>5, <2>1 DEF RejectRead, Opens
    <2>3. muddled' \in SUBSET (Challenges \cup Reviews)
      BY <1>0, <2>2 DEF Rows
    <2> HIDE DEF q
    <2> QED
      BY <1>a, <2>1, <2>2, <2>3
  <1>6. ASSUME NEW r \in Requests, AdmitReview(r) PROVE Typed'
    <2> DEFINE v == req[r].on
               o == review[v].o
               x == [o |-> o, i |-> review[v].i, how |-> "hand", k |-> req[r].k, from |-> v]
               q == [pc |-> "decide", on |-> v, k |-> req[r].k]
    <2>1. /\ v \in Reviews /\ req[r].k \in Keys /\ review[v].state # "none"
          /\ [req[r] EXCEPT !.pc = "decide"] = q
      BY <1>0, <1>6, ReqIs DEF AdmitReview, At, Sane, ReviewPcs
    <2>2. o \in Orgs /\ org[o].live /\ x \in Verif /\ x.o = o
      BY <1>0, <2>1 DEF Asks, Verif
    <2>3. /\ verif' = verif \/ verif' = verif \cup {x}
          /\ Goes(r, Idle) \/ Goes(r, q)
          /\ UNCHANGED <<orgs, owners, challenge, review, muddled, broken, guesses, content>>
      BY <1>6, <2>1 DEF AdmitReview, Ends
    <2>4. q \in Req /\ Sane(q, org, challenge, review, guesses)
      BY <2>1, ReqMade DEF Sane, CodePcs, ReviewPcs
    <2> HIDE DEF v, o, x, q
    <2>5. Rows'
      BY <1>0, <2>2, <2>3 DEF Rows, orgs, owners, content
    <2>6. Rooted(org', verif', challenge', review')
      BY <2>2, <2>3 DEF Typed, Rooted, orgs
    <2>7. Grows /\ \A y \in Challenges : challenge'[y].n <= guesses'[y]
      BY <1>0, <2>3 DEF Grows, orgs, Typed
    <2> QED
      BY <2>3, <2>4, <2>5, <2>6, <2>7, SaneIdle, TypedBy DEF orgs
  <1>b. ASSUME NEW r \in Requests, NEW v \in Reviews, NEW s \in {"approved", "rejected"}, NEW q \in Req,
               review[v].state # "none", Sane(q, org, challenge, review, guesses), q.pc \notin ReviewPcs,
               Goes(r, q), broken' \in SUBSET (Challenges \cup Reviews \cup Orgs),
               review' \in {review, [review EXCEPT ![v].state = s]},
               UNCHANGED <<orgs, owners, verif, challenge, muddled, guesses, content>>
        PROVE  Typed'
    <2> DEFINE row == [review[v] EXCEPT !.state = s]
    <2>1. row \in Review /\ row.state # "none" /\ Asks(row, org)
      BY <1>0, <1>b DEF Review, Asks
    <2>2. review' = review \/ review' = [review EXCEPT ![v] = row]
      BY <1>b
    <2> HIDE DEF row
    <2>3. Rows'
      BY <1>0, <1>b, <2>1, <2>2 DEF Rows, orgs, owners, content
    <2>4. Rooted(org', verif', challenge', review')
      BY <1>0, <1>b, <2>1, <2>2 DEF Typed, Rooted, Rows, orgs
    <2>5. Grows /\ \A y \in Challenges : challenge'[y].n <= guesses'[y]
      BY <1>0, <1>b, <2>1, <2>2 DEF Grows, Rows, orgs, Typed
    <2>6. Sane(q, org', challenge', review', guesses')
      BY <1>b DEF Sane, orgs
    <2> QED
      BY <1>b, <2>3, <2>4, <2>5, <2>6, TypedBy
  <1>7. ASSUME NEW r \in Requests, DecideReview(r) PROVE Typed'
    <2> DEFINE v == req[r].on
               q == [pc |-> "promote", o |-> review[v].o]
    <2>1. v \in Reviews /\ review[v].state # "none"
      BY <1>0, <1>7, ReqIs DEF DecideReview, At, Sane, ReviewPcs
    <2>2. q \in Req /\ Sane(q, org, challenge, review, guesses) /\ q.pc \notin ReviewPcs
      BY <1>0, <2>1, ReqMade DEF Sane, CodePcs, ReviewPcs, Asks
    <2>3. /\ Goes(r, q) /\ broken' \in {broken, broken \cup {v}}
          /\ review' \in {review, [review EXCEPT ![v].state = "approved"]}
          /\ UNCHANGED <<orgs, owners, verif, challenge, muddled, guesses, content>>
      BY <1>7 DEF DecideReview
    <2> HIDE DEF v, q
    <2>4. broken' \in SUBSET (Challenges \cup Reviews \cup Orgs)
      BY <1>0, <2>1, <2>3 DEF Rows
    <2> QED
      BY <1>b, <2>1, <2>2, <2>3, <2>4
  <1>8. ASSUME NEW r \in Requests, RejectReview(r) PROVE Typed'
    <2> DEFINE v == req[r].on
    <2>1. v \in Reviews /\ review[v].state # "none"
      BY <1>0, <1>8, ReqIs DEF RejectReview, At, Sane, ReviewPcs
    <2>2. /\ Goes(r, Idle) /\ UNCHANGED broken
          /\ review' \in {review, [review EXCEPT ![v].state = "rejected"]}
          /\ UNCHANGED <<orgs, owners, verif, challenge, muddled, guesses, content>>
      BY <1>8 DEF RejectReview, Ends
    <2> HIDE DEF v
    <2>3. broken' \in SUBSET (Challenges \cup Reviews \cup Orgs) /\ Idle.pc \notin ReviewPcs
      BY <1>0, <2>2, ReqMade DEF Rows, ReviewPcs
    <2> QED
      BY <1>b, <2>1, <2>2, <2>3, SaneIdle
  <1> QED
    BY <1>1, <1>2, <1>3, <1>4, <1>5, <1>6, <1>7, <1>8 DEF HandStep

-----------------------------------------------------------------------------
(* The steps that have nothing to do with verification *)

ProofPcs == MailPcs \cup HandPcs

Elsewhere ==
  /\ UNCHANGED proofs
  /\ \A o \in Orgs : org[o].live => org'[o].live /\ org'[o].method = org[o].method
  /\ \A x \in Requests : req'[x] = req[x] \/ {req[x].pc, req'[x].pc} \cap ProofPcs = {}

LEMMA ElsewhereBy ==
  ASSUME Typed, Rows', UNCHANGED proofs,
         \A o \in Orgs : org[o].live => org'[o].live /\ org'[o].method = org[o].method,
         \/ UNCHANGED req
         \/ \E r \in Requests, q \in Req : Goes(r, q) /\ {req[r].pc, q.pc} \cap ProofPcs = {}
  PROVE  Typed' /\ Elsewhere
  <1>1. \A q \in Req : q.pc \notin ProofPcs => Sane(q, org, challenge, review, guesses)
    BY DEF Sane, ProofPcs, MailPcs, HandPcs, CodePcs, ReviewPcs
  <1>2. Typed'
    <2>1. \/ UNCHANGED req
          \/ \E r \in Requests, q \in Req : Goes(r, q) /\ Sane(q, org, challenge, review, guesses)
      BY <1>1
    <2> QED
      BY <2>1, Aside DEF proofs
  <1>3. Elsewhere
    BY DEF Elsewhere, Typed, Goes
  <1> QED
    BY <1>2, <1>3

LEMMA OrgTyped == Typed /\ OrgStep => Typed' /\ Elsewhere
  <1> SUFFICES ASSUME Typed, OrgStep PROVE Typed' /\ Elsewhere
    OBVIOUS
  <1>0. /\ Rows /\ \A x \in Requests : req[x] \in Req
        /\ \A o \in Orgs : org[o] \in Org
    BY Known DEF Rows
  <1> USE DEF ProofPcs, MailPcs, HandPcs, CodePcs, ReviewPcs
  <1>1. ASSUME NEW r \in Requests, LinkInsert(r) PROVE Typed' /\ Elsewhere
    <2>1. req[r].pc = "link" /\ req[r].k \in Keys /\ req[r].o \in Orgs
      BY <1>0, <1>1, ReqIs DEF LinkInsert, At
    <2>2. Rows' /\ Goes(r, Idle) /\ UNCHANGED <<org, proofs>>
      BY <1>0, <1>1, <2>1 DEF LinkInsert, Ends, Rows, owners, proofs, content
    <2> QED
      BY <2>1, <2>2, ReqMade, ElsewhereBy
  <1>2. ASSUME NEW r \in Requests, NEW k \in Keys, NEW m \in Methods, CreateOrg(r, k, m)
        PROVE  Typed' /\ Elsewhere
    <2> PICK o \in Orgs :
          /\ ~org[o].live
          /\ org' = [org EXCEPT ![o] = [Absent EXCEPT !.live = TRUE, !.method = m, !.owner = tenant[k]]]
          /\ Goes(r, [pc |-> "link", k |-> k, o |-> o])
      BY <1>2 DEF CreateOrg
    <2> DEFINE row == [Absent EXCEPT !.live = TRUE, !.method = m, !.owner = tenant[k]]
               q == [pc |-> "link", k |-> k, o |-> o]
    <2>1. row \in Org /\ row.live
      BY <1>0 DEF Rows, Org, Absent
    <2>2. org' = [org EXCEPT ![o] = row] /\ Goes(r, q) /\ req[r].pc = "idle"
          /\ UNCHANGED <<links, owners, proofs, content>>
      BY <1>2 DEF CreateOrg, At
    <2>3. q \in Req /\ q.pc = "link"
      BY ReqMade
    <2> HIDE DEF row, q
    <2>4. Rows' /\ \A x \in Orgs : org[x].live => org'[x] = org[x]
      BY <1>0, <2>1, <2>2 DEF Rows, owners, proofs, content
    <2> QED
      BY <2>2, <2>3, <2>4, ElsewhereBy
  <1>3. ASSUME NEW r \in Requests, NEW k \in Keys, NEW o \in Orgs, LinkRead(r, k, o)
        PROVE  Typed' /\ Elsewhere
    <2> DEFINE q == [pc |-> "link", k |-> k, o |-> o]
    <2>1. q \in Req /\ q.pc = "link"
      BY ReqMade
    <2>2. Rows' /\ Goes(r, q) /\ req[r].pc = "idle" /\ UNCHANGED <<org, proofs>>
      BY <1>0, <1>3 DEF LinkRead, At, Rows, orgs, owners, proofs, content
    <2> HIDE DEF q
    <2> QED
      BY <2>1, <2>2, ElsewhereBy
  <1>4. ASSUME NEW k \in Keys, NEW o \in Orgs, PatchOrg(k, o) PROVE Typed' /\ Elsewhere
    <2> DEFINE row == [org[o] EXCEPT !.commercial = ~@]
    <2>1. row \in Org /\ row.live = org[o].live /\ row.method = org[o].method
      BY <1>0 DEF Org
    <2>2. org' = [org EXCEPT ![o] = row] /\ UNCHANGED <<links, owners, proofs, content, req>>
      BY <1>4 DEF PatchOrg
    <2> HIDE DEF row
    <2>3. Rows'
      BY <1>0, <2>1, <2>2 DEF Rows, owners, proofs, content
    <2>4. \A x \in Orgs : org'[x].live = org[x].live /\ org'[x].method = org[x].method
      BY <1>0, <2>1, <2>2 DEF Rows
    <2> QED
      BY <2>2, <2>3, <2>4, ElsewhereBy
  <1> QED
    BY <1>1, <1>2, <1>3, <1>4 DEF OrgStep

LEMMA AcctMade ==
  ASSUME NEW row \in Acct, NEW w \in Apps \cup {"api", None}, NEW u \in BOOLEAN
  PROVE  /\ [row EXCEPT !.state = "live"] \in Acct
         /\ [row EXCEPT !.claimed = TRUE, !.by = w] \in Acct
         /\ [row EXCEPT !.state = "live", !.claimed = u, !.by = w] \in Acct
         /\ [row EXCEPT !.suspended = u, !.by = w] \in Acct
         /\ [row EXCEPT !.events = u] \in Acct
         /\ [NoAccount EXCEPT !.state = "gone"] \in Acct
  BY DEF Acct, NoAccount

LEMMA ToldTyped ==
  ASSUME claimants \in [Accounts -> SUBSET Apps], NEW a, NEW who, Told(a, who)
  PROVE  claimants' \in [Accounts -> SUBSET Apps]
  BY DEF Told

LEMMA AcctPut ==
  ASSUME acct \in [Accounts -> Acct], NEW a \in Accounts, NEW row \in Acct,
         acct' = [acct EXCEPT ![a] = row]
  PROVE  acct' \in [Accounts -> Acct]
  OBVIOUS

LEMMA AccountTyped == Typed /\ AccountStep => Typed' /\ Elsewhere
  <1> SUFFICES ASSUME Typed, AccountStep PROVE Typed' /\ Elsewhere
    OBVIOUS
  <1>0. /\ Rows /\ \A x \in Requests : req[x] \in Req
        /\ \A a \in Accounts : acct[a] \in Acct
        /\ acct \in [Accounts -> Acct] /\ claimants \in [Accounts -> SUBSET Apps]
    BY Known DEF Rows
  <1> USE DEF ProofPcs, MailPcs, HandPcs, CodePcs, ReviewPcs
  \* a step that keeps the organizations and the tenants
  <1>a. ASSUME acct' \in [Accounts -> Acct], claimants' \in [Accounts -> SUBSET Apps],
               crossed' \in BOOLEAN, UNCHANGED <<orgs, tenant, proofs, content>>,
               \/ UNCHANGED req
               \/ \E r \in Requests, q \in Req : Goes(r, q) /\ {req[r].pc, q.pc} \cap ProofPcs = {}
        PROVE  Typed' /\ Elsewhere
    <2>1. Rows' /\ UNCHANGED <<org, proofs>>
      BY <1>0, <1>a DEF Rows, orgs, proofs, content
    <2> QED
      BY <1>a, <2>1, ElsewhereBy
  <1>1. ASSUME NEW r \in Requests, NEW who \in Apps \cup {None}, AccountRead(r, who) PROVE Typed' /\ Elsewhere
    <2>1. claimants' \in [Accounts -> SUBSET Apps] /\ crossed' \in BOOLEAN /\ req[r].pc = "idle"
          /\ UNCHANGED <<orgs, acct, tenant, proofs, content>>
      BY <1>0, <1>1, ToldTyped DEF AccountRead, Rows, At
    <2>2. UNCHANGED req \/ \E q \in Req : Goes(r, q) /\ q.pc \in ClaimPcs
      <3>1. CASE Goes(r, [pc |-> "make", who |-> who])
        BY <3>1, ReqMade DEF ClaimPcs
      <3>2. ASSUME NEW a \in Live, Goes(r, [pc |-> "claim", a |-> a, who |-> who])
            PROVE  \E q \in Req : Goes(r, q) /\ q.pc \in ClaimPcs
        BY <3>2, ReqMade DEF ClaimPcs, Live
      <3> QED
        BY <1>1, <3>1, <3>2 DEF AccountRead
    <2> QED
      BY <1>0, <1>a, <2>1, <2>2 DEF ClaimPcs
  <1>2. ASSUME NEW r \in Requests, AccountMake(r) PROVE Typed' /\ Elsewhere
    <2>1. req[r].pc = "make" /\ req[r].who \in Apps \cup {None} /\ req[r] = [pc |-> "make", who |-> req[r].who]
          /\ UNCHANGED <<orgs, tenant, claimants, crossed, proofs, content>>
      BY <1>0, <1>2, ReqIs DEF AccountMake, At, ClaimPcs
    <2>2. acct' \in [Accounts -> Acct]
      <3>1. ASSUME NEW a \in Accounts, acct' = [acct EXCEPT ![a].state = "live"] PROVE acct' \in [Accounts -> Acct]
        BY <1>0, <3>1, AcctMade, AcctPut
      <3> QED
        BY <1>0, <1>2, <3>1 DEF AccountMake
    <2>3. \E q \in Req : Goes(r, q) /\ q.pc \in ClaimPcs \cup {"idle"}
      <3>1. CASE Ends(r)
        BY <3>1, ReqMade DEF Ends
      <3>2. CASE Goes(r, [req[r] EXCEPT !.pc = "find"])
        <4>1. [req[r] EXCEPT !.pc = "find"] = [pc |-> "find", who |-> req[r].who]
          BY <2>1
        <4> QED
          BY <2>1, <3>2, <4>1, ReqMade DEF ClaimPcs
      <3>3. ASSUME NEW a \in Accounts, Goes(r, [pc |-> "claim", a |-> a, who |-> req[r].who])
            PROVE  \E q \in Req : Goes(r, q) /\ q.pc \in ClaimPcs \cup {"idle"}
        BY <2>1, <3>3, ReqMade DEF ClaimPcs
      <3> QED
        BY <1>2, <3>1, <3>2, <3>3 DEF AccountMake
    <2> QED
      BY <1>0, <1>a, <2>1, <2>2, <2>3 DEF ClaimPcs, Rows
  <1>3. ASSUME NEW r \in Requests, AccountFind(r) PROVE Typed' /\ Elsewhere
    <2>1. req[r].pc = "find" /\ req[r].who \in Apps \cup {None}
          /\ UNCHANGED <<orgs, acct, tenant, crossed, proofs, content>>
      BY <1>0, <1>3, ReqIs DEF AccountFind, At, ClaimPcs
    <2>2. claimants' \in [Accounts -> SUBSET Apps]
      BY <1>0, <1>3, ToldTyped DEF AccountFind
    <2>3. \E q \in Req : Goes(r, q) /\ q.pc \in {"claim", "idle"}
      <3>1. CASE Ends(r)
        BY <3>1, ReqMade DEF Ends
      <3>2. ASSUME NEW a \in Live, Goes(r, [pc |-> "claim", a |-> a, who |-> req[r].who])
            PROVE  \E q \in Req : Goes(r, q) /\ q.pc \in {"claim", "idle"}
        BY <2>1, <3>2, ReqMade DEF Live
      <3> QED
        BY <1>3, <3>1, <3>2 DEF AccountFind
    <2> QED
      BY <1>0, <1>a, <2>1, <2>2, <2>3 DEF Rows
  <1>4. ASSUME NEW r \in Requests, AccountClaim(r) PROVE Typed' /\ Elsewhere
    <2> DEFINE a == req[r].a
               w == req[r].who
               row == [acct[a] EXCEPT !.claimed = TRUE, !.by = IF w = None THEN "api" ELSE w]
    <2>1. req[r].pc = "claim" /\ w \in Apps \cup {None} /\ a \in Accounts
      BY <1>0, <1>4, ReqIs DEF AccountClaim, At, ClaimPcs
    <2>2. /\ Goes(r, Idle) /\ Told(a, w) /\ crossed' \in BOOLEAN
          /\ acct' \in {acct, [acct EXCEPT ![a] = row]}
          /\ UNCHANGED <<orgs, tenant, proofs, content>>
      BY <1>0, <1>4 DEF AccountClaim, Ends, Rows
    <2>3. acct' \in [Accounts -> Acct]
      <3>1. row \in Acct
        BY <1>0, <2>1, AcctMade
      <3> HIDE DEF a, w, row
      <3> QED
        BY <1>0, <2>1, <2>2, <3>1, AcctPut
    <2>4. claimants' \in [Accounts -> SUBSET Apps]
      BY <1>0, <2>2, ToldTyped
    <2> HIDE DEF a, w, row
    <2> QED
      BY <1>a, <2>1, <2>2, <2>3, <2>4, ReqMade
  <1>5. ASSUME NEW who \in Apps \cup {None}, CreateAccount(who) PROVE Typed' /\ Elsewhere
    <2> PICK a \in Accounts :
          /\ acct' = [acct EXCEPT ![a].state = "live", ![a].claimed = (who # None), ![a].by = who]
          /\ Told(a, who)
      BY <1>5 DEF CreateAccount
    <2> DEFINE row == [acct[a] EXCEPT !.state = "live", !.claimed = (who # None), !.by = who]
    <2>1. row \in Acct
      BY <1>0, AcctMade
    <2>2. acct' = [acct EXCEPT ![a] = row]
      BY <1>0
    <2> HIDE DEF row
    <2>3. acct' \in [Accounts -> Acct] /\ claimants' \in [Accounts -> SUBSET Apps]
      BY <1>0, <2>1, <2>2, AcctPut, ToldTyped
    <2>4. crossed' \in BOOLEAN /\ UNCHANGED <<orgs, tenant, proofs, content, req>>
      BY <1>0, <1>5 DEF CreateAccount, Rows
    <2> QED
      BY <1>a, <2>3, <2>4
  <1>6. ASSUME NEW k \in Keys, NEW a \in Accounts, NEW who \in Apps \cup {None}, NEW u \in BOOLEAN,
               PatchAccount(k, a, who, u)
        PROVE  Typed' /\ Elsewhere
    <2> DEFINE w == IF who = None THEN acct[a].by ELSE who
               row == [acct[a] EXCEPT !.suspended = u, !.by = w]
    <2>1. row \in Acct
      <3>1. w \in Apps \cup {"api", None}
        BY <1>0 DEF Acct
      <3> HIDE DEF w
      <3> QED
        BY <1>0, <3>1, AcctMade
    <2>2. acct' = [acct EXCEPT ![a] = row]
      BY <1>0, <1>6 DEF PatchAccount
    <2> HIDE DEF row
    <2>3. acct' \in [Accounts -> Acct] /\ claimants' \in [Accounts -> SUBSET Apps]
      BY <1>0, <1>6, <2>1, <2>2, AcctPut DEF PatchAccount
    <2>4. crossed' \in BOOLEAN /\ UNCHANGED <<orgs, tenant, proofs, content, req>>
      BY <1>0, <1>6 DEF PatchAccount, Rows
    <2> QED
      BY <1>a, <2>3, <2>4
  <1>7. ASSUME NEW a \in Accounts, EventOf(a) PROVE Typed' /\ Elsewhere
    <2>1. acct' \in [Accounts -> Acct] /\ UNCHANGED <<orgs, tenant, claimants, crossed, proofs, content, req>>
      BY <1>0, <1>7, AcctMade, AcctPut DEF EventOf
    <2> QED
      BY <1>0, <1>a, <2>1 DEF Rows
  <1>8. ASSUME NEW r \in Requests, NEW k \in Keys, NEW a \in Accounts, DeleteRead(r, k, a) PROVE Typed' /\ Elsewhere
    <2>1. /\ Goes(r, [pc |-> "dropEvents", a |-> a]) /\ req[r].pc = "idle"
          /\ UNCHANGED <<orgs, owners, proofs, content>>
      BY <1>8 DEF DeleteRead, At
    <2>2. \E q \in Req : Goes(r, q) /\ q.pc = "dropEvents"
      BY <2>1, ReqMade
    <2> QED
      BY <1>0, <1>a, <2>1, <2>2 DEF owners, Rows
  <1>9. ASSUME NEW r \in Requests, DropEvents(r) PROVE Typed' /\ Elsewhere
    <2>1. req[r].pc = "dropEvents" /\ req[r].a \in Accounts
          /\ [req[r] EXCEPT !.pc = "drop"] = [pc |-> "drop", a |-> req[r].a]
      BY <1>0, <1>9, ReqIs DEF DropEvents, At
    <2>2. \E q \in Req : Goes(r, q) /\ q.pc = "drop"
      BY <1>9, <2>1, ReqMade DEF DropEvents
    <2>3. acct' \in [Accounts -> Acct] /\ UNCHANGED <<orgs, tenant, claimants, crossed, proofs, content>>
      BY <1>0, <1>9, <2>1, AcctMade, AcctPut DEF DropEvents
    <2> QED
      BY <1>0, <1>a, <2>1, <2>2, <2>3 DEF Rows
  <1>10. ASSUME NEW r \in Requests, DropAccount(r) PROVE Typed' /\ Elsewhere
    <2> DEFINE a == req[r].a
    <2>1. req[r].pc = "drop" /\ a \in Accounts /\ Goes(r, Idle)
          /\ UNCHANGED <<links, claimants, crossed, proofs, content>>
      BY <1>0, <1>10, ReqIs DEF DropAccount, At, Ends
    <2>2. acct' \in [Accounts -> Acct]
      BY <1>0, <1>10, <2>1, AcctMade, AcctPut DEF DropAccount
    <2>3. org' \in [Orgs -> Org] /\ \A o \in Orgs : org'[o].live = org[o].live /\ org'[o].method = org[o].method
      <3>1. \A o \in Orgs : [org[o] EXCEPT !.owner = None] \in Org /\ org[o] \in Org
        BY <1>0 DEF Rows, Org
      <3>2. org \in [Orgs -> Org]
        BY <1>0 DEF Rows
      <3>3. \A o \in Orgs : [org[o] EXCEPT !.owner = None].live = org[o].live
                            /\ [org[o] EXCEPT !.owner = None].method = org[o].method
        BY <3>1, <3>2 DEF Org
      <3> QED
        BY <1>10, <3>1, <3>2, <3>3 DEF DropAccount
    <2>4. tenant' \in [Keys -> Accounts \cup {None}]
      BY <1>0, <1>10 DEF DropAccount, Rows
    <2>5. Rows'
      BY <1>0, <2>1, <2>2, <2>3, <2>4 DEF Rows, proofs, content
    <2> QED
      BY <2>1, <2>3, <2>5, ReqMade, ElsewhereBy
  <1> QED
    BY <1>1, <1>2, <1>3, <1>4, <1>5, <1>6, <1>7, <1>8, <1>9, <1>10 DEF AccountStep

LEMMA ContentTyped == Typed /\ ContentStep => Typed' /\ Elsewhere
  <1> SUFFICES ASSUME Typed, ContentStep PROVE Typed' /\ Elsewhere
    OBVIOUS
  <1>0. /\ Rows /\ \A x \in Requests : req[x] \in Req
        /\ \A b \in Broadcasts : bc[b] \in Bcast
    BY Known DEF Rows
  <1> USE DEF ProofPcs, MailPcs, HandPcs, CodePcs, ReviewPcs
  \* a step that keeps what is not content
  <1>a. ASSUME bc' \in [Broadcasts -> Bcast], place' \subseteq Places, curator' \in Orgs \cup {None},
               items' \subseteq Positions \X Items, UNCHANGED <<orgs, owners, proofs>>,
               \/ UNCHANGED req
               \/ \E r \in Requests, q \in Req : Goes(r, q) /\ {req[r].pc, q.pc} \cap ProofPcs = {}
        PROVE  Typed' /\ Elsewhere
    <2>1. Rows' /\ UNCHANGED <<org, proofs>>
      BY <1>0, <1>a DEF Rows, orgs, owners, proofs
    <2> QED
      BY <1>a, <2>1, ElsewhereBy
  <1>1. ASSUME NEW r \in Requests, NEW p \in Places, PlaceRead(r, p) PROVE Typed' /\ Elsewhere
    <2>1. \E q \in Req : Goes(r, q) /\ q.pc = "place"
      BY <1>1, ReqMade DEF PlaceRead
    <2> QED
      BY <1>0, <1>1, <1>a, <2>1 DEF PlaceRead, At, Rows, content
  <1>2. ASSUME NEW r \in Requests, PlaceInsert(r) PROVE Typed' /\ Elsewhere
    <2>1. req[r].pc = "place" /\ req[r].p \in Places
      BY <1>0, <1>2, ReqIs DEF PlaceInsert, At
    <2> QED
      BY <1>0, <1>2, <1>a, <2>1, ReqMade DEF PlaceInsert, Ends, Rows
  <1>3. ASSUME NEW r \in Requests, RetractWrite(r) PROVE Typed' /\ Elsewhere
    <2>1. req[r].pc = "retract" /\ req[r].b \in Broadcasts
      BY <1>0, <1>3, ReqIs DEF RetractWrite, At
    <2>2. [bc[req[r].b] EXCEPT !.state = "retracted"] \in Bcast
      BY <1>0, <2>1 DEF Bcast
    <2>3. bc' \in [Broadcasts -> Bcast]
      BY <1>0, <1>3, <2>1, <2>2 DEF RetractWrite, Rows
    <2> QED
      BY <1>0, <1>3, <1>a, <2>1, <2>3, ReqMade DEF RetractWrite, Ends, Rows
  <1>4. ASSUME NEW k \in Keys, NEW o \in Orgs, NEW b \in Broadcasts, Broadcast(k, o, b)
        PROVE  Typed' /\ Elsewhere
    <2>1. [state |-> "active", o |-> o] \in Bcast
      BY DEF Bcast
    <2>2. bc' \in [Broadcasts -> Bcast]
      BY <1>0, <1>4, <2>1 DEF Broadcast, Rows
    <2> QED
      BY <1>0, <1>4, <1>a, <2>2 DEF Broadcast, Rows
  <1>5. ASSUME NEW b \in Broadcasts, BroadcastExpires(b) PROVE Typed' /\ Elsewhere
    <2>1. [bc[b] EXCEPT !.state = "expired"] \in Bcast
      BY <1>0 DEF Bcast
    <2>2. bc' \in [Broadcasts -> Bcast]
      BY <1>0, <1>5, <2>1 DEF BroadcastExpires, Rows
    <2> QED
      BY <1>0, <1>5, <1>a, <2>2 DEF BroadcastExpires, Rows
  <1>6. ASSUME NEW r \in Requests, NEW k \in Keys, NEW b \in Broadcasts, RetractRead(r, k, b)
        PROVE  Typed' /\ Elsewhere
    <2>1. \E q \in Req : Goes(r, q) /\ q.pc = "retract"
      BY <1>6, ReqMade DEF RetractRead
    <2> QED
      BY <1>0, <1>6, <1>a, <2>1 DEF RetractRead, At, Rows, content
  <1>7. ASSUME NEW k \in Keys, NEW o \in Orgs, CreateList(k, o) PROVE Typed' /\ Elsewhere
    BY <1>0, <1>7, <1>a DEF CreateList, Rows
  <1>8. ASSUME NEW k \in Keys, NEW p \in Positions, NEW x \in Items, AddItem(k, p, x)
        PROVE  Typed' /\ Elsewhere
    BY <1>0, <1>8, <1>a DEF AddItem, Rows
  <1>9. ASSUME NEW k \in Keys, NEW p \in Positions, RemoveItem(k, p) PROVE Typed' /\ Elsewhere
    BY <1>0, <1>9, <1>a DEF RemoveItem, Rows
  <1> QED
    BY <1>1, <1>2, <1>3, <1>4, <1>5, <1>6, <1>7, <1>8, <1>9 DEF ContentStep

LEMMA OwedTyped ==
  ASSUME Typed, NEW r \in Requests
  PROVE  Owed(r) \subseteq Orgs
  <1>1. CASE req[r].pc = "promote"
    BY <1>1, Known, ReqIs DEF Owed, At
  <1>2. CASE req[r].pc = "decide"
    <2>1. req[r].on \in Reviews /\ review[req[r].on].state # "none"
      BY <1>2, Known, ReqIs DEF Sane, ReviewPcs
    <2>2. review[req[r].on].o \in Orgs
      BY <2>1, Known DEF Asks
    <2> QED
      BY <1>2, <2>2 DEF Owed, At
  <1> QED
    BY <1>1, <1>2 DEF Owed, At

LEMMA RestartTyped == Typed /\ Restart => Typed'
  <1> SUFFICES ASSUME Typed, Restart PROVE Typed'
    OBVIOUS
  <1>1. broken' \subseteq Challenges \cup Reviews \cup Orgs
    BY OwedTyped, Known DEF Restart, Rows
  <1>2. Rows'
    BY <1>1, Known DEF Restart, Rows, orgs, owners, content
  <1>3. Rooted(org', verif', challenge', review')
    BY DEF Restart, Typed, orgs
  <1>4. \A x \in Requests : Sane(req'[x], org', challenge', review', guesses')
    BY SaneIdle DEF Restart
  <1>5. req' \in [Requests -> Req] /\ \A c \in Challenges : challenge'[c].n <= guesses'[c]
    BY SaneIdle DEF Restart, Typed
  <1> QED
    BY <1>2, <1>3, <1>4, <1>5 DEF Typed

LEMMA PromoteTyped ==
  ASSUME Typed, NEW r \in Requests, Promote(r)
  PROVE  /\ Typed' /\ req[r].o \in Orgs
         /\ \A o \in Orgs : org'[o].live = org[o].live
         /\ \A o \in Orgs : org[o].method # "seeded" => org'[o].method # "seeded"
         /\ org'[req[r].o].method # "seeded" \/ req[r].o \in broken'
  <1> DEFINE o == req[r].o
             row == [org[o] EXCEPT !.method = IF @ = "seeded" THEN "self_asserted" ELSE @]
  <1>1. o \in Orgs /\ Goes(r, Idle)
        /\ UNCHANGED <<links, owners, verif, challenge, review, muddled, guesses, content>>
    BY Known, ReqIs DEF Promote, At, Ends
  <1>2. row \in Org /\ row.live = org[o].live /\ row.method # "seeded"
    BY <1>1, Known DEF Org, Methods, Rows
  <1>3. \/ org' = [org EXCEPT ![o] = row] /\ UNCHANGED broken
        \/ broken' = broken \cup {o} /\ UNCHANGED org
    BY DEF Promote, Promoted
  <1>4. org \in [Orgs -> Org]
    BY Known DEF Rows
  <1> HIDE DEF o, row
  <1>5. Rows'
    BY <1>1, <1>2, <1>3, Known DEF Rows, owners, content
  <1>6. \A x \in Orgs : org'[x].live = org[x].live
    BY <1>1, <1>2, <1>3, <1>4
  <1>7. Typed'
    BY <1>1, <1>5, <1>6, SaneIdle, Aside
  <1>8. \A x \in Orgs : org[x].method # "seeded" => org'[x].method # "seeded"
    BY <1>1, <1>2, <1>3, <1>4
  <1>9. org'[o].method # "seeded" \/ o \in broken'
    BY <1>1, <1>2, <1>3, <1>4
  <1> QED
    BY <1>1, <1>6, <1>7, <1>8, <1>9 DEF o

LEMMA TypedStep == Typed /\ [Next]_vars => Typed'
  <1> SUFFICES ASSUME Typed, [Next]_vars PROVE Typed'
    OBVIOUS
  <1>1. CASE UNCHANGED vars
    BY <1>1 DEF Typed, Rows, vars, orgs, owners, proofs, content
  <1> QED
    BY <1>1, MailTyped, HandTyped, OrgTyped, AccountTyped, ContentTyped, RestartTyped, PromoteTyped
       DEF Next

\* Every variable keeps its type.
THEOREM Typing == Spec => []TypeOK
  <1>1. Spec => []Typed
    BY InitTyped, TypedStep, PTL DEF Spec
  <1> QED
    BY <1>1, TypedIs, PTL

-----------------------------------------------------------------------------
(* Challenges *)

\* the requests that confirm a challenge
Tries(c) == {r \in Requests : req[r].pc \in CodePcs /\ req[r].on = c}

\* with the types, AttemptsBounded is inductive
Tallied ==
  \A c \in Challenges :
    /\ challenge[c].state = "none" => guesses[c] = 0
    /\ c \notin muddled \cup broken =>
         /\ guesses[c] = challenge[c].n /\ guesses[c] <= MaxAttempts
         /\ \A r, s \in Tries(c) : r = s
         /\ \A r \in Tries(c) : req[r].pc = "attempt" => req[r].n = challenge[c].n

\* and so is SpentIsVerified
VerifiedBy(vs, row) == \E x \in vs : x.o = row.o /\ (x.i = row.i \/ x.how = "mail")
Spent ==
  \A c \in Challenges \ broken :
    challenge[c].state = "used" =>
      \/ \E r \in Requests : req[r].pc = "record" /\ req[r].on = c
      \/ VerifiedBy(verif, challenge[c])

\* steps that challenges do not notice
CodeStill ==
  /\ UNCHANGED <<challenge, guesses>>
  /\ verif \subseteq verif' /\ muddled \subseteq muddled' /\ broken \subseteq broken'
  /\ \A x \in Requests : req'[x] = req[x] \/ {req[x].pc, req'[x].pc} \cap CodePcs = {}

LEMMA CodeStillKeeps == Tallied /\ Spent /\ CodeStill => Tallied' /\ Spent'
  <1> SUFFICES ASSUME Tallied, Spent, CodeStill PROVE Tallied' /\ Spent'
    OBVIOUS
  <1>1. Tallied'
    BY DEF Tallied, CodeStill, Tries
  <1>2. Spent'
    BY DEF Spent, CodeStill, VerifiedBy, CodePcs
  <1> QED
    BY <1>1, <1>2

LEMMA Put ==
  ASSUME Typed, NEW r \in Requests, NEW q, Goes(r, q)
  PROVE  req'[r] = q /\ \A x \in Requests : x # r => req'[x] = req[x]
  BY DEF Goes, Typed

LEMMA HandStill == Typed /\ HandStep => CodeStill
  <1> SUFFICES ASSUME Typed, HandStep PROVE CodeStill
    OBVIOUS
  <1>0. \A x \in Requests : req[x] \in Req
    BY Known
  <1>a. ASSUME NEW r \in Requests, NEW q, Goes(r, q), {req[r].pc, q.pc} \cap CodePcs = {},
               UNCHANGED <<challenge, guesses>>, verif \subseteq verif', muddled \subseteq muddled',
               broken \subseteq broken'
        PROVE  CodeStill
    BY <1>a, Put DEF CodeStill
  <1> USE DEF CodePcs, At
  <1>1. ASSUME NEW r \in Requests, NEW k \in Keys, NEW o \in Orgs, NEW i \in Ids, ManualRead(r, k, o, i)
        PROVE  CodeStill
    BY <1>1, <1>a DEF ManualRead, proofs
  <1>2. ASSUME NEW r \in Requests, RecordByHand(r) PROVE CodeStill
    BY <1>2, <1>a, ReqMade DEF RecordByHand, Ends
  <1>3. ASSUME NEW r \in Requests, QueueReview(r) PROVE CodeStill
    BY <1>3, <1>a, ReqMade DEF QueueReview, Ends
  <1>4. ASSUME NEW r \in Requests, NEW k \in Keys, NEW v \in Reviews,
               ApproveRead(r, k, v) \/ RejectRead(r, k, v)
        PROVE  CodeStill
    BY <1>4, <1>a DEF ApproveRead, RejectRead, Opens
  <1>5. ASSUME NEW r \in Requests, AdmitReview(r) PROVE CodeStill
    <2>1. req[r].pc = "admit" /\ [req[r] EXCEPT !.pc = "decide"].pc = "decide"
      BY <1>0, <1>5, ReqIs DEF AdmitReview
    <2> QED
      BY <1>5, <1>a, <2>1, ReqMade DEF AdmitReview, Ends
  <1>6. ASSUME NEW r \in Requests, DecideReview(r) PROVE CodeStill
    BY <1>6, <1>a DEF DecideReview
  <1>7. ASSUME NEW r \in Requests, RejectReview(r) PROVE CodeStill
    BY <1>7, <1>a, ReqMade DEF RejectReview, Ends
  <1> QED
    BY <1>1, <1>2, <1>3, <1>4, <1>5, <1>6, <1>7 DEF HandStep

LEMMA ElsewhereStill == Elsewhere => CodeStill
  BY DEF Elsewhere, CodeStill, proofs, ProofPcs, MailPcs

LEMMA PromoteStill ==
  ASSUME Typed, NEW r \in Requests, Promote(r)
  PROVE  CodeStill
  <1>1. req'[r] = Idle /\ \A x \in Requests : x # r => req'[x] = req[x]
    BY Put DEF Promote, Ends
  <1> QED
    BY <1>1, ReqMade DEF Promote, CodeStill, At, CodePcs

LEMMA MailSpent == Typed /\ Tallied /\ Spent /\ MailStep => Tallied' /\ Spent'
  <1> SUFFICES ASSUME Typed, Tallied, Spent, MailStep PROVE Tallied' /\ Spent'
    OBVIOUS
  <1>0. /\ \A x \in Requests : req[x] \in Req /\ Sane(req[x], org, challenge, review, guesses)
        /\ challenge \in [Challenges -> Challenge]
        /\ guesses \in [Challenges -> 0 .. MaxAttempts + 1] /\ MaxAttempts \in Nat
        /\ \A c \in Challenges : challenge[c].n \in Nat /\ guesses[c] \in Nat
    BY Known, LimitAssumption DEF Rows, Challenge
  <1>1. ASSUME NEW r \in Requests, NEW o \in Orgs, NEW i \in Ids, ChallengeRead(r, o, i)
        PROVE  Tallied' /\ Spent'
    <2>1. req[r].pc = "idle" /\ req'[r].pc = "challenge" /\ \A x \in Requests : x # r => req'[x] = req[x]
      BY <1>1, Put DEF ChallengeRead, At
    <2> QED
      BY <1>1, <2>1, CodeStillKeeps DEF ChallengeRead, CodeStill, CodePcs, proofs
  <1>2. ASSUME NEW r \in Requests, ChallengeInsert(r) PROVE Tallied' /\ Spent'
    <2>1. /\ req[r].pc = "challenge" /\ req'[r] = Idle /\ \A x \in Requests : x # r => req'[x] = req[x]
          /\ UNCHANGED <<verif, muddled, broken, guesses>>
      BY <1>2, Put DEF ChallengeInsert, At, Ends
    <2>2. \A c \in Challenges : Tries(c)' = Tries(c) /\ \A x \in Tries(c) : req'[x] = req[x]
      BY <2>1, ReqMade DEF Tries, CodePcs
    <2>3. CASE UNCHANGED challenge
      BY <2>1, <2>3, ReqMade, CodeStillKeeps DEF CodeStill, CodePcs
    <2>4. ASSUME NEW c \in Challenges, challenge[c].state = "none",
                 challenge' = [challenge EXCEPT ![c] = [state |-> "open", o |-> req[r].o,
                                                        i |-> req[r].i, n |-> 0]]
          PROVE  Tallied' /\ Spent'
      <3>1. /\ challenge'[c].state = "open" /\ challenge'[c].n = 0
            /\ \A x \in Challenges : x # c => challenge'[x] = challenge[x]
        BY <1>0, <2>4
      <3>2. Tries(c) = {}
        BY <1>0, <2>4 DEF Tries, Sane
      <3>3. Tallied'
        BY <1>0, <2>1, <2>2, <2>4, <3>1, <3>2 DEF Tallied
      <3>4. Spent'
        BY <2>1, <2>4, <3>1, ReqMade DEF Spent
      <3> QED
        BY <3>3, <3>4
    <2> QED
      BY <1>2, <2>3, <2>4 DEF ChallengeInsert
  <1>3. ASSUME NEW c \in Challenges, ChallengeExpires(c) PROVE Tallied' /\ Spent'
    <2>1. /\ challenge'[c].state = "stale" /\ challenge'[c].n = challenge[c].n
          /\ challenge[c].state # "none"
          /\ \A x \in Challenges : x # c => challenge'[x] = challenge[x]
          /\ UNCHANGED <<verif, muddled, broken, guesses, req>>
      BY <1>0, <1>3 DEF ChallengeExpires, Challenge
    <2>2. Tallied'
      BY <2>1 DEF Tallied, Tries
    <2>3. Spent'
      BY <2>1 DEF Spent
    <2> QED
      BY <2>2, <2>3
  <1>4. ASSUME NEW r \in Requests, NEW k \in Keys, NEW c \in Challenges, NEW right \in BOOLEAN,
               ConfirmRead(r, k, c, right)
        PROVE  Tallied' /\ Spent'
    <2> DEFINE q == IF right THEN [pc |-> "consume", on |-> c, k |-> k]
                             ELSE [pc |-> "attempt", on |-> c, n |-> challenge[c].n]
    <2>1. /\ req[r].pc = "idle" /\ req'[r] = q /\ \A x \in Requests : x # r => req'[x] = req[x]
          /\ muddled' = IF On(c) = {} THEN muddled ELSE muddled \cup {c}
          /\ UNCHANGED <<verif, challenge, broken, guesses>>
      BY <1>4, Put DEF ConfirmRead, Opens, At
    <2>2. q.on = c /\ q.pc \in {"consume", "attempt"} /\ (q.pc = "attempt" => q.n = challenge[c].n)
      OBVIOUS
    <2> HIDE DEF q
    <2>3. \A x \in Challenges \ {c} : Tries(x)' = Tries(x) /\ \A y \in Tries(x) : req'[y] = req[y]
      BY <2>1, <2>2 DEF Tries, CodePcs
    <2>4. Tries(c)' = Tries(c) \cup {r} /\ (Tries(c) # {} => c \in muddled')
          /\ \A y \in Tries(c) : req'[y] = req[y]
      BY <2>1, <2>2 DEF Tries, On, CodePcs, RowPcs
    <2>5. Tallied'
      BY <2>1, <2>2, <2>3, <2>4 DEF Tallied
    <2>6. Spent'
      BY <2>1 DEF Spent
    <2> QED
      BY <2>5, <2>6
  <1>5. ASSUME NEW r \in Requests, CountAttempt(r) PROVE Tallied' /\ Spent'
    <2> DEFINE c == req[r].on
               n == req[r].n
    <2>1. /\ c \in Challenges /\ n \in Nat /\ n < MaxAttempts /\ n <= guesses[c]
          /\ req[r].pc = "attempt" /\ challenge[c].state # "none"
      BY <1>0, <1>5, ReqIs DEF CountAttempt, At, Sane, CodePcs
    <2>2. /\ req'[r] = Idle /\ \A x \in Requests : x # r => req'[x] = req[x]
          /\ guesses' = [guesses EXCEPT ![c] = IF @ <= MaxAttempts THEN @ + 1 ELSE @]
          /\ \/ challenge' = [challenge EXCEPT ![c].n = n + 1] /\ UNCHANGED broken
             \/ broken' = broken \cup {c} /\ UNCHANGED challenge
          /\ UNCHANGED <<verif, muddled>>
      BY <1>5, Put DEF CountAttempt, Counted, Ends
    <2> HIDE DEF c, n
    <2>3. /\ \A x \in Challenges : challenge'[x].state = challenge[x].state
                                   /\ VerifiedBy(verif, challenge[x]) = VerifiedBy(verif', challenge'[x])
          /\ \A x \in Challenges \ {c} : challenge'[x] = challenge[x] /\ guesses'[x] = guesses[x]
          /\ c \in broken' \/ challenge'[c].n = n + 1
          /\ broken \subseteq broken'
          /\ guesses[c] <= MaxAttempts => guesses'[c] = guesses[c] + 1
      BY <1>0, <2>1, <2>2 DEF VerifiedBy, Challenge
    <2>4. \A x \in Challenges : Tries(x)' = Tries(x) \ {r} /\ \A y \in Tries(x) \ {r} : req'[y] = req[y]
      BY <2>2, ReqMade DEF Tries, CodePcs
    <2>5. r \in Tries(c)
      BY <2>1 DEF Tries, CodePcs, c
    <2>6. Tallied'
      <3> SUFFICES ASSUME NEW x \in Challenges
                   PROVE  /\ challenge'[x].state = "none" => guesses'[x] = 0
                          /\ x \notin muddled' \cup broken' =>
                               /\ guesses'[x] = challenge'[x].n /\ guesses'[x] <= MaxAttempts
                               /\ \A y, z \in Tries(x)' : y = z
                               /\ \A y \in Tries(x)' : req'[y].pc = "attempt" => req'[y].n = challenge'[x].n
        BY DEF Tallied
      <3>1. CASE x # c
        BY <2>2, <2>3, <2>4, <3>1 DEF Tallied
      <3>2. CASE x = c
        <4>1. challenge'[c].state # "none"
          BY <2>1, <2>3
        <4>2. ASSUME c \notin muddled' \cup broken'
              PROVE  /\ guesses'[c] = challenge'[c].n /\ guesses'[c] <= MaxAttempts
                     /\ Tries(x)' = {}
          <5>1. /\ guesses[c] = challenge[c].n /\ guesses[c] <= MaxAttempts
                /\ n = challenge[c].n /\ \A y, z \in Tries(c) : y = z
            BY <2>1, <2>2, <2>3, <2>5, <4>2 DEF Tallied, n
          <5>2. Tries(x)' = {}
            BY <2>4, <2>5, <3>2, <5>1
          <5> QED
            BY <1>0, <2>1, <2>3, <2>5, <4>2, <5>1, <5>2
        <4> QED
          BY <3>2, <4>1, <4>2
      <3> QED
        BY <3>1, <3>2
    <2>7. Spent'
      <3>1. \A y \in Requests : req[y].pc = "record" => req'[y] = req[y]
        BY <2>1, <2>2
      <3> QED
        BY <2>3, <3>1 DEF Spent
    <2> QED
      BY <2>6, <2>7
  <1>6. ASSUME NEW r \in Requests, Consume(r) PROVE Tallied' /\ Spent'
    <2> DEFINE c == req[r].on
               q == [pc |-> "record", on |-> c, k |-> req[r].k]
    <2>1. c \in Challenges /\ req[r].pc = "consume" /\ challenge[c].state # "none"
          /\ [req[r] EXCEPT !.pc = "record"] = q
      BY <1>0, <1>6, ReqIs DEF Consume, At, Sane, CodePcs
    <2>2. /\ req'[r] = q /\ \A x \in Requests : x # r => req'[x] = req[x]
          /\ challenge' \in {challenge, [challenge EXCEPT ![c].state = "used"]}
          /\ UNCHANGED <<verif, muddled, broken, guesses>>
      BY <1>6, <2>1, Put DEF Consume
    <2>3. q.on = c /\ q.pc = "record"
      OBVIOUS
    <2>4. c = req[r].on
      OBVIOUS
    <2> HIDE DEF c, q
    <2>5. /\ \A x \in Challenges : challenge'[x].n = challenge[x].n
                                   /\ (challenge'[x].state = "none" => challenge[x].state = "none")
          /\ \A x \in Challenges \ {c} : challenge'[x] = challenge[x]
      BY <1>0, <2>1, <2>2 DEF Challenge
    <2>6. \A x \in Challenges : Tries(x)' = Tries(x)
      BY <2>1, <2>2, <2>3, <2>4 DEF Tries, CodePcs
    <2>7. Tallied'
      BY <2>1, <2>2, <2>3, <2>5, <2>6 DEF Tallied, Tries
    <2>8. Spent'
      <3>1. \A y \in Requests : req[y].pc = "record" => req'[y] = req[y]
        BY <2>1, <2>2
      <3> QED
        BY <2>2, <2>3, <2>5, <3>1 DEF Spent
    <2> QED
      BY <2>7, <2>8
  <1>7. ASSUME NEW r \in Requests, RecordIdentifier(r) PROVE Tallied' /\ Spent'
    <2> DEFINE c == req[r].on
               row == challenge[c]
    <2>1. c \in Challenges /\ req[r].pc = "record"
      BY <1>0, <1>7, ReqIs DEF RecordIdentifier, At, CodePcs
    <2>2. /\ req'[r].pc \in {"idle", "promote"} /\ \A x \in Requests : x # r => req'[x] = req[x]
          /\ verif \subseteq verif' /\ broken \subseteq broken'
          /\ VerifiedBy(verif', row) \/ c \in broken'
          /\ UNCHANGED <<challenge, muddled, guesses>>
      <3>1. Goes(r, Idle) \/ Goes(r, [pc |-> "promote", o |-> row.o])
        BY <1>7 DEF RecordIdentifier, Ends
      <3>2. req'[r].pc \in {"idle", "promote"} /\ \A x \in Requests : x # r => req'[x] = req[x]
        BY <3>1, Put, ReqMade
      <3>3. CASE c \in broken' /\ UNCHANGED verif
        BY <1>7, <3>2, <3>3 DEF RecordIdentifier
      <3>4. CASE /\ UNCHANGED broken
                 /\ verif' = verif \cup {[o |-> row.o, i |-> row.i, how |-> "mail", k |-> req[r].k,
                                          from |-> None]}
        <4> DEFINE y == [o |-> row.o, i |-> row.i, how |-> "mail", k |-> req[r].k, from |-> None]
        <4>3. y \in verif' /\ verif \subseteq verif'
          BY <3>4
        <4>4. y.o = row.o /\ y.i = row.i
          OBVIOUS
        <4> HIDE DEF y, row, c
        <4>1. \E z \in verif' : z.o = row.o /\ z.i = row.i
          BY <4>3, <4>4
        <4>2. UNCHANGED <<challenge, muddled, guesses>>
          BY <1>7 DEF RecordIdentifier
        <4> QED
          BY <3>2, <3>4, <4>1, <4>2, <4>3 DEF VerifiedBy
      <3>5. CASE UNCHANGED <<verif, broken>> /\ Taken(row.o, "mail", req[r].k)
        BY <1>7, <3>2, <3>5 DEF RecordIdentifier, VerifiedBy, Taken
      <3> QED
        BY <1>7, <3>3, <3>4, <3>5 DEF RecordIdentifier
    <2>3. \A x \in Challenges : Tries(x)' = Tries(x) \ {r} /\ \A y \in Tries(x) \ {r} : req'[y] = req[y]
      BY <2>2 DEF Tries, CodePcs
    <2>4. Tallied'
      BY <2>2, <2>3 DEF Tallied
    <2>5. Spent'
      <3>1. \A x \in Challenges : VerifiedBy(verif, challenge[x]) => VerifiedBy(verif', challenge'[x])
        BY <2>2 DEF VerifiedBy
      <3> QED
        BY <2>1, <2>2, <3>1 DEF Spent
    <2> QED
      BY <2>4, <2>5
  <1> QED
    BY <1>1, <1>2, <1>3, <1>4, <1>5, <1>6, <1>7 DEF MailStep

LEMMA RestartSpent == Typed /\ Tallied /\ Spent /\ Restart => Tallied' /\ Spent'
  <1> SUFFICES ASSUME Typed, Tallied, Spent, Restart PROVE Tallied' /\ Spent'
    OBVIOUS
  <1>1. /\ \A x \in Requests : req'[x] = Idle
        /\ \A c \in Challenges : On(c) # {} => c \in broken'
        /\ broken \subseteq broken' /\ UNCHANGED <<verif, challenge, muddled, guesses>>
    BY DEF Restart
  <1>2. \A c \in Challenges : Tries(c)' = {}
    BY <1>1, ReqMade DEF Tries, CodePcs
  <1>3. \A c \in Challenges, r \in Requests : req[r].pc = "record" /\ req[r].on = c => c \in broken'
    BY <1>1 DEF On, RowPcs
  <1>4. Tallied'
    BY <1>1, <1>2 DEF Tallied
  <1>5. Spent'
    BY <1>1, <1>3 DEF Spent
  <1> QED
    BY <1>4, <1>5

LEMMA ChallengesKept == Typed /\ Tallied /\ Spent /\ [Next]_vars => Tallied' /\ Spent'
  <1> SUFFICES ASSUME Typed, Tallied, Spent, [Next]_vars PROVE Tallied' /\ Spent'
    OBVIOUS
  <1>1. CASE UNCHANGED vars
    BY <1>1, CodeStillKeeps DEF CodeStill, vars, proofs
  <1> QED
    BY <1>1, MailSpent, HandStill, OrgTyped, AccountTyped, ContentTyped, ElsewhereStill, PromoteStill,
       RestartSpent, CodeStillKeeps DEF Next

LEMMA ChallengesHold == Typed /\ Tallied /\ Spent => ChallengeHolds
  <1> SUFFICES ASSUME Typed, Tallied, Spent PROVE ChallengeHolds
    OBVIOUS
  <1>1. AttemptsBounded
    BY DEF Tallied, AttemptsBounded
  <1>2. SpentIsVerified
    BY DEF Spent, SpentIsVerified, On, RowPcs, VerifiedBy
  <1> QED
    BY <1>1, <1>2 DEF ChallengeHolds

\* However often a challenge is confirmed, by whoever and across restarts, no
\* more wrong codes are answered than the limit and it is spent only for a
\* verification, but for overlaps and losses.
THEOREM Challenges_Hold == Spec => []ChallengeHolds
  <1>1. Init => Tallied /\ Spent
    <2> SUFFICES ASSUME Init PROVE Tallied /\ Spent
      OBVIOUS
    <2>1. \A c \in Challenges : challenge[c].state = "none" /\ challenge[c].n = 0 /\ guesses[c] = 0
      BY DEF Init
    <2>2. \A c \in Challenges : Tries(c) = {}
      BY ReqMade DEF Init, Tries, CodePcs
    <2> QED
      BY <2>1, <2>2, LimitAssumption DEF Tallied, Spent
  <1>2. Spec => [](Typed /\ Tallied /\ Spent)
    BY <1>1, InitTyped, TypedStep, ChallengesKept, PTL DEF Spec
  <1> QED
    BY <1>2, ChallengesHold, PTL

-----------------------------------------------------------------------------
(* Promotions *)

\* what a request owes by the reviews rs
Debt(q, rs) == CASE q.pc = "promote" -> {q.o}
                 [] q.pc = "decide"  -> {rs[q.on].o}
                 [] OTHER            -> {}

LEMMA OwedIs ==
  /\ \A r \in Requests : Owed(r) = Debt(req[r], review)
  /\ \A r \in Requests : Owed(r)' = Debt(req'[r], review')
  BY DEF Owed, Debt, At

LEMMA DebtKept ==
  ASSUME NEW q, NEW rs, NEW ss, q.pc = "decide" => rs[q.on].o = ss[q.on].o
  PROVE  Debt(q, rs) = Debt(q, ss)
  BY DEF Debt

\* a step that pays what a request owes, or passes it on, keeps VerifiedIsPromoted
LEMMA PaidOrOwed ==
  ASSUME Typed, VerifiedIsPromoted,
         \A o \in Orgs : org[o].live /\ org[o].method # "seeded" => org'[o].method # "seeded",
         broken \subseteq broken',
         \A v \in Reviews : review[v].state # "none" => review'[v].o = review[v].o,
         NEW r \in Requests, \A x \in Requests : x # r => req'[x] = req[x],
         \A o \in Debt(req[r], review) :
           org'[o].method # "seeded" \/ o \in broken' \/ o \in Debt(req'[r], review'),
         \A x \in verif' : x \in verif \/ x.o \in Debt(req'[r], review')
  PROVE  VerifiedIsPromoted'
  <1>1. \A y \in Requests : y # r => Debt(req[y], review) \subseteq Debt(req'[y], review')
    <2> SUFFICES ASSUME NEW y \in Requests, y # r PROVE Debt(req[y], review) \subseteq Debt(req'[y], review')
      OBVIOUS
    <2>1. req[y].pc = "decide" => req[y].on \in Reviews /\ review[req[y].on].state # "none"
      BY Known, ReqIs DEF Sane, ReviewPcs
    <2> QED
      BY <2>1, DebtKept
  <1>2. \A x \in verif : x.o \in Orgs /\ org[x.o].live
    BY DEF Typed, Rows, Verif, Rooted
  <1> SUFFICES ASSUME NEW x \in verif'
               PROVE  \/ org'[x.o].method # "seeded" \/ x.o \in broken'
                      \/ \E y \in Requests : x.o \in Debt(req'[y], review')
    BY OwedIs DEF VerifiedIsPromoted
  <1>3. CASE x \in verif
    <2>1. \/ org[x.o].method # "seeded" \/ x.o \in broken
          \/ \E y \in Requests : x.o \in Debt(req[y], review)
      BY <1>3, OwedIs DEF VerifiedIsPromoted
    <2> QED
      BY <1>1, <1>2, <1>3, <2>1
  <1> QED
    BY <1>3

LEMMA MailPromotes == Typed /\ VerifiedIsPromoted /\ MailStep => VerifiedIsPromoted'
  <1> SUFFICES ASSUME Typed, VerifiedIsPromoted, MailStep PROVE VerifiedIsPromoted'
    OBVIOUS
  <1>0. \A x \in Requests : req[x] \in Req
    BY Known
  \* a step that verifies nobody, of a request that owes nothing
  <1>a. ASSUME NEW r \in Requests, \A x \in Requests : x # r => req'[x] = req[x],
               req[r].pc \notin {"promote", "decide"}, UNCHANGED <<org, verif, review>>, broken \subseteq broken'
        PROVE  VerifiedIsPromoted'
    <2>1. Debt(req[r], review) = {}
      BY <1>a DEF Debt
    <2> QED
      BY <1>a, <2>1, PaidOrOwed
  <1>1. ASSUME NEW r \in Requests, NEW o \in Orgs, NEW i \in Ids, ChallengeRead(r, o, i)
        PROVE  VerifiedIsPromoted'
    BY <1>1, <1>a, Put DEF ChallengeRead, At, orgs, proofs
  <1>2. ASSUME NEW r \in Requests, ChallengeInsert(r) PROVE VerifiedIsPromoted'
    BY <1>2, <1>a, Put DEF ChallengeInsert, Ends, At, orgs
  <1>3. ASSUME NEW c \in Challenges, ChallengeExpires(c) PROVE VerifiedIsPromoted'
    BY <1>3, OwedIs DEF ChallengeExpires, VerifiedIsPromoted, orgs
  <1>4. ASSUME NEW r \in Requests, NEW k \in Keys, NEW c \in Challenges, NEW right \in BOOLEAN,
               ConfirmRead(r, k, c, right)
        PROVE  VerifiedIsPromoted'
    BY <1>4, <1>a, Put DEF ConfirmRead, Opens, At, orgs
  <1>5. ASSUME NEW r \in Requests, CountAttempt(r) PROVE VerifiedIsPromoted'
    BY <1>5, <1>a, Put DEF CountAttempt, Ends, At, orgs
  <1>6. ASSUME NEW r \in Requests, Consume(r) PROVE VerifiedIsPromoted'
    BY <1>6, <1>a, Put DEF Consume, At, orgs
  <1>7. ASSUME NEW r \in Requests, RecordIdentifier(r) PROVE VerifiedIsPromoted'
    <2> DEFINE o == challenge[req[r].on].o
               x == [o |-> o, i |-> challenge[req[r].on].i, how |-> "mail", k |-> req[r].k, from |-> None]
    <2>1. req[r].pc = "record" /\ x.o = o
          /\ \A y \in Requests : y # r => req'[y] = req[y]
      BY <1>7, Put DEF RecordIdentifier, At, Ends
    <2>2. CASE UNCHANGED verif
      BY <1>7, <1>a, <2>1, <2>2 DEF RecordIdentifier, orgs
    <2>3. CASE verif' = verif \cup {x} /\ req'[r] = [pc |-> "promote", o |-> o]
      <3>1. Debt(req[r], review) = {} /\ Debt(req'[r], review') = {o}
        BY <2>1, <2>3 DEF Debt
      <3>2. UNCHANGED <<org, review>> /\ broken \subseteq broken'
        BY <1>7 DEF RecordIdentifier, orgs
      <3> HIDE DEF o, x
      <3> QED
        BY <2>1, <2>3, <3>1, <3>2, PaidOrOwed
    <2> QED
      BY <1>7, <2>2, <2>3, Put DEF RecordIdentifier
  <1> QED
    BY <1>1, <1>2, <1>3, <1>4, <1>5, <1>6, <1>7 DEF MailStep

LEMMA HandPromotes == Typed /\ VerifiedIsPromoted /\ HandStep => VerifiedIsPromoted'
  <1> SUFFICES ASSUME Typed, VerifiedIsPromoted, HandStep PROVE VerifiedIsPromoted'
    OBVIOUS
  <1>0. \A x \in Requests : req[x] \in Req /\ Sane(req[x], org, challenge, review, guesses)
    BY Known
  <1>a. ASSUME NEW r \in Requests, \A x \in Requests : x # r => req'[x] = req[x],
               req[r].pc \notin {"promote", "decide"}, UNCHANGED <<org, verif>>, broken \subseteq broken',
               \A v \in Reviews : review[v].state # "none" => review'[v].o = review[v].o
        PROVE  VerifiedIsPromoted'
    <2>1. Debt(req[r], review) = {}
      BY <1>a DEF Debt
    <2> QED
      BY <1>a, <2>1, PaidOrOwed
  <1>b. ASSUME NEW v \in Reviews, NEW s,
               review' \in {review, [review EXCEPT ![v].state = s]}
        PROVE  \A w \in Reviews : review'[w].o = review[w].o
    BY <1>b, Known DEF Rows, Review
  <1>1. ASSUME NEW r \in Requests, NEW k \in Keys, NEW o \in Orgs, NEW i \in Ids, ManualRead(r, k, o, i)
        PROVE  VerifiedIsPromoted'
    BY <1>1, <1>a, Put DEF ManualRead, At, orgs, proofs
  <1>2. ASSUME NEW r \in Requests, RecordByHand(r) PROVE VerifiedIsPromoted'
    <2> DEFINE o == req[r].o
               x == [o |-> o, i |-> req[r].i, how |-> "hand", k |-> req[r].k, from |-> None]
    <2>1. req[r].pc = "byHand" /\ x.o = o /\ UNCHANGED <<org, review, broken>>
          /\ \A y \in Requests : y # r => req'[y] = req[y]
      BY <1>2, Put DEF RecordByHand, At, Ends, orgs
    <2>2. CASE UNCHANGED verif
      BY <1>a, <2>1, <2>2
    <2>3. CASE verif' = verif \cup {x} /\ req'[r] = [pc |-> "promote", o |-> o]
      <3>1. Debt(req[r], review) = {} /\ Debt(req'[r], review') = {o}
        BY <2>1, <2>3 DEF Debt
      <3> HIDE DEF o, x
      <3> QED
        BY <2>1, <2>3, <3>1, PaidOrOwed
    <2> QED
      BY <1>2, <2>2, <2>3, Put DEF RecordByHand
  <1>3. ASSUME NEW r \in Requests, QueueReview(r) PROVE VerifiedIsPromoted'
    <2>1. \A v \in Reviews : review[v].state # "none" => review'[v].o = review[v].o
      BY <1>3, Known DEF QueueReview, Rows
    <2> QED
      BY <1>3, <1>a, <2>1, Put DEF QueueReview, At, Ends, orgs
  <1>4. ASSUME NEW r \in Requests, NEW k \in Keys, NEW v \in Reviews,
               ApproveRead(r, k, v) \/ RejectRead(r, k, v)
        PROVE  VerifiedIsPromoted'
    BY <1>4, <1>a, Put DEF ApproveRead, RejectRead, Opens, At, orgs
  <1>5. ASSUME NEW r \in Requests, AdmitReview(r) PROVE VerifiedIsPromoted'
    <2> DEFINE v == req[r].on
               o == review[v].o
               x == [o |-> o, i |-> review[v].i, how |-> "hand", k |-> req[r].k, from |-> v]
    <2>1. req[r].pc = "admit" /\ x.o = o /\ UNCHANGED <<org, review, broken>>
          /\ \A y \in Requests : y # r => req'[y] = req[y]
      BY <1>5, Put DEF AdmitReview, At, Ends, orgs
    <2>2. CASE UNCHANGED verif
      BY <1>a, <2>1, <2>2
    <2>3. CASE verif' = verif \cup {x} /\ req'[r] = [req[r] EXCEPT !.pc = "decide"]
      <3>1. [req[r] EXCEPT !.pc = "decide"] = [pc |-> "decide", on |-> v, k |-> req[r].k]
        BY <1>0, <2>1, ReqIs
      <3>2. Debt(req[r], review) = {} /\ Debt(req'[r], review') = {o}
        BY <2>1, <2>3, <3>1 DEF Debt
      <3> HIDE DEF v, o, x
      <3> QED
        BY <2>1, <2>3, <3>2, PaidOrOwed
    <2> QED
      BY <1>5, <2>2, <2>3, Put DEF AdmitReview
  <1>6. ASSUME NEW r \in Requests, DecideReview(r) PROVE VerifiedIsPromoted'
    <2> DEFINE v == req[r].on
    <2>1. /\ req[r].pc = "decide" /\ v \in Reviews
          /\ req'[r] = [pc |-> "promote", o |-> review[v].o]
          /\ \A y \in Requests : y # r => req'[y] = req[y]
      BY <1>0, <1>6, ReqIs, Put DEF DecideReview, At, ReviewPcs
    <2>2. /\ UNCHANGED <<org, verif>> /\ broken \subseteq broken'
          /\ review' \in {review, [review EXCEPT ![v].state = "approved"]}
      BY <1>6 DEF DecideReview, orgs
    <2>3. Debt(req[r], review) = {review[v].o} /\ Debt(req'[r], review') = {review[v].o}
      BY <2>1 DEF Debt
    <2> HIDE DEF v
    <2> QED
      BY <1>b, <2>1, <2>2, <2>3, PaidOrOwed
  <1>7. ASSUME NEW r \in Requests, RejectReview(r) PROVE VerifiedIsPromoted'
    <2> DEFINE v == req[r].on
    <2>1. /\ req[r].pc = "refuse" /\ v \in Reviews
          /\ \A y \in Requests : y # r => req'[y] = req[y]
      BY <1>0, <1>7, ReqIs, Put DEF RejectReview, At, ReviewPcs, Ends
    <2>2. /\ UNCHANGED <<org, verif, broken>>
          /\ review' \in {review, [review EXCEPT ![v].state = "rejected"]}
      BY <1>7 DEF RejectReview, orgs
    <2> HIDE DEF v
    <2> QED
      BY <1>a, <1>b, <2>1, <2>2
  <1> QED
    BY <1>1, <1>2, <1>3, <1>4, <1>5, <1>6, <1>7 DEF HandStep

LEMMA ElsewherePromotes == Typed /\ VerifiedIsPromoted /\ Elsewhere => VerifiedIsPromoted'
  <1> SUFFICES ASSUME Typed, VerifiedIsPromoted, Elsewhere PROVE VerifiedIsPromoted'
    OBVIOUS
  <1>1. \A r \in Requests : Debt(req[r], review) \subseteq Debt(req'[r], review')
    BY DEF Elsewhere, Debt, ProofPcs, MailPcs, HandPcs, ReviewPcs, proofs
  <1>2. \A x \in verif : x.o \in Orgs /\ org[x.o].live
    BY DEF Typed, Rows, Verif, Rooted
  <1> QED
    BY <1>1, <1>2, OwedIs DEF VerifiedIsPromoted, Elsewhere, proofs

LEMMA PromotionKept == Typed /\ VerifiedIsPromoted /\ [Next]_vars => VerifiedIsPromoted'
  <1> SUFFICES ASSUME Typed, VerifiedIsPromoted, [Next]_vars PROVE VerifiedIsPromoted'
    OBVIOUS
  <1>1. CASE UNCHANGED vars
    BY <1>1, OwedIs DEF VerifiedIsPromoted, vars, orgs, proofs
  <1>2. CASE Restart
    BY <1>2, Known DEF Restart, VerifiedIsPromoted, orgs
  <1>3. ASSUME NEW r \in Requests, Promote(r) PROVE VerifiedIsPromoted'
    <2>1. /\ req[r].pc = "promote" /\ \A x \in Requests : x # r => req'[x] = req[x]
          /\ broken \subseteq broken' /\ UNCHANGED <<verif, review>>
      BY <1>3, Put DEF Promote, At, Ends
    <2>2. \A o \in Debt(req[r], review) : org'[o].method # "seeded" \/ o \in broken'
      BY <1>3, <2>1, PromoteTyped DEF Debt
    <2> QED
      BY <1>3, <2>1, <2>2, PromoteTyped, PaidOrOwed
  <1> QED
    BY <1>1, <1>2, <1>3, MailPromotes, HandPromotes, OrgTyped, AccountTyped, ContentTyped,
       ElsewherePromotes DEF Next

\* A verified organization does not stay a seeded one, but for the requests still
\* under way and the promotions that were lost.
THEOREM Verified_Promoted == Spec => []VerifiedIsPromoted
  <1>1. Init => VerifiedIsPromoted
    BY DEF Init, VerifiedIsPromoted
  <1>2. Spec => [](Typed /\ VerifiedIsPromoted)
    BY <1>1, InitTyped, TypedStep, PromotionKept, PTL DEF Spec
  <1> QED
    BY <1>2, PTL

-----------------------------------------------------------------------------
(* Reviews *)

\* the requests that decide a review, and whether it verified its organization
Rulings(v)       == {r \in Requests : req[r].pc \in ReviewPcs /\ req[r].on = v}
Admitting(vs, v) == \E x \in vs : x.from = v

\* with the types, ReviewsAgree is inductive
Decided ==
  \A v \in Reviews \ (muddled \cup broken) :
    /\ \A r, s \in Rulings(v) : r = s
    /\ Rulings(v) = {} => (review[v].state = "approved" <=> Admitting(verif, v))
    /\ \A r \in Rulings(v) :
         review[v].state = "pending" /\ (req[r].pc = "decide" <=> Admitting(verif, v))

\* steps that reviews do not notice
ReviewStill ==
  /\ UNCHANGED review /\ muddled \subseteq muddled' /\ broken \subseteq broken'
  /\ \A v \in Reviews : Admitting(verif', v) <=> Admitting(verif, v)
  /\ \A x \in Requests : req'[x] = req[x] \/ {req[x].pc, req'[x].pc} \cap ReviewPcs = {}

LEMMA ReviewStillKeeps == Decided /\ ReviewStill => Decided'
  <1> SUFFICES ASSUME Decided, ReviewStill PROVE Decided'
    OBVIOUS
  <1>1. \A v \in Reviews : Rulings(v)' = Rulings(v) /\ \A r \in Rulings(v) : req'[r] = req[r]
    BY DEF Rulings, ReviewStill
  <1> QED
    BY <1>1 DEF Decided, ReviewStill

LEMMA MailUnreviewed == Typed /\ MailStep => ReviewStill
  <1> SUFFICES ASSUME Typed, MailStep PROVE ReviewStill
    OBVIOUS
  <1>0. \A x \in Requests : req[x] \in Req
    BY Known
  <1>a. ASSUME NEW r \in Requests, NEW q, Goes(r, q), {req[r].pc, q.pc} \cap ReviewPcs = {},
               UNCHANGED <<review, verif>>, muddled \subseteq muddled', broken \subseteq broken'
        PROVE  ReviewStill
    BY <1>a, Put DEF ReviewStill
  <1> USE DEF ReviewPcs, At
  <1>1. ASSUME NEW r \in Requests, NEW o \in Orgs, NEW i \in Ids, ChallengeRead(r, o, i)
        PROVE  ReviewStill
    BY <1>1, <1>a DEF ChallengeRead, proofs
  <1>2. ASSUME NEW r \in Requests, ChallengeInsert(r) PROVE ReviewStill
    BY <1>2, <1>a, ReqMade DEF ChallengeInsert, Ends
  <1>3. ASSUME NEW c \in Challenges, ChallengeExpires(c) PROVE ReviewStill
    BY <1>3 DEF ChallengeExpires, ReviewStill
  <1>4. ASSUME NEW r \in Requests, NEW k \in Keys, NEW c \in Challenges, NEW right \in BOOLEAN,
               ConfirmRead(r, k, c, right)
        PROVE  ReviewStill
    BY <1>4, <1>a DEF ConfirmRead, Opens
  <1>5. ASSUME NEW r \in Requests, CountAttempt(r) PROVE ReviewStill
    BY <1>5, <1>a, ReqMade DEF CountAttempt, Ends
  <1>6. ASSUME NEW r \in Requests, Consume(r) PROVE ReviewStill
    <2>1. req[r].pc = "consume" /\ [req[r] EXCEPT !.pc = "record"].pc = "record"
      BY <1>0, <1>6, ReqIs DEF Consume
    <2> QED
      BY <1>6, <1>a, <2>1 DEF Consume
  <1>7. ASSUME NEW r \in Requests, RecordIdentifier(r) PROVE ReviewStill
    <2>1. /\ req[r].pc = "record" /\ muddled' = muddled /\ broken \subseteq broken' /\ UNCHANGED review
          /\ Goes(r, Idle) \/ Goes(r, [pc |-> "promote", o |-> challenge[req[r].on].o])
      BY <1>7 DEF RecordIdentifier, Ends
    <2>2. /\ req'[r].pc \in {"idle", "promote"} /\ \A x \in Requests : x # r => req'[x] = req[x]
      BY <2>1, Put, ReqMade
    <2>3. \A v \in Reviews : Admitting(verif', v) <=> Admitting(verif, v)
      <3>1. verif \subseteq verif' /\ \A x \in verif' : x \in verif \/ x.from = None
        BY <1>7 DEF RecordIdentifier
      <3> QED
        BY <3>1, NoneAssumption DEF Admitting
    <2> QED
      BY <2>1, <2>2, <2>3 DEF ReviewStill
  <1> QED
    BY <1>1, <1>2, <1>3, <1>4, <1>5, <1>6, <1>7 DEF MailStep

LEMMA HandDecides == Typed /\ Decided /\ HandStep => Decided'
  <1> SUFFICES ASSUME Typed, Decided, HandStep PROVE Decided'
    OBVIOUS
  <1>0. /\ \A x \in Requests : req[x] \in Req /\ Sane(req[x], org, challenge, review, guesses)
        /\ review \in [Reviews -> Review]
    BY Known DEF Rows
  <1> USE DEF At
  <1>1. ASSUME NEW r \in Requests, NEW k \in Keys, NEW o \in Orgs, NEW i \in Ids, ManualRead(r, k, o, i)
        PROVE  Decided'
    <2>1. req[r].pc = "idle" /\ req'[r].pc \in {"byHand", "queue"}
          /\ \A x \in Requests : x # r => req'[x] = req[x]
      BY <1>1, Put DEF ManualRead
    <2> QED
      BY <1>1, <2>1, ReviewStillKeeps DEF ManualRead, ReviewStill, proofs, ReviewPcs
  <1>2. ASSUME NEW r \in Requests, RecordByHand(r) PROVE Decided'
    <2>1. /\ req[r].pc = "byHand" /\ UNCHANGED <<review, muddled, broken>>
          /\ Goes(r, Idle) \/ Goes(r, [pc |-> "promote", o |-> req[r].o])
      BY <1>2 DEF RecordByHand, Ends
    <2>2. req'[r].pc \in {"idle", "promote"} /\ \A x \in Requests : x # r => req'[x] = req[x]
      BY <2>1, Put, ReqMade
    <2>3. \A v \in Reviews : Admitting(verif', v) <=> Admitting(verif, v)
      <3>1. verif \subseteq verif' /\ \A x \in verif' : x \in verif \/ x.from = None
        BY <1>2 DEF RecordByHand
      <3> QED
        BY <3>1, NoneAssumption DEF Admitting
    <2> QED
      BY <2>1, <2>2, <2>3, ReviewStillKeeps DEF ReviewStill, ReviewPcs
  <1>3. ASSUME NEW r \in Requests, QueueReview(r) PROVE Decided'
    <2>1. /\ req[r].pc = "queue" /\ req'[r] = Idle /\ \A x \in Requests : x # r => req'[x] = req[x]
          /\ UNCHANGED <<verif, muddled, broken>>
      BY <1>3, Put DEF QueueReview, Ends
    <2>2. \A v \in Reviews : Rulings(v)' = Rulings(v) /\ \A x \in Rulings(v) : req'[x] = req[x]
      BY <2>1, ReqMade DEF Rulings, ReviewPcs
    <2>3. \A v \in Reviews : \/ review'[v] = review[v]
                             \/ review[v].state = "none" /\ review'[v].state = "pending"
      BY <1>0, <1>3 DEF QueueReview
    <2>4. \A v \in Reviews : review[v].state = "none" => Rulings(v) = {}
      BY <1>0 DEF Rulings, Sane
    <2> QED
      BY <2>1, <2>2, <2>3, <2>4 DEF Decided
  <1>4. ASSUME NEW r \in Requests, NEW k \in Keys, NEW v \in Reviews,
               ApproveRead(r, k, v) \/ RejectRead(r, k, v)
        PROVE  Decided'
    <2>1. /\ req[r].pc = "idle" /\ req'[r].pc \in {"admit", "refuse"} /\ req'[r].on = v
          /\ \A x \in Requests : x # r => req'[x] = req[x]
          /\ muddled' = IF On(v) = {} THEN muddled ELSE muddled \cup {v}
          /\ review[v].state = "pending" /\ UNCHANGED <<verif, review, broken>>
      BY <1>4, Put DEF ApproveRead, RejectRead, Opens, Pending
    <2>2. \A w \in Reviews \ {v} : Rulings(w)' = Rulings(w) /\ \A x \in Rulings(w) : req'[x] = req[x]
      BY <2>1 DEF Rulings, ReviewPcs
    <2>3. Rulings(v)' = Rulings(v) \cup {r} /\ (Rulings(v) # {} => v \in muddled')
          /\ \A x \in Rulings(v) : req'[x] = req[x]
      BY <2>1 DEF Rulings, On, ReviewPcs, RowPcs
    <2> QED
      BY <2>1, <2>2, <2>3 DEF Decided
  <1>5. ASSUME NEW r \in Requests, AdmitReview(r) PROVE Decided'
    <2> PICK v \in Reviews : v = req[r].on
      BY <1>0, <1>5, ReqIs DEF AdmitReview, ReviewPcs
    <2> DEFINE x == [o |-> review[v].o, i |-> review[v].i, how |-> "hand", k |-> req[r].k, from |-> v]
    <2>1. /\ req[r].pc = "admit" /\ UNCHANGED <<review, muddled, broken>>
          /\ \A y \in Requests : y # r => req'[y] = req[y]
          /\ \/ verif' = verif \cup {x} /\ req'[r] = [req[r] EXCEPT !.pc = "decide"]
             \/ UNCHANGED verif /\ req'[r] = Idle
      BY <1>5, Put DEF AdmitReview, Ends
    <2>2. \A w \in Reviews \ {v} : Rulings(w)' = Rulings(w) /\ \A y \in Rulings(w) : req'[y] = req[y]
      <3>1. req[r] = [pc |-> "admit", on |-> v, k |-> req[r].k]
        BY <1>0, <2>1, ReqIs
      <3>2. req'[r] = Idle \/ (req'[r].on = v /\ req'[r].pc = "decide")
        BY <2>1, <3>1
      <3> QED
        BY <2>1, <3>2, ReqMade DEF Rulings, ReviewPcs
    <2>3. r \in Rulings(v)
      BY <2>1 DEF Rulings, ReviewPcs
    <2>4. CASE verif' = verif \cup {x} /\ req'[r] = [req[r] EXCEPT !.pc = "decide"]
      <3>1. req[r] = [pc |-> "admit", on |-> v, k |-> req[r].k]
        BY <1>0, <2>1, ReqIs
      <3>2. req'[r].pc = "decide" /\ req'[r].on = v
        BY <2>4, <3>1
      <3>3. Rulings(v)' = Rulings(v) /\ \A y \in Rulings(v) \ {r} : req'[y] = req[y]
        BY <2>1, <2>3, <3>2 DEF Rulings, ReviewPcs
      <3>4. x.from = v
        OBVIOUS
      <3> HIDE DEF x
      <3>5. Admitting(verif', v) /\ \A w \in Reviews \ {v} : Admitting(verif', w) <=> Admitting(verif, w)
        BY <2>4, <3>4 DEF Admitting
      <3> QED
        BY <2>1, <2>2, <2>3, <3>2, <3>3, <3>5 DEF Decided
    <2>5. CASE UNCHANGED verif /\ req'[r] = Idle
      <3>1. Rulings(v)' = Rulings(v) \ {r} /\ \A y \in Rulings(v) \ {r} : req'[y] = req[y]
        BY <2>1, <2>5, ReqMade DEF Rulings, ReviewPcs
      <3> QED
        BY <2>1, <2>2, <2>3, <2>5, <3>1 DEF Decided
    <2> QED
      BY <2>1, <2>4, <2>5
  <1>a. ASSUME NEW r \in Requests, NEW v \in Reviews, v = req[r].on, req[r].pc \in ReviewPcs,
               req'[r].pc \notin ReviewPcs, \A y \in Requests : y # r => req'[y] = req[y],
               UNCHANGED <<verif, muddled>>, broken \subseteq broken',
               \A w \in Reviews \ {v} : review'[w] = review[w],
               v \in broken' \/ (review'[v].state = "approved" <=> req[r].pc = "decide")
        PROVE  Decided'
    <2>1. \A w \in Reviews \ {v} : Rulings(w)' = Rulings(w) /\ \A y \in Rulings(w) : req'[y] = req[y]
      BY <1>a DEF Rulings
    <2>2. r \in Rulings(v) /\ Rulings(v)' = Rulings(v) \ {r}
      BY <1>a DEF Rulings
    <2> QED
      BY <1>a, <2>1, <2>2 DEF Decided
  <1>6. ASSUME NEW r \in Requests, DecideReview(r) PROVE Decided'
    <2> PICK v \in Reviews : v = req[r].on
      BY <1>0, <1>6, ReqIs DEF DecideReview, ReviewPcs
    <2>1. /\ req[r].pc = "decide" /\ req'[r] = [pc |-> "promote", o |-> review[v].o]
          /\ \A y \in Requests : y # r => req'[y] = req[y]
          /\ \/ review' = [review EXCEPT ![v].state = "approved"] /\ UNCHANGED broken
             \/ broken' = broken \cup {v} /\ UNCHANGED review
          /\ UNCHANGED <<verif, muddled>>
      BY <1>6, Put DEF DecideReview
    <2>2. v \in broken' \/ review'[v].state = "approved"
      BY <1>0, <2>1 DEF Review
    <2>3. \A w \in Reviews \ {v} : review'[w] = review[w]
      BY <1>0, <2>1
    <2> QED
      BY <1>a, <2>1, <2>2, <2>3 DEF ReviewPcs
  <1>7. ASSUME NEW r \in Requests, RejectReview(r) PROVE Decided'
    <2> PICK v \in Reviews : v = req[r].on
      BY <1>0, <1>7, ReqIs DEF RejectReview, ReviewPcs
    <2>1. /\ req[r].pc = "refuse" /\ req'[r] = Idle
          /\ \A y \in Requests : y # r => req'[y] = req[y]
          /\ review' \in {review, [review EXCEPT ![v].state = "rejected"]}
          /\ UNCHANGED <<verif, muddled, broken>>
      BY <1>7, Put DEF RejectReview, Ends
    <2>2. v \in muddled \cup broken \/ review[v].state = "pending"
      BY <2>1 DEF Decided, Rulings, ReviewPcs
    <2>3. \A w \in Reviews \ {v} : review'[w] = review[w]
      BY <1>0, <2>1
    <2>4. CASE v \in muddled \cup broken
      <3>1. \A w \in Reviews \ {v} : Rulings(w)' = Rulings(w) /\ \A y \in Rulings(w) : req'[y] = req[y]
        BY <2>1, ReqMade DEF Rulings, ReviewPcs
      <3> QED
        BY <2>1, <2>3, <2>4, <3>1 DEF Decided
    <2>5. CASE review[v].state = "pending"
      <3>1. review'[v].state # "approved"
        BY <1>0, <2>1, <2>5 DEF Review
      <3> QED
        BY <1>a, <2>1, <2>3, <3>1, ReqMade DEF ReviewPcs
    <2> QED
      BY <2>2, <2>4, <2>5
  <1> QED
    BY <1>1, <1>2, <1>3, <1>4, <1>5, <1>6, <1>7 DEF HandStep

LEMMA DecisionsKept == Typed /\ Decided /\ [Next]_vars => Decided'
  <1> SUFFICES ASSUME Typed, Decided, [Next]_vars PROVE Decided'
    OBVIOUS
  <1>1. CASE UNCHANGED vars
    BY <1>1, ReviewStillKeeps DEF ReviewStill, vars, proofs
  <1>2. CASE Restart
    <2>1. /\ \A x \in Requests : req'[x] = Idle
          /\ \A v \in Reviews : On(v) # {} => v \in broken'
          /\ broken \subseteq broken' /\ UNCHANGED <<verif, review, muddled>>
      BY <1>2 DEF Restart
    <2>2. \A v \in Reviews : Rulings(v)' = {} /\ (Rulings(v) # {} => v \in broken')
      BY <2>1, ReqMade DEF Rulings, On, ReviewPcs, RowPcs
    <2> QED
      BY <2>1, <2>2 DEF Decided
  <1>3. ASSUME Elsewhere PROVE Decided'
    BY <1>3, ReviewStillKeeps DEF Elsewhere, ReviewStill, proofs, ProofPcs, HandPcs
  <1>4. ASSUME NEW r \in Requests, Promote(r) PROVE Decided'
    <2>1. /\ req[r].pc = "promote" /\ req'[r] = Idle /\ \A x \in Requests : x # r => req'[x] = req[x]
          /\ broken \subseteq broken' /\ UNCHANGED <<verif, review, muddled>>
      BY <1>4, Put DEF Promote, At, Ends
    <2> QED
      BY <2>1, ReqMade, ReviewStillKeeps DEF ReviewStill, ReviewPcs
  <1> QED
    BY <1>1, <1>2, <1>3, <1>4, MailUnreviewed, ReviewStillKeeps, HandDecides, OrgTyped, AccountTyped,
       ContentTyped DEF Next

\* A review nobody works at any more is approved exactly if it verified its
\* organization, whoever decided it, but for overlaps and losses.
THEOREM Reviews_Agree == Spec => []ReviewsAgree
  <1>1. Init => Decided
    <2> SUFFICES ASSUME Init PROVE Decided
      OBVIOUS
    <2>1. \A v \in Reviews : Rulings(v) = {}
      BY ReqMade DEF Init, Rulings, ReviewPcs
    <2>2. verif = {} /\ \A v \in Reviews : review[v].state = "none"
      BY DEF Init, NoRow
    <2> QED
      BY <2>1, <2>2 DEF Decided, Admitting
  <1>2. Decided => ReviewsAgree
    BY DEF Decided, ReviewsAgree, Rulings, On, RowPcs, ReviewPcs, Admitting
  <1>3. Spec => [](Typed /\ Decided)
    BY <1>1, InitTyped, TypedStep, DecisionsKept, PTL DEF Spec
  <1> QED
    BY <1>2, <1>3, PTL
-----------------------------------------------------------------------------
(* Claims of accounts *)

\* what an account and the apps told that it is theirs agree on
Settled(row, told) ==
  /\ \A x, y \in told : x = y
  /\ row.state = "none" => ~row.claimed /\ told = {}
  /\ row.state = "live" /\ row.claimed => row.by # None
  /\ row.state = "live" /\ told # {} => row.claimed /\ told \subseteq {row.by}

\* what a request that creates or claims an account has before it
Clear(q, as, told) ==
  /\ q.pc # "find"
  /\ q.pc = "make" => \A a \in Accounts : as[a].state # "live"
  /\ q.pc = "claim" => /\ told[q.a] = {} /\ as[q.a].state # "none"
                       /\ as[q.a].state = "live" => ~as[q.a].claimed

\* while no two such requests overlap there is at most one
Handed ==
  crossed \/ /\ \A r, s \in Requests : {req[r].pc, req[s].pc} \subseteq ClaimPcs => r = s
             /\ \A a \in Accounts : Settled(acct[a], claimants[a])
             /\ \A r \in Requests : Clear(req[r], acct, claimants)

\* steps that claims do not notice
ClaimStill ==
  /\ UNCHANGED <<acct, claimants, crossed>>
  /\ \A x \in Requests : req'[x] = req[x] \/ {req[x].pc, req'[x].pc} \cap ClaimPcs = {}

LEMMA ClaimStillKeeps == Handed /\ ClaimStill => Handed'
  <1> SUFFICES ASSUME Handed, ClaimStill, ~crossed PROVE Handed'
    BY DEF Handed, ClaimStill
  <1>1. \A r, s \in Requests : {req'[r].pc, req'[s].pc} \subseteq ClaimPcs => r = s
    BY DEF Handed, ClaimStill
  <1>2. \A r \in Requests : Clear(req'[r], acct', claimants')
    <2> SUFFICES ASSUME NEW r \in Requests PROVE Clear(req'[r], acct, claimants)
      BY DEF ClaimStill
    <2>1. CASE req'[r] = req[r]
      BY <2>1 DEF Handed
    <2>2. CASE req'[r].pc \notin ClaimPcs
      BY <2>2 DEF Clear, ClaimPcs
    <2> QED
      BY <2>1, <2>2 DEF ClaimStill
  <1> QED
    BY <1>1, <1>2 DEF Handed, ClaimStill

LEMMA MailUnclaimed == Typed /\ MailStep => ClaimStill
  <1> SUFFICES ASSUME Typed, MailStep PROVE ClaimStill
    OBVIOUS
  <1>0. \A x \in Requests : req[x] \in Req
    BY Known
  <1>a. ASSUME NEW r \in Requests, NEW q, Goes(r, q), {req[r].pc, q.pc} \cap ClaimPcs = {},
               UNCHANGED owners
        PROVE  ClaimStill
    BY <1>a, Put DEF ClaimStill, owners
  <1> USE DEF ClaimPcs, At
  <1>1. ASSUME NEW r \in Requests, NEW o \in Orgs, NEW i \in Ids, ChallengeRead(r, o, i)
        PROVE  ClaimStill
    BY <1>1, <1>a DEF ChallengeRead
  <1>2. ASSUME NEW r \in Requests, ChallengeInsert(r) PROVE ClaimStill
    BY <1>2, <1>a, ReqMade DEF ChallengeInsert, Ends
  <1>3. ASSUME NEW c \in Challenges, ChallengeExpires(c) PROVE ClaimStill
    BY <1>3 DEF ChallengeExpires, ClaimStill, owners
  <1>4. ASSUME NEW r \in Requests, NEW k \in Keys, NEW c \in Challenges, NEW right \in BOOLEAN,
               ConfirmRead(r, k, c, right)
        PROVE  ClaimStill
    BY <1>4, <1>a DEF ConfirmRead, Opens
  <1>5. ASSUME NEW r \in Requests, CountAttempt(r) PROVE ClaimStill
    BY <1>5, <1>a, ReqMade DEF CountAttempt, Ends
  <1>6. ASSUME NEW r \in Requests, Consume(r) PROVE ClaimStill
    <2>1. req[r].pc = "consume" /\ [req[r] EXCEPT !.pc = "record"].pc = "record"
      BY <1>0, <1>6, ReqIs DEF Consume
    <2> QED
      BY <1>6, <1>a, <2>1 DEF Consume
  <1>7. ASSUME NEW r \in Requests, RecordIdentifier(r) PROVE ClaimStill
    <2>1. /\ req[r].pc = "record" /\ UNCHANGED owners
          /\ Goes(r, Idle) \/ Goes(r, [pc |-> "promote", o |-> challenge[req[r].on].o])
      BY <1>7 DEF RecordIdentifier, Ends
    <2> QED
      BY <1>a, <2>1, ReqMade
  <1> QED
    BY <1>1, <1>2, <1>3, <1>4, <1>5, <1>6, <1>7 DEF MailStep

LEMMA HandUnclaimed == Typed /\ HandStep => ClaimStill
  <1> SUFFICES ASSUME Typed, HandStep PROVE ClaimStill
    OBVIOUS
  <1>0. \A x \in Requests : req[x] \in Req
    BY Known
  <1>a. ASSUME NEW r \in Requests, NEW q, Goes(r, q), {req[r].pc, q.pc} \cap ClaimPcs = {},
               UNCHANGED owners
        PROVE  ClaimStill
    BY <1>a, Put DEF ClaimStill, owners
  <1> USE DEF ClaimPcs, At
  <1>1. ASSUME NEW r \in Requests, NEW k \in Keys, NEW o \in Orgs, NEW i \in Ids, ManualRead(r, k, o, i)
        PROVE  ClaimStill
    BY <1>1, <1>a DEF ManualRead
  <1>2. ASSUME NEW r \in Requests, RecordByHand(r) PROVE ClaimStill
    BY <1>2, <1>a, ReqMade DEF RecordByHand, Ends
  <1>3. ASSUME NEW r \in Requests, QueueReview(r) PROVE ClaimStill
    BY <1>3, <1>a, ReqMade DEF QueueReview, Ends
  <1>4. ASSUME NEW r \in Requests, NEW k \in Keys, NEW v \in Reviews,
               ApproveRead(r, k, v) \/ RejectRead(r, k, v)
        PROVE  ClaimStill
    BY <1>4, <1>a DEF ApproveRead, RejectRead, Opens
  <1>5. ASSUME NEW r \in Requests, AdmitReview(r) PROVE ClaimStill
    <2>1. req[r].pc = "admit" /\ [req[r] EXCEPT !.pc = "decide"].pc = "decide"
      BY <1>0, <1>5, ReqIs DEF AdmitReview
    <2> QED
      BY <1>5, <1>a, <2>1, ReqMade DEF AdmitReview, Ends
  <1>6. ASSUME NEW r \in Requests, DecideReview(r) PROVE ClaimStill
    BY <1>6, <1>a DEF DecideReview
  <1>7. ASSUME NEW r \in Requests, RejectReview(r) PROVE ClaimStill
    BY <1>7, <1>a, ReqMade DEF RejectReview, Ends
  <1> QED
    BY <1>1, <1>2, <1>3, <1>4, <1>5, <1>6, <1>7 DEF HandStep

LEMMA OrgUnclaimed == Typed /\ OrgStep => ClaimStill
  <1> SUFFICES ASSUME Typed, OrgStep PROVE ClaimStill
    OBVIOUS
  <1>a. ASSUME NEW r \in Requests, NEW q, Goes(r, q), {req[r].pc, q.pc} \cap ClaimPcs = {},
               UNCHANGED owners
        PROVE  ClaimStill
    BY <1>a, Put DEF ClaimStill, owners
  <1> USE DEF ClaimPcs, At
  <1>1. ASSUME NEW r \in Requests, LinkInsert(r) PROVE ClaimStill
    BY <1>1, <1>a, ReqMade DEF LinkInsert, Ends
  <1>2. ASSUME NEW r \in Requests, NEW k \in Keys, NEW m \in Methods, CreateOrg(r, k, m)
        PROVE  ClaimStill
    BY <1>2, <1>a DEF CreateOrg
  <1>3. ASSUME NEW r \in Requests, NEW k \in Keys, NEW o \in Orgs, LinkRead(r, k, o)
        PROVE  ClaimStill
    BY <1>3, <1>a DEF LinkRead
  <1>4. ASSUME NEW k \in Keys, NEW o \in Orgs, PatchOrg(k, o) PROVE ClaimStill
    BY <1>4 DEF PatchOrg, ClaimStill, owners
  <1> QED
    BY <1>1, <1>2, <1>3, <1>4 DEF OrgStep

LEMMA ContentUnclaimed == Typed /\ ContentStep => ClaimStill
  <1> SUFFICES ASSUME Typed, ContentStep PROVE ClaimStill
    OBVIOUS
  <1>a. ASSUME NEW r \in Requests, NEW q, Goes(r, q), {req[r].pc, q.pc} \cap ClaimPcs = {},
               UNCHANGED owners
        PROVE  ClaimStill
    BY <1>a, Put DEF ClaimStill, owners
  <1> USE DEF ClaimPcs, At
  <1>1. ASSUME NEW r \in Requests, NEW p \in Places, PlaceRead(r, p) PROVE ClaimStill
    BY <1>1, <1>a DEF PlaceRead
  <1>2. ASSUME NEW r \in Requests, PlaceInsert(r) \/ RetractWrite(r) PROVE ClaimStill
    BY <1>2, <1>a, ReqMade DEF PlaceInsert, RetractWrite, Ends
  <1>3. ASSUME NEW r \in Requests, NEW k \in Keys, NEW b \in Broadcasts, RetractRead(r, k, b)
        PROVE  ClaimStill
    BY <1>3, <1>a DEF RetractRead
  <1>4. ASSUME UNCHANGED <<owners, req>> PROVE ClaimStill
    BY <1>4 DEF ClaimStill, owners
  <1>5. ASSUME NEW k \in Keys, NEW o \in Orgs, NEW b \in Broadcasts, Broadcast(k, o, b)
        PROVE  ClaimStill
    BY <1>5, <1>4 DEF Broadcast
  <1>6. ASSUME NEW k \in Keys, NEW p \in Positions, NEW x \in Items, AddItem(k, p, x)
        PROVE  ClaimStill
    BY <1>6, <1>4 DEF AddItem
  <1>7. ASSUME NEW b \in Broadcasts, BroadcastExpires(b) PROVE ClaimStill
    BY <1>7, <1>4 DEF BroadcastExpires
  <1>8. ASSUME NEW k \in Keys, NEW o \in Orgs, CreateList(k, o) PROVE ClaimStill
    BY <1>8, <1>4 DEF CreateList
  <1>9. ASSUME NEW k \in Keys, NEW p \in Positions, RemoveItem(k, p) PROVE ClaimStill
    BY <1>9, <1>4 DEF RemoveItem
  <1> QED
    BY <1>1, <1>2, <1>3, <1>5, <1>6, <1>7, <1>8, <1>9 DEF ContentStep

LEMMA ToldIs ==
  ASSUME Typed, NEW a \in Accounts, NEW who \in Apps \cup {None}, Told(a, who)
  PROVE  /\ claimants'[a] = claimants[a] \cup ({who} \cap Apps)
         /\ \A b \in Accounts : b # a => claimants'[b] = claimants[b]
  BY DEF Told, Typed, Rows

\* who the account of one address is given to
LEMMA SettledTold ==
  ASSUME NEW row \in Acct, NEW told \in SUBSET Apps, NEW who \in Apps \cup {None},
         Settled(row, told), row.state = "live", row.claimed, who # None => row.by \in {who, None}
  PROVE  Settled(row, told \cup ({who} \cap Apps))
  <1>1. CASE who = None
    <2>1. told \cup ({who} \cap Apps) = told
      BY <1>1, NoneAssumption
    <2> QED
      BY <2>1
  <1>2. CASE who # None
    BY <1>2 DEF Settled
  <1> QED
    BY <1>1, <1>2

\* an account changes that no other request has in hand
LEMMA HandedOne ==
  ASSUME Typed, Handed, ~crossed, \A b \in Accounts : Settled(acct'[b], claimants'[b]),
         \/ \A x \in Requests : req'[x] = req[x] /\ req[x].pc \notin ClaimPcs
         \/ \E r \in Requests :
              /\ Clear(req'[r], acct', claimants')
              /\ \A x \in Requests : x # r => req'[x] = req[x] /\ req[x].pc \notin ClaimPcs
  PROVE  Handed'
  <1>a. \A q : q.pc \notin ClaimPcs => Clear(q, acct', claimants')
    BY DEF Clear, ClaimPcs
  <1>1. CASE \A x \in Requests : req'[x] = req[x] /\ req[x].pc \notin ClaimPcs
    BY <1>a, <1>1 DEF Handed
  <1>2. ASSUME NEW r \in Requests, Clear(req'[r], acct', claimants'),
               \A x \in Requests : x # r => req'[x] = req[x] /\ req[x].pc \notin ClaimPcs
        PROVE  Handed'
    <2>1. \A x, y \in Requests : {req'[x].pc, req'[y].pc} \subseteq ClaimPcs => x = y
      BY <1>2
    <2>2. \A x \in Requests : Clear(req'[x], acct', claimants')
      BY <1>a, <1>2
    <2> QED
      BY <2>1, <2>2 DEF Handed
  <1> QED
    BY <1>1, <1>2

\* accounts change in what claims do not look at, or go
LEMMA HandedSame ==
  ASSUME Typed, Handed, ~crossed, UNCHANGED claimants,
         \A b \in Accounts : \/ acct'[b].state = "gone"
                             \/ /\ acct'[b].state = acct[b].state /\ acct'[b].by = acct[b].by
                                /\ acct'[b].claimed = acct[b].claimed,
         \A x \in Requests : req'[x] = req[x] \/ {req[x].pc, req'[x].pc} \cap ClaimPcs = {}
  PROVE  Handed'
  <1>1. \A r, s \in Requests : {req'[r].pc, req'[s].pc} \subseteq ClaimPcs => r = s
    BY DEF Handed
  <1>2. ASSUME NEW b \in Accounts PROVE Settled(acct'[b], claimants'[b])
    <2>1. Settled(acct[b], claimants[b])
      BY DEF Handed
    <2> QED
      BY <2>1 DEF Settled
  <1>3. ASSUME NEW r \in Requests PROVE Clear(req'[r], acct', claimants')
    <2>1. CASE req'[r].pc \notin ClaimPcs
      BY <2>1 DEF Clear, ClaimPcs
    <2>2. CASE req'[r] = req[r]
      <3>1. Clear(req[r], acct, claimants) /\ (req[r].pc = "claim" => req[r].a \in Accounts)
        BY Known, ReqIs DEF Handed
      <3> QED
        BY <2>2, <3>1 DEF Clear
    <2> QED
      BY <2>1, <2>2
  <1> QED
    BY <1>1, <1>2, <1>3 DEF Handed

LEMMA AccountHands == Typed /\ Handed /\ AccountStep => Handed'
  <1> SUFFICES ASSUME Typed, Handed, AccountStep, ~crossed' PROVE Handed'
    BY DEF Handed
  <1>0. /\ \A x \in Requests : req[x] \in Req
        /\ \A a \in Accounts : acct[a] \in Acct /\ claimants[a] \in SUBSET Apps
        /\ acct \in [Accounts -> Acct]
    BY Known DEF Rows
  \* while there is no other request
  <1>a. ASSUME ~crossed
        PROVE  /\ \A b \in Accounts : Settled(acct[b], claimants[b])
               /\ \A r \in Requests : Clear(req[r], acct, claimants)
               /\ \A r, x \in Requests : req[r].pc \in ClaimPcs /\ x # r => req[x].pc \notin ClaimPcs
    BY <1>a DEF Handed
  <1>b. ASSUME Claims = {}
        PROVE  \A x \in Requests : req[x].pc \notin ClaimPcs
    BY <1>b DEF Claims, ClaimPcs
  <1>1. ASSUME NEW r \in Requests, NEW who \in Apps \cup {None}, AccountRead(r, who) PROVE Handed'
    <2>1. ~crossed /\ Claims = {} /\ acct' = acct
      BY <1>1 DEF AccountRead
    <2>2. CASE Live = {} /\ Goes(r, [pc |-> "make", who |-> who]) /\ UNCHANGED claimants
      <3>1. req'[r].pc = "make" /\ \A x \in Requests : x # r => req'[x] = req[x]
        BY <2>2, Put
      <3>2. Clear(req'[r], acct', claimants')
        BY <2>1, <2>2, <3>1 DEF Clear, Live
      <3> QED
        BY <1>a, <1>b, <2>1, <2>2, <3>1, <3>2, HandedOne
    <2>3. ASSUME NEW a \in Live, FreeFor(a, who), acct[a].claimed, Told(a, who), UNCHANGED req
          PROVE  Handed'
      <3>1. a \in Accounts /\ acct[a].state = "live"
        BY DEF Live
      <3>2. Settled(acct'[a], claimants'[a])
        BY <1>0, <1>a, <2>1, <2>3, <3>1, ToldIs, SettledTold DEF FreeFor
      <3>3. \A b \in Accounts : Settled(acct'[b], claimants'[b])
        BY <1>a, <2>1, <2>3, <3>1, <3>2, ToldIs
      <3> QED
        BY <1>b, <2>1, <2>3, <3>3, HandedOne
    <2>4. ASSUME NEW a \in Live, ~acct[a].claimed, Goes(r, [pc |-> "claim", a |-> a, who |-> who]),
                 UNCHANGED claimants
          PROVE  Handed'
      <3>1. a \in Accounts /\ acct[a].state = "live"
        BY DEF Live
      <3>2. req'[r].pc = "claim" /\ req'[r].a = a /\ \A x \in Requests : x # r => req'[x] = req[x]
        BY <2>4, Put
      <3>3. Clear(req'[r], acct', claimants')
        BY <1>a, <2>1, <2>4, <3>1, <3>2 DEF Clear, Settled
      <3> QED
        BY <1>a, <1>b, <2>1, <2>4, <3>2, <3>3, HandedOne
    <2> QED
      BY <1>1, <2>2, <2>3, <2>4 DEF AccountRead
  <1>2. ASSUME NEW r \in Requests, AccountMake(r) PROVE Handed'
    <2>1. ~crossed /\ req[r].pc = "make" /\ UNCHANGED claimants /\ req[r].who \in Apps \cup {None}
      BY <1>0, <1>2, ReqIs DEF AccountMake, At, ClaimPcs
    <2>2. Live = {}
      BY <1>a, <2>1 DEF Clear, Live
    <2>3. CASE Ends(r) /\ UNCHANGED acct
      <3>1. req'[r].pc = "idle" /\ \A x \in Requests : x # r => req'[x] = req[x]
        BY <2>3, Put, ReqMade DEF Ends
      <3> QED
        BY <1>a, <2>1, <2>3, <3>1, HandedOne DEF Clear, ClaimPcs
    <2>4. ASSUME NEW a \in Accounts, acct[a].state = "none", acct' = [acct EXCEPT ![a].state = "live"],
                 Goes(r, [pc |-> "claim", a |-> a, who |-> req[r].who])
          PROVE  Handed'
      <3>1. req'[r].pc = "claim" /\ req'[r].a = a /\ \A x \in Requests : x # r => req'[x] = req[x]
        BY <2>4, Put
      <3>2. /\ acct'[a].state = "live" /\ acct'[a].claimed = acct[a].claimed /\ acct'[a].by = acct[a].by
            /\ \A b \in Accounts : b # a => acct'[b] = acct[b]
        BY <1>0, <2>4 DEF Acct
      <3>3. ~acct[a].claimed /\ claimants[a] = {}
        BY <1>a, <2>1, <2>4 DEF Settled
      <3>4. Clear(req'[r], acct', claimants')
        BY <2>1, <3>1, <3>2, <3>3 DEF Clear
      <3>5. \A b \in Accounts : Settled(acct'[b], claimants'[b])
        BY <1>a, <2>1, <3>2, <3>3 DEF Settled
      <3> QED
        BY <1>a, <2>1, <3>1, <3>4, <3>5, HandedOne DEF ClaimPcs
    <2> QED
      BY <1>2, <2>2, <2>3, <2>4 DEF AccountMake
  <1>3. ASSUME NEW r \in Requests, AccountFind(r) PROVE Handed'
    BY <1>3, <1>a DEF AccountFind, At, Clear
  <1>4. ASSUME NEW r \in Requests, AccountClaim(r) PROVE Handed'
    <2>0. PICK a \in Accounts, w \in Apps \cup {None} : a = req[r].a /\ w = req[r].who
      BY <1>0, <1>4, ReqIs DEF AccountClaim, At, ClaimPcs
    <2>1. /\ ~crossed /\ req[r].pc = "claim" /\ Ends(r) /\ Told(a, w)
          /\ acct' = IF a \in Live THEN [acct EXCEPT ![a].claimed = TRUE,
                                                     ![a].by = IF w = None THEN "api" ELSE w]
                                   ELSE acct
      BY <1>4, <2>0 DEF AccountClaim, At
    <2>2. claimants[a] = {}
      BY <1>a, <2>0, <2>1 DEF Clear
    <2>3. claimants'[a] = {w} \cap Apps /\ \A x \in Accounts : x # a => claimants'[x] = claimants[x]
      BY <2>1, <2>2, ToldIs
    <2>4. \A x \in Accounts : x # a => acct'[x] = acct[x]
      BY <1>0, <2>1
    <2>5. Settled(acct'[a], claimants'[a])
      <3>1. CASE a \in Live
        <4>1. /\ acct'[a].state = "live" /\ acct'[a].claimed
              /\ acct'[a].by = IF w = None THEN "api" ELSE w
          BY <1>0, <2>1, <3>1 DEF Acct, Live
        <4> QED
          BY <2>3, <4>1, NoneAssumption DEF Settled
      <3>2. CASE a \notin Live
        <4>1. acct'[a] = acct[a] /\ acct[a].state \notin {"none", "live"}
          BY <1>a, <2>0, <2>1, <3>2 DEF Clear, Live
        <4> QED
          BY <2>3, <4>1 DEF Settled
      <3> QED
        BY <3>1, <3>2
    <2>6. req'[r].pc = "idle" /\ \A x \in Requests : x # r => req'[x] = req[x]
      BY <2>1, Put, ReqMade DEF Ends
    <2>7. \A x \in Accounts : Settled(acct'[x], claimants'[x])
      BY <1>a, <2>1, <2>3, <2>4, <2>5
    <2> QED
      BY <1>a, <2>1, <2>6, <2>7, HandedOne DEF Clear, ClaimPcs
  <1>5. ASSUME NEW who \in Apps \cup {None}, CreateAccount(who) PROVE Handed'
    <2>1. ~crossed /\ Claims = {} /\ UNCHANGED req
      BY <1>5 DEF CreateAccount
    <2>2. PICK a \in Accounts :
            /\ acct[a].state = "none" /\ Told(a, who)
            /\ acct' = [acct EXCEPT ![a].state = "live", ![a].claimed = (who # None), ![a].by = who]
      BY <1>5 DEF CreateAccount
    <2>3. /\ acct'[a].state = "live" /\ acct'[a].claimed = (who # None) /\ acct'[a].by = who
          /\ \A b \in Accounts : b # a => acct'[b] = acct[b]
      BY <1>0, <2>2 DEF Acct
    <2>4. claimants'[a] = {who} \cap Apps /\ \A x \in Accounts : x # a => claimants'[x] = claimants[x]
      BY <1>a, <2>1, <2>2, ToldIs DEF Settled
    <2>5. Settled(acct'[a], claimants'[a])
      BY <2>3, <2>4, NoneAssumption DEF Settled
    <2>6. \A b \in Accounts : Settled(acct'[b], claimants'[b])
      BY <1>a, <2>1, <2>3, <2>4, <2>5
    <2> QED
      BY <1>b, <2>1, <2>6, HandedOne
  <1>6. ASSUME NEW k \in Keys, NEW a \in Accounts, NEW who \in Apps \cup {None}, NEW u \in BOOLEAN,
               PatchAccount(k, a, who, u)
        PROVE  Handed'
    <2> DEFINE row == [acct[a] EXCEPT !.suspended = u, !.by = IF who = None THEN acct[a].by ELSE who]
    <2>1. ~crossed /\ UNCHANGED req /\ acct[a].state = "live"
          /\ acct' = [acct EXCEPT ![a] = row] /\ (who # None => Claims = {})
          /\ claimants' = IF who = None THEN claimants ELSE [claimants EXCEPT ![a] = {}]
      BY <1>6 DEF PatchAccount, Live
    <2>2. /\ row.state = "live" /\ row.claimed = acct[a].claimed
          /\ row.by = IF who = None THEN acct[a].by ELSE who
      BY <1>0, <2>1 DEF Acct
    <2> HIDE DEF row
    <2>3. acct'[a] = row /\ \A b \in Accounts : b # a => acct'[b] = acct[b]
      BY <1>0, <2>1
    <2>4. CASE who = None
      <3>1. UNCHANGED claimants
        BY <2>1, <2>4
      <3>2. \A b \in Accounts : /\ acct'[b].state = acct[b].state /\ acct'[b].by = acct[b].by
                                /\ acct'[b].claimed = acct[b].claimed
        BY <2>1, <2>2, <2>3, <2>4
      <3> QED
        BY <2>1, <3>1, <3>2, HandedSame
    <2>5. CASE who # None
      <3>1. claimants'[a] = {} /\ \A b \in Accounts : b # a => claimants'[b] = claimants[b]
        BY <2>1, <2>5, Known DEF Rows
      <3>2. Settled(acct'[a], claimants'[a])
        BY <2>2, <2>3, <2>5, <3>1 DEF Settled
      <3>3. \A b \in Accounts : Settled(acct'[b], claimants'[b])
        BY <1>a, <2>1, <2>3, <3>1, <3>2
      <3> QED
        BY <1>b, <2>1, <2>5, <3>3, HandedOne
    <2> QED
      BY <2>4, <2>5
  <1>7. ASSUME NEW a \in Accounts, EventOf(a) PROVE Handed'
    <2>1. \A b \in Accounts : /\ acct'[b].state = acct[b].state /\ acct'[b].by = acct[b].by
                              /\ acct'[b].claimed = acct[b].claimed
      BY <1>0, <1>7 DEF EventOf, Acct
    <2> QED
      BY <1>7, <2>1, HandedSame DEF EventOf
  <1>8. ASSUME NEW r \in Requests, NEW k \in Keys, NEW a \in Accounts, DeleteRead(r, k, a) PROVE Handed'
    <2>1. req[r].pc = "idle" /\ req'[r].pc = "dropEvents" /\ \A x \in Requests : x # r => req'[x] = req[x]
      BY <1>8, Put DEF DeleteRead, At
    <2> QED
      BY <1>8, <2>1, HandedSame DEF DeleteRead, owners, ClaimPcs
  <1>9. ASSUME NEW r \in Requests, DropEvents(r) PROVE Handed'
    <2>1. req[r].pc = "dropEvents" /\ [req[r] EXCEPT !.pc = "drop"].pc = "drop" /\ req[r].a \in Accounts
      BY <1>0, <1>9, ReqIs DEF DropEvents, At
    <2>2. req'[r].pc = "drop" /\ \A x \in Requests : x # r => req'[x] = req[x]
      BY <1>9, <2>1, Put DEF DropEvents
    <2>3. \A b \in Accounts : /\ acct'[b].state = acct[b].state /\ acct'[b].by = acct[b].by
                              /\ acct'[b].claimed = acct[b].claimed
      BY <1>0, <1>9, <2>1 DEF DropEvents, Acct
    <2> QED
      BY <1>9, <2>1, <2>2, <2>3, HandedSame DEF DropEvents, ClaimPcs
  <1>10. ASSUME NEW r \in Requests, DropAccount(r) PROVE Handed'
    <2>1. req[r].pc = "drop" /\ req[r].a \in Accounts /\ UNCHANGED claimants /\ ~crossed /\ Goes(r, Idle)
      BY <1>0, <1>10, ReqIs DEF DropAccount, At, Ends
    <2>2. req'[r].pc = "idle" /\ \A x \in Requests : x # r => req'[x] = req[x]
      BY <2>1, Put, ReqMade
    <2>3. [NoAccount EXCEPT !.state = "gone"].state = "gone"
      BY DEF NoAccount
    <2>4. \A b \in Accounts : acct'[b].state = "gone" \/ acct'[b] = acct[b]
      BY <1>0, <1>10, <2>1, <2>3 DEF DropAccount
    <2> QED
      BY <2>1, <2>2, <2>4, HandedSame DEF ClaimPcs
  <1> QED
    BY <1>1, <1>2, <1>3, <1>4, <1>5, <1>6, <1>7, <1>8, <1>9, <1>10 DEF AccountStep

LEMMA ClaimsKept == Typed /\ Handed /\ [Next]_vars => Handed'
  <1> SUFFICES ASSUME Typed, Handed, [Next]_vars PROVE Handed'
    OBVIOUS
  <1>1. CASE UNCHANGED vars
    BY <1>1, ClaimStillKeeps DEF ClaimStill, vars, owners
  <1>2. CASE Restart
    BY <1>2, ReqMade DEF Restart, owners, Handed, Clear, ClaimPcs
  <1>3. ASSUME NEW r \in Requests, Promote(r) PROVE Handed'
    <2>1. /\ req[r].pc = "promote" /\ req'[r] = Idle /\ \A x \in Requests : x # r => req'[x] = req[x]
          /\ UNCHANGED owners
      BY <1>3, Put DEF Promote, At, Ends
    <2> QED
      BY <2>1, ReqMade, ClaimStillKeeps DEF ClaimStill, ClaimPcs, owners
  <1> QED
    BY <1>1, <1>2, <1>3, MailUnclaimed, HandUnclaimed, OrgUnclaimed, ContentUnclaimed, ClaimStillKeeps,
       AccountHands DEF Next

\* Two apps are never both told that an account is theirs, for any number of
\* accounts, apps and requests.
THEOREM Claim_Once == Spec => []ClaimOnce
  <1>1. Init => Handed
    <2> SUFFICES ASSUME Init PROVE Handed
      OBVIOUS
    <2>1. \A a \in Accounts : ~acct[a].claimed /\ claimants[a] = {}
      <3>1. ~NoAccount.claimed /\ \A u \in BOOLEAN : ~[NoAccount EXCEPT !.state = "live", !.auth = u].claimed
        BY DEF NoAccount
      <3>2. \A a \in Accounts : acct[a] = NoAccount \/ \E u \in BOOLEAN :
              acct[a] = [NoAccount EXCEPT !.state = "live", !.auth = u]
        BY DEF Init
      <3> QED
        BY <3>1, <3>2 DEF Init
    <2> QED
      BY <2>1, ReqMade DEF Init, Handed, Settled, Clear, ClaimPcs
  <1>2. Handed => ClaimOnce
    <2> SUFFICES ASSUME Handed, ~crossed, NEW a \in Accounts PROVE Cardinality(claimants[a]) <= 1
      BY DEF ClaimOnce
    <2>1. \A x, y \in claimants[a] : x = y
      BY DEF Handed, Settled
    <2>2. CASE claimants[a] = {}
      BY <2>2, FS_EmptySet
    <2>3. ASSUME NEW x \in claimants[a] PROVE Cardinality(claimants[a]) <= 1
      <3>1. claimants[a] = {x}
        BY <2>1, <2>3
      <3>2. Cardinality({x}) = 1
        BY FS_Singleton
      <3> QED
        BY <3>1, <3>2
    <2> QED
      BY <2>2, <2>3
  <1>3. Spec => [](Typed /\ Handed)
    BY <1>1, InitTyped, TypedStep, ClaimsKept, PTL DEF Spec
  <1> QED
    BY <1>2, <1>3, PTL

-----------------------------------------------------------------------------
(* What a lookup finds *)

LEMMA FoundIs ==
  ASSUME NEW o, NEW i, FindExisting(o, i)
  PROVE  \E x \in verif : x.o = o /\ x.i = i
  <1> DEFINE S == {x \in verif : x.o = o /\ x.i = i}
  <1>1. Cardinality({}) = 0
    BY FS_EmptySet
  <1>2. Cardinality(S) = 1
    BY DEF FindExisting
  <1>3. S # {}
    <2> HIDE DEF S
    <2> QED
      BY <1>1, <1>2
  <1> QED
    BY <1>3
=============================================================================
