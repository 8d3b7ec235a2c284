----------------------------- MODULE PortalProofs -----------------------------
(***************************************************************************)
(* Theorems about the developer portal: first PortalSignUp for every set   *)
(* of addresses and requests, then PortalSession for every set of links,   *)
(* sessions, codes and requests, and every limit.                          *)
(***************************************************************************)
EXTENDS PortalSignUp, PortalSession, TLAPS

-----------------------------------------------------------------------------
(* What a step does to the two kinds of requests, field by field. *)

VisitPcs  == {"idle", "drop", "spend", "form", "over", "profile", "account", "key",
              "undoAccount", "undoProfile", "forget", "session", "shown"}
RegIs(r, pc, m) == \A s \in Registers :
  /\ reg'[s].pc = IF s = r THEN pc ELSE reg[s].pc
  /\ reg'[s].m  = IF s = r THEN m ELSE reg[s].m
VisitIs(v, pc, m, c, f) == \A w \in Visits :
  /\ visit'[w].pc   = IF w = v THEN pc ELSE visit[w].pc
  /\ visit'[w].m    = IF w = v THEN m  ELSE visit[w].m
  /\ visit'[w].code = IF w = v THEN c  ELSE visit[w].code
  /\ visit'[w].form = IF w = v THEN f  ELSE visit[w].form

LEMMA RegFields ==
  ASSUME reg \in [Registers -> Reg], NEW r \in Registers
  PROVE  /\ reg[r].pc \in {"idle", "clear", "store", "mailed", "over"}
         /\ reg[r].pc = "idle" => reg[r].m = Null
         /\ reg[r].pc # "idle" => reg[r].m \in Emails
         /\ reg[r] = [pc |-> reg[r].pc, m |-> reg[r].m]
  BY DEF Reg, NoReg

LEMMA VisitFields ==
  ASSUME visit \in [Visits -> Visit], NEW v \in Visits
  PROVE  /\ visit[v].pc \in VisitPcs
         /\ visit[v].pc = "idle" => visit[v].m = Null
         /\ visit[v].pc # "idle" => visit[v].m \in Emails /\ visit[v].code \in Registers
         /\ visit[v].form \in Registers \cup {Null}
         /\ visit[v].pc \notin {"idle", "drop", "spend", "form", "over"} =>
              visit[v].form \in Registers
         /\ visit[v] = [pc |-> visit[v].pc, m |-> visit[v].m, code |-> visit[v].code,
                        form |-> visit[v].form]
  BY DEF Visit, NoVisit, VisitPcs

LEMMA FormGoing ==
  ASSUME visit \in [Visits -> Visit], NEW v \in Visits, NEW pc, NEW form,
         visit' = [visit EXCEPT ![v].pc = pc, ![v].form = form]
  PROVE  visit' = [visit EXCEPT ![v] = [pc |-> pc, m |-> visit[v].m, code |-> visit[v].code,
                                        form |-> form]]
  <1> DEFINE moved == [visit[v] EXCEPT !.pc = pc]
  <1>1. moved = [pc |-> pc, m |-> visit[v].m, code |-> visit[v].code, form |-> visit[v].form]
    BY VisitFields
  <1>2. visit' = [visit EXCEPT ![v] = [moved EXCEPT !.form = form]]
    OBVIOUS
  <1>3. \A m, c, g : [[pc |-> pc, m |-> m, code |-> c, form |-> g] EXCEPT !.form = form]
                       = [pc |-> pc, m |-> m, code |-> c, form |-> form]
    OBVIOUS
  <1> HIDE DEF moved
  <1>4. [moved EXCEPT !.form = form]
          = [[pc |-> pc, m |-> visit[v].m, code |-> visit[v].code, form |-> visit[v].form]
                EXCEPT !.form = form]
    BY <1>1
  <1>5. [moved EXCEPT !.form = form]
          = [pc |-> pc, m |-> visit[v].m, code |-> visit[v].code, form |-> form]
    BY <1>3, <1>4
  <1> QED
    BY <1>2, <1>5

LEMMA RegGoing ==
  ASSUME reg \in [Registers -> Reg], NEW r \in Registers, reg[r].pc # "idle",
         NEW pc \in {"clear", "store", "mailed", "over"}, RegGoes(r, pc)
  PROVE  reg' \in [Registers -> Reg] /\ RegIs(r, pc, reg[r].m)
  <1> DEFINE new == [pc |-> pc, m |-> reg[r].m]
  <1>1. reg' = [reg EXCEPT ![r] = new]
    <2>1. [reg[r] EXCEPT !.pc = pc] = new
      BY RegFields
    <2>2. reg' = [reg EXCEPT ![r] = [reg[r] EXCEPT !.pc = pc]]
      BY DEF RegGoes
    <2> QED
      BY <2>1, <2>2
  <1>2. new \in Reg /\ new.pc = pc /\ new.m = reg[r].m
    BY RegFields DEF Reg
  <1> HIDE DEF new
  <1> QED
    BY <1>1, <1>2 DEF RegIs

LEMMA VisitGoing ==
  ASSUME visit \in [Visits -> Visit], NEW v \in Visits, visit[v].pc # "idle",
         NEW pc \in VisitPcs \ {"idle"}, VisitGoes(v, pc),
         visit[v].form \in Registers \/ pc \in {"drop", "spend", "form", "over"}
  PROVE  visit' \in [Visits -> Visit] /\ VisitIs(v, pc, visit[v].m, visit[v].code, visit[v].form)
  <1> DEFINE new == [pc |-> pc, m |-> visit[v].m, code |-> visit[v].code, form |-> visit[v].form]
  <1>1. visit' = [visit EXCEPT ![v] = new]
    <2>1. [visit[v] EXCEPT !.pc = pc] = new
      BY VisitFields
    <2>2. visit' = [visit EXCEPT ![v] = [visit[v] EXCEPT !.pc = pc]]
      BY DEF VisitGoes
    <2> QED
      BY <2>1, <2>2
  <1>2. /\ visit[v].m \in Emails /\ visit[v].code \in Registers
        /\ visit[v].form \in Registers \cup {Null}
    BY VisitFields
  <1>3. new \in Visit
    <2>1. CASE pc \in {"drop", "spend", "form", "over"}
      BY <1>2, <2>1 DEF Visit
    <2>2. CASE pc \notin {"drop", "spend", "form", "over"}
      BY <1>2, <2>2 DEF Visit, VisitPcs
    <2> QED
      BY <2>1, <2>2
  <1>4. /\ new.pc = pc /\ new.m = visit[v].m /\ new.code = visit[v].code
        /\ new.form = visit[v].form
    OBVIOUS
  <1> HIDE DEF new
  <1> QED
    BY <1>1, <1>3, <1>4 DEF VisitIs

-----------------------------------------------------------------------------
(* The inductive invariant. *)

Past(v)         == visit[v].pc \notin {"idle", "drop", "spend", "over"} \/ v \in keys
Provisioning(v) == visit[v].pc \notin {"idle", "drop", "spend", "form", "over"} \/ v \in keys

\* Where rows, forms and codes may be, and whose they are.
Placed ==
  /\ \A r \in otps : reg[r].pc \in {"mailed", "over"}
  /\ \A v \in keys : visit[v].pc \in {"forget", "session", "shown", "over"}
  /\ \A m \in Emails : held[m] # Null => reg[held[m]].m = m
  /\ \A v \in Visits : visit[v].pc # "idle" =>
       /\ reg[visit[v].code].m = visit[v].m
       /\ reg[visit[v].code].pc \in {"mailed", "over"}

\* Of two requests of one address under way, each is known to be crossed.
Overlaps ==
  /\ \A r, s \in Registers :
       (r # s /\ Registering(r) /\ Registering(s) /\ reg[r].m = reg[s].m) => r \in crossed
  /\ \A v, w \in Visits :
       (v # w /\ Visiting(v) /\ Visiting(w) /\ visit[v].m = visit[w].m) => v \in crossed
  /\ \A r \in Registers, v \in Visits :
       (Registering(r) /\ Visiting(v) /\ reg[r].m = visit[v].m) => r \in crossed /\ v \in crossed

\* A clean registration under way finds its own form, and no code once it has
\* cleared them.
OwnForm ==
  \A r \in Registers : (Registering(r) /\ Clean(r)) =>
    /\ held[reg[r].m] = r
    /\ reg[r].pc = "store" => \A s \in otps : reg[s].m # reg[r].m

\* A clean code belongs to the form that is held, once that has been cleared for.
CodeOfForm ==
  \A m \in Emails, c \in otps :
    /\ reg[c].m = m /\ held[m] # Null
    /\ Clean(c) /\ Clean(held[m]) /\ reg[held[m]].pc # "clear"
    => held[m] = c

\* What a clean visit has read is still so.
ReadStays ==
  \A v \in Visits : Clean(v) =>
    /\ visit[v].pc = "spend" => visit[v].code \in otps
    /\ (visit[v].pc \in {"spend", "form"} /\ held[visit[v].m] # Null
          /\ Clean(held[visit[v].m]) /\ Clean(visit[v].code)) => held[visit[v].m] = visit[v].code
    /\ (Provisioning(v) /\ Clean(visit[v].form) /\ Clean(visit[v].code)) =>
         visit[v].form = visit[v].code

\* A code that a clean visit accepted is gone, and no other clean visit had it.
SpentOnce ==
  \A v \in Visits : (Past(v) /\ Clean(v)) =>
    /\ visit[v].code \notin otps
    /\ \A w \in Visits : (Past(w) /\ Clean(w) /\ visit[v].code = visit[w].code) => v = w

\* The rows a visit has made so far.
RowsMade ==
  \A v \in Visits \ slipped :
    /\ v \in profiles <=> (visit[v].pc \in {"account", "key", "undoAccount", "undoProfile"}
                             \/ v \in keys)
    /\ v \in accounts <=> (visit[v].pc \in {"key", "undoAccount"} \/ v \in keys)
    /\ visit[v].pc \in {"forget", "session", "shown"} => v \in keys

Inv == /\ SignUpTypeOK /\ Placed /\ Overlaps /\ OwnForm /\ OneCode /\ CodeOfForm
       /\ ReadStays /\ SpentOnce /\ RowsMade

LEMMA InvFollows == Inv => CodeOnce /\ FormOfCode /\ WholeOrNothing
  <1> SUFFICES ASSUME Inv PROVE CodeOnce /\ FormOfCode /\ WholeOrNothing
    OBVIOUS
  <1>1. CodeOnce
    BY DEF Inv, SignUpTypeOK, SpentOnce, Past, CodeOnce
  <1>2. FormOfCode
    BY DEF Inv, SignUpTypeOK, ReadStays, Provisioning, FormOfCode
  <1>3. WholeOrNothing
    BY DEF Inv, SignUpTypeOK, RowsMade, Placed, WholeOrNothing
  <1> QED
    BY <1>1, <1>2, <1>3

LEMMA InitInv == SignUpInit => Inv
  <1> SUFFICES ASSUME SignUpInit PROVE Inv
    OBVIOUS
  <1> USE DEF SignUpInit, NoReg, NoVisit
  <1>1. SignUpTypeOK
    BY DEF SignUpTypeOK, Reg, Visit
  <1>2. Placed /\ Overlaps /\ OwnForm /\ OneCode /\ CodeOfForm
    BY DEF Placed, Overlaps, OwnForm, OneCode, CodeOfForm, Registering, Visiting
  <1>3. ReadStays /\ SpentOnce /\ RowsMade
    BY DEF ReadStays, SpentOnce, RowsMade, Past, Provisioning
  <1> QED
    BY <1>1, <1>2, <1>3 DEF Inv

-----------------------------------------------------------------------------
(* POST /developers/register *)

LEMMA HoldKeeps ==
  ASSUME Inv, NEW r \in Registers, NEW m \in Emails, RegisterHold(r, m)
  PROVE  Inv'
  <1> DEFINE new == [pc |-> "clear", m |-> m]
  <1>1. /\ reg[r].pc = "idle" /\ held' = [held EXCEPT ![m] = r]
        /\ reg' = [reg EXCEPT ![r] = new]
        /\ UNCHANGED <<otps, expired, visit, profiles, accounts, keys, slipped>>
    BY DEF RegisterHold, Upserted
  <1>2. new \in Reg /\ new.pc = "clear" /\ new.m = m
    BY DEF Reg
  <1> HIDE DEF new
  <1>3. reg' \in [Registers -> Reg] /\ RegIs(r, "clear", m)
    BY <1>1, <1>2 DEF RegIs, Inv, SignUpTypeOK
  <1>4. /\ crossed \subseteq crossed' /\ crossed' \subseteq Registers \cup Visits
        /\ \A s \in Registers :
             (s # r /\ Registering(s) /\ reg[s].m = m) => {r, s} \subseteq crossed'
        /\ \A v \in Visits : (Visiting(v) /\ visit[v].m = m) => {r, v} \subseteq crossed'
    BY DEF RegisterHold, Begin, Running, Inv, SignUpTypeOK
  <1>5. SignUpTypeOK'
    BY <1>1, <1>3, <1>4 DEF Inv, SignUpTypeOK
  <1>6. reg[r].m = Null /\ r \notin otps /\ m # Null
    BY <1>1, RegFields, SignUpAssumption DEF Inv, SignUpTypeOK, Placed
  <1>7. Placed'
    <2>1. /\ \A s \in otps' : reg'[s].pc \in {"mailed", "over"}
          /\ \A v \in keys' : visit'[v].pc \in {"forget", "session", "shown", "over"}
      BY <1>1, <1>3, <1>6 DEF Placed, RegIs, Inv, SignUpTypeOK
    <2>2. \A n \in Emails : held'[n] # Null => reg'[held'[n]].m = n
      BY <1>1, <1>3, <1>6, SignUpAssumption DEF Placed, RegIs, Inv, SignUpTypeOK
    <2>3. \A v \in Visits : visit'[v].pc # "idle" =>
            /\ reg'[visit'[v].code].m = visit'[v].m
            /\ reg'[visit'[v].code].pc \in {"mailed", "over"}
      BY <1>1, <1>3, VisitFields DEF Placed, RegIs, Inv, SignUpTypeOK
    <2> QED
      BY <2>1, <2>2, <2>3 DEF Placed
  <1>8. Overlaps'
    BY <1>1, <1>3, <1>4 DEF Overlaps, RegIs, Registering, Visiting, Inv
  <1>9. OwnForm'
    BY <1>1, <1>3, <1>4, <1>6 DEF OwnForm, RegIs, Registering, Clean, Inv, SignUpTypeOK
  <1>10. OneCode'
    BY <1>1, <1>3, <1>4, <1>6 DEF OneCode, RegIs, Clean, Inv, SignUpTypeOK
  <1>11. CodeOfForm'
    BY <1>1, <1>3, <1>4, <1>6 DEF CodeOfForm, RegIs, Clean, Inv, SignUpTypeOK
  <1>12. ReadStays'
    BY <1>1, <1>3, <1>4, <1>6 DEF ReadStays, RegIs, Clean, Provisioning, Visiting, Inv, SignUpTypeOK
  <1>13. SpentOnce' /\ RowsMade'
    BY <1>1, <1>3, <1>4 DEF SpentOnce, RowsMade, RegIs, Clean, Past, Inv, SignUpTypeOK
  <1> QED
    BY <1>5, <1>7, <1>8, <1>9, <1>10, <1>11, <1>12, <1>13 DEF Inv

LEMMA ClearKeeps ==
  ASSUME Inv, NEW r \in Registers, RegisterClear(r)
  PROVE  Inv'
  <1>1. /\ reg[r].pc = "clear" /\ RegGoes(r, "store")
        /\ UNCHANGED <<held, expired, visit, profiles, accounts, keys, crossed>>
        /\ \/ /\ otps' = {s \in otps : reg[s].m # reg[r].m} /\ slipped' = slipped
           \/ otps' = otps /\ slipped' = slipped \cup {r}
    BY DEF RegisterClear, Cleared, CodesOf, Slips
  <1>2. reg' \in [Registers -> Reg] /\ RegIs(r, "store", reg[r].m)
    BY <1>1, RegGoing DEF Inv, SignUpTypeOK
  <1>3. otps' \subseteq otps /\ slipped \subseteq slipped' /\ slipped' \subseteq slipped \cup {r}
    BY <1>1
  <1>4. SignUpTypeOK'
    BY <1>1, <1>2, <1>3 DEF Inv, SignUpTypeOK
  <1>5. reg[r].m \in Emails /\ held[reg[r].m] \in Registers \cup {Null}
    BY <1>1, RegFields DEF Inv, SignUpTypeOK
  <1>6. Placed'
    <2>1. /\ \A s \in otps' : reg'[s].pc \in {"mailed", "over"}
          /\ \A v \in keys' : visit'[v].pc \in {"forget", "session", "shown", "over"}
      BY <1>1, <1>2, <1>3 DEF Placed, RegIs, Inv, SignUpTypeOK
    <2>2. \A n \in Emails : held'[n] # Null => reg'[held'[n]].m = n
      BY <1>1, <1>2, SignUpAssumption DEF Placed, RegIs, Inv, SignUpTypeOK
    <2>3. \A v \in Visits : visit'[v].pc # "idle" =>
            /\ reg'[visit'[v].code].m = visit'[v].m
            /\ reg'[visit'[v].code].pc \in {"mailed", "over"}
      BY <1>1, <1>2, VisitFields DEF Placed, RegIs, Inv, SignUpTypeOK
    <2> QED
      BY <2>1, <2>2, <2>3 DEF Placed
  <1>7. Overlaps'
    BY <1>1, <1>2 DEF Overlaps, RegIs, Registering, Visiting, Inv
  <1>8. OwnForm'
    BY <1>1, <1>2, <1>3 DEF OwnForm, RegIs, Registering, Clean, Inv, SignUpTypeOK
  <1>9. OneCode'
    BY <1>1, <1>2, <1>3 DEF OneCode, RegIs, Clean, Inv, SignUpTypeOK
  <1>10. CodeOfForm'
    BY <1>1, <1>2, <1>3 DEF CodeOfForm, RegIs, Clean, Inv, SignUpTypeOK, Placed
  <1>11. ReadStays'
    BY <1>1, <1>2, <1>3, VisitFields
       DEF ReadStays, Overlaps, Placed, Registering, Visiting, Clean, Provisioning, Inv, SignUpTypeOK
  <1>12. SpentOnce' /\ RowsMade'
    BY <1>1, <1>2, <1>3 DEF SpentOnce, RowsMade, Clean, Past, Inv, SignUpTypeOK
  <1> QED
    BY <1>4, <1>6, <1>7, <1>8, <1>9, <1>10, <1>11, <1>12 DEF Inv

LEMMA StoreKeeps ==
  ASSUME Inv, NEW r \in Registers, RegisterStore(r)
  PROVE  Inv'
  <1>1. PICK pc \in {"mailed", "over"} :
        /\ reg[r].pc = "store" /\ RegGoes(r, pc)
        /\ UNCHANGED <<held, expired, visit, profiles, accounts, keys, crossed, slipped>>
        /\ otps' = otps \cup {r} \/ otps' = otps
    BY DEF RegisterStore
  <1>2. reg' \in [Registers -> Reg] /\ RegIs(r, pc, reg[r].m)
    BY <1>1, RegGoing DEF Inv, SignUpTypeOK
  <1>3. SignUpTypeOK'
    BY <1>1, <1>2 DEF Inv, SignUpTypeOK
  <1>4. reg[r].m \in Emails /\ held[reg[r].m] \in Registers \cup {Null}
    BY <1>1, RegFields DEF Inv, SignUpTypeOK
  <1>5. Placed'
    <2>1. /\ \A s \in otps' : reg'[s].pc \in {"mailed", "over"}
          /\ \A v \in keys' : visit'[v].pc \in {"forget", "session", "shown", "over"}
      BY <1>1, <1>2 DEF Placed, RegIs, Inv, SignUpTypeOK
    <2>2. \A n \in Emails : held'[n] # Null => reg'[held'[n]].m = n
      BY <1>1, <1>2, SignUpAssumption DEF Placed, RegIs, Inv, SignUpTypeOK
    <2>3. \A v \in Visits : visit'[v].pc # "idle" =>
            /\ reg'[visit'[v].code].m = visit'[v].m
            /\ reg'[visit'[v].code].pc \in {"mailed", "over"}
      BY <1>1, <1>2, VisitFields DEF Placed, RegIs, Inv, SignUpTypeOK
    <2> QED
      BY <2>1, <2>2, <2>3 DEF Placed
  <1>6. Overlaps'
    BY <1>1, <1>2 DEF Overlaps, RegIs, Registering, Visiting, Inv
  <1>7. OwnForm'
    BY <1>1, <1>2 DEF OwnForm, RegIs, Registering, Clean, Overlaps, Inv, SignUpTypeOK
  <1>8. OneCode'
    BY <1>1, <1>2 DEF OneCode, RegIs, Clean, OwnForm, Registering, Inv, SignUpTypeOK
  <1>9. CodeOfForm'
    BY <1>1, <1>2, <1>4 DEF CodeOfForm, RegIs, Clean, OwnForm, Registering, Inv, SignUpTypeOK
  <1>10. ReadStays'
    BY <1>1, <1>2, VisitFields DEF ReadStays, Clean, Provisioning, Inv, SignUpTypeOK
  <1>11. SpentOnce' /\ RowsMade'
    <2>1. \A v \in Visits : visit[v].pc # "idle" => visit[v].code # r
      BY <1>1 DEF Placed, Inv
    <2> QED
      BY <1>1, <2>1 DEF SpentOnce, RowsMade, Placed, Clean, Past, Inv, SignUpTypeOK
  <1> QED
    BY <1>3, <1>5, <1>6, <1>7, <1>8, <1>9, <1>10, <1>11 DEF Inv

LEMMA ExpiryKeeps ==
  ASSUME Inv, NEW r \in Registers, CodeExpires(r)
  PROVE  Inv'
  BY DEF CodeExpires, Inv, SignUpTypeOK, Placed, Overlaps, OwnForm, OneCode, CodeOfForm, ReadStays,
         SpentOnce, RowsMade, Registering, Visiting, Clean, Past, Provisioning

-----------------------------------------------------------------------------
(* POST /developers/verify *)

LEMMA ReadKeeps ==
  ASSUME Inv, NEW v \in Visits, NEW m \in Emails, NEW r \in Registers, VerifyRead(v, m, r)
  PROVE  Inv'
  <1>1. PICK pc \in {"drop", "spend"} :
        /\ visit[v].pc = "idle" /\ r \in otps /\ reg[r].m = m
        /\ visit' = [visit EXCEPT ![v] = [pc |-> pc, m |-> m, code |-> r, form |-> Null]]
        /\ UNCHANGED <<held, otps, expired, reg, profiles, accounts, keys, slipped>>
    BY DEF VerifyRead, CodesOf
  <1> DEFINE new == [pc |-> pc, m |-> m, code |-> r, form |-> Null]
  <1>2. new \in Visit /\ new.pc = pc /\ new.m = m /\ new.code = r /\ new.form = Null
    BY DEF Visit
  <1>3. visit' = [visit EXCEPT ![v] = new]
    BY <1>1
  <1> HIDE DEF new
  <1>4. visit' \in [Visits -> Visit] /\ VisitIs(v, pc, m, r, Null)
    BY <1>2, <1>3 DEF VisitIs, Inv, SignUpTypeOK
  <1>5. /\ crossed \subseteq crossed' /\ crossed' \subseteq Registers \cup Visits
        /\ \A s \in Registers : (Registering(s) /\ reg[s].m = m) => {v, s} \subseteq crossed'
        /\ \A w \in Visits : (Visiting(w) /\ visit[w].m = m) => {v, w} \subseteq crossed'
    BY DEF VerifyRead, Begin, Running, Inv, SignUpTypeOK
  <1>6. v \notin keys /\ held[m] \in Registers \cup {Null}
    BY <1>1 DEF Inv, SignUpTypeOK, Placed
  <1>7. SignUpTypeOK'
    BY <1>1, <1>4, <1>5 DEF Inv, SignUpTypeOK
  <1>8. Placed'
    BY <1>1, <1>4, <1>6 DEF Placed, VisitIs, Inv, SignUpTypeOK
  <1>9. Overlaps'
    BY <1>1, <1>4, <1>5 DEF Overlaps, VisitIs, Registering, Visiting, Inv
  <1>10. OwnForm' /\ OneCode' /\ CodeOfForm'
    BY <1>1, <1>5 DEF OwnForm, OneCode, CodeOfForm, Registering, Clean, Inv
  <1>11. ReadStays'
    <2>1. ASSUME v \notin crossed', held[m] # Null PROVE reg[held[m]].pc # "clear"
      BY <1>5, <1>6, <2>1 DEF Placed, Registering, Inv
    <2>2. ASSUME v \notin crossed', held[m] # Null, Clean(held[m])', Clean(r)' PROVE held[m] = r
      BY <1>1, <1>5, <2>1, <2>2 DEF CodeOfForm, Clean, Inv
    <2> QED
      BY <1>1, <1>4, <1>5, <1>6, <2>2 DEF ReadStays, VisitIs, Clean, Provisioning, Inv
  <1>12. SpentOnce' /\ RowsMade'
    BY <1>1, <1>4, <1>5, <1>6 DEF SpentOnce, RowsMade, VisitIs, Clean, Past, Inv
  <1> QED
    BY <1>7, <1>8, <1>9, <1>10, <1>11, <1>12 DEF Inv

LEMMA DropKeeps ==
  ASSUME Inv, NEW v \in Visits, VerifyDrop(v)
  PROVE  Inv'
  <1>1. /\ visit[v].pc = "drop"
        /\ UNCHANGED <<held, expired, reg, profiles, accounts, keys, crossed, slipped>>
        /\ otps' \subseteq otps /\ otps \ {visit[v].code} \subseteq otps'
    BY DEF VerifyDrop, Slips
  <1>2. PICK pc \in VisitPcs \ {"idle"} :
          /\ pc = "over"
          /\ visit' \in [Visits -> Visit]
          /\ VisitIs(v, pc, visit[v].m, visit[v].code, visit[v].form)
    BY <1>1, VisitGoing, VisitFields DEF VerifyDrop, VisitPcs, Inv, SignUpTypeOK
  <1>3. SignUpTypeOK'
    BY <1>1, <1>2 DEF Inv, SignUpTypeOK
  <1>4. Placed' /\ Overlaps'
    BY <1>1, <1>2 DEF Placed, Overlaps, VisitIs, Registering, Visiting, Inv, SignUpTypeOK
  <1>5. OwnForm' /\ OneCode' /\ CodeOfForm'
    BY <1>1, <1>2
       DEF OwnForm, OneCode, CodeOfForm, Overlaps, Visiting, Registering, Clean, Inv, SignUpTypeOK
  <1>6. ReadStays'
    BY <1>1, <1>2, VisitFields
       DEF ReadStays, VisitIs, Overlaps, Visiting, Clean, Provisioning, Placed, Inv, SignUpTypeOK
  <1>7. SpentOnce'
    BY <1>1, <1>2 DEF SpentOnce, VisitIs, Clean, Past, Inv, SignUpTypeOK
  <1>8. RowsMade'
    BY <1>1, <1>2 DEF RowsMade, VisitIs, Placed, Inv, SignUpTypeOK
  <1> QED
    BY <1>3, <1>4, <1>5, <1>6, <1>7, <1>8 DEF Inv

LEMMA SpendKeeps ==
  ASSUME Inv, NEW v \in Visits, VerifySpend(v)
  PROVE  Inv'
  <1>1. /\ visit[v].pc = "spend"
        /\ UNCHANGED <<held, expired, reg, profiles, accounts, keys, crossed>>
        /\ \/ otps' = otps \ {visit[v].code} /\ slipped' = slipped
           \/ otps' = otps /\ slipped' = slipped \cup {v}
    BY DEF VerifySpend, Slips, Spent
  <1>2. PICK pc \in VisitPcs \ {"idle"} :
          /\ pc = "form"
          /\ visit' \in [Visits -> Visit]
          /\ VisitIs(v, pc, visit[v].m, visit[v].code, visit[v].form)
    BY <1>1, VisitGoing, VisitFields DEF VerifySpend, VisitPcs, Inv, SignUpTypeOK
  <1>3. SignUpTypeOK'
    BY <1>1, <1>2 DEF Inv, SignUpTypeOK
  <1>4. Placed' /\ Overlaps'
    BY <1>1, <1>2 DEF Placed, Overlaps, VisitIs, Registering, Visiting, Inv, SignUpTypeOK
  <1>5. OwnForm' /\ OneCode' /\ CodeOfForm'
    BY <1>1, <1>2
       DEF OwnForm, OneCode, CodeOfForm, Overlaps, Visiting, Registering, Clean, Inv, SignUpTypeOK
  <1>6. ReadStays'
    BY <1>1, <1>2, VisitFields
       DEF ReadStays, VisitIs, Overlaps, Visiting, Clean, Provisioning, Placed, Inv, SignUpTypeOK
  <1>7. SpentOnce'
    <2>1. Clean(v)' => otps' = otps \ {visit[v].code} /\ visit[v].code \in otps
      BY <1>1 DEF ReadStays, Clean, Inv
    <2>2. \A w \in Visits : (w # v /\ Past(w)' /\ Clean(w)') =>
            Past(w) /\ Clean(w) /\ visit'[w].code = visit[w].code
      BY <1>1, <1>2 DEF VisitIs, Clean, Past
    <2>3. \A w \in Visits : (w # v /\ Past(w)' /\ Clean(w)' /\ Clean(v)') =>
            visit[w].code # visit[v].code
      BY <2>1, <2>2 DEF SpentOnce, Inv
    <2>4. visit'[v].code = visit[v].code /\ otps' \subseteq otps
      BY <1>1, <1>2 DEF VisitIs
    <2> QED
      BY <2>1, <2>2, <2>3, <2>4 DEF SpentOnce, Inv
  <1>8. RowsMade'
    BY <1>1, <1>2 DEF RowsMade, VisitIs, Placed, Inv, SignUpTypeOK
  <1> QED
    BY <1>3, <1>4, <1>5, <1>6, <1>7, <1>8 DEF Inv

LEMMA InsertProfileKeeps ==
  ASSUME Inv, NEW v \in Visits, InsertProfile(v)
  PROVE  Inv'
  <1>1. /\ visit[v].pc = "profile"
        /\ UNCHANGED <<held, otps, expired, reg, accounts, keys, crossed, slipped>>
        /\ \/ profiles' = profiles \cup {v}
           \/ profiles' = profiles
    BY DEF InsertProfile, Slips
  <1>2. PICK pc \in VisitPcs \ {"idle"} :
          /\ \/ pc = "account" /\ profiles' = profiles \cup {v}
             \/ pc = "over" /\ profiles' = profiles
          /\ visit' \in [Visits -> Visit]
          /\ VisitIs(v, pc, visit[v].m, visit[v].code, visit[v].form)
    BY <1>1, VisitGoing, VisitFields DEF InsertProfile, VisitPcs, Inv, SignUpTypeOK
  <1>3. SignUpTypeOK'
    BY <1>1, <1>2 DEF Inv, SignUpTypeOK
  <1>4. Placed' /\ Overlaps'
    BY <1>1, <1>2 DEF Placed, Overlaps, VisitIs, Registering, Visiting, Inv, SignUpTypeOK
  <1>5. OwnForm' /\ OneCode' /\ CodeOfForm'
    BY <1>1, <1>2
       DEF OwnForm, OneCode, CodeOfForm, Overlaps, Visiting, Registering, Clean, Inv, SignUpTypeOK
  <1>6. ReadStays'
    BY <1>1, <1>2, VisitFields
       DEF ReadStays, VisitIs, Overlaps, Visiting, Clean, Provisioning, Placed, Inv, SignUpTypeOK
  <1>7. SpentOnce'
    BY <1>1, <1>2 DEF SpentOnce, VisitIs, Clean, Past, Inv, SignUpTypeOK
  <1>8. RowsMade'
    BY <1>1, <1>2 DEF RowsMade, VisitIs, Placed, Inv, SignUpTypeOK
  <1> QED
    BY <1>3, <1>4, <1>5, <1>6, <1>7, <1>8 DEF Inv

LEMMA InsertAccountKeeps ==
  ASSUME Inv, NEW v \in Visits, InsertAccount(v)
  PROVE  Inv'
  <1>1. /\ visit[v].pc = "account"
        /\ UNCHANGED <<held, otps, expired, reg, profiles, keys, crossed, slipped>>
        /\ \/ accounts' = accounts \cup {v}
           \/ accounts' = accounts
    BY DEF InsertAccount, Slips
  <1>2. PICK pc \in VisitPcs \ {"idle"} :
          /\ \/ pc = "key" /\ accounts' = accounts \cup {v}
             \/ pc = "undoProfile" /\ accounts' = accounts
          /\ visit' \in [Visits -> Visit]
          /\ VisitIs(v, pc, visit[v].m, visit[v].code, visit[v].form)
    BY <1>1, VisitGoing, VisitFields DEF InsertAccount, VisitPcs, Inv, SignUpTypeOK
  <1>3. SignUpTypeOK'
    BY <1>1, <1>2 DEF Inv, SignUpTypeOK
  <1>4. Placed' /\ Overlaps'
    BY <1>1, <1>2 DEF Placed, Overlaps, VisitIs, Registering, Visiting, Inv, SignUpTypeOK
  <1>5. OwnForm' /\ OneCode' /\ CodeOfForm'
    BY <1>1, <1>2
       DEF OwnForm, OneCode, CodeOfForm, Overlaps, Visiting, Registering, Clean, Inv, SignUpTypeOK
  <1>6. ReadStays'
    BY <1>1, <1>2, VisitFields
       DEF ReadStays, VisitIs, Overlaps, Visiting, Clean, Provisioning, Placed, Inv, SignUpTypeOK
  <1>7. SpentOnce'
    BY <1>1, <1>2 DEF SpentOnce, VisitIs, Clean, Past, Inv, SignUpTypeOK
  <1>8. RowsMade'
    BY <1>1, <1>2 DEF RowsMade, VisitIs, Placed, Inv, SignUpTypeOK
  <1> QED
    BY <1>3, <1>4, <1>5, <1>6, <1>7, <1>8 DEF Inv

LEMMA InsertKeyKeeps ==
  ASSUME Inv, NEW v \in Visits, InsertKey(v)
  PROVE  Inv'
  <1>1. /\ visit[v].pc = "key"
        /\ UNCHANGED <<held, otps, expired, reg, profiles, accounts, crossed, slipped>>
        /\ \/ keys' = keys \cup {v}
           \/ keys' = keys
    BY DEF InsertKey, Slips
  <1>2. PICK pc \in VisitPcs \ {"idle"} :
          /\ \/ pc = "forget" /\ keys' = keys \cup {v}
             \/ pc = "undoAccount" /\ keys' = keys
          /\ visit' \in [Visits -> Visit]
          /\ VisitIs(v, pc, visit[v].m, visit[v].code, visit[v].form)
    BY <1>1, VisitGoing, VisitFields DEF InsertKey, KeyRefused, VisitPcs, Inv, SignUpTypeOK
  <1>3. SignUpTypeOK'
    BY <1>1, <1>2 DEF Inv, SignUpTypeOK
  <1>4. Placed' /\ Overlaps'
    BY <1>1, <1>2 DEF Placed, Overlaps, VisitIs, Registering, Visiting, Inv, SignUpTypeOK
  <1>5. OwnForm' /\ OneCode' /\ CodeOfForm'
    BY <1>1, <1>2
       DEF OwnForm, OneCode, CodeOfForm, Overlaps, Visiting, Registering, Clean, Inv, SignUpTypeOK
  <1>6. ReadStays'
    BY <1>1, <1>2, VisitFields
       DEF ReadStays, VisitIs, Overlaps, Visiting, Clean, Provisioning, Placed, Inv, SignUpTypeOK
  <1>7. SpentOnce'
    BY <1>1, <1>2 DEF SpentOnce, VisitIs, Clean, Past, Inv, SignUpTypeOK
  <1>8. RowsMade'
    BY <1>1, <1>2 DEF RowsMade, VisitIs, Placed, Inv, SignUpTypeOK
  <1> QED
    BY <1>3, <1>4, <1>5, <1>6, <1>7, <1>8 DEF Inv

LEMMA UndoAccountKeeps ==
  ASSUME Inv, NEW v \in Visits, UndoAccount(v)
  PROVE  Inv'
  <1>1. /\ visit[v].pc = "undoAccount"
        /\ UNCHANGED <<held, otps, expired, reg, profiles, keys, crossed>>
        /\ \/ accounts' = accounts \ {v} /\ slipped' = slipped
           \/ accounts' = accounts /\ slipped' = slipped \cup {v}
    BY DEF UndoAccount, Slips
  <1>2. PICK pc \in VisitPcs \ {"idle"} :
          /\ pc = "undoProfile"
          /\ visit' \in [Visits -> Visit]
          /\ VisitIs(v, pc, visit[v].m, visit[v].code, visit[v].form)
    BY <1>1, VisitGoing, VisitFields DEF UndoAccount, VisitPcs, Inv, SignUpTypeOK
  <1>3. SignUpTypeOK'
    BY <1>1, <1>2 DEF Inv, SignUpTypeOK
  <1>4. Placed' /\ Overlaps'
    BY <1>1, <1>2 DEF Placed, Overlaps, VisitIs, Registering, Visiting, Inv, SignUpTypeOK
  <1>5. OwnForm' /\ OneCode' /\ CodeOfForm'
    BY <1>1, <1>2
       DEF OwnForm, OneCode, CodeOfForm, Overlaps, Visiting, Registering, Clean, Inv, SignUpTypeOK
  <1>6. ReadStays'
    BY <1>1, <1>2, VisitFields
       DEF ReadStays, VisitIs, Overlaps, Visiting, Clean, Provisioning, Placed, Inv, SignUpTypeOK
  <1>7. SpentOnce'
    BY <1>1, <1>2 DEF SpentOnce, VisitIs, Clean, Past, Inv, SignUpTypeOK
  <1>8. RowsMade'
    BY <1>1, <1>2 DEF RowsMade, VisitIs, Placed, Inv, SignUpTypeOK
  <1> QED
    BY <1>3, <1>4, <1>5, <1>6, <1>7, <1>8 DEF Inv

LEMMA UndoProfileKeeps ==
  ASSUME Inv, NEW v \in Visits, UndoProfile(v)
  PROVE  Inv'
  <1>1. /\ visit[v].pc = "undoProfile"
        /\ UNCHANGED <<held, otps, expired, reg, accounts, keys, crossed>>
        /\ \/ profiles' = profiles \ {v} /\ slipped' = slipped
           \/ profiles' = profiles /\ slipped' = slipped \cup {v}
    BY DEF UndoProfile, Slips
  <1>2. PICK pc \in VisitPcs \ {"idle"} :
          /\ pc = "over"
          /\ visit' \in [Visits -> Visit]
          /\ VisitIs(v, pc, visit[v].m, visit[v].code, visit[v].form)
    BY <1>1, VisitGoing, VisitFields DEF UndoProfile, VisitPcs, Inv, SignUpTypeOK
  <1>3. SignUpTypeOK'
    BY <1>1, <1>2 DEF Inv, SignUpTypeOK
  <1>4. Placed' /\ Overlaps'
    BY <1>1, <1>2 DEF Placed, Overlaps, VisitIs, Registering, Visiting, Inv, SignUpTypeOK
  <1>5. OwnForm' /\ OneCode' /\ CodeOfForm'
    BY <1>1, <1>2
       DEF OwnForm, OneCode, CodeOfForm, Overlaps, Visiting, Registering, Clean, Inv, SignUpTypeOK
  <1>6. ReadStays'
    BY <1>1, <1>2, VisitFields
       DEF ReadStays, VisitIs, Overlaps, Visiting, Clean, Provisioning, Placed, Inv, SignUpTypeOK
  <1>7. SpentOnce'
    BY <1>1, <1>2 DEF SpentOnce, VisitIs, Clean, Past, Inv, SignUpTypeOK
  <1>8. RowsMade'
    BY <1>1, <1>2 DEF RowsMade, VisitIs, Placed, Inv, SignUpTypeOK
  <1> QED
    BY <1>3, <1>4, <1>5, <1>6, <1>7, <1>8 DEF Inv

LEMMA ClearFormKeeps ==
  ASSUME Inv, NEW v \in Visits, ClearForm(v)
  PROVE  Inv'
  <1>1. /\ visit[v].pc = "forget"
        /\ UNCHANGED <<otps, expired, reg, profiles, accounts, keys, crossed, slipped>>
        /\ held' \in {held, [held EXCEPT ![visit[v].m] = Null]}
    BY DEF ClearForm, Slips
  <1>2. PICK pc \in VisitPcs \ {"idle"} :
          /\ pc = "session"
          /\ visit' \in [Visits -> Visit]
          /\ VisitIs(v, pc, visit[v].m, visit[v].code, visit[v].form)
    BY <1>1, VisitGoing, VisitFields DEF ClearForm, VisitPcs, Inv, SignUpTypeOK
  <1>3. SignUpTypeOK'
    BY <1>1, <1>2 DEF Inv, SignUpTypeOK
  <1>4. Placed' /\ Overlaps'
    BY <1>1, <1>2 DEF Placed, Overlaps, VisitIs, Registering, Visiting, Inv, SignUpTypeOK
  <1>5. OwnForm' /\ OneCode' /\ CodeOfForm'
    <2>1. visit[v].m \in Emails /\ Visiting(v)
      BY <1>1, VisitFields DEF Visiting, Inv, SignUpTypeOK
    <2>2. \A m \in Emails : held'[m] = held[m] \/ (m = visit[v].m /\ held'[m] = Null)
      BY <1>1, <2>1 DEF Inv, SignUpTypeOK
    <2>3. OwnForm'
      <3>1. \A r \in Registers : Registering(r) => reg[r].m \in Emails
        BY RegFields DEF Registering, Inv, SignUpTypeOK
      <3>2. \A r \in Registers : (Registering(r) /\ reg[r].m = visit[v].m) => r \in crossed
        BY <2>1 DEF Overlaps, Inv
      <3> QED
        BY <1>1, <2>2, <3>1, <3>2 DEF OwnForm, Registering, Clean, Inv
    <2>4. OneCode' /\ CodeOfForm'
      BY <1>1, <2>2 DEF OneCode, CodeOfForm, Clean, Inv
    <2> QED
      BY <2>3, <2>4
  <1>6. ReadStays'
    BY <1>1, <1>2, VisitFields
       DEF ReadStays, VisitIs, Overlaps, Visiting, Clean, Provisioning, Placed, Inv, SignUpTypeOK
  <1>7. SpentOnce'
    BY <1>1, <1>2 DEF SpentOnce, VisitIs, Clean, Past, Inv, SignUpTypeOK
  <1>8. RowsMade'
    BY <1>1, <1>2 DEF RowsMade, VisitIs, Placed, Inv, SignUpTypeOK
  <1> QED
    BY <1>3, <1>4, <1>5, <1>6, <1>7, <1>8 DEF Inv

LEMMA OpenSessionKeeps ==
  ASSUME Inv, NEW v \in Visits, CreateSession(v)
  PROVE  Inv'
  <1>1. /\ visit[v].pc = "session"
        /\ UNCHANGED <<held, otps, expired, reg, profiles, accounts, keys, crossed, slipped>>
    BY DEF CreateSession, Slips
  <1>2. PICK pc \in VisitPcs \ {"idle"} :
          /\ pc \in {"shown", "over"}
          /\ visit' \in [Visits -> Visit]
          /\ VisitIs(v, pc, visit[v].m, visit[v].code, visit[v].form)
    BY <1>1, VisitGoing, VisitFields DEF CreateSession, VisitPcs, Inv, SignUpTypeOK
  <1>3. SignUpTypeOK'
    BY <1>1, <1>2 DEF Inv, SignUpTypeOK
  <1>4. Placed' /\ Overlaps'
    BY <1>1, <1>2 DEF Placed, Overlaps, VisitIs, Registering, Visiting, Inv, SignUpTypeOK
  <1>5. OwnForm' /\ OneCode' /\ CodeOfForm'
    BY <1>1, <1>2
       DEF OwnForm, OneCode, CodeOfForm, Overlaps, Visiting, Registering, Clean, Inv, SignUpTypeOK
  <1>6. ReadStays'
    BY <1>1, <1>2, VisitFields
       DEF ReadStays, VisitIs, Overlaps, Visiting, Clean, Provisioning, Placed, Inv, SignUpTypeOK
  <1>7. SpentOnce'
    BY <1>1, <1>2 DEF SpentOnce, VisitIs, Clean, Past, Inv, SignUpTypeOK
  <1>8. RowsMade'
    BY <1>1, <1>2 DEF RowsMade, VisitIs, Placed, Inv, SignUpTypeOK
  <1> QED
    BY <1>3, <1>4, <1>5, <1>6, <1>7, <1>8 DEF Inv

LEMMA FormKeeps ==
  ASSUME Inv, NEW v \in Visits, VerifyForm(v)
  PROVE  Inv'
  <1> DEFINE form == held[visit[v].m]
             pc   == IF form = Null THEN "over" ELSE "profile"
             new  == [pc |-> pc, m |-> visit[v].m, code |-> visit[v].code, form |-> form]
  <1>1. /\ visit[v].pc = "form"
        /\ visit' = [visit EXCEPT ![v].pc = pc, ![v].form = form]
        /\ UNCHANGED <<held, otps, expired, reg, profiles, accounts, keys, crossed, slipped>>
    BY DEF VerifyForm, OnFile
  <1>2. /\ visit[v].m \in Emails /\ visit[v].code \in Registers
        /\ form \in Registers \cup {Null}
    BY <1>1, VisitFields DEF Inv, SignUpTypeOK
  <1>3. visit' = [visit EXCEPT ![v] = new]
    BY <1>1, FormGoing DEF Inv, SignUpTypeOK
  <1>4. /\ new \in Visit /\ new.pc = pc /\ new.m = visit[v].m /\ new.code = visit[v].code
        /\ new.form = form
    BY <1>2 DEF Visit
  <1> HIDE DEF new
  <1>5. visit' \in [Visits -> Visit] /\ VisitIs(v, pc, visit[v].m, visit[v].code, form)
    BY <1>3, <1>4 DEF VisitIs, Inv, SignUpTypeOK
  <1>6. SignUpTypeOK'
    BY <1>1, <1>5 DEF Inv, SignUpTypeOK
  <1>a. pc \in {"over", "profile"} /\ (pc = "over" <=> form = Null)
    OBVIOUS
  <1>b. v \notin keys
    BY <1>1 DEF Placed, Inv
  <1> HIDE DEF pc
  <1>7. Placed' /\ Overlaps'
    <2>1. Placed'
      BY <1>1, <1>5, <1>a, <1>b DEF Placed, VisitIs, Inv, SignUpTypeOK
    <2>2. Overlaps'
      BY <1>1, <1>5, <1>a DEF Overlaps, VisitIs, Registering, Visiting, Inv
    <2> QED
      BY <2>1, <2>2
  <1>8. OwnForm' /\ OneCode' /\ CodeOfForm'
    BY <1>1 DEF OwnForm, OneCode, CodeOfForm, Registering, Clean, Inv
  <1>9. ReadStays'
    <2> DEFINE Stays(w) ==
                 /\ visit[w].pc = "spend" => visit[w].code \in otps
                 /\ (visit[w].pc \in {"spend", "form"} /\ held[visit[w].m] # Null
                       /\ Clean(held[visit[w].m]) /\ Clean(visit[w].code))
                         => held[visit[w].m] = visit[w].code
                 /\ (Provisioning(w) /\ Clean(visit[w].form) /\ Clean(visit[w].code))
                         => visit[w].form = visit[w].code
    <2>1. ASSUME NEW w \in Visits, w # v, Clean(w)' PROVE Stays(w)'
      <3>1. /\ visit'[w].pc = visit[w].pc /\ visit'[w].m = visit[w].m
            /\ visit'[w].code = visit[w].code /\ visit'[w].form = visit[w].form
        BY <1>5, <2>1 DEF VisitIs
      <3>2. Stays(w)
        BY <1>1, <2>1 DEF ReadStays, Clean, Inv
      <3> QED
        BY <1>1, <3>1, <3>2 DEF Clean, Provisioning
    <2>2. ASSUME Clean(v)' PROVE Stays(v)'
      <3>1. Clean(form) /\ Clean(visit[v].code) /\ form # Null => form = visit[v].code
        BY <1>1, <2>2 DEF ReadStays, Clean, Inv
      <3>2. /\ visit'[v].pc = pc /\ visit'[v].m = visit[v].m
            /\ visit'[v].code = visit[v].code /\ visit'[v].form = form
        BY <1>5 DEF VisitIs
      <3> QED
        BY <1>1, <1>a, <1>b, <3>1, <3>2 DEF Clean, Provisioning
    <2> QED
      BY <2>1, <2>2 DEF ReadStays
  <1>10. SpentOnce'
    BY <1>1, <1>5, <1>a, <1>b DEF SpentOnce, VisitIs, Clean, Past, Inv
  <1>11. RowsMade'
    BY <1>1, <1>5, <1>a, <1>b DEF RowsMade, VisitIs, Placed, Inv
  <1> QED
    BY <1>6, <1>7, <1>8, <1>9, <1>10, <1>11 DEF Inv

-----------------------------------------------------------------------------
LEMMA RestartKeeps ==
  ASSUME Inv, SignUpRestart
  PROVE  Inv'
  <1> DEFINE cut == UNION {Running(m) : m \in Emails}
  <1>1. /\ \A r \in Registers : r \in cut <=> Registering(r)
        /\ \A v \in Visits : v \in cut <=> Visiting(v)
        /\ cut \subseteq Registers \cup Visits
    <2>1. \A r \in Registers : Registering(r) => reg[r].m \in Emails
      BY RegFields DEF Registering, Inv, SignUpTypeOK
    <2>2. \A v \in Visits : Visiting(v) => visit[v].m \in Emails
      BY VisitFields DEF Visiting, Inv, SignUpTypeOK
    <2> QED
      BY <2>1, <2>2, SignUpAssumption DEF Running
  <1>2. /\ reg' = [r \in Registers |-> IF r \in cut THEN [reg[r] EXCEPT !.pc = "over"] ELSE reg[r]]
        /\ visit' = [v \in Visits |->
                       IF v \in cut THEN [visit[v] EXCEPT !.pc = "over"] ELSE visit[v]]
        /\ slipped' = slipped \cup cut
        /\ UNCHANGED <<held, otps, expired, profiles, accounts, keys, crossed>>
    BY DEF SignUpRestart
  <1> HIDE DEF cut
  <1>3. ASSUME NEW r \in Registers
        PROVE  /\ reg'[r] \in Reg /\ reg'[r].m = reg[r].m
               /\ reg'[r].pc = IF Registering(r) THEN "over" ELSE reg[r].pc
    <2>1. CASE Registering(r)
      <3> DEFINE new == [pc |-> "over", m |-> reg[r].m]
      <3>1. [reg[r] EXCEPT !.pc = "over"] = new
        BY RegFields DEF Inv, SignUpTypeOK
      <3>2. new \in Reg /\ new.pc = "over" /\ new.m = reg[r].m
        BY <2>1, RegFields DEF Registering, Reg, Inv, SignUpTypeOK
      <3>3. reg'[r] = new
        BY <1>1, <1>2, <2>1, <3>1
      <3> HIDE DEF new
      <3> QED
        BY <2>1, <3>2, <3>3
    <2>2. CASE ~Registering(r)
      BY <1>1, <1>2, <2>2 DEF Inv, SignUpTypeOK
    <2> QED
      BY <2>1, <2>2
  <1>4. ASSUME NEW v \in Visits
        PROVE  /\ visit'[v] \in Visit /\ visit'[v].m = visit[v].m
               /\ visit'[v].code = visit[v].code /\ visit'[v].form = visit[v].form
               /\ visit'[v].pc = IF Visiting(v) THEN "over" ELSE visit[v].pc
    <2>1. CASE Visiting(v)
      <3> DEFINE new == [pc |-> "over", m |-> visit[v].m, code |-> visit[v].code,
                         form |-> visit[v].form]
      <3>1. [visit[v] EXCEPT !.pc = "over"] = new
        BY VisitFields DEF Inv, SignUpTypeOK
      <3>2. /\ new \in Visit /\ new.pc = "over" /\ new.m = visit[v].m
            /\ new.code = visit[v].code /\ new.form = visit[v].form
        BY <2>1, VisitFields DEF Visiting, Visit, Inv, SignUpTypeOK
      <3>3. visit'[v] = new
        BY <1>1, <1>2, <2>1, <3>1
      <3> HIDE DEF new
      <3> QED
        BY <2>1, <3>2, <3>3
    <2>2. CASE ~Visiting(v)
      BY <1>1, <1>2, <2>2 DEF Inv, SignUpTypeOK
    <2> QED
      BY <2>1, <2>2
  <1>5. SignUpTypeOK'
    <2>1. reg' \in [Registers -> Reg] /\ visit' \in [Visits -> Visit]
      BY <1>2, <1>3, <1>4
    <2> QED
      BY <1>1, <1>2, <2>1 DEF Inv, SignUpTypeOK
  <1>6. \A r \in Registers : ~Registering(r)' /\ (Registering(r) => r \in slipped')
    BY <1>1, <1>2, <1>3 DEF Registering
  <1>7. \A v \in Visits : ~Visiting(v)' /\ (Visiting(v) => v \in slipped')
    BY <1>1, <1>2, <1>4 DEF Visiting
  <1>8. Placed'
    <2>1. /\ \A r \in otps' : reg'[r].pc \in {"mailed", "over"}
          /\ \A v \in keys' : visit'[v].pc \in {"forget", "session", "shown", "over"}
      BY <1>2, <1>3, <1>4 DEF Placed, Inv, SignUpTypeOK
    <2>2. \A m \in Emails : held'[m] # Null => reg'[held'[m]].m = m
      BY <1>2, <1>3 DEF Placed, Inv, SignUpTypeOK
    <2>3. \A v \in Visits : visit'[v].pc # "idle" =>
            /\ reg'[visit'[v].code].m = visit'[v].m
            /\ reg'[visit'[v].code].pc \in {"mailed", "over"}
      BY <1>3, <1>4, VisitFields DEF Placed, Visiting, Inv, SignUpTypeOK
    <2> QED
      BY <2>1, <2>2, <2>3 DEF Placed
  <1>9. Overlaps' /\ OwnForm'
    BY <1>6, <1>7 DEF Overlaps, OwnForm
  <1>10. OneCode'
    BY <1>2, <1>3 DEF OneCode, Clean, Inv, SignUpTypeOK
  <1>11. CodeOfForm'
    BY <1>2, <1>3, <1>6 DEF CodeOfForm, Registering, Clean, Inv, SignUpTypeOK
  <1>12. ReadStays' /\ SpentOnce'
    BY <1>2, <1>4, <1>7 DEF ReadStays, SpentOnce, Visiting, Past, Provisioning, Clean, Inv, SignUpTypeOK
  <1>13. RowsMade'
    BY <1>2, <1>4, <1>7 DEF RowsMade, Visiting, Inv, SignUpTypeOK
  <1> QED
    BY <1>5, <1>8, <1>9, <1>10, <1>11, <1>12, <1>13 DEF Inv

-----------------------------------------------------------------------------
LEMMA NextInv == Inv /\ [SignUpNext]_signUp => Inv'
  <1> SUFFICES ASSUME Inv, [SignUpNext]_signUp PROVE Inv'
    OBVIOUS
  <1>1. ASSUME NEW r \in Registers, RegisterStep(r) PROVE Inv'
    BY <1>1, HoldKeeps, ClearKeeps, StoreKeeps, ExpiryKeeps DEF RegisterStep
  <1>2. ASSUME NEW v \in Visits, VisitStep(v) PROVE Inv'
    BY <1>2, ReadKeeps, DropKeeps, SpendKeeps, FormKeeps, InsertProfileKeeps, InsertAccountKeeps,
       InsertKeyKeeps, UndoAccountKeeps, UndoProfileKeeps, ClearFormKeeps, OpenSessionKeeps
       DEF VisitStep
  <1>3. CASE UNCHANGED signUp
    BY <1>3 DEF signUp, Inv, SignUpTypeOK, Placed, Overlaps, OwnForm, OneCode, CodeOfForm, ReadStays,
                SpentOnce, RowsMade, Registering, Visiting, Clean, Past, Provisioning
  <1> QED
    BY <1>1, <1>2, <1>3, RestartKeeps DEF SignUpNext

LEMMA AlwaysInv == SignUpSpec => []Inv
  BY InitInv, NextInv, PTL DEF SignUpSpec

\* Every variable keeps its type; in particular no developer is provisioned
\* from a form that is no longer on file.
THEOREM SignUpTypeCorrect == SignUpSpec => []SignUpTypeOK
  <1>1. Inv => SignUpTypeOK
    BY DEF Inv
  <1> QED
    BY <1>1, AlwaysInv, PTL

\* storeOtp leaves an address with one code, but for registrations that overlap
\* or lose a delete.
THEOREM OneCodeStored == SignUpSpec => []OneCode
  <1>1. Inv => OneCode
    BY DEF Inv
  <1> QED
    BY <1>1, AlwaysInv, PTL

\* verifyOtp: a code is accepted for one provisioning, and of the form that was
\* mailed with it, but for requests that overlap or lose a delete.
THEOREM CodeProvisionsItsForm == SignUpSpec => []CodeHonoured
  <1>1. Inv => CodeHonoured
    BY InvFollows DEF CodeHonoured
  <1> QED
    BY <1>1, AlwaysInv, PTL

\* provisionDeveloper: three rows or none, whatever overlaps, unless an undo is
\* refused or the process restarts.
THEOREM ProvisionsWhole == SignUpSpec => []WholeOrNothing
  BY InvFollows, AlwaysInv, PTL

-----------------------------------------------------------------------------
(* Requests, field by field: the provers take EXCEPT one field at a time. *)

Carries(pc, s, l, n, c, rest, t) ==
  [pc |-> pc, s |-> s, link |-> l, n |-> n, code |-> c, rest |-> rest, step |-> t]

WithPc(q, v)   == [q EXCEPT !.pc = v]
WithS(q, v)    == [q EXCEPT !.s = v]
WithLink(q, v) == [q EXCEPT !.link = v]
WithN(q, v)    == [q EXCEPT !.n = v]
WithCode(q, v) == [q EXCEPT !.code = v]
WithRest(q, v) == [q EXCEPT !.rest = v]
WithStep(q, v) == [q EXCEPT !.step = v]

LEMMA Fields ==
  ASSUME NEW pc, NEW s, NEW l, NEW n, NEW c, NEW rest, NEW t, NEW v
  PROVE  /\ WithPc(Carries(pc, s, l, n, c, rest, t), v)   = Carries(v, s, l, n, c, rest, t)
         /\ WithS(Carries(pc, s, l, n, c, rest, t), v)    = Carries(pc, v, l, n, c, rest, t)
         /\ WithLink(Carries(pc, s, l, n, c, rest, t), v) = Carries(pc, s, v, n, c, rest, t)
         /\ WithN(Carries(pc, s, l, n, c, rest, t), v)    = Carries(pc, s, l, v, c, rest, t)
         /\ WithCode(Carries(pc, s, l, n, c, rest, t), v) = Carries(pc, s, l, n, v, rest, t)
         /\ WithRest(Carries(pc, s, l, n, c, rest, t), v) = Carries(pc, s, l, n, c, v, t)
         /\ WithStep(Carries(pc, s, l, n, c, rest, t), v) = Carries(pc, s, l, n, c, rest, v)
  BY DEF Carries, WithPc, WithS, WithLink, WithN, WithCode, WithRest, WithStep

LEMMA Carried ==
  ASSUME NEW pc, NEW s, NEW l, NEW n, NEW c, NEW rest, NEW t
  PROVE  LET q == Carries(pc, s, l, n, c, rest, t) IN
         /\ q.pc = pc /\ q.s = s /\ q.link = l /\ q.n = n /\ q.code = c /\ q.rest = rest
         /\ q.step = t
  BY DEF Carries

LEMMA CarriedTyped ==
  ASSUME NEW pc \in Pcs, NEW s \in Sessions \cup {None}, NEW l \in Links \cup {None},
         NEW n \in 0 .. MaxAttempts - 1, NEW c \in Codes \cup {None}, NEW rest \in SUBSET Codes,
         NEW t \in {0} \cup Steps
  PROVE  Carries(pc, s, l, n, c, rest, t) \in Req
  BY DEF Carries, Req

LEMMA OfReq ==
  ASSUME NEW q \in Req
  PROVE  /\ q = Carries(q.pc, q.s, q.link, q.n, q.code, q.rest, q.step)
         /\ q.pc \in Pcs /\ q.s \in Sessions \cup {None} /\ q.link \in Links \cup {None}
         /\ q.n \in 0 .. MaxAttempts - 1 /\ q.code \in Codes \cup {None}
         /\ q.rest \in SUBSET Codes /\ q.step \in {0} \cup Steps
  BY DEF Carries, Req

LEMMA Zero == 0 \in 0 .. MaxAttempts - 1
  BY LimitAssumption

LEMMA IdleIs == Idle = Carries("idle", None, None, 0, None, {}, 0) /\ Idle \in Req
  <1>1. Idle = Carries("idle", None, None, 0, None, {}, 0)
    BY DEF Idle, Carries
  <1> QED
    BY <1>1, Zero, CarriedTyped DEF Pcs

-----------------------------------------------------------------------------
(* What a step makes of the requests. *)

\* request r is q now, the others are what they were
Becomes(r, q) ==
  /\ req' \in [Requests -> Req]
  /\ \A x \in Requests : req'[x] = IF x = r THEN q ELSE req[x]

LEMMA Put ==
  ASSUME req \in [Requests -> Req], NEW r \in Requests, NEW q \in Req,
         req' = [req EXCEPT ![r] = q]
  PROVE  Becomes(r, q)
  BY DEF Becomes

LEMMA EndsPut ==
  ASSUME req \in [Requests -> Req], NEW r \in Requests, Ends(r)
  PROVE  Becomes(r, Carries("idle", None, None, 0, None, {}, 0))
  BY Put, IdleIs DEF Ends

LEMMA GoesPut ==
  ASSUME req \in [Requests -> Req], NEW r \in Requests, NEW pc \in Pcs, Goes(r, pc)
  PROVE  Becomes(r, Carries(pc, req[r].s, req[r].link, req[r].n, req[r].code, req[r].rest,
                            req[r].step))
  <1> DEFINE q == Carries(pc, req[r].s, req[r].link, req[r].n, req[r].code, req[r].rest,
                          req[r].step)
  <1>1. req[r] \in Req
    OBVIOUS
  <1>2. q \in Req
    BY <1>1, OfReq, CarriedTyped
  <1>3. WithPc(req[r], pc) = q
    BY <1>1, OfReq, Fields
  <1>4. req' = [req EXCEPT ![r] = WithPc(req[r], pc)]
    BY DEF Goes, WithPc
  <1> HIDE DEF q
  <1>5. Becomes(r, q)
    BY <1>2, <1>3, <1>4, Put
  <1> QED
    BY <1>5 DEF q

LEMMA LeftPut ==
  ASSUME req \in [Requests -> Req], NEW r \in Requests, NEW pc \in Pcs, Left(r, pc)
  PROVE  Becomes(r, Carries(pc, req[r].s, None, 0, None, {}, 0))
  <1>1. req[r].s \in Sessions \cup {None}
    BY OfReq
  <1>2. [Idle EXCEPT !.pc = pc, !.s = req[r].s] = WithS(WithPc(Idle, pc), req[r].s)
    BY DEF WithPc, WithS
  <1>3. WithS(WithPc(Idle, pc), req[r].s) = Carries(pc, req[r].s, None, 0, None, {}, 0)
    BY IdleIs, Fields
  <1>4. Carries(pc, req[r].s, None, 0, None, {}, 0) \in Req
    BY <1>1, Zero, CarriedTyped
  <1> QED
    BY <1>2, <1>3, <1>4, Put DEF Left

LEMMA AllIdle ==
  ASSUME req' = [r \in Requests |-> Idle]
  PROVE  /\ req' \in [Requests -> Req]
         /\ \A x \in Requests : req'[x] = Carries("idle", None, None, 0, None, {}, 0)
  BY IdleIs

\* a request of session s begins
LEMMA EntersPut ==
  ASSUME req \in [Requests -> Req], NEW r \in Requests, NEW s \in Sessions, NEW pc \in Pcs,
         Enters(r, [Idle EXCEPT !.pc = pc, !.s = s])
  PROVE  Becomes(r, Carries(pc, s, None, 0, None, {}, 0))
  <1>1. [Idle EXCEPT !.pc = pc, !.s = s] = WithS(WithPc(Idle, pc), s)
    BY DEF WithPc, WithS
  <1>2. WithS(WithPc(Idle, pc), s) = Carries(pc, s, None, 0, None, {}, 0)
    BY IdleIs, Fields
  <1>3. Carries(pc, s, None, 0, None, {}, 0) \in Req
    BY Zero, CarriedTyped
  <1> QED
    BY <1>1, <1>2, <1>3, Put DEF Enters

\* a step-up begins, with a code that is accepted or with one that is not
LEMMA TotpPut ==
  ASSUME TypeOK, NEW r \in Requests, NEW s \in Sessions, NEW t \in Steps, StepUpTotp(r, s, t)
  PROVE  \/ Fresh(t) /\ Becomes(r, Carries("clear", s, None, 0, None, {}, t))
         \/ Becomes(r, Carries("fail", s, None, failed, None, {}, 0))
  <1> DEFINE right == t \in Window /\ Fresh(t)
             pc == IF right THEN "clear" ELSE "fail"
             at == IF right THEN t ELSE 0
             q  == [Idle EXCEPT !.s = s, !.pc = pc, !.step = at]
             n  == IF q.pc = "clear" THEN 0 ELSE failed
  <1>1. q = WithStep(WithPc(WithS(Idle, s), pc), at)
    BY DEF WithStep, WithPc, WithS
  <1>2. q = Carries(pc, s, None, 0, None, {}, at)
    BY <1>1, IdleIs, Fields
  <1>3. q.pc = pc
    BY <1>2, Carried
  <1>4. req \in [Requests -> Req] /\ pc \in Pcs /\ at \in {0} \cup Steps
        /\ n \in 0 .. MaxAttempts - 1
    BY Zero DEF TypeOK, Pcs, MfaPcs
  <1>5. req' = [req EXCEPT ![r] = [q EXCEPT !.n = n]]
    BY DEF StepUpTotp, StepUp, Enters
  <1> HIDE DEF q, n
  <1>6. [q EXCEPT !.n = n] = WithN(q, n)
    BY DEF WithN
  <1>7. WithN(q, n) = Carries(pc, s, None, n, None, {}, at)
    BY <1>2, Fields
  <1>8. Becomes(r, Carries(pc, s, None, n, None, {}, at))
    BY <1>4, <1>5, <1>6, <1>7, CarriedTyped, Put
  <1> QED
    BY <1>3, <1>8 DEF n

LEMMA BackupPut ==
  ASSUME TypeOK, NEW r \in Requests, NEW s \in Sessions, NEW c \in Codes, StepUpBackup(r, s, c)
  PROVE  \/ c \in codes /\ Becomes(r, Carries("spend", s, None, failed, c, Remaining(c), 0))
         \/ Becomes(r, Carries("fail", s, None, failed, None, {}, 0))
  <1>1. /\ req \in [Requests -> Req] /\ {"spend", "fail"} \subseteq Pcs
        /\ failed \in 0 .. MaxAttempts - 1 /\ Remaining(c) \in SUBSET Codes
    BY DEF TypeOK, Pcs, MfaPcs, Remaining
  <1>2. CASE c \in codes
    <2> DEFINE q == [Idle EXCEPT !.s = s, !.pc = "spend", !.code = c, !.rest = Remaining(c)]
               n == IF q.pc = "clear" THEN 0 ELSE failed
    <2>1. q = WithRest(WithCode(WithPc(WithS(Idle, s), "spend"), c), Remaining(c))
      BY DEF WithRest, WithCode, WithPc, WithS
    <2>2. q = Carries("spend", s, None, 0, c, Remaining(c), 0)
      BY <2>1, IdleIs, Fields
    <2>3. n = failed
      BY <2>2, Carried
    <2>4. req' = [req EXCEPT ![r] = [q EXCEPT !.n = n]]
      BY <1>2 DEF StepUpBackup, StepUp, Enters
    <2> HIDE DEF q, n
    <2>5. [q EXCEPT !.n = n] = WithN(q, n)
      BY DEF WithN
    <2>6. WithN(q, n) = Carries("spend", s, None, failed, c, Remaining(c), 0)
      BY <2>2, <2>3, Fields
    <2> QED
      BY <1>1, <1>2, <2>4, <2>5, <2>6, CarriedTyped, Put
  <1>3. CASE c \notin codes
    <2> DEFINE q == [Idle EXCEPT !.s = s, !.pc = "fail"]
               n == IF q.pc = "clear" THEN 0 ELSE failed
    <2>1. q = WithPc(WithS(Idle, s), "fail")
      BY DEF WithPc, WithS
    <2>2. q = Carries("fail", s, None, 0, None, {}, 0)
      BY <2>1, IdleIs, Fields
    <2>3. n = failed
      BY <2>2, Carried
    <2>4. req' = [req EXCEPT ![r] = [q EXCEPT !.n = n]]
      BY <1>3 DEF StepUpBackup, StepUp, Enters
    <2> HIDE DEF q, n
    <2>5. [q EXCEPT !.n = n] = WithN(q, n)
      BY DEF WithN
    <2>6. WithN(q, n) = Carries("fail", s, None, failed, None, {}, 0)
      BY <2>2, <2>3, Fields
    <2> QED
      BY <1>1, <2>4, <2>5, <2>6, CarriedTyped, Put
  <1> QED
    BY <1>2, <1>3

\* a backup code that was not written off counts as a wrong one
LEMMA RefusedPut ==
  ASSUME req \in [Requests -> Req], NEW r \in Requests,
         req' = [req EXCEPT ![r].pc = "fail", ![r].code = None, ![r].rest = {}]
  PROVE  Becomes(r, Carries("fail", req[r].s, req[r].link, req[r].n, None, {}, req[r].step))
  <1>1. req' = [req EXCEPT ![r] = WithRest(WithCode(WithPc(req[r], "fail"), None), {})]
    <2> DEFINE one == [req EXCEPT ![r].pc = "fail"]
               two == [one EXCEPT ![r].code = None]
    <2>1. one = [req EXCEPT ![r] = WithPc(req[r], "fail")]
      BY DEF WithPc
    <2>2. one[r] = WithPc(req[r], "fail")
      BY <2>1
    <2> HIDE DEF one
    <2>3. two = [one EXCEPT ![r] = WithCode(one[r], None)]
      BY DEF WithCode
    <2>4. two = [req EXCEPT ![r] = WithCode(WithPc(req[r], "fail"), None)]
      BY <2>1, <2>2, <2>3
    <2>5. two[r] = WithCode(WithPc(req[r], "fail"), None)
      BY <2>4
    <2> USE DEF one
    <2>6. req' = [two EXCEPT ![r].rest = {}]
      OBVIOUS
    <2> HIDE DEF one, two
    <2>7. [two EXCEPT ![r].rest = {}] = [two EXCEPT ![r] = WithRest(two[r], {})]
      BY DEF WithRest
    <2> QED
      BY <2>4, <2>5, <2>6, <2>7
  <1>2. req[r] \in Req /\ "fail" \in Pcs
    BY DEF Pcs, MfaPcs
  <1>3. WithRest(WithCode(WithPc(req[r], "fail"), None), {})
          = Carries("fail", req[r].s, req[r].link, req[r].n, None, {}, req[r].step)
    BY <1>2, OfReq, Fields
  <1>4. Carries("fail", req[r].s, req[r].link, req[r].n, None, {}, req[r].step) \in Req
    BY <1>2, OfReq, CarriedTyped
  <1>5. req' = [req EXCEPT ![r] = Carries("fail", req[r].s, req[r].link, req[r].n, None, {},
                                          req[r].step)]
    BY <1>1, <1>3
  <1> QED
    BY <1>4, <1>5, Put

LEMMA RedeemPut ==
  ASSUME req \in [Requests -> Req], NEW r \in Requests, NEW l \in Links, RedeemRead(r, l)
  PROVE  \/ link[l] = "open" /\ Becomes(r, Carries("claim", None, l, 0, None, {}, 0))
         \/ Becomes(r, Carries("dropLink", None, l, 0, None, {}, 0))
  <1> DEFINE pc == IF link[l] = "open" THEN "claim" ELSE "dropLink"
  <1>1. [Idle EXCEPT !.link = l, !.pc = pc] = WithPc(WithLink(Idle, l), pc)
    BY DEF WithPc, WithLink
  <1>2. WithPc(WithLink(Idle, l), pc) = Carries(pc, None, l, 0, None, {}, 0)
    BY IdleIs, Fields
  <1>3. Carries(pc, None, l, 0, None, {}, 0) \in Req
    BY Zero, CarriedTyped DEF Pcs
  <1>4. Becomes(r, Carries(pc, None, l, 0, None, {}, 0))
    BY <1>1, <1>2, <1>3, Put DEF RedeemRead
  <1> QED
    BY <1>4

-----------------------------------------------------------------------------
(* Types, and where requests may go. *)

SignInPcs == {"issue", "claim", "dropLink", "findKey", "newSession"}
GatedPcs  == MfaPcs \cup {"refresh"}
LinkPcs   == {"claim", "dropLink", "findKey", "newSession"}

\* what a request has in hand at a point
Fit(pc, s, l, c) ==
  /\ pc \in GatedPcs => s \in Sessions
  /\ pc \in LinkPcs => l \in Links
  /\ pc = "spend" => c \in Codes
Fits(q) == Fit(q.pc, q.s, q.link, q.code)

\* a request that moves ends, or goes to one of these points
Moved(S) ==
  /\ req' \in [Requests -> Req]
  /\ \A x \in Requests : req'[x] = req[x] \/ (req'[x].pc \in S \cup {"idle"} /\ Fits(req'[x]))

LEMMA PutMoved ==
  ASSUME NEW r \in Requests, NEW S, NEW pc \in S \cup {"idle"}, NEW s, NEW l, NEW n, NEW c,
         NEW rest, NEW t, Becomes(r, Carries(pc, s, l, n, c, rest, t)), Fit(pc, s, l, c)
  PROVE  Moved(S)
  <1> DEFINE q == Carries(pc, s, l, n, c, rest, t)
  <1>1. q.pc = pc /\ Fits(q)
    BY Carried DEF Fits
  <1>2. Becomes(r, q)
    OBVIOUS
  <1> HIDE DEF q
  <1> QED
    BY <1>1, <1>2 DEF Moved, Becomes

LEMMA EndsMoved ==
  ASSUME req \in [Requests -> Req], NEW r \in Requests, NEW S, Ends(r)
  PROVE  Moved(S)
  <1>1. Fit("idle", None, None, None)
    BY DEF Fit, GatedPcs, MfaPcs, LinkPcs
  <1> QED
    BY <1>1, EndsPut, PutMoved

LEMMA GoesMoved ==
  ASSUME req \in [Requests -> Req], NEW r \in Requests, NEW S, NEW pc \in S \cap Pcs, Goes(r, pc),
         pc \notin GatedPcs, pc \in LinkPcs => req[r].link \in Links
  PROVE  Moved(S)
  <1>1. Fit(pc, req[r].s, req[r].link, req[r].code)
    BY DEF Fit, GatedPcs, MfaPcs
  <1> QED
    BY <1>1, GoesPut, PutMoved

LEMMA LeftMoved ==
  ASSUME req \in [Requests -> Req], NEW r \in Requests, NEW S, NEW pc \in S \cap Pcs, Left(r, pc),
         req[r].s \in Sessions, pc \in {"clear", "elevate"}
  PROVE  Moved(S)
  <1>1. Fit(pc, req[r].s, None, None)
    BY DEF Fit, LinkPcs
  <1> QED
    BY <1>1, LeftPut, PutMoved

LEMMA EntersMoved ==
  ASSUME req \in [Requests -> Req], NEW r \in Requests, NEW s \in Sessions, NEW S,
         NEW pc \in S \cap Pcs, Enters(r, [Idle EXCEPT !.pc = pc, !.s = s]),
         pc \notin LinkPcs \cup {"spend"}
  PROVE  Moved(S)
  <1>1. Fit(pc, s, None, None)
    BY DEF Fit
  <1> QED
    BY <1>1, EntersPut, PutMoved

\* TypeOK without the requests
RowsOK ==
  /\ active \in BOOLEAN
  /\ link \in [Links -> {"none", "open", "stale", "used", "gone"}]
  /\ sess \in [Sessions -> {"none", "open", "stale", "gone"}]
  /\ elevated \subseteq Sessions /\ vouched \subseteq Sessions /\ admitted \subseteq Sessions
  /\ enrolled \in BOOLEAN /\ codes \subseteq Codes
  /\ failed \in 0 .. MaxAttempts - 1 /\ locked \in BOOLEAN
  /\ lastStep \in {0} \cup Steps /\ now \in Steps
  /\ text \in BOOLEAN /\ logo \in BOOLEAN /\ object \in BOOLEAN
  /\ opened \in [Links -> Nat] /\ spent \subseteq Codes /\ passed \subseteq Steps
  /\ again \in BOOLEAN /\ streak \in 0 .. MaxAttempts /\ disturbed \subseteq DOMAIN Pages

\* with what requests have in hand, TypeOK is inductive
Typed == RowsOK /\ req \in [Requests -> Req] /\ \A r \in Requests : Fits(req[r])

LEMMA TypedIs == (Typed => TypeOK) /\ (Typed' => TypeOK')
  BY DEF Typed, TypeOK, RowsOK

LEMMA InitTyped == Init => Typed
  <1> SUFFICES ASSUME Init PROVE Typed
    OBVIOUS
  <1>1. 1 \in Steps /\ 0 \in 0 .. MaxAttempts
    BY LimitAssumption DEF Steps
  <1>2. RowsOK
    BY <1>1, Zero DEF Init, RowsOK
  <1>3. Fits(Idle)
    BY IdleIs, Carried DEF Fits, Fit, GatedPcs, MfaPcs, LinkPcs
  <1> QED
    BY <1>2, <1>3, IdleIs DEF Init, Typed

LEMMA SignInTyped == Typed /\ SignInStep => RowsOK' /\ Moved(SignInPcs)
  <1> SUFFICES ASSUME Typed, SignInStep PROVE RowsOK' /\ Moved(SignInPcs)
    OBVIOUS
  <1> USE DEF vars, signIn, mfa, factor, guesses, gate, picture
  <1>0. RowsOK /\ req \in [Requests -> Req] /\ SignInPcs \subseteq Pcs
    BY DEF Typed, Pcs, SignInPcs
  <1>a. \A r \in Requests : req[r].pc \in LinkPcs => req[r].link \in Links
    BY DEF Typed, Fits, Fit
  <1>1. CASE SetActive
    BY <1>0, <1>1 DEF SetActive, RowsOK, Moved
  <1>2. ASSUME NEW l \in Links, LinkExpires(l) PROVE RowsOK' /\ Moved(SignInPcs)
    BY <1>0, <1>2 DEF LinkExpires, RowsOK, Moved
  <1>3. ASSUME NEW r \in Requests, LoginRead(r) PROVE RowsOK' /\ Moved(SignInPcs)
    <2>1. Moved(SignInPcs)
      BY <1>0, <1>3, GoesMoved DEF LoginRead, SignInPcs, GatedPcs, MfaPcs, LinkPcs
    <2>2. RowsOK'
      BY <1>0, <1>3 DEF LoginRead, RowsOK
    <2> QED
      BY <2>1, <2>2
  <1>4. ASSUME NEW r \in Requests, IssueLink(r) PROVE RowsOK' /\ Moved(SignInPcs)
    <2>1. Moved(SignInPcs)
      BY <1>0, <1>4, EndsMoved DEF IssueLink
    <2>2. RowsOK'
      BY <1>0, <1>4 DEF IssueLink, RowsOK
    <2> QED
      BY <2>1, <2>2
  <1>5. ASSUME NEW r \in Requests, DropLink(r) PROVE RowsOK' /\ Moved(SignInPcs)
    <2>1. Moved(SignInPcs)
      BY <1>0, <1>5, EndsMoved DEF DropLink
    <2>2. RowsOK'
      BY <1>0, <1>5 DEF DropLink, RowsOK
    <2> QED
      BY <2>1, <2>2
  <1>6. ASSUME NEW r \in Requests, ClaimLink(r) PROVE RowsOK' /\ Moved(SignInPcs)
    <2>1. Moved(SignInPcs)
      BY <1>0, <1>a, <1>6, EndsMoved, GoesMoved
         DEF ClaimLink, At, SignInPcs, GatedPcs, MfaPcs, LinkPcs
    <2>2. RowsOK'
      BY <1>0, <1>6 DEF ClaimLink, RowsOK
    <2> QED
      BY <2>1, <2>2
  <1>7. ASSUME NEW r \in Requests, FindKey(r) PROVE RowsOK' /\ Moved(SignInPcs)
    <2>1. Moved(SignInPcs)
      BY <1>0, <1>a, <1>7, EndsMoved, GoesMoved
         DEF FindKey, At, SignInPcs, GatedPcs, MfaPcs, LinkPcs
    <2>2. RowsOK'
      BY <1>0, <1>7 DEF FindKey, RowsOK
    <2> QED
      BY <2>1, <2>2
  <1>8. ASSUME NEW r \in Requests, OpenSession(r) PROVE RowsOK' /\ Moved(SignInPcs)
    <2>1. Moved(SignInPcs)
      BY <1>0, <1>8, EndsMoved DEF OpenSession
    <2>2. RowsOK'
      BY <1>0, <1>8 DEF OpenSession, RowsOK
    <2> QED
      BY <2>1, <2>2
  <1>9. ASSUME NEW r \in Requests, NEW l \in Links, RedeemRead(r, l)
        PROVE  RowsOK' /\ Moved(SignInPcs)
    <2>1. Moved(SignInPcs)
      BY <1>0, <1>9, RedeemPut, PutMoved DEF SignInPcs, Fit, GatedPcs, MfaPcs, LinkPcs
    <2>2. RowsOK'
      BY <1>0, <1>9 DEF RedeemRead, RowsOK
    <2> QED
      BY <2>1, <2>2
  <1> QED
    BY <1>1, <1>2, <1>3, <1>4, <1>5, <1>6, <1>7, <1>8, <1>9 DEF SignInStep

LEMMA SessionTyped == Typed /\ SessionStep => RowsOK' /\ Moved({})
  <1> SUFFICES ASSUME Typed, NEW s \in Sessions, SignedUp(s) \/ SessionExpires(s) \/ Forget(s)
               PROVE  RowsOK' /\ Moved({})
    BY DEF SessionStep
  <1> QED
    BY DEF Typed, SignedUp, SessionExpires, Forget, RowsOK, Moved, vars, signIn, mfa, factor,
       guesses, gate, picture

LEMMA CountedTyped ==
  ASSUME NEW n \in 0 .. MaxAttempts - 1
  PROVE  Counted(n) \in 0 .. MaxAttempts - 1 /\ Locks(n) \in BOOLEAN
  BY LimitAssumption DEF Counted, Locks

LEMMA MfaTyped == Typed /\ MfaStep => RowsOK' /\ Moved(GatedPcs)
  <1> SUFFICES ASSUME Typed, MfaStep PROVE RowsOK' /\ Moved(GatedPcs)
    OBVIOUS
  <1> USE DEF vars, signIn, mfa, factor, guesses, gate, picture
  <1>0. /\ RowsOK /\ req \in [Requests -> Req] /\ GatedPcs \subseteq Pcs
        /\ {"mfa", "logo"} \subseteq DOMAIN Pages
    BY DEF Typed, Pcs, GatedPcs, Pages
  <1>a. \A r \in Requests :
          /\ req[r].n \in 0 .. MaxAttempts - 1
          /\ req[r].rest \in SUBSET Codes /\ req[r].step \in {0} \cup Steps
          /\ req[r].pc \in GatedPcs => req[r].s \in Sessions
          /\ req[r].pc = "spend" => req[r].code \in Codes
    BY <1>0, OfReq DEF Typed, Fits, Fit
  <1>b. 0 \in 0 .. MaxAttempts /\ 0 \in 0 .. MaxAttempts - 1 /\ FALSE \in BOOLEAN
    BY LimitAssumption
  <1>1. CASE LockEnds
    BY <1>0, <1>1, <1>b DEF LockEnds, RowsOK, Moved
  <1>2. CASE Tick
    BY <1>0, <1>2, LimitAssumption DEF Tick, RowsOK, Steps, Moved
  <1>3. ASSUME NEW s \in Sessions, ElevationLapses(s) PROVE RowsOK' /\ Moved(GatedPcs)
    BY <1>0, <1>3 DEF ElevationLapses, RowsOK, Moved
  <1>4. ASSUME NEW r \in Requests, EnrollWrite(r) PROVE RowsOK' /\ Moved(GatedPcs)
    <2>1. Moved(GatedPcs)
      BY <1>0, <1>a, <1>4, EndsMoved, LeftMoved DEF EnrollWrite, At, GatedPcs, MfaPcs
    <2>2. RowsOK'
      BY <1>0, <1>4, <1>a DEF EnrollWrite, At, GatedPcs, MfaPcs, RowsOK, NewBatch
    <2> QED
      BY <2>1, <2>2
  <1>5. ASSUME NEW r \in Requests, SpendBackup(r) PROVE RowsOK' /\ Moved(GatedPcs)
    <2>1. Moved(GatedPcs)
      <3>1. req[r].s \in Sessions
        BY <1>a, <1>5 DEF SpendBackup, At, GatedPcs, MfaPcs
      <3>2. CASE Left(r, "clear")
        BY <1>0, <3>1, <3>2, LeftMoved DEF GatedPcs, MfaPcs
      <3>3. CASE req' = [req EXCEPT ![r].pc = "fail", ![r].code = None, ![r].rest = {}]
        <4>1. Becomes(r, Carries("fail", req[r].s, req[r].link, req[r].n, None, {}, req[r].step))
          BY <1>0, <3>3, RefusedPut
        <4>2. Fit("fail", req[r].s, req[r].link, None) /\ "fail" \in GatedPcs
          BY <3>1 DEF Fit, GatedPcs, MfaPcs, LinkPcs
        <4> QED
          BY <4>1, <4>2, PutMoved
      <3> QED
        BY <1>5, <3>2, <3>3 DEF SpendBackup
    <2>2. RowsOK'
      BY <1>0, <1>5, <1>a DEF SpendBackup, At, GatedPcs, MfaPcs, RowsOK
    <2> QED
      BY <2>1, <2>2
  <1>6. ASSUME NEW r \in Requests, RecordFailure(r) PROVE RowsOK' /\ Moved(GatedPcs)
    <2>1. Moved(GatedPcs)
      BY <1>0, <1>6, EndsMoved DEF RecordFailure
    <2>2. RowsOK'
      BY <1>0, <1>6, <1>a, CountedTyped, LimitAssumption DEF RecordFailure, RowsOK, Disturb
    <2> QED
      BY <2>1, <2>2
  <1>7. ASSUME NEW r \in Requests, ClearFailures(r) PROVE RowsOK' /\ Moved(GatedPcs)
    <2>1. Moved(GatedPcs)
      BY <1>0, <1>a, <1>7, LeftMoved DEF ClearFailures, At, GatedPcs, MfaPcs
    <2>2. req[r].s \in Sessions /\ req[r].step \in {0} \cup Steps
      BY <1>7, <1>a DEF ClearFailures, At, GatedPcs, MfaPcs
    <2>3. /\ failed' \in 0 .. MaxAttempts - 1 /\ locked' \in BOOLEAN
          /\ lastStep' \in {0} \cup Steps /\ disturbed' \subseteq DOMAIN Pages
      BY <1>0, <1>7, <1>b, <2>2 DEF ClearFailures, RowsOK, Disturb
    <2>4. vouched' \subseteq Sessions /\ passed' \subseteq Steps /\ again' \in BOOLEAN
      BY <1>0, <1>7, <2>2 DEF ClearFailures, RowsOK
    <2>5. RowsOK'
      BY <1>0, <1>7, <1>b, <2>3, <2>4 DEF ClearFailures, RowsOK
    <2> QED
      BY <2>1, <2>5
  <1>8. ASSUME NEW r \in Requests, Elevate(r) PROVE RowsOK' /\ Moved(GatedPcs)
    <2>1. Moved(GatedPcs)
      BY <1>0, <1>8, EndsMoved DEF Elevate
    <2>2. RowsOK'
      BY <1>0, <1>8 DEF Elevate, RowsOK
    <2> QED
      BY <2>1, <2>2
  <1>9. ASSUME NEW r \in Requests, RefreshKey(r) PROVE RowsOK' /\ Moved(GatedPcs)
    <2>1. Moved(GatedPcs)
      BY <1>0, <1>9, EndsMoved DEF RefreshKey
    <2>2. RowsOK'
      BY <1>0, <1>9 DEF RefreshKey, RowsOK
    <2> QED
      BY <2>1, <2>2
  <1>10. ASSUME NEW r \in Requests, NEW s \in Sessions, EnrollRead(r, s)
         PROVE  RowsOK' /\ Moved(GatedPcs)
    <2>1. Moved(GatedPcs)
      BY <1>0, <1>10, EntersMoved DEF EnrollRead, GatedPcs, MfaPcs, LinkPcs
    <2>2. RowsOK'
      BY <1>0, <1>10 DEF EnrollRead, RowsOK, Enters
    <2> QED
      BY <2>1, <2>2
  <1>11. ASSUME NEW r \in Requests, NEW s \in Sessions, PassGate(r, s)
         PROVE  RowsOK' /\ Moved(GatedPcs)
    <2>1. Moved(GatedPcs)
      BY <1>0, <1>11, EntersMoved DEF PassGate, GatedPcs, MfaPcs, LinkPcs
    <2>2. RowsOK'
      BY <1>0, <1>11 DEF PassGate, RowsOK, Enters
    <2> QED
      BY <2>1, <2>2
  <1>12. ASSUME NEW r \in Requests, NEW s \in Sessions, NEW t \in Steps, StepUpTotp(r, s, t)
         PROVE  RowsOK' /\ Moved(GatedPcs)
    <2>1. Moved(GatedPcs)
      <3>1. "clear" \in GatedPcs /\ "fail" \in GatedPcs
        BY DEF GatedPcs, MfaPcs
      <3>2. Fit("clear", s, None, None) /\ Fit("fail", s, None, None)
        BY DEF Fit, LinkPcs
      <3>3. \/ Becomes(r, Carries("clear", s, None, 0, None, {}, t))
            \/ Becomes(r, Carries("fail", s, None, failed, None, {}, 0))
        BY <1>12, TypedIs, TotpPut
      <3> QED
        BY <3>1, <3>2, <3>3, PutMoved
    <2>2. RowsOK'
      BY <1>0, <1>12 DEF StepUpTotp, RowsOK, StepUp, Enters
    <2> QED
      BY <2>1, <2>2
  <1>13. ASSUME NEW r \in Requests, NEW s \in Sessions, NEW c \in Codes, StepUpBackup(r, s, c)
         PROVE  RowsOK' /\ Moved(GatedPcs)
    <2>1. Moved(GatedPcs)
      BY <1>0, <1>13, BackupPut, PutMoved, TypedIs DEF GatedPcs, MfaPcs, LinkPcs, Fit
    <2>2. RowsOK'
      BY <1>0, <1>13 DEF StepUpBackup, RowsOK, StepUp, Enters
    <2> QED
      BY <2>1, <2>2
  <1> QED
    BY <1>1, <1>2, <1>3, <1>4, <1>5, <1>6, <1>7, <1>8, <1>9, <1>10, <1>11, <1>12, <1>13
       DEF MfaStep

LEMMA LogoTyped == Typed /\ LogoStep => RowsOK' /\ Moved(LogoPcs)
  <1> SUFFICES ASSUME Typed, LogoStep PROVE RowsOK' /\ Moved(LogoPcs)
    OBVIOUS
  <1> USE DEF vars, signIn, mfa, factor, guesses, gate, picture
  <1>0. RowsOK /\ req \in [Requests -> Req] /\ LogoPcs \subseteq Pcs
    BY DEF Typed, Pcs
  <1>1. ASSUME NEW s \in Sessions, SaveProfile(s) PROVE RowsOK' /\ Moved(LogoPcs)
    BY <1>0, <1>1 DEF SaveProfile, RowsOK, Moved
  <1>2. ASSUME NEW r \in Requests, PutObject(r) PROVE RowsOK' /\ Moved(LogoPcs)
    <2>1. Moved(LogoPcs)
      BY <1>0, <1>2, EndsMoved, GoesMoved
         DEF PutObject, LogoPcs, GatedPcs, MfaPcs, LinkPcs
    <2>2. RowsOK'
      BY <1>0, <1>2 DEF PutObject, RowsOK
    <2> QED
      BY <2>1, <2>2
  <1>3. ASSUME NEW r \in Requests, PointLogo(r) PROVE RowsOK' /\ Moved(LogoPcs)
    <2>1. Moved(LogoPcs)
      BY <1>0, <1>3, EndsMoved DEF PointLogo
    <2>2. RowsOK'
      BY <1>0, <1>3 DEF PointLogo, RowsOK
    <2> QED
      BY <2>1, <2>2
  <1>4. ASSUME NEW r \in Requests, UnpointLogo(r) PROVE RowsOK' /\ Moved(LogoPcs)
    <2>1. Moved(LogoPcs)
      BY <1>0, <1>4, EndsMoved, GoesMoved
         DEF UnpointLogo, GivesUp, LogoPcs, GatedPcs, MfaPcs, LinkPcs
    <2>2. RowsOK'
      BY <1>0, <1>4 DEF UnpointLogo, RowsOK
    <2> QED
      BY <2>1, <2>2
  <1>5. ASSUME NEW r \in Requests, RemoveObject(r) PROVE RowsOK' /\ Moved(LogoPcs)
    <2>1. Moved(LogoPcs)
      BY <1>0, <1>5, EndsMoved DEF RemoveObject
    <2>2. RowsOK'
      BY <1>0, <1>5 DEF RemoveObject, RowsOK
    <2> QED
      BY <2>1, <2>2
  <1>6. ASSUME NEW r \in Requests, NEW s \in Sessions, UploadLogo(r, s)
        PROVE  RowsOK' /\ Moved(LogoPcs)
    <2>1. Moved(LogoPcs)
      BY <1>0, <1>6, EntersMoved DEF UploadLogo, LogoPcs, LinkPcs
    <2>2. RowsOK'
      BY <1>0, <1>6 DEF UploadLogo, RowsOK, Enters
    <2> QED
      BY <2>1, <2>2
  <1>7. ASSUME NEW r \in Requests, NEW s \in Sessions, RemoveLogo(r, s)
        PROVE  RowsOK' /\ Moved(LogoPcs)
    <2>1. Moved(LogoPcs)
      BY <1>0, <1>7, EntersMoved DEF RemoveLogo, LogoPcs, LinkPcs
    <2>2. RowsOK'
      BY <1>0, <1>7 DEF RemoveLogo, RowsOK, Enters
    <2> QED
      BY <2>1, <2>2
  <1> QED
    BY <1>1, <1>2, <1>3, <1>4, <1>5, <1>6, <1>7 DEF LogoStep

LEMMA RestartTyped == Typed /\ Restart => RowsOK' /\ Moved({})
  <1> SUFFICES ASSUME Typed, Restart PROVE RowsOK' /\ Moved({})
    OBVIOUS
  <1>0. Fit("idle", None, None, None)
    BY DEF Fit, GatedPcs, MfaPcs, LinkPcs
  <1>1. req' \in [Requests -> Req] /\ \A x \in Requests : req'[x].pc = "idle" /\ Fits(req'[x])
    BY <1>0, AllIdle, Carried DEF Restart, Fits
  <1>2. RowsOK'
    BY DEF Typed, Restart, RowsOK, signIn, mfa, factor, guesses, gate, picture
  <1> QED
    BY <1>1, <1>2 DEF Moved

LEMMA NextTyped == Typed /\ [Next]_vars => Typed'
  <1> SUFFICES ASSUME Typed, [Next]_vars PROVE Typed'
    OBVIOUS
  <1>1. CASE UNCHANGED vars
    BY <1>1 DEF Typed, RowsOK, Fits, vars, signIn, mfa, factor, guesses, gate, picture
  <1>2. CASE Next
    <2>1. RowsOK' /\ \E S : Moved(S)
      BY <1>2, SignInTyped, SessionTyped, MfaTyped, LogoTyped, RestartTyped DEF Next
    <2> QED
      BY <2>1 DEF Moved, Typed, Fits
  <1> QED
    BY <1>1, <1>2

\* Every variable keeps its type; in particular the failures counted stay below
\* the limit.
THEOREM TypeCorrect == Spec => []TypeOK
  BY InitTyped, NextTyped, TypedIs, PTL DEF Spec

-----------------------------------------------------------------------------
(* What a step leaves alone. *)

LEMMA BecomesIs ==
  ASSUME NEW r \in Requests, NEW pc, NEW s, NEW l, NEW n, NEW c, NEW rest, NEW t,
         Becomes(r, Carries(pc, s, l, n, c, rest, t))
  PROVE  /\ req'[r].pc = pc /\ req'[r].s = s /\ req'[r].link = l /\ req'[r].n = n
         /\ req'[r].code = c /\ req'[r].rest = rest /\ req'[r].step = t
         /\ \A x \in Requests : x # r => req'[x] = req[x]
  <1> DEFINE q == Carries(pc, s, l, n, c, rest, t)
  <1>1. /\ q.pc = pc /\ q.s = s /\ q.link = l /\ q.n = n /\ q.code = c /\ q.rest = rest
        /\ q.step = t
    BY Carried
  <1> HIDE DEF q
  <1>2. \A x \in Requests : req'[x] = IF x = r THEN q ELSE req[x]
    BY DEF Becomes, q
  <1> QED
    BY <1>1, <1>2

\* only request r moves
Only(r) == \A x \in Requests : x # r => req'[x] = req[x]

LEMMA Ended ==
  ASSUME req \in [Requests -> Req], NEW r \in Requests, Ends(r)
  PROVE  req'[r].pc = "idle" /\ Only(r)
  BY EndsPut, BecomesIs DEF Only

LEMMA Gone ==
  ASSUME req \in [Requests -> Req], NEW r \in Requests, NEW pc \in Pcs, Goes(r, pc)
  PROVE  req'[r].pc = pc /\ req'[r].s = req[r].s /\ req'[r].link = req[r].link /\ Only(r)
  BY GoesPut, BecomesIs DEF Only

LEMMA LeftFor ==
  ASSUME req \in [Requests -> Req], NEW r \in Requests, NEW pc \in Pcs, Left(r, pc)
  PROVE  req'[r].pc = pc /\ req'[r].s = req[r].s /\ req'[r].step = 0 /\ Only(r)
  BY LeftPut, BecomesIs DEF Only

LEMMA Entered ==
  ASSUME req \in [Requests -> Req], NEW r \in Requests, NEW s \in Sessions, NEW pc \in Pcs,
         Enters(r, [Idle EXCEPT !.pc = pc, !.s = s])
  PROVE  req'[r].pc = pc /\ req'[r].s = s /\ Only(r)
  <1>1. Becomes(r, Carries(pc, s, None, 0, None, {}, 0))
    BY EntersPut
  <1> QED
    BY <1>1, BecomesIs DEF Only

LEMMA Refused ==
  ASSUME req \in [Requests -> Req], NEW r \in Requests,
         req' = [req EXCEPT ![r].pc = "fail", ![r].code = None, ![r].rest = {}]
  PROVE  req'[r].pc = "fail" /\ req'[r].s = req[r].s /\ req'[r].n = req[r].n /\ Only(r)
  <1>1. Becomes(r, Carries("fail", req[r].s, req[r].link, req[r].n, None, {}, req[r].step))
    BY RefusedPut
  <1> QED
    BY <1>1, BecomesIs DEF Only

LEMMA Redeemed ==
  ASSUME req \in [Requests -> Req], NEW r \in Requests, NEW l \in Links, RedeemRead(r, l)
  PROVE  req'[r].pc \in {"claim", "dropLink"} /\ Only(r)
  <1>1. CASE Becomes(r, Carries("claim", None, l, 0, None, {}, 0))
    BY <1>1, BecomesIs DEF Only
  <1>2. CASE Becomes(r, Carries("dropLink", None, l, 0, None, {}, 0))
    BY <1>2, BecomesIs DEF Only
  <1> QED
    BY <1>1, <1>2, RedeemPut

LEMMA ByTotp ==
  ASSUME TypeOK, NEW r \in Requests, NEW s \in Sessions, NEW t \in Steps, StepUpTotp(r, s, t)
  PROVE  /\ \/ req'[r].pc = "clear" /\ req'[r].step = t /\ Fresh(t)
            \/ req'[r].pc = "fail" /\ req'[r].n = failed
         /\ Only(r)
  <1>1. CASE Fresh(t) /\ Becomes(r, Carries("clear", s, None, 0, None, {}, t))
    BY <1>1, BecomesIs DEF Only
  <1>2. CASE Becomes(r, Carries("fail", s, None, failed, None, {}, 0))
    BY <1>2, BecomesIs DEF Only
  <1> QED
    BY <1>1, <1>2, TotpPut

LEMMA ByBackup ==
  ASSUME TypeOK, NEW r \in Requests, NEW s \in Sessions, NEW c \in Codes, StepUpBackup(r, s, c)
  PROVE  /\ \/ /\ req'[r].pc = "spend" /\ req'[r].code = c /\ req'[r].rest = codes \ {c}
               /\ c \in codes
            \/ req'[r].pc = "fail"
         /\ req'[r].n = failed /\ Only(r)
  <1>1. CASE c \in codes /\ Becomes(r, Carries("spend", s, None, failed, c, Remaining(c), 0))
    BY <1>1, BecomesIs DEF Only, Remaining
  <1>2. CASE Becomes(r, Carries("fail", s, None, failed, None, {}, 0))
    BY <1>2, BecomesIs DEF Only
  <1> QED
    BY <1>1, <1>2, BackupPut

-----------------------------------------------------------------------------
(* A link opens one session: one request at most has the claim to it. *)

Holds(r) == req[r].pc \in {"findKey", "newSession"}

LinkInv ==
  /\ \A r \in Requests : Holds(r) => link[req[r].link] \in {"used", "gone"}
                                     /\ opened[req[r].link] = 0
  /\ \A r, q \in Requests : Holds(r) /\ Holds(q) /\ req[r].link = req[q].link => r = q
  /\ \A l \in Links : opened[l] = 0 \/ (opened[l] = 1 /\ link[l] \in {"used", "gone"})

LEMMA LinkInit == Init => LinkInv
  <1>1. Idle.pc = "idle"
    BY IdleIs, Carried
  <1> QED
    BY <1>1 DEF Init, LinkInv, Holds

\* requests that hold no link now come to none, and the others keep theirs
LEMMA LinkFrame ==
  ASSUME Typed, LinkInv, UNCHANGED <<link, opened>>,
         \A x \in Requests : req'[x].pc \in {"findKey", "newSession"}
           => req[x].pc \in {"findKey", "newSession"} /\ req'[x].link = req[x].link
  PROVE  LinkInv'
  BY DEF LinkInv, Holds

LEMMA MovedApart ==
  ASSUME NEW S, Moved(S), "findKey" \notin S, "newSession" \notin S
  PROVE  \A x \in Requests : req'[x].pc \in {"findKey", "newSession"} => req'[x] = req[x]
  BY DEF Moved

LEMMA LinkSignIn == Typed /\ LinkInv /\ SignInStep => LinkInv'
  <1> SUFFICES ASSUME Typed, LinkInv, SignInStep PROVE LinkInv'
    OBVIOUS
  <1> USE DEF vars, signIn, Only
  <1>0. /\ req \in [Requests -> Req] /\ opened \in [Links -> Nat]
        /\ link \in [Links -> {"none", "open", "stale", "used", "gone"}]
        /\ {"issue", "findKey", "newSession"} \subseteq Pcs
        /\ \A r \in Requests : req[r].pc \in LinkPcs => req[r].link \in Links
    BY DEF Typed, RowsOK, Fits, Fit, Pcs
  <1>1. CASE SetActive
    BY <1>1, LinkFrame DEF SetActive
  <1>2. ASSUME NEW l \in Links, LinkExpires(l) PROVE LinkInv'
    BY <1>0, <1>2 DEF LinkExpires, LinkInv, Holds, LinkPcs
  <1>3. ASSUME NEW r \in Requests, LoginRead(r) PROVE LinkInv'
    BY <1>0, <1>3, Gone, LinkFrame DEF LoginRead
  <1>4. ASSUME NEW r \in Requests, IssueLink(r) PROVE LinkInv'
    <2>1. /\ req'[r].pc = "idle" /\ Only(r)
          /\ opened' = opened
          /\ \/ link' = link
             \/ \E l \in Links : link[l] = "none" /\ link' = [link EXCEPT ![l] = "open"]
      BY <1>0, <1>4, Ended DEF IssueLink
    <2> QED
      BY <1>0, <2>1 DEF LinkInv, Holds, LinkPcs
  <1>5. ASSUME NEW r \in Requests, DropLink(r) PROVE LinkInv'
    <2>1. /\ req'[r].pc = "idle" /\ Only(r)
          /\ opened' = opened
          /\ link' \in {link, [link EXCEPT ![req[r].link] = "gone"]}
      BY <1>0, <1>5, Ended DEF DropLink
    <2> QED
      BY <1>0, <2>1 DEF LinkInv, Holds, LinkPcs
  <1>6. ASSUME NEW r \in Requests, ClaimLink(r) PROVE LinkInv'
    <2> DEFINE l == req[r].link
    <2>1. l \in Links /\ opened' = opened
      BY <1>0, <1>6 DEF ClaimLink, At, LinkPcs
    <2>2. CASE link' = link /\ Ends(r)
      BY <1>0, <1>6, <2>1, <2>2, Ended, LinkFrame
    <2>3. CASE Claimable(l) /\ link' = [link EXCEPT ![l] = "used"] /\ Goes(r, "findKey")
      <3>1. /\ req'[r].pc = "findKey" /\ req'[r].link = l /\ Only(r)
        BY <1>0, <2>3, Gone
      <3>2. opened[l] = 0 /\ \A x \in Requests : Holds(x) => req[x].link # l
        BY <2>1, <2>3 DEF LinkInv, Claimable
      <3> QED
        BY <1>0, <2>1, <2>3, <3>1, <3>2 DEF LinkInv, Holds, LinkPcs
    <2> QED
      BY <1>6, <2>2, <2>3 DEF ClaimLink
  <1>7. ASSUME NEW r \in Requests, FindKey(r) PROVE LinkInv'
    <2>1. req[r].pc = "findKey" /\ UNCHANGED <<link, opened>>
      BY <1>7 DEF FindKey, At
    <2>2. CASE Ends(r)
      BY <1>0, <2>1, <2>2, Ended, LinkFrame
    <2>3. CASE Goes(r, "newSession")
      BY <1>0, <2>1, <2>3, Gone, LinkFrame
    <2> QED
      BY <1>7, <2>2, <2>3 DEF FindKey
  <1>8. ASSUME NEW r \in Requests, OpenSession(r) PROVE LinkInv'
    <2> DEFINE l == req[r].link
    <2>1. /\ req[r].pc = "newSession" /\ req'[r].pc = "idle" /\ link' = link /\ Only(r)
          /\ opened' = opened \/ opened' = [opened EXCEPT ![l] = @ + 1]
      BY <1>0, <1>8, Ended DEF OpenSession, At
    <2>2. CASE opened' = opened
      BY <2>1, <2>2, LinkFrame
    <2>3. CASE opened' = [opened EXCEPT ![l] = @ + 1]
      <3>1. l \in Links /\ opened[l] = 0 /\ link[l] \in {"used", "gone"}
            /\ \A x \in Requests : x # r /\ Holds(x) => req[x].link # l
        BY <1>0, <2>1 DEF LinkInv, Holds, LinkPcs
      <3> QED
        BY <1>0, <2>1, <2>3, <3>1 DEF LinkInv, Holds, LinkPcs
    <2> QED
      BY <2>1, <2>2, <2>3
  <1>9. ASSUME NEW r \in Requests, NEW l \in Links, RedeemRead(r, l) PROVE LinkInv'
    <2>1. /\ req'[r].pc \in {"claim", "dropLink"} /\ UNCHANGED <<link, opened>> /\ Only(r)
      BY <1>0, <1>9, Redeemed DEF RedeemRead
    <2> QED
      BY <2>1, LinkFrame
  <1> QED
    BY <1>1, <1>2, <1>3, <1>4, <1>5, <1>6, <1>7, <1>8, <1>9 DEF SignInStep

LEMMA LinkStill == SessionStep \/ MfaStep \/ LogoStep \/ Restart => UNCHANGED <<link, opened>>
  <1> USE DEF vars, signIn
  <1>1. SessionStep => UNCHANGED <<link, opened>>
    BY DEF SessionStep, SignedUp, SessionExpires, Forget
  <1>2. MfaStep => UNCHANGED <<link, opened>>
    BY DEF MfaStep, LockEnds, Tick, ElevationLapses, EnrollWrite, SpendBackup, RecordFailure,
       ClearFailures, Elevate, RefreshKey, EnrollRead, PassGate, StepUpTotp, StepUpBackup, StepUp
  <1>3. LogoStep => UNCHANGED <<link, opened>>
    BY DEF LogoStep, SaveProfile, PutObject, PointLogo, UnpointLogo, RemoveObject, UploadLogo,
       RemoveLogo
  <1> QED
    BY <1>1, <1>2, <1>3 DEF Restart

LEMMA LinkNext == Typed /\ LinkInv /\ [Next]_vars => LinkInv'
  <1> SUFFICES ASSUME Typed, LinkInv, [Next]_vars PROVE LinkInv'
    OBVIOUS
  <1>1. CASE UNCHANGED vars
    BY <1>1, LinkFrame DEF vars, signIn
  <1>2. CASE SignInStep
    BY <1>2, LinkSignIn
  <1>3. CASE SessionStep \/ MfaStep \/ LogoStep \/ Restart
    <2>1. Moved({}) \/ Moved(GatedPcs) \/ Moved(LogoPcs)
      BY <1>3, SessionTyped, MfaTyped, LogoTyped, RestartTyped
    <2>2. \A x \in Requests : req'[x].pc \in {"findKey", "newSession"} => req'[x] = req[x]
      BY <2>1, MovedApart DEF GatedPcs, MfaPcs, LogoPcs
    <2> QED
      BY <1>3, <2>2, LinkStill, LinkFrame
  <1> QED
    BY <1>1, <1>2, <1>3 DEF Next

\* A sign-in link opens one session, however many requests redeem it together.
THEOREM LinkOpensOne == Spec => []LinkOnce
  <1>1. LinkInv => LinkOnce
    BY DEF LinkInv, LinkOnce
  <1> QED
    BY <1>1, InitTyped, NextTyped, LinkInit, LinkNext, PTL DEF Spec

-----------------------------------------------------------------------------
(* A session is let in by a code given in it. *)

GateInv ==
  /\ elevated \cup admitted \subseteq vouched
  /\ \A r \in Requests : req[r].pc = "elevate" => req[r].s \in vouched

LEMMA GateInit == Init => GateInv
  <1>1. Idle.pc = "idle"
    BY IdleIs, Carried
  <1> QED
    BY <1>1 DEF Init, GateInv

LEMMA GateFrame ==
  ASSUME GateInv, elevated' \subseteq elevated, UNCHANGED admitted, vouched \subseteq vouched',
         \A x \in Requests : req'[x].pc = "elevate" => req'[x] = req[x]
  PROVE  GateInv'
  BY DEF GateInv

LEMMA GateMfa == Typed /\ GateInv /\ MfaStep => GateInv'
  <1> SUFFICES ASSUME Typed, GateInv, MfaStep PROVE GateInv'
    OBVIOUS
  <1> USE DEF vars, gate, Only
  <1>0. req \in [Requests -> Req] /\ {"clear", "elevate"} \subseteq Pcs
    BY DEF Typed, Pcs, MfaPcs
  <1>1. CASE LockEnds \/ Tick \/ \E s \in Sessions : ElevationLapses(s)
    BY <1>1, GateFrame DEF LockEnds, Tick, ElevationLapses
  <1>2. ASSUME NEW r \in Requests, EnrollWrite(r) \/ ClearFailures(r) PROVE GateInv'
    <2>1. UNCHANGED <<elevated, admitted>>
      BY <1>2 DEF EnrollWrite, ClearFailures
    <2>2. CASE Ends(r) /\ vouched' = vouched
      BY <1>0, <2>1, <2>2, Ended, GateFrame
    <2>3. CASE Left(r, "elevate") /\ vouched' = vouched \cup {req[r].s}
      <3>1. /\ req'[r].s = req[r].s /\ Only(r)
        BY <1>0, <2>3, LeftFor
      <3> QED
        BY <2>1, <2>3, <3>1 DEF GateInv
    <2> QED
      BY <1>2, <2>2, <2>3 DEF EnrollWrite, ClearFailures
  <1>3. ASSUME NEW r \in Requests, SpendBackup(r) PROVE GateInv'
    <2>1. /\ req'[r].pc # "elevate" /\ Only(r)
      BY <1>0, <1>3, LeftFor, Refused DEF SpendBackup
    <2> QED
      BY <1>3, <2>1, GateFrame DEF SpendBackup
  <1>4. ASSUME NEW r \in Requests, RecordFailure(r) \/ RefreshKey(r) PROVE GateInv'
    <2>1. /\ req'[r].pc = "idle" /\ Only(r)
      BY <1>0, <1>4, Ended DEF RecordFailure, RefreshKey
    <2> QED
      BY <1>4, <2>1, GateFrame DEF RecordFailure, RefreshKey, mfa
  <1>5. ASSUME NEW r \in Requests, Elevate(r) PROVE GateInv'
    <2>1. /\ req'[r].pc = "idle" /\ Only(r)
      BY <1>0, <1>5, Ended DEF Elevate
    <2>2. req[r].s \in vouched
      BY <1>5 DEF Elevate, At, GateInv
    <2> QED
      BY <1>5, <2>1, <2>2 DEF Elevate, GateInv
  <1>6. ASSUME NEW r \in Requests, NEW s \in Sessions, EnrollRead(r, s) PROVE GateInv'
    <2>1. /\ req'[r].pc = "enroll" /\ Only(r)
      BY <1>0, <1>6, Entered DEF EnrollRead, Pcs, MfaPcs
    <2> QED
      BY <1>6, <2>1, GateFrame DEF EnrollRead, mfa
  <1>7. ASSUME NEW r \in Requests, NEW s \in Sessions, PassGate(r, s) PROVE GateInv'
    <2>1. /\ req'[r].pc = "refresh" /\ Only(r)
      BY <1>0, <1>7, Entered DEF PassGate, Pcs, MfaPcs
    <2> QED
      BY <1>7, <2>1 DEF PassGate, Passes, GateInv
  <1>8. ASSUME NEW r \in Requests, NEW s \in Sessions, NEW t \in Steps, StepUpTotp(r, s, t)
        PROVE  GateInv'
    <2>1. /\ req'[r].pc \in {"clear", "fail"} /\ Only(r)
      BY <1>8, TypedIs, ByTotp
    <2> QED
      BY <1>8, <2>1, GateFrame DEF StepUpTotp, StepUp, mfa
  <1>9. ASSUME NEW r \in Requests, NEW s \in Sessions, NEW c \in Codes, StepUpBackup(r, s, c)
        PROVE  GateInv'
    <2>1. /\ req'[r].pc \in {"spend", "fail"} /\ Only(r)
      BY <1>9, TypedIs, ByBackup
    <2> QED
      BY <1>9, <2>1, GateFrame DEF StepUpBackup, StepUp, mfa
  <1> QED
    BY <1>1, <1>2, <1>3, <1>4, <1>5, <1>6, <1>7, <1>8, <1>9 DEF MfaStep

LEMMA GateStill ==
  SignInStep \/ SessionStep \/ LogoStep \/ Restart
    => elevated' \subseteq elevated /\ UNCHANGED <<admitted, vouched>>
  <1> USE DEF vars, signIn, mfa, gate
  <1>1. SessionStep => elevated' \subseteq elevated /\ UNCHANGED <<admitted, vouched>>
    BY DEF SessionStep, SignedUp, SessionExpires, Forget
  <1>2. SignInStep => UNCHANGED <<elevated, admitted, vouched>>
    BY
       DEF SignInStep, SetActive, LinkExpires, LoginRead, IssueLink, DropLink, ClaimLink, FindKey,
       OpenSession, RedeemRead
  <1>3. LogoStep => UNCHANGED <<elevated, admitted, vouched>>
    BY DEF LogoStep, SaveProfile, PutObject, PointLogo, UnpointLogo, RemoveObject, UploadLogo,
       RemoveLogo
  <1> QED
    BY <1>1, <1>2, <1>3 DEF Restart

LEMMA GateNext == Typed /\ GateInv /\ [Next]_vars => GateInv'
  <1> SUFFICES ASSUME Typed, GateInv, [Next]_vars PROVE GateInv'
    OBVIOUS
  <1>1. CASE UNCHANGED vars
    BY <1>1, GateFrame DEF vars, mfa, gate
  <1>2. CASE MfaStep
    BY <1>2, GateMfa
  <1>3. CASE SignInStep \/ SessionStep \/ LogoStep \/ Restart
    <2>1. Moved({}) \/ Moved(SignInPcs) \/ Moved(LogoPcs)
      BY <1>3, SessionTyped, SignInTyped, LogoTyped, RestartTyped
    <2>2. \A x \in Requests : req'[x].pc = "elevate" => req'[x] = req[x]
      BY <2>1 DEF Moved, SignInPcs, LogoPcs
    <2> QED
      BY <1>3, <2>2, GateStill, GateFrame
  <1> QED
    BY <1>1, <1>2, <1>3 DEF Next

\* Only a session in which a code was accepted is held elevated or gets past a
\* step-up gate.
THEOREM GateByCode == Spec => []ElevatedByCode
  <1>1. GateInv => ElevatedByCode
    BY DEF GateInv, ElevatedByCode
  <1> QED
    BY <1>1, InitTyped, NextTyped, GateInit, GateNext, PTL DEF Spec

-----------------------------------------------------------------------------
(* Step-ups that do not overlap: a code is accepted once, and wrong ones add *)
(* up.                                                                       *)

OneAtATime == \A r, q \in Requests : req[r].pc \in MfaPcs /\ req[q].pc \in MfaPcs => r = q
Accepted   == spent \cap codes = {} /\ (\A t \in passed : t <= lastStep) /\ again = FALSE
Tally      == \/ locked = TRUE /\ streak = MaxAttempts /\ failed = 0
              \/ locked = FALSE /\ streak = failed
InHand     ==
  \A r \in Requests :
    /\ req[r].pc \in {"spend", "fail"} => locked = FALSE /\ req[r].n = failed
    /\ req[r].pc = "spend" => req[r].code \in codes /\ req[r].rest = codes \ {req[r].code}
    /\ req[r].pc = "clear" => req[r].step = 0 \/ req[r].step > lastStep

MfaInv == "mfa" \notin disturbed => OneAtATime /\ Accepted /\ Tally /\ InHand

LEMMA MfaInit == Init => MfaInv
  <1>1. Idle.pc = "idle"
    BY IdleIs, Carried
  <1> QED
    BY <1>1 DEF Init, MfaInv, OneAtATime, Accepted, Tally, InHand, MfaPcs

\* a request of a page that is not disturbed enters alone
LEMMA EntersAlone ==
  ASSUME req \in [Requests -> Req], NEW r \in Requests, NEW q, Enters(r, q),
         NEW p \in DOMAIN Pages, req'[r].pc \in Pages[p], p \notin disturbed'
  PROVE  p \notin disturbed /\ \A x \in Requests : req[x].pc \notin Pages[p]
  <1>1. req'[r] = q
    BY DEF Enters
  <1>2. disturbed' = disturbed \cup {y \in DOMAIN Pages :
                       q.pc \in Pages[y] /\ \E x \in Requests : req[x].pc \in Pages[y]}
    BY DEF Enters
  <1> QED
    BY <1>1, <1>2

LEMMA PagesAre ==
  DOMAIN Pages = {"mfa", "logo"} /\ Pages["mfa"] = MfaPcs /\ Pages["logo"] = LogoPcs
  BY DEF Pages

LEMMA Grows ==
  ASSUME NEW r, NEW q, Enters(r, q)
  PROVE  disturbed \subseteq disturbed'
  BY DEF Enters

LEMMA MfaFrame ==
  ASSUME MfaInv, disturbed \subseteq disturbed',
         UNCHANGED <<codes, spent, passed, again, failed, locked, lastStep, streak>>,
         \A x \in Requests : req'[x].pc \in MfaPcs => req'[x] = req[x]
  PROVE  MfaInv'
  <1> SUFFICES ASSUME "mfa" \notin disturbed'
               PROVE  (OneAtATime /\ Accepted /\ Tally /\ InHand)'
    BY DEF MfaInv
  <1>1. OneAtATime /\ Accepted /\ Tally /\ InHand
    BY DEF MfaInv
  <1>2. OneAtATime'
    BY <1>1 DEF OneAtATime
  <1>3. Accepted' /\ Tally'
    BY <1>1 DEF Accepted, Tally
  <1>4. InHand'
    BY <1>1 DEF InHand, MfaPcs
  <1> QED
    BY <1>2, <1>3, <1>4

\* the same where one request enters
LEMMA MfaEnters ==
  ASSUME Typed, MfaInv, NEW r \in Requests, NEW q, Enters(r, q), Only(r),
         UNCHANGED <<codes, spent, passed, again, failed, locked, lastStep, streak>>,
         req'[r].pc \in MfaPcs,
         req'[r].pc \in {"spend", "fail"} => locked = FALSE /\ req'[r].n = failed,
         req'[r].pc = "spend" => req'[r].code \in codes /\ req'[r].rest = codes \ {req'[r].code},
         req'[r].pc = "clear" => req'[r].step > lastStep
  PROVE  MfaInv'
  <1> SUFFICES ASSUME "mfa" \notin disturbed'
               PROVE  (OneAtATime /\ Accepted /\ Tally /\ InHand)'
    BY DEF MfaInv
  <1>1. "mfa" \notin disturbed /\ \A x \in Requests : req[x].pc \notin MfaPcs
    BY PagesAre, EntersAlone DEF Typed
  <1>2. OneAtATime /\ Accepted /\ Tally /\ InHand
    BY <1>1 DEF MfaInv
  <1>3. OneAtATime'
    BY <1>1 DEF OneAtATime, Only
  <1>4. Accepted' /\ Tally'
    BY <1>2 DEF Accepted, Tally
  <1>5. InHand'
    BY <1>1 DEF InHand, Only, MfaPcs
  <1> QED
    BY <1>3, <1>4, <1>5

LEMMA StepUpEnters ==
  ASSUME NEW r, NEW q, StepUp(r, q)
  PROVE  ~locked /\ UNCHANGED <<factor, guesses>> /\ \E e : Enters(r, e)
  BY DEF StepUp, mfa

LEMMA MfaMfa == Typed /\ MfaInv /\ MfaStep => MfaInv'
  <1> SUFFICES ASSUME Typed, MfaInv, MfaStep PROVE MfaInv'
    OBVIOUS
  <1> USE DEF vars, factor, guesses
  <1>0. /\ req \in [Requests -> Req] /\ {"clear", "elevate", "enroll", "refresh"} \subseteq Pcs
        /\ failed \in 0 .. MaxAttempts - 1 /\ locked \in BOOLEAN /\ again \in BOOLEAN
        /\ passed \subseteq Steps /\ lastStep \in {0} \cup Steps /\ streak \in 0 .. MaxAttempts
        /\ MaxAttempts \in Nat \ {0} /\ Steps \subseteq Nat \ {0}
        /\ \A r \in Requests : req[r].n \in 0 .. MaxAttempts - 1 /\ req[r].step \in {0} \cup Steps
    BY OfReq, LimitAssumption DEF Typed, RowsOK, Pcs, MfaPcs, Steps
  <1>1. CASE LockEnds
    <2>1. /\ locked /\ locked' = FALSE /\ streak' = 0
          /\ UNCHANGED <<codes, spent, passed, again, failed, lastStep, req, disturbed>>
      BY <1>1 DEF LockEnds
    <2>2. locked = TRUE
      BY <1>0, <2>1
    <2> HIDE <1>1
    <2>3. SUFFICES ASSUME "mfa" \notin disturbed'
                   PROVE  (OneAtATime /\ Accepted /\ Tally /\ InHand)'
      BY DEF MfaInv
    <2>4. OneAtATime /\ Accepted /\ Tally /\ InHand
      BY <2>1, <2>3 DEF MfaInv
    <2>5. OneAtATime' /\ Accepted'
      BY <2>1, <2>4 DEF OneAtATime, Accepted
    <2>6. Tally'
      BY <2>1, <2>2, <2>4 DEF Tally
    <2>7. InHand'
      BY <2>1, <2>4 DEF InHand
    <2> QED
      BY <2>5, <2>6, <2>7
  <1>2. CASE Tick
    BY <1>2, MfaFrame DEF Tick
  <1>3. ASSUME NEW s \in Sessions, ElevationLapses(s) PROVE MfaInv'
    BY <1>3, MfaFrame DEF ElevationLapses
  <1>4. ASSUME NEW r \in Requests, EnrollWrite(r) PROVE MfaInv'
    <2>1. req[r].pc = "enroll" /\ disturbed' = disturbed
          /\ UNCHANGED <<failed, locked, lastStep, streak>>
      BY <1>4 DEF EnrollWrite, At
    <2>2. CASE Ends(r) /\ UNCHANGED factor
      BY <1>0, <2>1, <2>2, Ended, MfaFrame DEF Only, MfaPcs
    <2>3. CASE codes' = NewBatch /\ spent' = {} /\ passed' = {} /\ Left(r, "elevate")
               /\ UNCHANGED again
      <3>1. SUFFICES ASSUME "mfa" \notin disturbed'
                     PROVE  (OneAtATime /\ Accepted /\ Tally /\ InHand)'
        BY DEF MfaInv
      <3>2. OneAtATime /\ Accepted /\ Tally /\ InHand
        BY <2>1, <3>1 DEF MfaInv
      <3>3. req'[r].pc = "elevate" /\ Only(r)
        BY <1>0, <2>3, LeftFor
      <3>4. OneAtATime'
        BY <2>1, <3>2, <3>3 DEF OneAtATime, Only, MfaPcs
      <3>5. Accepted' /\ Tally'
        BY <2>1, <2>3, <3>2 DEF Accepted, Tally
      <3>6. InHand'
        BY <2>1, <3>2, <3>3 DEF OneAtATime, InHand, Only, MfaPcs
      <3> QED
        BY <3>4, <3>5, <3>6
    <2> QED
      BY <1>4, <2>2, <2>3 DEF EnrollWrite
  <1>5. ASSUME NEW r \in Requests, SpendBackup(r) PROVE MfaInv'
    <2> DEFINE c == req[r].code
    <2>1. req[r].pc = "spend" /\ disturbed' = disturbed
          /\ UNCHANGED <<passed, failed, locked, lastStep, streak>>
      BY <1>5 DEF SpendBackup, At
    <2>2. SUFFICES ASSUME "mfa" \notin disturbed'
                   PROVE  (OneAtATime /\ Accepted /\ Tally /\ InHand)'
      BY DEF MfaInv
    <2>3. OneAtATime /\ Accepted /\ Tally /\ InHand
      BY <2>1, <2>2 DEF MfaInv
    <2>4. \A x \in Requests : x # r => req[x].pc \notin MfaPcs
      BY <2>1, <2>3 DEF OneAtATime, MfaPcs
    <2>5. c \in codes /\ req[r].rest = codes \ {c} /\ locked = FALSE /\ req[r].n = failed
      BY <2>1, <2>3 DEF InHand
    <2>6. CASE codes' = req[r].rest /\ Left(r, "clear") /\ spent' = spent \cup {c}
               /\ again' = (again \/ c \in spent)
      <3>1. req'[r].pc = "clear" /\ req'[r].step = 0 /\ Only(r)
        BY <1>0, <2>6, LeftFor
      <3>2. again' = FALSE
        BY <2>3, <2>5, <2>6 DEF Accepted
      <3>3. Accepted' /\ Tally'
        BY <2>1, <2>3, <2>5, <2>6, <3>2 DEF Accepted, Tally
      <3>4. OneAtATime' /\ InHand'
        BY <2>4, <3>1 DEF OneAtATime, InHand, Only, MfaPcs
      <3> QED
        BY <3>3, <3>4
    <2>7. CASE req' = [req EXCEPT ![r].pc = "fail", ![r].code = None, ![r].rest = {}]
               /\ UNCHANGED <<codes, spent, again>>
      <3>1. req'[r].pc = "fail" /\ req'[r].n = failed /\ Only(r)
        BY <1>0, <2>5, <2>7, Refused
      <3>2. Accepted' /\ Tally'
        BY <2>1, <2>3, <2>7 DEF Accepted, Tally
      <3>3. OneAtATime' /\ InHand'
        BY <2>1, <2>4, <2>5, <3>1 DEF OneAtATime, InHand, Only, MfaPcs
      <3> QED
        BY <3>2, <3>3
    <2> QED
      BY <1>5, <2>6, <2>7 DEF SpendBackup
  <1>6. ASSUME NEW r \in Requests, RecordFailure(r) PROVE MfaInv'
    <2>1. req[r].pc = "fail" /\ UNCHANGED <<codes, spent, passed, again, lastStep>>
      BY <1>6 DEF RecordFailure, At
    <2>2. SUFFICES ASSUME "mfa" \notin disturbed'
                   PROVE  (OneAtATime /\ Accepted /\ Tally /\ InHand)'
      BY DEF MfaInv
    <2>3. /\ failed' = Counted(req[r].n) /\ locked' = (locked \/ Locks(req[r].n))
          /\ disturbed' = disturbed /\ Ends(r)
          /\ streak' = IF streak < MaxAttempts THEN streak + 1 ELSE streak
      BY <1>6, <2>2 DEF RecordFailure, Disturb
    <2> HIDE <1>6
    <2>4. OneAtATime /\ Accepted /\ Tally /\ InHand
      BY <2>2, <2>3 DEF MfaInv
    <2>5. locked = FALSE /\ req[r].n = failed
      BY <2>1, <2>4 DEF InHand
    <2>6. \A x \in Requests : req'[x].pc \notin MfaPcs
      <3>1. req'[r].pc = "idle" /\ Only(r)
        BY <1>0, <2>3, Ended
      <3> QED
        BY <2>1, <2>4, <3>1 DEF OneAtATime, Only, MfaPcs
    <2>7. Tally'
      <3>1. streak' = failed + 1
        BY <1>0, <2>3, <2>4, <2>5 DEF Tally
      <3>2. CASE Locks(failed)
        <4>1. locked' = TRUE
          BY <2>3, <2>5, <3>2
        <4>2. failed' = 0 /\ failed + 1 = MaxAttempts
          BY <1>0, <2>3, <2>5, <3>2 DEF Counted, Locks
        <4> QED
          BY <3>1, <4>1, <4>2 DEF Tally
      <3>3. CASE ~Locks(failed)
        <4>1. locked' = FALSE
          BY <2>3, <2>5, <3>3
        <4>2. failed' = failed + 1
          BY <2>3, <2>5, <3>3 DEF Counted
        <4> QED
          BY <3>1, <4>1, <4>2 DEF Tally
      <3> QED
        BY <3>2, <3>3
    <2>8. Accepted'
      BY <2>1, <2>4 DEF Accepted
    <2>9. OneAtATime' /\ InHand'
      BY <2>6 DEF OneAtATime, InHand, MfaPcs
    <2> QED
      BY <2>7, <2>8, <2>9
  <1>7. ASSUME NEW r \in Requests, ClearFailures(r) PROVE MfaInv'
    <2> DEFINE t == req[r].step
    <2>1. /\ req[r].pc = "clear" /\ Left(r, "elevate") /\ streak' = 0
          /\ passed' = passed \cup ({t} \ {0}) /\ again' = (again \/ t \in passed)
          /\ UNCHANGED <<codes, spent>>
      BY <1>7 DEF ClearFailures, At
    <2>2. SUFFICES ASSUME "mfa" \notin disturbed'
                   PROVE  (OneAtATime /\ Accepted /\ Tally /\ InHand)'
      BY DEF MfaInv
    <2>3. /\ failed' = 0 /\ locked' = FALSE /\ lastStep' = IF t = 0 THEN lastStep ELSE t
          /\ disturbed' = disturbed
      BY <1>7, <2>2 DEF ClearFailures, Disturb
    <2> HIDE <1>7
    <2>4. OneAtATime /\ Accepted /\ Tally /\ InHand
      BY <2>2, <2>3 DEF MfaInv
    <2>5. t = 0 \/ t > lastStep
      BY <2>1, <2>4 DEF InHand
    <2>c. t \in {0} \cup Steps
      BY <1>0
    <2>b. spent \cap codes = {} /\ again = FALSE /\ \A u \in passed : u <= lastStep
      BY <2>4 DEF Accepted
    <2> HIDE DEF t
    <2>d. Steps \subseteq Nat \ {0} /\ lastStep \in {0} \cup Steps /\ passed \subseteq Steps
      BY <1>0
    <2>a. t \in Nat /\ lastStep \in Nat /\ passed \subseteq Nat \ {0}
      BY <2>c, <2>d
    <2>6. t \notin passed
      BY <2>5, <2>a, <2>b
    <2>7. again' = FALSE
      BY <2>1, <2>6, <2>b
    <2>8. \A u \in passed' : u <= lastStep'
      BY <2>1, <2>3, <2>5, <2>a, <2>b
    <2>9. Accepted'
      BY <2>1, <2>7, <2>8, <2>b DEF Accepted
    <2>10. Tally'
      BY <2>1, <2>3 DEF Tally
    <2>11. OneAtATime' /\ InHand'
      <3>1. req'[r].pc = "elevate" /\ Only(r)
        BY <1>0, <2>1, LeftFor
      <3> QED
        BY <2>1, <2>4, <3>1 DEF OneAtATime, InHand, Only, MfaPcs
    <2> QED
      BY <2>9, <2>10, <2>11
  <1>8. ASSUME NEW r \in Requests, Elevate(r) \/ RefreshKey(r) PROVE MfaInv'
    <2>1. /\ req'[r].pc = "idle" /\ Only(r) /\ disturbed' = disturbed
          /\ UNCHANGED <<factor, guesses>>
      BY <1>0, <1>8, Ended DEF Elevate, RefreshKey, mfa
    <2> QED
      BY <2>1, MfaFrame DEF Only, MfaPcs
  <1>9. ASSUME NEW r \in Requests, NEW s \in Sessions, EnrollRead(r, s) PROVE MfaInv'
    <2>1. /\ req'[r].pc = "enroll" /\ Only(r) /\ UNCHANGED <<factor, guesses>>
          /\ Enters(r, [Idle EXCEPT !.pc = "enroll", !.s = s])
      BY <1>0, <1>9, Entered DEF EnrollRead, mfa
    <2> QED
      BY <2>1, MfaEnters DEF MfaPcs
  <1>10. ASSUME NEW r \in Requests, NEW s \in Sessions, PassGate(r, s) PROVE MfaInv'
    <2>1. /\ req'[r].pc = "refresh" /\ Only(r) /\ UNCHANGED <<factor, guesses>>
          /\ disturbed \subseteq disturbed'
      BY <1>0, <1>10, Entered, Grows DEF PassGate
    <2> QED
      BY <2>1, MfaFrame DEF Only, MfaPcs
  <1>11. ASSUME NEW r \in Requests, NEW s \in Sessions, NEW t \in Steps, StepUpTotp(r, s, t)
         PROVE  MfaInv'
    <2>1. /\ \/ req'[r].pc = "clear" /\ req'[r].step = t /\ Fresh(t)
             \/ req'[r].pc = "fail" /\ req'[r].n = failed
          /\ Only(r)
      BY <1>11, TypedIs, ByTotp
    <2>2. ~locked /\ UNCHANGED <<factor, guesses>> /\ \E q : Enters(r, q)
      BY <1>11, StepUpEnters DEF StepUpTotp
    <2>3. locked = FALSE
      BY <1>0, <2>2
    <2>4. PICK q : Enters(r, q)
      BY <2>2
    <2> HIDE <1>11
    <2>5. req'[r].pc = "clear" => req'[r].step > lastStep
      BY <2>1 DEF Fresh
    <2> QED
      BY <2>1, <2>2, <2>3, <2>4, <2>5, MfaEnters DEF MfaPcs
  <1>12. ASSUME NEW r \in Requests, NEW s \in Sessions, NEW c \in Codes, StepUpBackup(r, s, c)
         PROVE  MfaInv'
    <2>1. /\ \/ /\ req'[r].pc = "spend" /\ req'[r].code = c /\ req'[r].rest = codes \ {c}
                /\ c \in codes
             \/ req'[r].pc = "fail"
          /\ req'[r].n = failed /\ Only(r)
      BY <1>12, TypedIs, ByBackup
    <2>2. ~locked /\ UNCHANGED <<factor, guesses>> /\ \E q : Enters(r, q)
      BY <1>12, StepUpEnters DEF StepUpBackup
    <2>3. locked = FALSE
      BY <1>0, <2>2
    <2>4. PICK q : Enters(r, q)
      BY <2>2
    <2> HIDE <1>12
    <2> QED
      BY <2>1, <2>2, <2>3, <2>4, MfaEnters DEF MfaPcs
  <1> QED
    BY <1>1, <1>2, <1>3, <1>4, <1>5, <1>6, <1>7, <1>8, <1>9, <1>10, <1>11, <1>12 DEF MfaStep

LEMMA MfaStill ==
  SignInStep \/ SessionStep \/ Restart
    => UNCHANGED <<codes, spent, passed, again, failed, locked, lastStep, streak, disturbed>>
  <1> USE DEF vars, signIn, mfa, factor, guesses
  <1>1. SignInStep => UNCHANGED <<factor, guesses, disturbed>>
    BY
       DEF SignInStep, SetActive, LinkExpires, LoginRead, IssueLink, DropLink, ClaimLink, FindKey,
       OpenSession, RedeemRead
  <1>2. SessionStep => UNCHANGED <<factor, guesses, disturbed>>
    BY DEF SessionStep, SignedUp, SessionExpires, Forget
  <1> QED
    BY <1>1, <1>2 DEF Restart

LEMMA MfaStillLogo ==
  LogoStep => /\ UNCHANGED <<codes, spent, passed, again, failed, locked, lastStep, streak>>
              /\ disturbed \subseteq disturbed'
  <1> USE DEF mfa, factor, guesses
  <1>1. ASSUME LogoStep PROVE UNCHANGED <<factor, guesses>>
    BY <1>1
       DEF LogoStep, SaveProfile, PutObject, PointLogo, UnpointLogo, RemoveObject, UploadLogo,
       RemoveLogo
  <1>2. ASSUME LogoStep PROVE disturbed \subseteq disturbed'
    BY <1>2, Grows DEF LogoStep, SaveProfile, PutObject, PointLogo, UnpointLogo, RemoveObject,
       UploadLogo, RemoveLogo
  <1> QED
    BY <1>1, <1>2

LEMMA MfaNext == Typed /\ MfaInv /\ [Next]_vars => MfaInv'
  <1> SUFFICES ASSUME Typed, MfaInv, [Next]_vars PROVE MfaInv'
    OBVIOUS
  <1>1. CASE UNCHANGED vars
    BY <1>1, MfaFrame DEF vars, mfa, factor, guesses
  <1>2. CASE MfaStep
    BY <1>2, MfaMfa
  <1>3. CASE SignInStep \/ SessionStep \/ Restart
    <2>1. Moved({}) \/ Moved(SignInPcs)
      BY <1>3, SessionTyped, SignInTyped, RestartTyped
    <2>2. \A x \in Requests : req'[x].pc \in MfaPcs => req'[x] = req[x]
      BY <2>1 DEF Moved, SignInPcs, MfaPcs
    <2> QED
      BY <1>3, <2>2, MfaStill, MfaFrame
  <1>4. CASE LogoStep
    <2>1. Moved(LogoPcs)
      BY <1>4, LogoTyped
    <2>2. \A x \in Requests : req'[x].pc \in MfaPcs => req'[x] = req[x]
      BY <2>1 DEF Moved, LogoPcs, MfaPcs
    <2> QED
      BY <1>4, <2>2, MfaStillLogo, MfaFrame
  <1> QED
    BY <1>1, <1>2, <1>3, <1>4 DEF Next

\* A session is elevated by a code of its own, and the code elevates no other.
THEOREM StepUpByOneCode == Spec => []StepUpHolds
  <1>1. Typed /\ MfaInv => CodesOnce
    BY DEF MfaInv, Accepted, CodesOnce
  <1>2. GateInv => ElevatedByCode
    BY DEF GateInv, ElevatedByCode
  <1>3. Typed /\ MfaInv /\ GateInv => StepUpHolds
    BY <1>1, <1>2 DEF StepUpHolds
  <1> QED
    BY <1>3, InitTyped, NextTyped, MfaInit, MfaNext, GateInit, GateNext, PTL DEF Spec

\* Wrong codes in a row add up, across sessions and restarts, and the last one
\* allowed locks the key; unless step-ups overlap or a write of one is refused.
THEOREM WrongCodesLock == Spec => []ThrottleHolds
  <1>1. Typed /\ MfaInv => ThrottleHolds
    <2> SUFFICES ASSUME Typed, Tally PROVE IF locked THEN streak = MaxAttempts
                                           ELSE streak = failed /\ streak < MaxAttempts
      BY DEF MfaInv, ThrottleHolds
    <2>1. failed < MaxAttempts
      BY LimitAssumption DEF Typed, RowsOK
    <2>2. CASE locked = TRUE /\ streak = MaxAttempts
      BY <2>2
    <2>3. CASE locked = FALSE /\ streak = failed
      BY <2>1, <2>3
    <2> QED
      BY <2>2, <2>3 DEF Tally
  <1> QED
    BY <1>1, InitTyped, NextTyped, MfaInit, MfaNext, PTL DEF Spec

-----------------------------------------------------------------------------
(* The logo: uploads and removals that do not overlap. *)

LogoParts ==
  /\ \A r, q \in Requests : req[r].pc \in LogoPcs /\ req[q].pc \in LogoPcs => r = q
  /\ logo = TRUE => object = TRUE
  /\ \A r \in Requests : /\ req[r].pc = "point" => object = TRUE
                         /\ req[r].pc = "remove" => logo = FALSE

LogoInv == "logo" \notin disturbed => LogoParts

LEMMA LogoInit == Init => LogoInv
  <1>1. Idle.pc = "idle"
    BY IdleIs, Carried
  <1> QED
    BY <1>1 DEF Init, LogoInv, LogoParts, LogoPcs

LEMMA LogoFrame ==
  ASSUME LogoInv, disturbed \subseteq disturbed', UNCHANGED <<logo, object>>,
         \A x \in Requests : req'[x].pc \in LogoPcs => req'[x] = req[x]
  PROVE  LogoInv'
  BY DEF LogoInv, LogoParts, LogoPcs

LEMMA LogoEnters ==
  ASSUME Typed, LogoInv, NEW r \in Requests, NEW q, Enters(r, q), Only(r),
         UNCHANGED <<logo, object>>, req'[r].pc \in {"put", "unpoint"}
  PROVE  LogoInv'
  <1> SUFFICES ASSUME "logo" \notin disturbed' PROVE LogoParts'
    BY DEF LogoInv
  <1>1. "logo" \notin disturbed /\ \A x \in Requests : req[x].pc \notin LogoPcs
    BY PagesAre, EntersAlone DEF Typed, LogoPcs
  <1>2. LogoParts
    BY <1>1 DEF LogoInv
  <1> QED
    BY <1>1, <1>2 DEF LogoParts, LogoPcs, Only

LEMMA LogoLogo == Typed /\ LogoInv /\ LogoStep => LogoInv'
  <1> SUFFICES ASSUME Typed, LogoInv, LogoStep PROVE LogoInv'
    OBVIOUS
  <1> USE DEF vars, picture
  <1>0. /\ req \in [Requests -> Req] /\ {"put", "point", "unpoint", "remove"} \subseteq Pcs
        /\ logo \in BOOLEAN /\ object \in BOOLEAN
    BY DEF Typed, RowsOK, Pcs, LogoPcs
  <1>a. ASSUME NEW r \in Requests, req[r].pc \in LogoPcs, Only(r), disturbed' = disturbed,
               req'[r].pc \in {"idle", "point", "remove"},
               (logo = TRUE => object = TRUE) => (logo' = TRUE => object' = TRUE),
               req'[r].pc = "point" => object' = TRUE,
               req'[r].pc = "remove" => logo' = FALSE
        PROVE  LogoInv'
    <2> SUFFICES ASSUME "logo" \notin disturbed' PROVE LogoParts'
      BY DEF LogoInv
    <2>1. LogoParts
      BY <1>a DEF LogoInv
    <2>2. \A x \in Requests : x # r => req'[x].pc \notin LogoPcs
      BY <1>a, <2>1 DEF LogoParts, Only
    <2> QED
      BY <1>a, <2>1, <2>2 DEF LogoParts, LogoPcs
  <1>1. ASSUME NEW s \in Sessions, SaveProfile(s) PROVE LogoInv'
    BY <1>1, LogoFrame DEF SaveProfile
  <1>2. ASSUME NEW r \in Requests, PutObject(r) PROVE LogoInv'
    <2>1. req[r].pc \in LogoPcs /\ disturbed' = disturbed /\ logo' = logo
      BY <1>2 DEF PutObject, At, LogoPcs
    <2>2. CASE object' = TRUE /\ Goes(r, "point")
      BY <1>0, <1>a, <2>1, <2>2, Gone
    <2>3. CASE Ends(r) /\ UNCHANGED object
      BY <1>0, <1>a, <2>1, <2>3, Ended
    <2> QED
      BY <1>2, <2>2, <2>3 DEF PutObject
  <1>3. ASSUME NEW r \in Requests, PointLogo(r) PROVE LogoInv'
    <2>1. /\ req[r].pc = "point" /\ disturbed' = disturbed /\ object' = object
          /\ req'[r].pc = "idle" /\ Only(r)
      BY <1>0, <1>3, Ended DEF PointLogo, At
    <2> SUFFICES ASSUME "logo" \notin disturbed' PROVE LogoInv'
      BY DEF LogoInv
    <2>2. object = TRUE
      BY <2>1 DEF LogoInv, LogoParts
    <2> QED
      BY <1>a, <2>1, <2>2 DEF LogoPcs
  <1>4. ASSUME NEW r \in Requests, UnpointLogo(r) PROVE LogoInv'
    <2>1. req[r].pc \in LogoPcs /\ disturbed' = disturbed /\ object' = object
      BY <1>4 DEF UnpointLogo, At, LogoPcs
    <2>2. CASE logo' = FALSE /\ Goes(r, "remove")
      BY <1>0, <1>a, <2>1, <2>2, Gone
    <2>3. CASE Ends(r) /\ UNCHANGED logo
      BY <1>0, <1>a, <2>1, <2>3, Ended
    <2> QED
      BY <1>4, <2>2, <2>3 DEF UnpointLogo, GivesUp
  <1>5. ASSUME NEW r \in Requests, RemoveObject(r) PROVE LogoInv'
    <2>1. /\ req[r].pc = "remove" /\ disturbed' = disturbed /\ logo' = logo
          /\ req'[r].pc = "idle" /\ Only(r)
      BY <1>0, <1>5, Ended DEF RemoveObject, At
    <2> SUFFICES ASSUME "logo" \notin disturbed' PROVE LogoInv'
      BY DEF LogoInv
    <2>2. logo = FALSE
      BY <2>1 DEF LogoInv, LogoParts
    <2> QED
      BY <1>a, <2>1, <2>2 DEF LogoPcs
  <1>6. ASSUME NEW r \in Requests, NEW s \in Sessions, UploadLogo(r, s) PROVE LogoInv'
    <2>1. /\ Enters(r, [Idle EXCEPT !.pc = "put", !.s = s]) /\ req'[r].pc = "put" /\ Only(r)
          /\ UNCHANGED <<logo, object>>
      BY <1>0, <1>6, Entered DEF UploadLogo
    <2> QED
      BY <2>1, LogoEnters
  <1>7. ASSUME NEW r \in Requests, NEW s \in Sessions, RemoveLogo(r, s) PROVE LogoInv'
    <2>1. /\ Enters(r, [Idle EXCEPT !.pc = "unpoint", !.s = s]) /\ req'[r].pc = "unpoint"
          /\ Only(r) /\ UNCHANGED <<logo, object>>
      BY <1>0, <1>7, Entered DEF RemoveLogo
    <2> QED
      BY <2>1, LogoEnters
  <1> QED
    BY <1>1, <1>2, <1>3, <1>4, <1>5, <1>6, <1>7 DEF LogoStep

LEMMA LogoStill ==
  SignInStep \/ SessionStep \/ MfaStep \/ Restart
    => UNCHANGED <<logo, object>> /\ disturbed \subseteq disturbed'
  <1> USE DEF vars, picture
  <1>1. SignInStep \/ SessionStep => UNCHANGED <<logo, object, disturbed>>
    BY
       DEF SignInStep, SetActive, LinkExpires, LoginRead, IssueLink, DropLink, ClaimLink, FindKey,
       OpenSession, RedeemRead, SessionStep, SignedUp, SessionExpires, Forget
  <1>2. MfaStep => UNCHANGED <<logo, object>>
    BY DEF MfaStep, LockEnds, Tick, ElevationLapses, EnrollWrite, SpendBackup, RecordFailure,
       ClearFailures, Elevate, RefreshKey, EnrollRead, PassGate, StepUpTotp, StepUpBackup, StepUp
  <1>3. ASSUME NEW r \in Requests, NEW q, StepUp(r, q) PROVE disturbed \subseteq disturbed'
    BY <1>3, Grows DEF StepUp
  <1>4. MfaStep => disturbed \subseteq disturbed'
    BY <1>3, Grows DEF MfaStep, LockEnds, Tick, ElevationLapses, EnrollWrite, SpendBackup,
       RecordFailure, ClearFailures, Elevate, RefreshKey, EnrollRead, PassGate, StepUpTotp,
       StepUpBackup, Disturb
  <1> QED
    BY <1>1, <1>2, <1>4 DEF Restart

LEMMA LogoNext == Typed /\ LogoInv /\ [Next]_vars => LogoInv'
  <1> SUFFICES ASSUME Typed, LogoInv, [Next]_vars PROVE LogoInv'
    OBVIOUS
  <1>1. CASE UNCHANGED vars
    BY <1>1, LogoFrame DEF vars, picture
  <1>2. CASE LogoStep
    BY <1>2, LogoLogo
  <1>3. CASE SignInStep \/ SessionStep \/ MfaStep \/ Restart
    <2>1. Moved({}) \/ Moved(SignInPcs) \/ Moved(GatedPcs)
      BY <1>3, SessionTyped, SignInTyped, MfaTyped, RestartTyped
    <2>2. \A x \in Requests : req'[x].pc \in LogoPcs => req'[x] = req[x]
      BY <2>1 DEF Moved, SignInPcs, GatedPcs, MfaPcs, LogoPcs
    <2> QED
      BY <1>3, <2>2, LogoStill, LogoFrame
  <1> QED
    BY <1>1, <1>2, <1>3 DEF Next

\* A profile does not name a logo that is not stored, as long as the uploads and
\* removals of its owner do not overlap, whichever of their steps fail.
THEOREM LogoStaysServed == Spec => []LogoServed
  <1>1. Typed /\ LogoInv => LogoServed
    <2>1. Typed => logo \in BOOLEAN /\ object \in BOOLEAN
      BY DEF Typed, RowsOK
    <2> QED
      BY <2>1 DEF LogoInv, LogoParts, LogoServed
  <1> QED
    BY <1>1, InitTyped, NextTyped, LogoInit, LogoNext, PTL DEF Spec
=============================================================================
