-------------------------- MODULE AlertIngestProofs --------------------------
(***************************************************************************)
(* Proofs about AlertIngest, for every set of items, rules, requests,      *)
(* versions and instants.                                                  *)
(*                                                                         *)
(* AlertInv holds under every fault; OnceInv adds what holds when no two   *)
(* transactions read the same instant; ServedInv, what holds without       *)
(* faults.                                                                 *)
(***************************************************************************)
EXTENDS AlertIngest, TLAPS

Busy(h) == slot[h].pc # "idle"

\* A busy slot routes a known alert, with the severity of its row.
SlotInv(h) ==
    IF Busy(h)
    THEN /\ slot[h].item \in Items
         /\ Known(slot[h].item)
         /\ slot[h].severity = row[slot[h].item].severity
         /\ slot[h].pending \subseteq since[slot[h].item]
         /\ slot[h].pc = "rules" => slot[h].pending = {}
    ELSE slot[h].pending = {}

\* The history of a known alert covers the rules that match it now; an alert
\* that is not known has none, and has called nobody.
SeenInv(k) ==
    IF Known(k)
    THEN /\ row[k].created \in taken
         /\ \A r \in Rules : Meant(rule[r], k, row[k].severity) => r \in since[k]
    ELSE \A r \in Rules : calls[k][r] = 0

AlertInv ==
    /\ TypeOK
    /\ \A h \in Slots : SlotInv(h)
    /\ \A k \in Items : SeenInv(k)
    /\ CalledAsMeant

\* One slot at a time routes an alert, and a rule that it has still to call
\* has not been called.
OnceInv ==
    /\ \A g, h \in Slots : Busy(g) /\ Busy(h) /\ slot[g].item = slot[h].item => g = h
    /\ \A h \in Slots, r \in Rules :
          slot[h].pc = "rules" \/ r \in slot[h].pending => calls[slot[h].item][r] = 0
    /\ NotifiedOnce

\* A loyal rule still matches its alert.
ServedInv ==
    /\ NoRuleForgotten
    /\ \A k \in Items, r \in Rules :
          Known(k) /\ r \in loyal[k] => Meant(rule[r], k, row[k].severity)

-----------------------------------------------------------------------------
(***************************************************************************)
(* What the operators do.                                                  *)
(***************************************************************************)

LEMMA NoRuleTyped == ASSUME NEW life \in {"unused", "deleted"}
                     PROVE  NoRule(life) \in RuleState
  BY DEF RuleState, NoRule

\* What the code tests of a rule is what its documentation says.
LEMMA MatchingIsMeant ==
  ASSUME TypeOK, NEW k \in Items, NEW s \in Severities
  PROVE  Matching(rule, k, s) = {r \in Rules : Meant(rule[r], k, s)}
  <1>1. ASSUME NEW r \in Rules
        PROVE  Applies(rule[r], TypeOf[k], s) /\ Reaches(rule[r]) <=> Meant(rule[r], k, s)
    <2>1. rule[r].min \in Nat /\ s \in Nat
      BY StampsAssumption DEF TypeOK, RuleState, RuleRows, NoRule, Severities
    <2> QED
      BY <2>1 DEF Applies, Reaches, Meant
  <1> QED
    BY <1>1 DEF Matching

\* An upsert inserts, or updates all but severity, status and creation.
LEMMA UpsertEffect ==
  ASSUME TypeOK, NEW k \in Items, NEW via \in {"webhook", "poller"},
         NEW s \in Severities, NEW v \in Versions, NEW t \in Instants,
         Upsert(k, via, s, v, t)
  PROVE  /\ row' \in [Items -> RowState]
         /\ taken' = taken \cup {t} /\ taken' \subseteq Instants
         /\ \A i \in Items : i # k => row'[i] = row[i]
         /\ row'[k].via # "none"
         /\ row'[k].updated = t
         /\ Known(k) => /\ row'[k].via = row[k].via
                        /\ row'[k].severity = row[k].severity
                        /\ row'[k].status = row[k].status
                        /\ row'[k].created = row[k].created
         /\ ~Known(k) => /\ row'[k].via = via
                         /\ row'[k].severity = s
                         /\ row'[k].created = t
         /\ since' \in [Items -> SUBSET Rules] /\ loyal' \in [Items -> SUBSET Rules]
         /\ \A i \in Items : i # k \/ Known(k) =>
               since'[i] = since[i] /\ loyal'[i] = loyal[i]
         /\ ~Known(k) => \A r \in Rules :
               /\ r \in since'[k] <=> Meant(rule[r], k, s)
               /\ r \in loyal'[k] <=> Meant(rule[r], k, s)
  <1> DEFINE x == Upserted(k, via, s, v, t)
  <1>1. row[k] \in RowState
    BY DEF TypeOK
  <1>2. x \in RowState
    BY <1>1, StatusAssumption DEF Upserted, RowState
  <1>3. row' = [row EXCEPT ![k] = x]
    BY DEF Upsert
  <1>4. /\ row' \in [Items -> RowState]
        /\ row'[k] = x
        /\ \A i \in Items : i # k => row'[i] = row[i]
    BY <1>2, <1>3 DEF TypeOK
  <1>5. /\ x.via # "none" /\ x.updated = t
        /\ Known(k) => /\ x.via = row[k].via /\ x.severity = row[k].severity
                       /\ x.status = row[k].status /\ x.created = row[k].created
        /\ ~Known(k) => x.via = via /\ x.severity = s /\ x.created = t
    BY <1>1 DEF Upserted, Known, RowState
  <1>6. taken' = taken \cup {t} /\ taken' \subseteq Instants
    BY DEF Upsert, TypeOK
  <1>7. CASE Known(k)
    BY <1>4, <1>5, <1>6, <1>7 DEF Upsert, TypeOK
  <1>8. CASE ~Known(k)
    <2> DEFINE meant == {r \in Rules : Meant(rule[r], k, s)}
    <2>1. since' = [since EXCEPT ![k] = meant] /\ loyal' = [loyal EXCEPT ![k] = meant]
      BY <1>8 DEF Upsert
    <2>2. /\ since' \in [Items -> SUBSET Rules] /\ loyal' \in [Items -> SUBSET Rules]
          /\ \A i \in Items : i # k => since'[i] = since[i] /\ loyal'[i] = loyal[i]
          /\ since'[k] = meant /\ loyal'[k] = meant
      BY <2>1 DEF TypeOK
    <2> QED
      BY <1>4, <1>5, <1>6, <1>8, <2>2
  <1> QED
    BY <1>7, <1>8

-----------------------------------------------------------------------------
(***************************************************************************)
(* Every fault.                                                            *)
(***************************************************************************)

LEMMA AlertInit == Init => AlertInv
  <1> SUFFICES ASSUME Init PROVE AlertInv
    OBVIOUS
  <1>1. TypeOK
    BY NoRuleTyped, StatusAssumption, StampsAssumption
       DEF Init, TypeOK, RowState, NoRow, SlotState, IdleSlot, Severities
  <1>2. (\A h \in Slots : SlotInv(h)) /\ (\A k \in Items : SeenInv(k)) /\ CalledAsMeant
    BY DEF Init, SlotInv, SeenInv, CalledAsMeant, Busy, IdleSlot, Known, NoRow
  <1> QED
    BY <1>1, <1>2 DEF AlertInv

\* A write keeps what AlertInv says of the alerts, and of the slots that it
\* does not change.
LEMMA UpsertInv ==
  ASSUME AlertInv, NEW k \in Items, NEW via \in {"webhook", "poller"},
         NEW s \in Severities, NEW v \in Versions, NEW t \in Instants,
         Upsert(k, via, s, v, t)
  PROVE  /\ slot' \in [Slots -> SlotState] => TypeOK'
         /\ \A i \in Items : SeenInv(i)'
         /\ CalledAsMeant'
         /\ \A h \in Slots : slot'[h] = slot[h] => SlotInv(h)'
  <1> USE DEF AlertInv
  <1>1. UNCHANGED <<rule, calls>>
    BY DEF Upsert
  <1>2. slot' \in [Slots -> SlotState] => TypeOK'
    BY <1>1, UpsertEffect DEF TypeOK
  <1>3. ASSUME NEW i \in Items
        PROVE  SeenInv(i)'
    <2>1. CASE i = k
      BY <1>1, <2>1, UpsertEffect DEF SeenInv, Known, Meant
    <2>2. CASE i # k
      BY <1>1, <2>2, UpsertEffect DEF SeenInv, Known, Meant
    <2> QED
      BY <2>1, <2>2
  <1>4. CalledAsMeant'
    <2>1. ASSUME NEW r \in Rules, ~Known(k)
          PROVE  ~(calls[k][r] > 0)
      BY <2>1 DEF SeenInv
    <2> QED
      BY <1>1, <2>1, UpsertEffect DEF CalledAsMeant
  <1>5. ASSUME NEW h \in Slots, slot'[h] = slot[h]
        PROVE  SlotInv(h)'
    BY <1>5, UpsertEffect DEF SlotInv, Busy, Known
  <1> QED
    BY <1>2, <1>3, <1>4, <1>5

LEMMA DeliverInv ==
  ASSUME AlertInv, NEW h \in Slots, NEW k \in Items, NEW s \in Severities,
         NEW v \in Versions, Deliver(h, k, s, v)
  PROVE  AlertInv'
  <1>1. PICK t \in Instants : Upsert(k, "webhook", s, v, t)
    BY DEF Deliver, Stamps
  <1>2. TypeOK
    BY DEF AlertInv
  <1>3. row' \in [Items -> RowState] /\ Known(k)'
    BY <1>1, <1>2, UpsertEffect DEF Known
  <1> DEFINE y == [pc |-> "rules", item |-> k, severity |-> row'[k].severity,
                   pending |-> {}]
  <1>4. y \in SlotState
    BY <1>3 DEF SlotState, RowState
  <1>5. slot' = slot \/ slot' = [slot EXCEPT ![h] = y]
    BY DEF Deliver
  <1>6. /\ slot' \in [Slots -> SlotState]
        /\ \A g \in Slots : slot'[g] = slot[g] \/ (g = h /\ slot'[g] = y)
    <2>1. slot \in [Slots -> SlotState]
      BY <1>2 DEF TypeOK
    <2> HIDE DEF y
    <2>2. CASE slot' = slot
      BY <2>1, <2>2
    <2>3. CASE slot' = [slot EXCEPT ![h] = y]
      BY <1>4, <2>1, <2>3
    <2> QED
      BY <1>5, <2>2, <2>3
  <1>7. ASSUME NEW g \in Slots, slot'[g] = y
        PROVE  SlotInv(g)'
    BY <1>3, <1>7 DEF SlotInv, Busy
  <1> QED
    BY <1>1, <1>6, <1>7, UpsertInv DEF AlertInv

\* A write that starts no routing.
LEMMA QuietInv ==
  ASSUME AlertInv, NEW k \in Items, NEW via \in {"webhook", "poller"},
         NEW s \in Severities, NEW v \in Versions, NEW t \in Instants,
         Upsert(k, via, s, v, t), UNCHANGED slot
  PROVE  AlertInv'
  BY UpsertInv DEF AlertInv, TypeOK

LEMMA TriageInv ==
  ASSUME AlertInv, NEW k \in Items, NEW status \in Statuses, UpdateStatus(k, status)
  PROVE  AlertInv'
  <1> USE DEF AlertInv
  <1>1. PICK t \in Instants :
          /\ row' = [row EXCEPT ![k].status = status, ![k].updated = t]
          /\ taken' = taken \cup {t}
    BY DEF UpdateStatus, Stamps
  <1>2. UNCHANGED <<rule, slot, seen>>
    BY DEF UpdateStatus
  <1>3. /\ row' \in [Items -> RowState]
        /\ \A i \in Items : /\ row'[i].via = row[i].via
                            /\ row'[i].severity = row[i].severity
                            /\ row'[i].created = row[i].created
    <2> DEFINE x == [row[k] EXCEPT !.status = status, !.updated = t]
    <2>1. row[k] \in RowState
      BY DEF TypeOK
    <2>2. /\ x \in RowState /\ x.via = row[k].via
          /\ x.severity = row[k].severity /\ x.created = row[k].created
      BY <2>1 DEF RowState
    <2>3. row' = [row EXCEPT ![k] = x]
      BY <1>1 DEF TypeOK
    <2> HIDE DEF x
    <2> QED
      BY <2>2, <2>3 DEF TypeOK
  <1>4. TypeOK'
    BY <1>1, <1>2, <1>3 DEF TypeOK, seen
  <1>5. (\A h \in Slots : SlotInv(h)') /\ (\A i \in Items : SeenInv(i)') /\ CalledAsMeant'
    BY <1>1, <1>2, <1>3 DEF SlotInv, SeenInv, CalledAsMeant, Busy, Known, Meant, seen
  <1> QED
    BY <1>4, <1>5

LEMMA RuleInv ==
  ASSUME AlertInv, NEW r \in Rules, NEW c \in RuleState, SetRule(r, c)
  PROVE  AlertInv'
  <1> USE DEF AlertInv
  <1>1. UNCHANGED <<row, slot, taken, calls>>
    BY DEF SetRule
  <1>2. /\ rule' \in [Rules -> RuleState]
        /\ rule'[r] = c /\ \A q \in Rules : q # r => rule'[q] = rule[q]
    BY DEF SetRule, TypeOK
  <1>3. /\ since' \in [Items -> SUBSET Rules]
        /\ loyal' \in [Items -> SUBSET Rules]
        /\ \A k \in Items : since[k] \subseteq since'[k]
        /\ \A k \in Items : Known(k) /\ Meant(c, k, row[k].severity) => r \in since'[k]
    BY DEF SetRule, TypeOK
  <1>4. TypeOK'
    BY <1>1, <1>2, <1>3 DEF TypeOK
  <1>5. \A k \in Items : SeenInv(k)'
    BY <1>1, <1>2, <1>3 DEF SeenInv, Known, Meant
  <1>6. (\A h \in Slots : SlotInv(h)') /\ CalledAsMeant'
    BY <1>1, <1>3 DEF SlotInv, CalledAsMeant, Busy, Known
  <1> QED
    BY <1>4, <1>5, <1>6

\* What one step of RouteAlert does: its slot moves on, or is idle again, and
\* only a call of a pending rule is counted.
LEMMA RouteEffect ==
  ASSUME AlertInv, NEW h \in Slots, Route(h)
  PROVE  /\ UNCHANGED <<row, rule, taken, since, loyal>>
         /\ slot' \in [Slots -> SlotState]
         /\ calls' \in [Items -> [Rules -> Nat]]
         /\ \A g \in Slots : g # h => slot'[g] = slot[g]
         /\ Busy(h)
         /\ \/ UNCHANGED calls /\ slot'[h] = IdleSlot
               /\ (slot[h].pc = "rules" => "db" \in Faults)
               /\ (slot[h].pc = "calls" => slot[h].pending = {})
            \/ /\ UNCHANGED calls
               /\ slot[h].pc = "rules" /\ slot'[h].pc = "calls"
               /\ slot'[h].item = slot[h].item
               /\ slot'[h].severity = slot[h].severity
               /\ slot'[h].pending =
                     {r \in Rules : Meant(rule[r], slot[h].item, slot[h].severity)}
            \/ \E r \in slot[h].pending :
               /\ \A k \in Items, q \in Rules :
                     calls'[k][q] = IF k = slot[h].item /\ q = r
                                    THEN calls[k][q] + 1 ELSE calls[k][q]
               /\ slot[h].pc = "calls" /\ slot'[h].pc = "calls"
               /\ slot'[h].item = slot[h].item
               /\ slot'[h].severity = slot[h].severity
               /\ slot'[h].pending = slot[h].pending \ {r}
  <1> USE DEF AlertInv
  <1>1. /\ slot \in [Slots -> SlotState] /\ slot[h] \in SlotState
        /\ IdleSlot \in SlotState
        /\ calls \in [Items -> [Rules -> Nat]]
    BY StampsAssumption DEF TypeOK, SlotState, IdleSlot, Severities
  <1>2. CASE slot' = [slot EXCEPT ![h] = IdleSlot] /\ (ReadRules(h) \/ Routed(h))
    <2>1. /\ slot'[h] = IdleSlot /\ IdleSlot.pc = "idle"
          /\ slot' \in [Slots -> SlotState]
          /\ \A g \in Slots : g # h => slot'[g] = slot[g]
      BY <1>1, <1>2 DEF IdleSlot
    <2>2. CASE ReadRules(h)
      <3>1. slot' = [slot EXCEPT
                       ![h].pc = "calls",
                       ![h].pending = Matching(rule, slot[h].item, slot[h].severity)]
               => slot'[h].pc = "calls"
        BY <1>1 DEF SlotState
      <3>2. slot[h].pc = "rules" /\ "db" \in Faults
        BY <2>1, <2>2, <3>1 DEF ReadRules
      <3> QED
        BY <1>1, <2>1, <2>2, <3>2 DEF ReadRules, seen, Busy
    <2>3. CASE Routed(h)
      BY <1>1, <2>1, <2>3 DEF Routed, seen, Busy
    <2> QED
      BY <1>2, <2>2, <2>3
  <1>3. CASE ReadRules(h) /\ slot' # [slot EXCEPT ![h] = IdleSlot]
    <2> DEFINE m == {r \in Rules : Meant(rule[r], slot[h].item, slot[h].severity)}
               y == [slot[h] EXCEPT !.pc = "calls", !.pending = m]
    <2>1. slot[h].item \in Items /\ slot[h].severity \in Severities
      BY <1>1, <1>3 DEF ReadRules, SlotInv, Busy, SlotState
    <2>2. Matching(rule, slot[h].item, slot[h].severity) = m
      BY <2>1, MatchingIsMeant
    <2>3. slot' = [slot EXCEPT ![h] = y]
      BY <1>1, <1>3, <2>2 DEF ReadRules
    <2>4. /\ y \in SlotState
          /\ y.pc = "calls" /\ y.item = slot[h].item
          /\ y.severity = slot[h].severity /\ y.pending = m
      BY <1>1 DEF SlotState
    <2> HIDE DEF y
    <2> QED
      BY <1>1, <1>3, <2>3, <2>4 DEF ReadRules, seen, Busy
  <1>4. CASE Call(h)
    <2>1. PICK r \in slot[h].pending, ok \in BOOLEAN :
            /\ calls' = [calls EXCEPT ![slot[h].item][r] = @ + 1]
            /\ slot' = [slot EXCEPT ![h].pending = AfterCall(h, r, ok)]
      BY <1>4 DEF Call
    <2> DEFINE y == [slot[h] EXCEPT !.pending = slot[h].pending \ {r}]
    <2>2. slot[h].item \in Items /\ r \in Rules
      BY <1>1, <1>4, <2>1 DEF Call, SlotInv, Busy, SlotState
    <2>3. /\ y \in SlotState
          /\ y.pc = slot[h].pc /\ y.item = slot[h].item
          /\ y.severity = slot[h].severity /\ y.pending = slot[h].pending \ {r}
      BY <1>1 DEF SlotState
    <2>4. slot' = [slot EXCEPT ![h] = y]
      BY <1>1, <2>1 DEF AfterCall
    <2>5. /\ calls' \in [Items -> [Rules -> Nat]]
          /\ \A k \in Items, q \in Rules :
               calls'[k][q] = IF k = slot[h].item /\ q = r
                              THEN calls[k][q] + 1 ELSE calls[k][q]
      BY <1>1, <2>1, <2>2
    <2> HIDE DEF y
    <2>6. /\ slot' \in [Slots -> SlotState] /\ slot'[h] = y
          /\ \A g \in Slots : g # h => slot'[g] = slot[g]
      BY <1>1, <2>3, <2>4
    <2>7. UNCHANGED <<row, rule, taken, since, loyal>> /\ slot[h].pc = "calls"
      BY <1>4 DEF Call
    <2> QED
      BY <2>1, <2>3, <2>5, <2>6, <2>7 DEF Busy
  <1> QED
    BY <1>2, <1>3, <1>4 DEF Route, Routed

LEMMA RouteInv ==
  ASSUME AlertInv, NEW h \in Slots, Route(h)
  PROVE  AlertInv'
  <1> USE DEF AlertInv
  <1>1. TypeOK'
    BY RouteEffect DEF TypeOK
  <1>2. slot[h].item \in Items /\ SlotInv(h) /\ SeenInv(slot[h].item) /\ Busy(h)
    BY RouteEffect DEF SlotInv
  <1>3. ASSUME NEW g \in Slots
        PROVE  SlotInv(g)'
    <2>1. CASE g # h
      BY <2>1, RouteEffect DEF SlotInv, Busy, Known
    <2>2. CASE g = h
      BY <1>2, <2>2, RouteEffect DEF SlotInv, SeenInv, Busy, Known, IdleSlot
    <2> QED
      BY <2>1, <2>2
  <1>4. \A k \in Items : SeenInv(k)'
    BY <1>2, RouteEffect DEF SeenInv, SlotInv, Known, Meant
  <1>5. CalledAsMeant'
    BY <1>2, RouteEffect DEF CalledAsMeant, SlotInv
  <1> QED
    BY <1>1, <1>3, <1>4, <1>5

LEMMA CrashInv == AlertInv /\ Crash => AlertInv'
  <1> SUFFICES ASSUME AlertInv, Crash PROVE AlertInv'
    OBVIOUS
  <1>1. TypeOK'
    BY StampsAssumption DEF AlertInv, Crash, TypeOK, SlotState, IdleSlot, Severities, seen
  <1> QED
    BY <1>1 DEF AlertInv, Crash, seen, SlotInv, SeenInv, CalledAsMeant, Busy, IdleSlot,
                Known, Meant

\* A step of the system, by its effect.
LEMMA Steps ==
  ASSUME [Next]_vars
  PROVE  \/ \E h \in Slots, k \in Items, s \in Severities, v \in Versions :
               Deliver(h, k, s, v)
         \/ \E k \in Items, s \in Severities, v \in Versions, t \in Stamps,
               via \in {"webhook", "poller"} :
               /\ Upsert(k, via, s, v, t) /\ UNCHANGED slot
               /\ via = "webhook" => "lost" \in Faults
         \/ \E k \in Items, status \in Statuses : UpdateStatus(k, status)
         \/ \E r \in Rules, c \in RuleState : SetRule(r, c)
         \/ \E h \in Slots : Route(h)
         \/ Crash
         \/ UNCHANGED vars
  <1>1. ASSUME NEW k \in Items, NEW s \in Severities, NEW v \in Versions,
               DeliverLost(k, s, v) \/ PollerIngest(k, s, v)
        PROVE  \E t \in Stamps, via \in {"webhook", "poller"} :
                  /\ Upsert(k, via, s, v, t) /\ UNCHANGED slot
                  /\ via = "webhook" => "lost" \in Faults
    BY <1>1 DEF DeliverLost, PollerIngest
  <1>2. ASSUME NEW r \in Rules, NEW c \in RuleRows, CreateRule(r, c) \/ UpdateRule(r, c)
        PROVE  \E d \in RuleState : SetRule(r, d)
    BY <1>2 DEF CreateRule, UpdateRule, RuleState
  <1>3. ASSUME NEW r \in Rules, DeleteRule(r)
        PROVE  \E d \in RuleState : SetRule(r, d)
    BY <1>3, NoRuleTyped DEF DeleteRule
  <1> QED
    BY <1>1, <1>2, <1>3 DEF Next, Delivery

LEMMA AlertNext == AlertInv /\ [Next]_vars => AlertInv'
  <1> SUFFICES ASSUME AlertInv, [Next]_vars PROVE AlertInv'
    OBVIOUS
  <1>1. Stamps \subseteq Instants
    BY DEF Stamps
  <1>2. CASE UNCHANGED vars
    BY <1>2 DEF vars, AlertInv, TypeOK, SlotInv, SeenInv, CalledAsMeant, Busy, Known, Meant
  <1> QED
    BY <1>1, <1>2, Steps, DeliverInv, QuietInv, TriageInv, RuleInv, RouteInv, CrashInv

THEOREM AlertInvariant == Spec => []AlertInv
  BY AlertInit, AlertNext, PTL DEF Spec

\* Every variable keeps its type, under every fault.
THEOREM AlertTypes == Spec => []TypeOK
  <1>1. AlertInv => TypeOK
    BY DEF AlertInv
  <1> QED
    BY <1>1, AlertInvariant, PTL

\* A rule is called only for an alert that it matched at some time since the
\* alert was inserted, though RouteAlert reads the rules later than that.
THEOREM CallsAreMeant == Spec => []CalledAsMeant
  <1>1. AlertInv => CalledAsMeant
    BY DEF AlertInv
  <1> QED
    BY <1>1, AlertInvariant, PTL

\* Redelivery leaves status, severity and creation of an alert alone, and so
\* does everything else but a user's triage.
THEOREM TriageIsKept == Spec => TriageSurvives
  <1> DEFINE Kept == \A k \in Items : Known(k) =>
               /\ row'[k].severity = row[k].severity
               /\ row'[k].created = row[k].created
               /\ row'[k].status # row[k].status => UpdateStatus(k, row'[k].status)
  <1>1. ASSUME AlertInv, [Next]_vars
        PROVE  Kept
    <2>1. Stamps \subseteq Instants /\ TypeOK
      BY <1>1 DEF Stamps, AlertInv
    <2>2. ASSUME NEW i \in Items, NEW via \in {"webhook", "poller"}, NEW s \in Severities,
                 NEW v \in Versions, NEW t \in Stamps, Upsert(i, via, s, v, t)
          PROVE  Kept
      BY <2>1, <2>2, UpsertEffect
    <2>3. ASSUME NEW h \in Slots, NEW i \in Items, NEW s \in Severities,
                 NEW v \in Versions, Deliver(h, i, s, v)
          PROVE  Kept
      <3> HIDE DEF Kept
      <3> QED
        BY <2>2, <2>3 DEF Deliver
    <2>4. ASSUME NEW i \in Items, NEW status \in Statuses, UpdateStatus(i, status)
          PROVE  Kept
      <3>1. PICK t \in Stamps :
              row' = [row EXCEPT ![i].status = status, ![i].updated = t]
        BY <2>4 DEF UpdateStatus
      <3>2. /\ row'[i].status = status
            /\ row'[i].severity = row[i].severity
            /\ row'[i].created = row[i].created
            /\ \A k \in Items : k # i => row'[k] = row[k]
        <4> DEFINE x == [row[i] EXCEPT !.status = status, !.updated = t]
        <4>1. row[i] \in RowState
          BY <2>1 DEF TypeOK
        <4>2. /\ x.status = status
              /\ x.severity = row[i].severity /\ x.created = row[i].created
          BY <4>1 DEF RowState
        <4>3. row' = [row EXCEPT ![i] = x]
          BY <2>1, <3>1 DEF TypeOK
        <4> HIDE DEF x
        <4> QED
          BY <2>1, <4>2, <4>3 DEF TypeOK
      <3> QED
        BY <2>4, <3>2
    <2>5. ASSUME UNCHANGED row PROVE Kept
      BY <2>5
    <2>6. (\A r \in Rules, c \in RuleState : SetRule(r, c) => UNCHANGED row)
          /\ (\A h \in Slots : Route(h) => UNCHANGED row)
          /\ (Crash \/ UNCHANGED vars => UNCHANGED row)
      BY <1>1, RouteEffect DEF SetRule, Crash, vars
    <2> HIDE DEF Kept
    <2> QED
      BY <1>1, <2>2, <2>3, <2>4, <2>5, <2>6, Steps
  <1> QED
    BY <1>1, AlertInvariant, PTL DEF Spec, TriageSurvives

-----------------------------------------------------------------------------
(***************************************************************************)
(* No two transactions read the same instant.                              *)
(***************************************************************************)

\* Then a delivery of a known alert does not count as new.
LEMMA KnownIsNotNew ==
  ASSUME StampsDiffer, AlertInv, NEW h \in Slots, NEW k \in Items,
         NEW s \in Severities, NEW v \in Versions, Deliver(h, k, s, v), Known(k)
  PROVE  UNCHANGED <<slot, calls>>
  <1>1. PICK t \in Stamps : Upsert(k, "webhook", s, v, t)
    BY DEF Deliver
  <1>2. row[k].created \in taken /\ t \notin taken /\ t \in Instants
    BY DEF AlertInv, SeenInv, Stamps
  <1>3. row'[k].created # row'[k].updated
    BY <1>1, <1>2, UpsertEffect DEF AlertInv
  <1> QED
    BY <1>1, <1>3 DEF Deliver, IsNew, Upsert

LEMMA OnceNext ==
  ASSUME StampsDiffer, AlertInv, OnceInv, [Next]_vars
  PROVE  OnceInv'
  <1> USE DEF OnceInv
  <1>1. ASSUME NEW h \in Slots, NEW k \in Items, NEW s \in Severities,
               NEW v \in Versions, Deliver(h, k, s, v)
        PROVE  OnceInv'
    <2>1. CASE Known(k)
      BY <1>1, <2>1, KnownIsNotNew DEF NotifiedOnce, Busy
    <2>2. CASE ~Known(k)
      <3>1. \A r \in Rules : calls[k][r] = 0
        BY <2>2 DEF AlertInv, SeenInv
      <3>2. \A g \in Slots : Busy(g) => slot[g].item # k
        BY <2>2 DEF AlertInv, SlotInv
      <3>3. UNCHANGED calls
        BY <1>1 DEF Deliver, Upsert
      <3>4. \/ slot' = slot
            \/ /\ slot'[h].pc = "rules" /\ slot'[h].item = k
               /\ slot'[h].pending = {}
               /\ \A g \in Slots : g # h => slot'[g] = slot[g]
        BY <1>1 DEF Deliver, AlertInv, TypeOK
      <3> QED
        BY <3>1, <3>2, <3>3, <3>4 DEF NotifiedOnce, Busy
    <2> QED
      BY <2>1, <2>2
  <1>2. ASSUME NEW h \in Slots, Route(h)
        PROVE  OnceInv'
    <2> DEFINE k == slot[h].item
    <2>1. /\ k \in Items /\ Busy(h) /\ slot[h].pending \subseteq Rules
          /\ \A g \in Slots : g # h /\ Busy(g) => slot[g].item # k
          /\ \A g \in Slots : ~Busy(g) => slot[g].pending = {}
          /\ calls \in [Items -> [Rules -> Nat]]
      BY <1>2, RouteEffect DEF AlertInv, SlotInv, TypeOK, SlotState
    <2>2. /\ \A g \in Slots : Busy(g)' => Busy(g) /\ slot'[g].item = slot[g].item
          /\ \A g \in Slots : g # h => slot'[g] = slot[g]
      BY <1>2, <2>1, RouteEffect DEF Busy, IdleSlot
    <2>3. \A i \in Items, r \in Rules : i # k => calls'[i][r] = calls[i][r]
      BY <1>2, RouteEffect DEF AlertInv
    <2>4. ASSUME NEW g \in Slots, NEW r \in Rules, g # h,
                 slot'[g].pc = "rules" \/ r \in slot'[g].pending
          PROVE  calls'[slot'[g].item][r] = 0
      <3>1. slot'[g] = slot[g] /\ Busy(g) /\ slot[g].item \in Items /\ slot[g].item # k
        BY <2>1, <2>2, <2>4 DEF AlertInv, SlotInv, Busy
      <3> QED
        BY <2>3, <2>4, <3>1
    <2>5. ASSUME NEW r \in Rules, slot'[h].pc = "rules" \/ r \in slot'[h].pending
          PROVE  calls'[slot'[h].item][r] = 0
      BY <1>2, <2>1, <2>5, RouteEffect DEF IdleSlot
    <2>6. NotifiedOnce'
      <3>1. CASE UNCHANGED calls
        BY <3>1 DEF NotifiedOnce
      <3>2. CASE ~UNCHANGED calls
        <4>1. PICK r \in slot[h].pending : \A i \in Items, q \in Rules :
                calls'[i][q] = IF i = k /\ q = r THEN calls[i][q] + 1 ELSE calls[i][q]
          BY <1>2, <3>2, RouteEffect
        <4>2. r \in Rules /\ calls[k][r] = 0
          BY <2>1
        <4> QED
          BY <4>1, <4>2 DEF NotifiedOnce
      <3> QED
        BY <3>1, <3>2
    <2>7. \A f, g \in Slots : Busy(f)' /\ Busy(g)' /\ slot'[f].item = slot'[g].item => f = g
      BY <2>2
    <2> QED
      BY <2>4, <2>5, <2>6, <2>7
  <1>3. ASSUME UNCHANGED <<slot, calls>>
        PROVE  OnceInv'
    BY <1>3 DEF NotifiedOnce, Busy
  <1>4. ASSUME Crash
        PROVE  OnceInv'
    BY <1>4 DEF Crash, seen, NotifiedOnce, Busy, IdleSlot
  <1> HIDE DEF OnceInv
  <1>5. /\ \A k \in Items, s \in Severities, v \in Versions, t \in Stamps,
             via \in {"webhook", "poller"} :
             Upsert(k, via, s, v, t) => UNCHANGED calls
        /\ \A k \in Items, status \in Statuses :
             UpdateStatus(k, status) => UNCHANGED <<slot, calls>>
        /\ \A r \in Rules, c \in RuleState : SetRule(r, c) => UNCHANGED <<slot, calls>>
        /\ UNCHANGED vars => UNCHANGED <<slot, calls>>
    BY DEF Upsert, UpdateStatus, SetRule, vars, seen
  <1> QED
    BY <1>1, <1>2, <1>3, <1>4, <1>5, Steps

\* However an item is delivered, no rule is called for it twice, as long as no
\* two transactions that write alerts read the same instant.
THEOREM RulesAreCalledOnce ==
  ASSUME StampsDiffer
  PROVE  Spec => []NotifiedOnce
  <1>1. Init => OnceInv
    BY DEF Init, OnceInv, NotifiedOnce, Busy, IdleSlot
  <1>2. AlertInv /\ OnceInv /\ [Next]_vars => OnceInv'
    BY OnceNext
  <1>3. OnceInv => NotifiedOnce
    BY DEF OnceInv
  <1> QED
    BY <1>1, <1>2, <1>3, AlertInvariant, PTL DEF Spec

-----------------------------------------------------------------------------
(***************************************************************************)
(* No faults.                                                              *)
(***************************************************************************)

LEMMA ServedNext ==
  ASSUME Faults = {}, AlertInv, ServedInv, [Next]_vars
  PROVE  ServedInv'
  <1> USE DEF ServedInv
  <1>1. ASSUME NEW h \in Slots, NEW k \in Items, NEW s \in Severities,
               NEW v \in Versions, Deliver(h, k, s, v)
        PROVE  ServedInv'
    <2>1. PICK t \in Instants : Upsert(k, "webhook", s, v, t)
      BY <1>1 DEF Deliver, Stamps
    <2>2. UNCHANGED <<rule, calls>> /\ TypeOK /\ slot[h].pc = "idle" /\ slot[h].pending = {}
      BY <1>1, <2>1 DEF Deliver, Upsert, AlertInv, SlotInv, Busy
    <2>3. \A i \in Items, r \in Rules, g \in Slots :
             Routing(g, i, r) => g # h /\ slot'[g] = slot[g]
      BY <1>1, <2>2 DEF Deliver, Routing, TypeOK
    <2>4. ~Known(k) => \A r \in Rules : Routing(h, k, r)'
      BY <1>1, <2>1, <2>2, UpsertEffect DEF Deliver, IsNew, Routing, TypeOK
    <2>5. ASSUME NEW i \in Items, row'[i].via = "webhook", NEW r \in loyal'[i]
          PROVE  calls'[i][r] > 0 \/ \E g \in Slots : Routing(g, i, r)'
      <3>1. CASE i = k /\ ~Known(k)
        BY <2>1, <2>2, <2>4, <2>5, <3>1, UpsertEffect
      <3>2. CASE i # k \/ Known(k)
        <4>1. row[i].via = "webhook" /\ r \in loyal[i]
          BY <2>1, <2>2, <2>5, <3>2, UpsertEffect
        <4>2. calls[i][r] > 0 \/ \E g \in Slots : Routing(g, i, r)
          BY <4>1 DEF NoRuleForgotten
        <4>3. r \in Rules
          BY <2>2, <4>1 DEF TypeOK
        <4> QED
          BY <2>2, <2>3, <4>2, <4>3 DEF Routing
      <3> QED
        BY <3>1, <3>2
    <2>6. ASSUME NEW i \in Items, NEW r \in Rules, Known(i)', r \in loyal'[i]
          PROVE  Meant(rule[r], i, row'[i].severity)
      BY <2>1, <2>2, <2>6, UpsertEffect DEF Known
    <2> QED
      BY <2>2, <2>5, <2>6 DEF NoRuleForgotten, Meant
  <1>2. ASSUME NEW k \in Items, NEW s \in Severities, NEW v \in Versions, NEW t \in Stamps,
               Upsert(k, "poller", s, v, t), UNCHANGED slot
        PROVE  ServedInv'
    <2>1. t \in Instants /\ UNCHANGED <<rule, calls>> /\ TypeOK
      BY <1>2 DEF Stamps, Upsert, AlertInv
    <2>2. \A i \in Items : row'[i].via = "webhook" =>
             row[i].via = "webhook" /\ loyal'[i] = loyal[i]
      BY <1>2, <2>1, UpsertEffect DEF Known
    <2>3. NoRuleForgotten'
      BY <1>2, <2>1, <2>2 DEF NoRuleForgotten, Routing
    <2>4. ASSUME NEW i \in Items, NEW r \in Rules, Known(i)', r \in loyal'[i]
          PROVE  Meant(rule[r], i, row'[i].severity)
      BY <1>2, <2>1, <2>4, UpsertEffect DEF Known
    <2> QED
      BY <2>1, <2>3, <2>4 DEF Meant
  <1>3. ASSUME NEW k \in Items, NEW status \in Statuses, UpdateStatus(k, status)
        PROVE  ServedInv'
    <2>1. \A i \in Items : row'[i].via = row[i].via /\ row'[i].severity = row[i].severity
      BY <1>3 DEF UpdateStatus, AlertInv, TypeOK, RowState
    <2>2. UNCHANGED <<rule, slot, calls, loyal>>
      BY <1>3 DEF UpdateStatus, seen
    <2>3. NoRuleForgotten'
      BY <2>1, <2>2 DEF NoRuleForgotten, Routing
    <2> QED
      BY <2>1, <2>2, <2>3 DEF Known, Meant
  <1>4. ASSUME NEW r \in Rules, NEW c \in RuleState, SetRule(r, c)
        PROVE  ServedInv'
    <2>1. /\ UNCHANGED <<row, slot, taken, calls>>
          /\ \A i \in Items : loyal'[i] = loyal[i] \ {r}
          /\ \A q \in Rules : q # r => rule'[q] = rule[q]
      BY <1>4 DEF SetRule, AlertInv, TypeOK
    <2>2. NoRuleForgotten'
      BY <2>1 DEF NoRuleForgotten, Routing
    <2>3. ASSUME NEW i \in Items, NEW q \in Rules, Known(i)', q \in loyal'[i]
          PROVE  Meant(rule[q], i, row[i].severity) /\ rule'[q] = rule[q]
      BY <2>1, <2>3 DEF Known
    <2> QED
      BY <2>1, <2>2, <2>3 DEF Known, Meant
  <1>5. ASSUME NEW h \in Slots, Route(h)
        PROVE  ServedInv'
    <2>1. /\ UNCHANGED <<row, rule, loyal>>
          /\ slot[h].item \in Items /\ Known(slot[h].item)
          /\ slot[h].severity = row[slot[h].item].severity
          /\ slot[h].pc = "calls" \/ (slot[h].pc = "rules" /\ slot[h].pending = {})
          /\ calls \in [Items -> [Rules -> Nat]]
          /\ \A i \in Items : loyal[i] \subseteq Rules
      BY <1>5, RouteEffect DEF AlertInv, SlotInv, Busy, TypeOK, SlotState
    <2>2. ASSUME NEW i \in Items, NEW r \in loyal[i], row[i].via = "webhook",
                 calls[i][r] > 0 \/ \E g \in Slots : Routing(g, i, r)
          PROVE  calls'[i][r] > 0 \/ \E g \in Slots : Routing(g, i, r)'
      <3>1. CASE calls[i][r] > 0
        BY <1>5, <2>1, <2>2, <3>1, RouteEffect
      <3>2. ASSUME NEW g \in Slots, g # h, Routing(g, i, r)
            PROVE  Routing(g, i, r)'
        BY <1>5, <3>2, RouteEffect DEF Routing
      <3>3. CASE Routing(h, i, r) /\ calls[i][r] = 0
        <4>1. i = slot[h].item /\ Meant(rule[r], i, row[i].severity) /\ r \in Rules
          BY <2>1, <2>2, <3>3 DEF Routing
        <4>2. CASE slot[h].pc = "rules"
          BY <1>5, <2>1, <4>1, <4>2, RouteEffect DEF Routing
        <4>3. CASE slot[h].pc = "calls"
          BY <1>5, <2>1, <3>3, <4>1, <4>3, RouteEffect DEF Routing
        <4> QED
          BY <2>1, <4>2, <4>3
      <3> QED
        BY <2>1, <2>2, <3>1, <3>2, <3>3
    <2> QED
      BY <2>1, <2>2 DEF NoRuleForgotten, Known, Meant
  <1>6. CASE UNCHANGED vars
    BY <1>6 DEF vars, NoRuleForgotten, Routing, Known, Meant
  <1>7. ~Crash /\ "lost" \notin Faults
    BY DEF Crash
  <1> HIDE DEF ServedInv
  <1> QED
    BY <1>1, <1>2, <1>3, <1>4, <1>5, <1>6, <1>7, Steps

\* Without a fault, a rule that matched an alert when the webhook inserted it,
\* and was left alone since, has been called or is about to be.
THEOREM NoRuleIsForgotten ==
  ASSUME Faults = {}
  PROVE  Spec => []NoRuleForgotten
  <1>1. Init => ServedInv
    BY DEF Init, ServedInv, NoRuleForgotten, Known, NoRow
  <1>2. AlertInv /\ ServedInv /\ [Next]_vars => ServedInv'
    BY ServedNext
  <1>3. ServedInv => NoRuleForgotten
    BY DEF ServedInv
  <1> QED
    BY <1>1, <1>2, <1>3, AlertInvariant, PTL DEF Spec
=============================================================================
