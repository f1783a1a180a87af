---------------------------- MODULE CheckinProofs ----------------------------
(***************************************************************************)
(* Theorems about Checkin, for any number of ticks, commands, enrolments   *)
(* and faults: types, that only what was received counts as acknowledged,  *)
(* and that an outage is told of once.                                     *)
(***************************************************************************)
EXTENDS Checkin, FiniteSetTheorems, TLAPS

ConfigParts == [Parts -> Contents \cup {None}]

(* A request that has been built holds contents, and the status part is    *)
(* read with the state.                                                    *)
Built(x) ==
  /\ x.stage = "loaded" /\ "status" \in Parts => x.fingerprints["status"] \in Contents
  /\ x.stage \in {"posted", "answered"} => x.fingerprints \in [Parts -> Contents]
BuiltInv == \A c \in Processes : Built(ci[c])

TypeInv == TypeOK /\ BuiltInv

(* Taking a check-in to its next stage keeps the others as they are.       *)
LEMMA StageChange ==
  ASSUME TypeInv, NEW c \in Processes, NEW x \in CheckIns, Built(x),
         x.stage # "idle" => x.host \in Hosts,
         ci' = [ci EXCEPT ![c] = x]
  PROVE  /\ ci' \in [Processes -> CheckIns]
         /\ \A d \in Processes : ci'[d].stage # "idle" => ci'[d].host \in Hosts
         /\ BuiltInv'
<1>1. \A d \in Processes : ci'[d] = IF d = c THEN x ELSE ci[d]
  BY DEF TypeInv, TypeOK
<1>2. ci' \in [Processes -> CheckIns]
  BY DEF TypeInv, TypeOK
<1>3. \A d \in Processes : Built(ci'[d])
  BY <1>1 DEF TypeInv, BuiltInv
<1>4. \A d \in Processes : ci'[d].stage # "idle" => ci'[d].host \in Hosts
  BY <1>1 DEF TypeInv, TypeOK
<1> QED
  BY <1>2, <1>3, <1>4 DEF BuiltInv

LEMMA EmptyRecordType ==
  ASSUME NEW h \in Hosts \cup {None}
  PROVE  EmptyRecord(h) \in Records
  BY DEF EmptyRecord, Records, Nothing

LEMMA IdleType == Idle \in CheckIns /\ Built(Idle) /\ Idle.stage = "idle"
<1>1. EmptyRecord(None) \in Records
  BY EmptyRecordType
<1>2. 0 \in 0 .. MaxClock
  BY CheckinAssumption
<1> QED
  BY <1>1, <1>2 DEF Idle, CheckIns, Stages, Nothing, Built

LEMMA FailedType ==
  ASSUME TypeInv, NEW c \in Processes, ci[c].stage # "idle"
  PROVE  /\ Failed(c) \in CheckIns /\ Built(Failed(c)) /\ Failed(c).host \in Hosts
         /\ Failed(c).stage = "failed"
<1>1. ci[c].host \in Hosts
  BY DEF TypeInv, TypeOK
<1>2. Failed(c).stage = "failed" /\ Failed(c).host = ci[c].host
  BY DEF Failed, Idle
<1>3. Failed(c) \in CheckIns
  BY <1>1, IdleType DEF Failed, CheckIns, Stages
<1> QED
  BY <1>1, <1>2, <1>3 DEF Built

LEMMA CheckinForType ==
  ASSUME TypeInv, NEW h \in Hosts
  PROVE  CheckinFor(h) \in Records /\ CheckinFor(h).host = h
  BY EmptyRecordType DEF CheckinFor, TypeInv, TypeOK, EmptyRecord

LEMMA RequestType ==
  ASSUME TypeInv, NEW c \in Processes, ci[c].stage = "posted"
  PROVE  Request(c) \in Requests
<1>1. ci[c] \in CheckIns /\ ci[c].host \in Hosts /\ ci[c].fingerprints \in [Parts -> Contents]
  BY DEF TypeInv, TypeOK, BuiltInv, Built
<1> QED
  BY <1>1 DEF Request, Requests, CheckIns

LEMMA OutlivesType ==
  ASSUME TypeInv, NEW c \in Processes
  PROVE  late \cup Outlives(c) \subseteq Requests
  BY RequestType DEF Outlives, TypeInv, TypeOK

(* What the central app keeps is made of what it received.                 *)
LEMMA ReceiveType ==
  ASSUME TypeInv, NEW r \in Requests, Receive(r)
  PROVE  /\ kept' \in [Hosts -> [Parts -> Contents \cup {None}]]
         /\ keptAt' \in [Hosts -> [Parts -> 0 .. MaxClock]]
         /\ received' \subseteq Hosts \X Parts \X Contents
         /\ received \subseteq received'
         /\ hosts' = hosts
<1>1. r.host \in Hosts /\ r.at \in 0 .. MaxClock /\ r.fingerprints \in [Parts -> Contents]
      /\ r.included \subseteq Parts
  BY DEF Requests
<1>2. KeptAfter(r) \in [Parts -> Contents \cup {None}]
  BY <1>1 DEF KeptAfter, TypeInv, TypeOK
<1>3. kept' \in [Hosts -> [Parts -> Contents \cup {None}]]
  BY <1>1, <1>2 DEF Receive, TypeInv, TypeOK
<1>4. keptAt' \in [Hosts -> [Parts -> 0 .. MaxClock]]
  BY <1>1 DEF Receive, TypeInv, TypeOK
<1>5. {<<r.host, p, r.fingerprints[p]>> : p \in r.included} \subseteq Hosts \X Parts \X Contents
  BY <1>1
<1>6. received' \subseteq Hosts \X Parts \X Contents
  BY <1>5 DEF Receive, TypeInv, TypeOK
<1> QED
  BY <1>3, <1>4, <1>6 DEF Receive

(* A check-in that has recorded its outcome is done, or has news to tell.  *)
LEMMA ToTellType ==
  ASSUME TypeInv, NEW c \in Processes, ci[c].stage # "idle", NEW w
  PROVE  /\ ToTell(c, w) \in CheckIns /\ Built(ToTell(c, w))
         /\ ToTell(c, w).stage \in {"idle", "recorded"}
         /\ ToTell(c, w).stage # "idle" =>
              ToTell(c, w).host \in Hosts /\ ToTell(c, w).host = ci[c].host
<1> DEFINE n == News(w, ci[c].stage = "failed")
           x == [Idle EXCEPT !.stage = "recorded", !.host = ci[c].host, !.news = n]
<1>1. ci[c].host \in Hosts
  BY DEF TypeInv, TypeOK
<1>2. n \in -1 .. 1
  BY DEF News
<1>3. x \in CheckIns /\ x.stage = "recorded" /\ x.host = ci[c].host
  <2> HIDE DEF n
  <2>1. x.stage = "recorded" /\ x.host = ci[c].host
    BY DEF Idle
  <2>2. x \in CheckIns
    BY <1>1, <1>2, IdleType DEF CheckIns, Stages
  <2> QED
    BY <2>1, <2>2
<1>4. Built(x)
  BY <1>3 DEF Built
<1>5. ToTell(c, w) = IF n = 0 THEN Idle ELSE x
  BY DEF ToTell
<1> HIDE DEF n, x
<1> QED
  BY <1>1, <1>3, <1>4, <1>5, IdleType

LEMMA RecordedType ==
  ASSUME TypeInv, NEW c \in Processes, ci[c].stage \in {"answered", "failed"}
  PROVE  Recorded(c) \in Records /\ Recorded(c).host = ci[c].host /\ ci[c].host \in Hosts
<1>1. ci[c].host \in Hosts /\ ci[c] \in CheckIns
  BY DEF TypeInv, TypeOK
<1>2. CheckinFor(ci[c].host) \in Records /\ CheckinFor(ci[c].host).host = ci[c].host
  BY <1>1, CheckinForType
<1>3. CASE ci[c].stage = "failed"
  BY <1>1, <1>2, <1>3 DEF Recorded, Records
<1>4. CASE ci[c].stage = "answered"
  <2>1. Recorded(c) = Acked(c, CheckinFor(ci[c].host))
    BY <1>4 DEF Recorded
  <2>2. ci[c].fingerprints \in ConfigParts /\ ci[c].reply \in SUBSET Parts
    BY <1>1 DEF CheckIns, ConfigParts
  <2>3. CheckinFor(ci[c].host).acked \in ConfigParts
    BY <1>2 DEF Records, ConfigParts
  <2>4. [p \in Parts |-> IF p \in ci[c].included
                          THEN ci[c].fingerprints[p] ELSE CheckinFor(ci[c].host).acked[p]] \in ConfigParts
    BY <2>2, <2>3 DEF ConfigParts
  <2> QED
    BY <1>1, <1>2, <2>1, <2>2, <2>4 DEF Acked, Records, ConfigParts
<1> QED
  BY <1>3, <1>4

(* What a check-in is once its outcome is recorded, told, or it is killed.  *)
LEMMA DoneOrRecorded ==
  ASSUME TypeInv, NEW c \in Processes, Record(c) \/ RecordFails(c) \/ Tell(c) \/ Kill(c) \/ KillUntold(c)
  PROVE  /\ ci[c].stage # "idle" /\ ci'[c].stage \in {"idle", "recorded"}
         /\ ci'[c].stage # "idle" => ci'[c].host = ci[c].host
<1>1. CASE Record(c) \/ RecordFails(c)
  <2>1. ci[c].stage # "idle" /\ \E w : ci' = [ci EXCEPT ![c] = ToTell(c, w)]
    BY <1>1 DEF Record, RecordFails
  <2>2. PICK w : ci'[c] = ToTell(c, w)
    BY <2>1 DEF TypeInv, TypeOK
  <2> QED
    BY <2>1, <2>2, ToTellType
<1>2. CASE Tell(c) \/ Kill(c) \/ KillUntold(c)
  BY <1>2, IdleType DEF Tell, Kill, KillUntold, TypeInv, TypeOK
<1> QED
  BY <1>1, <1>2

(* No step breaks the types.                                               *)
LEMMA TypeStep == TypeInv /\ [Next]_vars => TypeInv'
<1> SUFFICES ASSUME TypeInv, [Next]_vars PROVE TypeInv'
  OBVIOUS
<1> USE DEF hostVars, appVars, boundVars, toldVars
<1>0. MaxClock \in Nat /\ MaxChanges \in Nat /\ MaxFaults \in Nat
  BY CheckinAssumption
<1>1. ASSUME NEW p \in Parts, ChangePart(p) PROVE TypeInv'
  BY <1>0, <1>1 DEF ChangePart, TypeInv, TypeOK, BuiltInv
<1>2. ASSUME NEW h \in Hosts, LoseDatabase(h) PROVE TypeInv'
  <2>1. Nothing \in [Parts -> Contents \cup {None}]
    BY DEF Nothing
  <2> QED
    BY <1>0, <1>2, <2>1 DEF LoseDatabase, Fault, TypeInv, TypeOK, BuiltInv
<1>3. ASSUME NEW h \in Hosts, DeleteHost(h) PROVE TypeInv'
  BY <1>0, <1>3 DEF DeleteHost, Fault, TypeInv, TypeOK, BuiltInv
<1>4. ASSUME NEW h \in Hosts, Enrol(h) \/ EnrolFails(h) PROVE TypeInv'
  <2>1. CASE Enrol(h)
    BY <1>0, <2>1 DEF Enrol, Register, Fault, TypeInv, TypeOK, BuiltInv
  <2>2. CASE EnrolFails(h)
    BY <1>0, <2>2 DEF EnrolFails, Register, Fault, TypeInv, TypeOK, BuiltInv
  <2> QED
    BY <1>4, <2>1, <2>2
<1>5. CASE Unenrol
  BY <1>0, <1>5 DEF Unenrol, Fault, TypeInv, TypeOK, BuiltInv
<1>6. ASSUME NEW r \in late, AnswerLate(r) PROVE TypeInv'
  <2>1. r \in Requests
    BY DEF TypeInv, TypeOK
  <2>2. CASE hosts[r.host] = "known"
    BY <1>6, <2>1, <2>2, ReceiveType DEF AnswerLate, TypeInv, TypeOK, BuiltInv
  <2>3. CASE hosts[r.host] # "known"
    BY <1>6, <2>3 DEF AnswerLate, TypeInv, TypeOK, BuiltInv
  <2> QED
    BY <2>2, <2>3
<1>7. ASSUME NEW c \in Processes, Start(c) PROVE TypeInv'
  <2> DEFINE x == [Idle EXCEPT !.stage = "loaded", !.host = enrolment, !.at = clock',
                      !.cfg = content["config"], !.loaded = CheckinFor(enrolment),
                      !.fingerprints = [p \in Parts |-> IF p = "status" THEN content[p] ELSE None]]
  <2>1. enrolment \in Hosts /\ clock' \in 0 .. MaxClock /\ content["config"] \in Contents
    BY <1>0, <1>7, CheckinAssumption DEF Start, TypeInv, TypeOK
  <2>2. CheckinFor(enrolment) \in Records
    BY <2>1, CheckinForType
  <2>3. [p \in Parts |-> IF p = "status" THEN content[p] ELSE None] \in ConfigParts
    BY DEF ConfigParts, TypeInv, TypeOK
  <2>4. x \in CheckIns
    BY <2>1, <2>2, <2>3, IdleType DEF CheckIns, Stages, ConfigParts
  <2>5. x.stage = "loaded" /\ x.host = enrolment
        /\ x.fingerprints = [p \in Parts |-> IF p = "status" THEN content[p] ELSE None]
    BY DEF Idle
  <2>6. Built(x)
    BY <2>5 DEF Built, TypeInv, TypeOK
  <2>7. ci' = [ci EXCEPT ![c] = x]
    BY <1>7 DEF Start
  <2> HIDE DEF x
  <2>8. /\ ci' \in [Processes -> CheckIns]
        /\ \A d \in Processes : ci'[d].stage # "idle" => ci'[d].host \in Hosts
        /\ BuiltInv'
    BY <2>1, <2>4, <2>5, <2>6, <2>7, StageChange
  <2> QED
    BY <1>7, <2>1, <2>8 DEF Start, TypeInv, TypeOK
<1>8. ASSUME NEW c \in Processes, Build(c) PROVE TypeInv'
  <2> DEFINE now == [p \in Parts |-> IF p = "status" THEN ci[c].fingerprints[p] ELSE content[p]]
             x == [ci[c] EXCEPT !.stage = "posted", !.cfg = None, !.loaded = EmptyRecord(None),
                      !.fingerprints = now,
                      !.included = {p \in Parts : Wanted(c, p, now[p]) /\ ~Withheld(c, p)}]
  <2>1. ci[c] \in CheckIns /\ ci[c].host \in Hosts /\ ci[c].stage = "loaded" /\ Built(ci[c])
    BY <1>8 DEF Build, TypeInv, TypeOK, BuiltInv
  <2>2. now \in [Parts -> Contents]
    BY <2>1 DEF Built, TypeInv, TypeOK
  <2> DEFINE inc == {p \in Parts : Wanted(c, p, now[p]) /\ ~Withheld(c, p)}
             e == EmptyRecord(None)
  <2>20. inc \in SUBSET Parts
    OBVIOUS
  <2>21. e \in Records
    BY EmptyRecordType
  <2>22. now \in [Parts -> Contents \cup {None}]
    BY <2>2
  <2>3. x \in CheckIns /\ x.stage = "posted" /\ x.host = ci[c].host /\ x.fingerprints = now
    <3> x = [ci[c] EXCEPT !.stage = "posted", !.cfg = None, !.loaded = e,
                 !.fingerprints = now, !.included = inc]
      OBVIOUS
    <3> HIDE DEF x, now, inc, e
    <3> QED
      BY <2>1, <2>20, <2>21, <2>22 DEF CheckIns, Stages
  <2>4. Built(x)
    BY <2>2, <2>3 DEF Built
  <2>5. ci' = [ci EXCEPT ![c] = x]
    BY <1>8 DEF Build, TypeInv, TypeOK
  <2> HIDE DEF x, now
  <2>6. /\ ci' \in [Processes -> CheckIns]
        /\ \A d \in Processes : ci'[d].stage # "idle" => ci'[d].host \in Hosts
        /\ BuiltInv'
    BY <2>1, <2>3, <2>4, <2>5, StageChange
  <2> QED
    BY <1>8, <2>6 DEF Build, TypeInv, TypeOK
<1>9. ASSUME NEW c \in Processes, Answer(c) PROVE TypeInv'
  <2> DEFINE x == [ci[c] EXCEPT !.stage = "answered", !.at = 0, !.reply = AsksFor(Request(c))]
  <2>1. ci[c] \in CheckIns /\ ci[c].host \in Hosts /\ ci[c].stage = "posted" /\ Built(ci[c])
    BY <1>9 DEF Answer, TypeInv, TypeOK, BuiltInv
  <2>2. Request(c) \in Requests
    BY <2>1, RequestType
  <2> DEFINE asks == AsksFor(Request(c))
  <2>20. asks \in SUBSET Parts
    BY DEF AsksFor
  <2>3. x \in CheckIns /\ x.stage = "answered" /\ x.host = ci[c].host
        /\ x.fingerprints = ci[c].fingerprints
    <3> DEFINE zero == 0
               times == 0 .. MaxClock
    <3>1. zero \in times /\ x = [ci[c] EXCEPT !.stage = "answered", !.at = zero, !.reply = asks]
      BY <1>0
    <3>2. CheckIns = [stage : Stages, host : Hosts \cup {None}, at : times,
                      cfg : Contents \cup {None}, loaded : Records,
                      fingerprints : [Parts -> Contents \cup {None}],
                      included : SUBSET Parts, reply : SUBSET Parts, news : -1 .. 1]
      BY DEF CheckIns
    <3> HIDE DEF x, asks, zero, times
    <3> QED
      BY <2>1, <2>20, <3>1, <3>2 DEF Stages
  <2>4. Built(x)
    BY <2>1, <2>3 DEF Built
  <2>5. ci' = [ci EXCEPT ![c] = x]
    BY <1>9 DEF Answer, TypeInv, TypeOK
  <2> HIDE DEF x
  <2>6. /\ ci' \in [Processes -> CheckIns]
        /\ \A d \in Processes : ci'[d].stage # "idle" => ci'[d].host \in Hosts
        /\ BuiltInv'
    BY <2>1, <2>3, <2>4, <2>5, StageChange
  <2> QED
    BY <1>9, <2>2, <2>6, ReceiveType DEF Answer, TypeInv, TypeOK
<1>10. ASSUME NEW c \in Processes, ReadFails(c) \/ Refuse(c) \/ GiveUp(c) PROVE TypeInv'
  <2>1. ci[c].stage # "idle" /\ ci' = [ci EXCEPT ![c] = Failed(c)]
    BY <1>10 DEF ReadFails, Refuse, GiveUp
  <2>2. /\ ci' \in [Processes -> CheckIns]
        /\ \A d \in Processes : ci'[d].stage # "idle" => ci'[d].host \in Hosts
        /\ BuiltInv'
    BY <2>1, FailedType, StageChange
  <2>3. late' \subseteq Requests
    BY <1>10, OutlivesType DEF ReadFails, Refuse, GiveUp, TypeInv, TypeOK
  <2> QED
    BY <1>0, <1>10, <2>2, <2>3 DEF ReadFails, Refuse, GiveUp, Fault, TypeInv, TypeOK
<1>11. ASSUME NEW c \in Processes, Record(c) PROVE TypeInv'
  <2>1. ci[c].stage \in {"answered", "failed"}
        /\ ci' = [ci EXCEPT ![c] = ToTell(c, WasFailing(c))]
    BY <1>11 DEF Record
  <2>2. /\ ci' \in [Processes -> CheckIns]
        /\ \A d \in Processes : ci'[d].stage # "idle" => ci'[d].host \in Hosts
        /\ BuiltInv'
    BY <2>1, ToTellType, StageChange
  <2>3. record' \in Records /\ record'.host \in Hosts /\ ci[c].host \in Hosts
    BY <1>11, <2>1, RecordedType DEF Record
  <2>4. spoiled' \subseteq Hosts /\ told' \in [Hosts -> Int]
    BY <1>11 DEF Record, Spoil, TypeInv, TypeOK, Records
  <2>5. None \notin Hosts
    BY CheckinAssumption
  <2> QED
    BY <1>11, <2>2, <2>3, <2>4, <2>5 DEF Record, TypeInv, TypeOK
<1>12. ASSUME NEW c \in Processes, RecordFails(c) PROVE TypeInv'
  <2>1. ci[c].stage \in {"answered", "failed"}
        /\ \E w : ci' = [ci EXCEPT ![c] = ToTell(c, w)]
    BY <1>12 DEF RecordFails
  <2>2. /\ ci' \in [Processes -> CheckIns]
        /\ \A d \in Processes : ci'[d].stage # "idle" => ci'[d].host \in Hosts
        /\ BuiltInv'
    BY <2>1, ToTellType, StageChange
  <2>3. spoiled' \subseteq Hosts /\ told' \in [Hosts -> Int]
    BY <1>12, <2>1 DEF RecordFails, Spoil, TypeInv, TypeOK
  <2> QED
    BY <1>0, <1>12, <2>2, <2>3 DEF RecordFails, Fault, TypeInv, TypeOK
<1>13. ASSUME NEW c \in Processes, Tell(c) \/ Kill(c) \/ KillUntold(c) PROVE TypeInv'
  <2>1. /\ ci' \in [Processes -> CheckIns]
        /\ \A d \in Processes : ci'[d].stage # "idle" => ci'[d].host \in Hosts
        /\ BuiltInv'
    BY <1>13, IdleType, StageChange DEF Tell, Kill, KillUntold
  <2>2. CASE Tell(c)
    <3>0. ci[c] \in CheckIns /\ ci[c].host \in Hosts
      BY <2>2 DEF Tell, TypeInv, TypeOK
    <3>1. ci[c].host \in Hosts /\ ci[c].news \in Int
      BY <3>0 DEF CheckIns
    <3>2. told' \in [Hosts -> Int]
      BY <2>2, <3>1 DEF Tell, TypeInv, TypeOK
    <3> QED
      BY <2>1, <2>2, <3>2 DEF Tell, TypeInv, TypeOK
  <2>3. CASE Kill(c)
    <3>1. late' \subseteq Requests
      BY <2>3, OutlivesType DEF Kill
    <3> QED
      BY <1>0, <2>1, <2>3, <3>1 DEF Kill, Fault, TypeInv, TypeOK
  <2>4. CASE KillUntold(c)
    <3>1. spoiled' \subseteq Hosts /\ told' \in [Hosts -> Int]
      BY <2>4 DEF KillUntold, Spoil, TypeInv, TypeOK
    <3> QED
      BY <1>0, <2>1, <2>4, <3>1 DEF KillUntold, TypeInv, TypeOK
  <2> QED
    BY <1>13, <2>2, <2>3, <2>4
<1>14. CASE UNCHANGED vars
  BY <1>14 DEF vars, TypeInv, TypeOK, BuiltInv
<1> QED
  BY <1>1, <1>2, <1>3, <1>4, <1>5, <1>6, <1>7, <1>8, <1>9, <1>10, <1>11, <1>12, <1>13, <1>14
  DEF Next, Environment, Proceed

LEMMA TypeInit == Init => TypeInv
<1> SUFFICES ASSUME Init PROVE TypeInv
  OBVIOUS
<1>1. EmptyRecord(None) \in Records
  BY EmptyRecordType
<1>2. Nothing \in [Parts -> Contents \cup {None}]
  BY DEF Nothing
<1>3. First \in Contents /\ MaxClock \in Nat /\ MaxChanges \in Nat /\ MaxFaults \in Nat
  BY CheckinAssumption
<1> QED
  BY <1>1, <1>2, <1>3, IdleType DEF Init, TypeInv, TypeOK, BuiltInv

(* The record, the requests and the central app hold what they should.     *)
THEOREM CheckinTypes == Spec => []TypeOK
<1>1. Spec => []TypeInv
  BY TypeInit, TypeStep, PTL DEF Spec
<1> QED
  BY <1>1, PTL DEF TypeInv

-----------------------------------------------------------------------------
(* What is acknowledged was received: in the record, and in a check-in     *)
(* that has been answered but has not recorded it yet.                     *)
Got(x) == \A p \in x.included : <<x.host, p, x.fingerprints[p]>> \in received
ReceivedInv ==
  /\ AcknowledgedWasReceived
  /\ \A c \in Processes : ci[c].stage = "answered" => Got(ci[c])

(* What recording the outcome of a check-in does to the parts on record.   *)
LEMMA RecordedParts ==
  ASSUME TypeInv, NEW c \in Processes, ci[c].stage \in {"answered", "failed"}, NEW p \in Parts
  PROVE  \/ Recorded(c).acked[p] = CheckinFor(ci[c].host).acked[p]
         \/ /\ ci[c].stage = "answered" /\ p \in ci[c].included
            /\ Recorded(c).acked[p] = ci[c].fingerprints[p]
<1> DEFINE old == CheckinFor(ci[c].host)
<1>1. old \in Records
  BY CheckinForType DEF TypeInv, TypeOK
<1>2. CASE ci[c].stage = "failed"
  <2>1. Recorded(c) = [old EXCEPT !.failing = TRUE]
    BY <1>2 DEF Recorded
  <2> HIDE DEF old
  <2>2. Recorded(c).acked = old.acked
    BY <1>1, <2>1 DEF Records
  <2> QED
    BY <2>2 DEF old
<1>3. CASE ci[c].stage = "answered"
  <2>1. Recorded(c) = Acked(c, old)
    BY <1>3 DEF Recorded
  <2> HIDE DEF old
  <2>2. Recorded(c).acked = [q \in Parts |-> IF q \in ci[c].included
                               THEN ci[c].fingerprints[q] ELSE old.acked[q]]
    BY <1>1, <2>1 DEF Acked, Records
  <2> QED
    BY <1>3, <2>2 DEF old
<1> QED
  BY <1>2, <1>3

(* Receiving more, and a change of one check-in, keep it.                  *)
LEMMA ReceivedKept ==
  ASSUME TypeInv, TypeInv', ReceivedInv, received \subseteq received', UNCHANGED record,
         NEW c \in Processes, \A d \in Processes \ {c} : ci'[d] = ci[d],
         ci'[c].stage = "answered" =>
           \A p \in ci'[c].included : <<ci'[c].host, p, ci'[c].fingerprints[p]>> \in received'
  PROVE  ReceivedInv'
<1>1. AcknowledgedWasReceived'
  BY DEF ReceivedInv, AcknowledgedWasReceived
<1>2. ASSUME NEW d \in Processes, ci'[d].stage = "answered" PROVE Got(ci[d])'
  <2>1. CASE d = c
    BY <1>2, <2>1 DEF Got
  <2>2. CASE d # c
    BY <1>2, <2>2 DEF ReceivedInv, Got
  <2> QED
    BY <2>1, <2>2
<1> QED
  BY <1>1, <1>2 DEF ReceivedInv

LEMMA ReceivedStep == TypeInv /\ TypeInv' /\ ReceivedInv /\ [Next]_vars => ReceivedInv'
<1> SUFFICES ASSUME TypeInv, TypeInv', ReceivedInv, [Next]_vars PROVE ReceivedInv'
  OBVIOUS
<1>1. ASSUME UNCHANGED <<record, ci, received>> PROVE ReceivedInv'
  BY <1>1 DEF ReceivedInv, AcknowledgedWasReceived, Got
<1>2. ASSUME NEW r \in late, AnswerLate(r) PROVE ReceivedInv'
  <2>1. received \subseteq received' /\ UNCHANGED <<record, ci>>
    BY <1>2 DEF AnswerLate, Receive, hostVars, appVars
  <2> QED
    BY <2>1 DEF ReceivedInv, AcknowledgedWasReceived, Got
<1>3. ASSUME NEW c \in Processes,
             Start(c) \/ ReadFails(c) \/ Build(c) \/ Refuse(c) \/ GiveUp(c)
               \/ RecordFails(c) \/ Tell(c) \/ Kill(c) \/ KillUntold(c)
      PROVE  ReceivedInv'
  <2>1. received' = received /\ record' = record
    BY <1>3 DEF Start, ReadFails, Build, Refuse, GiveUp, RecordFails, Tell, Kill, KillUntold, hostVars, appVars
  <2>2. \A d \in Processes \ {c} : ci'[d] = ci[d]
    BY <1>3 DEF Start, ReadFails, Build, Refuse, GiveUp, RecordFails, Tell, Kill, KillUntold, TypeInv, TypeOK
  <2>3. ci'[c].stage # "answered"
    <3>1. CASE Start(c)
      BY <3>1 DEF Start, TypeInv, TypeOK, Idle
    <3>2. CASE Build(c)
      <4>1. \E f, i : ci' = [ci EXCEPT ![c].stage = "posted",
                              ![c].cfg = None, ![c].loaded = EmptyRecord(None),
                              ![c].fingerprints = f, ![c].included = i]
        BY <3>2 DEF Build
      <4> QED
        BY <4>1 DEF TypeInv, TypeOK, CheckIns
    <3>3. CASE ReadFails(c) \/ Refuse(c) \/ GiveUp(c)
      BY <3>3 DEF ReadFails, Refuse, GiveUp, TypeInv, TypeOK, Failed, Idle
    <3>4. CASE RecordFails(c) \/ Tell(c) \/ Kill(c) \/ KillUntold(c)
      BY <3>4, DoneOrRecorded
    <3> QED
      BY <1>3, <3>1, <3>2, <3>3, <3>4
  <2> QED
    BY <2>1, <2>2, <2>3, ReceivedKept
<1>4. ASSUME NEW c \in Processes, Answer(c) PROVE ReceivedInv'
  <2>1. /\ received \subseteq received' /\ record' = record
        /\ \A p \in ci[c].included : <<ci[c].host, p, ci[c].fingerprints[p]>> \in received'
    BY <1>4 DEF Answer, Receive, Request, hostVars
  <2>2. \A d \in Processes \ {c} : ci'[d] = ci[d]
    BY <1>4 DEF Answer, TypeInv, TypeOK
  <2>3. /\ ci'[c].included = ci[c].included /\ ci'[c].host = ci[c].host
        /\ ci'[c].fingerprints = ci[c].fingerprints
    BY <1>4 DEF Answer, TypeInv, TypeOK, CheckIns
  <2> QED
    BY <2>1, <2>2, <2>3, ReceivedKept
<1>5. ASSUME NEW c \in Processes, Record(c) PROVE ReceivedInv'
  <2>1. received' = received /\ record' = Recorded(c) /\ ci[c].stage \in {"answered", "failed"}
    BY <1>5 DEF Record, appVars
  <2>2. \A d \in Processes : ci'[d].stage = "answered" => ci'[d] = ci[d]
    <3>1. \A d \in Processes \ {c} : ci'[d] = ci[d]
      BY <1>5 DEF Record, TypeInv, TypeOK
    <3> QED
      BY <1>5, <3>1, DoneOrRecorded
  <2>3. Recorded(c) \in Records /\ Recorded(c).host = ci[c].host /\ ci[c].host \in Hosts
    BY <2>1, RecordedType
  <2> DEFINE old == CheckinFor(ci[c].host)
  <2>4. old \in Records /\ old.host = ci[c].host
    BY <2>3, CheckinForType
  <2>5. \A p \in Parts : old.acked[p] # None => <<ci[c].host, p, old.acked[p]>> \in received
    <3>1. CASE record.host = ci[c].host
      BY <3>1 DEF CheckinFor, ReceivedInv, AcknowledgedWasReceived
    <3>2. CASE record.host # ci[c].host
      BY <3>2 DEF CheckinFor, EmptyRecord, Nothing
    <3> QED
      BY <3>1, <3>2
  <2>6. \A p \in Parts :
          \/ Recorded(c).acked[p] = old.acked[p]
          \/ /\ ci[c].stage = "answered" /\ p \in ci[c].included
             /\ Recorded(c).acked[p] = ci[c].fingerprints[p]
    BY <2>1, RecordedParts
  <2>7. ASSUME NEW p \in Parts, Recorded(c).acked[p] # None
        PROVE  <<ci[c].host, p, Recorded(c).acked[p]>> \in received
    <3> HIDE DEF old
    <3>1. CASE Recorded(c).acked[p] = old.acked[p]
      BY <2>5, <2>7, <3>1
    <3>2. CASE Recorded(c).acked[p] # old.acked[p]
      <4>1. ci[c].stage = "answered" /\ p \in ci[c].included
            /\ Recorded(c).acked[p] = ci[c].fingerprints[p]
        BY <2>6, <3>2
      <4> QED
        BY <4>1 DEF ReceivedInv, Got
    <3> QED
      BY <3>1, <3>2
  <2>8. AcknowledgedWasReceived'
    BY <2>1, <2>3, <2>7 DEF AcknowledgedWasReceived
  <2>9. \A d \in Processes : ci'[d].stage = "answered" => Got(ci[d])'
    BY <2>1, <2>2 DEF ReceivedInv, Got
  <2> QED
    BY <2>8, <2>9 DEF ReceivedInv
<1>6. ASSUME Environment, ~\E r \in late : AnswerLate(r) PROVE ReceivedInv'
  BY <1>1, <1>6 DEF Environment, ChangePart, LoseDatabase, DeleteHost, Enrol, EnrolFails,
     Unenrol, hostVars, appVars
<1>7. CASE UNCHANGED vars
  BY <1>1, <1>7 DEF vars, hostVars, appVars
<1> QED
  BY <1>2, <1>3, <1>4, <1>5, <1>6, <1>7 DEF Next, Proceed

(* Nothing counts as acknowledged for an enrolment that the central app    *)
(* has not received under that host ID, for any number of overlapping      *)
(* check-ins, enrolments, lost replies and late requests (state.go:255).   *)
THEOREM AcknowledgementsReceived == Spec => []AcknowledgedWasReceived
<1>1. Init => ReceivedInv
  BY DEF Init, ReceivedInv, AcknowledgedWasReceived, EmptyRecord, Nothing, Idle
<1>2. ReceivedInv => AcknowledgedWasReceived
  BY DEF ReceivedInv
<1> QED
  BY <1>1, <1>2, TypeInit, TypeStep, ReceivedStep, PTL DEF Spec

-----------------------------------------------------------------------------
(* Seen from both ends, check-ins are the channel of module Reporting.     *)

(* An ID a check-in goes by has been given out.                            *)
IssuedInv ==
  /\ enrolment # None => hosts[enrolment] # "unused"
  /\ \A c \in Processes : ci[c].stage # "idle" => hosts[ci[c].host] # "unused"

(* A step that takes back no ID and starts no check-in keeps that.         *)
LEMMA IssuedKept ==
  ASSUME TypeInv, TypeInv', IssuedInv,
         \A h \in Hosts : hosts[h] # "unused" => hosts'[h] # "unused",
         enrolment' \in {enrolment, None} \/ hosts'[enrolment'] # "unused",
         \A c \in Processes : ci'[c].stage # "idle" =>
            hosts'[ci'[c].host] # "unused" \/ (ci[c].stage # "idle" /\ ci'[c].host = ci[c].host)
  PROVE  IssuedInv'
<1>1. \A c \in Processes : ci[c].stage # "idle" => ci[c].host \in Hosts
  BY DEF TypeInv, TypeOK
<1>2. enrolment # None => enrolment \in Hosts
  BY DEF TypeInv, TypeOK
<1>3. \A c \in Processes : ci'[c].stage # "idle" => hosts'[ci'[c].host] # "unused"
  BY <1>1 DEF IssuedInv
<1>4. enrolment' # None => hosts'[enrolment'] # "unused"
  BY <1>2 DEF IssuedInv
<1> QED
  BY <1>3, <1>4 DEF IssuedInv

LEMMA IssuedStep == TypeInv /\ TypeInv' /\ IssuedInv /\ [Next]_vars => IssuedInv'
<1> SUFFICES ASSUME TypeInv, TypeInv', IssuedInv, [Next]_vars PROVE IssuedInv'
  OBVIOUS
<1> USE DEF hostVars, appVars, boundVars, toldVars
<1>1. ASSUME UNCHANGED <<enrolment, hosts, ci>> PROVE IssuedInv'
  BY <1>1 DEF IssuedInv
<1>2. ASSUME NEW h \in Hosts, DeleteHost(h) \/ Enrol(h) \/ EnrolFails(h) PROVE IssuedInv'
  <2>1. \A g \in Hosts : hosts[g] # "unused" => hosts'[g] # "unused"
    BY <1>2 DEF DeleteHost, Enrol, EnrolFails, Register, TypeInv, TypeOK
  <2>2. enrolment' = enrolment \/ hosts'[enrolment'] # "unused"
    BY <1>2 DEF DeleteHost, Enrol, EnrolFails, Register, TypeInv, TypeOK
  <2>3. ci' = ci
    BY <1>2 DEF DeleteHost, Enrol, EnrolFails
  <2> QED
    BY <2>1, <2>2, <2>3, IssuedKept
<1>3. CASE Unenrol
  BY <1>3 DEF Unenrol, IssuedInv
<1>4. ASSUME NEW r \in late, AnswerLate(r) PROVE IssuedInv'
  BY <1>1, <1>4 DEF AnswerLate, Receive
<1>5. ASSUME NEW c \in Processes, Start(c) PROVE IssuedInv'
  <2>1. hosts' = hosts /\ enrolment' = enrolment /\ hosts[enrolment] # "unused"
    BY <1>5 DEF Start, IssuedInv
  <2>2. ci'[c].host = enrolment
    BY <1>5 DEF Start, TypeInv, TypeOK, Idle
  <2>3. \A d \in Processes \ {c} : ci'[d] = ci[d]
    BY <1>5 DEF Start, TypeInv, TypeOK
  <2> QED
    BY <2>1, <2>2, <2>3, IssuedKept
<1>6. ASSUME NEW c \in Processes, Proceed(c) \/ ReadFails(c) \/ GiveUp(c) \/ RecordFails(c)
             \/ Kill(c) \/ KillUntold(c)
      PROVE  IssuedInv'
  <2>1. hosts' = hosts /\ enrolment' = enrolment
    BY <1>6 DEF Proceed, Build, Answer, Receive, Refuse, Record, Tell, ReadFails, GiveUp, RecordFails,
       Kill, KillUntold
  <2>2. \A d \in Processes \ {c} : ci'[d] = ci[d]
    BY <1>6 DEF Proceed, Build, Answer, Refuse, Record, Tell, ReadFails, GiveUp, RecordFails, Kill, KillUntold,
       TypeInv, TypeOK
  <2>3. ci'[c].stage # "idle" => ci[c].stage # "idle" /\ ci'[c].host = ci[c].host
    <3>1. CASE Build(c)
      <4>1. \E f, i : ci' = [ci EXCEPT ![c].stage = "posted",
                              ![c].cfg = None, ![c].loaded = EmptyRecord(None),
                              ![c].fingerprints = f, ![c].included = i]
        BY <3>1 DEF Build
      <4>2. ci[c].stage = "loaded"
        BY <3>1 DEF Build
      <4> QED
        BY <4>1, <4>2 DEF TypeInv, TypeOK, CheckIns
    <3>4. CASE Answer(c)
      <4>1. \E s : ci' = [ci EXCEPT ![c].stage = "answered", ![c].at = 0, ![c].reply = s]
        BY <3>4 DEF Answer
      <4>2. ci[c].stage = "posted"
        BY <3>4 DEF Answer
      <4> QED
        BY <4>1, <4>2 DEF TypeInv, TypeOK, CheckIns
    <3>2. CASE ReadFails(c) \/ Refuse(c) \/ GiveUp(c)
      BY <3>2 DEF ReadFails, Refuse, GiveUp, Failed, Idle, TypeInv, TypeOK
    <3>3. CASE Record(c) \/ RecordFails(c) \/ Tell(c) \/ Kill(c) \/ KillUntold(c)
      BY <3>3, DoneOrRecorded
    <3> QED
      BY <1>6, <3>1, <3>2, <3>3, <3>4 DEF Proceed
  <2> QED
    BY <2>1, <2>2, <2>3, IssuedKept
<1>7. CASE Environment
  BY <1>1, <1>2, <1>3, <1>4, <1>7 DEF Environment, ChangePart, LoseDatabase
<1>8. CASE UNCHANGED vars
  BY <1>1, <1>8 DEF vars
<1> QED
  BY <1>5, <1>6, <1>7, <1>8 DEF Next

(* What is on the way is under way in a check-in or outlived one.          *)
LEMMA WayOrigin ==
  ASSUME NEW m \in OnTheWay
  PROVE  \/ \E c \in Processes : m \in UnderWay(c)
         \/ \E r \in late : m \in Carried(r)
<1>1. CASE m \in UNION {UnderWay(c) : c \in Processes}
  BY <1>1, Zenon
<1>2. CASE m \in UNION {Carried(r) : r \in late}
  BY <1>2, Zenon
<1> QED
  BY <1>1, <1>2 DEF OnTheWay

LEMMA WayOriginNext ==
  ASSUME NEW m \in OnTheWay'
  PROVE  \/ \E c \in Processes : m \in UnderWay(c)'
         \/ \E r \in late' : m \in Carried(r)
<1>1. CASE m \in UNION {UnderWay(c)' : c \in Processes}
  BY <1>1, Zenon
<1>2. CASE m \in UNION {Carried(r) : r \in late'}
  BY <1>2, Zenon
<1> QED
  BY <1>1, <1>2 DEF OnTheWay, Carried

LEMMA WayHas ==
  /\ \A c \in Processes : UnderWay(c) \subseteq OnTheWay
  /\ \A r \in late : Carried(r) \subseteq OnTheWay
<1>1. \A c \in Processes : UnderWay(c) \subseteq UNION {UnderWay(d) : d \in Processes}
  BY Zenon
<1>2. \A r \in late : Carried(r) \subseteq UNION {Carried(s) : s \in late}
  BY Zenon
<1> QED
  BY <1>1, <1>2 DEF OnTheWay

(* What one check-in adds to what is on the way.                           *)
LEMMA WayOfOne ==
  ASSUME NEW S, NEW c \in Processes, \A d \in Processes \ {c} : ci'[d] = ci[d],
         UnderWay(c)' \subseteq S,
         \A r \in late' \ late : Carried(r) \subseteq S
  PROVE  OnTheWay' \subseteq OnTheWay \cup S
<1> SUFFICES ASSUME NEW m \in OnTheWay', m \notin S PROVE m \in OnTheWay
  OBVIOUS
<1>1. CASE \E d \in Processes : m \in UnderWay(d)'
  <2>1. PICK d \in Processes : m \in UnderWay(d)'
    BY <1>1
  <2>2. d # c
    BY <2>1
  <2>3. UnderWay(d)' = UnderWay(d)
    BY <2>2 DEF UnderWay, Carried
  <2> QED
    BY <2>1, <2>3, WayHas
<1>2. CASE \E r \in late' : m \in Carried(r)
  BY <1>2, WayHas
<1>3. \/ \E d \in Processes : m \in UnderWay(d)'
      \/ \E r \in late' : m \in Carried(r)
  BY WayOriginNext
<1> QED
  BY <1>1, <1>2, <1>3

(* What a check-in leaves behind was on the way already.                   *)
LEMMA LeftOnTheWay ==
  ASSUME NEW c \in Processes
  PROVE  /\ UnderWay(c) \subseteq OnTheWay
         /\ \A r \in Outlives(c) : Carried(r) \subseteq OnTheWay
         /\ \A r \in late : Carried(r) \subseteq OnTheWay
<1>1. UnderWay(c) \subseteq OnTheWay /\ \A r \in late : Carried(r) \subseteq OnTheWay
  BY WayHas
<1>2. ASSUME NEW r \in Outlives(c) PROVE Carried(r) \subseteq UnderWay(c)
  <2>1. ci[c].stage = "posted" /\ r = Request(c)
    BY <1>2 DEF Outlives
  <2> QED
    BY <2>1 DEF UnderWay, Carried, Request
<1> QED
  BY <1>1, <1>2

(* A step that reads nothing new for a report, and changes nothing else    *)
(* Reporting speaks of, loses at most something on the way.                *)
LEMMA LoseSeen ==
  ASSUME OnTheWay' \subseteq OnTheWay, UNCHANGED <<content, enrolment, record, hosts, received>>
  PROVE  Channel!Lose
  BY DEF Channel!Lose

LEMMA EnvironmentSeen ==
  ASSUME TypeInv, TypeInv', Environment
  PROVE  [Channel!Next]_Channel!vars
<1> USE DEF hostVars, appVars, boundVars, toldVars
<1>1. ASSUME UNCHANGED <<ci, late>> PROVE OnTheWay' = OnTheWay
  BY <1>1 DEF OnTheWay, UnderWay, Carried
<1>2. ASSUME NEW p \in Parts, ChangePart(p) PROVE Channel!Change(p)
  BY <1>1, <1>2 DEF ChangePart, Channel!Change
<1>3. ASSUME NEW h \in Hosts, LoseDatabase(h) PROVE Channel!Lose
  BY <1>1, <1>3, LoseSeen DEF LoseDatabase
<1>4. ASSUME NEW h \in Hosts, DeleteHost(h) PROVE Channel!Delete(h)
  BY <1>1, <1>4 DEF DeleteHost, Channel!Delete
<1>5. ASSUME NEW h \in Hosts, Enrol(h) \/ EnrolFails(h) PROVE Channel!Enrol(h)
  BY <1>1, <1>5 DEF Enrol, EnrolFails, Register, Channel!Enrol
<1>6. CASE Unenrol
  BY <1>1, <1>6 DEF Unenrol, Channel!Unenrol, Channel!Next
<1>7. ASSUME NEW r \in late, AnswerLate(r)
      PROVE  Channel!Lose \/ \E h \in Hosts : Channel!Arrive(h)
  <2>1. OnTheWay' \subseteq OnTheWay
    <3>1. late' \subseteq late /\ \A c \in Processes : UnderWay(c)' = UnderWay(c)
      BY <1>7 DEF AnswerLate, UnderWay, Carried
    <3> QED
      BY <3>1, WayOriginNext, WayHas
  <2>2. UNCHANGED <<content, enrolment, record, hosts>> /\ r.host \in Hosts
    BY <1>7 DEF AnswerLate, Receive, TypeInv, TypeOK, Requests
  <2>3. CASE hosts[r.host] = "known"
    <3>1. received' = received \cup Carried(r)
      BY <1>7, <2>3 DEF AnswerLate, Receive, Carried
    <3>2. Carried(r) \subseteq {m \in OnTheWay : m[1] = r.host}
      <4>1. Carried(r) \subseteq OnTheWay
        BY WayHas
      <4>2. \A m \in Carried(r) : m[1] = r.host
        BY DEF Carried
      <4> QED
        BY <4>1, <4>2
    <3> QED
      BY <2>1, <2>2, <2>3, <3>1, <3>2 DEF Channel!Arrive
  <2>4. CASE hosts[r.host] # "known"
    BY <1>7, <2>1, <2>2, <2>4, LoseSeen DEF AnswerLate
  <2> QED
    BY <2>3, <2>4
<1> QED
  BY <1>2, <1>3, <1>4, <1>5, <1>6, <1>7 DEF Environment, Channel!Next

(* Reading parts, at the start of a check-in and when it is built.         *)
LEMMA StartSeen ==
  ASSUME TypeInv, IssuedInv, NEW c \in Processes, Start(c)
  PROVE  Channel!Read(enrolment) /\ enrolment \in Hosts
<1> DEFINE S == {<<enrolment, p, content[p]>> : p \in Parts}
<1>1. enrolment \in Hosts /\ hosts[enrolment] # "unused"
  BY DEF Start, IssuedInv, TypeInv, TypeOK
<1>2. /\ UNCHANGED <<content, enrolment, hosts, received, record, late>>
      /\ \A d \in Processes \ {c} : ci'[d] = ci[d]
  BY DEF Start, hostVars, appVars, TypeInv, TypeOK
<1>3. /\ ci'[c].stage = "loaded" /\ ci'[c].host = enrolment
      /\ ci'[c].fingerprints = [p \in Parts |-> IF p = "status" THEN content[p] ELSE None]
  BY DEF Start, Idle, TypeInv, TypeOK
<1>4. UnderWay(c)' \subseteq S
  BY <1>3 DEF UnderWay
<1>5. OnTheWay' \subseteq OnTheWay \cup S
  <2> HIDE DEF S
  <2> QED
    BY <1>2, <1>4, WayOfOne
<1> QED
  BY <1>1, <1>2, <1>5 DEF Channel!Read

LEMMA BuildSeen ==
  ASSUME TypeInv, IssuedInv, NEW c \in Processes, Build(c)
  PROVE  Channel!Read(ci[c].host) /\ ci[c].host \in Hosts
<1> DEFINE S == {<<ci[c].host, p, content[p]>> : p \in Parts}
<1>1. ci[c].host \in Hosts /\ hosts[ci[c].host] # "unused" /\ ci[c].stage = "loaded"
  BY DEF Build, IssuedInv, TypeInv, TypeOK
<1>2. /\ UNCHANGED <<content, enrolment, hosts, received, record, late>>
      /\ \A d \in Processes \ {c} : ci'[d] = ci[d]
  BY DEF Build, hostVars, appVars, TypeInv, TypeOK
<1>3. /\ ci'[c].stage = "posted" /\ ci'[c].host = ci[c].host /\ ci'[c].included \subseteq Parts
      /\ ci'[c].fingerprints =
           [p \in Parts |-> IF p = "status" THEN ci[c].fingerprints[p] ELSE content[p]]
  <2> DEFINE f == [p \in Parts |-> IF p = "status" THEN ci[c].fingerprints[p] ELSE content[p]]
             i == {p \in Parts : Wanted(c, p, f[p]) /\ ~Withheld(c, p)}
             e == EmptyRecord(None)
  <2>1. ci' = [ci EXCEPT ![c].stage = "posted", ![c].cfg = None, ![c].loaded = e,
                         ![c].fingerprints = f, ![c].included = i]
    BY DEF Build
  <2>2. i \subseteq Parts
    OBVIOUS
  <2> HIDE DEF f, i, e
  <2>3. ci[c] \in CheckIns /\ ci \in [Processes -> CheckIns]
    BY DEF TypeInv, TypeOK
  <2>4. /\ ci'[c].stage = "posted" /\ ci'[c].host = ci[c].host
        /\ ci'[c].fingerprints = f /\ ci'[c].included = i
    BY <2>1, <2>3 DEF CheckIns
  <2> QED
    BY <2>2, <2>4 DEF f
<1>4. UnderWay(c)' \subseteq S \cup UnderWay(c)
  <2>1. UnderWay(c)' = {<<ci[c].host, p, ci'[c].fingerprints[p]>> : p \in ci'[c].included}
    BY <1>3 DEF UnderWay, Carried
  <2>2. UnderWay(c) = {<<ci[c].host, p, ci[c].fingerprints[p]>> : p \in {"status"} \cap Parts}
    BY <1>1 DEF UnderWay
  <2> QED
    BY <1>3, <2>1, <2>2
<1>5. OnTheWay' \subseteq OnTheWay \cup S
  <2> HIDE DEF S
  <2>1. OnTheWay' \subseteq OnTheWay \cup (S \cup UnderWay(c))
    BY <1>2, <1>4, WayOfOne
  <2> QED
    BY <2>1, WayHas
<1> QED
  BY <1>1, <1>2, <1>5 DEF Channel!Read

LEMMA AnswerSeen ==
  ASSUME TypeInv, NEW c \in Processes, Answer(c)
  PROVE  \E h \in Hosts : Channel!Arrive(h)
<1>1. ci[c].stage = "posted" /\ hosts[ci[c].host] = "known" /\ ci[c].host \in Hosts
  BY DEF Answer, TypeInv, TypeOK
<1>2. /\ UNCHANGED <<content, enrolment, hosts, record, late>>
      /\ \A d \in Processes \ {c} : ci'[d] = ci[d]
  BY DEF Answer, Receive, hostVars, TypeInv, TypeOK
<1>3. UnderWay(c) = Carried(ci[c]) /\ received' = received \cup Carried(ci[c])
  BY <1>1 DEF Answer, Receive, Request, UnderWay, Carried
<1>4. UnderWay(c)' = {}
  <2>1. \E s : ci' = [ci EXCEPT ![c].stage = "answered", ![c].at = 0, ![c].reply = s]
    BY DEF Answer
  <2>2. ci'[c].stage = "answered"
    BY <2>1 DEF TypeInv, TypeOK, CheckIns
  <2> QED
    BY <2>2 DEF UnderWay
<1>5. OnTheWay' \subseteq OnTheWay \cup {}
  BY <1>2, <1>4, WayOfOne
<1>6. Carried(ci[c]) \subseteq {m \in OnTheWay : m[1] = ci[c].host}
  <2>1. \A m \in Carried(ci[c]) : m[1] = ci[c].host
    BY DEF Carried
  <2> QED
    BY <1>3, <2>1, WayHas
<1> QED
  BY <1>1, <1>2, <1>3, <1>5, <1>6 DEF Channel!Arrive

(* A check-in that ends, or turns out to have failed, at most leaves its   *)
(* request on the way.                                                     *)
LEMMA EndSeen ==
  ASSUME TypeInv, NEW c \in Processes,
         ReadFails(c) \/ Refuse(c) \/ GiveUp(c) \/ RecordFails(c) \/ Tell(c) \/ Kill(c) \/ KillUntold(c)
  PROVE  Channel!Lose
<1>1. UNCHANGED <<content, enrolment, record, hosts, received>>
  BY DEF ReadFails, Refuse, GiveUp, RecordFails, Tell, Kill, KillUntold, hostVars, appVars
<1>2. \A d \in Processes \ {c} : ci'[d] = ci[d]
  BY DEF ReadFails, Refuse, GiveUp, RecordFails, Tell, Kill, KillUntold, TypeInv, TypeOK
<1>3. UnderWay(c)' = {}
  <2>1. ci'[c].stage \in {"idle", "failed", "recorded"}
    <3>1. CASE ReadFails(c) \/ Refuse(c) \/ GiveUp(c)
      BY <3>1 DEF ReadFails, Refuse, GiveUp, Failed, Idle, TypeInv, TypeOK
    <3>2. CASE RecordFails(c) \/ Tell(c) \/ Kill(c) \/ KillUntold(c)
      BY <3>2, DoneOrRecorded
    <3> QED
      BY <3>1, <3>2
  <2> QED
    BY <2>1 DEF UnderWay
<1>4. late' \subseteq late \cup Outlives(c)
  BY DEF ReadFails, Refuse, GiveUp, RecordFails, Tell, Kill, KillUntold
<1>5. OnTheWay' \subseteq OnTheWay \cup OnTheWay
  <2>1. \A r \in late' \ late : Carried(r) \subseteq OnTheWay
    BY <1>4, LeftOnTheWay
  <2> HIDE DEF OnTheWay
  <2>2. UnderWay(c)' \subseteq OnTheWay
    BY <1>3
  <2> QED
    BY <1>2, <2>1, <2>2, WayOfOne
<1> QED
  BY <1>1, <1>5, LoseSeen

LEMMA RecordSeen ==
  ASSUME TypeInv, TypeInv', ReceivedInv, IssuedInv, NEW c \in Processes, Record(c)
  PROVE  \E h \in Hosts : Channel!Note(h)
<1> DEFINE h == ci[c].host
           old == CheckinFor(h)
<1>1. /\ ci[c].stage \in {"answered", "failed"} /\ record' = Recorded(c)
      /\ UNCHANGED <<content, enrolment, hosts, received, late>>
      /\ \A d \in Processes \ {c} : ci'[d] = ci[d]
      /\ ci'[c].stage \in {"idle", "recorded"}
  BY DoneOrRecorded DEF Record, appVars, TypeInv, TypeOK
<1>2. h \in Hosts /\ hosts[h] # "unused" /\ record' \in Records /\ record'.host = h
  BY <1>1, RecordedType DEF IssuedInv
<1>3. OnTheWay' = OnTheWay
  <2>1. \A d \in Processes : UnderWay(d)' = UnderWay(d)
    BY <1>1 DEF UnderWay, Carried
  <2> QED
    BY <1>1, <2>1, Zenon DEF OnTheWay, Carried
<1>4. [host |-> record.host, acked |-> record.acked]' \in
        [host : {h}, acked : [Parts -> Contents \cup {None}]]
  BY <1>2 DEF Records
<1>5. \A p \in Parts : record'.acked[p] = Channel!NotedFor(h)[p]
                        \/ <<h, p, record'.acked[p]>> \in received
  <2>1. \A p \in Parts : Channel!NotedFor(h)[p] = old.acked[p]
    BY DEF Channel!NotedFor, Channel!Nothing, CheckinFor, EmptyRecord, Nothing
  <2>2. \A p \in Parts :
          \/ record'.acked[p] = old.acked[p]
          \/ ci[c].stage = "answered" /\ p \in ci[c].included /\ record'.acked[p] = ci[c].fingerprints[p]
    BY <1>1, RecordedParts
  <2>3. ci[c].stage = "answered" =>
          \A p \in ci[c].included : <<h, p, ci[c].fingerprints[p]>> \in received
    BY DEF ReceivedInv, Got
  <2> HIDE DEF old
  <2> QED
    BY <2>1, <2>2, <2>3
<1> QED
  BY <1>1, <1>2, <1>3, <1>4, <1>5 DEF Channel!Note

LEMMA StepSeen ==
  TypeInv /\ TypeInv' /\ ReceivedInv /\ IssuedInv /\ [Next]_vars => [Channel!Next]_Channel!vars
<1> SUFFICES ASSUME TypeInv, TypeInv', ReceivedInv, IssuedInv, [Next]_vars
             PROVE  [Channel!Next]_Channel!vars
  OBVIOUS
<1>1. CASE Environment
  BY <1>1, EnvironmentSeen
<1>2. ASSUME NEW c \in Processes, Start(c) PROVE Channel!Next
  BY <1>2, StartSeen DEF Channel!Next
<1>3. ASSUME NEW c \in Processes, Build(c) PROVE Channel!Next
  BY <1>3, BuildSeen DEF Channel!Next
<1>4. ASSUME NEW c \in Processes, Answer(c) PROVE Channel!Next
  BY <1>4, AnswerSeen DEF Channel!Next
<1>5. ASSUME NEW c \in Processes, Record(c) PROVE Channel!Next
  BY <1>5, RecordSeen DEF Channel!Next
<1>6. ASSUME NEW c \in Processes,
             ReadFails(c) \/ Refuse(c) \/ GiveUp(c) \/ RecordFails(c) \/ Tell(c) \/ Kill(c) \/ KillUntold(c)
      PROVE  Channel!Next
  BY <1>6, EndSeen DEF Channel!Next
<1>7. CASE UNCHANGED vars
  BY <1>7 DEF vars, hostVars, appVars, Channel!vars, OnTheWay, UnderWay, Carried
<1> QED
  BY <1>1, <1>2, <1>3, <1>4, <1>5, <1>6, <1>7 DEF Next, Proceed

LEMMA InitSeen == Init => Channel!Init /\ IssuedInv
<1> SUFFICES ASSUME Init PROVE Channel!Init /\ IssuedInv
  OBVIOUS
<1>1. OnTheWay = {}
  <2>1. late = {} /\ \A c \in Processes : UnderWay(c) = {}
    BY DEF Init, UnderWay, Idle
  <2> QED
    BY <2>1, WayOrigin
<1>2. content \in [Parts -> Contents]
  BY CheckinAssumption DEF Init
<1> QED
  BY <1>1, <1>2 DEF Init, EmptyRecord, Nothing, Idle, Channel!Init, Channel!Nothing, IssuedInv

(* Overlapping check-ins implement the channel of module Reporting: what   *)
(* arrives for an ID was held by the host when it was read for that ID,    *)
(* nothing arrives for an ID that was deleted, and only what arrived under *)
(* an ID is noted for it, each of these in one step (checkin.go:178,       *)
(* state.go:255, client.go).                                               *)
THEOREM ImplementsReporting == Spec => ReportingSpec
<1>1. Init => ReceivedInv
  BY DEF Init, ReceivedInv, AcknowledgedWasReceived, EmptyRecord, Nothing, Idle
<1>2. Spec => [](TypeInv /\ ReceivedInv /\ IssuedInv)
  BY <1>1, InitSeen, TypeInit, TypeStep, ReceivedStep, IssuedStep, PTL DEF Spec
<1> QED
  BY <1>2, InitSeen, StepSeen, PTL DEF Spec, ReportingSpec, Channel!Spec

-----------------------------------------------------------------------------
-----------------------------------------------------------------------------
(* Outages.  What a check-in has yet to tell of host h.                    *)
NewsOf(x, h) == IF x.stage = "recorded" /\ x.host = h THEN x.news ELSE 0

Owed(h) == Cardinality(Owing(h, 1)) - Cardinality(Owing(h, -1))
Stands(h) == IF CheckinFor(h).failing THEN 1 ELSE 0

LEMMA OwingFinite ==
  ASSUME NEW h, NEW n
  PROVE  IsFiniteSet(Owing(h, n)) /\ Cardinality(Owing(h, n)) \in Nat
<1>1. IsFiniteSet(Processes)
  BY CheckinAssumption, FS_Union DEF Processes
<1>2. Owing(h, n) \subseteq Processes
  BY DEF Owing
<1>3. IsFiniteSet(Owing(h, n))
  BY <1>1, <1>2, FS_Subset
<1> QED
  BY <1>3, FS_CardinalityType

(* Those that owe a piece of news of h, when one check-in changes.         *)
LEMMA OwingOfOne ==
  ASSUME NEW c \in Processes, \A d \in Processes \ {c} : ci'[d] = ci[d], NEW h, NEW n \in {1, -1}
  PROVE  Cardinality(Owing(h, n))' =
           Cardinality(Owing(h, n)) - (IF NewsOf(ci[c], h) = n THEN 1 ELSE 0)
                                    + (IF NewsOf(ci'[c], h) = n THEN 1 ELSE 0)
<1> DEFINE O == Owing(h, n)
<1>1. IsFiniteSet(O) /\ Cardinality(O) \in Nat
  BY OwingFinite
<1>2. c \in O <=> NewsOf(ci[c], h) = n
  BY DEF Owing, NewsOf
<1>3. O' = IF NewsOf(ci'[c], h) = n THEN (O \ {c}) \cup {c} ELSE O \ {c}
  BY DEF Owing, NewsOf
<1> HIDE DEF O
<1> DEFINE R == O \ {c}
<1>4. /\ IsFiniteSet(R) /\ c \notin R
      /\ Cardinality(R) = Cardinality(O) - (IF NewsOf(ci[c], h) = n THEN 1 ELSE 0)
  BY <1>1, <1>2, FS_RemoveElement
<1> HIDE DEF R
<1>5. Cardinality(R \cup {c}) = Cardinality(R) + 1
  BY <1>4, FS_AddElement
<1>6. O' = IF NewsOf(ci'[c], h) = n THEN R \cup {c} ELSE R
  BY <1>3 DEF R
<1>7. Cardinality(O') = Cardinality(R) + (IF NewsOf(ci'[c], h) = n THEN 1 ELSE 0)
  <2>1. Cardinality(R) \in Nat
    BY <1>4, FS_CardinalityType
  <2> QED
    BY <1>5, <1>6, <2>1
<1>8. Cardinality(O') = Cardinality(O) - (IF NewsOf(ci[c], h) = n THEN 1 ELSE 0)
                          + (IF NewsOf(ci'[c], h) = n THEN 1 ELSE 0)
  BY <1>4, <1>7
<1> QED
  BY <1>8 DEF O

LEMMA NewsOfType ==
  ASSUME NEW x \in CheckIns, NEW h
  PROVE  NewsOf(x, h) \in {-1, 0, 1}
  BY DEF NewsOf, CheckIns

(* What is owed of h changes by what that check-in owes of it.             *)
LEMMA OwedOfOne ==
  ASSUME TypeInv, TypeInv', NEW c \in Processes, \A d \in Processes \ {c} : ci'[d] = ci[d], NEW h
  PROVE  /\ Owed(h) \in Int
         /\ Owed(h)' = Owed(h) - NewsOf(ci[c], h) + NewsOf(ci'[c], h)
<1> DEFINE a == Cardinality(Owing(h, 1))
           b == Cardinality(Owing(h, -1))
           m == NewsOf(ci[c], h)
           n == NewsOf(ci'[c], h)
<1>1. a \in Nat /\ b \in Nat
  BY OwingFinite
<1>2. /\ a' = a - (IF m = 1 THEN 1 ELSE 0) + (IF n = 1 THEN 1 ELSE 0)
      /\ b' = b - (IF m = -1 THEN 1 ELSE 0) + (IF n = -1 THEN 1 ELSE 0)
  BY OwingOfOne
<1>3. m \in {-1, 0, 1} /\ n \in {-1, 0, 1}
  BY NewsOfType DEF TypeInv, TypeOK
<1>4. Owed(h) = a - b /\ Owed(h)' = a' - b'
  BY DEF Owed
<1> HIDE DEF a, b, m, n
<1>5. a - b \in Int /\ a' - b' = (a - b) - m + n
  BY <1>1, <1>2, <1>3
<1> QED
  BY <1>4, <1>5 DEF m, n

OutageInv == \A h \in Hosts \ spoiled : told[h] + Owed(h) = Stands(h)

(* It is kept for h if what is told, owed and on record change alike.      *)
LEMMA OutageKept ==
  ASSUME TypeInv, TypeInv', OutageInv, spoiled \subseteq spoiled',
         NEW c \in Processes, \A d \in Processes \ {c} : ci'[d] = ci[d],
         \A h \in Hosts \ spoiled' :
           Stands(h)' - Stands(h) = (told'[h] - told[h]) + (NewsOf(ci'[c], h) - NewsOf(ci[c], h))
  PROVE  OutageInv'
<1> SUFFICES ASSUME NEW h \in Hosts, h \notin spoiled'
             PROVE  told'[h] + Owed(h)' = Stands(h)'
  BY DEF OutageInv
<1> DEFINE m == NewsOf(ci[c], h)
           n == NewsOf(ci'[c], h)
           s == Stands(h)
           t == Stands(h)'
           o == Owed(h)
           q == Owed(h)'
<1>1. o \in Int /\ q = o - m + n
  BY OwedOfOne
<1>2. m \in Int /\ n \in Int
  BY NewsOfType DEF TypeInv, TypeOK
<1>3. told[h] \in Int /\ told'[h] \in Int
  BY DEF TypeInv, TypeOK
<1>4. s \in Int /\ t \in Int
  BY DEF Stands
<1>5. told[h] + o = s
  BY DEF OutageInv
<1>6. t - s = (told'[h] - told[h]) + (n - m)
  OBVIOUS
<1> HIDE DEF m, n, s, t, o, q
<1>7. told'[h] + q = t
  BY <1>1, <1>2, <1>3, <1>4, <1>5, <1>6
<1> QED
  BY <1>7 DEF q, t

LEMMA RecordOutage ==
  ASSUME TypeInv, TypeInv', OutageInv, NEW c \in Processes, Record(c)
  PROVE  OutageInv'
<1> DEFINE h == ci[c].host
           f == ci[c].stage = "failed"
<1>1. /\ ci[c].stage \in {"answered", "failed"} /\ record' = Recorded(c)
      /\ ci' = [ci EXCEPT ![c] = ToTell(c, WasFailing(c))]
      /\ spoiled' = spoiled \cup ({record.host} \ {None, h})
      /\ \A g \in Hosts \ spoiled' : told'[g] = told[g]
  BY DEF Record, Spoil
<1>2. ci'[c] = ToTell(c, WasFailing(c)) /\ \A d \in Processes \ {c} : ci'[d] = ci[d]
  BY <1>1 DEF TypeInv, TypeOK
<1>3. Recorded(c).host = h /\ h \in Hosts
  BY <1>1, RecordedType
<1>4. CheckinFor(h) \in Records
  BY <1>3, CheckinForType
<1>5. Recorded(c).failing = f
  BY <1>1, <1>4 DEF Recorded, Acked, Records
<1>6. WasFailing(c) \in BOOLEAN /\ f \in BOOLEAN
  BY <1>4 DEF WasFailing, Records
<1>7. \A g : NewsOf(ci[c], g) = 0
  BY <1>1 DEF NewsOf
<1>8. \A g : NewsOf(ci'[c], g) = IF g = h THEN News(WasFailing(c), f) ELSE 0
  <2> DEFINE n == News(WasFailing(c), f)
             x == [Idle EXCEPT !.stage = "recorded", !.host = h, !.news = n]
  <2>1. ci'[c] = IF n = 0 THEN Idle ELSE x
    BY <1>2 DEF ToTell
  <2>2. x.stage = "recorded" /\ x.host = h /\ x.news = n /\ Idle.stage = "idle"
    <3> HIDE DEF n
    <3> QED
      BY DEF Idle
  <2> HIDE DEF n, x
  <2>3. \A g : NewsOf(ci'[c], g) = IF g = h THEN n ELSE 0
    BY <2>1, <2>2 DEF NewsOf
  <2> QED
    BY <2>3 DEF n
<1>9. ASSUME NEW g \in Hosts, g \notin spoiled'
      PROVE  Stands(g)' - Stands(g)
               = (told'[g] - told[g]) + (NewsOf(ci'[c], g) - NewsOf(ci[c], g))
  <2>1. told'[g] = told[g] /\ told[g] \in Int
    BY <1>1, <1>9 DEF TypeInv, TypeOK
  <2>2. CASE g = h
    <3>1. Stands(g) = IF WasFailing(c) THEN 1 ELSE 0
      BY <2>2 DEF Stands, WasFailing
    <3>2. Stands(g)' = IF f THEN 1 ELSE 0
      BY <1>1, <1>3, <1>5, <2>2 DEF Stands, CheckinFor
    <3> HIDE DEF f, h
    <3> QED
      BY <1>6, <1>7, <1>8, <2>1, <2>2, <3>1, <3>2 DEF News
  <2>3. CASE g # h
    <3>1. record.host # g
      BY <1>1, <1>9, <2>3, CheckinAssumption
    <3>2. Stands(g) = 0
      BY <3>1 DEF Stands, CheckinFor, EmptyRecord
    <3>3. Stands(g)' = 0
      BY <1>1, <1>3, <2>3 DEF Stands, CheckinFor, EmptyRecord
    <3> HIDE DEF f, h
    <3> QED
      BY <1>7, <1>8, <2>1, <2>3, <3>2, <3>3
  <2> QED
    BY <2>2, <2>3
<1> QED
  BY <1>1, <1>2, <1>9, OutageKept

(* A record that is lost, a line that is printed and a process killed.     *)
LEMMA OthersOutage ==
  ASSUME TypeInv, TypeInv', OutageInv, NEW c \in Processes, RecordFails(c) \/ Tell(c) \/ Kill(c) \/ KillUntold(c)
  PROVE  OutageInv'
<1> DEFINE h == ci[c].host
<1>1. /\ record' = record /\ spoiled \subseteq spoiled'
      /\ \A d \in Processes \ {c} : ci'[d] = ci[d]
  BY DEF RecordFails, Tell, Kill, KillUntold, Spoil, hostVars, toldVars, TypeInv, TypeOK
<1>2. \A g : Stands(g)' = Stands(g) /\ Stands(g) \in Int
  BY <1>1 DEF Stands, CheckinFor
<1>3. \A g \in Hosts : told[g] \in Int /\ told'[g] \in Int
  BY DEF TypeInv, TypeOK
<1>4. \A g : NewsOf(ci[c], g) \in Int /\ NewsOf(ci'[c], g) \in Int
  BY NewsOfType DEF TypeInv, TypeOK
<1>5. \A g : g # h => NewsOf(ci[c], g) = 0 /\ NewsOf(ci'[c], g) = 0
  BY DoneOrRecorded DEF NewsOf
<1>6. ASSUME NEW g \in Hosts, g \notin spoiled'
      PROVE  0 = (told'[g] - told[g]) + (NewsOf(ci'[c], g) - NewsOf(ci[c], g))
  <2>1. CASE RecordFails(c)
    <3>1. g # h /\ told'[g] = told[g]
      BY <1>6, <2>1 DEF RecordFails, Spoil
    <3> HIDE DEF h
    <3> QED
      BY <1>3, <1>5, <3>1
  <2>2. CASE Tell(c)
    <3>1. ci'[c].stage = "idle"
      BY <2>2, IdleType DEF Tell, TypeInv, TypeOK
    <3>2. NewsOf(ci'[c], g) = 0
      BY <3>1 DEF NewsOf
    <3>3. NewsOf(ci[c], g) = IF g = h THEN ci[c].news ELSE 0
      BY <2>2 DEF Tell, NewsOf
    <3>4. told'[g] = IF g = h THEN told[g] + ci[c].news ELSE told[g]
      BY <1>1, <1>6, <2>2 DEF Tell, TypeInv, TypeOK
    <3> HIDE DEF h
    <3> QED
      BY <1>3, <1>4, <3>2, <3>3, <3>4
  <2>3. CASE Kill(c) \/ KillUntold(c)
    <3>1. ci'[c].stage = "idle"
      BY <2>3, IdleType DEF Kill, KillUntold, TypeInv, TypeOK
    <3>2. NewsOf(ci'[c], g) = 0
      BY <3>1 DEF NewsOf
    <3>3. NewsOf(ci[c], g) = 0
      BY <1>6, <2>3 DEF Kill, KillUntold, Spoil, NewsOf
    <3>4. told'[g] = told[g]
      BY <1>6, <2>3 DEF Kill, KillUntold, Spoil, toldVars
    <3> QED
      BY <1>3, <3>2, <3>3, <3>4
  <2> QED
    BY <2>1, <2>2, <2>3
<1>7. \A g \in Hosts \ spoiled' :
        Stands(g)' - Stands(g) = (told'[g] - told[g]) + (NewsOf(ci'[c], g) - NewsOf(ci[c], g))
  BY <1>2, <1>6
<1> QED
  BY <1>1, <1>7, OutageKept

LEMMA OutageStep == TypeInv /\ TypeInv' /\ OutageInv /\ [Next]_vars => OutageInv'
<1> SUFFICES ASSUME TypeInv, TypeInv', OutageInv, [Next]_vars PROVE OutageInv'
  OBVIOUS
<1>1. ASSUME UNCHANGED <<record, ci, told, spoiled>> PROVE OutageInv'
  BY <1>1 DEF OutageInv, Owed, Owing, Stands, CheckinFor
<1>2. CASE UNCHANGED vars
  BY <1>1, <1>2 DEF vars, hostVars, toldVars
<1>3. CASE Environment
  BY <1>1, <1>3 DEF Environment, ChangePart, LoseDatabase, DeleteHost, Enrol, EnrolFails,
     Unenrol, AnswerLate, hostVars, toldVars
<1>4. ASSUME NEW c \in Processes,
             Start(c) \/ ReadFails(c) \/ Build(c) \/ Answer(c) \/ Refuse(c) \/ GiveUp(c)
      PROVE  OutageInv'
  <2>1. /\ UNCHANGED <<record, told, spoiled>> /\ ci[c].stage # "recorded"
        /\ \A d \in Processes \ {c} : ci'[d] = ci[d]
    BY <1>4 DEF Start, ReadFails, Build, Answer, Refuse, GiveUp, hostVars, toldVars, TypeInv, TypeOK
  <2>2. ci'[c].stage # "recorded"
    <3>1. CASE Start(c)
      BY <3>1 DEF Start, TypeInv, TypeOK, Idle
    <3>2. CASE Build(c)
      <4>1. \E f, i : ci' = [ci EXCEPT ![c].stage = "posted",
                              ![c].cfg = None, ![c].loaded = EmptyRecord(None),
                              ![c].fingerprints = f, ![c].included = i]
        BY <3>2 DEF Build
      <4> QED
        BY <4>1 DEF TypeInv, TypeOK, CheckIns
    <3>3. CASE Answer(c)
      <4>1. \E s : ci' = [ci EXCEPT ![c].stage = "answered", ![c].at = 0, ![c].reply = s]
        BY <3>3 DEF Answer
      <4> QED
        BY <4>1 DEF TypeInv, TypeOK, CheckIns
    <3>4. CASE ReadFails(c) \/ Refuse(c) \/ GiveUp(c)
      BY <3>4 DEF ReadFails, Refuse, GiveUp, TypeInv, TypeOK, Failed, Idle
    <3> QED
      BY <1>4, <3>1, <3>2, <3>3, <3>4
  <2>3. \A h \in Hosts :
          Stands(h)' - Stands(h) = (told'[h] - told[h]) + (NewsOf(ci'[c], h) - NewsOf(ci[c], h))
    <3>1. \A h : Stands(h)' = Stands(h) /\ Stands(h) \in Int
      BY <2>1 DEF Stands, CheckinFor
    <3>2. \A h : NewsOf(ci[c], h) = 0 /\ NewsOf(ci'[c], h) = 0
      BY <2>1, <2>2 DEF NewsOf
    <3>3. \A h \in Hosts : told'[h] = told[h] /\ told[h] \in Int
      BY <2>1 DEF TypeInv, TypeOK
    <3> QED
      BY <3>1, <3>2, <3>3
  <2> QED
    BY <2>1, <2>3, OutageKept
<1> QED
  BY <1>2, <1>3, <1>4, RecordOutage, OthersOutage DEF Next, Proceed

(* Each start and each end of an outage is told once, by the check-in that *)
(* recorded it, for any number of processes that overlap between reading,  *)
(* recording and printing (state.go:240, checkin.go:208); unless one was   *)
(* killed before it printed or a record of the host was lost.              *)
THEOREM OutagesToldOnce == Spec => []OutageToldOnce
<1>1. Init => OutageInv
  <2> SUFFICES ASSUME Init, NEW h \in Hosts PROVE told[h] + Owed(h) = Stands(h)
    BY DEF OutageInv
  <2>1. \A n : Owing(h, n) = {}
    BY DEF Init, Owing, Idle
  <2>2. Owed(h) = 0
    BY <2>1, FS_EmptySet DEF Owed
  <2> QED
    BY <2>2 DEF Init, Stands, CheckinFor, EmptyRecord
<1>2. TypeInv /\ OutageInv => OutageToldOnce
  <2> SUFFICES ASSUME TypeInv, OutageInv, NEW h \in Hosts, h \notin spoiled
               PROVE  told[h] + Cardinality(Owing(h, 1)) - Cardinality(Owing(h, -1)) = Stands(h)
    BY DEF OutageToldOnce, Stands
  <2> DEFINE a == Cardinality(Owing(h, 1))
             b == Cardinality(Owing(h, -1))
  <2>1. a \in Nat /\ b \in Nat /\ told[h] \in Int
    BY OwingFinite DEF TypeInv, TypeOK
  <2>2. told[h] + (a - b) = Stands(h)
    BY DEF OutageInv, Owed
  <2> HIDE DEF a, b
  <2>3. told[h] + a - b = Stands(h)
    BY <2>1, <2>2
  <2> QED
    BY <2>3 DEF a, b
<1> QED
  BY <1>1, <1>2, TypeInit, TypeStep, OutageStep, PTL DEF Spec
=============================================================================
