------------------------------ MODULE Checkin ------------------------------
(***************************************************************************)
(* A host reporting to the central app: checkIn and buildCheckin of        *)
(* cmd/rest-o-matic/checkin.go, the record of check-ins in the state file, *)
(* the enrolment file, and enrol and unenrol.  Every tick checks in, and   *)
(* so does the checkin command; both are short-lived processes, so         *)
(* check-ins overlap, may be cut off by their time limit with the request  *)
(* still on its way, may be killed, or fail to record what they achieved;  *)
(* and the host may be enrolled anew under any of them.                    *)
(*                                                                         *)
(* A part's content stands for its fingerprint as well.  The central app   *)
(* is not part of the repository: it is modelled as contract/checkin/v1    *)
(* says, and marked external.                                              *)
(***************************************************************************)
EXTENDS Integers, FiniteSets

CONSTANTS
  Ticks,        \* processes that check in from a tick, again and again
  Commands,     \* processes that run the checkin command
  MaxHosts,     \* bound on the host IDs the central app gives out
  Parts,        \* the parts of a check-in: "status", "snapshots", "config"
  Contents,     \* what a part may hold
  PlainText,    \* config files holding a secret in plain text
  First,        \* what every part holds at first
  MaxClock,     \* bound on the times at which check-ins start
  MaxChanges,   \* bound on changes of parts
  MaxFaults,    \* bound on lost messages, killed check-ins, failing files, lost
                \* databases, deleted hosts and removed enrolments
  None

Processes == Ticks \cup Commands
Hosts == 1 .. MaxHosts   \* host IDs, in the order they are given out

ASSUME CheckinAssumption ==
  /\ IsFiniteSet(Ticks) /\ IsFiniteSet(Commands) /\ Ticks \cap Commands = {}
  /\ Parts \subseteq {"status", "snapshots", "config"} /\ "config" \in Parts
  /\ PlainText \subseteq Contents
  /\ First \in Contents
  /\ None \notin Contents \cup Hosts
  /\ MaxHosts \in Nat /\ MaxClock \in Nat /\ MaxChanges \in Nat /\ MaxFaults \in Nat

VARIABLES
  content,    \* content[p]: what part p holds now
  enrolment,  \* the host ID in the enrolment file
  record,     \* the state file's record of check-ins
  ci,         \* ci[c]: the check-in that process c is making
  hosts,      \* hosts[h]: what host ID h is to the central app
  kept,       \* kept[h][p]: what the central app keeps of part p
  keptAt,     \* keptAt[h][p]: and the sent_at of the report it is from
  late,       \* requests that outlived the check-in that sent them
  clock, changes, faults,
  received,   \* history: every <<h, p, v>> the central app ever received
  told,       \* history: told[h]: how many more failures of h than ends of a
              \* failure have been told; nothing is counted of those in spoiled
  spoiled     \* history: hosts that lost a record of a check-in, or a process
              \* that had recorded and not yet told

appVars == <<hosts, kept, keptAt, received>>
toldVars == <<told, spoiled>>
hostVars == <<content, enrolment, record>>
boundVars == <<clock, changes, faults>>
vars == <<hostVars, ci, appVars, late, boundVars, toldVars>>

Nothing == [p \in Parts |-> None]

(* The record of check-ins: the enrolment it belongs to, whether the last  *)
(* attempt failed, and what is acknowledged and asked for again.           *)
Records == [host : Hosts \cup {None}, failing : BOOLEAN,
            acked : [Parts -> Contents \cup {None}], resend : SUBSET Parts]
EmptyRecord(h) == [host |-> h, failing |-> FALSE, acked |-> Nothing, resend |-> {}]

Requests == [host : Hosts, at : 0 .. MaxClock,
             fingerprints : [Parts -> Contents], included : SUBSET Parts]

(* A check-in: its stage; the enrolment, time and config it started with;  *)
(* the record it has loaded; the request; what the reply asks for; and,    *)
(* once recorded, its news: failing now (1) or working again (-1).         *)
Stages == {"idle", "loaded", "posted", "answered", "failed", "recorded"}
Idle == [stage |-> "idle", host |-> None, at |-> 0, cfg |-> None, loaded |-> EmptyRecord(None),
         fingerprints |-> Nothing, included |-> {}, reply |-> {}, news |-> 0]
CheckIns == [stage : Stages, host : Hosts \cup {None}, at : 0 .. MaxClock,
             cfg : Contents \cup {None}, loaded : Records,
             fingerprints : [Parts -> Contents \cup {None}],
             included : SUBSET Parts, reply : SUBSET Parts, news : -1 .. 1]

TypeOK ==
  /\ content \in [Parts -> Contents]
  /\ enrolment \in Hosts \cup {None}
  /\ record \in Records
  /\ record.host = None => record = EmptyRecord(None)
  /\ ci \in [Processes -> CheckIns]
  /\ \A c \in Processes : ci[c].stage # "idle" => ci[c].host \in Hosts
  /\ hosts \in [Hosts -> {"unused", "known", "deleted"}]
  /\ kept \in [Hosts -> [Parts -> Contents \cup {None}]]
  /\ keptAt \in [Hosts -> [Parts -> 0 .. MaxClock]]
  /\ late \subseteq Requests
  /\ clock \in 0 .. MaxClock /\ changes \in 0 .. MaxChanges /\ faults \in 0 .. MaxFaults
  /\ received \subseteq Hosts \X Parts \X Contents
  /\ told \in [Hosts -> Int]
  /\ spoiled \subseteq Hosts

Init ==
  /\ content = [p \in Parts |-> First]
  /\ enrolment = None
  /\ record = EmptyRecord(None)
  /\ ci = [c \in Processes |-> Idle]
  /\ hosts = [h \in Hosts |-> "unused"]
  /\ kept = [h \in Hosts |-> Nothing]
  /\ keptAt = [h \in Hosts |-> [p \in Parts |-> 0]]
  /\ late = {}
  /\ clock = 0 /\ changes = 0 /\ faults = 0
  /\ received = {}
  /\ told = [h \in Hosts |-> 0]
  /\ spoiled = {}

-----------------------------------------------------------------------------
(* The world around the check-ins.                                         *)

(* Jobs run, lists are taken, the config file is edited. *)
ChangePart(p) ==
  /\ changes < MaxChanges
  /\ changes' = changes + 1
  /\ \E v \in Contents \ {content[p]} : content' = [content EXCEPT ![p] = v]
  /\ UNCHANGED <<enrolment, record, ci, appVars, late, clock, faults, toldVars>>

Fault == faults < MaxFaults /\ faults' = faults + 1

(* The central app loses its database and keeps only who is registered. *)
LoseDatabase(h) ==
  /\ Fault
  /\ kept' = [kept EXCEPT ![h] = Nothing]
  /\ keptAt' = [keptAt EXCEPT ![h] = [p \in Parts |-> 0]]
  /\ UNCHANGED <<hosts, received, hostVars, ci, late, clock, changes, toldVars>>

DeleteHost(h) ==
  /\ hosts[h] = "known"
  /\ Fault
  /\ hosts' = [hosts EXCEPT ![h] = "deleted"]
  /\ UNCHANGED <<kept, keptAt, received, hostVars, ci, late, clock, changes, toldVars>>

-----------------------------------------------------------------------------
(* Enrolling.                                                              *)

(* The app spends the token and gives out a host ID it has never used,     *)
(* which replaces the enrolment file (--force), whatever check-ins are     *)
(* under way.  Nothing uses a host ID before it is saved, so that is one   *)
(* step with the reply.                                                    *)
Register(h) ==
  /\ hosts[h] = "unused" /\ \A g \in 1 .. h - 1 : hosts[g] # "unused"
  /\ hosts' = [hosts EXCEPT ![h] = "known"]

Enrol(h) ==
  /\ Register(h)
  /\ enrolment' = h
  /\ UNCHANGED <<kept, keptAt, received, content, record, ci, late, boundVars, toldVars>>

(* The reply is lost, or the file can't be saved: the token is spent. *)
EnrolFails(h) ==
  /\ Register(h)
  /\ Fault
  /\ UNCHANGED <<kept, keptAt, received, hostVars, ci, late, clock, changes, toldVars>>

Unenrol ==
  /\ enrolment # None
  /\ Fault
  /\ enrolment' = None
  /\ UNCHANGED <<content, record, ci, appVars, late, clock, changes, toldVars>>

-----------------------------------------------------------------------------
(* One check-in.                                                           *)

(* Slip: an empty record without the host ID it is for. *)
CheckinForNobody(h) == IF record.host # h THEN EmptyRecord(None) ELSE record

(* A record for another host ID counts for nothing. *)
CheckinFor(h) == IF record.host # h THEN EmptyRecord(h) ELSE record

(* What is left of a check-in that has failed. *)
Failed(c) == [Idle EXCEPT !.stage = "failed", !.host = ci[c].host]

(* The config, the enrolment and the state are read: the time of the       *)
(* check-in is from before anything that is reported.                      *)
Start(c) ==
  /\ ci[c].stage = "idle"
  /\ enrolment # None
  /\ clock' \in clock .. MaxClock
  /\ ci' = [ci EXCEPT ![c] =
       [Idle EXCEPT !.stage = "loaded", !.host = enrolment, !.at = clock',
                    !.cfg = content["config"], !.loaded = CheckinFor(enrolment),
                    !.fingerprints = [p \in Parts |-> IF p = "status" THEN content[p] ELSE None]]]
  /\ UNCHANGED <<hostVars, appVars, late, changes, faults, toldVars>>

(* The state, a list or the config can't be read. *)
ReadFails(c) ==
  /\ ci[c].stage = "loaded"
  /\ Fault
  /\ ci' = [ci EXCEPT ![c] = Failed(c)]
  /\ UNCHANGED <<hostVars, appVars, late, clock, changes, toldVars>>

(* Slip: a part the app asks for again is sent only if it has changed. *)
WantedIfChanged(c, p, v) == ci[c].loaded.acked[p] # v

Wanted(c, p, v) ==
  \/ ci[c].loaded.acked[p] # v
  \/ p \in ci[c].loaded.resend

(* The config is withheld for what it was when it was loaded. *)
Withheld(c, p) == p = "config" /\ ci[c].cfg \in PlainText

(* The snapshot lists and the config's text are read only now.  What was   *)
(* loaded is not used again.                                               *)
Build(c) ==
  LET now == [p \in Parts |-> IF p = "status" THEN ci[c].fingerprints[p] ELSE content[p]] IN
  /\ ci[c].stage = "loaded"
  /\ ci' = [ci EXCEPT ![c].stage = "posted",
                      ![c].cfg = None, ![c].loaded = EmptyRecord(None),
                      ![c].fingerprints = now,
                      ![c].included = {p \in Parts : Wanted(c, p, now[p]) /\ ~Withheld(c, p)}]
  /\ UNCHANGED <<hostVars, appVars, late, boundVars, toldVars>>

Request(c) == [host |-> ci[c].host, at |-> ci[c].at,
               fingerprints |-> ci[c].fingerprints, included |-> ci[c].included]

(* What the app keeps once it has handled request r: of a part received    *)
(* twice, the report with the later sent_at.                               *)
Newer(r, p) == p \in r.included /\ r.at >= keptAt[r.host][p]
KeptAfter(r) == [p \in Parts |-> IF Newer(r, p) THEN r.fingerprints[p] ELSE kept[r.host][p]]

Receive(r) ==
  /\ kept' = [kept EXCEPT ![r.host] = KeptAfter(r)]
  /\ keptAt' = [keptAt EXCEPT ![r.host] =
                  [p \in Parts |-> IF Newer(r, p) THEN r.at ELSE @[p]]]
  /\ received' = received \cup {<<r.host, p, r.fingerprints[p]>> : p \in r.included}
  /\ UNCHANGED hosts

(* The app asks again for each part it doesn't keep as the host has it. *)
AsksFor(r) == {p \in Parts : KeptAfter(r)[p] # r.fingerprints[p]}

(* A request arrives while its check-in waits, and is answered. *)
Answer(c) ==
  /\ ci[c].stage = "posted"
  /\ hosts[ci[c].host] = "known"
  /\ Receive(Request(c))
  /\ ci' = [ci EXCEPT ![c].stage = "answered", ![c].at = 0, ![c].reply = AsksFor(Request(c))]
  /\ UNCHANGED <<hostVars, late, boundVars, toldVars>>

(* The host was deleted: the credential is rejected. *)
Refuse(c) ==
  /\ ci[c].stage = "posted"
  /\ hosts[ci[c].host] # "known"
  /\ ci' = [ci EXCEPT ![c] = Failed(c)]
  /\ UNCHANGED <<hostVars, appVars, late, boundVars, toldVars>>

(* A request that has not arrived may do so later, or never; one without   *)
(* content would change nothing.                                           *)
Outlives(c) == IF ci[c].stage = "posted" /\ ci[c].included # {} THEN {Request(c)} ELSE {}

(* No reply in time, or none that can be understood. *)
GiveUp(c) ==
  /\ Fault
  /\ ci[c].stage \in {"posted", "answered"}
  /\ late' = late \cup Outlives(c)
  /\ ci' = [ci EXCEPT ![c] = Failed(c)]
  /\ UNCHANGED <<hostVars, appVars, clock, changes, toldVars>>

AnswerLate(r) ==
  /\ late' = late \ {r}
  /\ IF hosts[r.host] = "known" THEN Receive(r) ELSE UNCHANGED appVars
  /\ UNCHANGED <<hostVars, ci, boundVars, toldVars>>

(* Slip: the fingerprint of every part counts as acknowledged. *)
AckedWhole(c, old) == [old EXCEPT !.failing = FALSE, !.acked = ci[c].fingerprints,
                                  !.resend = ci[c].reply]

(* A success acknowledges the parts that were included, and what the reply *)
(* asks for replaces what an earlier one did.                              *)
Acked(c, old) ==
  [old EXCEPT !.failing = FALSE,
              !.acked = [p \in Parts |-> IF p \in ci[c].included
                                           THEN ci[c].fingerprints[p] ELSE @[p]],
              !.resend = ci[c].reply]

(* RecordCheckin's change to the record, as it is when it is written. *)
Recorded(c) ==
  LET old == CheckinFor(ci[c].host)
  IN  IF ci[c].stage = "failed" THEN [old EXCEPT !.failing = TRUE] ELSE Acked(c, old)

(* A tick has something to say only when a check-in went otherwise than    *)
(* the one recorded before it; what the command says besides is left out.  *)
News(wasFailing, failing) == IF wasFailing = failing THEN 0 ELSE IF failing THEN 1 ELSE -1

ToTell(c, wasFailing) ==
  LET news == News(wasFailing, ci[c].stage = "failed")
  IN  IF news = 0 THEN Idle
      ELSE [Idle EXCEPT !.stage = "recorded", !.host = ci[c].host, !.news = news]

(* Slip: the record counts whichever enrolment it is for. *)
AnyWasFailing(c) == record.failing

WasFailing(c) == CheckinFor(ci[c].host).failing

(* Hosts of which a record or a line is lost; no more lines are counted.   *)
Spoil(S) ==
  /\ spoiled' = spoiled \cup S
  /\ told' = [h \in Hosts |-> IF h \in S THEN 0 ELSE told[h]]

(* The outcome is recorded.  An enrolment whose record is replaced by that *)
(* of another has lost it.                                                 *)
Record(c) ==
  /\ ci[c].stage \in {"answered", "failed"}
  /\ record' = Recorded(c)
  /\ ci' = [ci EXCEPT ![c] = ToTell(c, WasFailing(c))]
  /\ Spoil({record.host} \ {None, ci[c].host})
  /\ UNCHANGED <<content, enrolment, appVars, late, boundVars>>

(* The state file can't be locked or read, and then it is not known        *)
(* whether the attempt before failed; or it can't be written.              *)
RecordFails(c) ==
  /\ ci[c].stage \in {"answered", "failed"}
  /\ Fault
  /\ \E wasFailing \in {FALSE, CheckinFor(ci[c].host).failing} :
       ci' = [ci EXCEPT ![c] = ToTell(c, wasFailing)]
  /\ Spoil({ci[c].host})
  /\ UNCHANGED <<hostVars, appVars, late, clock, changes>>

(* The process prints its news: by then another may have recorded the      *)
(* opposite, and have printed that.                                        *)
Tell(c) ==
  /\ ci[c].stage = "recorded"
  /\ told' = IF ci[c].host \in spoiled THEN told
               ELSE [told EXCEPT ![ci[c].host] = @ + ci[c].news]
  /\ ci' = [ci EXCEPT ![c] = Idle]
  /\ UNCHANGED <<hostVars, appVars, late, boundVars, spoiled>>

(* The process is killed; a request that is on its way stays so.           *)
Kill(c) ==
  /\ ci[c].stage \notin {"idle", "recorded"}
  /\ Fault
  /\ late' = late \cup Outlives(c)
  /\ ci' = [ci EXCEPT ![c] = Idle]
  /\ UNCHANGED <<hostVars, appVars, clock, changes, toldVars>>

(* It is killed before it prints, as often as that may happen: what it had *)
(* to print is on record, so no later check-in prints it either.           *)
KillUntold(c) ==
  /\ ci[c].stage = "recorded"
  /\ Spoil({ci[c].host})
  /\ ci' = [ci EXCEPT ![c] = Idle]
  /\ UNCHANGED <<hostVars, appVars, late, boundVars>>

Proceed(c) == Build(c) \/ Answer(c) \/ Refuse(c) \/ Record(c) \/ Tell(c)

Environment ==
  \/ \E p \in Parts : ChangePart(p)
  \/ \E h \in Hosts : LoseDatabase(h) \/ DeleteHost(h) \/ Enrol(h) \/ EnrolFails(h)
  \/ Unenrol
  \/ \E r \in late : AnswerLate(r)

Next ==
  \/ Environment
  \/ \E c \in Processes :
       Start(c) \/ Proceed(c) \/ ReadFails(c) \/ GiveUp(c) \/ RecordFails(c)
       \/ Kill(c) \/ KillUntold(c)

Spec == Init /\ [][Next]_vars

(* Cron keeps starting ticks, and what has started goes on.  Nobody makes  *)
(* commands start, faults happen or a late request arrive.                 *)
Fairness ==
  /\ \A c \in Ticks : WF_vars(Start(c))
  /\ \A c \in Processes : WF_vars(Proceed(c))

FairSpec == Spec /\ Fairness

-----------------------------------------------------------------------------
(* Properties.                                                             *)

(* Seen from both ends, overlapping check-ins are the channel of module     *)
(* Reporting: what arrives is what the host once held, for the ID it was   *)
(* read for, and only what arrived under an ID is taken for acknowledged   *)
(* under it, whatever was lost, given up on, answered too late or enrolled *)
(* anew in between (state.go:255, checkin.go:178).                         *)
Carried(x) == {<<x.host, p, x.fingerprints[p]>> : p \in x.included}

(* The status is read when a check-in starts, the rest when it is built. *)
UnderWay(c) ==
  CASE ci[c].stage = "loaded" ->
         {<<ci[c].host, p, ci[c].fingerprints[p]>> : p \in {"status"} \cap Parts}
    [] ci[c].stage = "posted" -> Carried(ci[c])
    [] OTHER -> {}

OnTheWay ==
  (UNION {UnderWay(c) : c \in Processes}) \cup (UNION {Carried(r) : r \in late})

Channel == INSTANCE Reporting WITH
  onTheWay <- OnTheWay, noted <- [host |-> record.host, acked |-> record.acked]

ReportingSpec == Channel!Spec

(* In particular nothing counts as acknowledged for an enrolment that the  *)
(* central app has not received under that very host ID: a part wrongly    *)
(* taken for acknowledged would not be sent.                               *)
AcknowledgedWasReceived ==
  \A p \in Parts : record.acked[p] # None =>
    <<record.host, p, record.acked[p]>> \in received

(* Every start and every end of an outage is told exactly once, by the     *)
(* check-in that put it on record: what has been told, and what check-ins  *)
(* that have recorded their outcome are still to tell, add up to how the   *)
(* record stands, though check-ins overlap between reading, recording and  *)
(* printing (state.go:240, checkin.go:208).  The order of the lines is not *)
(* claimed: check-ins that overlap may print in another order than they    *)
(* recorded.  Exceptions are a host of which a process was killed between  *)
(* recording and printing, and one that lost a record: it could not be     *)
(* saved, or a check-in of another enrolment was recorded over it.         *)
Owing(h, n) == {c \in Processes : ci[c].stage = "recorded" /\ ci[c].host = h /\ ci[c].news = n}

OutageToldOnce ==
  \A h \in Hosts \ spoiled :
    told[h] + Cardinality(Owing(h, 1)) - Cardinality(Owing(h, -1)) =
      IF CheckinFor(h).failing THEN 1 ELSE 0

(* The central app ends up with every part as it is: once parts stop       *)
(* changing and faults stop, a host that stays enrolled and known gets its *)
(* state across, though replies came out of order, an older report was     *)
(* kept for its later sent_at, or the database was lost.  A config that    *)
(* holds secrets in plain text is the exception (checkin.go:232).          *)
Reported(h) ==
  \A p \in Parts : \/ kept[h][p] = content[p]
                   \/ p = "config" /\ content[p] \in PlainText
EventuallyReported ==
  <>[](enrolment # None /\ hosts[enrolment] = "known" => Reported(enrolment))
=============================================================================
