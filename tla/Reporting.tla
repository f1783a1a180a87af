----------------------------- MODULE Reporting -----------------------------
(***************************************************************************)
(* What check-ins promise, whatever they are made of: a host copies its    *)
(* parts to the central app over a channel that loses, repeats, delays and *)
(* reorders, and keeps note of what has got there.  Nothing gets there but *)
(* what the host once held, under the host ID it was sent for and while    *)
(* the app knows that ID; and only what got there under an ID is ever      *)
(* noted for it, a new ID starting from nothing.  Checkin implements it.   *)
(***************************************************************************)
CONSTANTS Hosts, Parts, Contents, None

VARIABLES
  content,    \* content[p]: what part p holds now
  enrolment,  \* the host ID check-ins go by
  hosts,      \* hosts[h]: what host ID h is to the central app
  onTheWay,   \* every <<h, p, v>> read for a report that may yet arrive
  received,   \* every <<h, p, v>> that has arrived
  noted       \* what the host believes has arrived, and under which ID

vars == <<content, enrolment, hosts, onTheWay, received, noted>>

Nothing == [p \in Parts |-> None]

Init ==
  /\ content \in [Parts -> Contents]
  /\ enrolment = None
  /\ hosts = [h \in Hosts |-> "unused"]
  /\ onTheWay = {} /\ received = {}
  /\ noted = [host |-> None, acked |-> Nothing]

Change(p) ==
  /\ \E v \in Contents : content' = [content EXCEPT ![p] = v]
  /\ UNCHANGED <<enrolment, hosts, onTheWay, received, noted>>

(* The app gives out an ID once only; the host may fail to save it. *)
Enrol(h) ==
  /\ hosts[h] = "unused"
  /\ hosts' = [hosts EXCEPT ![h] = "known"]
  /\ enrolment' \in {h, enrolment}
  /\ UNCHANGED <<content, onTheWay, received, noted>>

Unenrol ==
  /\ enrolment' = None
  /\ UNCHANGED <<content, hosts, onTheWay, received, noted>>

Delete(h) ==
  /\ hosts[h] = "known"
  /\ hosts' = [hosts EXCEPT ![h] = "deleted"]
  /\ UNCHANGED <<content, enrolment, onTheWay, received, noted>>

(* Parts are read as they are now, for an ID the host has been given; what *)
(* is not needed after all is dropped.                                     *)
Read(h) ==
  /\ hosts[h] # "unused"
  /\ onTheWay' \subseteq onTheWay \cup {<<h, p, content[p]>> : p \in Parts}
  /\ UNCHANGED <<content, enrolment, hosts, received, noted>>

Lose ==
  /\ onTheWay' \subseteq onTheWay
  /\ UNCHANGED <<content, enrolment, hosts, received, noted>>

Arrive(h) ==
  /\ hosts[h] = "known"
  /\ onTheWay' \subseteq onTheWay
  /\ received \subseteq received'
  /\ received' \subseteq received \cup {m \in onTheWay : m[1] = h}
  /\ UNCHANGED <<content, enrolment, hosts, noted>>

NotedFor(h) == IF noted.host = h THEN noted.acked ELSE Nothing

Note(h) ==
  /\ hosts[h] # "unused"
  /\ noted' \in [host : {h}, acked : [Parts -> Contents \cup {None}]]
  /\ \A p \in Parts :
       \/ noted'.acked[p] = NotedFor(h)[p]
       \/ <<h, p, noted'.acked[p]>> \in received
  /\ UNCHANGED <<content, enrolment, hosts, onTheWay, received>>

Next ==
  \/ \E p \in Parts : Change(p)
  \/ \E h \in Hosts : Enrol(h) \/ Delete(h) \/ Read(h) \/ Arrive(h) \/ Note(h)
  \/ Unenrol \/ Lose

Spec == Init /\ [][Next]_vars
=============================================================================
