----------------------------- MODULE StateStore -----------------------------
(***************************************************************************)
(* What internal/state promises its callers: every update either takes     *)
(* effect at one instant, on whatever the store holds then, or reports an  *)
(* error and has no effect.  No update undoes another, unless that is      *)
(* among the things it may do (see Changes), and one whose process is      *)
(* killed may simply never happen.                                         *)
(***************************************************************************)
CONSTANTS
  Updates,        \* the updates anybody may make, each once
  Initial,        \* the contents before the first
  Changes(_, _)   \* Changes(u, c): what update u may make of contents c

VARIABLES
  contents,
  result          \* result[u]: what u has reported

Results == {"pending", "applied", "failed"}

Init ==
  /\ contents = Initial
  /\ result = [u \in Updates |-> "pending"]

Apply(u) ==
  /\ result[u] = "pending"
  /\ contents' \in Changes(u, contents)
  /\ result' = [result EXCEPT ![u] = "applied"]

Reject(u) ==
  /\ result[u] = "pending"
  /\ result' = [result EXCEPT ![u] = "failed"]
  /\ UNCHANGED contents

Next == \E u \in Updates : Apply(u) \/ Reject(u)

Spec == Init /\ [][Next]_<<contents, result>>
=============================================================================
