------------------------------ MODULE MCSharing ------------------------------
(* Constants for model-checking Sharing: two jobs with the same source, one *)
(* of them on a repository it lists twice, in four configs the user goes    *)
(* between, and two exec commands at once.                                  *)
EXTENDS Sharing, TLC

CONSTANTS a, b, e1, e2, prod, paths

Symmetry == Permutations({e1, e2})

Unshare == "podman-unshare"

Days == [daily |-> [n \in Ids |-> n], weekly |-> [n \in Ids |-> n \div 2]]

Keep(daily, weekly, unknown) == [daily |-> daily, weekly |-> weekly, latest |-> unknown]
None == Keep(Unset, Unset, Unset)

Job(policy, refs, tags, mode) ==
  [policy |-> policy, own |-> None, refs |-> refs, tags |-> tags, mode |-> mode]

Plain == Job(Keep(1, Unset, 5), <<None>>, {}, ReadDirect)
Twice == [Job(Keep(3, 0, Unset), <<Keep(0, 1, Unset), None>>, {prod}, Unshare) EXCEPT
            !.own = Keep(2, Unset, Unset)]
Elsewhere == Job(Keep(1, Unset, Unset), <<>>, {}, ReadDirect)

(* The repository is a's, then b's too; b takes a's name for a tag, or     *)
(* becomes a direct job without a count to keep.                           *)
Configs ==
  {[j \in {a, b} |-> IF j = a THEN Plain ELSE Elsewhere],
   [j \in {a, b} |-> IF j = a THEN Plain ELSE Twice],
   [j \in {a, b} |-> IF j = a THEN Plain ELSE [Twice EXCEPT !.tags = {a}]],
   [j \in {a, b} |-> IF j = a THEN Plain ELSE Job(Keep(0, Unset, 1), <<None>>, {}, ReadDirect)]}

Command(verb, filters, snapshot, job) ==
  [verb |-> verb, flagFirst |-> FALSE, filters |-> filters, snapshot |-> snapshot,
   sub |-> FALSE, job |-> job, force |-> FALSE]
Sources == [j \in {a, b} |-> paths]

AsRead == readModeTag(Unshare)

CommandsGiven ==
  {Command("forget", {}, 1, NoJob), Command("forget", {{a}}, Latest, NoJob),
   [Command("forget", {}, Latest, NoJob) EXCEPT !.force = TRUE],
   [Command("forget", {}, Latest, NoJob) EXCEPT !.flagFirst = TRUE],
   Command("tag", {{b}}, 2, NoJob), Command("other", {}, Latest, NoJob),
   Command("restore", {}, 1, b), Command("restore", {}, 2, b), Command("restore", {}, 2, NoJob),
   Command("restore", {}, Latest, b), Command("restore", {{b}, {a, AsRead}}, Latest, b),
   Command("restore", {{AsRead}}, Latest, b),
   [Command("restore", {}, Latest, b) EXCEPT !.sub = TRUE],
   [Command("restore", {}, Latest, b) EXCEPT !.flagFirst = TRUE]}
=============================================================================
