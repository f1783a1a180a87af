-------------------------------- MODULE Relock --------------------------------
(***************************************************************************)
(* Locked values and the keys that open them: `secret keygen`, `secret     *)
(* lock` and `secret relock`, and the part of `enrol` that creates the     *)
(* host key, takes on recovery keys and offers to relock                   *)
(* (cmd/rest-o-matic/secret.go and enrol.go, internal/secrets,             *)
(* internal/config/locked.go).                                             *)
(*                                                                         *)
(* Three files are shared, and nothing locks any of them: the host key     *)
(* file, the recovery-recipients file beside it, and the config file.  A   *)
(* command reads them one after another, and a relock replaces the config  *)
(* whole, from what it read.  Commands overlap, fail and are killed, and   *)
(* the user edits all three files in between.                              *)
(*                                                                         *)
(* A locked value stands for a plain one and for the keys that open it.    *)
(* The rest of the config's text is told apart by its version: the number  *)
(* of the user's edit it comes from.                                       *)
(***************************************************************************)
EXTENDS Integers, Sequences, FiniteSets

CONSTANTS
  Processes,    \* the commands' processes
  Values,       \* the distinct locked values the config's repositories may use
  Plain,        \* what locked values stand for
  HostKeys,     \* keys for hosts; their private halves are in key files
  RecoveryKeys, \* keys whose public halves are listed in recovery-recipients
  MaxEdits      \* bound on what the user does to the three files

User == "user"

ASSUME RelockAssumption ==
  /\ User \notin Processes
  /\ HostKeys \cap RecoveryKeys = {}
  /\ MaxEdits \in Nat

Keys == HostKeys \cup RecoveryKeys

VARIABLES
  keyFile,    \* the host key file
  created,    \* the host keys created so far, here or for this host
  recipients, \* the keys the recovery-recipients file lists
  config,     \* the config file
  temps,      \* processes whose temporary config file exists
  at,         \* at[p]: where the command of process p is
  mem,        \* mem[p]: what it has read
  edits,      \* how many edits the user has made
  written     \* history: the config as of each of the user's edits of it

files == <<keyFile, created, recipients, config, temps>>
vars == <<files, at, mem, edits, written>>

Absent == [plain |-> {}, to |-> {}]
Locked == [plain : {{s} : s \in Plain}, to : SUBSET Keys]

(* parses is whether LockedValues can read the file, and folded are the    *)
(* values written over several lines, whose text it does not find there.   *)
Configs == [version : 0 .. MaxEdits, parses : BOOLEAN, folded : SUBSET Values,
            values : [Values -> Locked \cup {Absent}]]

(* An age identity file: values are locked for the first key, and any of   *)
(* them opens.  While Generate writes it, it holds no key anyone can read. *)
Identities == {<<k>> : k \in Keys} \cup {<<k, l>> : k, l \in Keys}
KeyFiles == [by : Processes \cup {User}, whole : BOOLEAN, keys : Identities]
NoKeyFile == [by |-> User, whole |-> FALSE, keys |-> <<>>]

Commands == {"keygen", "lock", "relock", "dry-run", "enrol"}
Stages == {"idle", "start", "make", "fill", "again", "request", "list", "offer",
           "recovery", "config", "write", "rename", "printed", "done"}

(* host is the host key and opener the key values are opened with, before  *)
(* LoadHostKey that of --with-key; <<>> is none.                           *)
Memory == [cmd : Commands \cup {"none"}, host : Identities \cup {<<>>},
           opener : Identities \cup {<<>>}, recovery : SUBSET Keys,
           offered : SUBSET RecoveryKeys, added : BOOLEAN, copy : Configs]

EmptyConfig == [version |-> 0, parses |-> TRUE, folded |-> {},
                values |-> [v \in Values |-> Absent]]
NoMemory == [cmd |-> "none", host |-> <<>>, opener |-> <<>>, recovery |-> {},
             offered |-> {}, added |-> FALSE, copy |-> EmptyConfig]

(* A command that is to relock has a host key to lock the values for. *)
HasHostKey(p) ==
  \/ at[p] \in {"request", "list", "offer", "config", "write", "rename"}
  \/ at[p] = "recovery" /\ mem[p].cmd # "lock"
  => mem[p].host # <<>>

TypeOK ==
  /\ keyFile \in KeyFiles \cup {NoKeyFile}
  /\ created \subseteq HostKeys
  /\ recipients \subseteq RecoveryKeys
  /\ config \in Configs
  /\ temps \subseteq Processes
  /\ at \in [Processes -> Stages]
  /\ mem \in [Processes -> Memory]
  /\ \A p \in Processes : HasHostKey(p)
  /\ edits \in 0 .. MaxEdits
  /\ written \in Seq(Configs)

(* A host with a key and values locked for it and maybe for other hosts,   *)
(* whose key this host may get; or a host with neither yet.                *)
Init ==
  /\ \/ keyFile = NoKeyFile /\ created = {} /\ config = EmptyConfig
     \/ \E k \in HostKeys, plain \in [Values -> Plain] :
          /\ keyFile = [by |-> User, whole |-> TRUE, keys |-> <<k>>]
          /\ created \in {K \in SUBSET HostKeys : k \in K}
          /\ config = [EmptyConfig EXCEPT !.values =
                         [v \in Values |-> [plain |-> {plain[v]}, to |-> created]]]
  /\ recipients = {}
  /\ temps = {}
  /\ at = [p \in Processes |-> "idle"]
  /\ mem = [p \in Processes |-> NoMemory]
  /\ edits = 0
  /\ written = <<config>>

-----------------------------------------------------------------------------
(* Keys and values.                                                        *)

KeysOf(ids) == {ids[i] : i \in DOMAIN ids}
Recipient(ids) == {ids[1]}

(* LockedValues of a config, and Unlock with a key file. *)
Used(c) == {v \in Values : c.values[v] # Absent}
Unlocks(ids, value) == KeysOf(ids) \cap value.to # {}

(* Slip: values this host's key does not open are left as they are. *)
RelockedIfOwn(c, host, recovery) ==
  [c EXCEPT !.values = [v \in Values |->
     IF v \in Used(c) /\ Unlocks(host, c.values[v])
     THEN [plain |-> c.values[v].plain, to |-> Recipient(host) \cup recovery]
     ELSE c.values[v]]]

(* The loop of relockConfig over the values, with its final check: what    *)
(* was opened is locked again for the host key and the recovery keys.      *)
Relocked(c, host, recovery) ==
  [c EXCEPT !.values = [v \in Values |->
     IF v \in Used(c) THEN [plain |-> c.values[v].plain, to |-> Recipient(host) \cup recovery]
     ELSE Absent]]

Goto(p, stage) == at' = [at EXCEPT ![p] = stage]
Notes(p, m) == mem' = [mem EXCEPT ![p] = m]
Proceeds(p, stage, m) == Goto(p, stage) /\ Notes(p, m)
Ends(p) == Proceeds(p, "done", NoMemory)

-----------------------------------------------------------------------------
(* The host key: secrets.Generate and LoadHostKey.                         *)

(* A command is given; relock may name a key file to open the values with. *)
Start(p) ==
  /\ at[p] = "idle"
  /\ \E c \in Commands, with \in {<<>>} \cup {<<k>> : k \in Keys} :
       /\ with # <<>> => c \in {"relock", "dry-run"}
       /\ Proceeds(p, IF c = "keygen" THEN "make" ELSE "start",
                   [mem[p] EXCEPT !.cmd = c, !.opener = with])
  /\ UNCHANGED <<files, edits, written>>

Holding(p) ==
  [mem[p] EXCEPT !.host = keyFile.keys,
                 !.opener = IF @ = <<>> THEN keyFile.keys ELSE @]

(* A file that is not a whole identity file is refused by all of them. *)
LoadHostKey(p) ==
  /\ at[p] = "start" /\ keyFile.whole
  /\ Proceeds(p, IF mem[p].cmd = "enrol" THEN "request" ELSE "recovery", Holding(p))
  /\ UNCHANGED <<files, edits, written>>

(* Slip: relock goes on without a key, as lock does. *)
NoHostKeyGoesOn(p) ==
  /\ at[p] = "start" /\ keyFile = NoKeyFile
  /\ Proceeds(p, IF mem[p].cmd = "enrol" THEN "make" ELSE "recovery", mem[p])
  /\ UNCHANGED <<files, edits, written>>

(* Without a key file, lock goes on, enrol creates one and relock ends. *)
NoHostKey(p) ==
  /\ at[p] = "start" /\ keyFile = NoKeyFile
  /\ CASE mem[p].cmd = "lock" -> Proceeds(p, "recovery", mem[p])
       [] mem[p].cmd = "enrol" -> Proceeds(p, "make", mem[p])
       [] OTHER -> Ends(p)
  /\ UNCHANGED <<files, edits, written>>

(* Slip: without O_EXCL. *)
CanCreateOver == TRUE

(* O_EXCL: a file that exists is left unchanged, whatever it holds. *)
CanCreate == keyFile = NoKeyFile

Create(p) ==
  /\ at[p] = "make"
  /\ IF CanCreate
     THEN \E k \in HostKeys \ created :
            /\ keyFile' = [by |-> p, whole |-> FALSE, keys |-> <<k>>]
            /\ created' = created \cup {k}
            /\ Proceeds(p, "fill", mem[p])
     ELSE Ends(p) /\ UNCHANGED <<keyFile, created>>
  /\ UNCHANGED <<recipients, config, temps, edits, written>>

(* The key is written to the file created, which may no longer be there. *)
OwnKeyFile(p) == keyFile.by = p /\ ~keyFile.whole

Fill(p) ==
  /\ at[p] = "fill"
  /\ keyFile' = IF OwnKeyFile(p) THEN [keyFile EXCEPT !.whole = TRUE] ELSE keyFile
  /\ IF mem[p].cmd = "enrol" THEN Proceeds(p, "again", mem[p]) ELSE Ends(p)
  /\ UNCHANGED <<created, recipients, config, temps, edits, written>>

(* When it cannot be written, os.Remove takes away whatever is there now. *)
FillFails(p) ==
  /\ at[p] = "fill"
  /\ keyFile' = NoKeyFile
  /\ Ends(p)
  /\ UNCHANGED <<created, recipients, config, temps, edits, written>>

(* enrol loads the key it created; that there is none is an error now. *)
LoadCreated(p) ==
  /\ at[p] = "again" /\ keyFile.whole
  /\ Proceeds(p, "request", Holding(p))
  /\ UNCHANGED <<files, edits, written>>

-----------------------------------------------------------------------------
(* enrol: recovery keys offered by the central app.                        *)

Enrolled(p) ==
  /\ at[p] = "request"
  /\ \E R \in SUBSET RecoveryKeys : Proceeds(p, "list", [mem[p] EXCEPT !.offered = R])
  /\ UNCHANGED <<files, edits, written>>

(* listedRecipients is read once, before the first question. *)
ListedRecipients(p) ==
  /\ at[p] = "list"
  /\ Proceeds(p, "offer", [mem[p] EXCEPT !.offered = @ \ recipients])
  /\ UNCHANGED <<files, edits, written>>

AppendRecipient(p) ==
  /\ at[p] = "offer"
  /\ \E r \in mem[p].offered :
       /\ recipients' = recipients \cup {r}
       /\ Notes(p, [mem[p] EXCEPT !.offered = @ \ {r}, !.added = TRUE])
  /\ UNCHANGED <<keyFile, created, config, temps, at, edits, written>>

DeclineRecipient(p) ==
  /\ at[p] = "offer"
  /\ \E r \in mem[p].offered : Notes(p, [mem[p] EXCEPT !.offered = @ \ {r}])
  /\ UNCHANGED <<files, at, edits, written>>

(* offerRelock, confirmed: its relock uses the key loaded before the       *)
(* request was sent.  When it is declined, enrol ends (Quit).              *)
OfferRelock(p) ==
  /\ at[p] = "offer" /\ mem[p].offered = {}
  /\ IF mem[p].added /\ config.parses /\ Used(config) # {}
     THEN Proceeds(p, "recovery", mem[p]) ELSE Ends(p)
  /\ UNCHANGED <<files, edits, written>>

-----------------------------------------------------------------------------
(* relock and lock: reading the recipients, then the config.               *)

(* lock adds the key of a --recipient flag, and needs at least one key. *)
Extra(p) == IF mem[p].cmd = "lock" THEN {{}} \cup {{k} : k \in Keys} ELSE {{}}

LoadRecipients(p) ==
  /\ at[p] = "recovery"
  /\ \E extra \in Extra(p) :
       LET m == [mem[p] EXCEPT !.recovery = recipients \cup extra] IN
       CASE m.cmd # "lock" -> Proceeds(p, "config", m)
         [] m.cmd = "lock" /\ m.host = <<>> /\ m.recovery = {} -> Ends(p)
         [] OTHER -> Proceeds(p, "printed", m)
  /\ UNCHANGED <<files, edits, written>>

(* A value that cannot be opened or is not found in the text as it is      *)
(* written leaves the config alone.                                        *)
Relockable(c, opener) ==
  /\ c.parses /\ Used(c) # {}
  /\ \A v \in Used(c) : Unlocks(opener, c.values[v])
  /\ Used(c) \cap c.folded = {}

ReadConfig(p) ==
  /\ at[p] = "config"
  /\ IF Relockable(config, mem[p].opener) /\ mem[p].cmd # "dry-run"
     THEN Proceeds(p, "write", [mem[p] EXCEPT !.copy = config]) ELSE Ends(p)
  /\ UNCHANGED <<files, edits, written>>

(* replaceFile: a temporary file, renamed over the config. *)
WriteTemp(p) ==
  /\ at[p] = "write"
  /\ temps' = temps \cup {p}
  /\ Proceeds(p, "rename", mem[p])
  /\ UNCHANGED <<keyFile, created, recipients, config, edits, written>>

Rename(p) ==
  /\ at[p] = "rename"
  /\ config' = Relocked(mem[p].copy, mem[p].host, mem[p].recovery)
  /\ temps' = temps \ {p}
  /\ Ends(p)
  /\ UNCHANGED <<keyFile, created, recipients, edits, written>>

(* Any read, write or request fails, a question is answered no, or the     *)
(* command is interrupted: it ends as it is.                               *)
Quit(p) ==
  /\ at[p] \notin {"idle", "fill", "done"}
  /\ temps' = temps \ {p}
  /\ Ends(p)
  /\ UNCHANGED <<keyFile, created, recipients, config, edits, written>>

(* Killed, it leaves a torn key file or a temporary file behind. *)
Kill(p) ==
  /\ at[p] \in {"fill", "rename"}
  /\ Ends(p)
  /\ UNCHANGED <<files, edits, written>>

-----------------------------------------------------------------------------
(* The user, who may take any time over it.                                *)

Edits == edits < MaxEdits /\ edits' = edits + 1

(* An edit of the config starts from what the file holds as it is saved. *)
Saves(c) ==
  LET saved == [c EXCEPT !.version = Len(written)]
  IN config' = saved /\ written' = Append(written, saved)

EditConfig ==
  /\ Edits
  /\ \/ \E parses \in BOOLEAN : Saves([config EXCEPT !.parses = parses])
     \/ \E v \in Used(config) :
          \/ Saves([config EXCEPT !.values[v] = Absent, !.folded = @ \ {v}])
          \/ Saves([config EXCEPT !.folded = IF v \in @ THEN @ \ {v} ELSE @ \cup {v}])
  /\ UNCHANGED <<keyFile, created, recipients, temps, at, mem>>

(* What lock printed is pasted into the config. *)
Paste(p) ==
  /\ at[p] = "printed" /\ Edits
  /\ \E v \in Values, s \in Plain :
       Saves([config EXCEPT !.values[v] =
                [plain |-> {s}, to |-> mem[p].recovery \cup
                   (IF mem[p].host = <<>> THEN {} ELSE Recipient(mem[p].host))],
              !.folded = @ \ {v}])
  /\ Ends(p)
  /\ UNCHANGED <<keyFile, created, recipients, temps>>

(* A key file is taken away, or one is put there: another host's, an old   *)
(* one, or a new one followed by an old one.                               *)
ReplaceKey ==
  /\ Edits
  /\ keyFile' \in {NoKeyFile} \cup
       {[by |-> User, whole |-> TRUE, keys |-> ids] :
          ids \in {i \in Identities : KeysOf(i) \subseteq created}}
  /\ UNCHANGED <<created, recipients, config, temps, at, mem, written>>

EditRecipients ==
  /\ Edits
  /\ recipients' \in SUBSET RecoveryKeys
  /\ UNCHANGED <<keyFile, created, config, temps, at, mem, written>>

Command(p) ==
  \/ Start(p) \/ LoadHostKey(p) \/ NoHostKey(p)
  \/ Create(p) \/ Fill(p) \/ FillFails(p) \/ LoadCreated(p)
  \/ Enrolled(p) \/ ListedRecipients(p) \/ AppendRecipient(p) \/ DeclineRecipient(p)
  \/ OfferRelock(p)
  \/ LoadRecipients(p) \/ ReadConfig(p) \/ WriteTemp(p) \/ Rename(p)
  \/ Quit(p) \/ Kill(p)

Next ==
  \/ \E p \in Processes : Command(p) \/ Paste(p)
  \/ EditConfig \/ ReplaceKey \/ EditRecipients

Spec == Init /\ [][Next]_vars

-----------------------------------------------------------------------------
(* Properties.                                                             *)

Meaning(c) == [version |-> c.version, parses |-> c.parses, folded |-> c.folded,
               plain |-> [v \in Values |-> c.values[v].plain]]

(* Whatever overlaps, fails or is killed, the config file always is one    *)
(* that the user wrote, with all of its locked values as they were written *)
(* or all of them locked for the same keys: relock changes nothing else,   *)
(* and never relocks some of the values only (relockConfig, replaceFile).  *)
WholeConfig ==
  LET wrote == written[config.version + 1]
  IN /\ Meaning(config) = Meaning(wrote)
     /\ \/ config = wrote
        \/ \E to \in SUBSET Keys : \A v \in Used(config) : config.values[v].to = to

(* Its copy of the config is of another edit than the file's now. *)
OtherEdit(p) == at[p] = "rename" /\ mem[p].copy.version # config.version

OpensHere(v) == v \in Used(config) /\ keyFile.whole /\ Unlocks(keyFile.keys, config.values[v])

(* What a process goes by no longer is what the files say. *)
StaleHost(p) == at[p] = "rename" /\ mem[p].host[1] \notin KeysOf(keyFile.keys)
StaleRecovery(p, r) == at[p] = "rename" /\ r \notin mem[p].recovery
RemovesOthers(p) == at[p] = "fill" /\ ~OwnKeyFile(p)

(* A value this host can open, and each listed recovery key can, stays     *)
(* open to them while commands run, whatever fails and is killed.  Three   *)
(* overlaps break it, and only these: a relock over an edit of the config  *)
(* since it read it, or over a relock that lost an edit it has; one whose  *)
(* key was replaced (enrol's is loaded long before) or whose recipients    *)
(* were read before the key was listed; and a keygen that fails after its  *)
(* key file was replaced, and removes the new one.                         *)
StaysOpen ==
  [][edits' = edits =>
       \/ \E p \in Processes : OtherEdit(p) /\ at'[p] = "done"
       \/ /\ \A v \in Values : OpensHere(v) => OpensHere(v)' \/
               \E p \in Processes : \/ StaleHost(p) /\ at'[p] = "done"
                                    \/ RemovesOthers(p) /\ at'[p] = "done"
          /\ \A v \in Used(config), r \in recipients :
               r \in config.values[v].to => r \in config'.values[v].to \/
               \E p \in Processes : StaleRecovery(p, r) /\ at'[p] = "done"]_vars
=============================================================================
