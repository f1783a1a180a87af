----------------------------- MODULE RelockProofs -----------------------------
(***************************************************************************)
(* Theorems about Relock, for any number of processes, values, keys and    *)
(* edits.  Every config there is, in the file or in the memory of a relock *)
(* that is about to write one, is a config the user wrote, relocked as a   *)
(* whole or not at all; and a relock that has read the config has a host   *)
(* key to lock it for.                                                     *)
(***************************************************************************)
EXTENDS Relock, SequenceTheorems, TLAPS

Relocking(p) == at[p] \in {"write", "rename"}

(* c is as the user wrote it, but for the keys its values are locked for. *)
Whole(c) ==
  /\ c.version + 1 \in 1 .. Len(written)
  /\ Meaning(c) = Meaning(written[c.version + 1])
  /\ \/ c = written[c.version + 1]
     \/ \E to \in SUBSET Keys : \A v \in Used(c) : c.values[v].to = to

HistoryInv ==
  /\ Len(written) <= edits + 1
  /\ Whole(config)
  /\ \A p \in Processes : Relocking(p) => Whole(mem[p].copy)

Inv == TypeOK /\ HistoryInv

-----------------------------------------------------------------------------
(* What an action does to its own process, and to no other.                *)

LEMMA Proceeding ==
  ASSUME at \in [Processes -> Stages], mem \in [Processes -> Memory],
         NEW p \in Processes, NEW stage \in Stages, NEW m \in Memory,
         Proceeds(p, stage, m)
  PROVE  /\ at' \in [Processes -> Stages] /\ mem' \in [Processes -> Memory]
         /\ at'[p] = stage /\ mem'[p] = m
         /\ \A q \in Processes : q # p => at'[q] = at[q] /\ mem'[q] = mem[q]
BY DEF Proceeds, Goto, Notes

LEMMA EmptyTypes == EmptyConfig \in Configs /\ NoMemory \in Memory
BY RelockAssumption DEF EmptyConfig, NoMemory, Configs, Memory, Locked, Absent

LEMMA Ending ==
  ASSUME at \in [Processes -> Stages], mem \in [Processes -> Memory],
         NEW p \in Processes, Ends(p)
  PROVE  /\ at' \in [Processes -> Stages] /\ mem' \in [Processes -> Memory]
         /\ at'[p] = "done" /\ mem'[p] = NoMemory
         /\ \A q \in Processes : q # p => at'[q] = at[q] /\ mem'[q] = mem[q]
BY Proceeding, EmptyTypes DEF Ends, Stages

(* The keys of a whole key file, as a command remembers them. *)
LEMMA HoldingTypes ==
  ASSUME TypeOK, NEW p \in Processes, keyFile.whole
  PROVE  Holding(p) \in Memory /\ Holding(p).host # <<>>
<1>1. keyFile \in KeyFiles
  BY DEF TypeOK, NoKeyFile
<1>2. keyFile.keys \in Identities /\ keyFile.keys # <<>>
  BY <1>1 DEF KeyFiles, Identities
<1>3. mem[p] \in Memory
  BY DEF TypeOK
<1> QED
  BY <1>2, <1>3 DEF Holding, Memory

(* Relocking changes the keys of the used values and nothing else. *)
LEMMA RelockedWhole ==
  ASSUME NEW c \in Configs, NEW host \in Identities, NEW recovery \in SUBSET Keys
  PROVE  LET n == Relocked(c, host, recovery) IN
         /\ n \in Configs /\ Meaning(n) = Meaning(c) /\ Used(n) = Used(c)
         /\ n.version = c.version
         /\ \A v \in Used(c) : n.values[v].to = Recipient(host) \cup recovery
         /\ Recipient(host) \cup recovery \in SUBSET Keys
<1> DEFINE to == Recipient(host) \cup recovery
           n == Relocked(c, host, recovery)
<1>1. to \in SUBSET Keys
  BY DEF Recipient, Identities
<1>2. \A v \in Values : c.values[v] \in Locked \cup {Absent}
  BY DEF Configs
<1>3. \A v \in Used(c) : [plain |-> c.values[v].plain, to |-> to] \in Locked
  BY <1>1, <1>2 DEF Used, Locked
<1>4. \A v \in Values : n.values[v] =
        IF v \in Used(c) THEN [plain |-> c.values[v].plain, to |-> to] ELSE Absent
  BY DEF Relocked, Configs
<1>5. n \in Configs
  <2>1. n.values \in [Values -> Locked \cup {Absent}]
    BY <1>3 DEF Relocked, Configs
  <2>2. n.version = c.version /\ n.parses = c.parses /\ n.folded = c.folded
    BY DEF Relocked, Configs
  <2> QED
    BY <2>1, <2>2 DEF Relocked, Configs
<1>6. \A v \in Values : n.values[v].plain = c.values[v].plain
  <2> SUFFICES ASSUME NEW v \in Values PROVE n.values[v].plain = c.values[v].plain
    OBVIOUS
  <2>1. CASE v \in Used(c)
    <3>1. n.values[v] = [plain |-> c.values[v].plain, to |-> to]
      BY <1>4, <2>1
    <3> QED
      BY <3>1
  <2>2. CASE v \notin Used(c)
    <3>1. n.values[v] = c.values[v]
      BY <1>4, <2>2 DEF Used
    <3> QED
      BY <3>1
  <2> QED
    BY <2>1, <2>2
<1>7. Meaning(n) = Meaning(c)
  BY <1>6 DEF Meaning, Relocked, Configs
<1>8. \A v \in Used(c) : n.values[v] # Absent
  <2> SUFFICES ASSUME NEW v \in Used(c) PROVE n.values[v] # Absent
    OBVIOUS
  <2>1. n.values[v].plain # {}
    BY <1>3, <1>4 DEF Used, Locked
  <2> QED
    BY <2>1 DEF Absent
<1>9. Used(n) = Used(c)
  BY <1>4, <1>8 DEF Used
<1> QED
  BY <1>1, <1>4, <1>5, <1>7, <1>9 DEF Used, Relocked, Configs

(* Configs with the same meaning use the same values. *)
LEMMA SameUsed ==
  ASSUME NEW c \in Configs, NEW d \in Configs, Meaning(c) = Meaning(d)
  PROVE  Used(c) = Used(d)
<1>1. \A v \in Values : c.values[v].plain = d.values[v].plain
  <2> SUFFICES ASSUME NEW v \in Values PROVE c.values[v].plain = d.values[v].plain
    OBVIOUS
  <2>1. Meaning(c).plain[v] = Meaning(d).plain[v]
    OBVIOUS
  <2> QED
    BY <2>1 DEF Meaning
<1>2. ASSUME NEW e \in Configs, NEW v \in Values
      PROVE  e.values[v] # Absent <=> e.values[v].plain # {}
  <2>1. e.values[v] \in Locked \cup {Absent}
    BY DEF Configs
  <2>2. CASE e.values[v] \in Locked
    <3>1. e.values[v].plain # {}
      BY <2>2 DEF Locked
    <3> QED
      BY <3>1 DEF Absent
  <2>3. CASE e.values[v] = Absent
    BY <2>3 DEF Absent
  <2> QED
    BY <2>1, <2>2, <2>3
<1> QED
  BY <1>1, <1>2 DEF Used

-----------------------------------------------------------------------------
(* Types.                                                                  *)

LEMMA InitTypes == Init => TypeOK
<1> SUFFICES ASSUME Init PROVE TypeOK
  OBVIOUS
<1>1. keyFile \in KeyFiles \cup {NoKeyFile} /\ created \subseteq HostKeys
  <2>1. CASE keyFile = NoKeyFile /\ created = {}
    BY <2>1
  <2>2. ASSUME NEW k \in HostKeys, keyFile = [by |-> User, whole |-> TRUE, keys |-> <<k>>],
               created \in {K \in SUBSET HostKeys : k \in K}
        PROVE  keyFile \in KeyFiles /\ created \subseteq HostKeys
    <3>1. <<k>> \in Identities
      BY DEF Identities, Keys
    <3> QED
      BY <2>2, <3>1 DEF KeyFiles
  <2> QED
    BY <2>1, <2>2 DEF Init
<1>2. config \in Configs
  <2>1. CASE config = EmptyConfig
    BY <2>1, EmptyTypes
  <2>2. CASE config # EmptyConfig
    <3>1. PICK plain \in [Values -> Plain] :
            config = [EmptyConfig EXCEPT !.values =
                        [v \in Values |-> [plain |-> {plain[v]}, to |-> created]]]
      BY <2>2 DEF Init
    <3>2. [v \in Values |-> [plain |-> {plain[v]}, to |-> created]]
            \in [Values -> Locked \cup {Absent}]
      BY <1>1 DEF Locked, Keys
    <3> QED
      BY <3>1, <3>2, EmptyTypes DEF Configs, EmptyConfig
  <2> QED
    BY <2>1, <2>2
<1> QED
  BY <1>1, <1>2, EmptyTypes, RelockAssumption DEF Init, TypeOK, HasHostKey, Stages

(* What the user saves becomes the config and the newest of those written. *)
LEMMA SavingTypes ==
  ASSUME Inv, Edits, NEW c \in Configs, Saves(c)
  PROVE  /\ config' \in Configs /\ config' = [c EXCEPT !.version = Len(written)]
         /\ written' \in Seq(Configs) /\ written' = Append(written, config')
         /\ edits' \in 0 .. MaxEdits
<1>1. Len(written) \in 0 .. MaxEdits
  BY RelockAssumption DEF Inv, TypeOK, HistoryInv, Edits
<1>2. [c EXCEPT !.version = Len(written)] \in Configs
  BY <1>1 DEF Configs
<1>3. edits' \in 0 .. MaxEdits
  BY RelockAssumption DEF Inv, TypeOK, Edits
<1> QED
  BY <1>2, <1>3 DEF Saves, Inv, TypeOK

LEMMA TypeStep == Inv /\ [Next]_vars => TypeOK'
<1> SUFFICES ASSUME Inv, [Next]_vars PROVE TypeOK'
  OBVIOUS
<1> USE DEF TypeOK, Inv, files
<1>0. MaxEdits \in Nat /\ User \notin Processes
  BY RelockAssumption
<1>m. \A p \in Processes : mem[p] \in Memory
  OBVIOUS
<1>c. UNCHANGED <<files, edits, written>> /\ (\A p \in Processes : HasHostKey(p)')
        /\ at' \in [Processes -> Stages] /\ mem' \in [Processes -> Memory] => TypeOK'
  OBVIOUS
<1>1. ASSUME NEW p \in Processes, Start(p) PROVE TypeOK'
  <2>1. PICK c \in Commands, with \in {<<>>} \cup {<<k>> : k \in Keys} :
          Proceeds(p, IF c = "keygen" THEN "make" ELSE "start",
                   [mem[p] EXCEPT !.cmd = c, !.opener = with])
    BY <1>1 DEF Start
  <2>4. with \in Identities \cup {<<>>}
    BY DEF Identities
  <2>2. [mem[p] EXCEPT !.cmd = c, !.opener = with] \in Memory
    BY <1>m, <2>4 DEF Memory
  <2>3. (IF c = "keygen" THEN "make" ELSE "start") \in Stages \ {"request", "list", "offer", "config", "write", "rename", "recovery"}
    BY DEF Stages
  <2> QED
    BY <1>c, <1>1, <2>1, <2>2, <2>3, Proceeding DEF Start, HasHostKey
<1>2. ASSUME NEW p \in Processes, LoadHostKey(p) PROVE TypeOK'
  <2>1. Proceeds(p, IF mem[p].cmd = "enrol" THEN "request" ELSE "recovery", Holding(p))
    BY <1>2 DEF LoadHostKey
  <2>2. (IF mem[p].cmd = "enrol" THEN "request" ELSE "recovery") \in Stages
    BY DEF Stages
  <2>3. Holding(p) \in Memory /\ Holding(p).host # <<>>
    BY <1>2, HoldingTypes DEF LoadHostKey
  <2> QED
    BY <1>c, <1>2, <2>1, <2>2, <2>3, Proceeding DEF LoadHostKey, HasHostKey
<1>3. ASSUME NEW p \in Processes, NoHostKey(p) PROVE TypeOK'
  <2>1. CASE mem[p].cmd = "lock"
    <3>1. Proceeds(p, "recovery", mem[p])
      BY <1>3, <2>1 DEF NoHostKey
    <3> QED
      BY <1>c, <1>m, <1>3, <2>1, <3>1, Proceeding DEF NoHostKey, HasHostKey, Stages
  <2>2. CASE mem[p].cmd = "enrol"
    <3>1. Proceeds(p, "make", mem[p])
      BY <1>3, <2>2 DEF NoHostKey
    <3> QED
      BY <1>c, <1>m, <1>3, <3>1, Proceeding DEF NoHostKey, HasHostKey, Stages
  <2>3. CASE mem[p].cmd \notin {"lock", "enrol"}
    <3>1. Ends(p)
      BY <1>3, <2>3 DEF NoHostKey
    <3> QED
      BY <1>c, <1>3, <3>1, Ending DEF NoHostKey, HasHostKey
  <2> QED
    BY <2>1, <2>2, <2>3
<1>4. ASSUME NEW p \in Processes, Create(p) PROVE TypeOK'
  <2>1. CASE CanCreate
    <3>1. PICK k \in HostKeys : /\ keyFile' = [by |-> p, whole |-> FALSE, keys |-> <<k>>]
                                /\ created' = created \cup {k}
                                /\ Proceeds(p, "fill", mem[p])
      BY <1>4, <2>1 DEF Create
    <3>2. keyFile' \in KeyFiles
      BY <3>1 DEF KeyFiles, Identities, Keys
    <3> QED
      BY <1>4, <1>m, <3>1, <3>2, Proceeding DEF Create, HasHostKey, Stages
  <2>2. CASE ~CanCreate
    BY <1>4, <2>2, Ending DEF Create, HasHostKey
  <2> QED
    BY <2>1, <2>2
<1>5. ASSUME NEW p \in Processes, Fill(p) PROVE TypeOK'
  <2>1. keyFile' \in KeyFiles \cup {NoKeyFile}
    <3>1. CASE OwnKeyFile(p)
      <4>1. keyFile # NoKeyFile
        BY <1>0, <3>1 DEF OwnKeyFile, NoKeyFile
      <4> QED
        BY <1>5, <3>1, <4>1 DEF Fill, KeyFiles
    <3>2. CASE ~OwnKeyFile(p)
      BY <1>5, <3>2 DEF Fill
    <3> QED
      BY <3>1, <3>2
  <2>2. CASE mem[p].cmd = "enrol"
    BY <1>5, <1>m, <2>1, <2>2, Proceeding DEF Fill, HasHostKey, Stages
  <2>3. CASE mem[p].cmd # "enrol"
    BY <1>5, <2>1, <2>3, Ending DEF Fill, HasHostKey
  <2> QED
    BY <2>2, <2>3
<1>6. ASSUME NEW p \in Processes, FillFails(p) PROVE TypeOK'
  BY <1>6, Ending DEF FillFails, HasHostKey
<1>7. ASSUME NEW p \in Processes, LoadCreated(p) PROVE TypeOK'
  <2>1. Holding(p) \in Memory /\ Holding(p).host # <<>>
    BY <1>7, HoldingTypes DEF LoadCreated
  <2> QED
    BY <1>c, <1>7, <2>1, Proceeding DEF LoadCreated, HasHostKey, Stages
<1>8. ASSUME NEW p \in Processes, Enrolled(p) PROVE TypeOK'
  <2>1. PICK R \in SUBSET RecoveryKeys : Proceeds(p, "list", [mem[p] EXCEPT !.offered = R])
    BY <1>8 DEF Enrolled
  <2> DEFINE m == [mem[p] EXCEPT !.offered = R]
  <2>2. m \in Memory /\ m.host # <<>>
    BY <1>m, <1>8 DEF Memory, Enrolled, HasHostKey
  <2> HIDE DEF m
  <2>3. Proceeds(p, "list", m)
    BY <2>1 DEF m
  <2> QED
    BY <1>c, <1>8, <2>2, <2>3, Proceeding DEF Enrolled, HasHostKey, Stages
<1>9. ASSUME NEW p \in Processes, ListedRecipients(p) PROVE TypeOK'
  <2> DEFINE m == [mem[p] EXCEPT !.offered = @ \ recipients]
  <2>2. m \in Memory /\ m.host # <<>>
    BY <1>m, <1>9 DEF Memory, ListedRecipients, HasHostKey
  <2>3. Proceeds(p, "offer", m)
    BY <1>9 DEF ListedRecipients
  <2> HIDE DEF m
  <2> QED
    BY <1>c, <1>9, <2>2, <2>3, Proceeding DEF ListedRecipients, HasHostKey, Stages
<1>10. ASSUME NEW p \in Processes, AppendRecipient(p) PROVE TypeOK'
  <2>1. PICK r \in mem[p].offered :
          /\ recipients' = recipients \cup {r}
          /\ Notes(p, [mem[p] EXCEPT !.offered = @ \ {r}, !.added = TRUE])
    BY <1>10 DEF AppendRecipient
  <2>2. recipients' \subseteq RecoveryKeys
    BY <1>m, <2>1 DEF Memory
  <2>3. [mem[p] EXCEPT !.offered = @ \ {r}, !.added = TRUE] \in Memory
    BY <1>m DEF Memory
  <2>4. mem' \in [Processes -> Memory]
          /\ \A q \in Processes : mem'[q].host = mem[q].host /\ mem'[q].cmd = mem[q].cmd
    BY <1>m, <2>1, <2>3 DEF Notes, Memory
  <2> QED
    BY <1>10, <2>2, <2>4 DEF AppendRecipient, HasHostKey
<1>11. ASSUME NEW p \in Processes, DeclineRecipient(p) PROVE TypeOK'
  <2>1. PICK r \in mem[p].offered : Notes(p, [mem[p] EXCEPT !.offered = @ \ {r}])
    BY <1>11 DEF DeclineRecipient
  <2>3. [mem[p] EXCEPT !.offered = @ \ {r}] \in Memory
    BY <1>m DEF Memory
  <2>4. mem' \in [Processes -> Memory]
          /\ \A q \in Processes : mem'[q].host = mem[q].host /\ mem'[q].cmd = mem[q].cmd
    BY <1>m, <2>1, <2>3 DEF Notes, Memory
  <2> QED
    BY <1>11, <2>4 DEF DeclineRecipient, HasHostKey
<1>12. ASSUME NEW p \in Processes, OfferRelock(p) PROVE TypeOK'
  <2>1. mem[p].host # <<>>
    BY <1>12 DEF OfferRelock, HasHostKey
  <2>2. CASE mem[p].added /\ config.parses /\ Used(config) # {}
    <3>1. Proceeds(p, "recovery", mem[p])
      BY <1>12, <2>2 DEF OfferRelock
    <3> QED
      BY <1>c, <1>m, <1>12, <2>1, <3>1, Proceeding DEF OfferRelock, HasHostKey, Stages
  <2>3. CASE ~(mem[p].added /\ config.parses /\ Used(config) # {})
    <3>1. Ends(p)
      BY <1>12, <2>3 DEF OfferRelock
    <3> QED
      BY <1>c, <1>12, <3>1, Ending DEF OfferRelock, HasHostKey
  <2> QED
    BY <2>2, <2>3
<1>13. ASSUME NEW p \in Processes, LoadRecipients(p) PROVE TypeOK'
  <2>1. PICK extra \in Extra(p) :
          LET m == [mem[p] EXCEPT !.recovery = recipients \cup extra] IN
          CASE m.cmd # "lock" -> Proceeds(p, "config", m)
            [] m.cmd = "lock" /\ m.host = <<>> /\ m.recovery = {} -> Ends(p)
            [] OTHER -> Proceeds(p, "printed", m)
    BY <1>13 DEF LoadRecipients
  <2> DEFINE m == [mem[p] EXCEPT !.recovery = recipients \cup extra]
  <2>2. m \in Memory /\ m.cmd = mem[p].cmd /\ m.host = mem[p].host
    BY <1>m DEF Memory, Extra, Keys
  <2> HIDE DEF m
  <2>3. CASE m.cmd # "lock"
    <3>1. Proceeds(p, "config", m) /\ m.host # <<>>
      BY <1>13, <2>1, <2>2, <2>3 DEF m, LoadRecipients, HasHostKey
    <3> QED
      BY <1>c, <1>13, <2>2, <3>1, Proceeding DEF LoadRecipients, HasHostKey, Stages
  <2>4. CASE m.cmd = "lock"
    <3>1. Ends(p) \/ Proceeds(p, "printed", m)
      BY <2>1, <2>4 DEF m
    <3>2. CASE Ends(p)
      BY <1>c, <1>13, <3>2, Ending DEF LoadRecipients, HasHostKey
    <3>3. CASE Proceeds(p, "printed", m)
      BY <1>c, <1>13, <2>2, <3>3, Proceeding DEF LoadRecipients, HasHostKey, Stages
    <3> QED
      BY <3>1, <3>2, <3>3
  <2> QED
    BY <2>3, <2>4
<1>14. ASSUME NEW p \in Processes, ReadConfig(p) PROVE TypeOK'
  <2> DEFINE m == [mem[p] EXCEPT !.copy = config]
  <2>1. m \in Memory /\ m.host # <<>>
    BY <1>m, <1>14 DEF Memory, ReadConfig, HasHostKey
  <2>2. CASE Relockable(config, mem[p].opener) /\ mem[p].cmd # "dry-run"
    <3>1. Proceeds(p, "write", m)
      BY <1>14, <2>2 DEF ReadConfig
    <3> HIDE DEF m
    <3> QED
      BY <1>c, <1>14, <2>1, <3>1, Proceeding DEF ReadConfig, HasHostKey, Stages
  <2>3. CASE ~(Relockable(config, mem[p].opener) /\ mem[p].cmd # "dry-run")
    <3>1. Ends(p)
      BY <1>14, <2>3 DEF ReadConfig
    <3> QED
      BY <1>c, <1>14, <3>1, Ending DEF ReadConfig, HasHostKey
  <2> QED
    BY <2>2, <2>3
<1>15. ASSUME NEW p \in Processes, WriteTemp(p) PROVE TypeOK'
  <2>1. mem[p].host # <<>>
    BY <1>15 DEF WriteTemp, HasHostKey
  <2> QED
    BY <1>m, <1>15, <2>1, Proceeding DEF WriteTemp, HasHostKey, Stages
<1>16. ASSUME NEW p \in Processes, Rename(p) PROVE TypeOK'
  <2>1. mem[p].copy \in Configs /\ mem[p].host \in Identities /\ mem[p].recovery \in SUBSET Keys
    BY <1>m, <1>16 DEF Memory, Rename, HasHostKey
  <2>2. config' \in Configs
    BY <1>16, <2>1, RelockedWhole DEF Rename
  <2> QED
    BY <1>16, <2>2, Ending DEF Rename, HasHostKey
<1>17. ASSUME NEW p \in Processes, Quit(p) \/ Kill(p) PROVE TypeOK'
  BY <1>17, Ending DEF Quit, Kill, HasHostKey
<1>18. ASSUME NEW p \in Processes, Paste(p) PROVE TypeOK'
  <2> DEFINE c(v, s) == [config EXCEPT !.values[v] =
                [plain |-> {s}, to |-> mem[p].recovery \cup
                   (IF mem[p].host = <<>> THEN {} ELSE Recipient(mem[p].host))],
              !.folded = @ \ {v}]
  <2>1. PICK v \in Values, s \in Plain : Saves(c(v, s))
    BY <1>18 DEF Paste
  <2>2. mem[p].recovery \cup (IF mem[p].host = <<>> THEN {} ELSE Recipient(mem[p].host)) \in SUBSET Keys
    BY <1>m DEF Memory, Recipient, Identities
  <2>3. c(v, s) \in Configs
    BY <2>2 DEF Configs, Locked
  <2> HIDE DEF c
  <2>4. config' \in Configs /\ written' \in Seq(Configs) /\ edits' \in 0 .. MaxEdits
    BY <1>18, <2>1, <2>3, SavingTypes DEF Paste
  <2> QED
    BY <1>18, <2>4, Ending DEF Paste, HasHostKey
<1>19. CASE EditConfig
  <2>1. PICK c \in Configs : Saves(c)
    <3>1. CASE \E parses \in BOOLEAN : Saves([config EXCEPT !.parses = parses])
      BY <3>1 DEF Configs
    <3>2. CASE \E v \in Used(config) :
                 Saves([config EXCEPT !.values[v] = Absent, !.folded = @ \ {v}])
      BY <3>2 DEF Configs
    <3>3. CASE \E v \in Used(config) :
                 Saves([config EXCEPT !.folded = IF v \in @ THEN @ \ {v} ELSE @ \cup {v}])
      BY <3>3 DEF Configs, Used
    <3> QED
      BY <1>19, <3>1, <3>2, <3>3 DEF EditConfig
  <2>2. config' \in Configs /\ written' \in Seq(Configs) /\ edits' \in 0 .. MaxEdits
    BY <1>19, <2>1, SavingTypes DEF EditConfig
  <2> QED
    BY <1>19, <2>2 DEF EditConfig, HasHostKey
<1>20. CASE ReplaceKey
  <2>1. keyFile' \in KeyFiles \cup {NoKeyFile}
    <3>1. CASE keyFile' = NoKeyFile
      BY <3>1
    <3>2. CASE keyFile' # NoKeyFile
      <4>1. PICK ids \in Identities : keyFile' = [by |-> User, whole |-> TRUE, keys |-> ids]
        BY <1>20, <3>2 DEF ReplaceKey
      <4> QED
        BY <4>1 DEF KeyFiles
    <3> QED
      BY <3>1, <3>2
  <2>2. edits' \in 0 .. MaxEdits
    BY <1>0, <1>20 DEF ReplaceKey, Edits
  <2> QED
    BY <1>20, <2>1, <2>2 DEF ReplaceKey, HasHostKey
<1>21. CASE EditRecipients
  BY <1>0, <1>21 DEF EditRecipients, Edits, HasHostKey
<1>22. CASE UNCHANGED vars
  BY <1>22 DEF vars, HasHostKey
<1> QED
  BY <1>1, <1>2, <1>3, <1>4, <1>5, <1>6, <1>7, <1>8, <1>9, <1>10, <1>11, <1>12, <1>13,
     <1>14, <1>15, <1>16, <1>17, <1>18, <1>19, <1>20, <1>21, <1>22 DEF Next, Command

-----------------------------------------------------------------------------
(* The configs the user wrote, and those in the file and in memory.        *)

(* What is whole stays whole while nothing is written, and when the user   *)
(* saves one more.                                                         *)
LEMMA WholeKept ==
  ASSUME written \in Seq(Configs), NEW c, Whole(c),
         \/ written' = written
         \/ \E d \in Configs : written' = Append(written, d)
  PROVE  Whole(c)'
<1>1. c.version + 1 \in 1 .. Len(written') /\ written'[c.version + 1] = written[c.version + 1]
  BY DEF Whole
<1> QED
  BY <1>1 DEF Whole

(* A step that writes neither the config nor its history, and after which  *)
(* a process relocks from the copy it had or from the config as it is.     *)
Quiet ==
  /\ UNCHANGED <<config, written>> /\ edits' >= edits
  /\ \A q \in Processes : Relocking(q)' =>
       (Relocking(q) /\ mem'[q].copy = mem[q].copy) \/ mem'[q].copy = config

LEMMA QuietStep == Inv /\ TypeOK' /\ Quiet => HistoryInv'
<1> SUFFICES ASSUME Inv, TypeOK', Quiet PROVE HistoryInv'
  OBVIOUS
<1>1. Whole(config)'
  BY WholeKept DEF Inv, TypeOK, HistoryInv, Quiet, Whole
<1>2. ASSUME NEW q \in Processes, Relocking(q)' PROVE Whole(mem[q].copy)'
  <2>1. Whole(mem'[q].copy)
    BY <1>2 DEF Inv, HistoryInv, Quiet
  <2> QED
    BY <2>1 DEF Quiet, Whole
<1>3. Len(written') <= edits' + 1
  BY RelockAssumption DEF Inv, TypeOK, HistoryInv, Quiet
<1> QED
  BY <1>1, <1>2, <1>3 DEF HistoryInv

LEMMA CommandsQuiet ==
  ASSUME Inv, NEW p \in Processes, Command(p), ~Rename(p)
  PROVE  Quiet
<1> USE DEF Inv, TypeOK, Quiet, Relocking, files
<1>m. mem[p] \in Memory
  OBVIOUS
<1>0. edits >= edits
  BY RelockAssumption
<1>e. ASSUME Ends(p) PROVE \A q \in Processes : Relocking(q)' =>
        (Relocking(q) /\ mem'[q].copy = mem[q].copy) \/ mem'[q].copy = config
  BY <1>e, Ending
<1>n. ASSUME NEW stage \in Stages \ {"write", "rename"}, NEW m \in Memory, Proceeds(p, stage, m)
      PROVE  \A q \in Processes : Relocking(q)' =>
        (Relocking(q) /\ mem'[q].copy = mem[q].copy) \/ mem'[q].copy = config
  BY <1>n, Proceeding
<1>o. ASSUME Notes(p, mem'[p]), at' = at, at[p] = "offer"
      PROVE  \A q \in Processes : Relocking(q)' =>
        (Relocking(q) /\ mem'[q].copy = mem[q].copy) \/ mem'[q].copy = config
  BY <1>o DEF Notes
<1>1. CASE Start(p)
  <2>1. PICK c \in Commands, with \in {<<>>} \cup {<<k>> : k \in Keys} :
          Proceeds(p, IF c = "keygen" THEN "make" ELSE "start",
                   [mem[p] EXCEPT !.cmd = c, !.opener = with])
    BY <1>1 DEF Start
  <2>2. with \in Identities \cup {<<>>}
    BY DEF Identities
  <2>3. [mem[p] EXCEPT !.cmd = c, !.opener = with] \in Memory
    BY <1>m, <2>2 DEF Memory
  <2>4. (IF c = "keygen" THEN "make" ELSE "start") \in Stages \ {"write", "rename"}
    BY DEF Stages
  <2> QED
    BY <1>0, <1>1, <1>n, <2>1, <2>3, <2>4 DEF Start
<1>2. CASE LoadHostKey(p)
  <2>1. Holding(p) \in Memory
    BY <1>2, HoldingTypes DEF LoadHostKey
  <2>2. (IF mem[p].cmd = "enrol" THEN "request" ELSE "recovery") \in Stages \ {"write", "rename"}
    BY DEF Stages
  <2> QED
    BY <1>0, <1>2, <1>n, <2>1, <2>2 DEF LoadHostKey
<1>3. CASE NoHostKey(p)
  <2>1. Ends(p) \/ Proceeds(p, "recovery", mem[p]) \/ Proceeds(p, "make", mem[p])
    BY <1>3 DEF NoHostKey
  <2> QED
    BY <1>0, <1>3, <1>e, <1>n, <1>m, <2>1 DEF NoHostKey, Stages
<1>4. CASE Create(p)
  <2>1. Ends(p) \/ Proceeds(p, "fill", mem[p])
    BY <1>4 DEF Create
  <2> QED
    BY <1>0, <1>4, <1>e, <1>n, <1>m, <2>1 DEF Create, Stages
<1>5. CASE Fill(p) \/ FillFails(p)
  <2>1. Ends(p) \/ Proceeds(p, "again", mem[p])
    BY <1>5 DEF Fill, FillFails
  <2> QED
    BY <1>0, <1>5, <1>e, <1>n, <1>m, <2>1 DEF Fill, FillFails, Stages
<1>7. CASE LoadCreated(p)
  <2>1. Holding(p) \in Memory
    BY <1>7, HoldingTypes DEF LoadCreated
  <2> QED
    BY <1>0, <1>7, <1>n, <2>1 DEF LoadCreated, Stages
<1>8. CASE Enrolled(p) \/ ListedRecipients(p)
  <2>1. PICK R \in SUBSET RecoveryKeys, stage \in {"list", "offer"} :
          Proceeds(p, stage, [mem[p] EXCEPT !.offered = R])
    <3>1. CASE Enrolled(p)
      BY <3>1 DEF Enrolled
    <3>2. CASE ListedRecipients(p)
      <4>1. mem[p].offered \ recipients \in SUBSET RecoveryKeys
        BY <1>m DEF Memory
      <4> QED
        BY <3>2, <4>1 DEF ListedRecipients
    <3> QED
      BY <1>8, <3>1, <3>2
  <2>2. [mem[p] EXCEPT !.offered = R] \in Memory
    BY <1>m DEF Memory
  <2>3. stage \in Stages \ {"write", "rename"}
    BY DEF Stages
  <2> QED
    BY <1>0, <1>8, <1>n, <2>1, <2>2, <2>3 DEF Enrolled, ListedRecipients
<1>9. CASE AppendRecipient(p) \/ DeclineRecipient(p)
  <2>1. \A q \in Processes : q # p => mem'[q] = mem[q]
    BY <1>9 DEF AppendRecipient, DeclineRecipient, Notes
  <2>2. at' = at /\ at[p] = "offer" /\ UNCHANGED <<config, written, edits>>
    BY <1>9 DEF AppendRecipient, DeclineRecipient
  <2> QED
    BY <1>0, <2>1, <2>2
<1>11. CASE OfferRelock(p)
  <2>1. Ends(p) \/ Proceeds(p, "recovery", mem[p])
    BY <1>11 DEF OfferRelock
  <2> QED
    BY <1>0, <1>11, <1>e, <1>n, <1>m, <2>1 DEF OfferRelock, Stages
<1>12. CASE LoadRecipients(p)
  <2>1. PICK extra \in Extra(p) :
          \/ Ends(p)
          \/ Proceeds(p, "config", [mem[p] EXCEPT !.recovery = recipients \cup extra])
          \/ Proceeds(p, "printed", [mem[p] EXCEPT !.recovery = recipients \cup extra])
    BY <1>12 DEF LoadRecipients
  <2>2. [mem[p] EXCEPT !.recovery = recipients \cup extra] \in Memory
    <3> DEFINE recovery == recipients \cup extra
    <3>1. extra \subseteq Keys
      BY DEF Extra
    <3>2. recipients \subseteq Keys
      BY DEF Inv, TypeOK, Keys
    <3>3. recovery \subseteq Keys
      BY <3>1, <3>2
    <3> HIDE DEF recovery
    <3>4. [mem[p] EXCEPT !.recovery = recovery] \in Memory
      BY <1>m, <3>3 DEF Memory
    <3> QED
      BY <3>4 DEF recovery
  <2> QED
    BY <1>0, <1>12, <1>e, <1>n, <2>1, <2>2 DEF LoadRecipients, Stages
<1>13. CASE ReadConfig(p)
  <2>1. CASE Ends(p)
    BY <1>0, <1>13, <1>e, <2>1 DEF ReadConfig
  <2>2. CASE Proceeds(p, "write", [mem[p] EXCEPT !.copy = config])
    <3>1. [mem[p] EXCEPT !.copy = config] \in Memory
      BY <1>m DEF Memory
    <3>2. mem'[p].copy = config /\ \A q \in Processes : q # p => at'[q] = at[q] /\ mem'[q] = mem[q]
      BY <1>m, <2>2, <3>1 DEF Proceeds, Goto, Notes, Memory
    <3> QED
      BY <1>0, <1>13, <3>2 DEF ReadConfig
  <2> QED
    BY <1>13, <2>1, <2>2 DEF ReadConfig
<1>14. CASE WriteTemp(p)
  <2>1. Proceeds(p, "rename", mem[p]) /\ at[p] = "write" /\ UNCHANGED <<config, written, edits>>
    BY <1>14 DEF WriteTemp
  <2>2. mem'[p] = mem[p] /\ \A q \in Processes : q # p => at'[q] = at[q] /\ mem'[q] = mem[q]
    BY <1>m, <2>1, Proceeding DEF Stages
  <2> QED
    BY <1>0, <2>1, <2>2
<1>15. CASE Quit(p) \/ Kill(p)
  BY <1>0, <1>15, <1>e DEF Quit, Kill
<1> QED
  BY <1>1, <1>2, <1>3, <1>4, <1>5, <1>7, <1>8, <1>9, <1>11, <1>12, <1>13, <1>14, <1>15 DEF Command

LEMMA HistoryStep == Inv /\ TypeOK' /\ [Next]_vars => HistoryInv'
<1> SUFFICES ASSUME Inv, TypeOK', [Next]_vars PROVE HistoryInv'
  OBVIOUS
<1>1. ASSUME NEW p \in Processes, Command(p), ~Rename(p) PROVE HistoryInv'
  BY <1>1, CommandsQuiet, QuietStep
<1>2. ASSUME NEW p \in Processes, Rename(p) PROVE HistoryInv'
  <2>1. mem[p] \in Memory /\ mem[p].host # <<>>
    BY <1>2 DEF Inv, TypeOK, Rename, HasHostKey
  <2> DEFINE c == mem[p].copy
             n == Relocked(c, mem[p].host, mem[p].recovery)
             to == Recipient(mem[p].host) \cup mem[p].recovery
  <2>2. c \in Configs /\ mem[p].host \in Identities /\ mem[p].recovery \in SUBSET Keys
    BY <2>1 DEF Memory
  <2>3. Whole(c)
    BY <1>2 DEF Inv, HistoryInv, Relocking, Rename
  <2>4. /\ Meaning(n) = Meaning(c) /\ Used(n) = Used(c) /\ n.version = c.version
        /\ \A v \in Used(c) : n.values[v].to = to
        /\ to \in SUBSET Keys
    BY <2>2, RelockedWhole
  <2> HIDE DEF c, n, to
  <2>5. Whole(n)
    <3>1. \E s \in SUBSET Keys : \A v \in Used(n) : n.values[v].to = s
      BY <2>4
    <3>2. n.version + 1 \in 1 .. Len(written) /\ Meaning(n) = Meaning(written[n.version + 1])
      BY <2>3, <2>4 DEF Whole
    <3> QED
      BY <3>1, <3>2 DEF Whole
  <2>6. config' = n /\ UNCHANGED <<written, edits>>
    BY <1>2 DEF Rename, n, c
  <2>7. Whole(config)'
    BY <2>5, <2>6 DEF Whole
  <2>8. \A q \in Processes : Relocking(q)' => Relocking(q) /\ mem'[q] = mem[q]
    BY <1>2, Ending DEF Rename, Inv, TypeOK, Relocking
  <2>9. ASSUME NEW q \in Processes, Relocking(q)' PROVE Whole(mem[q].copy)'
    <3>1. Whole(mem[q].copy) /\ mem'[q].copy = mem[q].copy
      BY <2>8, <2>9 DEF Inv, HistoryInv
    <3> QED
      BY <2>6, <3>1 DEF Whole
  <2> QED
    BY <2>6, <2>7, <2>9 DEF Inv, HistoryInv
<1>3. ASSUME NEW c \in Configs, Edits, Saves(c),
             \A q \in Processes : Relocking(q)' => Relocking(q) /\ mem'[q] = mem[q]
      PROVE  HistoryInv'
  <2>1. /\ config' \in Configs /\ config' = [c EXCEPT !.version = Len(written)]
        /\ written' \in Seq(Configs) /\ written' = Append(written, config')
    BY <1>3, SavingTypes
  <2>2. written \in Seq(Configs) /\ edits \in 0 .. MaxEdits /\ MaxEdits \in Nat
    BY RelockAssumption DEF Inv, TypeOK
  <2>3. config'.version = Len(written) /\ Len(written') = Len(written) + 1
    BY <2>1, <2>2 DEF Configs
  <2>4. written'[config'.version + 1] = config'
    BY <2>1, <2>2, <2>3
  <2>5. Whole(config)'
    BY <2>2, <2>3, <2>4 DEF Whole
  <2>6. ASSUME NEW q \in Processes, Relocking(q)' PROVE Whole(mem[q].copy)'
    <3>1. Whole(mem[q].copy) /\ mem'[q].copy = mem[q].copy
      BY <1>3, <2>6 DEF Inv, HistoryInv
    <3>2. (mem[q].copy).version + 1 \in 1 .. Len(written')
            /\ written'[(mem[q].copy).version + 1] = written[(mem[q].copy).version + 1]
      BY <2>1, <2>2, <2>3, <3>1 DEF Whole
    <3> QED
      BY <3>1, <3>2 DEF Whole
  <2>7. Len(written') <= edits' + 1
    BY <1>3, <2>2, <2>3 DEF Edits, Inv, HistoryInv
  <2> QED
    BY <2>5, <2>6, <2>7 DEF HistoryInv
<1>4. ASSUME NEW p \in Processes, Paste(p) PROVE HistoryInv'
  <2>1. \A q \in Processes : Relocking(q)' => Relocking(q) /\ mem'[q] = mem[q]
    BY <1>4, Ending DEF Paste, Inv, TypeOK, Relocking
  <2> DEFINE c(v, s) == [config EXCEPT !.values[v] =
                [plain |-> {s}, to |-> mem[p].recovery \cup
                   (IF mem[p].host = <<>> THEN {} ELSE Recipient(mem[p].host))],
              !.folded = @ \ {v}]
  <2>2. PICK v \in Values, s \in Plain : Saves(c(v, s))
    BY <1>4 DEF Paste
  <2>3. mem[p].recovery \cup (IF mem[p].host = <<>> THEN {} ELSE Recipient(mem[p].host)) \in SUBSET Keys
    BY DEF Memory, Recipient, Identities, Inv, TypeOK
  <2>4. c(v, s) \in Configs
    BY <2>3 DEF Configs, Locked, Inv, TypeOK
  <2> HIDE DEF c
  <2> QED
    BY <1>3, <1>4, <2>1, <2>2, <2>4 DEF Paste
<1>5. CASE EditConfig
  <2>1. PICK c \in Configs : Saves(c)
    <3>1. CASE \E parses \in BOOLEAN : Saves([config EXCEPT !.parses = parses])
      BY <3>1 DEF Configs, Inv, TypeOK
    <3>2. CASE \E v \in Used(config) :
                 Saves([config EXCEPT !.values[v] = Absent, !.folded = @ \ {v}])
      BY <3>2 DEF Configs, Inv, TypeOK
    <3>3. CASE \E v \in Used(config) :
                 Saves([config EXCEPT !.folded = IF v \in @ THEN @ \ {v} ELSE @ \cup {v}])
      BY <3>3 DEF Configs, Used, Inv, TypeOK
    <3> QED
      BY <1>5, <3>1, <3>2, <3>3 DEF EditConfig
  <2>2. \A q \in Processes : Relocking(q)' => Relocking(q) /\ mem'[q] = mem[q]
    BY <1>5 DEF EditConfig, Relocking
  <2> QED
    BY <1>3, <1>5, <2>1, <2>2 DEF EditConfig
<1>6. CASE ReplaceKey \/ EditRecipients \/ UNCHANGED vars
  <2>1. edits \in Nat
    BY RelockAssumption DEF Inv, TypeOK
  <2>2. Quiet
    BY <1>6, <2>1 DEF ReplaceKey, EditRecipients, Edits, vars, files, Quiet, Relocking
  <2> QED
    BY <2>2, QuietStep
<1> QED
  BY <1>1, <1>2, <1>4, <1>5, <1>6 DEF Next

LEMMA InitHistory == Init => HistoryInv
<1> SUFFICES ASSUME Init PROVE HistoryInv
  OBVIOUS
<1>1. TypeOK
  BY InitTypes
<1>2. config.version = 0
  <2>1. CASE config = EmptyConfig
    BY <2>1 DEF EmptyConfig
  <2>2. CASE config # EmptyConfig
    <3>1. PICK plain \in [Values -> Plain] :
            config = [EmptyConfig EXCEPT !.values =
                        [v \in Values |-> [plain |-> {plain[v]}, to |-> created]]]
      BY <2>2 DEF Init
    <3> QED
      BY <3>1 DEF EmptyConfig
  <2> QED
    BY <2>1, <2>2
<1>3. written = <<config>> /\ edits = 0 /\ \A p \in Processes : ~Relocking(p)
  BY DEF Init, Relocking
<1>4. Len(written) = 1 /\ written[1] = config
  BY <1>3
<1> QED
  BY <1>2, <1>3, <1>4 DEF HistoryInv, Whole

LEMMA Invariance == Spec => []Inv
<1>1. Init => Inv
  BY InitTypes, InitHistory DEF Inv
<1>2. Inv /\ [Next]_vars => Inv'
  BY TypeStep, HistoryStep DEF Inv
<1> QED
  BY <1>1, <1>2, PTL DEF Spec

-----------------------------------------------------------------------------
(* The theorems.                                                           *)

(* Every variable of Relock keeps its type, and whoever gets as far as     *)
(* relocking has a host key (relockCmd, lockTargets, enrolCmd).            *)
THEOREM RelockTypes == Spec => []TypeOK
<1>1. Inv => TypeOK
  BY DEF Inv
<1> QED
  BY <1>1, Invariance, PTL

(* The config file always is one the user wrote, relocked as a whole or    *)
(* not at all, whatever overlaps, fails or is killed (relockConfig,        *)
(* replaceFile).                                                           *)
THEOREM ConfigsWhole == Spec => []WholeConfig
<1>1. Inv => WholeConfig
  BY DEF Inv, HistoryInv, Whole, WholeConfig
<1> QED
  BY <1>1, Invariance, PTL


(* What a host and its recovery keys can open stays open to them while     *)
(* commands run, but for the three overlaps StaysOpen names (relockConfig, *)
(* enrolCmd, secrets.Generate).                                            *)
THEOREM ValuesStayOpen == Spec => StaysOpen
<1> DEFINE
  Host(v) == OpensHere(v) => OpensHere(v)' \/
               \E p \in Processes : \/ StaleHost(p) /\ at'[p] = "done"
                                    \/ RemovesOthers(p) /\ at'[p] = "done"
  Recovery(v, r) == r \in config.values[v].to => r \in config'.values[v].to \/
               \E p \in Processes : StaleRecovery(p, r) /\ at'[p] = "done"
  Step == edits' = edits =>
       \/ \E p \in Processes : OtherEdit(p) /\ at'[p] = "done"
       \/ /\ \A v \in Values : Host(v)
          /\ \A v \in Used(config), r \in recipients : Recovery(v, r)
<1>1. ASSUME Inv, [Next]_vars PROVE Step
  <2> SUFFICES ASSUME edits' = edits PROVE Step
    OBVIOUS
  <2> USE DEF files
  <2>0. edits \in Nat
    BY <1>1, RelockAssumption DEF Inv, TypeOK
  <2>1. CASE UNCHANGED <<config, keyFile>>
    BY <2>1 DEF OpensHere, Used, Unlocks
  <2>2. ASSUME NEW p \in Processes, Create(p) PROVE Step
    <3>1. config' = config
      BY <2>2 DEF Create
    <3>2. CASE CanCreate
      <4>1. ~keyFile.whole
        BY <3>2 DEF CanCreate, NoKeyFile
      <4> QED
        BY <3>1, <4>1 DEF OpensHere
    <3>3. CASE ~CanCreate
      BY <2>1, <2>2, <3>3 DEF Create
    <3> QED
      BY <3>2, <3>3
  <2>3. ASSUME NEW p \in Processes, Fill(p) \/ FillFails(p) PROVE Step
    <3>1. config' = config
      BY <2>3 DEF Fill, FillFails
    <3>2. CASE OwnKeyFile(p)
      BY <3>1, <3>2 DEF OpensHere, OwnKeyFile
    <3>3. CASE ~OwnKeyFile(p) /\ Fill(p)
      BY <2>1, <3>1, <3>3 DEF Fill
    <3>4. CASE ~OwnKeyFile(p) /\ FillFails(p)
      <4>1. RemovesOthers(p) /\ at'[p] = "done"
        BY <1>1, <3>4, Ending DEF FillFails, RemovesOthers, Inv, TypeOK
      <4> QED
        BY <3>1, <4>1
    <3> QED
      BY <2>3, <3>2, <3>3, <3>4
  <2>4. ASSUME NEW p \in Processes, Rename(p) PROVE Step
    <3>1. mem[p] \in Memory /\ mem[p].host # <<>> /\ config \in Configs
      BY <1>1, <2>4 DEF Inv, TypeOK, Rename, HasHostKey
    <3> DEFINE c == mem[p].copy
               host == mem[p].host
               recovery == mem[p].recovery
               n == Relocked(c, host, recovery)
    <3>2. c \in Configs /\ host \in Identities /\ recovery \in SUBSET Keys
      BY <3>1 DEF Memory
    <3>3. at'[p] = "done" /\ at[p] = "rename" /\ config' = n /\ keyFile' = keyFile
      BY <1>1, <2>4, Ending DEF Rename, Inv, TypeOK
    <3>4. CASE OtherEdit(p)
      BY <3>3, <3>4
    <3>5. CASE ~OtherEdit(p)
      <4>1. c.version = config.version
        BY <3>3, <3>5 DEF OtherEdit
      <4>2. Meaning(c) = Meaning(config)
        BY <1>1, <3>3, <4>1 DEF Inv, HistoryInv, Whole, Relocking
      <4>3. Used(c) = Used(config)
        BY <3>1, <3>2, <4>2, SameUsed
      <4>4. \A v \in Used(config) :
              v \in Used(n) /\ n.values[v].to = Recipient(host) \cup recovery
        BY <3>2, <4>3, RelockedWhole
      <4> HIDE DEF n
      <4>5. ASSUME NEW v \in Values, OpensHere(v) PROVE Host(v)
        <5>1. CASE host[1] \in KeysOf(keyFile.keys)
          BY <3>3, <4>4, <4>5, <5>1 DEF OpensHere, Unlocks, Recipient, Used
        <5>2. CASE host[1] \notin KeysOf(keyFile.keys)
          BY <3>3, <5>2 DEF StaleHost
        <5> QED
          BY <5>1, <5>2
      <4>6. ASSUME NEW v \in Used(config), NEW r \in recipients PROVE Recovery(v, r)
        BY <3>3, <4>4 DEF StaleRecovery
      <4> QED
        BY <4>5, <4>6
    <3> QED
      BY <3>4, <3>5
  <2>5. CASE EditConfig \/ ReplaceKey \/ EditRecipients \/ \E p \in Processes : Paste(p)
    <3>1. edits' = edits + 1
      BY <2>5 DEF EditConfig, ReplaceKey, EditRecipients, Paste, Edits
    <3> QED
      BY <2>0, <3>1
  <2>6. ASSUME NEW p \in Processes, Command(p), ~Create(p), ~Fill(p), ~FillFails(p), ~Rename(p)
        PROVE  UNCHANGED <<config, keyFile>>
    BY <2>6 DEF Command, Start, LoadHostKey, NoHostKey, LoadCreated, Enrolled, ListedRecipients,
                AppendRecipient, DeclineRecipient, OfferRelock, LoadRecipients, ReadConfig,
                WriteTemp, Quit, Kill
  <2>7. CASE UNCHANGED vars
    BY <2>1, <2>7 DEF vars
  <2> QED
    BY <1>1, <2>1, <2>2, <2>3, <2>4, <2>5, <2>6, <2>7 DEF Next
<1>2. Inv /\ [Next]_vars => [edits' = edits =>
       \/ \E p \in Processes : OtherEdit(p) /\ at'[p] = "done"
       \/ /\ \A v \in Values : OpensHere(v) => OpensHere(v)' \/
               \E p \in Processes : \/ StaleHost(p) /\ at'[p] = "done"
                                    \/ RemovesOthers(p) /\ at'[p] = "done"
          /\ \A v \in Used(config), r \in recipients :
               r \in config.values[v].to => r \in config'.values[v].to \/
               \E p \in Processes : StaleRecovery(p, r) /\ at'[p] = "done"]_vars
  BY <1>1
<1> QED
  BY <1>2, Invariance, PTL DEF Spec, StaysOpen

=============================================================================
