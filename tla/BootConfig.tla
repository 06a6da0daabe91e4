------------------------------ MODULE BootConfig ------------------------------
(***************************************************************************)
(* projects/bootloader/src/config.c: the configuration of a board, kept in *)
(* two pages of flash so that one may replace the other.                   *)
(*                                                                         *)
(* config_init loads both pages at boot and repairs one from the other;    *)
(* config_commit writes the first page, reads it back and mirrors it, or   *)
(* restores it from the second.  The power may be lost between any two     *)
(* writes to the flash, and a write of the first page may fail once.       *)
(***************************************************************************)
EXTENDS Persist

CONSTANTS
  BoardIds,      \* ids given by the client; the rest of what it sets goes with them
  DefaultId,     \* DEFAULT_CONTROLLER_BOARD_ID
  LossMax        \* bound: losses of power

\* application_crc32: that of the default config, and the one the application in flash has.
Unset == "unset"
Measured == "measured"

\* The checksum is the part of the config it was computed over.
Summed(id, app, sum) == [id |-> id, app |-> app, sum |-> sum]
Sum(c) == <<c.id, c.app>>

ConfigBlobs ==
  LET ids == BoardIds \cup {DefaultId}
      apps == {Unset, Measured}
  IN {Summed(i, a, s) : i \in ids, a \in apps, s \in ids \X apps}

\* The blobs of the persistence layer are configs.
ASSUME ConfigAssumption ==
  /\ DefaultId \notin BoardIds /\ BoardIds # {}
  /\ LossMax \in Nat
  /\ FlashPages = {1, 2}
  /\ Blobs = ConfigBlobs

DefaultConfig == Summed(DefaultId, Unset, <<DefaultId, Unset>>)

VARIABLES
  cpu,    \* stage of config_init or config_commit, next flash operation, page it is for
  kept,   \* history: the last config committed and the one being committed
  losses, \* losses of power so far
  harm    \* history: what made the two pages useless for each other

configVars == <<persistVars, cpu, kept, losses, harm>>

Stage(stage, at, page) == [stage |-> stage, at |-> at, page |-> page]
Ready == Stage("ready", "none", 1)

\* A commit of page p, and what follows it.
Commit(stage, p) == cpu' = Stage(stage, "invalidate", p)

-----------------------------------------------------------------------------
(* The writes of persist_commit *)

CommitInvalidates ==
  /\ cpu.at = "invalidate"
  /\ Invalidate(cpu.page)
  /\ cpu' = [cpu EXCEPT !.at = IF Overrun(cpu.page) THEN "erase" ELSE "size"]
  /\ UNCHANGED <<kept, losses, harm>>

CommitErases ==
  /\ cpu.at = "erase"
  /\ ErasePage(cpu.page)
  /\ cpu' = [cpu EXCEPT !.at = "size"]
  /\ UNCHANGED <<kept, losses, harm>>

CommitWritesSize ==
  /\ cpu.at = "size"
  /\ WriteSize(cpu.page)
  /\ cpu' = [cpu EXCEPT !.at = "blob"]
  /\ UNCHANGED <<kept, losses, harm>>

\* What the caller does once a commit is over.
AfterCommit(stage) ==
  CASE stage = "first"   -> Stage("second", "load", 2)
    [] stage = "second"  -> Stage("compare", "none", 1)
    [] stage = "write"   -> Stage("verify", "load", 1)
    [] OTHER             -> Ready

CommitWritesBlob ==
  /\ cpu.at = "blob"
  /\ WriteBlob(cpu.page)
  /\ cpu' = AfterCommit(cpu.stage)
  /\ kept' = CASE cpu.stage = "mirror"  -> [kept EXCEPT !.last = kept.new]
               [] cpu.stage = "restore" -> [kept EXCEPT !.new = kept.last]
               [] OTHER                 -> kept
  /\ UNCHANGED <<losses, harm>>

\* Bound: once, and on the page that is read back.  persist_commit returns with its storage as it was.
BlobWriteFails ==
  /\ cpu.at = "blob" /\ cpu.stage = "write" /\ "failure" \notin harm
  /\ harm' = harm \cup {"failure"}
  /\ cpu' = AfterCommit(cpu.stage)
  /\ UNCHANGED <<persistVars, kept, losses>>

-----------------------------------------------------------------------------
(* config_init *)

\* persist_init of a page at boot; the blob in RAM is committed when the page holds none.
BootLoads ==
  /\ cpu.stage \in {"first", "second"} /\ cpu.at = "load"
  /\ FindSection(cpu.page) /\ LoadBlob(cpu.page)
  /\ IF NothingFound(cpu.page) THEN Commit(cpu.stage, cpu.page) ELSE cpu' = AfterCommit(cpu.stage)
  /\ UNCHANGED <<flash, kept, losses, harm>>

Corrupted(p) == blob[p] = Torn \/ blob[p].sum # Sum(blob[p])

Repair(p, q) ==
  /\ blob' = [blob EXCEPT ![p] = blob[q]]
  /\ Commit("repair", p)

\* Mutant: the first page is trusted, and never repaired from the second.
BootCompares_keeps_first ==
  /\ cpu.stage = "compare"
  /\ IF Corrupted(2) /\ ~Corrupted(1) THEN Repair(2, 1)
     ELSE cpu' = Ready /\ UNCHANGED blob
  /\ UNCHANGED <<flash, persist, kept, losses, harm>>

\* When both are corrupted config_init returns an error that main.c does not look at.
BootCompares ==
  /\ cpu.stage = "compare"
  /\ CASE Corrupted(2) /\ ~Corrupted(1) -> Repair(2, 1)
       [] ~Corrupted(2) /\ (Corrupted(1) \/ blob[1].sum # blob[2].sum) -> Repair(1, 2)
       [] OTHER -> cpu' = Ready /\ UNCHANGED blob
  /\ UNCHANGED <<flash, persist, kept, losses, harm>>

-----------------------------------------------------------------------------
(* config_commit *)

\* What a config that was not written to the end says of the application is not what is measured.
AppOf(c) == IF c = Torn THEN Unset ELSE c.app

\* update_id and update_name: the config got, with what the client sets.  The checksum is
\* computed before the CRC of the application is replaced by the measured one.
ConfigCommit(id) ==
  /\ cpu = Ready
  /\ LET input == Summed(id, Measured, <<id, AppOf(blob[1])>>)
     IN /\ blob' = [blob EXCEPT ![1] = input]
        /\ kept' = [last |-> blob[1], new |-> input]
        /\ harm' = IF AppOf(blob[1]) = Measured THEN harm ELSE harm \cup {"sum"}
  /\ Commit("write", 1)
  /\ UNCHANGED <<flash, persist, losses>>

\* Mutant: what is read back is mirrored whatever it is.
CommitVerifies_uncompared ==
  /\ cpu.stage = "verify"
  /\ FindSection(1)
  /\ blob' = [p \in FlashPages |-> Section(1, FirstSection(1)).blob]
  /\ Commit("mirror", 2)
  /\ UNCHANGED <<flash, kept, losses, harm>>

\* The first page is read back and compared with what was to be written.
CommitVerifies ==
  /\ cpu.stage = "verify"
  /\ FindSection(1)
  /\ LET read == Section(1, FirstSection(1)).blob
     IN IF read = kept.new
        THEN blob' = [p \in FlashPages |-> read] /\ Commit("mirror", 2)
        ELSE blob' = [blob EXCEPT ![1] = blob[2]] /\ Commit("restore", 1)
  /\ UNCHANGED <<flash, kept, losses, harm>>

-----------------------------------------------------------------------------

\* The RAM starts from the defaults, their checksum computed, and config_init from its first page.
Boots ==
  /\ blob' = [p \in FlashPages |-> DefaultConfig]
  /\ persist' = [p \in FlashPages |-> [used |-> 0, next |-> 1]]
  /\ cpu' = Stage("first", "load", 1)

\* While the second page has no section the first one is not safe: at boot the defaults are
\* written there and count as the newer config.
Unmirrored == NothingFound(2)

PowerLost ==
  /\ losses < LossMax
  /\ losses' = losses + 1
  /\ harm' = IF Unmirrored THEN harm \cup {"unmirrored"} ELSE harm
  /\ Boots
  /\ UNCHANGED <<flash, kept>>

\* A new board has erased pages, or both hold a config that was committed twice.
ConfigInit ==
  /\ \E first \in {Erased} \cup {Valid(Summed(i, Measured, <<i, Measured>>)) : i \in BoardIds} :
       /\ flash = [p \in FlashPages |-> [n \in 1 .. Sections |-> IF n = 1 THEN first ELSE Erased]]
       /\ kept = IF first = Erased THEN [last |-> DefaultConfig, new |-> DefaultConfig]
                 ELSE [last |-> first.blob, new |-> first.blob]
  /\ blob = [p \in FlashPages |-> DefaultConfig]
  /\ persist = [p \in FlashPages |-> [used |-> 0, next |-> 1]]
  /\ cpu = Stage("first", "load", 1)
  /\ losses = 0 /\ harm = {}

ConfigNext ==
  \/ CommitInvalidates \/ CommitErases \/ CommitWritesSize \/ CommitWritesBlob
  \/ BlobWriteFails
  \/ BootLoads \/ BootCompares
  \/ \E id \in BoardIds : ConfigCommit(id)
  \/ CommitVerifies
  \/ PowerLost

ConfigSpec == ConfigInit /\ [][ConfigNext]_configVars

-----------------------------------------------------------------------------
(* Properties *)

ConfigTypeOK ==
  /\ PersistTypeOK
  /\ cpu \in [stage : {"first", "second", "compare", "repair", "write", "verify", "mirror",
                       "restore", "ready"},
              at : {"load", "invalidate", "erase", "size", "blob", "none"}, page : FlashPages]
  /\ kept \in [last : Blobs \cup {Torn}, new : Blobs \cup {Torn}]
  /\ losses \in 0 .. LossMax /\ harm \subseteq {"failure", "sum", "unmirrored"}

Spoilt == harm \cap {"sum", "unmirrored"} # {}

Whole(p) == ~NothingFound(p) /\ Section(p, FirstSection(p)).blob # Torn

\* Once a board has booted, a page is written only while the other one holds a whole config,
\* however often the power is lost; a first boot broken off twice leaves none.
SomePageWhole ==
  /\ ConfigTypeOK
  /\ cpu.stage \notin {"first", "second"} /\ ~Spoilt => Whole(1) \/ Whole(2)

\* A board that has booted runs with the config committed last or the one whose commit was broken
\* off, unless a stale checksum or a page without a section had spoilt the redundancy
\* (config.c:51-57).
ConfigSurvives ==
  cpu = Ready /\ ~Spoilt => blob[1] \in {kept.last, kept.new}

\* The same with no exception for the loss of power (violated).
PowerLossKeepsConfig == cpu = Ready /\ "sum" \notin harm => blob[1] \in {kept.last, kept.new}
=============================================================================
