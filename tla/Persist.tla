-------------------------------- MODULE Persist ------------------------------
(***************************************************************************)
(* libraries/ms-helper/src/persist.c over the flash: one page holds one    *)
(* blob, in sections written one after the other.                          *)
(*                                                                         *)
(* A section is erased, then its size is written, then its blob; a later   *)
(* commit marks it invalid.  Every write to the flash is a step of its own *)
(* since the power may be lost between two of them; what is in the flash   *)
(* stays, the storage and the blobs in RAM are lost.                       *)
(*                                                                         *)
(* All sections of a page have the size of its blob, and the page does not *)
(* hold a whole number of them: what follows the last section is erased.   *)
(***************************************************************************)
EXTENDS Integers

CONSTANTS
  Sections,     \* sections that fit a page
  FlashPages,   \* the pages given to the persistence layer
  Blobs,        \* values of a blob
  Torn          \* what a section holds when its blob was not written to the end

ASSUME PersistAssumption == Sections \in Nat \ {0} /\ Torn \notin Blobs

VARIABLES
  flash,    \* page -> section -> its header and its blob
  persist,  \* page -> PersistStorage: section in use (0 for PERSIST_INVALID_ADDR), next section
  blob      \* page -> the blob in RAM

persistVars == <<flash, persist, blob>>

Erased == [mark |-> "erased", blob |-> Torn]
Valid(b) == [mark |-> "valid", blob |-> b]

Section(p, n) == IF n \in 1 .. Sections THEN flash[p][n] ELSE Erased

\* The first section that is not marked invalid: valid, or erased as nothing was written there.
FirstSection(p) ==
  CHOOSE n \in 1 .. Sections + 1 :
    /\ Section(p, n).mark # "invalid"
    /\ \A m \in 1 .. n - 1 : Section(p, m).mark = "invalid"

-----------------------------------------------------------------------------
(* persist_init: the blob found is loaded; when there is none, the one in    *)
(* RAM is to be committed, which is the caller's next step.                 *)

FindSection(p) ==
  persist' = [persist EXCEPT ![p] =
    LET n == FirstSection(p)
    IN IF Section(p, n).mark = "erased" THEN [used |-> 0, next |-> n]
       ELSE [used |-> n, next |-> n + 1]]

NothingFound(p) == Section(p, FirstSection(p)).mark = "erased"

LoadBlob(p) ==
  blob' = IF NothingFound(p) THEN blob ELSE [blob EXCEPT ![p] = Section(p, FirstSection(p)).blob]

-----------------------------------------------------------------------------
(* persist_commit, one action for each write                                *)

Invalidate(p) ==
  /\ flash' = IF persist[p].used = 0 THEN flash
              ELSE [flash EXCEPT ![p][persist[p].used].mark = "invalid"]
  /\ UNCHANGED <<persist, blob>>

Overrun(p) == persist[p].next > Sections

ErasePage(p) ==
  /\ Overrun(p)
  /\ flash' = [flash EXCEPT ![p] = [n \in 1 .. Sections |-> Erased]]
  /\ persist' = [persist EXCEPT ![p].next = 1]
  /\ UNCHANGED blob

WriteSize(p) ==
  /\ ~Overrun(p)
  /\ flash' = [flash EXCEPT ![p][persist[p].next] = Valid(Torn)]
  /\ UNCHANGED <<persist, blob>>

\* Mutant: the section in use is not followed.
WriteBlob_same_section(p) ==
  /\ flash' = [flash EXCEPT ![p][persist[p].next] = Valid(blob[p])]
  /\ persist' = [persist EXCEPT ![p].next = @ + 1]
  /\ UNCHANGED blob

WriteBlob(p) ==
  /\ flash' = [flash EXCEPT ![p][persist[p].next] = Valid(blob[p])]
  /\ persist' = [persist EXCEPT ![p] = [used |-> @.next, next |-> @.next + 1]]
  /\ UNCHANGED blob

-----------------------------------------------------------------------------

PersistTypeOK ==
  /\ flash \in [FlashPages -> [1 .. Sections ->
                  [mark : {"erased", "valid", "invalid"}, blob : Blobs \cup {Torn}]]]
  /\ persist \in [FlashPages -> [used : 0 .. Sections, next : 1 .. Sections + 1]]
  /\ blob \in [FlashPages -> Blobs \cup {Torn}]

\* No page has two sections that count as valid: the one found first is the last one committed
\* (persist.c:10-11).
OneValidSection ==
  \A p \in FlashPages : \A m, n \in 1 .. Sections :
    flash[p][m].mark = "valid" /\ flash[p][n].mark = "valid" => m = n
=============================================================================
