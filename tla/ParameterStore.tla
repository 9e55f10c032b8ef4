--------------------------- MODULE ParameterStore ---------------------------
(***************************************************************************)
(* The dual-slot store of firmware/src/params/parameter_store.rs: a record *)
(* is written to the slot that does not hold the latest one, double word   *)
(* by double word, verified, and committed by a marker that is programmed  *)
(* last.  Power may be lost between any two flash operations and inside    *)
(* one, and every operation may report an error or silently write wrong.   *)
(***************************************************************************)
EXTENDS Integers

CONSTANTS
  Profiles,      \* the profiles a host may save
  Valid,         \* those that pass validate_record
  NoProfile,     \* no record
  Words,         \* double words before the marker
  GenerationMod  \* generations wrap at this modulus (2^32)

ASSUME StoreAssumption ==
  /\ NoProfile \notin Profiles
  /\ Valid \subseteq Profiles
  /\ Words \in Nat \ {0}
  /\ GenerationMod \in Nat /\ GenerationMod > 2

VARIABLES
  slots, \* contents of the two flash pages
  save,  \* the call of save_inner under way
  reply  \* outcome of the last call of this boot

vars == <<slots, save, reply>>

Slots == {"A", "B"}
Opposite(s) == IF s = "A" THEN "B" ELSE "A"
Generations == 0..GenerationMod - 1

\* sound: no double word of the page differs from the record it belongs to.
Contents == [words : 0..Words, marker : BOOLEAN, sound : BOOLEAN,
             generation : Generations, profile : Profiles \cup {NoProfile}]
Blank == [words |-> 0, marker |-> FALSE, sound |-> TRUE, generation |-> 0,
          profile |-> NoProfile]
Broken(c) == [c EXCEPT !.sound = FALSE]

NoSave == [phase |-> "idle", target |-> "A", generation |-> 0, profile |-> NoProfile]
Phases == {"idle", "erase", "program", "verify", "commit", "confirm"}

TypeOK ==
  /\ slots \in [Slots -> Contents]
  /\ save \in [phase : Phases, target : Slots, generation : Generations,
               profile : Profiles \cup {NoProfile}]
  /\ reply \in {"none", "saved", "unchanged", "failed"}

Init ==
  /\ slots = [s \in Slots |-> Blank]
  /\ save = NoSave
  /\ reply = "none"

-----------------------------------------------------------------------------
(* Reading a flash v.                                                      *)

\* decode_record: the marker, the header, the CRC and the payload.
Readable(c) == c.marker /\ c.sound /\ c.words = Words

\* Mutant of Newer: generations are compared as they are.
NewerUnwrapped(candidate, reference) == candidate > reference

Newer(candidate, reference) ==
  LET distance == (candidate - reference) % GenerationMod
  IN distance # 0 /\ 2 * distance < GenerationMod

\* select_latest: slot A unless only B is readable or B is newer.
HasLatest(v) == \E s \in Slots : Readable(v[s])
Latest(v) ==
  IF Readable(v["B"]) /\ (Readable(v["A"]) => Newer(v["B"].generation, v["A"].generation))
    THEN "B" ELSE "A"
Loaded(v) == IF HasLatest(v) THEN v[Latest(v)].profile ELSE NoProfile

-----------------------------------------------------------------------------
(* save_inner. *)

\* Mutant of Following: the counter does not wrap.
Unwrapped(g) == g + 1

Following(g) == (g + 1) % GenerationMod

Target == IF HasLatest(slots) THEN Opposite(Latest(slots)) ELSE "A"

\* Mutant of NextGeneration: it follows the page that will be erased.
NextGenerationOfTarget == IF HasLatest(slots) THEN Following(slots[Target].generation) ELSE 1

NextGeneration == IF HasLatest(slots) THEN Following(slots[Latest(slots)].generation) ELSE 1

Answer(outcome) == save' = NoSave /\ reply' = outcome

\* The profile is invalid or the scan cannot read a page: nothing is written.
Refuse ==
  /\ save.phase = "idle"
  /\ Answer("failed")
  /\ UNCHANGED slots

SaveUnchanged(p) ==
  /\ save.phase = "idle"
  /\ p \in Valid /\ Loaded(slots) = p
  /\ Answer("unchanged")
  /\ UNCHANGED slots

\* save, or force_save, which writes an unchanged profile again.
Begin(p, force) ==
  /\ save.phase = "idle"
  /\ p \in Valid
  /\ force \/ Loaded(slots) # p
  /\ save' = [phase |-> "erase", target |-> Target, generation |-> NextGeneration,
              profile |-> p]
  /\ reply' = "none"
  /\ UNCHANGED slots

Put(c) == slots' = [slots EXCEPT ![save.target] = c]
Page == slots[save.target]

\* A page whose erase was cut short reads as before, as garbage, or as erased.
Erasures == {Page, Broken(Page), Blank}

Erase ==
  /\ save.phase = "erase"
  /\ \/ Put(Blank) /\ save' = [save EXCEPT !.phase = "program"] /\ UNCHANGED reply
     \/ \E c \in Erasures : Put(c) /\ Answer("failed")

\* The next double word of the record, written right or wrong.
Written == [Page EXCEPT !.words = @ + 1, !.generation = save.generation,
                        !.profile = save.profile]
Program ==
  /\ save.phase = "program"
  /\ \/ /\ \E c \in {Written, Broken(Written)} : Put(c)
        /\ save' = IF Page.words + 1 = Words THEN [save EXCEPT !.phase = "verify"] ELSE save
        /\ UNCHANGED reply
     \/ \E c \in {Page, Written, Broken(Written)} : Put(c) /\ Answer("failed")

\* The page is read back and compared before the marker is written.
Verify ==
  /\ save.phase = "verify"
  /\ \/ Page.sound /\ save' = [save EXCEPT !.phase = "commit"] /\ UNCHANGED reply
     \/ Answer("failed")
  /\ UNCHANGED slots

Committed == [Page EXCEPT !.marker = TRUE]
Commit ==
  /\ save.phase = "commit"
  /\ \/ /\ \E c \in {Committed, Broken(Page)} : Put(c)
        /\ save' = [save EXCEPT !.phase = "confirm"]
        /\ UNCHANGED reply
     \/ \E c \in {Page, Committed, Broken(Page)} : Put(c) /\ Answer("failed")

\* The record is read once more; the read may fail.
Confirm ==
  /\ save.phase = "confirm"
  /\ \/ Readable(Page) /\ Answer("saved")
     \/ Answer("failed")
  /\ UNCHANGED slots

\* Power is lost, in the middle of an operation or between two.
Interrupted ==
  CASE save.phase = "erase" -> Erasures
    [] save.phase = "program" -> {Page, Written, Broken(Written)}
    [] save.phase = "commit" -> {Page, Committed, Broken(Page)}
    [] OTHER -> {Page}
Crash ==
  /\ \E c \in Interrupted : Put(c)
  /\ Answer("none")

-----------------------------------------------------------------------------
Next ==
  \/ Refuse
  \/ \E p \in Profiles : SaveUnchanged(p) \/ \E force \in BOOLEAN : Begin(p, force)
  \/ Erase \/ Program \/ Verify \/ Commit \/ Confirm
  \/ Crash

Spec == Init /\ [][Next]_vars

-----------------------------------------------------------------------------
(* Properties. *)

\* Two readable records are consecutive, whatever was cut short, retried or
\* written wrong, so the wrapping comparison never prefers the older one.
Consecutive(g, h) == g = Following(h) \/ h = Following(g)
GenerationsAreAdjacent ==
  Readable(slots["A"]) /\ Readable(slots["B"]) =>
    Consecutive(slots["A"].generation, slots["B"].generation)

\* The store is an atomic record: a save is all or nothing.
Record == INSTANCE AtomicRecord WITH stored <- Loaded(slots), pending <- save.profile
ImplementsRecord == Record!Spec
=============================================================================
