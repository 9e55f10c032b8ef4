------------------------ MODULE ParameterStoreProofs ------------------------
(***************************************************************************)
(* Theorems of ParameterStore, for every length of a record, every modulus *)
(* of the generations above 2 and every set of profiles: readable records  *)
(* are consecutive, and the store implements AtomicRecord although power   *)
(* may be lost at, or in the middle of, every flash operation.             *)
(***************************************************************************)
EXTENDS ParameterStore, TLAPS

-----------------------------------------------------------------------------
(* Wrapping generations. *)

LEMMA FollowingType ==
  ASSUME NEW g \in Generations
  PROVE  Following(g) \in Generations
BY StoreAssumption DEF Following, Generations

\* The generation that follows is newer, and the one before it is not.
LEMMA FollowingIsNewer ==
  ASSUME NEW g \in Generations
  PROVE  Newer(Following(g), g) /\ ~Newer(g, Following(g))
<1>1. g \in 0..GenerationMod - 1 /\ GenerationMod \in Nat /\ GenerationMod > 2
  BY StoreAssumption DEF Generations
<1>2. CASE g + 1 < GenerationMod
  <2>1. Following(g) = g + 1
    BY <1>1, <1>2 DEF Following
  <2>2. (g + 1 - g) % GenerationMod = 1 /\ (g - (g + 1)) % GenerationMod = GenerationMod - 1
    BY <1>1
  <2>3. QED
    BY <1>1, <2>1, <2>2 DEF Newer
<1>3. CASE g + 1 = GenerationMod
  <2>1. Following(g) = 0
    BY <1>1, <1>3 DEF Following
  <2>2. (0 - g) % GenerationMod = 1 /\ (g - 0) % GenerationMod = GenerationMod - 1
    BY <1>1, <1>3
  <2>3. QED
    BY <1>1, <2>1, <2>2 DEF Newer
<1>4. QED
  BY <1>1, <1>2, <1>3

-----------------------------------------------------------------------------
(* Which record is loaded. *)

\* A page that cannot be read leaves the choice to the other one.
LEMMA OtherIsLoaded ==
  ASSUME NEW v \in [Slots -> Contents], NEW s \in Slots, ~Readable(v[s])
  PROVE  Loaded(v) = IF Readable(v[Opposite(s)]) THEN v[Opposite(s)].profile ELSE NoProfile
BY DEF Loaded, HasLatest, Latest, Slots, Opposite

\* A readable page whose generation follows that of the other is loaded.
LEMMA FollowerIsLoaded ==
  ASSUME NEW v \in [Slots -> Contents], NEW s \in Slots, Readable(v[s]),
         Readable(v[Opposite(s)]) => v[s].generation = Following(v[Opposite(s)].generation)
  PROVE  Latest(v) = s /\ HasLatest(v) /\ Loaded(v) = v[s].profile
<1>1. v["A"].generation \in Generations /\ v["B"].generation \in Generations
  BY DEF Slots, Contents
<1>2. CASE s = "A"
  BY <1>1, <1>2, FollowingIsNewer DEF Loaded, HasLatest, Latest, Slots, Opposite
<1>3. CASE s = "B"
  BY <1>1, <1>3, FollowingIsNewer DEF Loaded, HasLatest, Latest, Slots, Opposite
<1>4. QED
  BY <1>2, <1>3 DEF Slots

LEMMA LatestIsReadable ==
  ASSUME NEW v \in [Slots -> Contents], HasLatest(v)
  PROVE  Latest(v) \in Slots /\ Readable(v[Latest(v)]) /\ Loaded(v) = v[Latest(v)].profile
BY DEF HasLatest, Latest, Slots, Loaded

LEMMA LatestIsSlot == \A v : Latest(v) \in Slots
BY DEF Latest, Slots

LEMMA OppositeSlot ==
  ASSUME NEW s \in Slots
  PROVE  Opposite(s) \in Slots /\ Opposite(s) # s /\ Opposite(Opposite(s)) = s
         /\ Slots = {s, Opposite(s)}
BY DEF Slots, Opposite

-----------------------------------------------------------------------------
(* The inductive invariant. *)

Other == slots[Opposite(save.target)]

\* While a save is under way the page it writes is not the one that is loaded,
\* and its record follows the one in the other page.
SaveSound ==
  /\ save.phase = "idle" => save.profile = NoProfile
  /\ save.phase # "idle" => /\ save.profile \in Profiles
                            /\ Readable(Other) => save.generation = Following(Other.generation)
  /\ save.phase = "erase" /\ Readable(Page) => Readable(Other) /\ Latest(slots) # save.target
  /\ save.phase \in {"program", "verify", "commit"} => ~Page.marker
  /\ save.phase = "program" => Page.words < Words
  /\ save.phase \in {"verify", "commit", "confirm"} => Page.words = Words
  /\ save.phase \in {"program", "verify", "commit", "confirm"} /\ Page.words > 0 =>
       Page.generation = save.generation /\ Page.profile = save.profile

IInv == TypeOK /\ GenerationsAreAdjacent /\ SaveSound

LEMMA PageType ==
  ASSUME TypeOK
  PROVE  /\ save.target \in Slots /\ Opposite(save.target) \in Slots
         /\ Page \in Contents /\ Other \in Contents
         /\ save.generation \in Generations /\ save.profile \in Profiles \cup {NoProfile}
BY OppositeSlot DEF TypeOK, Page, Other

LEMMA PutType ==
  ASSUME TypeOK, NEW c \in Contents, Put(c)
  PROVE  /\ slots' \in [Slots -> Contents]
         /\ slots'[save.target] = c
         /\ slots'[Opposite(save.target)] = Other
BY PageType, OppositeSlot DEF Put, TypeOK, Other

\* A page that is not loaded may become any other page that is not readable.
LEMMA NothingLost ==
  ASSUME TypeOK, NEW c \in Contents, Put(c), ~Readable(c),
         Readable(Page) => Readable(Other) /\ Latest(slots) # save.target
  PROVE  Loaded(slots') = Loaded(slots)
<1>1. /\ slots \in [Slots -> Contents] /\ slots' \in [Slots -> Contents]
      /\ save.target \in Slots /\ slots'[save.target] = c
      /\ slots'[Opposite(save.target)] = Other /\ Other = slots[Opposite(save.target)]
      /\ Page = slots[save.target]
  BY PageType, PutType DEF TypeOK, Other, Page
<1>2. Loaded(slots') = IF Readable(Other) THEN Other.profile ELSE NoProfile
  BY <1>1, OtherIsLoaded
<1>3. CASE ~Readable(Page)
  BY <1>1, <1>2, <1>3, OtherIsLoaded
<1>4. CASE Readable(Page)
  <2>1. Latest(slots) = Opposite(save.target)
    BY <1>1, <1>4, LatestIsSlot, OppositeSlot
  <2>2. HasLatest(slots)
    BY <1>1, <1>4 DEF HasLatest
  <2>3. QED
    BY <1>1, <1>2, <1>4, <2>1, <2>2, LatestIsReadable
<1>5. QED
  BY <1>3, <1>4

\* A page that becomes readable with the generation that follows is loaded.
LEMMA RecordStored ==
  ASSUME TypeOK, SaveSound, save.phase = "commit", NEW c \in Contents, Put(c), Readable(c),
         c.generation = save.generation, c.profile = save.profile
  PROVE  Loaded(slots') = save.profile
<1>1. /\ slots' \in [Slots -> Contents] /\ save.target \in Slots /\ slots'[save.target] = c
      /\ slots'[Opposite(save.target)] = Other
  BY PageType, PutType
<1>2. Readable(Other) => c.generation = Following(Other.generation)
  BY DEF SaveSound
<1>3. QED
  BY <1>1, <1>2, FollowerIsLoaded

LEMMA AdjacentAfterPut ==
  ASSUME TypeOK, NEW c \in Contents, Put(c),
         Readable(c) /\ Readable(Other) => Consecutive(c.generation, Other.generation)
  PROVE  GenerationsAreAdjacent'
<1>1. /\ save.target \in Slots /\ slots'[save.target] = c
      /\ slots'[Opposite(save.target)] = Other
  BY PageType, PutType
<1>2. CASE save.target = "A"
  BY <1>1, <1>2 DEF GenerationsAreAdjacent, Opposite
<1>3. CASE save.target = "B"
  BY <1>1, <1>3 DEF GenerationsAreAdjacent, Opposite, Consecutive
<1>4. QED
  BY <1>1, <1>2, <1>3 DEF Slots

LEMMA AdjacentPages ==
  ASSUME TypeOK, GenerationsAreAdjacent, Readable(Page), Readable(Other)
  PROVE  Consecutive(Page.generation, Other.generation)
BY PageType DEF GenerationsAreAdjacent, Consecutive, Page, Other, Opposite, Slots

\* The states a save ends in: it is over and nothing about it has to hold.
LEMMA IdleIsSound ==
  ASSUME NEW outcome \in {"none", "saved", "unchanged", "failed"}, Answer(outcome)
  PROVE  /\ SaveSound'
         /\ save'.profile = NoProfile
         /\ save' \in [phase : Phases, target : Slots, generation : Generations,
                       profile : Profiles \cup {NoProfile}]
         /\ reply' \in {"none", "saved", "unchanged", "failed"}
BY StoreAssumption DEF Answer, NoSave, SaveSound, Phases, Slots, Generations

LEMMA InitInv == Init => IInv
<1>1. SUFFICES ASSUME Init PROVE IInv
  OBVIOUS
<1>2. Blank \in Contents /\ ~Readable(Blank)
  BY StoreAssumption DEF Blank, Contents, Generations, Readable
<1>3. TypeOK
  BY <1>1, <1>2, StoreAssumption DEF Init, TypeOK, NoSave, Phases, Slots, Generations
<1>4. QED
  BY <1>1, <1>2, <1>3 DEF Init, IInv, GenerationsAreAdjacent, Slots, SaveSound, NoSave

-----------------------------------------------------------------------------
(* Steps of a save. *)

\* What the page may become in one flash operation.
Harmless(c) ==
  \/ c = Page
  \/ ~Readable(c) /\ (Readable(Page) => Readable(Other) /\ Latest(slots) # save.target)
  \/ /\ save.phase = "commit" /\ Readable(c)
     /\ c.generation = save.generation /\ c.profile = save.profile

LEMMA HarmlessPut ==
  ASSUME IInv, save.phase # "idle", NEW c \in Contents, Put(c), Harmless(c)
  PROVE  /\ slots' \in [Slots -> Contents]
         /\ GenerationsAreAdjacent'
         /\ Loaded(slots') \in {Loaded(slots), save.profile}
<1>1. TypeOK /\ SaveSound /\ GenerationsAreAdjacent /\ slots' \in [Slots -> Contents]
  BY PutType DEF IInv
<1>2. CASE c = Page
  <2>1. slots' = slots
    BY <1>1, <1>2, PageType DEF Put, Page, TypeOK
  <2>2. QED
    BY <1>1, <2>1 DEF GenerationsAreAdjacent
<1>3. CASE ~Readable(c) /\ (Readable(Page) => Readable(Other) /\ Latest(slots) # save.target)
  BY <1>1, <1>3, NothingLost, AdjacentAfterPut
<1>4. CASE /\ save.phase = "commit" /\ Readable(c)
           /\ c.generation = save.generation /\ c.profile = save.profile
  <2>1. Readable(Other) => c.generation = Following(Other.generation)
    BY <1>1, <1>4 DEF SaveSound
  <2>2. GenerationsAreAdjacent'
    BY <1>1, <2>1, AdjacentAfterPut DEF Consecutive
  <2>3. QED
    BY <1>1, <1>4, <2>2, RecordStored
<1>5. QED
  BY <1>2, <1>3, <1>4 DEF Harmless

\* A save that ends, with success or not, leaves the old record or the new one.
LEMMA EndInv ==
  ASSUME IInv, save.phase # "idle", NEW c \in Contents, Put(c), Harmless(c),
         NEW outcome \in {"none", "saved", "unchanged", "failed"}, Answer(outcome)
  PROVE  IInv' /\ Loaded(slots') \in {Loaded(slots), save.profile} /\ save'.profile = NoProfile
BY HarmlessPut, IdleIsSound DEF IInv, TypeOK

LEMMA BrokenType ==
  ASSUME NEW c \in Contents
  PROVE  Broken(c) \in Contents /\ ~Readable(Broken(c))
BY DEF Broken, Contents, Readable

LEMMA BlankType == Blank \in Contents /\ ~Readable(Blank)
BY StoreAssumption DEF Blank, Contents, Generations, Readable

LEMMA PagesInReach ==
  ASSUME IInv
  PROVE  /\ Page \in Contents /\ Broken(Page) \in Contents /\ Blank \in Contents
         /\ ~Readable(Blank) /\ ~Readable(Broken(Page))
         /\ save.phase = "erase" => Harmless(Page) /\ Harmless(Broken(Page)) /\ Harmless(Blank)
         /\ save.phase = "program" =>
              /\ Written \in Contents /\ Broken(Written) \in Contents
              /\ Written.words = Page.words + 1 /\ ~Written.marker
              /\ Written.generation = save.generation /\ Written.profile = save.profile
              /\ Harmless(Page) /\ Harmless(Written) /\ Harmless(Broken(Written))
         /\ save.phase = "commit" =>
              /\ Committed \in Contents
              /\ Harmless(Page) /\ Harmless(Committed) /\ Harmless(Broken(Page))
<1>1. /\ TypeOK /\ SaveSound /\ Page \in Contents
      /\ save.generation \in Generations /\ save.profile \in Profiles \cup {NoProfile}
  BY PageType DEF IInv
<1>2. /\ Broken(Page) \in Contents /\ Blank \in Contents
      /\ ~Readable(Blank) /\ ~Readable(Broken(Page))
  BY <1>1, BrokenType, BlankType
<1>3. ASSUME save.phase = "erase"
      PROVE  Harmless(Page) /\ Harmless(Broken(Page)) /\ Harmless(Blank)
  BY <1>1, <1>2, <1>3 DEF Harmless, SaveSound
<1>4. ASSUME save.phase = "program"
      PROVE  /\ Written \in Contents /\ Broken(Written) \in Contents
             /\ Written.words = Page.words + 1 /\ ~Written.marker
             /\ Written.generation = save.generation /\ Written.profile = save.profile
             /\ Harmless(Page) /\ Harmless(Written) /\ Harmless(Broken(Written))
  <2>1. ~Page.marker /\ Page.words < Words /\ Page.words + 1 \in 0..Words
    BY <1>1, <1>4, StoreAssumption DEF SaveSound, Contents
  <2>2. /\ Written \in Contents /\ Broken(Written) \in Contents
        /\ Written.words = Page.words + 1
        /\ Written.generation = save.generation /\ Written.profile = save.profile
        /\ ~Written.marker /\ ~Broken(Written).marker
    BY <1>1, <2>1 DEF Written, Broken, Contents
  <2>3. QED
    BY <2>1, <2>2 DEF Harmless, Readable
<1>5. ASSUME save.phase = "commit"
      PROVE  /\ Committed \in Contents
             /\ Harmless(Page) /\ Harmless(Committed) /\ Harmless(Broken(Page))
  <2>1. ~Page.marker /\ Page.words = Words /\ Words > 0
    BY <1>1, <1>5, StoreAssumption DEF SaveSound
  <2>2. Page.generation = save.generation /\ Page.profile = save.profile
    BY <1>1, <1>5, <2>1 DEF SaveSound
  <2>3. /\ Committed \in Contents
        /\ Committed.generation = save.generation /\ Committed.profile = save.profile
    BY <1>1, <2>2 DEF Committed, Contents
  <2>4. QED
    BY <1>2, <1>5, <2>1, <2>3 DEF Harmless, Readable
<1>6. QED
  BY <1>1, <1>2, <1>3, <1>4, <1>5

\* A step that ends a save maps to Fail, Succeed or Crash, and a step that goes
\* on to Store or to a stutter.
LEMMA BeginStep ==
  ASSUME IInv, NEW p \in Profiles, NEW force \in BOOLEAN, Begin(p, force)
  PROVE  IInv' /\ Record!Next
<1>1. TypeOK /\ GenerationsAreAdjacent /\ SaveSound /\ save.phase = "idle"
  BY DEF IInv, Begin
<1>2. /\ save' = [phase |-> "erase", target |-> Target, generation |-> NextGeneration,
                  profile |-> p]
      /\ reply' = "none" /\ slots' = slots
  BY DEF Begin
<1>3. Target \in Slots /\ NextGeneration \in Generations
  <2>1. ASSUME HasLatest(slots)
        PROVE  Target \in Slots /\ NextGeneration \in Generations
    <3>1. Latest(slots) \in Slots
      BY LatestIsSlot
    <3>2. slots[Latest(slots)].generation \in Generations
      BY <1>1, <3>1 DEF TypeOK, Contents
    <3>3. QED
      BY <2>1, <3>1, <3>2, FollowingType, OppositeSlot DEF Target, NextGeneration
  <2>2. ASSUME ~HasLatest(slots)
        PROVE  Target \in Slots /\ NextGeneration \in Generations
    BY <2>2, StoreAssumption DEF Target, NextGeneration, Slots, Generations
  <2>3. QED
    BY <2>1, <2>2
<1>4. TypeOK' /\ GenerationsAreAdjacent'
  BY <1>1, <1>2, <1>3 DEF TypeOK, Phases, GenerationsAreAdjacent
<1>5. SaveSound'
  <2>1. /\ Readable(slots[Opposite(Target)]) =>
             NextGeneration = Following(slots[Opposite(Target)].generation)
        /\ Readable(slots[Target]) => Readable(slots[Opposite(Target)]) /\ Latest(slots) # Target
    <3>1. CASE HasLatest(slots)
      <4>1. Opposite(Target) = Latest(slots) /\ Target # Latest(slots)
        BY <3>1, LatestIsSlot, OppositeSlot DEF Target
      <4>2. Readable(slots[Latest(slots)])
        BY <1>1, <3>1, LatestIsReadable DEF TypeOK
      <4>3. QED
        BY <3>1, <4>1, <4>2 DEF NextGeneration
    <3>2. CASE ~HasLatest(slots)
      BY <1>3, <3>2, OppositeSlot DEF HasLatest
    <3>3. QED
      BY <3>1, <3>2
  <2>2. save'.phase = "erase" /\ save'.target = Target /\ save'.generation = NextGeneration
        /\ save'.profile = p
    BY <1>2
  <2>3. QED
    BY <1>2, <2>1, <2>2 DEF SaveSound, Other, Page
<1>6. Record!Begin(p)
  BY <1>1, <1>2 DEF Record!Begin, SaveSound
<1>7. QED
  BY <1>4, <1>5, <1>6 DEF IInv, Record!Next

LEMMA EraseStep ==
  ASSUME IInv, Erase
  PROVE  IInv' /\ [Record!Next]_Record!vars
<1>1. TypeOK /\ SaveSound /\ save.phase = "erase" /\ save.profile \in Profiles
  BY DEF IInv, Erase, SaveSound
<1>2. CASE Put(Blank) /\ save' = [save EXCEPT !.phase = "program"] /\ UNCHANGED reply
  <2>1. /\ slots' \in [Slots -> Contents] /\ GenerationsAreAdjacent'
        /\ Loaded(slots') = Loaded(slots)
    BY <1>1, <1>2, PagesInReach, HarmlessPut, NothingLost DEF SaveSound
  <2>2. TypeOK'
    BY <1>1, <1>2, <2>1 DEF TypeOK, Phases
  <2>3. /\ save'.phase = "program" /\ save'.profile = save.profile
        /\ save'.generation = save.generation /\ save'.target = save.target
    BY <1>1, <1>2 DEF TypeOK
  <2>4. Page' = Blank /\ Other' = Other
    BY <1>1, <1>2, <2>3, PutType, BlankType DEF Page, Other
  <2>5. SaveSound'
    BY <1>1, <2>3, <2>4, StoreAssumption DEF SaveSound, Blank
  <2>6. UNCHANGED Record!vars
    BY <1>2, <2>1, <2>3 DEF Record!vars
  <2>7. QED
    BY <2>1, <2>2, <2>5, <2>6 DEF IInv
<1>3. CASE \E c \in Erasures : Put(c) /\ Answer("failed")
  <2>1. PICK c \in Erasures : Put(c) /\ Answer("failed")
    BY <1>3
  <2>2. c \in Contents /\ Harmless(c)
    BY <1>1, <2>1, PagesInReach DEF Erasures
  <2>3. IInv' /\ Loaded(slots') \in {Loaded(slots), save.profile} /\ save'.profile = NoProfile
    BY <1>1, <2>1, <2>2, EndInv
  <2>4. Record!Fail
    BY <1>1, <2>1, <2>3, StoreAssumption DEF Record!Fail, Answer
  <2>5. QED
    BY <2>3, <2>4 DEF Record!Next
<1>4. QED
  BY <1>2, <1>3 DEF Erase

LEMMA ProgramStep ==
  ASSUME IInv, Program
  PROVE  IInv' /\ [Record!Next]_Record!vars
<1>1. /\ TypeOK /\ SaveSound /\ save.phase = "program" /\ save.profile \in Profiles
      /\ ~Page.marker /\ Page.words < Words /\ Page \in Contents /\ ~Readable(Page)
  BY PageType DEF IInv, Program, SaveSound, Readable
<1>2. ASSUME NEW c \in {Written, Broken(Written)}, Put(c), UNCHANGED reply,
             save' = IF Page.words + 1 = Words THEN [save EXCEPT !.phase = "verify"] ELSE save
      PROVE  IInv' /\ [Record!Next]_Record!vars
  <2>1. /\ c \in Contents /\ ~c.marker /\ ~Readable(c) /\ c.words = Page.words + 1
        /\ c.generation = save.generation /\ c.profile = save.profile
    BY <1>1, PagesInReach DEF Broken, Readable, Contents
  <2>2. /\ slots' \in [Slots -> Contents] /\ GenerationsAreAdjacent'
        /\ Loaded(slots') = Loaded(slots)
    BY <1>1, <1>2, <2>1, NothingLost, PutType, AdjacentAfterPut
  <2>3. /\ save'.phase = IF Page.words + 1 = Words THEN "verify" ELSE "program"
        /\ save'.profile = save.profile
        /\ save'.generation = save.generation /\ save'.target = save.target
        /\ TypeOK'
    BY <1>1, <1>2, <2>2 DEF TypeOK, Phases
  <2>4. Page' = c /\ Other' = Other
    BY <1>1, <1>2, <2>1, <2>3, PutType DEF Page, Other
  <2>5. Page.words \in 0..Words
    BY <1>1 DEF Contents
  <2>6. SaveSound'
    <3>1. CASE Page.words + 1 = Words
      BY <1>1, <2>1, <2>3, <2>4, <3>1 DEF SaveSound
    <3>2. CASE Page.words + 1 # Words
      <4>1. Page.words + 1 < Words
        BY <1>1, <2>5, <3>2, StoreAssumption
      <4>2. QED
        BY <1>1, <2>1, <2>3, <2>4, <3>2, <4>1 DEF SaveSound
    <3>3. QED
      BY <3>1, <3>2
  <2>7. UNCHANGED Record!vars
    BY <1>2, <2>2, <2>3 DEF Record!vars
  <2>8. QED
    BY <2>2, <2>3, <2>6, <2>7 DEF IInv
<1>3. CASE \E c \in {Page, Written, Broken(Written)} : Put(c) /\ Answer("failed")
  <2>1. PICK c \in {Page, Written, Broken(Written)} : Put(c) /\ Answer("failed")
    BY <1>3
  <2>2. c \in Contents /\ Harmless(c)
    BY <1>1, <2>1, PagesInReach
  <2>3. IInv' /\ Loaded(slots') \in {Loaded(slots), save.profile} /\ save'.profile = NoProfile
    BY <1>1, <2>1, <2>2, EndInv
  <2>4. Record!Fail
    BY <1>1, <2>1, <2>3, StoreAssumption DEF Record!Fail, Answer
  <2>5. QED
    BY <2>3, <2>4 DEF Record!Next
<1>4. QED
  BY <1>2, <1>3 DEF Program

LEMMA UnchangedIsPut ==
  ASSUME TypeOK, UNCHANGED slots
  PROVE  Put(Page) /\ Page \in Contents /\ Harmless(Page)
BY PageType DEF Put, Page, TypeOK, Harmless

LEMMA VerifyStep ==
  ASSUME IInv, Verify
  PROVE  IInv' /\ [Record!Next]_Record!vars
<1>1. TypeOK /\ SaveSound /\ GenerationsAreAdjacent /\ save.phase = "verify" /\ slots' = slots
  BY DEF IInv, Verify
<1>2. CASE Page.sound /\ save' = [save EXCEPT !.phase = "commit"] /\ UNCHANGED reply
  <2>1. /\ save'.phase = "commit" /\ save'.profile = save.profile
        /\ save'.generation = save.generation /\ save'.target = save.target
        /\ TypeOK'
    BY <1>1, <1>2 DEF TypeOK, Phases
  <2>2. SaveSound' /\ GenerationsAreAdjacent'
    BY <1>1, <2>1 DEF SaveSound, Page, Other, GenerationsAreAdjacent
  <2>3. UNCHANGED Record!vars
    BY <1>1, <1>2, <2>1 DEF Record!vars
  <2>4. QED
    BY <2>1, <2>2, <2>3 DEF IInv
<1>3. CASE Answer("failed")
  <2>1. IInv' /\ save'.profile = NoProfile
    BY <1>1, <1>3, UnchangedIsPut, EndInv
  <2>2. Record!Fail
    BY <1>1, <1>3, <2>1, StoreAssumption DEF Record!Fail, Answer, SaveSound
  <2>3. QED
    BY <2>1, <2>2 DEF Record!Next
<1>4. QED
  BY <1>2, <1>3 DEF Verify

LEMMA CommitStep ==
  ASSUME IInv, Commit
  PROVE  IInv' /\ [Record!Next]_Record!vars
<1>1. TypeOK /\ SaveSound /\ save.phase = "commit" /\ save.profile \in Profiles
  BY DEF IInv, Commit, SaveSound
<1>2. ASSUME NEW c \in {Committed, Broken(Page)}, Put(c), UNCHANGED reply,
             save' = [save EXCEPT !.phase = "confirm"]
      PROVE  IInv' /\ [Record!Next]_Record!vars
  <2>1. c \in Contents /\ Harmless(c)
    BY <1>1, PagesInReach
  <2>2. /\ slots' \in [Slots -> Contents] /\ GenerationsAreAdjacent'
        /\ Loaded(slots') \in {Loaded(slots), save.profile}
    BY <1>1, <1>2, <2>1, HarmlessPut
  <2>3. /\ save'.phase = "confirm" /\ save'.profile = save.profile
        /\ save'.generation = save.generation /\ save'.target = save.target
        /\ TypeOK'
    BY <1>1, <1>2, <2>2 DEF TypeOK, Phases
  <2>4. Page' = c /\ Other' = Other
    BY <1>1, <1>2, <2>1, <2>3, PutType DEF Page, Other
  <2>5. c.words = Page.words /\ c.generation = Page.generation /\ c.profile = Page.profile
    BY <1>1, PageType DEF Committed, Broken, Contents
  <2>6. SaveSound'
    BY <1>1, <2>3, <2>4, <2>5 DEF SaveSound
  <2>7. CASE Loaded(slots') = Loaded(slots)
    BY <1>2, <2>2, <2>3, <2>6, <2>7 DEF IInv, Record!vars
  <2>8. CASE Loaded(slots') = save.profile
    <3>1. Record!Store
      BY <1>1, <1>2, <2>3, <2>8, StoreAssumption DEF Record!Store
    <3>2. QED
      BY <2>2, <2>3, <2>6, <3>1 DEF IInv, Record!Next
  <2>9. QED
    BY <2>2, <2>7, <2>8
<1>3. CASE \E c \in {Page, Committed, Broken(Page)} : Put(c) /\ Answer("failed")
  <2>1. PICK c \in {Page, Committed, Broken(Page)} : Put(c) /\ Answer("failed")
    BY <1>3
  <2>2. c \in Contents /\ Harmless(c)
    BY <1>1, <2>1, PagesInReach
  <2>3. IInv' /\ Loaded(slots') \in {Loaded(slots), save.profile} /\ save'.profile = NoProfile
    BY <1>1, <2>1, <2>2, EndInv
  <2>4. Record!Fail
    BY <1>1, <2>1, <2>3, StoreAssumption DEF Record!Fail, Answer
  <2>5. QED
    BY <2>3, <2>4 DEF Record!Next
<1>4. QED
  BY <1>2, <1>3 DEF Commit

LEMMA ConfirmStep ==
  ASSUME IInv, Confirm
  PROVE  IInv' /\ Record!Next
<1>1. /\ TypeOK /\ SaveSound /\ save.phase = "confirm" /\ slots' = slots
      /\ save.profile \in Profiles
  BY DEF IInv, Confirm, SaveSound
<1>2. CASE Readable(Page) /\ Answer("saved")
  <2>1. IInv' /\ save'.profile = NoProfile
    BY <1>1, <1>2, UnchangedIsPut, EndInv
  <2>2. /\ Page.generation = save.generation /\ Page.profile = save.profile
        /\ Readable(Other) => save.generation = Following(Other.generation)
    BY <1>1, StoreAssumption DEF SaveSound
  <2>3. Loaded(slots) = save.profile
    BY <1>1, <1>2, <2>2, FollowerIsLoaded DEF TypeOK, Page, Other
  <2>4. Record!Succeed
    BY <1>1, <1>2, <2>1, <2>3, StoreAssumption DEF Record!Succeed, Answer
  <2>5. QED
    BY <2>1, <2>4 DEF Record!Next
<1>3. CASE Answer("failed")
  <2>1. IInv' /\ save'.profile = NoProfile
    BY <1>1, <1>3, UnchangedIsPut, EndInv
  <2>2. Record!Fail
    BY <1>1, <1>3, <2>1, StoreAssumption DEF Record!Fail, Answer
  <2>3. QED
    BY <2>1, <2>2 DEF Record!Next
<1>4. QED
  BY <1>2, <1>3 DEF Confirm

LEMMA IdleStep ==
  ASSUME IInv, Refuse \/ \E p \in Profiles : SaveUnchanged(p)
  PROVE  IInv' /\ Record!Next
<1>1. TypeOK /\ SaveSound /\ GenerationsAreAdjacent /\ slots' = slots
      /\ save.phase = "idle" /\ save.profile = NoProfile
  BY DEF IInv, Refuse, SaveUnchanged, SaveSound
<1>2. CASE Refuse
  <2>1. IInv' /\ save'.profile = NoProfile /\ reply' = "failed"
    BY <1>1, <1>2, IdleIsSound DEF Refuse, IInv, TypeOK, GenerationsAreAdjacent, Answer
  <2>2. QED
    BY <1>1, <2>1 DEF Record!Refuse, Record!Next
<1>3. CASE \E p \in Profiles : SaveUnchanged(p)
  <2>1. PICK p \in Profiles : SaveUnchanged(p)
    BY <1>3
  <2>2. IInv' /\ save'.profile = NoProfile /\ reply' = "unchanged"
    BY <1>1, <2>1, IdleIsSound DEF SaveUnchanged, IInv, TypeOK, GenerationsAreAdjacent, Answer
  <2>3. Record!Same(p)
    BY <1>1, <2>1, <2>2 DEF SaveUnchanged, Record!Same
  <2>4. QED
    BY <2>2, <2>3 DEF Record!Next
<1>4. QED
  BY <1>2, <1>3

LEMMA CrashStep ==
  ASSUME IInv, Crash
  PROVE  IInv' /\ Record!Next
<1>1. TypeOK /\ SaveSound /\ GenerationsAreAdjacent
  BY DEF IInv
<1>2. PICK c \in Interrupted : Put(c) /\ Answer("none")
  BY DEF Crash
<1>3. CASE save.phase = "idle"
  <2>1. c = Page
    BY <1>2, <1>3 DEF Interrupted
  <2>2. slots' = slots
    BY <1>1, <1>2, <2>1, PageType DEF Put, Page, TypeOK
  <2>3. IInv' /\ save'.profile = NoProfile /\ reply' = "none"
    BY <1>1, <1>2, <2>2, IdleIsSound DEF IInv, TypeOK, GenerationsAreAdjacent, Answer
  <2>4. Record!Crash
    BY <2>2, <2>3 DEF Record!Crash
  <2>5. QED
    BY <2>3, <2>4 DEF Record!Next
<1>4. CASE save.phase # "idle"
  <2>1. c \in Contents /\ Harmless(c)
    BY <1>2, PagesInReach DEF Interrupted, Erasures, Harmless
  <2>2. IInv' /\ Loaded(slots') \in {Loaded(slots), save.profile} /\ save'.profile = NoProfile
    BY <1>2, <1>4, <2>1, EndInv
  <2>3. save.profile \in {save.profile} \ {NoProfile}
    BY <1>1, <1>4, StoreAssumption DEF SaveSound
  <2>4. Record!Crash
    BY <1>2, <2>2, <2>3 DEF Record!Crash, Answer
  <2>5. QED
    BY <2>2, <2>4 DEF Record!Next
<1>5. QED
  BY <1>3, <1>4

LEMMA NextStep == IInv /\ [Next]_vars => IInv' /\ [Record!Next]_Record!vars
<1>1. SUFFICES ASSUME IInv, [Next]_vars PROVE IInv' /\ [Record!Next]_Record!vars
  OBVIOUS
<1>2. CASE UNCHANGED vars
  BY <1>1, <1>2 DEF vars, IInv, TypeOK, GenerationsAreAdjacent, SaveSound, Page, Other, Record!vars
<1>3. CASE Next
  BY <1>1, <1>3, BeginStep, EraseStep, ProgramStep, VerifyStep, CommitStep, ConfirmStep,
     IdleStep, CrashStep DEF Next
<1>4. QED
  BY <1>1, <1>2, <1>3

LEMMA InitRecord == Init => Record!Init
<1>1. SUFFICES ASSUME Init PROVE Record!Init
  OBVIOUS
<1>2. \A s \in Slots : ~Readable(slots[s])
  BY <1>1, BlankType DEF Init
<1>3. QED
  BY <1>1, <1>2 DEF Init, NoSave, Record!Init, Loaded, HasLatest

-----------------------------------------------------------------------------
(* What the store keeps. *)

THEOREM Inductive == Spec => []IInv
BY InitInv, NextStep, PTL DEF Spec

\* The pages and the save under way have their types; a generation never
\* leaves its width.
THEOREM TypeCorrect == Spec => []TypeOK
<1>1. IInv => TypeOK
  BY DEF IInv
<1>2. QED
  BY <1>1, Inductive, PTL

\* select_latest is never asked to compare records that are not consecutive.
THEOREM AdjacentHolds == Spec => []GenerationsAreAdjacent
<1>1. IInv => GenerationsAreAdjacent
  BY DEF IInv
<1>2. QED
  BY <1>1, Inductive, PTL

\* Whatever the length of a record and wherever power is lost, a save is all or
\* nothing, and a save that reported success has stored its profile.
THEOREM Implementation == Spec => ImplementsRecord
<1>1. Spec => Record!Spec
  BY InitRecord, NextStep, Inductive, PTL DEF Spec, Record!Spec
<1>2. QED
  BY <1>1 DEF ImplementsRecord
=============================================================================
