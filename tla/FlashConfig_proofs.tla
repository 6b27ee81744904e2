------------------------- MODULE FlashConfig_proofs -------------------------
(***************************************************************************)
(* Proofs about FlashConfig, for every number of pages, every set of       *)
(* images and every history of firmware versions: the page-level config.c  *)
(* implements the whole-or-empty register of ConfigStore.                  *)
(***************************************************************************)
EXTENDS FlashConfig, TLAPS

USE DEF Erased, Garbage, Part

-----------------------------------------------------------------------------
(* The state space. *)

\* config.c:61-76: what a page can hold.
LEMMA CellsClosed ==
    /\ Erased \in Cells
    /\ Garbage \in Cells
    /\ \A i \in Images, v \in Versions, p \in 1..Pages : Part(i, v, p) \in Cells
BY DEF Cells

\* The variables keep their types: the page counter never leaves the blob and the
\* sector never holds anything but erased, spoiled or written pages.
THEOREM TypeCorrect == Spec => []TypeOK
<1>1. Init => TypeOK
  BY PagesAssumption, ImagesAssumption, CellsClosed DEF Init, TypeOK, Holds
<1>2. TypeOK /\ [Next]_vars => TypeOK'
  <2> SUFFICES ASSUME TypeOK, [Next]_vars PROVE TypeOK'
    OBVIOUS
  <2> USE PagesAssumption, ImagesAssumption, VersionAssumption DEF TypeOK
  <2>1. CASE config_load
    BY <2>1 DEF config_load, Acceptable
  <2>2. CASE config_set
    BY <2>2 DEF config_set
  <2>3. CASE SaveBegin
    BY <2>3 DEF SaveBegin
  <2>4. CASE EraseSector
    BY <2>4, CellsClosed DEF EraseSector
  <2>5. CASE ProgramPage
    <3>1. flash' \in [1..Pages -> Cells]
      BY <2>5, CellsClosed DEF ProgramPage
    <3>2. page' \in 1..Pages /\ pc' \in {"program", "verify"}
      BY <2>5 DEF ProgramPage, LastPage
    <3> QED
      BY <2>5, <3>1, <3>2 DEF ProgramPage
  <2>6. CASE Verify
    BY <2>6 DEF Verify
  <2>7. CASE PowerCut
    <3>1. flash' \in [1..Pages -> Cells]
      BY <2>7, CellsClosed DEF PowerCut, AfterCut
    <3> QED
      BY <2>7, <3>1 DEF PowerCut
  <2>8. CASE UNCHANGED vars
    BY <2>8 DEF vars
  <2> QED
    BY <2>1, <2>2, <2>3, <2>4, <2>5, <2>6, <2>7, <2>8 DEF Next
<1> QED
  BY <1>1, <1>2, PTL DEF Spec

\* While a save is under way the sector holds only erased pages, worn pages, and
\* pages of the very image that is being saved: what OkMeansStored and the refinement
\* rest on.
THEOREM ProgrammedInv == Spec => []Programmed
<1>1. Init => Programmed
  BY DEF Init, Programmed
<1>2. TypeOK /\ Programmed /\ [Next]_vars => Programmed'
  <2> SUFFICES ASSUME TypeOK, Programmed, [Next]_vars,
                      NEW p \in 1..Pages
               PROVE  /\ pc' = "program" => flash'[p] \in IF p < page'
                                                       THEN {Part(ram', Version, p), Garbage}
                                                       ELSE {Erased}
                      /\ pc' = "verify" => flash'[p] \in {Part(ram', Version, p), Garbage}
    BY DEF Programmed
  <2> USE PagesAssumption DEF TypeOK, Programmed
  <2>1. CASE EraseSector
    BY <2>1 DEF EraseSector
  <2>2. CASE ProgramPage
    <3> USE <2>2 DEF ProgramPage, LastPage
    <3>1. CASE p = page
      BY <3>1
    <3>2. CASE p # page
      BY <3>2
    <3> QED
      BY <3>1, <3>2
  <2>3. CASE config_load \/ config_set \/ SaveBegin \/ Verify \/ PowerCut
    BY <2>3 DEF config_load, config_set, SaveBegin, Verify, PowerCut
  <2>4. CASE UNCHANGED vars
    BY <2>4 DEF vars
  <2> QED
    BY <2>1, <2>2, <2>3, <2>4 DEF Next
<1> QED
  BY <1>1, <1>2, TypeCorrect, PTL DEF Spec

-----------------------------------------------------------------------------
(* What Stored says. *)

\* A sector is the blob of at most one image.
LEMMA HoldsUnique ==
    ASSUME NEW f, NEW i, NEW j, NEW v, NEW w, Holds(f, i, v), Holds(f, j, w)
    PROVE  i = j /\ v = w
<1>1. 1 \in 1..Pages
  BY PagesAssumption
<1>2. f[1] = Part(i, v, 1) /\ f[1] = Part(j, w, 1)
  BY <1>1 DEF Holds
<1> QED
  BY <1>2

\* config.c:48-59: an image that is whole is the one that config_load finds.
LEMMA StoredIs ==
    ASSUME NEW i \in Images, Holds(flash, i, Version)
    PROVE  Stored = i
BY HoldsUnique DEF Stored

\* config.c:48-59: and where none is whole it finds none.
LEMMA StoredNothing ==
    /\ (\A i \in Images : ~Holds(flash, i, Version)) => Stored = Nothing
    /\ Stored # Nothing => Stored \in Images /\ Holds(flash, Stored, Version)
    /\ Stored \in Images \cup {Nothing}
BY DEF Stored

\* An erased or spoiled page anywhere, and there is no image.
LEMMA Spoiled ==
    ASSUME NEW p \in 1..Pages, flash[p] \in {Erased, Garbage}
    PROVE  Stored = Nothing
<1> SUFFICES ASSUME NEW i \in Images, Holds(flash, i, Version) PROVE FALSE
  BY StoredNothing
<1>1. flash[p] = Part(i, Version, p)
  BY DEF Holds
<1> QED
  BY <1>1

\* config_save reports success only for what a reboot would read back.
THEOREM SaveIsTruthful == Spec => OkMeansStored
<1>1. TypeOK /\ Programmed /\ [Next]_vars => [pc = "verify" /\ saved' = "ok" => Stored = ram]_vars
  <2> SUFFICES ASSUME TypeOK, Programmed, Next, pc = "verify", saved' = "ok"
               PROVE  Stored = ram
    OBVIOUS
  <2>1. CASE Verify
    <3>1. PICK i \in Images, v \in Versions : Holds(flash, i, v)
      BY <2>1 DEF Verify, Sound
    <3>2. \A p \in 1..Pages : flash[p] = Part(ram, Version, p)
      BY <3>1 DEF Programmed, Holds
    <3>3. Holds(flash, ram, Version)
      BY <3>2 DEF TypeOK, Holds
    <3> QED
      BY <3>3, StoredIs DEF TypeOK
  <2>2. CASE ~Verify
    BY <2>2 DEF Next, config_load, config_set, SaveBegin, EraseSector, ProgramPage, PowerCut
  <2> QED
    BY <2>1, <2>2
<1> QED
  BY <1>1, TypeCorrect, ProgrammedInv, PTL DEF Spec, OkMeansStored

-----------------------------------------------------------------------------
(* The refinement. *)

\* A step that leaves the sector alone leaves Stored alone.
LEMMA SameSector == flash' = flash => Stored' = Stored
BY DEF Stored, Holds

\* The primed forms of the facts about Stored, for the state after a step.
LEMMA StoredNext ==
    /\ \A i \in Images : Holds(flash', i, Version) => Stored' = i
    /\ \A p \in 1..Pages : flash'[p] \in {Erased, Garbage} => Stored' = Nothing
    /\ Stored' # Nothing => Stored' \in Images /\ Holds(flash', Stored', Version)
<1>1. \A i \in Images : Holds(flash', i, Version) => Stored' = i
  BY HoldsUnique DEF Stored
<1>2. (\A i \in Images : ~Holds(flash', i, Version)) => Stored' = Nothing
  BY DEF Stored
<1>3. ASSUME NEW p \in 1..Pages, flash'[p] \in {Erased, Garbage}
      PROVE  Stored' = Nothing
  <2> SUFFICES ASSUME NEW i \in Images, Holds(flash', i, Version) PROVE FALSE
    BY <1>2
  <2>1. flash'[p] = Part(i, Version, p)
    BY DEF Holds
  <2> QED
    BY <1>3, <2>1
<1>4. Stored' # Nothing => Stored' \in Images /\ Holds(flash', Stored', Version)
  BY DEF Stored
<1> QED
  BY <1>1, <1>3, <1>4

\* What one programmed page can make of the sector: still nothing, or, with the last
\* page, the image that is being saved.
LEMMA ProgramPageStores ==
    ASSUME TypeOK, Programmed, ProgramPage
    PROVE  Stored = Nothing /\ Stored' \in {Nothing, ram}
<1> USE PagesAssumption DEF TypeOK
<1>1. Stored = Nothing
  BY Spoiled DEF Programmed, ProgramPage
<1>2. CASE Stored' = Nothing
  BY <1>1, <1>2
<1>3. CASE Stored' # Nothing
  <2>1. Stored' \in Images /\ Holds(flash', Stored', Version)
    BY <1>3, StoredNext
  <2>2. flash'[page] = Part(Stored', Version, page)
    BY <2>1 DEF Holds
  <2>3. flash'[page] \in {Part(ram, Version, page), Garbage}
    BY DEF ProgramPage
  <2> QED
    BY <1>1, <2>2, <2>3
<1> QED
  BY <1>2, <1>3

\* What a power cut can make of the sector: the same, or nothing.
LEMMA CutStores ==
    ASSUME TypeOK, PowerCut
    PROVE  Stored' \in {Stored, Nothing}
<1> USE PagesAssumption DEF TypeOK
<1>1. CASE flash' = flash
  BY <1>1, SameSector
<1>2. CASE flash' # flash /\ pc = "erase"
  <2>1. PICK S \in SUBSET (1..Pages) :
           flash' = [p \in 1..Pages |-> IF p \in S THEN Garbage ELSE flash[p]]
    BY <1>2 DEF PowerCut, AfterCut
  <2>2. PICK p \in S : TRUE
    BY <1>2, <2>1
  <2>3. p \in 1..Pages /\ flash'[p] = Garbage
    BY <2>1, <2>2
  <2> QED
    BY <2>3, StoredNext
<1>3. CASE flash' # flash /\ pc = "program"
  <2>1. flash'[page] = Garbage
    BY <1>3 DEF PowerCut, AfterCut
  <2> QED
    BY <2>1, StoredNext
<1> QED
  BY <1>1, <1>2, <1>3 DEF PowerCut, AfterCut

\* Nothing but the erase of a later save gives up a stored image: setters, boots,
\* reads and power cuts elsewhere leave it alone.
THEOREM OnlyEraseGivesUp == Spec => KeptUntilErase
<1>1. TypeOK /\ Programmed /\ [Next]_vars
        => [Stored # Nothing /\ Stored' # Stored => pc = "erase"]_vars
  <2> SUFFICES ASSUME TypeOK, Programmed, Next, Stored # Nothing, Stored' # Stored
               PROVE  pc = "erase"
    OBVIOUS
  <2>1. CASE flash' = flash
    BY <2>1, SameSector
  <2>2. CASE EraseSector
    BY <2>2 DEF EraseSector
  <2>3. CASE ProgramPage
    BY <2>3, ProgramPageStores
  <2>4. CASE PowerCut
    <3>1. CASE pc = "program"
      BY <3>1, Spoiled DEF Programmed, TypeOK
    <3>2. CASE pc \notin {"program", "erase"}
      BY <2>1, <2>4, <3>2 DEF PowerCut, AfterCut
    <3> QED
      BY <3>1, <3>2
  <2> QED
    BY <2>1, <2>2, <2>3, <2>4 DEF Next, config_load, config_set, SaveBegin, Verify
<1> QED
  BY <1>1, TypeCorrect, ProgrammedInv, PTL DEF Spec, KeptUntilErase

\* The page-level store implements the register that is whole or empty.
THEOREM Implementation == Spec => ImplementsStore
<1>1. Init => Store!Init
  BY StoredNothing, ImagesAssumption DEF Init, Store!Init, Loaded
<1>2. TypeOK /\ Programmed /\ [Next]_vars => [Store!Next]_(Store!vars)
  <2> SUFFICES ASSUME TypeOK, Programmed, [Next]_vars
               PROVE  Store!Next \/ UNCHANGED <<Stored, ram, Loaded>>
    BY DEF Store!vars
  <2> USE DEF Store!Next, Loaded
  <2>1. CASE config_load
    <3>1. Stored' = Stored
      BY <2>1, SameSector DEF config_load
    <3>2. ram' = IF Stored = Nothing THEN DefaultImage ELSE Stored
      <4>1. CASE \E i \in Images : Acceptable(i) /\ ram' = i
        BY <4>1, StoredIs, ImagesAssumption DEF Acceptable
      <4>2. CASE (\A i \in Images : ~Acceptable(i)) /\ ram' = DefaultImage
        BY <4>2, StoredNothing DEF Acceptable
      <4> QED
        BY <2>1, <4>1, <4>2 DEF config_load
    <3> QED
      BY <2>1, <3>1, <3>2 DEF config_load, Store!Load
  <2>2. CASE config_set
    BY <2>2, SameSector DEF config_set, Store!Set
  <2>3. CASE SaveBegin \/ Verify
    BY <2>3, SameSector DEF SaveBegin, Verify
  <2>4. CASE EraseSector
    <3>1. 1 \in 1..Pages /\ flash'[1] = Erased
      BY <2>4, PagesAssumption DEF EraseSector
    <3>2. Stored' = Nothing
      BY <3>1, StoredNext
    <3> QED
      BY <2>4, <3>2 DEF EraseSector, Store!Empty
  <2>5. CASE ProgramPage
    <3>1. Stored = Nothing /\ Stored' \in {Nothing, ram} /\ ram' = ram
      BY <2>5, ProgramPageStores DEF ProgramPage
    <3> QED
      BY <2>5, <3>1 DEF ProgramPage, Store!Commit
  <2>6. CASE PowerCut
    BY <2>6, CutStores DEF PowerCut, Store!Cut
  <2>7. CASE UNCHANGED vars
    BY <2>7, SameSector DEF vars
  <2> QED
    BY <2>1, <2>2, <2>3, <2>4, <2>5, <2>6, <2>7 DEF Next
<1> QED
  BY <1>1, <1>2, TypeCorrect, ProgrammedInv, PTL DEF Spec, ImplementsStore, Store!Spec
=============================================================================
