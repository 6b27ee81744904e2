---------------------------- MODULE FlashConfig ----------------------------
(***************************************************************************)
(* src/config.c at the level of flash pages.  stored_t (magic, version,    *)
(* config_t, crc) fills Pages pages of one sector.  config_save erases the *)
(* sector and programs it page by page with interrupts disabled, then      *)
(* verifies through XIP; the power can go between, or in the middle of,    *)
(* any of these steps.  config_load accepts the sector only when magic,    *)
(* version and CRC agree.                                                  *)
(*                                                                         *)
(* A page holds Erased, Garbage, or part p of the blob a firmware of some  *)
(* version wrote.  The CRC is abstracted to what it is there for: it holds *)
(* exactly when all pages are parts of one and the same blob.              *)
(***************************************************************************)
EXTENDS Naturals

CONSTANTS Images,         \* the values config_t can take
          DefaultImage,   \* memset(0) with sleep_s = DEFAULT_SLEEP_S
          Nothing,        \* stands for "no valid image in the sector"
          Pages,          \* pages per blob (4 for the present stored_t)
          Versions,       \* CONFIG_VERSION of the firmwares this board has run
          Version         \* CONFIG_VERSION of the firmware running now

ASSUME PagesAssumption   == Pages \in Nat \ {0}
ASSUME ImagesAssumption  == DefaultImage \in Images /\ Nothing \notin Images
ASSUME VersionAssumption == Version \in Versions

VARIABLES flash,   \* the sector: contents of each page
          ram,     \* s_cfg
          pc,      \* "off", "run", "erase", "program", "verify"
          page,    \* next page flash_range_program writes
          saved    \* result of the last config_save since boot: "none", "ok", "failed"

vars == <<flash, ram, pc, page, saved>>

Erased  == [part |-> 0, kind |-> "erased"]
Garbage == [part |-> 0, kind |-> "garbage"]

\* Part p of the blob stored_t{magic, v, i, crc}.
Part(i, v, p) == [part |-> p, kind |-> "data", img |-> i, ver |-> v]

Cells == {Erased, Garbage}
    \cup [part: 1..Pages, kind: {"data"}, img: Images, ver: Versions]

\* The sector holds, undamaged, the blob of image i and version v.
Holds(f, i, v) == f = [p \in 1..Pages |-> Part(i, v, p)]

\* Mutant: the read-back looks at the magic only.
Sound_magic_only(f) == f[1].kind = "data"

\* f->magic == CONFIG_MAGIC && f->crc == crc32(f, ...): what config_save verifies.
Sound(f) == \E i \in Images, v \in Versions : Holds(f, i, v)

-----------------------------------------------------------------------------
\* A board leaves with a blank sector, or carries the blob of an earlier firmware.
Init == /\ \/ flash = [p \in 1..Pages |-> Erased]
           \/ \E i \in Images, v \in Versions : Holds(flash, i, v)
        /\ ram = DefaultImage
        /\ pc = "off"
        /\ page = 1
        /\ saved = "none"

\* Mutant: the CRC dropped; magic and version, both on page 1, are enough.
Acceptable_no_crc(i) == flash[1] = Part(i, Version, 1)

\* What config_load asks of the sector before it adopts image i.
Acceptable(i) == Holds(flash, i, Version)

\* config_load at boot: a valid blob of this version, or the defaults.
config_load ==
    /\ pc = "off"
    /\ \/ \E i \in Images : Acceptable(i) /\ ram' = i
       \/ /\ \A i \in Images : ~Acceptable(i)
          /\ ram' = DefaultImage
    /\ pc' = "run"
    /\ UNCHANGED <<flash, page, saved>>

\* Any setter.
config_set ==
    /\ pc = "run"
    /\ ram' \in Images
    /\ UNCHANGED <<flash, pc, page, saved>>

\* Mutant: flash_range_erase forgotten; programming starts over the old blob.
SaveBegin_no_erase ==
    /\ pc = "run"
    /\ pc' = "program"
    /\ UNCHANGED <<flash, ram, page, saved>>

\* config_save, in the order of its calls.
SaveBegin ==
    /\ pc = "run"
    /\ pc' = "erase"
    /\ UNCHANGED <<flash, ram, page, saved>>

EraseSector ==
    /\ pc = "erase"
    /\ flash' = [p \in 1..Pages |-> Erased]
    /\ page' = 1
    /\ pc' = "program"
    /\ UNCHANGED <<ram, saved>>

\* Mutant: one page too many.
LastPage_off_by_one == Pages + 1

\* sizeof page, in pages.
LastPage == Pages

\* One page of flash_range_program; a worn cell keeps something else.
ProgramPage ==
    /\ pc = "program"
    /\ \E c \in {Part(ram, Version, page), Garbage} : flash' = [flash EXCEPT ![page] = c]
    /\ IF page = LastPage THEN pc' = "verify" /\ page' = 1
                          ELSE pc' = pc       /\ page' = page + 1
    /\ UNCHANGED <<ram, saved>>

Verify ==
    /\ pc = "verify"
    /\ saved' = IF Sound(flash) THEN "ok" ELSE "failed"
    /\ pc' = "run"
    /\ UNCHANGED <<flash, ram, page>>

\* What a power cut leaves of the sector.  An interrupted erase spoils any set of
\* pages; an interrupted program spoils at most the page it was writing.
AfterCut(f) ==
    \/ f = flash
    \/ /\ pc = "erase"
       /\ \E S \in SUBSET (1..Pages) :
             f = [p \in 1..Pages |-> IF p \in S THEN Garbage ELSE flash[p]]
    \/ pc = "program" /\ f = [flash EXCEPT ![page] = Garbage]

PowerCut ==
    /\ pc # "off"
    /\ AfterCut(flash')
    /\ ram' = DefaultImage
    /\ pc' = "off"
    /\ page' = 1
    /\ saved' = "none"

Next == \/ config_load \/ config_set
        \/ SaveBegin \/ EraseSector \/ ProgramPage \/ Verify
        \/ PowerCut

Spec == Init /\ [][Next]_vars

-----------------------------------------------------------------------------
TypeOK == /\ flash \in [1..Pages -> Cells]
          /\ ram \in Images
          /\ pc \in {"off", "run", "erase", "program", "verify"}
          /\ page \in 1..Pages
          /\ saved \in {"none", "ok", "failed"}

\* The image a config_load of this firmware would adopt now.
Stored == IF \E i \in Images : Holds(flash, i, Version)
          THEN CHOOSE i \in Images : Holds(flash, i, Version)
          ELSE Nothing

\* config_load has run since the last reset.
Loaded == pc # "off"

\* Pages at a time, with cuts in the middle of any of them, the sector behaves as one
\* register that is whole or empty: config_load (config.c:48-59) never adopts a mix of
\* two images, a spoiled one, or one of another CONFIG_VERSION.
Store == INSTANCE ConfigStore WITH stored <- Stored, loaded <- Loaded
ImplementsStore == Store!Spec

\* config_save returns true (config.c:80-82, "true on a successful program+verify") only
\* when a reboot would read back exactly the RAM image that was to be saved.
OkMeansStored == [][pc = "verify" /\ saved' = "ok" => Stored = ram]_vars

\* A stored image survives boots, setters and power cuts: nothing but the erase of a
\* later config_save gives it up.
KeptUntilErase == [][Stored # Nothing /\ Stored' # Stored => pc = "erase"]_vars

\* The strengthening the proofs use: while a page is being programmed, those before it
\* hold the RAM image or are worn, and those from it on are erased.
Programmed == \A p \in 1..Pages :
    /\ pc = "program" => flash[p] \in IF p < page THEN {Part(ram, Version, p), Garbage}
                                                 ELSE {Erased}
    /\ pc = "verify"  => flash[p] \in {Part(ram, Version, p), Garbage}
=============================================================================
