------------------------------ MODULE CDAccess -------------------------------
(***************************************************************************)
(* What the CD interface of mednafen/cdrom/cdromif.cpp sees of a CDAccess  *)
(* object: the discs behind it, what Read_TOC leaves in a table of         *)
(* contents, and what Read_Raw_Sector returns.  A PBP file holds up to     *)
(* five discs, of which an insertion picks one; any other image is one     *)
(* disc, whose table of contents does not change and is checked once.      *)
(***************************************************************************)
EXTENDS Integers

CONSTANTS
  CD_IsPBP,     \* the object is a CDAccess_PBP
  DiscCount,    \* the discs it can switch between: PBP_DiscCount, or 1
  LeadOut,      \* the lead-out (tracks[100].lba) of each disc
  TocCanFail,   \* Read_TOC may throw, or the track number check after it may fail
  ReadCanFail   \* Read_Raw_Sector may throw (an unreadable or truncated image)

Discs == 0 .. DiscCount - 1

ASSUME DiscsAssumption ==
  /\ CD_IsPBP \in BOOLEAN /\ TocCanFail \in BOOLEAN /\ ReadCanFail \in BOOLEAN
  /\ DiscCount \in Nat \ {0} /\ (CD_IsPBP \/ DiscCount = 1)
  /\ TocCanFail => CD_IsPBP
  /\ LeadOut \in [Discs -> Nat]

\* A disc_toc is reduced to its lead-out and to whether it passed the checks.
EmptyToc   == [end |-> 0, good |-> FALSE]
GoodToc(d) == [end |-> LeadOut[d], good |-> TRUE]
\* Read_TOC throws after TOC_Clear, or something throws after it filled the table in.
BadTocs(d) == IF TocCanFail
                THEN {[end |-> e, good |-> FALSE] : e \in {0, LeadOut[d]}} ELSE {}
Tocs       == [end : Nat, good : BOOLEAN]

\* CDAccess::Eject with CD_SelectedDisc = selected: only an insertion switches discs.
DiscAfterEject(eject_status, selected, d) ==
  IF CD_IsPBP /\ ~eject_status /\ selected \in Discs THEN selected ELSE d

\* A sector buffer: its data is reduced to the disc and LBA it was read from.
Sector == [valid : BOOLEAN, error : BOOLEAN, lba : Nat, disc : Discs]
EmptySector == [valid |-> FALSE, error |-> FALSE, lba |-> 0, disc |-> 0]
SectorsRead(d, lba) ==
  [valid : {TRUE}, error : {FALSE, ReadCanFail}, lba : {lba}, disc : {d}]
==============================================================================
