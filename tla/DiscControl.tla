----------------------------- MODULE DiscControl -----------------------------
(***************************************************************************)
(* The disk control interface of libretro.cpp: the frontend opens and      *)
(* closes the tray, selects, replaces, removes and adds disc images, and   *)
(* saves and loads states between frames.  The core keeps the list of CD   *)
(* interfaces, the tray flag and selection that are saved in states, the   *)
(* frontend's eject_state that is not, and the interface the CDC reads.    *)
(*                                                                         *)
(* libretro.h permits more than the core can take.  LoadsWhileEjected,     *)
(* RemovesSelected and LeavesUnfilled say which of these calls the         *)
(* frontend makes: the properties hold with all of them, in the words they *)
(* are stated in, and what libretro.h says fails with the first two.       *)
(***************************************************************************)
EXTENDS Integers, SequencesExt

CONSTANTS
  CD_IsPBP,           \* one PBP file of DiscCount discs; otherwise DiscCount images
  DiscCount,
  TocCanFail,         \* closing the tray on a PBP disc may fail (CDIF_ST!Eject)
  LoadsWhileEjected,  \* states are saved and loaded with the tray open, too
  RemovesSelected,    \* the image that is selected, or any while none is, may be removed
  LeavesUnfilled,     \* other calls may come between adding an index and filling it
  MaxImages, MaxOpened  \* bounds: images in the list, images opened in all

ASSUME DiscControlAssumption ==
  /\ {CD_IsPBP, TocCanFail, LoadsWhileEjected, RemovesSelected, LeavesUnfilled} \subseteq BOOLEAN
  /\ DiscCount \in Nat \ {0} /\ MaxImages \in Nat /\ MaxOpened \in Nat
  /\ TocCanFail => CD_IsPBP

VARIABLES
  eject_state, CD_TrayOpen, CD_SelectedDisc,
  cdifs,        \* the CD interfaces, numbered as they are opened; NULL for an added index
  opened,       \* how many were opened
  scex_ids,     \* the length of cdifs_scex_ids
  DiscEjected,  \* of every interface
  pbp_disc,     \* the disc a PBP file reads
  Cur_CDIF,     \* of the CDC
  saved_state,  \* the saved state: a set of one, or of none before the first
  chosen,       \* the disc the frontend last chose, by an index or by a state, or how
                \* its choice was lost (history)
  fault         \* the undefined behaviour the last call ran into

discVars == <<eject_state, CD_TrayOpen, CD_SelectedDisc, cdifs, opened, scex_ids,
              DiscEjected, pbp_disc, Cur_CDIF, saved_state, chosen, fault>>

NULL   == 0
Ids    == 1 .. MaxOpened
Drive  == IF Cur_CDIF = NULL THEN <<>> ELSE <<Cur_CDIF, pbp_disc>>

\* A choice is lost when its image is removed, and when an index is chosen in an ejected
\* drive whose tray a state has closed.
Removed    == <<-1>>
Miscounted == <<-2>>
Lost       == {Removed, Miscounted}

disk_get_num_images == IF CD_IsPBP THEN DiscCount ELSE Len(cdifs)

\* The disc an index names, in the form of Drive: an interface and the disc in its file.
DiscAt(index) ==
  IF index \notin 0 .. disk_get_num_images - 1 THEN <<>>
  ELSE IF CD_IsPBP THEN <<cdifs[1], index>> ELSE <<cdifs[index + 1], 0>>

\* InitCommon: the first disc is in the closed drive.
DiscInit ==
  /\ eject_state = FALSE /\ CD_TrayOpen = FALSE /\ CD_SelectedDisc = 0
  /\ cdifs = [i \in 1 .. (IF CD_IsPBP THEN 1 ELSE DiscCount) |-> i]
  /\ opened = Len(cdifs) /\ scex_ids = Len(cdifs)
  /\ DiscEjected = [i \in Ids |-> FALSE] /\ pbp_disc = 0 /\ Cur_CDIF = 1
  /\ saved_state = {} /\ chosen = DiscAt(0) /\ fault = "none"

------------------------------------------------------------------------------
\* The frontend calls, one after the other, until a call runs into undefined behaviour;
\* unless it LeavesUnfilled, it fills an added index first.
MayCall        == fault = "none" /\ (LeavesUnfilled \/ ~Contains(cdifs, NULL))
MayFill(index) == /\ fault = "none" /\ index < Len(cdifs)
                  /\ LeavesUnfilled \/ ~Contains(cdifs, NULL) \/ cdifs[index + 1] = NULL

\* CDC->SetDisc(tray, (*cdifs)[index], cdifs_scex_ids[index]), indexed only for a closed
\* tray with a selected disc.
CDC_SetDisc(tray, selected, index) ==
  IF tray \/ selected < 0
    THEN Cur_CDIF' = NULL /\ fault' = "none"
    ELSE IF index < Len(cdifs) /\ index < scex_ids
           THEN Cur_CDIF' = cdifs[index + 1] /\ fault' = "none"
           ELSE fault' = "index out of range" /\ UNCHANGED Cur_CDIF

\* Toggle the tray, tell every interface, toggle back if one fails.
CDInsertEject ==
  LET tray == ~CD_TrayOpen
      file == cdifs[1]
  IN IF Contains(cdifs, NULL)
       THEN /\ fault' = "null dereference"
            /\ UNCHANGED <<CD_TrayOpen, DiscEjected, pbp_disc, Cur_CDIF>>
       ELSE \E fails \in BOOLEAN :
              /\ fails => TocCanFail /\ ~tray /\ DiscEjected[file]
              /\ CD_TrayOpen' = IF fails THEN ~tray ELSE tray
              /\ DiscEjected' = [i \in Ids |-> IF Contains(cdifs, i) THEN tray ELSE DiscEjected[i]]
              /\ pbp_disc' = IF CD_IsPBP /\ ~tray /\ DiscEjected[file] /\ CD_SelectedDisc \in 0 .. DiscCount - 1
                               THEN CD_SelectedDisc ELSE pbp_disc
              /\ CDC_SetDisc(CD_TrayOpen', CD_SelectedDisc, IF CD_IsPBP THEN 0 ELSE CD_SelectedDisc)

\* disk_set_eject_state: nothing is done if the frontend's view does not change.
\* An ejection leaves an open tray alone (CDEject), an insertion toggles it whatever
\* it is.
AlreadySo(ejected) == ejected = eject_state

disk_set_eject_state(ejected) ==
  /\ MayCall /\ ~AlreadySo(ejected)
  /\ eject_state' = ejected
  /\ IF ejected /\ CD_TrayOpen
       THEN UNCHANGED <<CD_TrayOpen, DiscEjected, pbp_disc, Cur_CDIF, fault>>
       ELSE CDInsertEject
  /\ UNCHANGED <<CD_SelectedDisc, cdifs, opened, scex_ids, saved_state, chosen>>

\* disk_set_image_index steps back so that CDSelect, which counts on and wraps to -1,
\* arrives at the index, if the tray is open (mutant: it does not step back).
Decremented_Not(selected) == selected
Decremented(selected)     == selected - 1

CDSelect(selected) ==
  LET n    == disk_get_num_images
      next == (selected + 1) % (n + 1)
  IN IF CD_TrayOpen THEN (IF next = n THEN -1 ELSE next) ELSE selected

\* libretro.h: only called when the disk is ejected.
disk_set_image_index(index) ==
  /\ MayCall /\ eject_state
  /\ CD_SelectedDisc' =
       CDSelect(Decremented(IF index > disk_get_num_images THEN disk_get_num_images ELSE index))
  /\ chosen' = IF CD_TrayOpen THEN DiscAt(index) ELSE Miscounted
  /\ UNCHANGED <<eject_state, CD_TrayOpen, cdifs, opened, scex_ids, DiscEjected,
                 pbp_disc, Cur_CDIF, saved_state, fault>>

\* CalcDiscSCEx looks into every image of the new list.
CalcDiscSCEx(images) ==
  IF Contains(images, NULL)
    THEN fault' = "null dereference" /\ UNCHANGED scex_ids
    ELSE fault' = "none" /\ scex_ids' = Len(images)

MayReplace(index) == ~CD_IsPBP /\ eject_state

\* disk_replace_image_index with an image that opens (one that does not changes nothing).
disk_replace_image_index(index) ==
  /\ MayFill(index) /\ MayReplace(index) /\ opened < MaxOpened
  /\ opened' = opened + 1
  /\ cdifs' = [cdifs EXCEPT ![index + 1] = opened']
  /\ CalcDiscSCEx(cdifs')
  /\ chosen' = IF chosen = DiscAt(index) THEN DiscAt(index)' ELSE chosen
  /\ UNCHANGED <<eject_state, CD_TrayOpen, CD_SelectedDisc, DiscEjected, pbp_disc, Cur_CDIF, saved_state>>

\* ... and without one.  The comparison is unsigned: -1 is above every index.
remove_image_index(index) ==
  /\ MayFill(index) /\ MayReplace(index)
  /\ RemovesSelected \/ CD_SelectedDisc # index
  /\ cdifs' = RemoveAt(cdifs, index + 1)
  /\ CD_SelectedDisc' = IF CD_SelectedDisc < 0 \/ index < CD_SelectedDisc
                          THEN CD_SelectedDisc - 1 ELSE CD_SelectedDisc
  /\ CalcDiscSCEx(cdifs')
  /\ chosen' = IF CD_SelectedDisc = index THEN Removed ELSE chosen
  /\ UNCHANGED <<eject_state, CD_TrayOpen, opened, DiscEjected, pbp_disc, Cur_CDIF, saved_state>>

\* (Only an open tray lets the frontend fill the index.)
disk_add_image_index ==
  /\ MayCall /\ ~CD_IsPBP /\ Len(cdifs) < MaxImages
  /\ LeavesUnfilled \/ (eject_state /\ opened < MaxOpened)
  /\ cdifs' = Append(cdifs, NULL)
  /\ UNCHANGED <<eject_state, CD_TrayOpen, CD_SelectedDisc, opened, scex_ids, DiscEjected,
                 pbp_disc, Cur_CDIF, saved_state, chosen, fault>>

\* retro_serialize
Save ==
  /\ MayCall /\ (LoadsWhileEjected \/ ~eject_state)
  /\ saved_state' = {[tray |-> CD_TrayOpen, selected |-> CD_SelectedDisc]}
  /\ UNCHANGED <<eject_state, CD_TrayOpen, CD_SelectedDisc, cdifs, opened, scex_ids,
                 DiscEjected, pbp_disc, Cur_CDIF, chosen, fault>>

\* StateAction(load): a selection beyond the list becomes "no disc" (mutant: it does
\* not).
Restored_Unchecked(selected) == selected
Restored(selected) == IF selected >= Len(cdifs) THEN -1 ELSE selected

Load ==
  \E s \in saved_state :
    /\ MayCall /\ (LoadsWhileEjected \/ ~eject_state)
    /\ CD_TrayOpen' = s.tray /\ CD_SelectedDisc' = Restored(s.selected)
    /\ CDC_SetDisc(s.tray, CD_SelectedDisc', CD_SelectedDisc')
    /\ chosen' = DiscAt(CD_SelectedDisc')
    /\ UNCHANGED <<eject_state, cdifs, opened, scex_ids, DiscEjected, pbp_disc, saved_state>>

\* The core may have crashed.
Undefined == fault # "none" /\ UNCHANGED discVars

DiscNext ==
  \/ \E ejected \in BOOLEAN : disk_set_eject_state(ejected)
  \/ \E index \in 0 .. MaxImages :
       disk_set_image_index(index) \/ disk_replace_image_index(index) \/ remove_image_index(index)
  \/ disk_add_image_index \/ Save \/ Load \/ Undefined

DiscSpec == DiscInit /\ [][DiscNext]_discVars

------------------------------------------------------------------------------
DiscTypeOK ==
  /\ {eject_state, CD_TrayOpen} \subseteq BOOLEAN /\ CD_SelectedDisc \in Int
  /\ cdifs \in Seq(Ids \cup {NULL}) /\ opened \in Nat /\ scex_ids \in Nat
  /\ DiscEjected \in [Ids -> BOOLEAN] /\ pbp_disc \in 0 .. DiscCount - 1
  /\ Cur_CDIF \in Ids \cup {NULL} /\ saved_state \in SUBSET [tray : BOOLEAN, selected : Int]
  /\ chosen \in Seq(Nat) \cup Lost
  /\ fault \in {"none", "index out of range", "null dereference"}

(***************************************************************************)
(* The core indexes past its lists or calls an interface that was never    *)
(* opened only while an added index waits for its image, or after the      *)
(* selected image was removed and before another one is chosen: no state   *)
(* that is loaded, with the tray open or closed, and no other sequence of  *)
(* tray, selection and list calls brings it there.  And where the core's   *)
(* tray is what the frontend sees (disk_get_eject_state) the interface     *)
(* that the CDC reads has not been deleted.                                *)
(***************************************************************************)
FaultsAreForeseen ==
  /\ fault # "none" => Contains(cdifs, NULL) \/ chosen = Removed
  /\ fault = "none" /\ eject_state = CD_TrayOpen /\ Cur_CDIF # NULL => Contains(cdifs, Cur_CDIF)

(***************************************************************************)
(* Where the core's tray is what the frontend sees, a closed one holds the *)
(* disc the frontend chose, or none if it chose none, however images were  *)
(* replaced, removed and added around it while the tray was open, and      *)
(* whatever state was loaded with the tray open or closed; an open one     *)
(* holds none.  The two differ after a state is loaded that was saved with *)
(* the other tray, until the next insertion or ejection; a choice made     *)
(* meanwhile, or removed, is lost.  The property is about lists of images: *)
(* in a PBP file loading a state does not change the disc, nor does a      *)
(* second insertion after one that failed.                                 *)
(***************************************************************************)
DriveHoldsChoice ==
  ~CD_IsPBP /\ fault = "none" /\ eject_state = CD_TrayOpen /\ chosen \notin Lost =>
    Drive = IF eject_state THEN <<>> ELSE chosen

(***************************************************************************)
(* What libretro.h says of removal: "Replacing a disk image with info =    *)
(* NULL will remove the disk image from the internal list."  It does not   *)
(* except the selected one, which the core cannot take: CDInsertEject then *)
(* indexes past the list.                                                  *)
(***************************************************************************)
NoUndefinedBehaviour == fault = "none"

(***************************************************************************)
(* What libretro.h says of ejection: 'If ejected is true, "ejects" the     *)
(* virtual disk tray.'  While the core reports it as ejected the drive has *)
(* no disc.  StateAction puts a disc into it: it restores the tray, and    *)
(* eject_state is not saved.                                               *)
(***************************************************************************)
EjectedDriveIsEmpty == fault = "none" /\ eject_state => Drive = <<>>
==============================================================================
