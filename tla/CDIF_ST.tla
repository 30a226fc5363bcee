------------------------------- MODULE CDIF_ST -------------------------------
(***************************************************************************)
(* The single-threaded CD interface of mednafen/cdrom/cdromif.cpp, and the *)
(* client that calls it.  It is also what a CDIF promises: a read returns  *)
(* the sector of the disc that is in the drive, an insertion re-reads the  *)
(* table of contents, and every call returns.  CDIF_MT implements it.      *)
(*                                                                         *)
(* A call is three steps, so that an implementation may do other work      *)
(* between them: it is made, it takes effect, it returns.                  *)
(***************************************************************************)
EXTENDS CDAccess

CONSTANT MaxLBA    \* bound: the highest LBA a client asks for

VARIABLES
  pc,               \* where the client is: "idle", or the call and its progress
  arg,              \* the argument of the call: an LBA, or the eject status
  buf,              \* the sector the current read has copied
  result,           \* what the current call will return
  tray_open,        \* the client's view of the tray (CD_TrayOpen of libretro.cpp)
  CD_SelectedDisc,  \* the disc a PBP file switches to on the next insert, -1 for none
  disc_toc, DiscEjected,
  cda_disc          \* the disc the CDAccess object reads sectors from

clientVars == <<tray_open, CD_SelectedDisc>>
discVars   == <<disc_toc, DiscEjected, cda_disc>>
vars       == <<pc, arg, buf, result, clientVars, discVars>>

LBAs == 0 .. MaxLBA

Init ==
  /\ pc = "ctor" /\ arg = 0 /\ buf = EmptySector /\ result = TRUE
  /\ tray_open = FALSE /\ CD_SelectedDisc = 0
  /\ disc_toc = EmptyToc /\ DiscEjected = FALSE /\ cda_disc = 0

\* Read_TOC and the check after it.
ReadToc(d) ==
  \/ disc_toc' = GoodToc(d) /\ result' = TRUE
  \/ disc_toc' \in BadTocs(d) /\ result' = FALSE

\* The constructor reads the table of contents of the disc the file was opened with.
Construct ==
  /\ pc = "ctor" /\ pc' = "constructed"
  /\ ReadToc(cda_disc)
  /\ UNCHANGED <<arg, buf, clientVars, DiscEjected, cda_disc>>

\* A failed constructor throws: there is no object to call.
Constructed ==
  /\ pc = "constructed"
  /\ pc' = IF result THEN "idle" ELSE "closing"
  /\ result' = TRUE
  /\ UNCHANGED <<arg, buf, clientVars, discVars>>

\* CDSelect: with the tray open, choose the disc of the next insert, or none.
SelectDisc ==
  /\ pc = "idle" /\ tray_open
  /\ CD_SelectedDisc' \in -1 .. DiscCount - 1
  /\ UNCHANGED <<pc, arg, buf, result, tray_open, discVars>>

\* ReadRawSector: the call, the sector it reads, the return.
CallRead(lba) ==
  /\ pc = "idle"
  /\ pc' = "read" /\ arg' = lba
  /\ UNCHANGED <<buf, result, clientVars, discVars>>

ReadRawSector ==
  /\ pc = "read" /\ pc' = "have sector"
  /\ buf' \in SectorsRead(cda_disc, arg)
  /\ UNCHANGED <<arg, result, clientVars, discVars>>

ReturnSector ==
  /\ pc = "have sector" /\ pc' = "idle"
  /\ arg' = 0 /\ buf' = EmptySector
  /\ UNCHANGED <<result, clientVars, discVars>>

\* Eject(TRUE) and Eject(FALSE), and CDInsertEject, which moves its own tray
\* flag only if the call succeeded.
CallEject(eject_status) ==
  /\ pc = "idle" /\ pc' = "eject"
  /\ arg' = eject_status
  /\ UNCHANGED <<buf, result, clientVars, discVars>>

Eject ==
  /\ pc = "eject" /\ pc' = "ejected"
  /\ LET eject_status == arg = 1
     IN /\ DiscEjected' = eject_status
        /\ cda_disc' = IF DiscEjected # eject_status
                         THEN DiscAfterEject(eject_status, CD_SelectedDisc, cda_disc)
                         ELSE cda_disc
        /\ \/ /\ DiscEjected = eject_status \/ eject_status
              /\ result' = TRUE /\ UNCHANGED disc_toc
           \/ /\ DiscEjected /\ ~eject_status
              /\ ReadToc(cda_disc')
  /\ UNCHANGED <<arg, buf, clientVars>>

TrayAfter(ok, eject_status) == IF ok THEN eject_status = 1 ELSE tray_open

EjectReturns ==
  /\ pc = "ejected" /\ pc' = "idle"
  /\ tray_open' = TrayAfter(result, arg)
  /\ arg' = 0 /\ result' = TRUE
  /\ UNCHANGED <<buf, CD_SelectedDisc, discVars>>

\* The destructor deletes the CDAccess object.
Destroy ==
  /\ pc = "idle" /\ pc' = "closing"
  /\ UNCHANGED <<arg, buf, result, clientVars, discVars>>

Closed ==
  /\ pc = "closing" /\ pc' = "gone"
  /\ UNCHANGED <<arg, buf, result, clientVars, discVars>>

\* The object is destroyed: nothing more happens.
Gone == pc = "gone" /\ UNCHANGED vars

CallContinues == Construct \/ Constructed \/ ReadRawSector \/ ReturnSector
                   \/ Eject \/ EjectReturns \/ Closed

NewCall == \/ SelectDisc
           \/ \E lba \in LBAs : CallRead(lba)
           \/ \E eject_status \in {0, 1} : CallEject(eject_status)
           \/ Destroy

Next == CallContinues \/ NewCall \/ Gone

\* A call that was made is carried on; nobody has to make one.
Spec == Init /\ [][Next]_vars /\ WF_vars(CallContinues)

------------------------------------------------------------------------------
TypeOK ==
  /\ pc \in {"ctor", "constructed", "idle", "read", "have sector", "eject", "ejected",
             "closing", "gone"}
  /\ arg \in LBAs \cup {0, 1}
  /\ buf \in Sector /\ result \in BOOLEAN
  /\ tray_open \in BOOLEAN /\ CD_SelectedDisc \in -1 .. DiscCount - 1
  /\ disc_toc \in Tocs /\ DiscEjected \in BOOLEAN /\ cda_disc \in Discs
==============================================================================
