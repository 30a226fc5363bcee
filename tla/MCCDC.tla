-------------------------------- MODULE MCCDC --------------------------------
(* A short disc for TLC: a data track of four sectors and a sound track of one. *)
EXTENDS CDC

MCStart == [t \in 1..2 |-> IF t = 1 THEN 0 ELSE 4]
MCLocOf == [v \in {0, 1} |-> IF v = 0 THEN 0 ELSE 4]
MCModeOf == [v \in {0, 1} |-> IF v = 0 THEN {} ELSE {"cdda", "autopause", "report", "strsnd"}]

\* What the future depends on: nothing that is overwritten before it is looked at, as the last
\* subchannel Q is, each being readable, nor the header that only GetlocL asks for.
Seeks(c) == c.DriveStatus \in {"SEEKING", "SEEKING_LOGICAL"}
Plays(c) == c.DriveStatus = "PLAYING" \/ (Seeks(c) /\ c.StatusAfterSeek = "PLAYING")
Live(c) ==
  <<c.disc, c.DiscStartupDelay, c.DriveStatus, c.PSR,
    IF Seeks(c) THEN <<c.StatusAfterSeek, c.SeekTarget, c.SeekRetryCounter>> ELSE <<>>,
    c.CurSector, c.SectorsRead, c.CommandLoc, c.Dirty, c.SectorPipe, c.Mode,
    IF Plays(c) THEN <<c.PlayTrackMatch, c.Forward, c.Backward, c.SubQChecksumOK>> ELSE <<>>,
    c.CDCReady, c.IRQ, c.AIP, c.Args, c.failed,
    IF c.Counter THEN <<c.Command, c.Phase, c.Received, IF c.Phase = 0 THEN c.Latch ELSE 0>> ELSE <<>> >>
LiveView == <<Live(cd),  IF cd.Counter /\ cd.Phase <= 1 THEN given ELSE <<>>, owed, stream, quiet>>
=============================================================================
