----------------------------- MODULE CDROM_proofs -----------------------------
(***************************************************************************)
(* Proofs about CDC, CDIF_MT and the queues between the threads.           *)
(*                                                                         *)
(* The control of the CD-ROM controller, for every disc, command table     *)
(* and order in which its counters end: its assertions hold, a drive that  *)
(* moves goes on, every command is answered with the arguments written for *)
(* it, a drive that was told to stop is silent, and what a read delivers   *)
(* are the sectors in order.                                               *)
(*                                                                         *)
(* The CD interface with two threads, for any number of discs, any         *)
(* lead-outs, any ring larger than the read-ahead and any queue bound. The *)
(* inductive invariant is IInv, in four layers:                            *)
(*   Typed     types, and the read thread has a sector to store;           *)
(*   Control   who may be where: the mutex, the messages, the replies;     *)
(*   Window    the sectors from the last request to the read-ahead front   *)
(*             are in the ring, in the slots just behind SBWritePos;       *)
(*   Tray      an ejected PBP disc leaves nothing behind, so that what is  *)
(*             buffered was read from the disc in the drive.               *)
(***************************************************************************)
EXTENDS CDC, CDIF_MT, CDIF_Queue, SequenceTheorems, WellFoundedInduction, TLAPS

------------------------------------------------------------------------------
(* What the properties depend on, and what a step leaves alone.             *)

Fields == DOMAIN Constructed

Shape(c) == c = [x \in Fields |-> c[x]]

LEMMA FieldNames ==
  Fields = {"disc", "DiscStartupDelay", "DriveStatus", "StatusAfterSeek", "SeekTarget",
            "SeekRetryCounter", "CurSector", "SectorsRead", "CommandLoc", "Dirty", "SectorPipe",
            "SubQ", "SubQChecksumOK", "HeaderBufValid", "PlayTrackMatch", "Forward",
            "Backward", "Mode", "CDCReady", "IRQ", "AIP", "Command", "Phase",
            "Counter", "Args", "Latch", "Received", "PSR", "failed"}
  BY DEF Fields, Constructed

\* g is a state like c but for the data of the drive.
Like(c, g) ==
  /\ Shape(g)
  /\ g.disc = c.disc /\ g.DiscStartupDelay = c.DiscStartupDelay
  /\ g.DriveStatus = c.DriveStatus /\ g.StatusAfterSeek = c.StatusAfterSeek /\ g.PSR = c.PSR
  /\ g.Command = c.Command /\ g.Phase = c.Phase /\ g.Counter = c.Counter
  /\ g.CDCReady = c.CDCReady /\ g.IRQ = c.IRQ /\ g.AIP = c.AIP /\ g.failed = c.failed

LEMMA LikeTransitive ==
  ASSUME NEW a, NEW b, NEW c, Like(a, b), Like(b, c) PROVE Like(a, c)
  BY DEF Like

LEMMA DecodeLike ==
  ASSUME NEW c, Shape(c), NEW s PROVE Like(c, DecodeSubQ(c, s))
  BY FieldNames DEF Shape, Like, DecodeSubQ

LEMMA ReadableLike ==
  ASSUME NEW c, Shape(c), NEW tries PROVE Like(c, Readable(c, tries))
  BY DecodeLike DEF Readable

LEMMA DataLike ==
  ASSUME NEW c, Shape(c)
  PROVE  /\ Like(c, NoSectors(c)) /\ Like(c, Matched(c))
         /\ Like([c EXCEPT !.AIP = 0], ClearAIP(c))
         /\ Like([c EXCEPT !.PSR = TRUE], Advanced(c))
         /\ Like([c EXCEPT !.Counter = TRUE], Later(c))
<1>1. Like(c, NoSectors(c))
  BY FieldNames DEF Shape, Like, NoSectors
<1>2. Like(c, Matched(c))
  BY FieldNames DEF Shape, Like, Matched
<1>3. Like([c EXCEPT !.AIP = 0], ClearAIP(c))
  BY FieldNames DEF Shape, Like, ClearAIP
<1>4. Like([c EXCEPT !.PSR = TRUE], Advanced(c))
  BY FieldNames, ZenonT(40) DEF Shape, Like, Advanced
<1>5. Like([c EXCEPT !.Counter = TRUE], Later(c))
  BY FieldNames DEF Shape, Like, Later
<1> QED BY <1>1, <1>2, <1>3, <1>4, <1>5

------------------------------------------------------------------------------
(* Interrupts.                                                              *)

\* No assertion has failed, and an interrupt or a notification makes the next one wait.
Calm(c) ==
  /\ Shape(c)
  /\ c.CDCReady \in BOOLEAN /\ c.failed = FALSE /\ c.PSR \in BOOLEAN /\ c.Counter \in BOOLEAN
  /\ c.DiscStartupDelay \in BOOLEAN /\ c.Phase \in -1..2
  /\ c.IRQ # 0 => c.CDCReady
  /\ c.AIP # 0 => c.CDCReady

LEMMA CalmLike ==
  ASSUME NEW c, NEW g, Calm(c), Like(c, g) PROVE Calm(g)
  BY DEF Calm, Like

Causes == {DATA_READY, COMPLETE, DATA_END, DISC_ERROR}

\* g is c with irq sent or waiting.
Told(c, g, irq) ==
  /\ Calm(g)
  /\ g.disc = c.disc /\ g.DiscStartupDelay = c.DiscStartupDelay
  /\ g.DriveStatus = c.DriveStatus /\ g.StatusAfterSeek = c.StatusAfterSeek /\ g.PSR = c.PSR
  /\ g.Command = c.Command /\ g.Phase = c.Phase /\ g.Counter = c.Counter
  /\ \/ g.IRQ = c.IRQ /\ g.AIP = irq
     \/ g.IRQ = irq /\ g.AIP = 0

LEMMA WriteLike ==
  ASSUME NEW c, Calm(c), ~c.CDCReady, NEW v
  PROVE  LET g == WriteIRQ(c, v) IN
         /\ Shape(g) /\ Like([c EXCEPT !.CDCReady = TRUE, !.IRQ = v], g)
<1>1. c.IRQ = 0 /\ c.failed = FALSE /\ c.CDCReady = FALSE
  BY DEF Calm
<1> QED BY <1>1, FieldNames DEF Calm, Shape, Like, WriteIRQ

LEMMA CheckAIPSame ==
  ASSUME NEW c, Calm(c) PROVE CheckAIP(c) = c
  BY DEF Calm, CheckAIP

LEMMA TellsOrWaits ==
  ASSUME NEW c, Calm(c), NEW irq \in Causes PROVE Told(c, SetAIP(c, irq), irq)
<1> DEFINE s == [c EXCEPT !.AIP = irq]
<1>1. SetAIP(c, irq) = CheckAIP(s)
  BY DEF SetAIP
<1>2. irq # 0
  BY DEF Causes, DATA_READY, COMPLETE, DATA_END, DISC_ERROR
<1>3. /\ Shape(s) /\ s.AIP = irq /\ s.CDCReady = c.CDCReady /\ s.IRQ = c.IRQ /\ s.failed = c.failed
      /\ s.disc = c.disc /\ s.DiscStartupDelay = c.DiscStartupDelay
      /\ s.DriveStatus = c.DriveStatus /\ s.StatusAfterSeek = c.StatusAfterSeek /\ s.PSR = c.PSR
      /\ s.Command = c.Command /\ s.Phase = c.Phase /\ s.Counter = c.Counter
  BY FieldNames DEF Calm, Shape
<1> HIDE DEF s
<1>4. CASE c.CDCReady
  <2>1. CheckAIP(s) = s
    BY <1>3, <1>4 DEF CheckAIP
  <2> QED BY <1>1, <1>3, <1>4, <2>1 DEF Told, Calm
<1>5. CASE ~c.CDCReady
  <2>1. c.IRQ = 0 /\ c.CDCReady = FALSE
    BY <1>5 DEF Calm
  <2>2. CheckAIP(s) = ClearAIP(WriteIRQ(s, irq))
    BY <1>2, <1>3, <1>5 DEF CheckAIP
  <2>3. LET g == ClearAIP(WriteIRQ(s, irq)) IN
        /\ Shape(g) /\ g.AIP = 0 /\ g.CDCReady = TRUE /\ g.IRQ = irq /\ g.failed = FALSE
        /\ g.disc = s.disc /\ g.DiscStartupDelay = s.DiscStartupDelay
        /\ g.DriveStatus = s.DriveStatus /\ g.StatusAfterSeek = s.StatusAfterSeek /\ g.PSR = s.PSR
        /\ g.Command = s.Command /\ g.Phase = s.Phase /\ g.Counter = s.Counter
    BY <1>3, <2>1, FieldNames DEF Calm, Shape, ClearAIP, WriteIRQ
  <2> HIDE DEF ClearAIP, WriteIRQ
  <2> QED BY <1>1, <1>3, <2>2, <2>3, ZenonT(40) DEF Told, Calm
<1> QED BY <1>4, <1>5

------------------------------------------------------------------------------
(* The drive.                                                               *)

Seeking == {"SEEKING", "SEEKING_LOGICAL"}
Reading == {"READING", "PLAYING"}

\* A drive that moves has a step to come.
Runs(c) == Moves(c) \/ c.DriveStatus = "RESETTING" => c.PSR

\* It neither delivers nor is about to.
Silent(c) == c.DriveStatus \notin Reading /\ (c.DriveStatus \in Seeking => c.StatusAfterSeek \notin Reading)

\* A step of the drive: it moves only if it moved, and arrives where it was sent.
Stepped(c, g) ==
  /\ Calm(g) /\ Runs(g)
  /\ g.disc = c.disc /\ g.DiscStartupDelay = c.DiscStartupDelay
  /\ g.Command = c.Command /\ g.Phase = c.Phase /\ g.Counter = c.Counter
  /\ g.StatusAfterSeek = c.StatusAfterSeek
  /\ Moves(g) => Moves(c)
  /\ ~Moves(c) /\ c.DriveStatus # "RESETTING" => g.DriveStatus = c.DriveStatus
  /\ c.DriveStatus \in Seeking /\ c.StatusAfterSeek = "STANDBY" =>
       g.DriveStatus = "STANDBY" \/ g.DriveStatus \in Seeking
  /\ Silent(c) => /\ Silent(g)
                  /\ g.IRQ = c.IRQ \/ g.IRQ \in {COMPLETE, DISC_ERROR}
                  /\ g.AIP \in {c.AIP, 0, DISC_ERROR}

\* The facts of a state whose counter has ended.
Ended(c, e) ==
  /\ Calm(e) /\ Shape(e) /\ e.PSR = FALSE
  /\ e.disc = c.disc /\ e.DiscStartupDelay = c.DiscStartupDelay
  /\ e.DriveStatus = c.DriveStatus /\ e.StatusAfterSeek = c.StatusAfterSeek
  /\ e.Command = c.Command /\ e.Phase = c.Phase /\ e.Counter = c.Counter
  /\ e.IRQ = c.IRQ /\ e.AIP = c.AIP

LEMMA ResetSteps ==
  ASSUME NEW c, NEW e, Ended(c, e), c.DriveStatus = "RESETTING" PROVE Stepped(c, ResetEnds(e))
<1> DEFINE s == SetAIP(e, COMPLETE)
           p == [s EXCEPT !.Mode = {}, !.CurSector = 0, !.CommandLoc = 0, !.DriveStatus = "PAUSED"]
           g == ClearAIP(NoSectors(p))
<1>1. Told(e, s, COMPLETE)
  BY TellsOrWaits DEF Ended, Causes
<1>2. ResetEnds(e) = g
  BY DEF ResetEnds
<1> HIDE DEF s
<1>3. /\ Shape(g) /\ g.AIP = 0 /\ g.CDCReady = s.CDCReady /\ g.IRQ = s.IRQ /\ g.failed = s.failed
      /\ g.disc = s.disc /\ g.DiscStartupDelay = s.DiscStartupDelay
      /\ g.DriveStatus = "PAUSED" /\ g.StatusAfterSeek = s.StatusAfterSeek /\ g.PSR = s.PSR
      /\ g.Command = s.Command /\ g.Phase = s.Phase /\ g.Counter = s.Counter
  BY <1>1, FieldNames, ZenonT(40) DEF Told, Calm, Shape, ClearAIP, NoSectors
<1> HIDE DEF g
<1>4. Calm(g)
  BY <1>1, <1>3 DEF Told, Calm
<1>5. g.IRQ = c.IRQ \/ g.IRQ = COMPLETE
  BY <1>1, <1>3 DEF Told, Ended
<1> QED BY <1>1, <1>2, <1>3, <1>4, <1>5 DEF Stepped, Told, Ended, Moves, Runs, Silent, Seeking, Reading

LEMMA ArrivedSteps ==
  ASSUME NEW c, NEW e, NEW r, Ended(c, e), Like(e, r), c.DriveStatus \in Seeking
  PROVE  Stepped(c, Arrived(r))
<1> DEFINE g == Arrived(r)
<1>1. Calm(r)
  BY CalmLike DEF Ended
<1>2. /\ Shape(g) /\ g.DriveStatus = r.StatusAfterSeek /\ g.PSR = (r.StatusAfterSeek \notin {"PAUSED", "STANDBY"})
      /\ g.disc = r.disc /\ g.DiscStartupDelay = r.DiscStartupDelay /\ g.StatusAfterSeek = r.StatusAfterSeek
      /\ g.Command = r.Command /\ g.Phase = r.Phase /\ g.Counter = r.Counter
      /\ g.CDCReady = r.CDCReady /\ g.IRQ = r.IRQ /\ g.AIP = r.AIP /\ g.failed = r.failed
  BY <1>1, FieldNames DEF Calm, Shape, Arrived
<1> HIDE DEF g
<1>3. Calm(g)
  BY <1>1, <1>2 DEF Calm
<1>4. Runs(g)
  BY <1>2 DEF Runs, Moves
<1>5. Moves(c) /\ c.DriveStatus # "RESETTING"
  BY DEF Moves, Seeking
<1>6. /\ g.disc = c.disc /\ g.DiscStartupDelay = c.DiscStartupDelay
      /\ g.Command = c.Command /\ g.Phase = c.Phase /\ g.Counter = c.Counter
      /\ g.StatusAfterSeek = c.StatusAfterSeek /\ g.IRQ = c.IRQ /\ g.AIP = c.AIP
      /\ g.DriveStatus = c.StatusAfterSeek
  BY <1>2 DEF Ended, Like
<1>7. Silent(c) => Silent(g)
  BY <1>6 DEF Silent
<1>8. g.AIP \in {c.AIP, 0, DISC_ERROR}
  BY <1>6
<1> QED BY <1>3, <1>4, <1>5, <1>6, <1>7, <1>8 DEF Stepped, g

LEMMA SeekSteps ==
  ASSUME NEW c, NEW e, Ended(c, e), c.DriveStatus = "SEEKING" PROVE Stepped(c, SeekEnds(e))
<1> DEFINE there == [e EXCEPT !.CurSector = e.SeekTarget]
           r == Readable(there, [i \in 1..16 |-> e.SeekTarget - i])
<1>1. Like(e, there)
  BY FieldNames DEF Ended, Shape, Like
<1>2. Like(there, r)
  BY <1>1, ReadableLike DEF Like
<1>3. Like(e, r)
  BY <1>1, <1>2, LikeTransitive
<1>4. SeekEnds(e) = Arrived(r)
  BY DEF SeekEnds
<1>5. c.DriveStatus \in Seeking
  BY DEF Seeking
<1> HIDE DEF r
<1> QED BY <1>3, <1>4, <1>5, ArrivedSteps

LEMMA LogicalSeekSteps ==
  ASSUME NEW c, NEW e, Ended(c, e), c.DriveStatus = "SEEKING_LOGICAL" PROVE Stepped(c, LogicalSeekEnds(e))
<1> DEFINE s == [e EXCEPT !.CurSector = e.SeekTarget]
           r == DecodeSubQ(s, e.SeekTarget)
           again == [r EXCEPT !.SeekRetryCounter = @ - 1, !.PSR = TRUE]
           lost == [r EXCEPT !.DriveStatus = "STANDBY"]
<1>1. Like(e, s)
  BY FieldNames DEF Ended, Shape, Like
<1>2. Like(s, r)
  BY <1>1, DecodeLike DEF Like
<1>3. Like(e, r)
  BY <1>1, <1>2, LikeTransitive
<1>4. c.DriveStatus \in Seeking
  BY DEF Seeking
<1>5. LogicalSeekEnds(e) =
        IF "cdda" \in e.Mode \/ r.SubQ.data THEN Arrived(r)
        ELSE IF r.SeekRetryCounter > 0 THEN again ELSE SetAIP(lost, DISC_ERROR)
  BY DEF LogicalSeekEnds
<1> HIDE DEF r
<1>6. Calm(r)
  BY <1>3, CalmLike DEF Ended
<1>7. Stepped(c, Arrived(r))
  BY <1>3, <1>4, ArrivedSteps
<1>8. Stepped(c, again)
  <2>1. /\ Shape(again) /\ again.DriveStatus = r.DriveStatus /\ again.PSR = TRUE
        /\ again.disc = r.disc /\ again.DiscStartupDelay = r.DiscStartupDelay /\ again.StatusAfterSeek = r.StatusAfterSeek
        /\ again.Command = r.Command /\ again.Phase = r.Phase /\ again.Counter = r.Counter
        /\ again.CDCReady = r.CDCReady /\ again.IRQ = r.IRQ /\ again.AIP = r.AIP /\ again.failed = r.failed
    BY <1>6, FieldNames DEF Calm, Shape
  <2> HIDE DEF again
  <2>2. Calm(again) /\ Runs(again)
    BY <1>6, <2>1 DEF Calm, Runs
  <2> QED BY <1>3, <1>4, <2>1, <2>2 DEF Stepped, Ended, Like, Moves, Silent, Seeking, Reading
<1>9. Stepped(c, SetAIP(lost, DISC_ERROR))
  <2>1. /\ Shape(lost) /\ lost.DriveStatus = "STANDBY" /\ lost.PSR = r.PSR
        /\ lost.disc = r.disc /\ lost.DiscStartupDelay = r.DiscStartupDelay /\ lost.StatusAfterSeek = r.StatusAfterSeek
        /\ lost.Command = r.Command /\ lost.Phase = r.Phase /\ lost.Counter = r.Counter
        /\ lost.CDCReady = r.CDCReady /\ lost.IRQ = r.IRQ /\ lost.AIP = r.AIP /\ lost.failed = r.failed
    BY <1>6, FieldNames DEF Calm, Shape
  <2> HIDE DEF lost
  <2>2. Calm(lost)
    BY <1>6, <2>1 DEF Calm
  <2>3. Told(lost, SetAIP(lost, DISC_ERROR), DISC_ERROR)
    BY <2>2, TellsOrWaits DEF Causes
  <2> QED BY <1>3, <1>4, <2>1, <2>3 DEF Stepped, Told, Ended, Like, Moves, Runs, Silent, Seeking, Reading
<1> QED BY <1>5, <1>7, <1>8, <1>9

\* While a drive reads or plays nothing is promised but that it goes on or stops.
LEMMA ReadSteps ==
  ASSUME NEW c, NEW e, Ended(c, e), c.DriveStatus \in Reading, NEW due
  PROVE  Stepped(c, HandlePlayRead(e, due))
<1> DEFINE far == NoSectors([e EXCEPT !.DriveStatus = "STOPPED"])
           read == DecodeSubQ(e, e.CurSector)
           matched == Matched(read)
           reported == IF Reports(matched, due) THEN SetAIP(matched, DATA_READY) ELSE matched
           out == NoSectors([read EXCEPT !.HeaderBufValid = FALSE, !.DriveStatus = "PAUSED"])
           paused == SetAIP(matched, DATA_END)
           auto == NoSectors([paused EXCEPT !.DriveStatus = "PAUSED", !.PSR = FALSE])
           given_ == IF Pops(reported) THEN Delivered(reported) ELSE reported
<1>1. HandlePlayRead(e, due) =
        IF e.CurSector >= TooFar THEN far
        ELSE IF LeadsOut(read) THEN SetAIP(out, DATA_END)
        ELSE IF AutoPauses(matched) THEN auto ELSE Advanced(given_)
  BY DEF HandlePlayRead
<1>2. c.DriveStatus \in {"READING", "PLAYING"} /\ Moves(c) /\ ~Silent(c) /\ c.DriveStatus \notin Seeking
  BY DEF Reading, Moves, Silent, Seeking
<1>3. Like(e, read)
  BY DecodeLike DEF Ended
<1>4. Like(e, matched)
  <2>1. Like(read, matched)
    BY <1>3, DataLike DEF Like
  <2> QED BY <1>3, <2>1, LikeTransitive
<1> HIDE DEF read, matched
<1>5. Calm(read) /\ Calm(matched)
  BY <1>3, <1>4, CalmLike DEF Ended
<1>6. ASSUME NEW g, Calm(g), g.disc = c.disc, g.DiscStartupDelay = c.DiscStartupDelay,
             g.Command = c.Command, g.Phase = c.Phase, g.Counter = c.Counter,
             g.StatusAfterSeek = c.StatusAfterSeek,
             g.DriveStatus \in {"STOPPED", "PAUSED"} \/ g.PSR
      PROVE  Stepped(c, g)
  <2>2. Runs(g)
    BY <1>6 DEF Runs, Moves
  <2>3. ~(~Moves(c) /\ c.DriveStatus # "RESETTING")
    BY <1>2
  <2> QED BY <1>2, <1>6, <2>2, <2>3 DEF Stepped
<1>7. Stepped(c, far)
  <2>1. /\ Shape(far) /\ far.DriveStatus = "STOPPED" /\ far.PSR = e.PSR
        /\ far.disc = e.disc /\ far.DiscStartupDelay = e.DiscStartupDelay /\ far.StatusAfterSeek = e.StatusAfterSeek
        /\ far.Command = e.Command /\ far.Phase = e.Phase /\ far.Counter = e.Counter
        /\ far.CDCReady = e.CDCReady /\ far.IRQ = e.IRQ /\ far.AIP = e.AIP /\ far.failed = e.failed
    BY FieldNames DEF Ended, Shape, NoSectors
  <2> HIDE DEF far
  <2>2. Calm(far)
    BY <2>1 DEF Calm, Ended
  <2> QED BY <1>6, <2>1, <2>2 DEF Ended
<1>8. Stepped(c, SetAIP(out, DATA_END))
  <2>1. /\ Shape(out) /\ out.DriveStatus = "PAUSED" /\ out.PSR = read.PSR
        /\ out.disc = read.disc /\ out.DiscStartupDelay = read.DiscStartupDelay /\ out.StatusAfterSeek = read.StatusAfterSeek
        /\ out.Command = read.Command /\ out.Phase = read.Phase /\ out.Counter = read.Counter
        /\ out.CDCReady = read.CDCReady /\ out.IRQ = read.IRQ /\ out.AIP = read.AIP /\ out.failed = read.failed
    BY <1>5, FieldNames DEF Calm, Shape, NoSectors
  <2> HIDE DEF out
  <2>2. Calm(out)
    BY <1>5, <2>1 DEF Calm
  <2>3. Told(out, SetAIP(out, DATA_END), DATA_END)
    BY <2>2, TellsOrWaits DEF Causes
  <2> QED BY <1>3, <1>6, <2>1, <2>3 DEF Told, Ended, Like
<1>9. Stepped(c, auto)
  <2>1. Told(matched, paused, DATA_END)
    BY <1>5, TellsOrWaits DEF Causes
  <2> HIDE DEF paused
  <2>2. /\ Shape(auto) /\ auto.DriveStatus = "PAUSED" /\ auto.PSR = FALSE
        /\ auto.disc = paused.disc /\ auto.DiscStartupDelay = paused.DiscStartupDelay
        /\ auto.StatusAfterSeek = paused.StatusAfterSeek
        /\ auto.Command = paused.Command /\ auto.Phase = paused.Phase /\ auto.Counter = paused.Counter
        /\ auto.CDCReady = paused.CDCReady /\ auto.IRQ = paused.IRQ /\ auto.AIP = paused.AIP
        /\ auto.failed = paused.failed
    BY <2>1, FieldNames DEF Told, Calm, Shape, NoSectors
  <2> HIDE DEF auto
  <2>3. Calm(auto)
    BY <2>1, <2>2 DEF Told, Calm
  <2> QED BY <1>4, <1>6, <2>1, <2>2, <2>3 DEF Told, Ended, Like
<1>10. Stepped(c, Advanced(given_))
  <2> DEFINE Same(a, b) == /\ Calm(b) /\ b.disc = a.disc /\ b.DiscStartupDelay = a.DiscStartupDelay
                           /\ b.DriveStatus = a.DriveStatus /\ b.StatusAfterSeek = a.StatusAfterSeek
                           /\ b.Command = a.Command /\ b.Phase = a.Phase /\ b.Counter = a.Counter
  <2>1. \A a : Calm(a) => Same(a, a)
    OBVIOUS
  <2>2. \A a : Calm(a) => Same(a, SetAIP(a, DATA_READY))
    BY TellsOrWaits DEF Told, Causes
  <2>3. Same(matched, reported)
    BY <1>5, <2>1, <2>2
  <2> HIDE DEF reported
  <2>4. Same(reported, Delivered(reported))
    <3> DEFINE h == [reported EXCEPT !.HeaderBufValid = TRUE]
    <3>1. Like(reported, h)
      BY <2>3, FieldNames DEF Calm, Shape, Like
    <3>2. Calm(h) /\ Same(reported, h)
      BY <2>3, <3>1, CalmLike DEF Like
    <3>3. Delivered(reported) \in {reported, h, SetAIP(h, DATA_READY)}
      BY DEF Delivered
    <3> HIDE DEF h
    <3>4. Same(h, SetAIP(h, DATA_READY))
      BY <2>2, <3>2
    <3> QED BY <2>1, <2>3, <3>2, <3>3, <3>4
  <2>5. Same(matched, given_)
    BY <2>3, <2>4
  <2> HIDE DEF given_
  <2> DEFINE t == [given_ EXCEPT !.PSR = TRUE]
  <2>6. /\ Shape(t) /\ t.PSR = TRUE /\ t.DriveStatus = given_.DriveStatus
        /\ t.disc = given_.disc /\ t.DiscStartupDelay = given_.DiscStartupDelay /\ t.StatusAfterSeek = given_.StatusAfterSeek
        /\ t.Command = given_.Command /\ t.Phase = given_.Phase /\ t.Counter = given_.Counter
        /\ t.CDCReady = given_.CDCReady /\ t.IRQ = given_.IRQ /\ t.AIP = given_.AIP /\ t.failed = given_.failed
    BY <2>5, FieldNames DEF Calm, Shape
  <2>7. Like(t, Advanced(given_))
    BY <2>5, DataLike DEF Calm
  <2> HIDE DEF t
  <2>8. Calm(t)
    BY <2>5, <2>6 DEF Calm
  <2>9. Calm(Advanced(given_))
    BY <2>7, <2>8, CalmLike
  <2> QED BY <1>4, <1>6, <2>5, <2>6, <2>7, <2>9 DEF Ended, Like
<1> HIDE DEF far, out, auto, given_
<1> QED BY <1>1, <1>7, <1>8, <1>9, <1>10

\* Whatever the drive does when its counter ends.
LEMMA DriveStep ==
  ASSUME NEW c, Calm(c), Runs(c), NEW due PROVE Stepped(c, DriveSteps(c, due))
<1> DEFINE e == [c EXCEPT !.PSR = FALSE]
<1>1. Ended(c, e)
  <2>1. /\ Shape(e) /\ e.PSR = FALSE
        /\ e.disc = c.disc /\ e.DiscStartupDelay = c.DiscStartupDelay
        /\ e.DriveStatus = c.DriveStatus /\ e.StatusAfterSeek = c.StatusAfterSeek
        /\ e.Command = c.Command /\ e.Phase = c.Phase /\ e.Counter = c.Counter
        /\ e.CDCReady = c.CDCReady /\ e.IRQ = c.IRQ /\ e.AIP = c.AIP /\ e.failed = c.failed
    BY FieldNames DEF Calm, Shape
  <2> HIDE DEF e
  <2> QED BY <2>1 DEF Ended, Calm
<1>2. DriveSteps(c, due) =
        CASE c.DriveStatus = "RESETTING" -> ResetEnds(e)
          [] c.DriveStatus = "SEEKING" -> SeekEnds(e)
          [] c.DriveStatus = "SEEKING_LOGICAL" -> LogicalSeekEnds(e)
          [] c.DriveStatus \in {"READING", "PLAYING"} -> HandlePlayRead(e, due)
          [] OTHER -> e
  BY DEF DriveSteps
<1> HIDE DEF e
<1>3. CASE c.DriveStatus = "RESETTING"
  BY <1>1, <1>2, <1>3, ResetSteps
<1>4. CASE c.DriveStatus = "SEEKING"
  BY <1>1, <1>2, <1>4, SeekSteps
<1>5. CASE c.DriveStatus = "SEEKING_LOGICAL"
  BY <1>1, <1>2, <1>5, LogicalSeekSteps
<1>6. CASE c.DriveStatus \in {"READING", "PLAYING"}
  <2>1. DriveSteps(c, due) = HandlePlayRead(e, due)
    BY <1>2, <1>6
  <2> QED BY <1>1, <1>6, <2>1, ReadSteps DEF Reading
<1>7. CASE c.DriveStatus \notin {"RESETTING", "SEEKING", "SEEKING_LOGICAL", "READING", "PLAYING"}
  <2>1. DriveSteps(c, due) = e
    BY <1>2, <1>7
  <2> QED BY <1>1, <1>7, <2>1 DEF Stepped, Ended, Moves, Runs, Silent, Seeking, Reading
<1> QED BY <1>3, <1>4, <1>5, <1>6, <1>7

------------------------------------------------------------------------------
(* The commands.                                                            *)

Halting == {"Stop", "Standby", "Pause"}
Seeks == {"SeekL", "SeekP"}
Starting == {"ReadN", "ReadS", "Play"}
Quieting == {"Pause", "Stop", "Standby", "SeekL", "SeekP", "Reset", "ReadTOC"}

\* The control of g is that of c, but for these.
Result(c, g, irq, status, after, psr, counter) ==
  /\ Shape(g)
  /\ g.disc = c.disc /\ g.DiscStartupDelay = c.DiscStartupDelay
  /\ g.DriveStatus = status /\ g.StatusAfterSeek = after /\ g.PSR = psr
  /\ g.Command = c.Command /\ g.Phase = c.Phase /\ g.Counter = counter
  /\ g.CDCReady \in BOOLEAN /\ (irq # 0 => g.CDCReady) /\ g.IRQ = irq /\ g.AIP = 0 /\ g.failed = FALSE

\* A command may be executed: no interrupt is in the way, and no other command is.
Ready(c) ==
  /\ Calm(c) /\ c.CDCReady = FALSE /\ c.IRQ = 0 /\ c.AIP = 0 /\ c.Counter = FALSE
  /\ Runs(c) /\ (Moves(c) => c.disc # {})

\* What a command called name leaves.
Performed(c, name, g) ==
  /\ Calm(g) /\ Runs(g) /\ (Moves(g) => g.disc # {})
  /\ g.disc = c.disc /\ g.DiscStartupDelay = c.DiscStartupDelay /\ g.Command = c.Command /\ g.Phase = c.Phase
  /\ g.AIP = 0 /\ g.IRQ \in {0, ACKNOWLEDGE, DISC_ERROR}
  /\ g.Counter => name \in TwoParts
  /\ g.Counter /\ name \in Halting => ~Moves(g) /\ g.DriveStatus # "RESETTING"
  /\ g.Counter /\ name \in Seeks => Present(g)
  /\ g.IRQ = ACKNOWLEDGE /\ name \in TwoParts => g.Counter
  /\ g.IRQ = ACKNOWLEDGE /\ name \in Seeks => g.DriveStatus \in Seeking /\ g.StatusAfterSeek = "STANDBY"
  /\ g.IRQ = ACKNOWLEDGE /\ name \in Quieting => Silent(g)
  /\ Silent(c) /\ ~(g.IRQ = ACKNOWLEDGE /\ name \in Starting) => Silent(g)

\* What a command called name may make of the control of c.
Allowed(c, name, irq, status, after, psr, counter) ==
  /\ irq \in {0, ACKNOWLEDGE, DISC_ERROR} /\ psr \in BOOLEAN /\ counter \in BOOLEAN
  /\ status \in Seeking \cup Reading \cup {"RESETTING"} => psr
  /\ status \in Seeking \cup Reading => c.disc # {}
  /\ counter => name \in TwoParts
  /\ counter /\ name \in Halting => status \notin Seeking \cup Reading \cup {"RESETTING"}
  /\ counter /\ name \in Seeks => Present(c)
  /\ irq = ACKNOWLEDGE /\ name \in TwoParts => counter
  /\ irq = ACKNOWLEDGE /\ name \in Seeks => status \in Seeking /\ after = "STANDBY"
  /\ irq = ACKNOWLEDGE /\ name \in Quieting =>
       status \notin Reading /\ (status \in Seeking => after \notin Reading)
  /\ Silent(c) /\ ~(irq = ACKNOWLEDGE /\ name \in Starting) =>
       status \notin Reading /\ (status \in Seeking => after \notin Reading)

LEMMA Cases ==
  ASSUME NEW c, Ready(c), NEW g, NEW irq, NEW status, NEW after, NEW psr, NEW counter, NEW name,
         Result(c, g, irq, status, after, psr, counter), Allowed(c, name, irq, status, after, psr, counter)
  PROVE  Performed(c, name, g)
<1>1. Calm(g)
  BY DEF Result, Ready, Calm, Allowed
<1>2. Runs(g) /\ (Moves(g) => g.disc # {})
  BY DEF Result, Runs, Moves, Seeking, Reading, Allowed
<1>3. Present(c) => Present(g)
  BY DEF Result, Present
<1>4. Silent(g) <=> status \notin Reading /\ (status \in Seeking => after \notin Reading)
  BY DEF Result, Silent
<1>5. Moves(g) <=> status \in Seeking \cup Reading
  BY DEF Result, Moves, Seeking, Reading
<1>6. /\ g.disc = c.disc /\ g.DiscStartupDelay = c.DiscStartupDelay /\ g.Command = c.Command /\ g.Phase = c.Phase
      /\ g.AIP = 0 /\ g.IRQ = irq /\ g.Counter = counter /\ g.DriveStatus = status /\ g.StatusAfterSeek = after
  BY DEF Result
<1> QED BY <1>1, <1>2, <1>3, <1>4, <1>5, <1>6 DEF Performed, Allowed

LEMMA WriteResult ==
  ASSUME NEW c, Shape(c), c.CDCReady = FALSE, c.IRQ = 0, c.AIP = 0, c.failed = FALSE, NEW v
  PROVE  Result(c, WriteIRQ(c, v), v, c.DriveStatus, c.StatusAfterSeek, c.PSR, c.Counter)
<1> DEFINE g == WriteIRQ(c, v)
<1>1. g = [c EXCEPT !.failed = c.failed \/ c.CDCReady \/ c.IRQ # 0, !.CDCReady = TRUE, !.IRQ = v]
  BY DEF WriteIRQ
<1>2. (c.failed \/ c.CDCReady \/ c.IRQ # 0) = FALSE
  OBVIOUS
<1>3. g = [c EXCEPT !.failed = FALSE, !.CDCReady = TRUE, !.IRQ = v]
  BY <1>1, <1>2
<1> HIDE DEF g
<1>4. /\ Shape(g) /\ g.disc = c.disc /\ g.DiscStartupDelay = c.DiscStartupDelay
      /\ g.DriveStatus = c.DriveStatus /\ g.StatusAfterSeek = c.StatusAfterSeek /\ g.PSR = c.PSR
      /\ g.Command = c.Command /\ g.Phase = c.Phase /\ g.Counter = c.Counter
      /\ g.CDCReady = TRUE /\ g.IRQ = v /\ g.AIP = c.AIP /\ g.failed = FALSE
  BY <1>3, FieldNames DEF Shape
<1>5. Result(c, g, v, c.DriveStatus, c.StatusAfterSeek, c.PSR, c.Counter)
  BY <1>4 DEF Result
<1> QED BY <1>5 DEF g

LEMMA AckResult ==
  ASSUME NEW c, Ready(c)
  PROVE  /\ Result(c, Ack(c), ACKNOWLEDGE, c.DriveStatus, c.StatusAfterSeek, c.PSR, c.Counter)
         /\ Result(c, Error(c), DISC_ERROR, c.DriveStatus, c.StatusAfterSeek, c.PSR, c.Counter)
  BY WriteResult DEF Ready, Calm, Ack, Error

\* What does not move the drive, whatever else it sets.
LEMMA SimplePerformed ==
  ASSUME NEW c, Ready(c), NEW name, NEW g, NEW irq \in {0, ACKNOWLEDGE, DISC_ERROR},
         Result(c, g, irq, c.DriveStatus, c.StatusAfterSeek, c.PSR, c.Counter),
         irq = ACKNOWLEDGE => name \notin TwoParts \cup Quieting
  PROVE  Performed(c, name, g)
<1>1. c.PSR \in BOOLEAN /\ c.Counter \in BOOLEAN /\ ~c.Counter
  BY DEF Ready, Calm
<1>2. c.DriveStatus \in Seeking \cup Reading \cup {"RESETTING"} => c.PSR
  BY DEF Ready, Runs, Moves, Seeking, Reading
<1>3. c.DriveStatus \in Seeking \cup Reading => c.disc # {}
  BY DEF Ready, Moves, Seeking, Reading
<1>4. Silent(c) => c.DriveStatus \notin Reading /\ (c.DriveStatus \in Seeking => c.StatusAfterSeek \notin Reading)
  BY DEF Silent
<1>5. Seeks \subseteq TwoParts
  BY DEF Seeks, TwoParts
<1>6. Allowed(c, name, irq, c.DriveStatus, c.StatusAfterSeek, c.PSR, c.Counter)
  BY <1>1, <1>2, <1>3, <1>4, <1>5 DEF Allowed
<1> QED BY <1>6, Cases

LEMMA ResultLike ==
  ASSUME NEW c, NEW h, NEW g, NEW irq, NEW status, NEW after, NEW psr, NEW counter,
         Result(c, h, irq, status, after, psr, counter), Like(h, g)
  PROVE  Result(c, g, irq, status, after, psr, counter)
  BY DEF Result, Like

LEMMA ClearLike ==
  ASSUME NEW c, Shape(c), c.AIP = 0 PROVE Like(c, ClearAIP(c))
  BY FieldNames DEF Shape, Like, ClearAIP

LEMMA Edits ==
  ASSUME NEW c, NEW h, NEW irq, NEW status, NEW after, NEW psr, NEW counter,
         Result(c, h, irq, status, after, psr, counter)
  PROVE  /\ Result(c, NoSectors(h), irq, status, after, psr, counter)
         /\ Result(c, ClearAIP(h), irq, status, after, psr, counter)
         /\ Result(c, Later(h), irq, status, after, psr, TRUE)
<1>1. Shape(h) /\ h.AIP = 0
  BY DEF Result
<1>2. Like(h, NoSectors(h)) /\ Like(h, ClearAIP(h)) /\ Like([h EXCEPT !.Counter = TRUE], Later(h))
  BY <1>1, DataLike, ClearLike
<1>3. Result(c, [h EXCEPT !.Counter = TRUE], irq, status, after, psr, TRUE)
  BY FieldNames DEF Result, Shape
<1> QED BY <1>2, <1>3, ResultLike

\* What is acknowledged may have been edited before.
LEMMA AckOf ==
  ASSUME NEW c, NEW d, Ready(c), Like(c, d)
  PROVE  Result(c, Ack(d), ACKNOWLEDGE, c.DriveStatus, c.StatusAfterSeek, c.PSR, c.Counter)
<1>1. Shape(d) /\ d.CDCReady = FALSE /\ d.IRQ = 0 /\ d.AIP = 0 /\ d.failed = FALSE
  BY DEF Ready, Calm, Like
<1>2. Result(d, Ack(d), ACKNOWLEDGE, d.DriveStatus, d.StatusAfterSeek, d.PSR, d.Counter)
  BY <1>1, WriteResult DEF Ack
<1> QED BY <1>2 DEF Result, Like

LEMMA SeekResult ==
  ASSUME NEW c, NEW h, NEW irq, NEW status, NEW after, NEW psr, NEW counter,
         Result(c, h, irq, status, after, psr, counter), NEW target, NEW how, NEW then
  PROVE  Result(c, Seek(h, target, how, then), irq, how, then, TRUE, counter)
<1> DEFINE d == [h EXCEPT !.SeekTarget = target, !.CurSector = target, !.SeekRetryCounter = MaxRetries, !.PSR = TRUE,
                          !.HeaderBufValid = FALSE, !.DriveStatus = how, !.StatusAfterSeek = then]
<1>1. Seek(h, target, how, then) = Readable(d, [i \in 1..32 |-> target + i - 1])
  BY DEF Seek
<1>2. /\ Shape(d) /\ d.disc = h.disc /\ d.DiscStartupDelay = h.DiscStartupDelay
      /\ d.DriveStatus = how /\ d.StatusAfterSeek = then /\ d.PSR = TRUE
      /\ d.Command = h.Command /\ d.Phase = h.Phase /\ d.Counter = h.Counter
      /\ d.CDCReady = h.CDCReady /\ d.IRQ = h.IRQ /\ d.AIP = h.AIP /\ d.failed = h.failed
  BY FieldNames DEF Result, Shape
<1> HIDE DEF d
<1>3. Result(c, d, irq, how, then, TRUE, counter)
  BY <1>2 DEF Result
<1>4. Like(d, Readable(d, [i \in 1..32 |-> target + i - 1]))
  BY <1>2, ReadableLike
<1> QED BY <1>1, <1>3, <1>4, ResultLike

LEMMA StatusResult ==
  ASSUME NEW c, NEW h, NEW irq, NEW status, NEW after, NEW psr, NEW counter,
         Result(c, h, irq, status, after, psr, counter), NEW to
  PROVE  Result(c, [h EXCEPT !.DriveStatus = to], irq, to, after, psr, counter)
  BY FieldNames DEF Result, Shape

LEMMA PlayPerformed ==
  ASSUME NEW c, Ready(c), Present(c), NEW args PROVE Performed(c, "Play", Command_Play(c, args))
<1> DEFINE k == Ack(ClearAIP(c))
           a == [k EXCEPT !.Forward = FALSE, !.Backward = FALSE]
           track == [NoSectors(a) EXCEPT !.PlayTrackMatch = Clamped(args[1])]
           any == [NoSectors(a) EXCEPT !.PlayTrackMatch = NoMatch]
           byTrack == args # <<>> /\ args[1] # 0
           b == IF byTrack THEN Seek(track, Start[Clamped(args[1])], "SEEKING", "PLAYING")
                ELSE IF c.Dirty \/ c.DriveStatus # "PLAYING" THEN Seek(any, Wanted(c), "SEEKING", "PLAYING")
                ELSE a
           g == [b EXCEPT !.Dirty = FALSE]
           R(x) == Result(c, x, ACKNOWLEDGE, c.DriveStatus, c.StatusAfterSeek, c.PSR, c.Counter)
           S(x) == Result(c, x, ACKNOWLEDGE, "SEEKING", "PLAYING", TRUE, c.Counter)
<1>1. Command_Play(c, args) = g
  BY DEF Command_Play
<1>2. R(k)
  <2>1. Like(c, ClearAIP(c))
    BY ClearLike DEF Ready, Calm
  <2> QED BY <2>1, AckOf
<1> HIDE DEF k
<1>3. R(a)
  <2>1. Like(k, a)
    BY <1>2, FieldNames DEF Result, Shape, Like
  <2> QED BY <1>2, <2>1, ResultLike
<1>4. R(NoSectors(a))
  BY <1>3, Edits
<1> HIDE DEF a
<1>5. R(track) /\ R(any)
  <2>1. Like(NoSectors(a), track) /\ Like(NoSectors(a), any)
    BY <1>4, FieldNames DEF Result, Shape, Like
  <2> QED BY <1>4, <2>1, ResultLike
<1> HIDE DEF track, any
<1>6. R(b) \/ S(b)
  BY <1>3, <1>5, SeekResult
<1> HIDE DEF b
<1>7. R(g) \/ S(g)
  <2>1. Like(b, g)
    BY <1>6, FieldNames DEF Result, Shape, Like
  <2> QED BY <1>6, <2>1, ResultLike
<1> HIDE DEF g
<1>8. "Play" \notin TwoParts \cup Quieting \cup Halting \cup Seeks /\ "Play" \in Starting
  BY DEF TwoParts, Quieting, Halting, Seeks, Starting
<1>9. CASE R(g)
  BY <1>1, <1>8, <1>9, SimplePerformed
<1>10. CASE S(g)
  <2>1. c.Counter \in BOOLEAN /\ ~c.Counter /\ c.disc # {}
    BY DEF Ready, Calm, Present
  <2>2. Allowed(c, "Play", ACKNOWLEDGE, "SEEKING", "PLAYING", TRUE, c.Counter)
    BY <1>8, <2>1 DEF Allowed, Reading
  <2> QED BY <1>1, <1>10, <2>2, Cases
<1> QED BY <1>7, <1>9, <1>10

LEMMA ReadPerformed ==
  ASSUME NEW c, Ready(c), Present(c), NEW name \in {"ReadN", "ReadS"} PROVE Performed(c, name, ReadBase(c))
<1> DEFINE a == Ack(c)
           n == NoSectors(ClearAIP(a))
           b == IF ~SeeksIt(c) /\ (c.Dirty \/ c.DriveStatus # "READING")
                THEN Seek(n, Wanted(c), "SEEKING_LOGICAL", "READING") ELSE a
           g == [b EXCEPT !.Dirty = FALSE]
           R(x) == Result(c, x, ACKNOWLEDGE, c.DriveStatus, c.StatusAfterSeek, c.PSR, c.Counter)
           S(x) == Result(c, x, ACKNOWLEDGE, "SEEKING_LOGICAL", "READING", TRUE, c.Counter)
<1>1. ReadBase(c) = IF IsPSXDisc(c) THEN g ELSE Error(c)
  BY DEF ReadBase
<1>2. R(a) /\ Result(c, Error(c), DISC_ERROR, c.DriveStatus, c.StatusAfterSeek, c.PSR, c.Counter)
  BY AckResult
<1> HIDE DEF a
<1>3. R(n)
  <2>1. R(ClearAIP(a))
    BY <1>2, Edits
  <2> QED BY <2>1, Edits
<1> HIDE DEF n
<1>4. R(b) \/ S(b)
  BY <1>2, <1>3, SeekResult
<1> HIDE DEF b
<1>5. R(g) \/ S(g)
  <2>1. Like(b, g)
    BY <1>4, FieldNames DEF Result, Shape, Like
  <2> QED BY <1>4, <2>1, ResultLike
<1> HIDE DEF g
<1>6. name \notin TwoParts \cup Quieting \cup Halting \cup Seeks /\ name \in Starting
  BY DEF TwoParts, Quieting, Halting, Seeks, Starting
<1>7. Performed(c, name, Error(c))
  BY <1>2, SimplePerformed DEF ACKNOWLEDGE, DISC_ERROR
<1>8. CASE R(g)
  BY <1>1, <1>6, <1>7, <1>8, SimplePerformed
<1>9. CASE S(g)
  <2>1. c.Counter \in BOOLEAN /\ ~c.Counter /\ c.disc # {}
    BY DEF Ready, Calm, Present
  <2>2. Allowed(c, name, ACKNOWLEDGE, "SEEKING_LOGICAL", "READING", TRUE, c.Counter)
    BY <1>6, <2>1 DEF Allowed, Reading
  <2> QED BY <1>1, <1>7, <1>9, <2>2, Cases
<1> QED BY <1>5, <1>8, <1>9

\* A command with two parts that leaves the drive where it neither moves nor resets.
LEMMA HaltPerformed ==
  ASSUME NEW c, Ready(c), NEW name \in TwoParts \ Seeks, NEW g, NEW status,
         status \notin Seeking \cup Reading \cup {"RESETTING"},
         Result(c, g, ACKNOWLEDGE, status, c.StatusAfterSeek, c.PSR, TRUE)
  PROVE  Performed(c, name, g)
<1>1. c.PSR \in BOOLEAN
  BY DEF Ready, Calm
<1>2. Allowed(c, name, ACKNOWLEDGE, status, c.StatusAfterSeek, c.PSR, TRUE)
  BY <1>1 DEF Allowed
<1> QED BY <1>2, Cases

LEMMA HaltsPerformed ==
  ASSUME NEW c, Ready(c)
  PROVE  /\ Performed(c, "Stop", Command_Stop(c))
         /\ Performed(c, "Standby", Command_Standby(c))
         /\ Performed(c, "Pause", Command_Pause(c))
<1> DEFINE R(x, status, counter) == Result(c, x, ACKNOWLEDGE, status, c.StatusAfterSeek, c.PSR, counter)
           n == NoSectors(ClearAIP(Ack(c)))
<1>1. /\ R(Ack(c), c.DriveStatus, c.Counter)
      /\ Result(c, Error(c), DISC_ERROR, c.DriveStatus, c.StatusAfterSeek, c.PSR, c.Counter)
  BY AckResult
<1>2. R(Later(Ack(c)), c.DriveStatus, TRUE)
  BY <1>1, Edits
<1>3. R(n, c.DriveStatus, c.Counter)
  <2>1. R(ClearAIP(Ack(c)), c.DriveStatus, c.Counter)
    BY <1>1, Edits
  <2> QED BY <2>1, Edits
<1> HIDE DEF n
<1>4. {"Stop", "Standby", "Pause"} \subseteq TwoParts \ Seeks
  BY DEF TwoParts, Seeks
<1>5. \A status \in {"PAUSED", "STOPPED", "STANDBY"} : status \notin Seeking \cup Reading \cup {"RESETTING"}
  BY DEF Seeking, Reading
<1>6. Performed(c, "Stop", Command_Stop(c))
  <2> DEFINE d == [n EXCEPT !.DriveStatus = "STOPPED", !.HeaderBufValid = FALSE]
  <2>1. R(d, "STOPPED", c.Counter)
    BY <1>3, FieldNames DEF Result, Shape
  <2> HIDE DEF d
  <2>2. R(Later(d), "STOPPED", TRUE)
    BY <2>1, Edits
  <2>3. Command_Stop(c) = IF c.DriveStatus = "STOPPED" THEN Later(Ack(c)) ELSE Later(d)
    BY DEF Command_Stop, d, n
  <2>4. R(Command_Stop(c), "STOPPED", TRUE)
    BY <1>2, <2>2, <2>3
  <2> QED BY <1>4, <1>5, <2>4, HaltPerformed
<1>7. Performed(c, "Standby", Command_Standby(c))
  <2>1. R([n EXCEPT !.DriveStatus = "STANDBY"], "STANDBY", c.Counter)
    BY <1>3, StatusResult
  <2>2. R(Later([n EXCEPT !.DriveStatus = "STANDBY"]), "STANDBY", TRUE)
    BY <2>1, Edits
  <2>3. Command_Standby(c) = IF c.DriveStatus # "STOPPED" THEN Error(c)
                             ELSE Later([n EXCEPT !.DriveStatus = "STANDBY"])
    BY DEF Command_Standby, n
  <2>4. Performed(c, "Standby", Error(c))
    BY <1>1, SimplePerformed DEF ACKNOWLEDGE, DISC_ERROR
  <2>5. Performed(c, "Standby", Later([n EXCEPT !.DriveStatus = "STANDBY"]))
    BY <1>4, <1>5, <2>2, HaltPerformed
  <2> QED BY <2>3, <2>4, <2>5
<1>8. Performed(c, "Pause", Command_Pause(c))
  <2> DEFINE d == [n EXCEPT !.DriveStatus = "PAUSED", !.CurSector = @ - c.SectorsRead]
  <2>1. R(d, "PAUSED", c.Counter)
    BY <1>3, FieldNames DEF Result, Shape
  <2> HIDE DEF d
  <2>2. R(Later(d), "PAUSED", TRUE)
    BY <2>1, Edits
  <2>3. Command_Pause(c) = IF c.DriveStatus \in {"PAUSED", "STOPPED"} THEN Later(Ack(c)) ELSE Later(d)
    BY DEF Command_Pause, d, n
  <2>4. R(Command_Pause(c), "PAUSED", TRUE) \/ R(Command_Pause(c), "STOPPED", TRUE)
    BY <1>2, <2>2, <2>3
  <2> QED BY <1>4, <1>5, <2>4, HaltPerformed
<1> QED BY <1>6, <1>7, <1>8

LEMMA ResetPerformed ==
  ASSUME NEW c, Ready(c) PROVE Performed(c, "Reset", Command_Reset(c))
<1> DEFINE a == Ack(c)
           g == [a EXCEPT !.HeaderBufValid = FALSE, !.DriveStatus = "RESETTING", !.PSR = TRUE]
<1>1. Command_Reset(c) = IF c.DriveStatus = "RESETTING" THEN a ELSE g
  BY DEF Command_Reset
<1>2. Result(c, a, ACKNOWLEDGE, c.DriveStatus, c.StatusAfterSeek, c.PSR, c.Counter)
  BY AckResult
<1> HIDE DEF a
<1>3. Result(c, g, ACKNOWLEDGE, "RESETTING", c.StatusAfterSeek, TRUE, c.Counter)
  BY <1>2, FieldNames DEF Result, Shape
<1>4. /\ c.PSR \in BOOLEAN /\ c.Counter \in BOOLEAN /\ ~c.Counter
      /\ c.DriveStatus = "RESETTING" => c.PSR
  BY DEF Ready, Calm, Runs
<1>5. "Reset" \notin TwoParts \cup Halting \cup Seeks \cup Starting
      /\ "RESETTING" \notin Seeking \cup Reading
  BY DEF TwoParts, Halting, Seeks, Starting, Seeking, Reading
<1> HIDE DEF g
<1>6. CASE c.DriveStatus = "RESETTING"
  <2>1. Allowed(c, "Reset", ACKNOWLEDGE, "RESETTING", c.StatusAfterSeek, c.PSR, c.Counter)
    BY <1>4, <1>5, <1>6 DEF Allowed
  <2> QED BY <1>1, <1>2, <1>6, <2>1, Cases
<1>7. CASE c.DriveStatus # "RESETTING"
  <2>1. Allowed(c, "Reset", ACKNOWLEDGE, "RESETTING", c.StatusAfterSeek, TRUE, c.Counter)
    BY <1>4, <1>5 DEF Allowed
  <2> QED BY <1>1, <1>3, <1>7, <2>1, Cases
<1> QED BY <1>6, <1>7

LEMMA SeekPerformed ==
  ASSUME NEW c, Ready(c), Present(c), NEW name \in Seeks, NEW how \in Seeking
  PROVE  Performed(c, name, Command_Seek(c, how))
<1> DEFINE k == Seek(Ack(c), c.CommandLoc, how, "STANDBY")
           R(x, counter) == Result(c, x, ACKNOWLEDGE, how, "STANDBY", TRUE, counter)
<1>1. R(k, c.Counter)
  BY AckResult, SeekResult
<1> HIDE DEF k
<1>2. R(ClearAIP(k), c.Counter)
  BY <1>1, Edits
<1>3. R(Later(ClearAIP(k)), TRUE)
  BY <1>2, Edits
<1>4. Command_Seek(c, how) = Later(ClearAIP(k))
  BY DEF Command_Seek, k
<1>5. c.disc # {} /\ how \notin Reading /\ "STANDBY" \notin Reading
      /\ name \in TwoParts /\ name \notin Halting
  BY DEF Present, Seeking, Reading, Seeks, TwoParts, Halting
<1>6. Allowed(c, name, ACKNOWLEDGE, how, "STANDBY", TRUE, TRUE)
  BY <1>5 DEF Allowed
<1> QED BY <1>3, <1>4, <1>6, Cases

LEMMA ReadTOCPerformed ==
  ASSUME NEW c, Ready(c), Present(c) PROVE Performed(c, "ReadTOC", Command_ReadTOC(c))
<1> DEFINE d == [c EXCEPT !.HeaderBufValid = FALSE]
           p == [Ack(d) EXCEPT !.DriveStatus = "PAUSED"]
           R(x, status, counter) == Result(c, x, ACKNOWLEDGE, status, c.StatusAfterSeek, c.PSR, counter)
<1>1. Like(c, d)
  BY FieldNames DEF Ready, Calm, Shape, Like
<1>2. Command_ReadTOC(c) = Later(ClearAIP(p))
  BY DEF Command_ReadTOC
<1> HIDE DEF d
<1>3. R(Ack(d), c.DriveStatus, c.Counter)
  BY <1>1, AckOf
<1>4. R(p, "PAUSED", c.Counter)
  BY <1>3, StatusResult
<1> HIDE DEF p
<1>5. R(ClearAIP(p), "PAUSED", c.Counter)
  BY <1>4, Edits
<1>6. R(Later(ClearAIP(p)), "PAUSED", TRUE)
  BY <1>5, Edits
<1>7. "ReadTOC" \in TwoParts \ Seeks /\ "PAUSED" \notin Seeking \cup Reading \cup {"RESETTING"}
  BY DEF TwoParts, Seeks, Seeking, Reading
<1> QED BY <1>2, <1>6, <1>7, HaltPerformed

LEMMA AskPerformed ==
  ASSUME NEW c, Ready(c), NEW name \in {"ID", "ReadT"} PROVE Performed(c, name, Later(Ack(c)))
<1>1. Result(c, Later(Ack(c)), ACKNOWLEDGE, c.DriveStatus, c.StatusAfterSeek, c.PSR, TRUE)
  BY AckResult, Edits
<1>2. name \in TwoParts /\ name \notin Halting \cup Seeks \cup Quieting
  BY DEF TwoParts, Halting, Seeks, Quieting
<1>3. /\ c.PSR \in BOOLEAN
      /\ c.DriveStatus \in Seeking \cup Reading \cup {"RESETTING"} => c.PSR
      /\ c.DriveStatus \in Seeking \cup Reading => c.disc # {}
      /\ Silent(c) => c.DriveStatus \notin Reading /\ (c.DriveStatus \in Seeking => c.StatusAfterSeek \notin Reading)
  BY DEF Ready, Calm, Runs, Moves, Seeking, Reading, Silent
<1>4. Allowed(c, name, ACKNOWLEDGE, c.DriveStatus, c.StatusAfterSeek, c.PSR, TRUE)
  BY <1>2, <1>3 DEF Allowed
<1> QED BY <1>1, <1>4, Cases

\* The commands that only acknowledge or refuse, whatever they set.
Plain == {"Setloc", "Forward", "Backward", "Setmode", "GetlocL", "GetTD", "Test", "Init"}

LEMMA PlainPerformed ==
  ASSUME NEW c, Ready(c), NEW name \in Plain, NEW args PROVE Performed(c, name, Perform(c, name, args))
<1> DEFINE R(x) == Result(c, x, ACKNOWLEDGE, c.DriveStatus, c.StatusAfterSeek, c.PSR, c.Counter)
           g == Perform(c, name, args)
<1>1. name \notin TwoParts \cup Quieting
  BY DEF Plain, TwoParts, Quieting
<1>2. \A x : R(x) => Performed(c, name, x)
  BY <1>1, SimplePerformed
<1>3. Performed(c, name, Error(c))
  BY AckResult, SimplePerformed DEF ACKNOWLEDGE, DISC_ERROR
<1>4. R(Ack(c)) /\ Performed(c, name, Ack(c))
  BY <1>2, AckResult
<1>5. Performed(c, name, c)
  <2>1. Result(c, c, 0, c.DriveStatus, c.StatusAfterSeek, c.PSR, c.Counter)
    BY DEF Ready, Calm, Result
  <2> QED BY <2>1, SimplePerformed DEF ACKNOWLEDGE
<1>6. CASE name = "Setloc"
  <2> DEFINE d == [c EXCEPT !.CommandLoc = LocOf[args[1]], !.Dirty = TRUE]
  <2>1. Like(c, d)
    BY FieldNames DEF Ready, Calm, Shape, Like
  <2>2. g \in {Ack(d), Error(c)}
    BY <1>6 DEF Perform, Command_Setloc
  <2> HIDE DEF d, g
  <2>3. R(Ack(d))
    BY <2>1, AckOf
  <2> QED BY <1>2, <1>3, <2>2, <2>3 DEF g
<1>7. CASE name \in {"Forward", "Backward"}
  <2> DEFINE f == [Ack(c) EXCEPT !.Backward = FALSE, !.Forward = TRUE]
             b == [Ack(c) EXCEPT !.Backward = TRUE, !.Forward = FALSE]
  <2>1. g \in {f, b}
    BY <1>7 DEF Perform
  <2>2. Like(Ack(c), f) /\ Like(Ack(c), b)
    BY <1>4, FieldNames DEF Result, Shape, Like
  <2> HIDE DEF f, b, g
  <2>3. R(f) /\ R(b)
    BY <1>4, <2>2, ResultLike
  <2> QED BY <1>2, <2>1, <2>3 DEF g
<1>8. CASE name = "Setmode"
  <2> DEFINE d == [c EXCEPT !.Mode = ModeOf[args[1]]]
  <2>1. Like(c, d)
    BY FieldNames DEF Ready, Calm, Shape, Like
  <2>2. g = Ack(d)
    BY <1>8 DEF Perform
  <2> HIDE DEF d, g
  <2>3. R(Ack(d))
    BY <2>1, AckOf
  <2> QED BY <1>2, <2>2, <2>3 DEF g
<1>9. CASE name \in {"GetlocL", "GetTD", "Test", "Init"}
  <2>1. g \in {Ack(c), Error(c), c}
    BY <1>9 DEF Perform, Command_GetTD, Command_Test
  <2> QED BY <1>3, <1>4, <1>5, <2>1
<1> QED BY <1>6, <1>7, <1>8, <1>9 DEF Plain

\* Every command of the table leaves the controller right.
LEMMA Performs ==
  ASSUME NEW c, Ready(c), NEW name \in Known, NEW args, name \in NeedDisc \cup {"ReadTOC"} => Present(c)
  PROVE  Performed(c, name, Perform(c, name, args))
<1> DEFINE g == Perform(c, name, args)
<1>1. CASE name \in Plain
  BY <1>1, PlainPerformed
<1>2. CASE name = "Play"
  <2>1. Present(c) /\ g = Command_Play(c, args)
    BY <1>2 DEF Perform, NeedDisc
  <2> QED BY <1>2, <2>1, PlayPerformed
<1>3. CASE name \in {"ReadN", "ReadS"}
  <2>1. Present(c) /\ g = ReadBase(c)
    BY <1>3 DEF Perform, NeedDisc
  <2> QED BY <1>3, <2>1, ReadPerformed
<1>4. CASE name \in Halting
  <2>1. \/ name = "Stop" /\ g = Command_Stop(c)
        \/ name = "Standby" /\ g = Command_Standby(c)
        \/ name = "Pause" /\ g = Command_Pause(c)
    BY <1>4 DEF Perform, Halting
  <2> QED BY <2>1, HaltsPerformed
<1>5. CASE name = "Reset"
  <2>1. g = Command_Reset(c)
    BY <1>5 DEF Perform
  <2> QED BY <1>5, <2>1, ResetPerformed
<1>6. CASE name \in Seeks
  <2>1. /\ Present(c)
        /\ g = Command_Seek(c, "SEEKING_LOGICAL") \/ g = Command_Seek(c, "SEEKING")
    BY <1>6 DEF Perform, Seeks, NeedDisc
  <2> QED BY <1>6, <2>1, SeekPerformed DEF Seeking
<1>7. CASE name \in {"ID", "ReadT"}
  <2>1. g = Later(Ack(c))
    BY <1>7 DEF Perform
  <2> QED BY <1>7, <2>1, AskPerformed
<1>8. CASE name = "ReadTOC"
  <2>1. Present(c) /\ g = Command_ReadTOC(c)
    BY <1>8 DEF Perform
  <2> QED BY <1>8, <2>1, ReadTOCPerformed
<1>9. CASE name \in {"Setfilter", "0x1D", "GetlocP", "GetTN", "Nop", "Mute", "Demute", "Getparam"}
  <2>1. g = Ack(c)
    BY <1>9 DEF Perform
  <2>2. name \notin TwoParts \cup Quieting
    BY <1>9 DEF TwoParts, Quieting
  <2> QED BY <2>1, <2>2, AckResult, SimplePerformed
<1> QED BY <1>1, <1>2, <1>3, <1>4, <1>5, <1>6, <1>7, <1>8, <1>9
        DEF Known, NeedDisc, OneArgument, TwoParts, Plain, Halting, Seeks

------------------------------------------------------------------------------
(* The steps of a command.                                                  *)

\* The controller alone: what each step keeps.
Sound(c) ==
  /\ Calm(c) /\ Runs(c) /\ (Moves(c) => c.disc # {})
  /\ c.Counter /\ c.Phase = 2 =>
       /\ c.Command \in TwoParts
       /\ c.Command \in Halting => ~Moves(c) /\ c.DriveStatus # "RESETTING"
       /\ c.Command \in Seeks => Present(c)

\* A command in its second part answers with it, as it must with owed = o.
Answering(c, o) ==
  o # "no" =>
    /\ c.Counter /\ (o = "second" <=> c.Phase = 2)
    /\ o = "second" /\ c.Command \in Seeks =>
         \/ c.DriveStatus = "STANDBY"
         \/ c.DriveStatus \in Seeking /\ c.StatusAfterSeek = "STANDBY" /\ c.PSR

\* Nothing that is read is waiting to be told.
Hushed(c) == Silent(c) /\ c.AIP \notin {DATA_READY, DATA_END}

\* The counter of c has ended and nothing is in the way of the command.
Due(c, due) ==
  /\ Ready(due) /\ Sound(c) /\ c.Counter
  /\ due.disc = c.disc /\ due.DiscStartupDelay = c.DiscStartupDelay
  /\ due.DriveStatus = c.DriveStatus /\ due.StatusAfterSeek = c.StatusAfterSeek /\ due.PSR = c.PSR
  /\ due.Command = c.Command /\ due.Phase = c.Phase

LEMMA DueIsReady ==
  ASSUME NEW c, Sound(c), c.Counter, ~c.CDCReady PROVE Due(c, [c EXCEPT !.Counter = FALSE])
<1> DEFINE d == [c EXCEPT !.Counter = FALSE]
<1>1. /\ Shape(d) /\ d.disc = c.disc /\ d.DiscStartupDelay = c.DiscStartupDelay
      /\ d.DriveStatus = c.DriveStatus /\ d.StatusAfterSeek = c.StatusAfterSeek /\ d.PSR = c.PSR
      /\ d.Command = c.Command /\ d.Phase = c.Phase /\ d.Counter = FALSE
      /\ d.CDCReady = c.CDCReady /\ d.IRQ = c.IRQ /\ d.AIP = c.AIP /\ d.failed = c.failed
  BY FieldNames DEF Sound, Calm, Shape
<1> HIDE DEF d
<1>2. c.CDCReady = FALSE /\ c.IRQ = 0 /\ c.AIP = 0
  BY DEF Sound, Calm
<1>3. Calm(d)
  BY <1>1 DEF Sound, Calm
<1>4. Runs(d) /\ (Moves(d) => d.disc # {})
  BY <1>1 DEF Sound, Runs, Moves
<1>5. Ready(d)
  BY <1>1, <1>2, <1>3, <1>4 DEF Ready
<1> QED BY <1>1, <1>5 DEF Due, d

\* After phase 1 the command is answered, or its second part runs.
Executed(c, g) ==
  /\ Sound(g) /\ g.Command = c.Command
  /\ g.AIP = 0 /\ g.IRQ \in {0, ACKNOWLEDGE, DISC_ERROR}
  /\ g.IRQ = ACKNOWLEDGE /\ c.Command \in TwoParts => Answering(g, "second")
  /\ g.IRQ = ACKNOWLEDGE /\ c.Command \in Quieting => Silent(g)
  /\ Silent(c) /\ ~(g.IRQ = ACKNOWLEDGE /\ c.Command \in Starting) => Silent(g)

\* But a ReadTOC that finds no disc fails an assertion.
Fails(g) ==
  /\ g.failed /\ g.Command = "ReadTOC" /\ g.Phase = 2 /\ g.Counter /\ ~Present(g) /\ g.IRQ = DISC_ERROR
  /\ Runs(g) /\ (Moves(g) => g.disc # {})

LEMMA ReadTOCFails ==
  ASSUME NEW c, Ready(c), ~Present(c), c.Command = "ReadTOC"
  PROVE  Fails([Command_ReadTOC(c) EXCEPT !.Phase = 2])
<1> DEFINE d == [c EXCEPT !.HeaderBufValid = FALSE]
           a == Ack(d)
           e == WriteIRQ(a, DISC_ERROR)
           l == Later(e)
           g == [l EXCEPT !.Phase = 2]
           Same(x) == /\ Shape(x) /\ x.disc = c.disc /\ x.DiscStartupDelay = c.DiscStartupDelay
                      /\ x.DriveStatus = c.DriveStatus /\ x.PSR = c.PSR /\ x.Command = "ReadTOC"
<1>1. Like(c, d)
  BY FieldNames DEF Ready, Calm, Shape, Like
<1>2. Command_ReadTOC(c) = l
  BY DEF Command_ReadTOC, Error
<1> HIDE DEF d
<1>3. Result(c, a, ACKNOWLEDGE, c.DriveStatus, c.StatusAfterSeek, c.PSR, c.Counter)
  BY <1>1, AckOf
<1> HIDE DEF a
<1>4. Same(a) /\ a.IRQ # 0
  BY <1>3 DEF Result, ACKNOWLEDGE
<1>5. Same(e) /\ e.IRQ = DISC_ERROR /\ e.failed
  BY <1>4, FieldNames DEF Shape, WriteIRQ
<1> HIDE DEF e
<1>6. Same(l) /\ l.IRQ = DISC_ERROR /\ l.failed /\ l.Counter
  BY <1>5, FieldNames DEF Shape, Later
<1> HIDE DEF l
<1>7. Same(g) /\ g.IRQ = DISC_ERROR /\ g.failed /\ g.Counter /\ g.Phase = 2
  BY <1>6, FieldNames DEF Shape
<1> HIDE DEF g
<1>8. ~Present(g) /\ Runs(g) /\ (Moves(g) => g.disc # {})
  BY <1>7 DEF Ready, Runs, Moves, Present
<1> QED BY <1>2, <1>7, <1>8 DEF Fails, g

LEMMA ExecuteStep ==
  ASSUME NEW c, NEW due, Due(c, due), c.Phase = 1
  PROVE  Executed(c, Execute(due)) \/ Fails(Execute(due))
<1> DEFINE b == [due EXCEPT !.Received = <<>>]
           p == IF due.Command \in NeedDisc /\ ~Present(due) THEN Error(b)
                ELSE Perform(b, due.Command, due.Received)
           g == [p EXCEPT !.Phase = 2]
           knows == due.Command \in Known /\ ArgumentsFit(due.Command, Len(due.Received))
<1>1. Execute(due) = IF ~knows THEN Error(b) ELSE g
  BY DEF Execute
<1>2. Like(due, b)
  BY FieldNames DEF Due, Ready, Calm, Shape, Like
<1> HIDE DEF b
<1>3. Ready(b)
  <2>1. Calm(b)
    BY <1>2, CalmLike DEF Due, Ready
  <2> QED BY <1>2, <2>1 DEF Due, Ready, Like, Runs, Moves
<1>4. /\ b.disc = c.disc /\ b.DiscStartupDelay = c.DiscStartupDelay
      /\ b.DriveStatus = c.DriveStatus /\ b.StatusAfterSeek = c.StatusAfterSeek
      /\ b.Command = c.Command /\ b.Phase = 1
      /\ due.Command = c.Command /\ (Present(due) <=> Present(c)) /\ (Present(b) <=> Present(c))
      /\ (Silent(b) <=> Silent(c))
  BY <1>2 DEF Due, Like, Present, Silent
<1>5. Result(b, Error(b), DISC_ERROR, b.DriveStatus, b.StatusAfterSeek, b.PSR, b.Counter)
  BY <1>3, AckResult
<1>6. Performed(b, c.Command, Error(b))
  BY <1>3, <1>5, SimplePerformed DEF ACKNOWLEDGE, DISC_ERROR
<1>7. CASE ~knows
  <2>1. Calm(Error(b)) /\ Runs(Error(b)) /\ (Moves(Error(b)) => Error(b).disc # {})
    BY <1>6 DEF Performed
  <2>2. Error(b).Counter = FALSE /\ Error(b).IRQ = DISC_ERROR /\ Error(b).AIP = 0 /\ Error(b).Command = c.Command
    BY <1>3, <1>4, <1>5 DEF Result, Ready
  <2>3. Sound(Error(b))
    BY <2>1, <2>2 DEF Sound
  <2>4. Silent(c) => Silent(Error(b))
    BY <1>4, <1>5 DEF Result, Silent
  <2> QED BY <1>1, <1>7, <2>2, <2>3, <2>4 DEF Executed, ACKNOWLEDGE, DISC_ERROR
<1>8. CASE knows /\ c.Command = "ReadTOC" /\ ~Present(c)
  <2>1. p = Command_ReadTOC(b)
    BY <1>4, <1>8 DEF Perform, NeedDisc
  <2>2. Fails([Command_ReadTOC(b) EXCEPT !.Phase = 2])
    BY <1>3, <1>4, <1>8, ReadTOCFails
  <2> QED BY <1>1, <1>8, <2>1, <2>2
<1>9. CASE knows /\ (c.Command = "ReadTOC" => Present(c))
  <2>1. Performed(b, c.Command, p)
    <3>1. CASE due.Command \in NeedDisc /\ ~Present(due)
      BY <1>6, <3>1
    <3>2. CASE ~(due.Command \in NeedDisc /\ ~Present(due))
      <4>1. c.Command \in NeedDisc \cup {"ReadTOC"} => Present(b)
        BY <1>4, <1>9, <3>2
      <4>2. c.Command \in Known
        BY <1>4, <1>9
      <4>3. Performed(b, c.Command, Perform(b, c.Command, due.Received))
        BY <1>3, <4>1, <4>2, Performs
      <4> QED BY <1>4, <3>2, <4>3
    <3> QED BY <3>1, <3>2
  <2> HIDE DEF p
  <2>2. /\ Shape(g) /\ g.disc = p.disc /\ g.DiscStartupDelay = p.DiscStartupDelay
        /\ g.DriveStatus = p.DriveStatus /\ g.StatusAfterSeek = p.StatusAfterSeek /\ g.PSR = p.PSR
        /\ g.Command = p.Command /\ g.Phase = 2 /\ g.Counter = p.Counter
        /\ g.CDCReady = p.CDCReady /\ g.IRQ = p.IRQ /\ g.AIP = p.AIP /\ g.failed = p.failed
    BY <2>1, FieldNames DEF Performed, Calm, Shape
  <2> HIDE DEF g
  <2>3. Calm(g) /\ Runs(g) /\ (Moves(g) => g.disc # {}) /\ g.Command = c.Command
    BY <1>4, <2>1, <2>2 DEF Performed, Calm, Runs, Moves
  <2>4. (Moves(g) <=> Moves(p)) /\ (Present(g) <=> Present(p)) /\ (Silent(g) <=> Silent(p))
    BY <2>2 DEF Moves, Present, Silent
  <2>5. Sound(g)
    BY <2>1, <2>2, <2>3, <2>4 DEF Sound, Performed
  <2>6. g.IRQ = ACKNOWLEDGE /\ c.Command \in TwoParts => Answering(g, "second")
    <3>1. Runs(g) /\ g.DriveStatus \in Seeking => g.PSR
      BY DEF Runs, Moves, Seeking
    <3> QED BY <2>1, <2>2, <2>3, <3>1 DEF Performed, Answering
  <2> QED BY <1>1, <1>4, <1>9, <2>1, <2>2, <2>3, <2>4, <2>5, <2>6 DEF Executed, Performed
<1> QED BY <1>7, <1>8, <1>9

\* The second part is done, or a seek waits for its arrival.
Finished(c, g) ==
  /\ Sound(g) /\ g.Command = c.Command /\ g.Phase = c.Phase /\ g.disc = c.disc
  /\ g.AIP = 0 /\ g.IRQ \in {0, COMPLETE, DISC_ERROR}
  /\ g.DriveStatus = c.DriveStatus /\ g.StatusAfterSeek = c.StatusAfterSeek
  /\ g.IRQ = 0 => g.Counter /\ g.PSR = c.PSR

LEMMA FinishStep ==
  ASSUME NEW c, NEW due, Due(c, due), c.Phase = 2 PROVE Finished(c, Finish(due))
<1> DEFINE Same(d, psr) ==
             /\ Calm(d) /\ d.CDCReady = FALSE /\ d.IRQ = 0 /\ d.AIP = 0 /\ d.Counter = FALSE
             /\ d.disc = c.disc /\ d.DiscStartupDelay = c.DiscStartupDelay
             /\ d.DriveStatus = c.DriveStatus /\ d.StatusAfterSeek = c.StatusAfterSeek /\ d.PSR = psr
             /\ d.Command = c.Command /\ d.Phase = 2
<1>1. Same(due, c.PSR)
  BY DEF Due, Ready
<1>2. c.Command \in TwoParts /\ (c.Command \in Halting => ~Moves(c) /\ c.DriveStatus # "RESETTING")
      /\ (c.Command \in Seeks => Present(c)) /\ Runs(c) /\ (Moves(c) => c.disc # {})
  BY DEF Due, Sound
<1>3. ASSUME NEW d, NEW psr \in BOOLEAN, Same(d, psr), NEW irq \in {COMPLETE, DISC_ERROR},
             Moves(c) \/ c.DriveStatus = "RESETTING" => psr
      PROVE  Finished(c, WriteIRQ(d, irq))
  <2> DEFINE g == WriteIRQ(d, irq)
  <2>1. Result(d, g, irq, d.DriveStatus, d.StatusAfterSeek, d.PSR, d.Counter)
    BY <1>3, WriteResult DEF Calm
  <2> HIDE DEF g
  <2>2. g.PSR = psr /\ g.Counter = FALSE /\ g.Command = c.Command /\ g.Phase = 2
        /\ g.disc = c.disc /\ g.DiscStartupDelay = c.DiscStartupDelay
        /\ g.DriveStatus = c.DriveStatus /\ g.StatusAfterSeek = c.StatusAfterSeek
        /\ g.AIP = 0 /\ g.IRQ = irq
    BY <1>3, <2>1 DEF Result
  <2>3. Calm(g)
    BY <1>3, <2>1, <2>2 DEF Result, Calm
  <2>4. Runs(g) /\ (Moves(g) => g.disc # {})
    BY <1>2, <1>3, <2>2 DEF Runs, Moves
  <2>5. Sound(g)
    BY <2>2, <2>3, <2>4 DEF Sound
  <2>6. irq # 0
    BY DEF COMPLETE, DISC_ERROR
  <2>7. Finished(c, g)
    BY <2>2, <2>5, <2>6 DEF Finished
  <2> QED BY <2>7 DEF g
<1>4. c.PSR \in BOOLEAN /\ (Moves(c) \/ c.DriveStatus = "RESETTING" => c.PSR)
  BY <1>1, <1>2 DEF Calm, Runs
<1>5. Finished(c, WriteIRQ(due, COMPLETE)) /\ Finished(c, WriteIRQ(due, DISC_ERROR))
  BY <1>1, <1>3, <1>4
<1>6. CASE c.Command \in Halting
  <2> DEFINE d == [due EXCEPT !.PSR = FALSE]
  <2>1. /\ Shape(d) /\ d.disc = due.disc /\ d.DiscStartupDelay = due.DiscStartupDelay
        /\ d.DriveStatus = due.DriveStatus /\ d.StatusAfterSeek = due.StatusAfterSeek /\ d.PSR = FALSE
        /\ d.Command = due.Command /\ d.Phase = due.Phase /\ d.Counter = due.Counter
        /\ d.CDCReady = due.CDCReady /\ d.IRQ = due.IRQ /\ d.AIP = due.AIP /\ d.failed = due.failed
    BY <1>1, FieldNames DEF Calm, Shape
  <2>2. Finish(due) = WriteIRQ(d, COMPLETE)
    BY <1>1, <1>6 DEF Finish, Halting
  <2> HIDE DEF d
  <2>3. Same(d, FALSE)
    BY <1>1, <2>1 DEF Calm
  <2>4. ~(Moves(c) \/ c.DriveStatus = "RESETTING")
    BY <1>2, <1>6
  <2> QED BY <1>3, <2>2, <2>3, <2>4
<1>7. CASE c.Command \in Seeks
  <2> DEFINE d == Later(due)
  <2>1. Finish(due) = IF due.DriveStatus = "STANDBY" THEN WriteIRQ(due, COMPLETE) ELSE d
    BY <1>1, <1>7 DEF Finish, Seeks
  <2>2. /\ Shape(d) /\ d.disc = due.disc /\ d.DiscStartupDelay = due.DiscStartupDelay
        /\ d.DriveStatus = due.DriveStatus /\ d.StatusAfterSeek = due.StatusAfterSeek /\ d.PSR = due.PSR
        /\ d.Command = due.Command /\ d.Phase = due.Phase /\ d.Counter = TRUE
        /\ d.CDCReady = due.CDCReady /\ d.IRQ = due.IRQ /\ d.AIP = due.AIP /\ d.failed = due.failed
    BY <1>1, FieldNames DEF Calm, Shape, Later
  <2> HIDE DEF d
  <2>3. Calm(d)
    BY <1>1, <2>2 DEF Calm
  <2>4. Runs(d) /\ (Moves(d) => d.disc # {})
    BY <1>1, <1>2, <2>2 DEF Runs, Moves
  <2>5. d.Command \in TwoParts /\ d.Command \notin Halting /\ Present(d) /\ d.Phase = 2
    BY <1>1, <1>2, <1>7, <2>2 DEF Present, Seeks, Halting
  <2>6. Sound(d)
    BY <2>3, <2>4, <2>5 DEF Sound
  <2>7. Finished(c, d)
    BY <1>1, <2>2, <2>6 DEF Finished
  <2> QED BY <1>5, <2>1, <2>7
<1>8. CASE c.Command \in {"ID", "ReadT", "ReadTOC"}
  <2>1. Finish(due) \in {WriteIRQ(due, COMPLETE), WriteIRQ(due, DISC_ERROR)}
    BY <1>1, <1>8 DEF Finish
  <2> QED BY <1>5, <2>1
<1> QED BY <1>2, <1>6, <1>7, <1>8 DEF TwoParts, Halting, Seeks

\* While the command and its arguments are taken nothing else happens.
LEMMA ReceiveStep ==
  ASSUME NEW c, NEW due, Due(c, due), c.Phase \in {-1, 0}
  PROVE  LET g == Receive(due) IN
         /\ Sound(g) /\ g.Counter = TRUE /\ g.Phase \in {0, 1} /\ g.Command = c.Command
         /\ g.AIP = 0 /\ g.IRQ = 0 /\ (Silent(c) => Silent(g))
<1> DEFINE b == [due EXCEPT !.Received = IF due.Phase = 0 /\ Len(due.Received) < 32
                                         THEN Append(due.Received, due.Latch) ELSE due.Received]
           x == [b EXCEPT !.Phase = 1]
           y == [b EXCEPT !.Latch = Head(due.Args), !.Args = Tail(@), !.Phase = 0]
           g == Receive(due)
<1>1. g = Later(IF due.Args = <<>> THEN x ELSE y)
  BY DEF Receive
<1>2. Like(due, b)
  BY FieldNames DEF Due, Ready, Calm, Shape, Like
<1> HIDE DEF b
<1> DEFINE Next_(d) ==
             /\ Shape(d) /\ d.disc = due.disc /\ d.DiscStartupDelay = due.DiscStartupDelay
             /\ d.DriveStatus = due.DriveStatus /\ d.StatusAfterSeek = due.StatusAfterSeek /\ d.PSR = due.PSR
             /\ d.Command = due.Command /\ d.Phase \in {0, 1}
             /\ d.CDCReady = due.CDCReady /\ d.IRQ = due.IRQ /\ d.AIP = due.AIP /\ d.failed = due.failed
<1>3. Next_(x) /\ Next_(y)
  BY <1>2, FieldNames DEF Like, Shape
<1> HIDE DEF x, y, g
<1>4. Next_(g) /\ g.Counter = TRUE
  BY <1>1, <1>3, FieldNames DEF Shape, Later
<1>5. /\ due.CDCReady = FALSE /\ due.IRQ = 0 /\ due.AIP = 0 /\ Calm(due)
      /\ Runs(due) /\ (Moves(due) => due.disc # {})
  BY DEF Due, Ready
<1>6. Calm(g)
  <2>1. Shape(g) /\ g.CDCReady = FALSE /\ g.IRQ = 0 /\ g.AIP = 0 /\ g.Phase \in -1..2 /\ g.Counter = TRUE
    BY <1>4, <1>5
  <2>2. g.PSR \in BOOLEAN /\ g.DiscStartupDelay \in BOOLEAN /\ g.failed = FALSE
    BY <1>4, <1>5 DEF Calm
  <2> QED BY <2>1, <2>2 DEF Calm
<1>7. Runs(g) /\ (Moves(g) => g.disc # {})
  BY <1>4, <1>5 DEF Runs, Moves
<1>9. Silent(c) => Silent(g)
  BY <1>4 DEF Due, Silent
<1>10. Sound(g)
  BY <1>4, <1>6, <1>7 DEF Due, Sound
<1> QED BY <1>4, <1>5, <1>9, <1>10 DEF Due, g

------------------------------------------------------------------------------
(* The invariant, and one lemma for each action.                            *)

CDC_IInv ==
  /\ Sound(cd)
  /\ owed \in {"no", "first", "second"} /\ quiet \in BOOLEAN
  /\ Answering(cd, owed)
  /\ quiet => Hushed(cd)

\* The one failed assertion, after which there is no step.
Dead == Fails(cd) /\ owed = "no"

\* What quiet promises of a step.
Hush == quiet /\ cd'.IRQ # cd.IRQ => cd'.IRQ \notin {DATA_READY, DATA_END}

LEMMA LikeKeeps ==
  ASSUME NEW c, NEW g, Sound(c), Like(c, g), NEW o, Answering(c, o)
  PROVE  Sound(g) /\ Answering(g, o) /\ (Hushed(c) => Hushed(g))
<1>1. Calm(g)
  BY CalmLike DEF Sound
<1>2. Runs(g) /\ (Moves(g) <=> Moves(c)) /\ (Present(g) <=> Present(c)) /\ (Silent(g) <=> Silent(c))
  BY DEF Sound, Like, Runs, Moves, Present, Silent
<1>3. Sound(g)
  BY <1>1, <1>2 DEF Sound, Like
<1> QED BY <1>2, <1>3 DEF Answering, Hushed, Like

\* A controller whose command has no second part to come and that does not move.
LEMMA StillSound ==
  ASSUME NEW g, Calm(g), g.DriveStatus \in {"STOPPED", "PAUSED"},
         g.Counter => g.Phase \in {-1, 0, 1}
  PROVE  Sound(g) /\ Silent(g)
<1>1. ~Moves(g) /\ g.DriveStatus # "RESETTING" /\ Silent(g)
  BY DEF Moves, Silent, Seeking, Reading
<1> QED BY <1>1 DEF Sound, Runs

LEMMA WriteCommandKeeps ==
  ASSUME CDC_IInv, NEW name, WriteCommand(name) PROVE CDC_IInv' /\ Hush
<1>1. Sound(cd)
  BY DEF CDC_IInv
<1>2. /\ cd' = [cd EXCEPT !.Command = name, !.Phase = -1, !.Counter = TRUE, !.Received = <<>>]
      /\ owed' = "first" /\ quiet' = quiet
  BY DEF WriteCommand, Started
<1>3. /\ Shape(cd') /\ cd'.disc = cd.disc /\ cd'.DiscStartupDelay = cd.DiscStartupDelay
      /\ cd'.DriveStatus = cd.DriveStatus /\ cd'.StatusAfterSeek = cd.StatusAfterSeek /\ cd'.PSR = cd.PSR
      /\ cd'.Command = name /\ cd'.Phase = -1 /\ cd'.Counter = TRUE
      /\ cd'.CDCReady = cd.CDCReady /\ cd'.IRQ = cd.IRQ /\ cd'.AIP = cd.AIP /\ cd'.failed = cd.failed
  BY <1>1, <1>2, FieldNames DEF Sound, Calm, Shape
<1>4. Calm(cd')
  <2>1. /\ cd.CDCReady \in BOOLEAN /\ cd.failed = FALSE /\ cd.PSR \in BOOLEAN /\ cd.DiscStartupDelay \in BOOLEAN
        /\ (cd.IRQ # 0 => cd.CDCReady) /\ (cd.AIP # 0 => cd.CDCReady)
    BY <1>1 DEF Sound, Calm
  <2>2. cd'.Counter \in BOOLEAN
    BY <1>3
  <2>3. cd'.Phase \in -1..2
    BY <1>3
  <2> QED BY <1>3, <2>1, <2>2, <2>3 DEF Calm
<1>5. Runs(cd') /\ (Moves(cd') => cd'.disc # {}) /\ (Silent(cd) => Silent(cd'))
  BY <1>1, <1>3 DEF Sound, Runs, Moves, Silent
<1>6. Sound(cd')
  BY <1>2, <1>3, <1>4, <1>5 DEF Sound
<1>7. Answering(cd', owed')
  BY <1>2, <1>3 DEF Answering
<1>8. Hushed(cd) => Hushed(cd')
  BY <1>3, <1>5 DEF Hushed
<1> QED BY <1>2, <1>3, <1>6, <1>7, <1>8 DEF CDC_IInv, Hush

LEMMA ArgumentsKeep ==
  ASSUME CDC_IInv, (\E v \in Arguments : WriteArgument(v)) \/ ClearArguments PROVE CDC_IInv' /\ Hush
<1>1. Sound(cd) /\ Shape(cd)
  BY DEF CDC_IInv, Sound, Calm
<1>2. /\ \/ \E v \in Arguments : cd' = [cd EXCEPT !.Args = Append(@, v)]
         \/ cd' = [cd EXCEPT !.Args = <<>>]
      /\ owed' = owed /\ quiet' = quiet
  BY DEF WriteArgument, ClearArguments
<1>3. Like(cd, cd')
  BY <1>1, <1>2, FieldNames DEF Shape, Like
<1>4. Sound(cd') /\ Answering(cd', owed) /\ (Hushed(cd) => Hushed(cd'))
  BY <1>3, LikeKeeps DEF CDC_IInv
<1> QED BY <1>2, <1>3, <1>4 DEF CDC_IInv, Hush, Like

LEMMA AcknowledgeKeeps ==
  ASSUME CDC_IInv, Acknowledge PROVE CDC_IInv' /\ Hush
<1>1. Sound(cd)
  BY DEF CDC_IInv
<1>2. cd' = [cd EXCEPT !.IRQ = 0] /\ owed' = owed /\ quiet' = quiet
  BY DEF Acknowledge
<1>3. /\ Shape(cd') /\ cd'.disc = cd.disc /\ cd'.DiscStartupDelay = cd.DiscStartupDelay
      /\ cd'.DriveStatus = cd.DriveStatus /\ cd'.StatusAfterSeek = cd.StatusAfterSeek /\ cd'.PSR = cd.PSR
      /\ cd'.Command = cd.Command /\ cd'.Phase = cd.Phase /\ cd'.Counter = cd.Counter
      /\ cd'.CDCReady = cd.CDCReady /\ cd'.IRQ = 0 /\ cd'.AIP = cd.AIP /\ cd'.failed = cd.failed
  BY <1>1, <1>2, FieldNames DEF Sound, Calm, Shape
<1>4. Calm(cd')
  <2>1. cd.AIP # 0 => cd.CDCReady
    BY <1>1 DEF Sound, Calm
  <2>2. /\ cd.CDCReady \in BOOLEAN /\ cd.failed = FALSE /\ cd.PSR \in BOOLEAN /\ cd.Counter \in BOOLEAN
        /\ cd.DiscStartupDelay \in BOOLEAN /\ cd.Phase \in -1..2
    BY <1>1 DEF Sound, Calm
  <2> QED BY <1>3, <2>1, <2>2 DEF Calm
<1>5. Runs(cd') /\ (Moves(cd') <=> Moves(cd)) /\ (Present(cd') <=> Present(cd)) /\ (Silent(cd) <=> Silent(cd'))
  BY <1>1, <1>3 DEF Sound, Runs, Moves, Silent, Present
<1>6. Sound(cd')
  BY <1>1, <1>3, <1>4, <1>5 DEF Sound
<1>7. Answering(cd', owed')
  BY <1>2, <1>3 DEF Answering, CDC_IInv
<1>8. Hushed(cd) => Hushed(cd')
  BY <1>3, <1>5 DEF Hushed
<1> QED BY <1>2, <1>3, <1>6, <1>7, <1>8 DEF CDC_IInv, Hush, DATA_READY, DATA_END

LEMMA SoftResetStill ==
  ASSUME NEW c, Shape(c), c.failed = FALSE, c.DiscStartupDelay \in BOOLEAN, NEW g, 
         \/ g = SoftReset(c)
         \/ g = [SoftReset(c) EXCEPT !.DiscStartupDelay = FALSE]
  PROVE  Sound(g) /\ Hushed(g) /\ g.IRQ = 0
<1> DEFINE h == [c EXCEPT !.Args = <<>>, !.CDCReady = FALSE, !.IRQ = 0, !.SubQ = NoQ, !.SubQChecksumOK = FALSE,
              !.Command = "none", !.Phase = 0, !.Counter = FALSE, !.Mode = {}, !.HeaderBufValid = FALSE,
              !.DriveStatus = "STOPPED", !.StatusAfterSeek = "STOPPED", !.SeekRetryCounter = 0,
              !.Forward = FALSE, !.Backward = FALSE, !.PlayTrackMatch = 0, !.PSR = FALSE, !.CurSector = 0,
              !.SeekTarget = 0, !.CommandLoc = 0, !.Dirty = TRUE]
           s == SoftReset(c)
           R(x) == /\ Shape(x) /\ x.CDCReady = FALSE /\ x.IRQ = 0 /\ x.failed = FALSE
                   /\ x.DiscStartupDelay \in BOOLEAN /\ x.Phase = 0 /\ x.Counter = FALSE
                   /\ x.DriveStatus = "STOPPED" /\ x.PSR = FALSE
<1>1. s = NoSectors(ClearAIP(h))
  BY DEF SoftReset
<1>2. R(h)
  <2> DEFINE i == [c EXCEPT !.Args = <<>>, !.CDCReady = FALSE, !.IRQ = 0, !.SubQ = NoQ, !.SubQChecksumOK = FALSE,
                            !.Command = "none", !.Phase = 0, !.Counter = FALSE, !.Mode = {}, !.HeaderBufValid = FALSE]
             j == [i EXCEPT !.DriveStatus = "STOPPED", !.StatusAfterSeek = "STOPPED", !.SeekRetryCounter = 0,
                            !.Forward = FALSE, !.Backward = FALSE, !.PlayTrackMatch = 0, !.PSR = FALSE,
                            !.CurSector = 0, !.SeekTarget = 0, !.CommandLoc = 0, !.Dirty = TRUE]
  <2>1. h = j
    OBVIOUS
  <2>2. /\ Shape(i) /\ i.CDCReady = FALSE /\ i.IRQ = 0 /\ i.failed = FALSE
        /\ i.DiscStartupDelay = c.DiscStartupDelay /\ i.Phase = 0 /\ i.Counter = FALSE
    BY FieldNames, ZenonT(40) DEF Shape
  <2> HIDE DEF h, i
  <2>3. R(j)
    BY <2>2, FieldNames, ZenonT(40) DEF Shape
  <2> QED BY <2>1, <2>3
<1> HIDE DEF h
<1>3. R(ClearAIP(h)) /\ ClearAIP(h).AIP = 0
  BY <1>2, FieldNames DEF Shape, ClearAIP
<1>4. R(s) /\ s.AIP = 0
  BY <1>1, <1>3, FieldNames DEF Shape, NoSectors
<1> HIDE DEF s
<1>5. R(g) /\ g.AIP = 0
  BY <1>4, FieldNames, ZenonT(40) DEF Shape, s
<1>6. Calm(g)
  <2>1. g.Counter \in BOOLEAN /\ g.PSR \in BOOLEAN /\ g.CDCReady \in BOOLEAN
    BY <1>5
  <2>2. g.Phase \in -1..2 /\ g.IRQ = 0 /\ g.AIP = 0 /\ g.failed = FALSE /\ g.DiscStartupDelay \in BOOLEAN /\ Shape(g)
    BY <1>5
  <2> QED BY <2>1, <2>2 DEF Calm
<1>7. Sound(g) /\ Silent(g)
  BY <1>5, <1>6, StillSound
<1> QED BY <1>5, <1>7 DEF Hushed, DATA_READY, DATA_END

LEMMA ResetsKeep ==
  ASSUME CDC_IInv, ResetController \/ Power PROVE CDC_IInv' /\ Hush
<1>1. Shape(cd) /\ cd.failed = FALSE /\ cd.DiscStartupDelay \in BOOLEAN
  BY DEF CDC_IInv, Sound, Calm
<1>2. /\ cd' = SoftReset(cd) \/ cd' = [SoftReset(cd) EXCEPT !.DiscStartupDelay = FALSE]
      /\ owed' = "no" /\ quiet' = TRUE
  BY DEF ResetController, Power
<1>3. Sound(cd') /\ Hushed(cd') /\ cd'.IRQ = 0
  BY <1>1, <1>2, SoftResetStill
<1> QED BY <1>2, <1>3 DEF CDC_IInv, Answering, Hush, DATA_READY, DATA_END

LEMMA StartupKeeps ==
  ASSUME CDC_IInv, StartupEnds PROVE CDC_IInv' /\ Hush
<1> DEFINE g == [cd EXCEPT !.DiscStartupDelay = FALSE, !.DriveStatus = "PAUSED"]
<1>1. Sound(cd) /\ Calm(cd) /\ cd.DiscStartupDelay
  BY DEF CDC_IInv, Sound, StartupEnds
<1>2. cd' = CheckAIP(g) /\ owed' = owed /\ quiet' = quiet
  BY DEF StartupEnds
<1>3. /\ Shape(g) /\ g.disc = cd.disc /\ g.DiscStartupDelay = FALSE
      /\ g.DriveStatus = "PAUSED" /\ g.StatusAfterSeek = cd.StatusAfterSeek /\ g.PSR = cd.PSR
      /\ g.Command = cd.Command /\ g.Phase = cd.Phase /\ g.Counter = cd.Counter
      /\ g.CDCReady = cd.CDCReady /\ g.IRQ = cd.IRQ /\ g.AIP = cd.AIP /\ g.failed = cd.failed
  BY <1>1, FieldNames DEF Calm, Shape
<1> HIDE DEF g
<1>4. Calm(g)
  <2>1. g.DiscStartupDelay \in BOOLEAN
    BY <1>3
  <2> QED BY <1>1, <1>3, <2>1 DEF Calm
<1>5. cd' = g
  BY <1>2, <1>4, CheckAIPSame
<1>6. ~Moves(g) /\ g.DriveStatus # "RESETTING" /\ Silent(g)
  BY <1>3 DEF Moves, Silent, Seeking, Reading
<1>7. cd.Counter /\ cd.Phase = 2 => cd.Command \notin Seeks
  BY <1>1 DEF Sound, Present
<1>9. Sound(g)
  BY <1>1, <1>3, <1>4, <1>6, <1>7 DEF Sound, Runs
<1>10. Answering(g, owed)
  BY <1>3, <1>7 DEF CDC_IInv, Answering
<1>11. Hushed(cd) => Hushed(g)
  BY <1>3, <1>6 DEF Hushed
<1> QED BY <1>2, <1>3, <1>5, <1>9, <1>10, <1>11 DEF CDC_IInv, Hush

LEMMA ReadyKeeps ==
  ASSUME CDC_IInv, ReadyEnds PROVE CDC_IInv' /\ Hush
<1> DEFINE r == [cd EXCEPT !.CDCReady = FALSE]
           w == ClearAIP(WriteIRQ(r, r.AIP))
           Same(g) == /\ Shape(g) /\ g.disc = cd.disc /\ g.DiscStartupDelay = cd.DiscStartupDelay
                      /\ g.DriveStatus = cd.DriveStatus /\ g.StatusAfterSeek = cd.StatusAfterSeek /\ g.PSR = cd.PSR
                      /\ g.Command = cd.Command /\ g.Phase = cd.Phase /\ g.Counter = cd.Counter
                      /\ g.failed = FALSE
<1>1. Sound(cd) /\ Calm(cd) /\ cd.IRQ = 0
  BY DEF CDC_IInv, Sound, ReadyEnds
<1>2. cd' = CheckAIP(r) /\ owed' = owed /\ quiet' = quiet
  BY DEF ReadyEnds
<1>3. Same(r) /\ r.CDCReady = FALSE /\ r.IRQ = 0 /\ r.AIP = cd.AIP
  BY <1>1, FieldNames DEF Calm, Shape
<1> HIDE DEF r
<1>4. cd' = IF r.AIP # 0 THEN w ELSE r
  BY <1>2, <1>3 DEF CheckAIP
<1>5. Same(w) /\ w.AIP = 0 /\ w.IRQ = cd.AIP /\ w.CDCReady = TRUE
  <2> DEFINE x == WriteIRQ(r, r.AIP)
  <2>1. /\ Shape(x) /\ x.disc = r.disc /\ x.DiscStartupDelay = r.DiscStartupDelay
        /\ x.DriveStatus = r.DriveStatus /\ x.StatusAfterSeek = r.StatusAfterSeek /\ x.PSR = r.PSR
        /\ x.Command = r.Command /\ x.Phase = r.Phase /\ x.Counter = r.Counter
        /\ x.CDCReady = TRUE /\ x.IRQ = r.AIP /\ x.failed = FALSE
    BY <1>3, FieldNames DEF Shape, WriteIRQ
  <2>2. w = [x EXCEPT !.AIP = 0]
    BY DEF ClearAIP
  <2> HIDE DEF x, w
  <2>3. /\ Shape(w) /\ w.disc = x.disc /\ w.DiscStartupDelay = x.DiscStartupDelay
        /\ w.DriveStatus = x.DriveStatus /\ w.StatusAfterSeek = x.StatusAfterSeek /\ w.PSR = x.PSR
        /\ w.Command = x.Command /\ w.Phase = x.Phase /\ w.Counter = x.Counter
        /\ w.CDCReady = x.CDCReady /\ w.IRQ = x.IRQ /\ w.AIP = 0 /\ w.failed = x.failed
    BY <2>1, <2>2, FieldNames DEF Shape
  <2> QED BY <1>3, <2>1, <2>3
<1> HIDE DEF w
<1>6. Same(cd') /\ (cd'.IRQ = 0 \/ cd'.IRQ = cd.AIP) /\ cd'.AIP = 0
      /\ cd'.CDCReady \in BOOLEAN /\ (cd'.IRQ # 0 => cd'.CDCReady)
  BY <1>3, <1>4, <1>5
<1>7. Calm(cd')
  BY <1>1, <1>6 DEF Calm
<1>8. Runs(cd') /\ (Moves(cd') <=> Moves(cd)) /\ (Present(cd') <=> Present(cd)) /\ (Silent(cd) <=> Silent(cd'))
  BY <1>1, <1>6 DEF Sound, Runs, Moves, Silent, Present
<1>9. Sound(cd')
  BY <1>1, <1>6, <1>7, <1>8 DEF Sound
<1>10. Answering(cd', owed)
  BY <1>6 DEF CDC_IInv, Answering
<1>11. Hushed(cd) => Hushed(cd')
  BY <1>6, <1>8 DEF Hushed, DATA_READY, DATA_END
<1>12. Hush
  BY <1>1, <1>6 DEF CDC_IInv, Hushed, Hush
<1> QED BY <1>2, <1>9, <1>10, <1>11, <1>12 DEF CDC_IInv

LEMMA DriveKeeps ==
  ASSUME CDC_IInv, NEW due, DriveEnds(due) PROVE CDC_IInv' /\ Hush
<1>1. Sound(cd) /\ Calm(cd) /\ Runs(cd)
  BY DEF CDC_IInv, Sound
<1>2. cd' = DriveSteps(cd, due) /\ owed' = owed /\ quiet' = quiet
  BY <1>1, CheckAIPSame DEF DriveEnds
<1>3. Stepped(cd, cd')
  BY <1>1, <1>2, DriveStep
<1>4. Moves(cd') => cd'.disc # {}
  BY <1>1, <1>3 DEF Stepped, Sound
<1>6. ASSUME ~Moves(cd), cd.DriveStatus # "RESETTING" PROVE ~Moves(cd') /\ cd'.DriveStatus # "RESETTING"
  BY <1>3, <1>6 DEF Stepped
<1>7. Present(cd) => Present(cd')
  BY <1>3 DEF Stepped, Present
<1>8. Sound(cd')
  BY <1>1, <1>3, <1>4, <1>6, <1>7 DEF Stepped, Sound
<1>9. Answering(cd', owed)
  <2>1. cd.DriveStatus = "STANDBY" => cd'.DriveStatus = "STANDBY"
    BY <1>3 DEF Stepped, Moves
  <2>2. cd'.DriveStatus \in Seeking => cd'.PSR
    BY <1>3 DEF Stepped, Runs, Moves, Seeking
  <2> QED BY <1>3, <2>1, <2>2 DEF CDC_IInv, Answering, Stepped
<1>10. Hushed(cd) => Hushed(cd')
  BY <1>3 DEF Hushed, Stepped, DATA_READY, DATA_END, DISC_ERROR
<1>11. Hush
  BY <1>3 DEF CDC_IInv, Hushed, Hush, Stepped, DATA_READY, DATA_END, DISC_ERROR, COMPLETE
<1> QED BY <1>2, <1>8, <1>9, <1>10, <1>11 DEF CDC_IInv

LEMMA CommandKeeps ==
  ASSUME CDC_IInv, CommandEnds PROVE (CDC_IInv' \/ Dead') /\ Hush
<1> DEFINE due == [cd EXCEPT !.Counter = FALSE]
           answers == cd'.IRQ # 0 /\ ~cd.CDCReady
           acknowledges == answers /\ cd.Phase = 1 /\ cd'.IRQ = ACKNOWLEDGE
<1>1. Sound(cd) /\ Calm(cd) /\ cd.Counter
  BY DEF CDC_IInv, Sound, CommandEnds
<1>2. /\ cd' = CommandSteps(cd)
      /\ owed' = IF acknowledges /\ cd.Command \in TwoParts THEN "second"
                 ELSE IF answers \/ (cd.Phase = 1 /\ ~cd.CDCReady) THEN "no" ELSE owed
      /\ quiet' = IF acknowledges THEN QuietAfter(cd.Command) ELSE quiet
  BY <1>1, CheckAIPSame DEF CommandEnds
<1>3. cd.Phase \in -1..2 /\ (cd.CDCReady \/ cd.IRQ = 0)
  BY <1>1 DEF Calm
<1>4. CASE cd.CDCReady
  <2>1. cd' = cd
    BY <1>2, <1>4 DEF CommandSteps
  <2>2. owed' = owed /\ quiet' = quiet
    BY <1>2, <1>4
  <2> QED BY <2>1, <2>2 DEF CDC_IInv, Hush
<1>5. CASE ~cd.CDCReady
  <2>1. Due(cd, due)
    BY <1>1, <1>5, DueIsReady
  <2>2. cd' = CASE cd.Phase >= 2 -> Finish(due) [] cd.Phase = 1 -> Execute(due) [] OTHER -> Receive(due)
    <3>1. due.Phase = cd.Phase
      BY <2>1 DEF Due
    <3> HIDE DEF due
    <3>2. CommandSteps(cd) = IF cd.CDCReady THEN cd
                             ELSE CASE cd.Phase >= 2 -> Finish(due) [] cd.Phase = 1 -> Execute(due)
                                    [] OTHER -> Receive(due)
      BY DEF CommandSteps, due
    <3>3. CASE cd.Phase = 2
      BY <1>2, <1>5, <3>2, <3>3
    <3>4. CASE cd.Phase = 1
      BY <1>2, <1>5, <3>2, <3>4
    <3>5. CASE cd.Phase \in {-1, 0}
      BY <1>2, <1>5, <3>2, <3>5
    <3> QED BY <1>3, <3>3, <3>4, <3>5
  <2> HIDE DEF due
  <2>3. CASE cd.Phase = 2
    <3>1. cd' = Finish(due)
      BY <2>2, <2>3
    <3>2. Finished(cd, cd')
      BY <2>1, <2>3, <3>1, FinishStep
    <3>3. quiet' = quiet /\ owed' = IF cd'.IRQ # 0 THEN "no" ELSE owed
      BY <1>2, <1>5, <2>3
    <3>4. Answering(cd', owed')
      BY <2>3, <3>2, <3>3 DEF CDC_IInv, Answering, Finished
    <3>5. Hushed(cd) => Hushed(cd')
      BY <3>2 DEF Hushed, Silent, Finished, DATA_READY, DATA_END
    <3>6. Hush
      BY <3>2 DEF Hush, Finished, DATA_READY, DATA_END, COMPLETE, DISC_ERROR
    <3> QED BY <3>2, <3>3, <3>4, <3>5, <3>6 DEF CDC_IInv, Finished
  <2>4. CASE cd.Phase = 1
    <3>1. cd' = Execute(due)
      BY <2>2, <2>4
    <3>2. Executed(cd, cd') \/ Fails(cd')
      BY <2>1, <2>4, <3>1, ExecuteStep
    <3>3. ACKNOWLEDGE # 0
      BY DEF ACKNOWLEDGE
    <3>4. owed' = IF cd'.IRQ = ACKNOWLEDGE /\ cd.Command \in TwoParts THEN "second" ELSE "no"
      BY <1>2, <1>5, <2>4, <3>3
    <3>5. quiet' = IF cd'.IRQ = ACKNOWLEDGE THEN QuietAfter(cd.Command) ELSE quiet
      BY <1>2, <1>5, <2>4, <3>3
    <3>6. CASE Executed(cd, cd')
      <4>1. QuietAfter(cd.Command) = IF cd.Command \in Starting THEN FALSE
                                     ELSE IF cd.Command \in Quieting THEN TRUE ELSE quiet
        BY DEF QuietAfter, Starting, Quieting
      <4>2. Answering(cd', owed')
        BY <3>4, <3>6 DEF Executed, Answering
      <4>3. ASSUME quiet' PROVE Hushed(cd')
        <5>1. Silent(cd')
          BY <3>5, <3>6, <4>1, <4>3 DEF CDC_IInv, Hushed, Executed
        <5> QED BY <3>6, <5>1 DEF Hushed, Executed, DATA_READY, DATA_END
      <4>4. Hush
        BY <3>6 DEF Hush, Executed, DATA_READY, DATA_END, ACKNOWLEDGE, DISC_ERROR
      <4>5. quiet' \in BOOLEAN
        BY <3>5, <4>1 DEF CDC_IInv
      <4> QED BY <3>4, <3>6, <4>2, <4>3, <4>4, <4>5 DEF CDC_IInv, Executed
    <3>7. CASE Fails(cd')
      <4>1. owed' = "no"
        BY <3>4, <3>7 DEF Fails, ACKNOWLEDGE, DISC_ERROR
      <4>2. Hush
        BY <3>7 DEF Hush, Fails, DATA_READY, DATA_END, DISC_ERROR
      <4> QED BY <3>7, <4>1, <4>2 DEF Dead
    <3> QED BY <3>2, <3>6, <3>7
  <2>5. CASE cd.Phase \in {-1, 0}
    <3>1. cd' = Receive(due)
      BY <2>2, <2>5
    <3>2. /\ Sound(cd') /\ cd'.Counter = TRUE /\ cd'.Phase \in {0, 1} /\ cd'.Command = cd.Command
          /\ cd'.AIP = 0 /\ cd'.IRQ = 0 /\ (Silent(cd) => Silent(cd'))
      BY <2>1, <2>5, <3>1, ReceiveStep
    <3>3. owed' = owed /\ quiet' = quiet
      BY <1>2, <2>5, <3>2
    <3>4. Answering(cd', owed')
      BY <2>5, <3>2, <3>3 DEF CDC_IInv, Answering
    <3> QED BY <3>2, <3>3, <3>4 DEF CDC_IInv, Hushed, Hush, DATA_READY, DATA_END
  <2> QED BY <1>3, <2>3, <2>4, <2>5
<1> QED BY <1>4, <1>5

\* A drive that loses its disc stops, with a command that waits for it.
LEMMA ForceStopStops ==
  ASSUME NEW c, Calm(c)
  PROVE  LET g == DMForceStop(c) IN
         /\ Calm(g) /\ g.DriveStatus = "STOPPED" /\ g.AIP = 0 /\ g.IRQ = c.IRQ /\ g.disc = c.disc
         /\ g.Counter => c.Counter /\ c.Phase \in {-1, 0, 1} /\ g.Phase = c.Phase
<1> DEFINE stops == c.DriveStatus \notin {"PAUSED", "STOPPED"} \/ c.Phase >= 2
           h == [c EXCEPT !.PSR = FALSE, !.HeaderBufValid = FALSE, !.DriveStatus = "STOPPED",
                          !.Command = IF stops THEN "none" ELSE @, !.Phase = IF stops THEN 0 ELSE @,
                          !.Counter = @ /\ ~stops]
           g == DMForceStop(c)
<1>1. g = NoSectors(ClearAIP(h))
  BY DEF DMForceStop
<1>2. /\ Shape(h) /\ h.disc = c.disc /\ h.DiscStartupDelay = c.DiscStartupDelay
      /\ h.DriveStatus = "STOPPED" /\ h.PSR = FALSE
      /\ h.Phase = (IF stops THEN 0 ELSE c.Phase)
      /\ h.CDCReady = c.CDCReady /\ h.IRQ = c.IRQ /\ h.AIP = c.AIP /\ h.failed = c.failed
  BY FieldNames, ZenonT(40) DEF Calm, Shape
<1>3. h.Counter = (c.Counter /\ ~stops)
  BY FieldNames DEF Calm, Shape
<1>4. h.Counter \in BOOLEAN /\ (h.Counter => c.Counter /\ ~stops)
  BY <1>3
<1> HIDE DEF h
<1>5. Like([h EXCEPT !.AIP = 0], ClearAIP(h))
  BY <1>2, DataLike
<1>6. Like(ClearAIP(h), NoSectors(ClearAIP(h)))
  BY <1>5, DataLike, ZenonT(40) DEF Like
<1> HIDE DEF g
<1>7. /\ Shape(g) /\ g.disc = h.disc /\ g.DiscStartupDelay = h.DiscStartupDelay
      /\ g.DriveStatus = h.DriveStatus /\ g.PSR = h.PSR /\ g.Phase = h.Phase /\ g.Counter = h.Counter
      /\ g.CDCReady = h.CDCReady /\ g.IRQ = h.IRQ /\ g.AIP = 0 /\ g.failed = h.failed
  <2>1. /\ [h EXCEPT !.AIP = 0].AIP = 0 /\ [h EXCEPT !.AIP = 0].disc = h.disc
        /\ [h EXCEPT !.AIP = 0].DiscStartupDelay = h.DiscStartupDelay
        /\ [h EXCEPT !.AIP = 0].DriveStatus = h.DriveStatus /\ [h EXCEPT !.AIP = 0].PSR = h.PSR
        /\ [h EXCEPT !.AIP = 0].Phase = h.Phase /\ [h EXCEPT !.AIP = 0].Counter = h.Counter
        /\ [h EXCEPT !.AIP = 0].CDCReady = h.CDCReady /\ [h EXCEPT !.AIP = 0].IRQ = h.IRQ
        /\ [h EXCEPT !.AIP = 0].failed = h.failed
    BY <1>2, FieldNames DEF Shape
  <2> QED BY <1>1, <1>5, <1>6, <2>1 DEF Like
<1>8. c.Phase \in -1..2
  BY DEF Calm
<1>9. g.Phase \in -1..2
  BY <1>2, <1>7, <1>8
<1>10. Calm(g)
  <2>1. g.PSR \in BOOLEAN /\ g.Counter \in BOOLEAN
    BY <1>2, <1>4, <1>7
  <2> QED BY <1>2, <1>7, <1>9, <2>1 DEF Calm
<1>11. g.Counter => c.Counter /\ c.Phase \in {-1, 0, 1} /\ g.Phase = c.Phase
  BY <1>2, <1>4, <1>7, <1>8
<1> QED BY <1>2, <1>7, <1>10, <1>11 DEF g

LEMMA EjectKeeps ==
  ASSUME CDC_IInv, NEW c, Like(cd, [c EXCEPT !.disc = cd.disc]), Shape(c),
         cd' = DMForceStop(c) \/ (cd' = c /\ Like(cd, c)),
         owed' = IF cd'.Counter THEN owed ELSE "no", quiet' = quiet
  PROVE  CDC_IInv' /\ Hush
<1>1. Sound(cd) /\ Calm(cd)
  BY DEF CDC_IInv, Sound
<1>2. CASE cd' = c /\ Like(cd, c)
  <2>1. Sound(cd') /\ Answering(cd', owed) /\ (Hushed(cd) => Hushed(cd'))
    BY <1>1, <1>2, LikeKeeps DEF CDC_IInv
  <2>2. Answering(cd', owed')
    BY <2>1 DEF Answering
  <2> QED BY <1>2, <2>1, <2>2 DEF CDC_IInv, Hush, Like
<1>3. CASE cd' = DMForceStop(c)
  <2>1. /\ c.DiscStartupDelay = cd.DiscStartupDelay
        /\ c.DriveStatus = cd.DriveStatus /\ c.StatusAfterSeek = cd.StatusAfterSeek /\ c.PSR = cd.PSR
        /\ c.Command = cd.Command /\ c.Phase = cd.Phase /\ c.Counter = cd.Counter
        /\ c.CDCReady = cd.CDCReady /\ c.IRQ = cd.IRQ /\ c.AIP = cd.AIP /\ c.failed = cd.failed
    BY FieldNames DEF Like, Shape
  <2>2. Calm(c)
    BY <1>1, <2>1 DEF Calm
  <2>3. /\ Calm(cd') /\ cd'.DriveStatus = "STOPPED" /\ cd'.AIP = 0 /\ cd'.IRQ = cd.IRQ
        /\ cd'.Counter => cd.Counter /\ cd.Phase \in {-1, 0, 1} /\ cd'.Phase = cd.Phase
    BY <1>3, <2>1, <2>2, ForceStopStops
  <2>4. Sound(cd') /\ Silent(cd')
    BY <2>3, StillSound
  <2>5. Answering(cd', owed')
    BY <2>3 DEF CDC_IInv, Answering
  <2> QED BY <2>3, <2>4, <2>5 DEF CDC_IInv, Hush, Hushed, DATA_READY, DATA_END
<1> QED BY <1>2, <1>3

LEMMA FrontendKeeps ==
  ASSUME CDC_IInv, EjectDisc \/ (\E disc \in SUBSET CDs : LoadState(disc)) PROVE CDC_IInv' /\ Hush
<1>1. Shape(cd)
  BY DEF CDC_IInv, Sound, Calm
<1>2. ASSUME NEW disc
      PROVE  LET c == [cd EXCEPT !.disc = disc] IN
             Like(cd, [c EXCEPT !.disc = cd.disc]) /\ Shape(c) /\ (disc = cd.disc => Like(cd, c))
  BY <1>1, FieldNames DEF Shape, Like
<1>3. CASE EjectDisc
  <2>1. /\ cd' = DMForceStop([cd EXCEPT !.disc = {}])
        /\ owed' = (IF cd'.Counter THEN owed ELSE "no") /\ quiet' = quiet
    BY <1>3 DEF EjectDisc, SetDisc
  <2> QED BY <1>2, <2>1, EjectKeeps
<1>4. ASSUME NEW disc, LoadState(disc) PROVE CDC_IInv' /\ Hush
  <2> DEFINE c == [cd EXCEPT !.disc = disc]
  <2>1. /\ disc \in {{}, cd.disc} /\ cd' = (IF disc = {} THEN DMForceStop(c) ELSE c)
        /\ owed' = (IF cd'.Counter THEN owed ELSE "no") /\ quiet' = quiet
    BY <1>4 DEF LoadState
  <2>2. Like(cd, [c EXCEPT !.disc = cd.disc]) /\ Shape(c) /\ (disc = cd.disc => Like(cd, c))
    BY <1>2
  <2> HIDE DEF c
  <2>3. cd' = DMForceStop(c) \/ (cd' = c /\ Like(cd, c))
    BY <2>1, <2>2
  <2> QED BY <2>1, <2>2, <2>3, EjectKeeps
<1> QED BY <1>3, <1>4

LEMMA InsertKeeps ==
  ASSUME CDC_IInv, NEW d \in CDs, Insert(d) PROVE CDC_IInv' /\ Hush
<1>1. Sound(cd) /\ Calm(cd) /\ cd.disc = {}
  BY DEF CDC_IInv, Sound, Insert
<1>2. /\ cd' = [cd EXCEPT !.disc = {d}, !.HeaderBufValid = FALSE, !.DiscStartupDelay = TRUE]
      /\ owed' = owed /\ quiet' = quiet
  <2>1. {d} # {}
    OBVIOUS
  <2> QED BY <2>1 DEF Insert, SetDisc
<1>3. /\ Shape(cd') /\ cd'.disc = {d} /\ cd'.DiscStartupDelay = TRUE
      /\ cd'.DriveStatus = cd.DriveStatus /\ cd'.StatusAfterSeek = cd.StatusAfterSeek /\ cd'.PSR = cd.PSR
      /\ cd'.Command = cd.Command /\ cd'.Phase = cd.Phase /\ cd'.Counter = cd.Counter
      /\ cd'.CDCReady = cd.CDCReady /\ cd'.IRQ = cd.IRQ /\ cd'.AIP = cd.AIP /\ cd'.failed = cd.failed
  BY <1>1, <1>2, FieldNames DEF Calm, Shape
<1>4. Calm(cd')
  <2>1. cd'.DiscStartupDelay \in BOOLEAN
    BY <1>3
  <2> QED BY <1>1, <1>3, <2>1 DEF Calm
<1>5. ~Moves(cd') /\ Runs(cd') /\ (Silent(cd) <=> Silent(cd'))
  BY <1>1, <1>3 DEF Sound, Runs, Moves, Silent
<1>6. ~Present(cd)
  BY <1>1 DEF Present
<1>7. Sound(cd')
  BY <1>1, <1>3, <1>4, <1>5, <1>6 DEF Sound
<1>8. Answering(cd', owed)
  BY <1>3 DEF CDC_IInv, Answering
<1>9. Hushed(cd) => Hushed(cd')
  BY <1>3, <1>5 DEF Hushed
<1> QED BY <1>2, <1>3, <1>7, <1>8, <1>9 DEF CDC_IInv, Hush

LEMMA InitIInv == ASSUME CDC_Init PROVE CDC_IInv
<1> DEFINE Good(c) == Shape(c) /\ c.failed = FALSE /\ c.DiscStartupDelay \in BOOLEAN
           a == [Constructed EXCEPT !.disc = {}]
           b == DMForceStop(a)
<1> DEFINE k == Constructed
<1>1. Calm(k)
  <2>1. Shape(k)
    BY DEF Shape, Fields, Constructed
  <2>2. k.CDCReady = FALSE /\ k.failed = FALSE /\ k.PSR = FALSE
    BY DEF Constructed
  <2>3. k.Counter = FALSE /\ k.DiscStartupDelay = FALSE
    BY DEF Constructed
  <2>4. k.Phase = 0 /\ k.IRQ = 0 /\ k.AIP = 0
    BY DEF Constructed
  <2> HIDE DEF k
  <2>5. k.CDCReady \in BOOLEAN /\ k.PSR \in BOOLEAN /\ k.Counter \in BOOLEAN /\ k.DiscStartupDelay \in BOOLEAN
    BY <2>2, <2>3
  <2>6. k.Phase \in -1..2
    BY <2>4
  <2> QED BY <2>1, <2>2, <2>4, <2>5, <2>6 DEF Calm
<1>2. PICK disc \in {{}} \cup {{d} : d \in CDs} :
        cd = [SoftReset(SetDisc(SetDisc(Constructed, {}), disc)) EXCEPT !.DiscStartupDelay = FALSE]
  BY DEF CDC_Init
<1>3. Calm(a)
  BY <1>1, FieldNames DEF Calm, Shape
<1>4. SetDisc(Constructed, {}) = b
  BY DEF SetDisc
<1> HIDE DEF a
<1>5. Calm(b)
  BY <1>3, ForceStopStops
<1> HIDE DEF b
<1>6. Good(SetDisc(b, disc))
  <2>1. CASE disc = {}
    <3> DEFINE e == [b EXCEPT !.disc = {}]
    <3>1. Calm(e)
      BY <1>5, FieldNames DEF Calm, Shape
    <3>2. SetDisc(b, disc) = DMForceStop(e)
      BY <2>1 DEF SetDisc
    <3> HIDE DEF e
    <3>3. Calm(DMForceStop(e))
      BY <3>1, ForceStopStops
    <3> QED BY <3>2, <3>3 DEF Calm
  <2>2. CASE disc # {}
    BY <1>5, <2>2, FieldNames DEF Calm, Shape, SetDisc
  <2> QED BY <2>1, <2>2
<1>7. Sound(cd) /\ Hushed(cd)
  BY <1>2, <1>4, <1>6, SoftResetStill
<1> QED BY <1>7 DEF CDC_Init, CDC_IInv, Answering

------------------------------------------------------------------------------
(* The theorems.                                                            *)

LEMMA NextIInv ==
  ASSUME CDC_IInv \/ Dead, [CDC_Next]_cdcVars PROVE (CDC_IInv' \/ Dead') /\ Hush
<1>1. CASE CDC_IInv
  <2>1. ~cd.failed
    BY <1>1 DEF CDC_IInv, Sound, Calm
  <2>2. CASE Game
    BY <1>1, <2>2, WriteCommandKeeps, ArgumentsKeep, AcknowledgeKeeps, ResetsKeep DEF Game
  <2>3. CASE CDC_Update
    BY <1>1, <2>3, StartupKeeps, ReadyKeeps, DriveKeeps, CommandKeeps DEF CDC_Update
  <2>4. CASE Frontend
    BY <1>1, <2>4, FrontendKeeps, InsertKeeps, ResetsKeep DEF Frontend
  <2>5. CASE UNCHANGED cdcVars
    BY <1>1, <2>5 DEF cdcVars, CDC_IInv, Hush
  <2> QED BY <2>1, <2>2, <2>3, <2>4, <2>5 DEF CDC_Next, Aborted
<1>2. CASE Dead
  <2>1. UNCHANGED cdcVars
    BY <1>2 DEF Dead, Fails, CDC_Next, Aborted
  <2> QED BY <1>2, <2>1 DEF cdcVars, Dead, Hush
<1> QED BY <1>1, <1>2

THEOREM Invariant == CDC_Spec => [](CDC_IInv \/ Dead)
<1>1. CDC_Init => CDC_IInv \/ Dead
  BY InitIInv
<1>2. (CDC_IInv \/ Dead) /\ [CDC_Next]_cdcVars => (CDC_IInv \/ Dead)'
  BY NextIInv
<1> QED BY <1>1, <1>2, PTL DEF CDC_Spec

\* No interrupt is sent over another one, and no second part is called that there is not: the
\* assertions of WriteIRQ (cdc.cpp:369-370), in every order of commands, sectors, acknowledgements,
\* ejections and loads, but for a ReadTOC that finds no disc (cdc.cpp:2312), which fails one.
THEOREM AssertionsDoHold == CDC_Spec => []AssertionsHold
<1>1. CDC_IInv \/ Dead => AssertionsHold
  BY DEF CDC_IInv, Sound, Calm, Dead, Fails, AssertionsHold
<1> QED BY <1>1, Invariant, PTL

\* A drive that moves has its next step to come, and a disc to read (cdc.cpp:888).
THEOREM DriveDoesRun == CDC_Spec => []DriveRuns
<1>1. CDC_IInv \/ Dead => DriveRuns
  BY DEF CDC_IInv, Sound, Runs, Dead, Fails, DriveRuns
<1> QED BY <1>1, Invariant, PTL

\* A command that is not answered completely has its counter running, and a seek that waits for
\* STANDBY is there or on its way (cdc.cpp:2126).
THEOREM AnswersDoCome == CDC_Spec => []AnswersAreOwed
<1>1. CDC_IInv \/ Dead => AnswersAreOwed
  BY DEF CDC_IInv, Answering, AnswersAreOwed, Seeks, Seeking, Dead
<1> QED BY <1>1, Invariant, PTL

\* After a command that ends reading is acknowledged nothing is heard of sectors, tracks or the
\* end of the disc until one that begins to read is (cdc.cpp:1882).
THEOREM DataDoesStop == CDC_Spec => DataStops
<1>1. (CDC_IInv \/ Dead) /\ [CDC_Next]_cdcVars => [quiet /\ cd'.IRQ # cd.IRQ => cd'.IRQ \notin {DATA_READY, DATA_END}]_cdcVars
  BY NextIInv DEF Hush
<1> QED BY <1>1, Invariant, PTL DEF CDC_Spec, DataStops

------------------------------------------------------------------------------
(* The arguments of a command. The drive and the commands leave those in    *)
(* the FIFO alone, and those that were received for the one in preparation. *)

Kept(c, g) == Shape(g) /\ g.Args = c.Args /\ g.Latch = c.Latch /\ g.Received = c.Received

LEMMA KeptTransitive ==
  ASSUME NEW a, NEW b, NEW c, Kept(a, b), Kept(b, c) PROVE Kept(a, c)
  BY DEF Kept

LEMMA DecodeKept ==
  ASSUME NEW c, Shape(c), NEW s PROVE Kept(c, DecodeSubQ(c, s))
  BY FieldNames DEF Shape, Kept, DecodeSubQ

LEMMA ReadableKept ==
  ASSUME NEW c, Shape(c), NEW tries PROVE Kept(c, Readable(c, tries))
  BY DecodeKept DEF Readable

LEMMA DataKept ==
  ASSUME NEW c, Shape(c)
  PROVE  /\ Kept(c, NoSectors(c)) /\ Kept(c, Matched(c)) /\ Kept(c, ClearAIP(c))
         /\ Kept(c, Advanced(c)) /\ Kept(c, Later(c)) /\ Kept(c, Arrived(c))
<1>1. Kept(c, NoSectors(c))
  BY FieldNames DEF Shape, Kept, NoSectors
<1>2. Kept(c, Matched(c))
  BY FieldNames DEF Shape, Kept, Matched
<1>3. Kept(c, ClearAIP(c))
  BY FieldNames DEF Shape, Kept, ClearAIP
<1>4. Kept(c, Advanced(c))
  BY FieldNames, ZenonT(40) DEF Shape, Kept, Advanced
<1>5. Kept(c, Later(c))
  BY FieldNames DEF Shape, Kept, Later
<1>6. Kept(c, Arrived(c))
  BY FieldNames DEF Shape, Kept, Arrived
<1> QED BY <1>1, <1>2, <1>3, <1>4, <1>5, <1>6

LEMMA WriteKept ==
  ASSUME NEW c, Shape(c), NEW v PROVE Kept(c, WriteIRQ(c, v))
  BY FieldNames DEF Shape, Kept, WriteIRQ

LEMMA AckKept ==
  ASSUME NEW c, Shape(c) PROVE Kept(c, Ack(c)) /\ Kept(c, Error(c))
  BY WriteKept DEF Ack, Error

LEMMA CheckKept ==
  ASSUME NEW c, Shape(c) PROVE Kept(c, CheckAIP(c))
<1> DEFINE w == WriteIRQ(c, c.AIP)
<1>1. Kept(c, w)
  BY WriteKept
<1>2. Kept(w, ClearAIP(w))
  BY <1>1, DataKept DEF Kept
<1>3. Kept(c, ClearAIP(w))
  BY <1>1, <1>2, KeptTransitive
<1> QED BY <1>3 DEF CheckAIP, Kept

LEMMA SetKept ==
  ASSUME NEW c, Shape(c), NEW irq PROVE Kept(c, SetAIP(c, irq))
<1> DEFINE s == [c EXCEPT !.AIP = irq]
<1>1. Kept(c, s)
  BY FieldNames DEF Shape, Kept
<1> HIDE DEF s
<1>2. Kept(s, CheckAIP(s))
  BY <1>1, CheckKept DEF Kept
<1>3. Kept(c, CheckAIP(s))
  BY <1>1, <1>2, KeptTransitive
<1> QED BY <1>3 DEF SetAIP, s

LEMMA ReadKept ==
  ASSUME NEW e, Shape(e), NEW due PROVE Kept(e, HandlePlayRead(e, due))
<1> DEFINE stop == [e EXCEPT !.DriveStatus = "STOPPED"]
           read == DecodeSubQ(e, e.CurSector)
           matched == Matched(read)
           reported == IF Reports(matched, due) THEN SetAIP(matched, DATA_READY) ELSE matched
           pause == [read EXCEPT !.HeaderBufValid = FALSE, !.DriveStatus = "PAUSED"]
           told == SetAIP(matched, DATA_END)
           auto == [told EXCEPT !.DriveStatus = "PAUSED", !.PSR = FALSE]
           header == [reported EXCEPT !.HeaderBufValid = TRUE]
           passed == IF Pops(reported) THEN Delivered(reported) ELSE reported
<1>1. HandlePlayRead(e, due) =
        IF e.CurSector >= TooFar THEN NoSectors(stop)
        ELSE IF LeadsOut(read) THEN SetAIP(NoSectors(pause), DATA_END)
        ELSE IF AutoPauses(matched) THEN NoSectors(auto) ELSE Advanced(passed)
  BY DEF HandlePlayRead
<1>2. Kept(e, stop)
  BY FieldNames DEF Shape, Kept
<1>3. Kept(e, read)
  BY DecodeKept
<1> HIDE DEF stop, read
<1>4. Kept(e, NoSectors(stop))
  BY <1>2, DataKept, KeptTransitive DEF Kept
<1>5. Kept(e, matched)
  BY <1>3, DataKept, KeptTransitive DEF Kept
<1>6. Kept(e, pause)
  BY <1>3, FieldNames DEF Shape, Kept
<1> HIDE DEF matched, pause
<1>7. Kept(e, NoSectors(pause))
  BY <1>6, DataKept, KeptTransitive DEF Kept
<1>8. Kept(e, SetAIP(NoSectors(pause), DATA_END))
  BY <1>7, SetKept, KeptTransitive DEF Kept
<1>9. Kept(e, told)
  BY <1>5, SetKept, KeptTransitive DEF Kept
<1>10. Kept(e, SetAIP(matched, DATA_READY))
  BY <1>5, SetKept, KeptTransitive DEF Kept
<1>11. Kept(e, reported)
  BY <1>5, <1>10
<1> HIDE DEF told, reported
<1>12. Kept(e, auto)
  BY <1>9, FieldNames DEF Shape, Kept
<1> HIDE DEF auto
<1>13. Kept(e, NoSectors(auto))
  BY <1>12, DataKept, KeptTransitive DEF Kept
<1>14. Kept(e, header)
  BY <1>11, FieldNames DEF Shape, Kept
<1> HIDE DEF header
<1>15. Kept(e, SetAIP(header, DATA_READY))
  BY <1>14, SetKept, KeptTransitive DEF Kept
<1>16. Delivered(reported) \in {reported, header, SetAIP(header, DATA_READY)}
  BY DEF Delivered, header
<1>17. Kept(e, passed)
  BY <1>11, <1>14, <1>15, <1>16
<1> HIDE DEF passed
<1>18. Kept(e, Advanced(passed))
  BY <1>17, DataKept, KeptTransitive DEF Kept
<1> QED BY <1>1, <1>4, <1>8, <1>13, <1>18

LEMMA DriveKept ==
  ASSUME NEW c, Shape(c), NEW due PROVE Kept(c, DriveSteps(c, due))
<1> DEFINE e == [c EXCEPT !.PSR = FALSE]
<1>1. Kept(c, e)
  BY FieldNames DEF Shape, Kept
<1>2. DriveSteps(c, due) \in {ResetEnds(e), SeekEnds(e), LogicalSeekEnds(e), HandlePlayRead(e, due), e}
  <2>1. CASE c.DriveStatus = "RESETTING"
    BY <2>1 DEF DriveSteps
  <2>2. CASE c.DriveStatus = "SEEKING"
    BY <2>2 DEF DriveSteps
  <2>3. CASE c.DriveStatus = "SEEKING_LOGICAL"
    BY <2>3 DEF DriveSteps
  <2>4. CASE c.DriveStatus \in {"READING", "PLAYING"}
    BY <2>4 DEF DriveSteps
  <2>5. CASE c.DriveStatus \notin {"RESETTING", "SEEKING", "SEEKING_LOGICAL", "READING", "PLAYING"}
    BY <2>5 DEF DriveSteps
  <2> QED BY <2>1, <2>2, <2>3, <2>4, <2>5
<1> HIDE DEF e
<1>3. Kept(c, HandlePlayRead(e, due))
  BY <1>1, ReadKept, KeptTransitive DEF Kept
<1>4. Kept(c, ResetEnds(e))
  <2> DEFINE s == SetAIP(e, COMPLETE)
             p == [s EXCEPT !.Mode = {}, !.CurSector = 0, !.CommandLoc = 0, !.DriveStatus = "PAUSED"]
  <2>1. Kept(c, s)
    BY <1>1, SetKept, KeptTransitive DEF Kept
  <2>2. ResetEnds(e) = ClearAIP(NoSectors(p))
    BY DEF ResetEnds
  <2> HIDE DEF s
  <2>3. Kept(c, p)
    BY <2>1, FieldNames DEF Shape, Kept
  <2> HIDE DEF p
  <2>4. Kept(c, NoSectors(p))
    BY <2>3, DataKept, KeptTransitive DEF Kept
  <2>5. Kept(c, ClearAIP(NoSectors(p)))
    BY <2>4, DataKept, KeptTransitive DEF Kept
  <2> QED BY <2>2, <2>5
<1>5. Kept(c, [e EXCEPT !.CurSector = e.SeekTarget])
  BY <1>1, FieldNames DEF Shape, Kept
<1> DEFINE there == [e EXCEPT !.CurSector = e.SeekTarget]
<1>6. Kept(c, SeekEnds(e))
  <2> DEFINE tries == [i \in 1..16 |-> e.SeekTarget - i]
             r == Readable(there, tries)
  <2>1. SeekEnds(e) = Arrived(r)
    BY DEF SeekEnds
  <2>2. Kept(c, there)
    BY <1>5
  <2> HIDE DEF there, tries
  <2>3. Kept(there, r)
    BY <2>2, ReadableKept DEF Kept
  <2> HIDE DEF r
  <2>4. Kept(c, r)
    BY <2>2, <2>3, KeptTransitive
  <2> QED BY <2>1, <2>4, DataKept, KeptTransitive DEF Kept
<1>7. Kept(c, LogicalSeekEnds(e))
  <2> DEFINE r == DecodeSubQ(there, e.SeekTarget)
             again == [r EXCEPT !.SeekRetryCounter = @ - 1, !.PSR = TRUE]
             lost == [r EXCEPT !.DriveStatus = "STANDBY"]
  <2>1. LogicalSeekEnds(e) \in {Arrived(r), again, SetAIP(lost, DISC_ERROR)}
    BY DEF LogicalSeekEnds
  <2>2. Kept(c, there)
    BY <1>5
  <2> DEFINE target == e.SeekTarget
  <2> HIDE DEF there, target
  <2>3. Kept(there, DecodeSubQ(there, target))
    BY <2>2, DecodeKept DEF Kept
  <2>4. r = DecodeSubQ(there, target)
    BY DEF target
  <2> HIDE DEF r
  <2>5. Kept(c, r)
    BY <2>2, <2>3, <2>4, KeptTransitive
  <2>6. Kept(c, Arrived(r))
    BY <2>5, DataKept, KeptTransitive DEF Kept
  <2>7. Kept(c, again) /\ Kept(c, lost)
    BY <2>5, FieldNames DEF Shape, Kept
  <2> HIDE DEF again, lost
  <2>8. Kept(c, SetAIP(lost, DISC_ERROR))
    BY <2>7, SetKept, KeptTransitive DEF Kept
  <2> QED BY <2>1, <2>6, <2>7, <2>8
<1> QED BY <1>1, <1>2, <1>3, <1>4, <1>6, <1>7

LEMMA SeekKept ==
  ASSUME NEW c, Shape(c), NEW target, NEW how, NEW then PROVE Kept(c, Seek(c, target, how, then))
<1> DEFINE s == [c EXCEPT !.SeekTarget = target, !.CurSector = target, !.SeekRetryCounter = MaxRetries, !.PSR = TRUE,
                          !.HeaderBufValid = FALSE, !.DriveStatus = how, !.StatusAfterSeek = then]
<1>1. Kept(c, s)
  BY FieldNames DEF Shape, Kept
<1> DEFINE tries == [i \in 1..32 |-> target + i - 1]
<1>2. Seek(c, target, how, then) = Readable(s, tries)
  BY DEF Seek
<1> HIDE DEF s, tries
<1> QED BY <1>1, <1>2, ReadableKept, KeptTransitive DEF Kept

LEMMA PlayKept ==
  ASSUME NEW c, Shape(c), NEW args PROVE Kept(c, Command_Play(c, args))
<1> DEFINE x == Ack(ClearAIP(c))
           a == [x EXCEPT !.Forward = FALSE, !.Backward = FALSE]
           t == Clamped(args[1])
           track == [NoSectors(a) EXCEPT !.PlayTrackMatch = t]
           any == [NoSectors(a) EXCEPT !.PlayTrackMatch = NoMatch]
           wanted == Wanted(c)
           b == IF args # <<>> /\ args[1] # 0 THEN Seek(track, Start[t], "SEEKING", "PLAYING")
                ELSE IF c.Dirty \/ c.DriveStatus # "PLAYING" THEN Seek(any, Wanted(c), "SEEKING", "PLAYING") ELSE a
<1>1. Command_Play(c, args) = [b EXCEPT !.Dirty = FALSE]
  BY DEF Command_Play
<1>2. Kept(c, ClearAIP(c))
  BY DataKept
<1>3. Kept(c, x)
  BY <1>2, AckKept, KeptTransitive DEF Kept
<1> HIDE DEF x
<1>4. Kept(c, a)
  BY <1>3, FieldNames DEF Shape, Kept
<1> HIDE DEF a, t
<1>5. Kept(c, NoSectors(a))
  BY <1>4, DataKept, KeptTransitive DEF Kept
<1>6. Kept(c, track) /\ Kept(c, any)
  BY <1>5, FieldNames DEF Shape, Kept
<1> HIDE DEF track, any
<1>7. Kept(c, Seek(track, Start[t], "SEEKING", "PLAYING"))
  BY <1>6, SeekKept, KeptTransitive DEF Kept
<1>8. Kept(c, Seek(any, Wanted(c), "SEEKING", "PLAYING"))
  BY <1>6, SeekKept, KeptTransitive DEF Kept
<1>9. Kept(c, b)
  BY <1>4, <1>7, <1>8
<1> HIDE DEF b
<1>10. Kept(c, [b EXCEPT !.Dirty = FALSE])
  BY <1>9, FieldNames DEF Shape, Kept
<1> QED BY <1>1, <1>10

LEMMA ReadBaseKept ==
  ASSUME NEW c, Shape(c) PROVE Kept(c, ReadBase(c))
<1> DEFINE a == Ack(c)
           s == NoSectors(ClearAIP(a))
           sought == Seek(s, Wanted(c), "SEEKING_LOGICAL", "READING")
           b == IF ~SeeksIt(c) /\ (c.Dirty \/ c.DriveStatus # "READING") THEN sought ELSE a
<1>1. ReadBase(c) = IF IsPSXDisc(c) THEN [b EXCEPT !.Dirty = FALSE] ELSE Error(c)
  BY DEF ReadBase
<1>2. Kept(c, a) /\ Kept(c, Error(c))
  BY AckKept
<1> HIDE DEF a
<1>3. Kept(c, ClearAIP(a))
  BY <1>2, DataKept, KeptTransitive DEF Kept
<1>4. Kept(c, s)
  BY <1>3, DataKept, KeptTransitive DEF Kept
<1> HIDE DEF s
<1>5. Kept(c, sought)
  BY <1>4, SeekKept, KeptTransitive DEF Kept
<1>6. Kept(c, b)
  BY <1>2, <1>5
<1> HIDE DEF b
<1>7. Kept(c, [b EXCEPT !.Dirty = FALSE])
  BY <1>6, FieldNames DEF Shape, Kept
<1> QED BY <1>1, <1>2, <1>7

LEMMA HaltsKept ==
  ASSUME NEW c, Shape(c)
  PROVE  Kept(c, Command_Stop(c)) /\ Kept(c, Command_Standby(c)) /\ Kept(c, Command_Pause(c))
<1> DEFINE s == NoSectors(ClearAIP(Ack(c)))
           stop == [s EXCEPT !.DriveStatus = "STOPPED", !.HeaderBufValid = FALSE]
           standby == [s EXCEPT !.DriveStatus = "STANDBY"]
           pause == [s EXCEPT !.DriveStatus = "PAUSED", !.CurSector = @ - c.SectorsRead]
<1>1. Kept(c, Ack(c)) /\ Kept(c, Error(c))
  BY AckKept
<1>2. Kept(c, ClearAIP(Ack(c)))
  BY <1>1, DataKept, KeptTransitive DEF Kept
<1>3. Kept(c, s)
  BY <1>2, DataKept, KeptTransitive DEF Kept
<1>4. /\ Command_Stop(c) \in {Later(Ack(c)), Later(stop)}
      /\ Command_Standby(c) \in {Error(c), Later(standby)}
      /\ Command_Pause(c) \in {Later(Ack(c)), Later(pause)}
  <2>1. Command_Stop(c) \in {Later(Ack(c)), Later(stop)}
    BY DEF Command_Stop
  <2>2. Command_Standby(c) \in {Error(c), Later(standby)}
    BY DEF Command_Standby
  <2>3. Command_Pause(c) \in {Later(Ack(c)), Later(pause)}
    <3>1. s.CurSector = NoSectors(ClearAIP(Ack(c))).CurSector
      OBVIOUS
    <3> QED BY DEF Command_Pause
  <2> QED BY <2>1, <2>2, <2>3
<1> HIDE DEF s
<1>5. Kept(c, stop) /\ Kept(c, standby) /\ Kept(c, pause)
  BY <1>3, FieldNames DEF Shape, Kept
<1> HIDE DEF stop, standby, pause
<1>6. Kept(c, Later(stop)) /\ Kept(c, Later(standby)) /\ Kept(c, Later(pause)) /\ Kept(c, Later(Ack(c)))
  BY <1>1, <1>5, DataKept, KeptTransitive DEF Kept
<1> QED BY <1>1, <1>4, <1>6

LEMMA PerformKept ==
  ASSUME NEW c, Shape(c), NEW name, NEW args PROVE Kept(c, Perform(c, name, args))
<1> DEFINE p == Perform(c, name, args)
<1>1. Kept(c, Ack(c)) /\ Kept(c, Error(c)) /\ Kept(c, c)
  BY AckKept DEF Kept
<1>2. Kept(c, Later(Ack(c)))
  BY <1>1, DataKept, KeptTransitive DEF Kept
<1>3. CASE name = "Setloc"
  <2> DEFINE v == args[1]
             l == [c EXCEPT !.CommandLoc = LocOf[v], !.Dirty = TRUE]
  <2>1. Kept(c, l)
    BY FieldNames DEF Shape, Kept
  <2>2. p \in {Ack(l), Error(c)}
    BY <1>3 DEF Perform, Command_Setloc
  <2> HIDE DEF l, p
  <2>3. Kept(c, Ack(l))
    BY <2>1, AckKept, KeptTransitive DEF Kept
  <2> QED BY <1>1, <2>2, <2>3 DEF p
<1>4. CASE name = "Play"
  BY <1>4, PlayKept DEF Perform
<1>5. CASE name \in {"Forward", "Backward"}
  <2> DEFINE a == Ack(c)
             f == [a EXCEPT !.Backward = FALSE, !.Forward = TRUE]
             b == [a EXCEPT !.Backward = TRUE, !.Forward = FALSE]
  <2>1. p \in {f, b}
    BY <1>5 DEF Perform
  <2> HIDE DEF a, p
  <2>2. Kept(c, f) /\ Kept(c, b)
    BY <1>1, FieldNames DEF Shape, Kept, a
  <2> QED BY <2>1, <2>2 DEF p
<1>6. CASE name \in {"ReadN", "ReadS"}
  BY <1>6, ReadBaseKept DEF Perform
<1>7. CASE name \in {"Standby", "Stop", "Pause"}
  BY <1>7, HaltsKept DEF Perform
<1>8. CASE name = "Reset"
  <2> DEFINE a == Ack(c)
             r == [a EXCEPT !.HeaderBufValid = FALSE, !.DriveStatus = "RESETTING", !.PSR = TRUE]
  <2>1. p \in {a, r}
    BY <1>8 DEF Perform, Command_Reset
  <2> HIDE DEF a, p
  <2>2. Kept(c, r)
    BY <1>1, FieldNames DEF Shape, Kept, a
  <2> QED BY <1>1, <2>1, <2>2 DEF p, a
<1>9. CASE name = "Setmode"
  <2> DEFINE m == [c EXCEPT !.Mode = ModeOf[args[1]]]
  <2>1. Kept(c, m)
    BY FieldNames DEF Shape, Kept
  <2>2. p = Ack(m)
    BY <1>9 DEF Perform
  <2> HIDE DEF m, p
  <2>3. Kept(c, Ack(m))
    BY <2>1, AckKept, KeptTransitive DEF Kept
  <2> QED BY <2>2, <2>3 DEF p
<1>10. CASE name \in {"GetlocL", "GetTD", "Test", "Init"}
  <2>1. p \in {c, Ack(c), Error(c)}
    BY <1>10 DEF Perform, Command_GetTD, Command_Test
  <2> QED BY <1>1, <2>1
<1>11. CASE name \in {"SeekL", "SeekP"}
  <2> DEFINE how == IF name = "SeekL" THEN "SEEKING_LOGICAL" ELSE "SEEKING"
             a == Ack(c)
             s == Seek(a, c.CommandLoc, how, "STANDBY")
  <2>1. p = Later(ClearAIP(s))
    BY <1>11 DEF Perform, Command_Seek
  <2> HIDE DEF how, p
  <2>2. Kept(c, s)
    BY <1>1, SeekKept, KeptTransitive DEF Kept
  <2> HIDE DEF s
  <2>3. Kept(c, ClearAIP(s))
    BY <2>2, DataKept, KeptTransitive DEF Kept
  <2>4. Kept(c, Later(ClearAIP(s)))
    BY <2>3, DataKept, KeptTransitive DEF Kept
  <2> QED BY <2>1, <2>4 DEF p
<1>12. CASE name = "ReadTOC"
  <2> DEFINE h == [c EXCEPT !.HeaderBufValid = FALSE]
             a == Ack(h)
             q == [a EXCEPT !.DriveStatus = "PAUSED"]
  <2>1. Kept(c, h)
    BY FieldNames DEF Shape, Kept
  <2>2. p \in {Later(ClearAIP(q)), Later(Error(a))}
    BY <1>12 DEF Perform, Command_ReadTOC
  <2> HIDE DEF h, p
  <2>3. Kept(c, a)
    BY <2>1, AckKept, KeptTransitive DEF Kept
  <2> HIDE DEF a
  <2>4. Kept(c, q)
    BY <2>3, FieldNames DEF Shape, Kept
  <2> HIDE DEF q
  <2>5. Kept(c, ClearAIP(q)) /\ Kept(c, Error(a))
    BY <2>3, <2>4, DataKept, AckKept, KeptTransitive DEF Kept
  <2>6. Kept(c, Later(ClearAIP(q))) /\ Kept(c, Later(Error(a)))
    BY <2>5, DataKept, KeptTransitive DEF Kept
  <2> QED BY <2>2, <2>6 DEF p
<1>13. CASE name \in {"ID", "ReadT"}
  BY <1>2, <1>13 DEF Perform
<1>14. CASE name \notin {"Setloc", "Play", "Forward", "Backward", "ReadN", "ReadS", "Standby", "Stop", "Pause",
                         "Reset", "Setmode", "GetlocL", "GetTD", "SeekL", "SeekP", "Test", "ID", "ReadT", "Init", "ReadTOC"}
  BY <1>1, <1>14 DEF Perform
<1> QED BY <1>3, <1>4, <1>5, <1>6, <1>7, <1>8, <1>9, <1>10, <1>11, <1>12, <1>13, <1>14

\* A sequence that grows at its end, loses it, or is cut elsewhere.
LEMMA AppendConcat ==
  ASSUME NEW s \in Seq(Int), NEW t \in Seq(Int), NEW v \in Int
  PROVE  s \o Append(t, v) = Append(s \o t, v)
<1> DEFINE a == s \o Append(t, v)
           b == Append(s \o t, v)
<1>1. /\ Append(t, v) \in Seq(Int) /\ Len(Append(t, v)) = Len(t) + 1
      /\ \A i \in 1..Len(t) : Append(t, v)[i] = t[i]
      /\ Append(t, v)[Len(t) + 1] = v
  BY AppendProperties
<1>2. /\ s \o t \in Seq(Int) /\ Len(s \o t) = Len(s) + Len(t)
      /\ \A i \in 1..Len(s) + Len(t) : (s \o t)[i] = IF i <= Len(s) THEN s[i] ELSE t[i - Len(s)]
  BY ConcatProperties
<1>3. /\ a \in Seq(Int) /\ Len(a) = Len(s) + Len(t) + 1
      /\ \A i \in 1..Len(s) + Len(t) + 1 : a[i] = IF i <= Len(s) THEN s[i] ELSE Append(t, v)[i - Len(s)]
  <2> DEFINE u == Append(t, v)
  <2>1. u \in Seq(Int) /\ Len(u) = Len(t) + 1
    BY <1>1
  <2> HIDE DEF u
  <2>2. /\ s \o u \in Seq(Int) /\ Len(s \o u) = Len(s) + Len(u)
        /\ \A i \in 1..Len(s) + Len(u) : (s \o u)[i] = IF i <= Len(s) THEN s[i] ELSE u[i - Len(s)]
    BY <2>1, ConcatProperties
  <2>3. Len(s) \in Nat /\ Len(t) \in Nat
    BY LenProperties
  <2> QED BY <2>1, <2>2, <2>3 DEF u
<1>4. /\ b \in Seq(Int) /\ Len(b) = Len(s) + Len(t) + 1
      /\ \A i \in 1..Len(s) + Len(t) : b[i] = (s \o t)[i]
      /\ b[Len(s) + Len(t) + 1] = v
  <2> DEFINE u == s \o t
  <2>1. u \in Seq(Int) /\ Len(u) = Len(s) + Len(t)
    BY <1>2
  <2> HIDE DEF u
  <2>2. /\ Append(u, v) \in Seq(Int) /\ Len(Append(u, v)) = Len(u) + 1
        /\ \A i \in 1..Len(u) : Append(u, v)[i] = u[i]
        /\ Append(u, v)[Len(u) + 1] = v
    BY <2>1, AppendProperties
  <2> QED BY <2>1, <2>2 DEF u
<1>5. Len(s) \in Nat /\ Len(t) \in Nat
  BY LenProperties
<1> HIDE DEF a, b
<1>6. ASSUME NEW i \in 1..Len(a) PROVE a[i] = b[i]
  <2>1. i \in 1..Len(s) + Len(t) + 1
    BY <1>3
  <2>2. CASE i <= Len(s)
    <3>1. a[i] = s[i]
      BY <1>3, <2>1, <2>2
    <3>2. i \in 1..Len(s) + Len(t)
      BY <1>5, <2>1, <2>2
    <3>3. b[i] = (s \o t)[i] /\ (s \o t)[i] = s[i]
      BY <1>2, <1>4, <2>2, <3>2
    <3> QED BY <3>1, <3>3
  <2>3. CASE i > Len(s) /\ i <= Len(s) + Len(t)
    <3>1. i - Len(s) \in 1..Len(t)
      BY <1>5, <2>1, <2>3
    <3>2. a[i] = t[i - Len(s)]
      BY <1>1, <1>3, <1>5, <2>1, <2>3, <3>1
    <3>3. b[i] = t[i - Len(s)]
      BY <1>2, <1>4, <1>5, <2>1, <2>3
    <3> QED BY <3>2, <3>3
  <2>4. CASE i = Len(s) + Len(t) + 1
    <3>1. i - Len(s) = Len(t) + 1 /\ ~(i <= Len(s))
      BY <1>5, <2>4
    <3> QED BY <1>1, <1>3, <1>4, <2>1, <2>4, <3>1
  <2> QED BY <1>5, <2>1, <2>2, <2>3, <2>4
<1>7. Len(a) = Len(b)
  BY <1>3, <1>4
<1>8. a = b
  BY <1>3, <1>4, <1>6, <1>7, SeqEqual
<1> QED BY <1>8 DEF a, b

LEMMA CutsBack ==
  ASSUME NEW s \in Seq(Int), NEW t \in Seq(Int) PROVE SubSeq(s \o t, 1, Len(s \o t) - Len(t)) = s
<1> DEFINE u == s \o t
           c == SubSeq(u, 1, Len(s))
<1>1. /\ u \in Seq(Int) /\ Len(u) = Len(s) + Len(t)
      /\ \A i \in 1..Len(s) + Len(t) : u[i] = IF i <= Len(s) THEN s[i] ELSE t[i - Len(s)]
  BY ConcatProperties
<1>2. Len(s) \in Nat /\ Len(t) \in Nat
  BY LenProperties
<1> HIDE DEF u
<1>3. Len(u) - Len(t) = Len(s)
  BY <1>1, <1>2
<1>4. \A i \in 1..Len(s) : u[i] \in Int
  BY <1>1, <1>2, ElementOfSeq
<1>5. /\ c \in Seq(Int) /\ Len(c) = Len(s)
      /\ \A i \in 1..Len(s) : c[i] = u[i]
  <2>1. /\ SubSeq(u, 1, Len(s)) \in Seq(Int)
        /\ Len(SubSeq(u, 1, Len(s))) = IF 1 <= Len(s) THEN Len(s) - 1 + 1 ELSE 0
        /\ \A i \in 1..Len(s) - 1 + 1 : SubSeq(u, 1, Len(s))[i] = u[1 + i - 1]
    BY <1>2, <1>4, SubSeqProperties
  <2> QED BY <1>2, <2>1
<1> HIDE DEF c
<1>6. \A i \in 1..Len(c) : c[i] = s[i]
  BY <1>1, <1>2, <1>5
<1>7. c = s
  BY <1>5, <1>6, SeqEqual
<1> QED BY <1>3, <1>7 DEF c, u

LEMMA CutElsewhere ==
  ASSUME NEW s \in Seq(Int), NEW t \in Seq(Int), t # <<>>
  PROVE  Append(s, Head(t)) \o Tail(t) = s \o t
<1> DEFINE h == Append(s, Head(t))
           r == Tail(t)
           a == h \o r
           b == s \o t
<1>1. /\ Len(s) \in Nat /\ Len(t) \in Nat \ {0} /\ Head(t) = t[1] /\ Head(t) \in Int
      /\ r \in Seq(Int) /\ Len(r) = Len(t) - 1 /\ \A i \in 1..Len(r) : r[i] = t[i + 1]
  BY HeadTailProperties, EmptySeq, LenProperties
<1>2. /\ h \in Seq(Int) /\ Len(h) = Len(s) + 1 /\ (\A i \in 1..Len(s) : h[i] = s[i])
      /\ h[Len(s) + 1] = t[1]
  BY <1>1, AppendProperties
<1>3. /\ b \in Seq(Int) /\ Len(b) = Len(s) + Len(t)
      /\ \A i \in 1..Len(s) + Len(t) : b[i] = IF i <= Len(s) THEN s[i] ELSE t[i - Len(s)]
  BY ConcatProperties
<1> HIDE DEF h, r
<1>4. /\ a \in Seq(Int) /\ Len(a) = Len(h) + Len(r)
      /\ \A i \in 1..Len(h) + Len(r) : a[i] = IF i <= Len(h) THEN h[i] ELSE r[i - Len(h)]
  BY <1>1, <1>2, ConcatProperties
<1> HIDE DEF a, b
<1>5. Len(a) = Len(b)
  BY <1>1, <1>2, <1>3, <1>4
<1>6. ASSUME NEW i \in 1..Len(a) PROVE a[i] = b[i]
  <2>1. i \in 1..Len(s) + Len(t) /\ i \in 1..Len(h) + Len(r)
    BY <1>1, <1>2, <1>4
  <2>2. CASE i <= Len(s)
    <3>1. a[i] = s[i]
      BY <1>1, <1>2, <1>4, <2>1, <2>2
    <3>2. b[i] = s[i]
      BY <1>3, <2>1, <2>2
    <3> QED BY <3>1, <3>2
  <2>3. CASE i = Len(s) + 1
    <3>1. a[i] = t[1]
      BY <1>1, <1>2, <1>4, <2>1, <2>3, SMTT(30)
    <3>2. i - Len(s) = 1 /\ ~(i <= Len(s))
      BY <1>1, <2>3
    <3>3. b[i] = t[i - Len(s)]
      BY <1>3, <2>1, <3>2
    <3> QED BY <3>1, <3>2, <3>3
  <2>4. CASE i > Len(s) + 1
    <3>1. i - Len(h) \in 1..Len(r) /\ i - Len(h) + 1 = i - Len(s) /\ ~(i <= Len(h)) /\ ~(i <= Len(s))
      BY <1>1, <1>2, <2>1, <2>4, SMTT(30)
    <3>2. a[i] = t[i - Len(s)]
      BY <1>1, <1>4, <2>1, <3>1
    <3>3. b[i] = t[i - Len(s)]
      BY <1>3, <2>1, <3>1
    <3> QED BY <3>2, <3>3
  <2> QED BY <1>1, <2>1, <2>2, <2>3, <2>4
<1>7. a = b
  BY <1>3, <1>4, <1>5, <1>6, SeqEqual
<1> QED BY <1>7 DEF a, b, h, r

\* What the game has written and no command has taken, and what the next will be given.
Prepared(c, g) ==
  /\ c.Phase = -1 => c.Received = <<>> /\ g = c.Args
  /\ c.Phase = 0 => c.Received \in Seq(Int) /\ g = Append(c.Received, c.Latch) \o c.Args
  /\ c.Phase = 1 => c.Received = g
  /\ c.Phase < 1 => Len(g) <= MaxArgs

LEMMA PreparedHalf ==
  ASSUME NEW c, NEW g, c.Phase = 0, c.Received \in Seq(Int), g = Append(c.Received, c.Latch) \o c.Args,
         Len(g) <= MaxArgs
  PROVE  Prepared(c, g)
<1>1. c.Phase # -1 /\ c.Phase # 1
  OBVIOUS
<1> QED BY <1>1, Zenon DEF Prepared

LEMMA PreparedWhole ==
  ASSUME NEW c, NEW g, c.Phase = 1, c.Received = g PROVE Prepared(c, g)
<1>1. c.Phase # -1 /\ c.Phase # 0 /\ ~(c.Phase < 1)
  OBVIOUS
<1> QED BY <1>1, Zenon DEF Prepared

Belonging ==
  /\ cd.Args \in Seq(Int) /\ given \in Seq(Int) /\ cd.Latch \in Int
  /\ Len(cd.Args) <= MaxArgs
  /\ cd.Counter => Prepared(cd, given)

\* A step that neither begins a command nor takes an argument.
LEMMA KeptBelongs ==
  ASSUME Belonging, CDC_IInv, Kept(cd, cd'), given' = given,
         cd'.Counter => cd'.Phase = 2 \/ (cd.Counter /\ cd'.Phase = cd.Phase)
  PROVE  Belonging'
<1>1. cd'.Args = cd.Args /\ cd'.Latch = cd.Latch /\ cd'.Received = cd.Received
  BY DEF Kept
<1>2. CASE ~cd'.Counter
  BY <1>1, <1>2 DEF Belonging
<1>3. CASE cd'.Phase = 2
  <2>1. Prepared(cd', given')
    BY <1>3 DEF Prepared
  <2> QED BY <1>1, <2>1 DEF Belonging
<1>4. CASE cd.Counter /\ cd'.Phase = cd.Phase
  <2>1. Prepared(cd', given')
    BY <1>1, <1>4 DEF Belonging, Prepared
  <2> QED BY <1>1, <2>1 DEF Belonging
<1> QED BY <1>2, <1>3, <1>4

LEMMA WriteCommandBelongs ==
  ASSUME Belonging, CDC_IInv, NEW name, WriteCommand(name) PROVE Belonging'
<1>1. cd' = [cd EXCEPT !.Command = name, !.Phase = -1, !.Counter = TRUE, !.Received = <<>>] /\ given' = cd.Args
  BY DEF WriteCommand, Started
<1>2. Shape(cd)
  BY DEF CDC_IInv, Sound, Calm
<1>3. cd'.Phase = -1 /\ cd'.Received = <<>> /\ cd'.Args = cd.Args /\ cd'.Latch = cd.Latch
  BY <1>1, <1>2, FieldNames DEF Shape
<1>4. Prepared(cd', given')
  BY <1>1, <1>3 DEF Belonging, Prepared
<1> QED BY <1>1, <1>3, <1>4 DEF Belonging

LEMMA WriteArgumentBelongs ==
  ASSUME Belonging, CDC_IInv, NEW v \in Arguments, WriteArgument(v) PROVE Belonging'
<1>1. /\ Len(cd.Args) < MaxArgs /\ (Receiving(cd) => Len(given) < MaxArgs)
      /\ cd' = [cd EXCEPT !.Args = Append(@, v)]
      /\ given' = IF Receiving(cd) THEN Append(given, v) ELSE given
  BY DEF WriteArgument
<1>2. v \in Int /\ MaxArgs \in Nat
  BY CDCAssumption
<1>3. /\ cd'.Args = Append(cd.Args, v) /\ cd'.Latch = cd.Latch /\ cd'.Received = cd.Received
      /\ cd'.Phase = cd.Phase /\ cd'.Counter = cd.Counter
  BY <1>1, FieldNames DEF CDC_IInv, Sound, Calm, Shape
<1>4. /\ cd.Args \in Seq(Int) /\ given \in Seq(Int) /\ cd.Latch \in Int
      /\ Append(cd.Args, v) \in Seq(Int) /\ Len(Append(cd.Args, v)) = Len(cd.Args) + 1
      /\ Append(given, v) \in Seq(Int) /\ Len(Append(given, v)) = Len(given) + 1
      /\ Len(cd.Args) \in Nat /\ Len(given) \in Nat
  BY <1>2, AppendProperties, LenProperties DEF Belonging
<1>5. cd.Phase \in -1..2
  BY DEF CDC_IInv, Sound, Calm
<1>6. cd'.Args \in Seq(Int) /\ Len(cd'.Args) <= MaxArgs /\ given' \in Seq(Int)
  BY <1>1, <1>2, <1>3, <1>4
<1>7. ASSUME cd.Counter PROVE Prepared(cd', given')
  <2>1. Prepared(cd, given)
    BY <1>7 DEF Belonging
  <2>2. CASE cd.Phase \in {1, 2}
    <3>1. given' = given
      BY <1>1, <2>2 DEF Receiving
    <3>2. cd'.Phase # -1 /\ cd'.Phase # 0 /\ ~(cd'.Phase < 1) /\ (cd'.Phase = 1 => cd'.Received = given')
      BY <1>3, <2>1, <2>2, <3>1 DEF Prepared
    <3> QED BY <3>2 DEF Prepared
  <2>3. ASSUME cd.Phase \in {-1, 0} PROVE given' = Append(given, v) /\ Len(given') <= MaxArgs
    BY <1>1, <1>2, <1>4, <1>7, <2>3 DEF Receiving
  <2>4. CASE cd.Phase = -1
    <3>1. cd'.Phase = -1 /\ cd'.Received = <<>> /\ given' = cd'.Args /\ Len(given') <= MaxArgs
      BY <1>3, <2>1, <2>3, <2>4 DEF Prepared
    <3> QED BY <3>1 DEF Prepared
  <2>5. CASE cd.Phase = 0
    <3> DEFINE r == Append(cd.Received, cd.Latch)
    <3>1. cd.Received \in Seq(Int) /\ given = r \o cd.Args
      BY <2>1, <2>5 DEF Prepared
    <3>2. r \in Seq(Int)
      BY <1>4, <3>1, AppendProperties
    <3>3. r = Append(cd'.Received, cd'.Latch)
      BY <1>3
    <3> HIDE DEF r
    <3>4. r \o Append(cd.Args, v) = Append(r \o cd.Args, v)
      BY <1>2, <1>4, <3>2, AppendConcat
    <3>5. given' = r \o cd'.Args
      BY <1>3, <2>3, <2>5, <3>1, <3>4
    <3>6. cd'.Phase = 0 /\ cd'.Received \in Seq(Int) /\ Len(given') <= MaxArgs
      BY <1>3, <2>3, <2>5, <3>1
    <3>7. given' = Append(cd'.Received, cd'.Latch) \o cd'.Args
      BY <3>3, <3>5
    <3> QED BY <3>6, <3>7, PreparedHalf
  <2> QED BY <1>5, <2>2, <2>4, <2>5
<1> QED BY <1>3, <1>4, <1>6, <1>7 DEF Belonging

LEMMA ClearBelongs ==
  ASSUME Belonging, CDC_IInv, ClearArguments PROVE Belonging'
<1>1. /\ cd' = [cd EXCEPT !.Args = <<>>]
      /\ given' = IF Receiving(cd) THEN SubSeq(given, 1, Len(given) - Len(cd.Args)) ELSE given
  BY DEF ClearArguments
<1>2. /\ cd'.Args = <<>> /\ cd'.Latch = cd.Latch /\ cd'.Received = cd.Received
      /\ cd'.Phase = cd.Phase /\ cd'.Counter = cd.Counter
  BY <1>1, FieldNames DEF CDC_IInv, Sound, Calm, Shape
<1>3. cd.Phase \in -1..2 /\ MaxArgs \in Nat
  BY CDCAssumption DEF CDC_IInv, Sound, Calm
<1>4. /\ cd.Args \in Seq(Int) /\ given \in Seq(Int) /\ cd.Latch \in Int
      /\ Len(cd.Args) \in Nat /\ Len(given) \in Nat
  BY LenProperties DEF Belonging
<1>5. cd'.Args \in Seq(Int) /\ Len(cd'.Args) = 0
  BY <1>2, EmptySeq
<1>6. CASE ~Receiving(cd)
  <2>1. given' = given
    BY <1>1, <1>6
  <2>2. ASSUME cd.Counter PROVE Prepared(cd', given')
    <3>1. cd.Phase \in {1, 2} /\ Prepared(cd, given)
      BY <1>3, <1>6, <2>2 DEF Receiving, Belonging
    <3>2. cd'.Phase # -1 /\ cd'.Phase # 0 /\ ~(cd'.Phase < 1) /\ (cd'.Phase = 1 => cd'.Received = given')
      BY <1>2, <2>1, <3>1 DEF Prepared
    <3> QED BY <3>2 DEF Prepared
  <2> QED BY <1>2, <1>3, <1>4, <1>5, <2>1, <2>2 DEF Belonging
<1>7. CASE Receiving(cd)
  <2>1. cd.Counter /\ cd.Phase \in {-1, 0} /\ Prepared(cd, given)
    BY <1>3, <1>7 DEF Receiving, Belonging
  <2>2. given' = SubSeq(given, 1, Len(given) - Len(cd.Args))
    BY <1>1, <1>7
  <2>3. CASE cd.Phase = -1
    <3>1. given = cd.Args /\ cd.Received = <<>>
      BY <2>1, <2>3 DEF Prepared
    <3>2. given' = <<>>
      BY <1>4, <2>2, <3>1, SubSeqEmpty
    <3>3. Prepared(cd', given')
      <4>1. cd'.Phase = -1 /\ cd'.Received = <<>> /\ given' = cd'.Args /\ Len(given') <= MaxArgs
        BY <1>2, <1>3, <1>5, <2>3, <3>1, <3>2
      <4> QED BY <4>1 DEF Prepared
    <3>4. given' \in Seq(Int)
      BY <1>2, <1>5, <3>2
    <3> QED BY <1>2, <1>3, <1>4, <1>5, <3>3, <3>4 DEF Belonging
  <2>4. CASE cd.Phase = 0
    <3> DEFINE r == Append(cd.Received, cd.Latch)
    <3>1. /\ cd.Received \in Seq(Int) /\ given = Append(cd.Received, cd.Latch) \o cd.Args
          /\ Len(given) <= MaxArgs
      <4>1. cd.Phase < 1
        BY <2>4
      <4> QED BY <2>1, <2>4, <4>1, Zenon DEF Prepared
    <3>2. r \in Seq(Int) /\ given = r \o cd.Args
      BY <1>4, <3>1, AppendProperties
    <3>3. r = Append(cd'.Received, cd'.Latch)
      BY <1>2
    <3> HIDE DEF r
    <3>4. given' = r
      BY <1>4, <2>2, <3>2, CutsBack
    <3>5. Len(r) \in Nat /\ Len(r \o cd.Args) = Len(r) + Len(cd.Args)
      BY <1>4, <3>2, ConcatProperties, LenProperties
    <3>6. Len(given') <= MaxArgs
      <4>1. Len(given) = Len(r) + Len(cd.Args)
        BY <3>2, <3>5
      <4> QED BY <1>3, <1>4, <3>1, <3>4, <3>5, <4>1
    <3>7. r \o <<>> = r
      BY <3>2, ConcatEmptySeq
    <3>8. given' = Append(cd'.Received, cd'.Latch) \o cd'.Args
      BY <1>2, <3>3, <3>4, <3>7
    <3>9. cd'.Phase = 0 /\ cd'.Received \in Seq(Int)
      BY <1>2, <2>4, <3>1
    <3>10. Prepared(cd', given')
      BY <3>6, <3>8, <3>9, PreparedHalf
    <3> QED BY <1>2, <1>3, <1>4, <1>5, <3>2, <3>4, <3>10 DEF Belonging
  <2> QED BY <2>1, <2>3, <2>4
<1> QED BY <1>6, <1>7

\* The FIFO is shifted by one argument, or the command has them all: the 32 places of the buffer
\* suffice for what MaxArgs lets in.
LEMMA ReceiveBelongs ==
  ASSUME Belonging, CDC_IInv, cd.Counter, cd.Phase \in {-1, 0}, given' = given,
         cd' = Receive([cd EXCEPT !.Counter = FALSE])
  PROVE  Belonging'
<1> DEFINE due == [cd EXCEPT !.Counter = FALSE]
           r == IF cd.Phase = 0 /\ Len(cd.Received) < 32 THEN Append(cd.Received, cd.Latch) ELSE cd.Received
           b == [due EXCEPT !.Received = r]
           x == [b EXCEPT !.Phase = 1]
           y == [b EXCEPT !.Latch = Head(cd.Args), !.Args = Tail(cd.Args), !.Phase = 0]
<1>1. Shape(cd) /\ MaxArgs \in 0..16
  BY CDCAssumption DEF CDC_IInv, Sound, Calm
<1>2. Shape(due) /\ due.Phase = cd.Phase /\ due.Received = cd.Received /\ due.Latch = cd.Latch /\ due.Args = cd.Args
  BY <1>1, FieldNames DEF Shape
<1>3. cd' = Later(IF cd.Args = <<>> THEN x ELSE y)
  <2>1. cd' = Receive(due)
    OBVIOUS
  <2> HIDE DEF due
  <2>2. [due EXCEPT !.Received = IF due.Phase = 0 /\ Len(@) < 32 THEN Append(@, due.Latch) ELSE @] = b
    BY <1>2, FieldNames DEF Shape
  <2>3. b.Args = cd.Args
    BY <1>2, FieldNames DEF Shape
  <2> HIDE DEF b
  <2> QED BY <1>2, <2>1, <2>2, <2>3 DEF Receive
<1> HIDE DEF due
<1>4. Shape(b) /\ b.Received = r /\ b.Args = cd.Args /\ b.Latch = cd.Latch
  BY <1>2, FieldNames DEF Shape
<1> HIDE DEF b
<1>5. /\ Shape(x) /\ x.Phase = 1 /\ x.Received = r /\ x.Args = cd.Args /\ x.Latch = cd.Latch
      /\ Shape(y) /\ y.Phase = 0 /\ y.Received = r /\ y.Args = Tail(cd.Args) /\ y.Latch = Head(cd.Args)
  BY <1>4, FieldNames DEF Shape
<1> HIDE DEF x, y
<1>6. cd.Args \in Seq(Int) /\ given \in Seq(Int) /\ cd.Latch \in Int /\ Len(cd.Args) <= MaxArgs /\ Prepared(cd, given)
  BY DEF Belonging
<1>7. r \in Seq(Int) /\ given = r \o cd.Args /\ Len(given) <= MaxArgs
  <2>1. Len(given) <= MaxArgs
    BY <1>6 DEF Prepared
  <2>2. CASE cd.Phase = -1
    <3>1. cd.Received = <<>> /\ given = cd.Args
      BY <1>6, <2>2 DEF Prepared
    <3>2. r = <<>>
      BY <2>2, <3>1
    <3> QED BY <1>6, <2>1, <3>1, <3>2, ConcatEmptySeq, EmptySeq, ZenonT(40)
  <2>3. CASE cd.Phase = 0
    <3> DEFINE a == Append(cd.Received, cd.Latch)
    <3>1. cd.Received \in Seq(Int) /\ given = a \o cd.Args
      BY <1>6, <2>3 DEF Prepared
    <3>2. a \in Seq(Int) /\ Len(a) = Len(cd.Received) + 1
      BY <1>6, <3>1, AppendProperties
    <3> HIDE DEF a
    <3>3. Len(a \o cd.Args) = Len(a) + Len(cd.Args)
      BY <1>6, <3>2, ConcatProperties, ZenonT(40)
    <3>4. Len(cd.Received) < 32
      <4>1. Len(given) = Len(cd.Received) + 1 + Len(cd.Args)
        BY <3>1, <3>2, <3>3
      <4>2. Len(cd.Received) \in Nat /\ Len(cd.Args) \in Nat
        BY <1>6, <3>1, LenProperties
      <4>3. \A k, m \in Nat : k + 1 + m <= MaxArgs => k < 32
        BY <1>1
      <4> QED BY <2>1, <4>1, <4>2, <4>3
    <3>5. r = a
      BY <2>3, <3>4 DEF a
    <3> QED BY <2>1, <3>1, <3>2, <3>5
  <2> QED BY <2>2, <2>3
<1> HIDE DEF r
<1>8. CASE cd.Args = <<>>
  <2>1. cd'.Phase = 1 /\ cd'.Received = r /\ cd'.Args = cd.Args /\ cd'.Latch = cd.Latch
    BY <1>3, <1>5, <1>8, FieldNames DEF Later, Shape
  <2>2. given = r
    BY <1>7, <1>8, ConcatEmptySeq
  <2>3. Prepared(cd', given')
    BY <2>1, <2>2, PreparedWhole
  <2> QED BY <1>6, <2>1, <2>3 DEF Belonging
<1>9. CASE cd.Args # <<>>
  <2>1. cd'.Phase = 0 /\ cd'.Received = r /\ cd'.Args = Tail(cd.Args) /\ cd'.Latch = Head(cd.Args)
    BY <1>3, <1>5, <1>9, FieldNames DEF Later, Shape
  <2>2. Head(cd.Args) \in Int /\ Tail(cd.Args) \in Seq(Int) /\ Len(Tail(cd.Args)) = Len(cd.Args) - 1
        /\ Len(cd.Args) \in Nat
    BY <1>6, <1>9, HeadTailProperties, LenProperties
  <2>3. given = Append(r, Head(cd.Args)) \o Tail(cd.Args)
    BY <1>6, <1>7, <1>9, CutElsewhere
  <2>4. Len(Tail(cd.Args)) <= MaxArgs
    <3>1. \A k \in Nat : k <= MaxArgs => k - 1 <= MaxArgs
      BY <1>1
    <3> QED BY <1>6, <2>2, <3>1
  <2>5. Prepared(cd', given')
    <3>1. cd'.Received \in Seq(Int) /\ Len(given') <= MaxArgs
      BY <1>7, <2>1
    <3>2. given' = Append(cd'.Received, cd'.Latch) \o cd'.Args
      BY <2>1, <2>3
    <3> QED BY <2>1, <3>1, <3>2, PreparedHalf
  <2> QED BY <1>6, <2>1, <2>2, <2>4, <2>5 DEF Belonging
<1> QED BY <1>8, <1>9

LEMMA ExecuteBelongs ==
  ASSUME Belonging, CDC_IInv, cd.Phase = 1, given' = given, cd' = Execute([cd EXCEPT !.Counter = FALSE])
  PROVE  Belonging'
<1> DEFINE due == [cd EXCEPT !.Counter = FALSE]
           b == [due EXCEPT !.Received = <<>>]
           p == IF due.Command \in NeedDisc /\ ~Present(due) THEN Error(b)
                ELSE Perform(b, due.Command, due.Received)
           g == [p EXCEPT !.Phase = 2]
           knows == due.Command \in Known /\ ArgumentsFit(due.Command, Len(due.Received))
<1>1. Shape(cd)
  BY DEF CDC_IInv, Sound, Calm
<1>2. cd' = IF ~knows THEN Error(b) ELSE g
  BY DEF Execute
<1>3. Shape(b) /\ b.Args = cd.Args /\ b.Latch = cd.Latch /\ b.Counter = FALSE
  BY <1>1, FieldNames DEF Shape
<1> HIDE DEF due, b
<1>4. Kept(b, Error(b)) /\ Error(b).Counter = FALSE
  <2>1. Error(b).Counter = b.Counter
    BY <1>3, FieldNames DEF Shape, Error, WriteIRQ
  <2> QED BY <1>3, <2>1, AckKept
<1>5. Kept(b, p)
  BY <1>3, <1>4, PerformKept
<1> HIDE DEF p, knows
<1>6. g.Args = cd.Args /\ g.Latch = cd.Latch /\ g.Phase = 2
  BY <1>3, <1>5, FieldNames DEF Kept, Shape
<1> HIDE DEF g
<1>7. cd'.Args = cd.Args /\ cd'.Latch = cd.Latch /\ (cd'.Counter => cd'.Phase = 2)
  BY <1>2, <1>3, <1>4, <1>6 DEF Kept
<1>8. cd'.Counter => Prepared(cd', given')
  <2>1. cd'.Phase = 2 => cd'.Phase # -1 /\ cd'.Phase # 0 /\ cd'.Phase # 1 /\ ~(cd'.Phase < 1)
    OBVIOUS
  <2> QED BY <1>7, <2>1, Zenon DEF Prepared
<1> QED BY <1>7, <1>8 DEF Belonging

LEMMA CommandBelongs ==
  ASSUME Belonging, CDC_IInv, CommandEnds PROVE Belonging'
<1> DEFINE due == [cd EXCEPT !.Counter = FALSE]
<1>1. Sound(cd) /\ Calm(cd) /\ cd.Counter /\ cd.Phase \in -1..2 /\ Shape(cd)
  BY DEF CDC_IInv, Sound, CommandEnds, Calm
<1>2. cd' = CommandSteps(cd) /\ given' = given
  BY <1>1, CheckAIPSame DEF CommandEnds
<1>3. CASE cd.CDCReady
  <2>1. cd' = cd
    BY <1>2, <1>3 DEF CommandSteps
  <2> QED BY <1>2, <2>1 DEF Belonging, Prepared
<1>4. CASE ~cd.CDCReady
  <2>1. Due(cd, due)
    BY <1>1, <1>4, DueIsReady
  <2>2. cd' = CASE cd.Phase >= 2 -> Finish(due) [] cd.Phase = 1 -> Execute(due) [] OTHER -> Receive(due)
    BY <1>2, <1>4 DEF CommandSteps
  <2>3. Kept(cd, due)
    BY <1>1, FieldNames DEF Shape, Kept
  <2> HIDE DEF due
  <2>4. CASE cd.Phase = 2
    <3>1. cd' = Finish(due)
      BY <2>2, <2>4
    <3>2. Finished(cd, cd')
      BY <2>1, <2>4, <3>1, FinishStep
    <3> DEFINE still == [due EXCEPT !.PSR = FALSE]
    <3>3. Kept(cd, still)
      BY <2>3, FieldNames DEF Kept, Shape
    <3>4. cd.Command \in TwoParts /\ due.Command = cd.Command
      BY <1>1, <2>1, <2>4 DEF Sound, Due
    <3>5. cd' \in {WriteIRQ(still, COMPLETE), WriteIRQ(due, COMPLETE), WriteIRQ(due, DISC_ERROR), Later(due)}
      <4>1. CASE due.Command \in {"Stop", "Standby", "Pause"}
        BY <3>1, <4>1 DEF Finish
      <4>2. CASE due.Command \in {"SeekL", "SeekP"}
        BY <3>1, <4>2 DEF Finish
      <4>3. CASE due.Command \in {"ID", "ReadT", "ReadTOC"}
        BY <3>1, <4>3 DEF Finish
      <4> QED BY <3>4, <4>1, <4>2, <4>3 DEF TwoParts
    <3> HIDE DEF still
    <3>6. /\ Kept(cd, WriteIRQ(still, COMPLETE)) /\ Kept(cd, WriteIRQ(due, COMPLETE))
          /\ Kept(cd, WriteIRQ(due, DISC_ERROR)) /\ Kept(cd, Later(due))
      BY <2>3, <3>3, WriteKept, DataKept, KeptTransitive DEF Kept
    <3>7. Kept(cd, cd') /\ cd'.Phase = 2
      BY <2>4, <3>2, <3>5, <3>6 DEF Finished
    <3> QED BY <1>2, <3>7, KeptBelongs
  <2>5. CASE cd.Phase = 1
    <3>1. cd' = Execute(due)
      BY <2>2, <2>5
    <3> QED BY <1>2, <2>5, <3>1, ExecuteBelongs DEF due
  <2>6. CASE cd.Phase \in {-1, 0}
    <3>1. cd' = Receive(due)
      BY <2>2, <2>6
    <3> QED BY <1>1, <1>2, <2>6, <3>1, ReceiveBelongs DEF due
  <2> QED BY <1>1, <2>4, <2>5, <2>6
<1> QED BY <1>3, <1>4

LEMMA EventsBelong ==
  ASSUME Belonging, CDC_IInv, StartupEnds \/ ReadyEnds \/ Acknowledge \/ (\E due \in BOOLEAN : DriveEnds(due))
  PROVE  Belonging'
<1>1. Sound(cd) /\ Calm(cd) /\ Shape(cd)
  BY DEF CDC_IInv, Sound, Calm
<1>2. CASE StartupEnds
  <2> DEFINE g == [cd EXCEPT !.DiscStartupDelay = FALSE, !.DriveStatus = "PAUSED"]
  <2>1. cd' = CheckAIP(g) /\ given' = given
    BY <1>2 DEF StartupEnds
  <2>2. Kept(cd, g) /\ g.AIP = cd.AIP /\ g.CDCReady = cd.CDCReady /\ g.Phase = cd.Phase /\ g.Counter = cd.Counter
    BY <1>1, FieldNames DEF Shape, Kept
  <2> HIDE DEF g
  <2>3. cd' = g
    BY <1>1, <2>1, <2>2 DEF CheckAIP, Calm
  <2> QED BY <2>1, <2>2, <2>3, KeptBelongs
<1>3. CASE ReadyEnds
  <2> DEFINE r == [cd EXCEPT !.CDCReady = FALSE]
             w == WriteIRQ(r, r.AIP)
  <2>1. cd' = CheckAIP(r) /\ given' = given
    BY <1>3 DEF ReadyEnds
  <2>2. Kept(cd, r) /\ r.Phase = cd.Phase /\ r.Counter = cd.Counter
    BY <1>1, FieldNames DEF Shape, Kept
  <2> HIDE DEF r
  <2>3. Kept(cd, cd')
    BY <2>1, <2>2, CheckKept, KeptTransitive DEF Kept
  <2>4. w.Phase = r.Phase /\ w.Counter = r.Counter /\ Shape(w)
    BY <2>2, FieldNames DEF Kept, Shape, WriteIRQ
  <2> HIDE DEF w
  <2>5. ClearAIP(w).Phase = r.Phase /\ ClearAIP(w).Counter = r.Counter
    BY <2>4, FieldNames DEF Shape, ClearAIP
  <2>6. cd' \in {r, ClearAIP(w)}
    BY <2>1 DEF CheckAIP, w
  <2>7. cd'.Phase = cd.Phase /\ cd'.Counter = cd.Counter
    BY <2>2, <2>5, <2>6
  <2> QED BY <2>1, <2>3, <2>7, KeptBelongs
<1>4. CASE Acknowledge
  <2>1. cd' = [cd EXCEPT !.IRQ = 0] /\ given' = given
    BY <1>4 DEF Acknowledge
  <2>2. Kept(cd, cd') /\ cd'.Phase = cd.Phase /\ cd'.Counter = cd.Counter
    BY <1>1, <2>1, FieldNames DEF Shape, Kept
  <2> QED BY <2>1, <2>2, KeptBelongs
<1>5. ASSUME NEW due, DriveEnds(due) PROVE Belonging'
  <2>1. cd' = DriveSteps(cd, due) /\ given' = given
    BY <1>1, <1>5, CheckAIPSame DEF DriveEnds
  <2>2. Kept(cd, cd')
    BY <1>1, <2>1, DriveKept
  <2>3. Stepped(cd, cd')
    BY <1>1, <1>5, <2>1, DriveStep DEF Sound, DriveEnds
  <2>4. cd'.Phase = cd.Phase /\ cd'.Counter = cd.Counter
    BY <2>3 DEF Stepped
  <2> QED BY <2>1, <2>2, <2>4, KeptBelongs
<1> QED BY <1>2, <1>3, <1>4, <1>5

LEMMA ResetEmpties ==
  ASSUME NEW c, Shape(c), NEW g, g = SoftReset(c) \/ g = [SoftReset(c) EXCEPT !.DiscStartupDelay = FALSE]
  PROVE  g.Args = <<>> /\ g.Latch = c.Latch /\ ~g.Counter
<1> DEFINE i == [c EXCEPT !.Args = <<>>, !.CDCReady = FALSE, !.IRQ = 0, !.SubQ = NoQ, !.SubQChecksumOK = FALSE,
                          !.Command = "none", !.Phase = 0, !.Counter = FALSE, !.Mode = {}, !.HeaderBufValid = FALSE]
           j == [i EXCEPT !.DriveStatus = "STOPPED", !.StatusAfterSeek = "STOPPED", !.SeekRetryCounter = 0,
                          !.Forward = FALSE, !.Backward = FALSE, !.PlayTrackMatch = 0, !.PSR = FALSE,
                          !.CurSector = 0, !.SeekTarget = 0, !.CommandLoc = 0, !.Dirty = TRUE]
           s == SoftReset(c)
<1>1. s = NoSectors(ClearAIP(j))
  BY DEF SoftReset
<1>2. Shape(i) /\ i.Args = <<>> /\ i.Latch = c.Latch /\ i.Counter = FALSE
  BY FieldNames, ZenonT(40) DEF Shape
<1> HIDE DEF i
<1>3. Shape(j) /\ j.Args = <<>> /\ j.Latch = c.Latch /\ j.Counter = FALSE
  BY <1>2, FieldNames, ZenonT(40) DEF Shape
<1> HIDE DEF j
<1>4. /\ Shape(ClearAIP(j)) /\ ClearAIP(j).Args = <<>> /\ ClearAIP(j).Latch = c.Latch
      /\ ClearAIP(j).Counter = FALSE
  BY <1>3, FieldNames DEF Shape, ClearAIP
<1>5. Shape(s) /\ s.Args = <<>> /\ s.Latch = c.Latch /\ s.Counter = FALSE
  BY <1>1, <1>4, FieldNames DEF Shape, NoSectors
<1> HIDE DEF s
<1>6. g = s \/ g = [s EXCEPT !.DiscStartupDelay = FALSE]
  BY DEF s
<1>7. g.Args = <<>> /\ g.Latch = c.Latch /\ g.Counter = FALSE
  BY <1>5, <1>6, FieldNames DEF Shape
<1> QED BY <1>7

LEMMA ResetsBelong ==
  ASSUME Belonging, CDC_IInv, ResetController \/ Power PROVE Belonging'
<1>1. Shape(cd) /\ MaxArgs \in Nat
  BY CDCAssumption DEF CDC_IInv, Sound, Calm
<1>2. cd' = SoftReset(cd) \/ cd' = [SoftReset(cd) EXCEPT !.DiscStartupDelay = FALSE]
  BY DEF ResetController, Power
<1>3. given' = given
  BY DEF ResetController, Power
<1>4. cd'.Args = <<>> /\ cd'.Latch = cd.Latch /\ ~cd'.Counter
  BY <1>1, <1>2, ResetEmpties
<1>5. cd'.Args \in Seq(Int) /\ Len(cd'.Args) <= MaxArgs
  BY <1>1, <1>4, EmptySeq
<1> QED BY <1>3, <1>4, <1>5 DEF Belonging

LEMMA ForceStopKept ==
  ASSUME NEW c, Shape(c) PROVE Kept(c, DMForceStop(c))
<1> DEFINE stops == c.DriveStatus \notin {"PAUSED", "STOPPED"} \/ c.Phase >= 2
           h == [c EXCEPT !.PSR = FALSE, !.HeaderBufValid = FALSE, !.DriveStatus = "STOPPED",
                          !.Command = IF stops THEN "none" ELSE @, !.Phase = IF stops THEN 0 ELSE @,
                          !.Counter = @ /\ ~stops]
<1>1. DMForceStop(c) = NoSectors(ClearAIP(h))
  BY DEF DMForceStop
<1>2. Kept(c, h)
  BY FieldNames, ZenonT(40) DEF Shape, Kept
<1> HIDE DEF h
<1>3. Kept(c, ClearAIP(h))
  BY <1>2, DataKept, KeptTransitive DEF Kept
<1>4. Kept(c, NoSectors(ClearAIP(h)))
  BY <1>3, DataKept, KeptTransitive DEF Kept
<1> QED BY <1>1, <1>4

LEMMA DiscsBelong ==
  ASSUME Belonging, CDC_IInv,
         EjectDisc \/ (\E d \in CDs : Insert(d)) \/ (\E disc \in SUBSET CDs : LoadState(disc))
  PROVE  Belonging'
<1>1. Calm(cd) /\ Shape(cd)
  BY DEF CDC_IInv, Sound, Calm
<1>2. ASSUME NEW disc
      PROVE  LET c == [cd EXCEPT !.disc = disc] IN
             Kept(cd, c) /\ Calm(c) /\ c.Phase = cd.Phase /\ c.Counter = cd.Counter
  BY <1>1, FieldNames DEF Kept, Shape, Calm
<1>3. ASSUME NEW disc, cd' = DMForceStop([cd EXCEPT !.disc = disc]), given' = given PROVE Belonging'
  <2> DEFINE c == [cd EXCEPT !.disc = disc]
  <2>1. Kept(cd, c) /\ Calm(c) /\ c.Phase = cd.Phase /\ c.Counter = cd.Counter
    BY <1>2
  <2>2. cd' = DMForceStop(c)
    BY <1>3
  <2> HIDE DEF c
  <2>3. Kept(cd, cd')
    BY <2>1, <2>2, ForceStopKept, KeptTransitive DEF Kept
  <2>4. cd'.Counter => c.Counter /\ cd'.Phase = c.Phase
    BY <2>1, <2>2, ForceStopStops
  <2> QED BY <1>3, <2>1, <2>3, <2>4, KeptBelongs
<1>4. CASE EjectDisc
  <2>1. cd' = DMForceStop([cd EXCEPT !.disc = {}]) /\ given' = given
    BY <1>4 DEF EjectDisc, SetDisc
  <2> QED BY <1>3, <2>1
<1>5. ASSUME NEW d \in CDs, Insert(d) PROVE Belonging'
  <2>1. {d} # {}
    OBVIOUS
  <2>2. cd' = [cd EXCEPT !.disc = {d}, !.HeaderBufValid = FALSE, !.DiscStartupDelay = TRUE] /\ given' = given
    BY <1>5, <2>1 DEF Insert, SetDisc
  <2>3. Kept(cd, cd') /\ cd'.Phase = cd.Phase /\ cd'.Counter = cd.Counter
    BY <1>1, <2>2, FieldNames DEF Kept, Shape
  <2> QED BY <2>2, <2>3, KeptBelongs
<1>6. ASSUME NEW disc, LoadState(disc) PROVE Belonging'
  <2> DEFINE c == [cd EXCEPT !.disc = disc]
  <2>1. (cd' = IF disc = {} THEN DMForceStop(c) ELSE c) /\ given' = given
    BY <1>6 DEF LoadState
  <2>2. CASE disc = {}
    BY <1>3, <2>1, <2>2
  <2>3. CASE disc # {}
    <3>1. Kept(cd, c) /\ c.Phase = cd.Phase /\ c.Counter = cd.Counter
      BY <1>2
    <3> HIDE DEF c
    <3>2. cd' = c
      BY <2>1, <2>3
    <3> QED BY <2>1, <3>1, <3>2, KeptBelongs
  <2> QED BY <2>2, <2>3
<1> QED BY <1>4, <1>5, <1>6

LEMMA InitBelongs == ASSUME CDC_Init PROVE Belonging
<1> DEFINE a == [Constructed EXCEPT !.disc = {}]
           b == DMForceStop(a)
           k == Constructed
<1>1. PICK disc \in {{}} \cup {{d} : d \in CDs} :
        cd = [SoftReset(SetDisc(SetDisc(k, {}), disc)) EXCEPT !.DiscStartupDelay = FALSE]
  BY DEF CDC_Init
<1>2. Shape(k) /\ k.Latch = 0
  BY DEF Shape, Fields, Constructed
<1> HIDE DEF k
<1>3. Shape(a) /\ a.Latch = 0
  BY <1>2, FieldNames DEF Shape, k
<1>4. SetDisc(k, {}) = b
  BY DEF SetDisc, k
<1> HIDE DEF a
<1>5. Shape(b) /\ b.Latch = 0
  BY <1>3, ForceStopKept DEF Kept
<1> HIDE DEF b
<1>6. Shape(SetDisc(b, disc)) /\ SetDisc(b, disc).Latch = 0
  <2>1. CASE disc = {}
    <3> DEFINE e == [b EXCEPT !.disc = {}]
    <3>1. Shape(e) /\ e.Latch = 0
      BY <1>5, FieldNames DEF Shape
    <3>2. SetDisc(b, disc) = DMForceStop(e)
      BY <2>1 DEF SetDisc
    <3> HIDE DEF e
    <3> QED BY <3>1, <3>2, ForceStopKept DEF Kept
  <2>2. CASE disc # {}
    BY <1>5, <2>2, FieldNames DEF Shape, SetDisc
  <2> QED BY <2>1, <2>2
<1> DEFINE s == SetDisc(b, disc)
<1>7. cd = [SoftReset(s) EXCEPT !.DiscStartupDelay = FALSE] /\ Shape(s) /\ s.Latch = 0
  BY <1>1, <1>4, <1>6
<1> HIDE DEF s
<1>8. cd.Args = <<>> /\ cd.Latch = 0 /\ ~cd.Counter
  BY <1>7, ResetEmpties
<1>9. cd.Args \in Seq(Int) /\ Len(cd.Args) <= MaxArgs /\ cd.Latch \in Int
  BY <1>8, EmptySeq, CDCAssumption
<1>10. given \in Seq(Int)
  BY EmptySeq DEF CDC_Init
<1> QED BY <1>8, <1>9, <1>10 DEF Belonging

LEMMA NextBelongs == ASSUME Belonging, CDC_IInv \/ Dead, [CDC_Next]_cdcVars PROVE Belonging'
<1>1. CASE UNCHANGED cdcVars
  BY <1>1 DEF cdcVars, Belonging, Prepared
<1>2. CASE ~cd.failed /\ (Game \/ CDC_Update \/ Frontend)
  <2>1. CDC_IInv
    BY <1>2 DEF Dead, Fails
  <2>2. CASE Game
    BY <2>1, <2>2, WriteCommandBelongs, WriteArgumentBelongs, ClearBelongs, EventsBelong, ResetsBelong DEF Game
  <2>3. CASE CDC_Update
    BY <2>1, <2>3, EventsBelong, CommandBelongs DEF CDC_Update
  <2>4. CASE Frontend
    BY <2>1, <2>4, DiscsBelong, ResetsBelong DEF Frontend
  <2> QED BY <1>2, <2>2, <2>3, <2>4
<1> QED BY <1>1, <1>2 DEF CDC_Next, Aborted

\* A command is executed with the arguments that were in the FIFO when it was written and those
\* written while it took them (cdc.cpp:1212-1241), whatever was interrupted, cleared, reset,
\* ejected or loaded meanwhile; the buffer of 32 never overflows.
THEOREM ArgumentsDoBelong == CDC_Spec => []ArgumentsBelong
<1>1. CDC_Init => Belonging
  BY InitBelongs
<1>2. (CDC_IInv \/ Dead) /\ Belonging /\ [CDC_Next]_cdcVars => Belonging'
  BY NextBelongs
<1>3. Belonging => ArgumentsBelong
  BY DEF Belonging, Prepared, ArgumentsBelong
<1> QED BY <1>1, <1>2, <1>3, Invariant, PTL DEF CDC_Spec

------------------------------------------------------------------------------
(* The sectors of a read: where the drive is, what is in its pipe, and what *)
(* the game may expect.                                                     *)

\* g has the disc, the place on it, and the sectors of c.
Held(c, g) ==
  /\ Shape(g) /\ g.disc = c.disc /\ g.DiscStartupDelay = c.DiscStartupDelay
  /\ g.DriveStatus = c.DriveStatus /\ g.StatusAfterSeek = c.StatusAfterSeek
  /\ g.CurSector = c.CurSector /\ g.SeekTarget = c.SeekTarget
  /\ g.CommandLoc = c.CommandLoc /\ g.Dirty = c.Dirty
  /\ g.SectorPipe = c.SectorPipe /\ g.SectorsRead = c.SectorsRead

\* ... and what was seen of the last one.
Seen(c, g) == Held(c, g) /\ g.SubQ = c.SubQ /\ g.Mode = c.Mode /\ g.HeaderBufValid = c.HeaderBufValid

\* g has the disc and the position of c for the next seek, and its interrupt.
Marked(c, g) ==
  /\ Shape(g) /\ g.disc = c.disc /\ g.DiscStartupDelay = c.DiscStartupDelay
  /\ g.CommandLoc = c.CommandLoc /\ g.IRQ = c.IRQ

LEMMA HeldTransitive ==
  ASSUME NEW a, NEW b, NEW c
  PROVE  /\ Held(a, b) /\ Held(b, c) => Held(a, c)
         /\ Seen(a, b) /\ Seen(b, c) => Seen(a, c)
         /\ Marked(a, b) /\ Marked(b, c) => Marked(a, c)
  BY DEF Held, Seen, Marked

LEMMA DecodeHeld ==
  ASSUME NEW c, Shape(c), NEW s PROVE Held(c, DecodeSubQ(c, s)) /\ Marked(c, DecodeSubQ(c, s)) /\ DecodeSubQ(c, s).Mode = c.Mode
<1> DEFINE g == DecodeSubQ(c, s)
           q == IF s \in BadQ THEN c.SubQ ELSE Q(s)
           sum == s \notin BadQ
<1>1. g = [c EXCEPT !.SubQ = q, !.SubQChecksumOK = sum]
  BY DEF DecodeSubQ
<1> HIDE DEF g, q, sum
<1>2. Held(c, g) /\ Marked(c, g) /\ g.Mode = c.Mode
  BY <1>1, FieldNames DEF Shape, Held, Marked
<1> QED BY <1>2 DEF g

LEMMA ReadableHeld ==
  ASSUME NEW c, Shape(c), NEW tries PROVE Held(c, Readable(c, tries)) /\ Marked(c, Readable(c, tries))
  BY DecodeHeld DEF Readable

LEMMA DataHeld ==
  ASSUME NEW c, Shape(c)
  PROVE  /\ Seen(c, Matched(c)) /\ Seen(c, ClearAIP(c)) /\ Seen(c, Later(c))
         /\ Marked(c, Matched(c)) /\ Marked(c, ClearAIP(c)) /\ Marked(c, Later(c))
<1>1. Seen(c, Matched(c)) /\ Marked(c, Matched(c))
  BY FieldNames DEF Shape, Held, Seen, Marked, Matched
<1>2. Seen(c, ClearAIP(c)) /\ Marked(c, ClearAIP(c))
  BY FieldNames DEF Shape, Held, Seen, Marked, ClearAIP
<1>3. Seen(c, Later(c)) /\ Marked(c, Later(c))
  BY FieldNames DEF Shape, Held, Seen, Marked, Later
<1> QED BY <1>1, <1>2, <1>3

\* The pipe and what was read since the seek are emptied, and nothing else.
LEMMA EmptiedMarked ==
  ASSUME NEW c, Shape(c)
  PROVE  LET g == NoSectors(c)
         IN /\ Marked(c, g) /\ g.SectorPipe = <<>> /\ g.SectorsRead = 0
            /\ g.DriveStatus = c.DriveStatus /\ g.StatusAfterSeek = c.StatusAfterSeek
            /\ g.CurSector = c.CurSector /\ g.SeekTarget = c.SeekTarget /\ g.Dirty = c.Dirty
  BY FieldNames DEF Shape, Marked, NoSectors

LEMMA WriteHeld ==
  ASSUME NEW c, Shape(c), NEW v PROVE Seen(c, WriteIRQ(c, v)) /\ WriteIRQ(c, v).IRQ = v
<1> DEFINE g == WriteIRQ(c, v)
           f == c.failed \/ c.CDCReady \/ c.IRQ # 0
<1>1. g = [c EXCEPT !.failed = f, !.CDCReady = TRUE, !.IRQ = v]
  BY DEF WriteIRQ
<1> HIDE DEF g, f
<1>2. Seen(c, g) /\ g.IRQ = v
  BY <1>1, FieldNames DEF Shape, Held, Seen
<1> QED BY <1>2 DEF g

LEMMA AckHeld ==
  ASSUME NEW c, Shape(c)
  PROVE  /\ Seen(c, Ack(c)) /\ Ack(c).IRQ = ACKNOWLEDGE
         /\ Seen(c, Error(c)) /\ Error(c).IRQ = DISC_ERROR
  BY WriteHeld DEF Ack, Error

LEMMA SetHeld ==
  ASSUME NEW c, Shape(c), NEW irq PROVE Seen(c, SetAIP(c, irq))
<1> DEFINE s == [c EXCEPT !.AIP = irq]
           w == WriteIRQ(s, s.AIP)
<1>1. Seen(c, s)
  BY FieldNames DEF Shape, Held, Seen
<1> HIDE DEF s
<1>2. Seen(s, w)
  BY <1>1, WriteHeld DEF Seen, Held
<1> HIDE DEF w
<1>3. Seen(w, ClearAIP(w))
  BY <1>2, DataHeld DEF Seen, Held
<1>4. Seen(c, ClearAIP(w))
  BY <1>1, <1>2, <1>3, HeldTransitive
<1>5. SetAIP(c, irq) \in {s, ClearAIP(w)}
  BY DEF SetAIP, CheckAIP, s, w
<1> QED BY <1>1, <1>4, <1>5

\* A seek goes to its target at once.
LEMMA SeekGoes ==
  ASSUME NEW c, Shape(c), NEW target, NEW how, NEW then
  PROVE  LET g == Seek(c, target, how, then)
         IN /\ Marked(c, g) /\ g.DriveStatus = how /\ g.StatusAfterSeek = then
            /\ g.CurSector = target /\ g.SeekTarget = target
            /\ g.SectorPipe = c.SectorPipe /\ g.SectorsRead = c.SectorsRead /\ g.Dirty = c.Dirty
<1> DEFINE s == [c EXCEPT !.SeekTarget = target, !.CurSector = target, !.SeekRetryCounter = MaxRetries, !.PSR = TRUE,
                          !.HeaderBufValid = FALSE, !.DriveStatus = how, !.StatusAfterSeek = then]
           tries == [i \in 1..32 |-> target + i - 1]
           g == Readable(s, tries)
<1>1. Seek(c, target, how, then) = g
  BY DEF Seek
<1>2. /\ Marked(c, s) /\ s.DriveStatus = how /\ s.StatusAfterSeek = then
      /\ s.CurSector = target /\ s.SeekTarget = target
      /\ s.SectorPipe = c.SectorPipe /\ s.SectorsRead = c.SectorsRead /\ s.Dirty = c.Dirty
  BY FieldNames, ZenonT(40) DEF Shape, Marked
<1> HIDE DEF s, tries
<1>3. Held(s, g) /\ Marked(s, g)
  BY <1>2, ReadableHeld DEF Marked
<1> HIDE DEF g
<1> QED BY <1>1, <1>2, <1>3, HeldTransitive DEF Held

------------------------------------------------------------------------------
Behind(c) == IF c.SectorsRead < Pipe_Count THEN c.SectorsRead ELSE Pipe_Count

\* The pipe holds the last sectors before the current one, up to its length.
Piped(c) ==
  /\ c.CurSector \in Int /\ c.SectorsRead \in 0..PauseBack
  /\ c.SectorPipe = CASE Behind(c) = 0 -> <<>>
                      [] Behind(c) = 1 -> <<c.CurSector - 1>>
                      [] Behind(c) = 2 -> <<c.CurSector - 2, c.CurSector - 1>>

\* n sectors or less before the next of g.
Back(g, n) == (g.next - n)..g.next

\* What the game expects is what the drive c will deliver, wherever the read is.
Expected(c, g) ==
  /\ g \in [next : Int, slack : {0, Pipe_Count}]
  /\ c.DriveStatus \in {"SEEKING_LOGICAL", "READING", "PAUSED", "STANDBY"}
  /\ c.DriveStatus = "SEEKING_LOGICAL" => c.StatusAfterSeek = "READING" /\ c.SeekTarget \in Back(g, g.slack)
  /\ c.DriveStatus = "READING" =>
       /\ Piped(c) /\ c.CurSector - Behind(c) \in Back(g, g.slack)
       /\ c.SectorsRead > Pipe_Count => g.slack = 0
  /\ c.DriveStatus = "PAUSED" => c.CurSector \in Back(g, Pipe_Count)
  /\ c.DriveStatus = "STANDBY" => c.CurSector \in Back(g, g.slack) /\ c.SectorsRead = 0

\* A read that seeks has an empty pipe and is at its target already.
Underway(c) ==
  /\ c.CommandLoc \in Int
  /\ c.DriveStatus = "SEEKING_LOGICAL" /\ c.StatusAfterSeek = "READING" =>
       c.SectorPipe = <<>> /\ c.SectorsRead = 0 /\ c.CurSector = c.SeekTarget

StreamInv ==
  /\ Underway(cd)
  /\ stream # {} => Present(cd)
  /\ \A g \in stream : Expected(cd, g)

\* What SectorsInOrder says of a step.
Ordered ==
  \A g \in stream : (cd.PSR /\ ~cd'.failed /\ cd.DriveStatus = "READING" /\ cd'.DriveStatus = "READING"
                         /\ cd'.SectorPipe # cd.SectorPipe /\ Pops(cd)) =>
       /\ Head(cd.SectorPipe) \in (g.next - g.slack)..g.next
       /\ cd'.SubQ.data /\ ~("strsnd" \in cd.Mode /\ Head(cd.SectorPipe) \in XA) =>
            cd'.HeaderBufValid /\ DATA_READY \in {cd'.AIP, cd'.IRQ}

LEMMA HeldExpects ==
  ASSUME NEW c, NEW d, Held(c, d)
  PROVE  /\ Underway(c) => Underway(d)
         /\ Present(c) => Present(d)
         /\ \A g : Expected(c, g) => Expected(d, g)
  BY DEF Held, Underway, Present, Expected, Piped, Behind

\* A step that leaves the drive alone.
LEMMA HeldStreams ==
  ASSUME StreamInv, Held(cd, cd'), stream' = stream PROVE StreamInv' /\ Ordered
<1>1. Underway(cd') /\ (Present(cd) => Present(cd')) /\ \A g \in stream : Expected(cd', g)
  BY HeldExpects DEF StreamInv
<1>2. cd'.SectorPipe = cd.SectorPipe
  BY DEF Held
<1> QED BY <1>1, <1>2 DEF StreamInv, Ordered

\* A step that ends what the game may expect.
LEMMA EndsStream ==
  ASSUME Underway(cd'), stream' = {},
         cd.DriveStatus = "READING" /\ cd'.DriveStatus = "READING" => cd'.SectorPipe = cd.SectorPipe
  PROVE  StreamInv' /\ Ordered
  BY DEF StreamInv, Ordered

------------------------------------------------------------------------------
\* A sector is read: it enters the pipe, and the oldest one is delivered.
Passed(e, g) ==
  /\ g.SectorPipe = Append(IF Pops(e) THEN Tail(e.SectorPipe) ELSE e.SectorPipe, e.CurSector)
  /\ g.CurSector = e.CurSector + 1
  /\ g.SectorsRead = IF e.SectorsRead < PauseBack THEN e.SectorsRead + 1 ELSE e.SectorsRead
  /\ Pops(e) /\ g.SubQ.data /\ ~("strsnd" \in e.Mode /\ Head(e.SectorPipe) \in XA) =>
       g.HeaderBufValid /\ DATA_READY \in {g.AIP, g.IRQ}

\* What a drive that reads or plays makes of e.
ReadOn(e, g) ==
  /\ Shape(g) /\ g.disc = e.disc /\ g.DiscStartupDelay = e.DiscStartupDelay /\ g.CommandLoc = e.CommandLoc
  /\ g.DriveStatus \in {e.DriveStatus, "STOPPED", "PAUSED"}
  /\ e.DriveStatus = "READING" /\ g.DriveStatus = "READING" => Passed(e, g)

LEMMA DeliversOldest ==
  ASSUME NEW c, Calm(c), c.DriveStatus = "READING"
  PROVE  LET g == Delivered(c)
         IN /\ Held(c, g) /\ g.SubQ = c.SubQ /\ g.Mode = c.Mode
            /\ c.SubQ.data /\ ~("strsnd" \in c.Mode /\ Head(c.SectorPipe) \in XA) =>
                 g.HeaderBufValid /\ DATA_READY \in {g.AIP, g.IRQ}
<1> DEFINE h == [c EXCEPT !.HeaderBufValid = TRUE]
           s == SetAIP(h, DATA_READY)
<1>1. Shape(c)
  BY DEF Calm
<1>2. Like(c, h) /\ Held(c, h) /\ h.SubQ = c.SubQ /\ h.Mode = c.Mode /\ h.HeaderBufValid
  BY <1>1, FieldNames DEF Shape, Held, Like
<1> HIDE DEF h
<1>3. Seen(h, s)
  BY <1>2, SetHeld DEF Held
<1>4. DATA_READY \in {s.AIP, s.IRQ}
  <2>1. Calm(h)
    BY <1>2, CalmLike
  <2>2. Told(h, s, DATA_READY)
    BY <2>1, TellsOrWaits DEF Causes
  <2> QED BY <2>2 DEF Told
<1> HIDE DEF s
<1>5. Held(c, s) /\ s.SubQ = c.SubQ /\ s.Mode = c.Mode /\ s.HeaderBufValid
  BY <1>2, <1>3, HeldTransitive DEF Seen
<1>6. Delivered(c) = IF ~c.SubQ.data THEN c ELSE IF ~Notified(c) THEN h ELSE s
  BY DEF Delivered, h, s
<1>7. Held(c, c)
  BY <1>1 DEF Held
<1>8. CASE ~c.SubQ.data
  BY <1>6, <1>7, <1>8
<1>9. CASE c.SubQ.data /\ ~Notified(c)
  BY <1>2, <1>6, <1>9 DEF Notified
<1>10. CASE c.SubQ.data /\ Notified(c)
  BY <1>4, <1>5, <1>6, <1>10
<1> QED BY <1>8, <1>9, <1>10

LEMMA AdvancesBy ==
  ASSUME NEW c, Shape(c)
  PROVE  LET g == Advanced(c)
         IN /\ Marked(c, g) /\ g.DriveStatus = c.DriveStatus
            /\ g.SubQ = c.SubQ /\ g.HeaderBufValid = c.HeaderBufValid /\ g.AIP = c.AIP
            /\ g.SectorPipe = Append(IF Pops(c) THEN Tail(c.SectorPipe) ELSE c.SectorPipe, c.CurSector)
            /\ g.SectorsRead = IF c.SectorsRead < PauseBack THEN c.SectorsRead + 1 ELSE c.SectorsRead
            /\ c.DriveStatus = "READING" => g.CurSector = c.CurSector + 1
<1> DEFINE pipe == Append(IF Pops(c) THEN Tail(c.SectorPipe) ELSE c.SectorPipe, c.CurSector)
           read == IF c.SectorsRead < PauseBack THEN c.SectorsRead + 1 ELSE c.SectorsRead
           cur == IF c.DriveStatus # "PLAYING" \/ (~c.Forward /\ ~c.Backward) THEN c.CurSector + 1
                  ELSE IF c.Forward THEN c.CurSector + Winding
                  ELSE IF c.CurSector < Winding THEN 0 ELSE c.CurSector - Winding
           g == [c EXCEPT !.SectorPipe = pipe, !.PSR = TRUE, !.SectorsRead = read, !.CurSector = cur]
<1>1. Advanced(c) = g
  BY DEF Advanced
<1>2. c.DriveStatus = "READING" => cur = c.CurSector + 1
  OBVIOUS
<1> HIDE DEF cur
<1>3. /\ Marked(c, g) /\ g.DriveStatus = c.DriveStatus
      /\ g.SubQ = c.SubQ /\ g.HeaderBufValid = c.HeaderBufValid /\ g.AIP = c.AIP
      /\ g.SectorPipe = pipe /\ g.SectorsRead = read /\ g.CurSector = cur
  <2> HIDE DEF pipe, read
  <2> QED BY FieldNames DEF Shape, Marked
<1> HIDE DEF g
<1> QED BY <1>1, <1>2, <1>3

LEMMA ReadsOn ==
  ASSUME NEW e, Calm(e), e.DriveStatus \in Reading, NEW due PROVE ReadOn(e, HandlePlayRead(e, due))
<1> DEFINE stop == [e EXCEPT !.DriveStatus = "STOPPED"]
           read == DecodeSubQ(e, e.CurSector)
           matched == Matched(read)
           reported == IF Reports(matched, due) THEN SetAIP(matched, DATA_READY) ELSE matched
           pause == [read EXCEPT !.HeaderBufValid = FALSE, !.DriveStatus = "PAUSED"]
           told == SetAIP(matched, DATA_END)
           auto == [told EXCEPT !.DriveStatus = "PAUSED", !.PSR = FALSE]
           passed == IF Pops(reported) THEN Delivered(reported) ELSE reported
<1>1. HandlePlayRead(e, due) =
        IF e.CurSector >= TooFar THEN NoSectors(stop)
        ELSE IF LeadsOut(read) THEN SetAIP(NoSectors(pause), DATA_END)
        ELSE IF AutoPauses(matched) THEN NoSectors(auto) ELSE Advanced(passed)
  BY DEF HandlePlayRead
<1>2. Shape(e)
  BY DEF Calm
<1>3. Marked(e, stop) /\ stop.DriveStatus = "STOPPED"
  BY <1>2, FieldNames DEF Shape, Marked
<1>4. Held(e, read) /\ read.Mode = e.Mode /\ Like(e, read)
  BY <1>2, DecodeHeld, DecodeLike
<1> HIDE DEF stop, read
<1>5. Seen(read, matched) /\ Like(read, matched)
  BY <1>4, DataHeld, DataLike DEF Held
<1>6. /\ Shape(pause) /\ pause.disc = read.disc /\ pause.DiscStartupDelay = read.DiscStartupDelay
      /\ pause.CommandLoc = read.CommandLoc /\ pause.DriveStatus = "PAUSED"
  BY <1>4, FieldNames DEF Shape, Held
<1> HIDE DEF matched, pause
<1>7. Held(e, matched) /\ matched.Mode = e.Mode /\ Calm(matched)
  <2>1. Calm(matched)
    BY <1>4, <1>5, LikeTransitive, CalmLike
  <2> QED BY <1>4, <1>5, <2>1, HeldTransitive DEF Seen
<1>8. ReadOn(e, NoSectors(stop))
  BY <1>3, EmptiedMarked DEF ReadOn, Marked
<1>9. ReadOn(e, SetAIP(NoSectors(pause), DATA_END))
  <2> DEFINE n == NoSectors(pause)
  <2>1. /\ Shape(n) /\ n.disc = e.disc /\ n.DiscStartupDelay = e.DiscStartupDelay
        /\ n.CommandLoc = e.CommandLoc /\ n.DriveStatus = "PAUSED"
    BY <1>4, <1>6, EmptiedMarked DEF Marked, Held
  <2> HIDE DEF n
  <2>2. Held(n, SetAIP(n, DATA_END))
    BY <2>1, SetHeld DEF Seen
  <2>3. ReadOn(e, SetAIP(n, DATA_END))
    BY <2>1, <2>2 DEF ReadOn, Held
  <2> QED BY <2>3 DEF n
<1>10. ReadOn(e, NoSectors(auto))
  <2>1. Held(matched, told)
    BY <1>7, SetHeld DEF Seen, Held
  <2>2. Held(e, told)
    BY <1>7, <2>1, HeldTransitive
  <2> HIDE DEF told
  <2>3. /\ Shape(auto) /\ auto.disc = e.disc /\ auto.DiscStartupDelay = e.DiscStartupDelay
        /\ auto.CommandLoc = e.CommandLoc /\ auto.DriveStatus = "PAUSED"
    BY <2>2, FieldNames DEF Held, Shape
  <2> HIDE DEF auto
  <2> QED BY <2>3, EmptiedMarked DEF ReadOn, Marked
<1>11. ReadOn(e, Advanced(passed))
  <2>1. CASE e.DriveStatus = "READING"
    <3>1. matched.DriveStatus = "READING" /\ reported = matched
      BY <1>7, <2>1 DEF Held, Reports
    <3> DEFINE d == IF Pops(matched) THEN Delivered(matched) ELSE matched
    <3>2. /\ Held(matched, d) /\ d.SubQ = matched.SubQ /\ d.Mode = matched.Mode
          /\ Pops(matched) /\ matched.SubQ.data /\ ~("strsnd" \in matched.Mode /\ Head(matched.SectorPipe) \in XA) =>
               d.HeaderBufValid /\ DATA_READY \in {d.AIP, d.IRQ}
      <4>1. CASE Pops(matched)
        BY <1>7, <3>1, <4>1, DeliversOldest
      <4>2. CASE ~Pops(matched)
        BY <1>7, <4>2 DEF Held
      <4> QED BY <4>1, <4>2
    <3>3. passed = d
      BY <3>1
    <3> HIDE DEF d
    <3>4. Held(e, d) /\ (Pops(e) <=> Pops(matched)) /\ (Pops(d) <=> Pops(e))
      BY <1>7, <3>2, HeldTransitive DEF Held, Pops
    <3> DEFINE g == Advanced(d)
    <3>5. /\ Marked(d, g) /\ g.DriveStatus = d.DriveStatus
          /\ g.SubQ = d.SubQ /\ g.HeaderBufValid = d.HeaderBufValid /\ g.AIP = d.AIP
          /\ g.SectorPipe = Append(IF Pops(d) THEN Tail(d.SectorPipe) ELSE d.SectorPipe, d.CurSector)
          /\ g.SectorsRead = IF d.SectorsRead < PauseBack THEN d.SectorsRead + 1 ELSE d.SectorsRead
          /\ d.DriveStatus = "READING" => g.CurSector = d.CurSector + 1
      BY <3>4, AdvancesBy DEF Held
    <3> HIDE DEF g
    <3>6. /\ d.SectorPipe = e.SectorPipe /\ d.CurSector = e.CurSector /\ d.SectorsRead = e.SectorsRead
          /\ d.DriveStatus = e.DriveStatus /\ d.disc = e.disc /\ d.DiscStartupDelay = e.DiscStartupDelay
          /\ d.CommandLoc = e.CommandLoc /\ matched.SectorPipe = e.SectorPipe
      BY <1>7, <3>4 DEF Held
    <3>7. Passed(e, g)
      BY <1>7, <2>1, <3>2, <3>4, <3>5, <3>6 DEF Passed, Marked
    <3>8. ReadOn(e, g)
      BY <3>5, <3>6, <3>7 DEF ReadOn, Marked
    <3> QED BY <3>3, <3>8 DEF g
  <2>2. CASE e.DriveStatus = "PLAYING"
    <3>1. Held(matched, SetAIP(matched, DATA_READY))
      BY <1>7, SetHeld DEF Held, Seen
    <3>2. Held(e, reported)
      BY <1>7, <3>1, HeldTransitive
    <3> HIDE DEF reported
    <3>3. Delivered(reported) = reported
      BY <2>2, <3>2 DEF Delivered, Held
    <3>4. passed = reported
      BY <3>3
    <3> HIDE DEF passed
    <3> DEFINE g == Advanced(reported)
    <3>5. Marked(reported, g) /\ g.DriveStatus = reported.DriveStatus
      BY <3>2, AdvancesBy DEF Held
    <3> HIDE DEF g
    <3>6. ReadOn(e, g)
      BY <2>2, <3>2, <3>5 DEF ReadOn, Marked, Held
    <3> QED BY <3>4, <3>6 DEF g
  <2> QED BY <2>1, <2>2 DEF Reading
<1> HIDE DEF reported, told, auto, passed
<1> QED BY <1>1, <1>8, <1>9, <1>10, <1>11

------------------------------------------------------------------------------
LEMMA AppendIs ==
  ASSUME NEW s \in Seq(Int), NEW x \in Int
  PROVE  /\ Append(s, x) \in Seq(Int) /\ Len(Append(s, x)) = Len(s) + 1
         /\ \A i \in 1..Len(s) : Append(s, x)[i] = s[i]
         /\ Append(s, x)[Len(s) + 1] = x
  BY AppendProperties

LEMMA PipeGrows ==
  ASSUME NEW s \in Seq(Int), Len(s) = 1, NEW x \in Int, NEW t \in Seq(Int), Len(t) = 2, t[1] = s[1], t[2] = x
  PROVE  Append(s, x) = t
<1> DEFINE r == Append(s, x)
<1>1. /\ r \in Seq(Int) /\ Len(r) = Len(s) + 1
      /\ \A i \in 1..Len(s) : r[i] = s[i]
      /\ r[Len(s) + 1] = x
  BY AppendIs
<1> HIDE DEF r
<1>4. Len(r) = 2 /\ r[1] = s[1] /\ r[2] = x
  BY <1>1
<1>2. \A i \in 1..Len(r) : r[i] = t[i]
  <2>1. \A i \in 1..2 : i = 1 \/ i = 2
    OBVIOUS
  <2> QED BY <1>4, <2>1
<1>3. r = t
  BY <1>1, <1>2, <1>4, SeqEqual
<1> QED BY <1>3 DEF r

LEMMA ShortPipes ==
  ASSUME NEW a \in Int, NEW b \in Int, NEW x \in Int
  PROVE  /\ Len(<<a>>) = 1 /\ Append(<<a>>, x) = <<a, x>>
         /\ Len(<<a, b>>) = 2 /\ Head(<<a, b>>) = a /\ Append(Tail(<<a, b>>), x) = <<b, x>>
<1>1. /\ <<a>> \in Seq(Int) /\ Len(<<a>>) = 1 /\ <<a>>[1] = a
      /\ <<a, x>> \in Seq(Int) /\ Len(<<a, x>>) = 2 /\ <<a, x>>[1] = a /\ <<a, x>>[2] = x
      /\ <<b, x>> \in Seq(Int) /\ Len(<<b, x>>) = 2 /\ <<b, x>>[1] = b /\ <<b, x>>[2] = x
      /\ <<a, b>> \in Seq(Int) /\ Len(<<a, b>>) = 2 /\ <<a, b>>[1] = a /\ <<a, b>>[2] = b /\ <<a, b>> # <<>>
  OBVIOUS
<1>2. Append(<<a>>, x) = <<a, x>>
  <2> DEFINE s == <<a>>
             t == <<a, x>>
  <2>1. s \in Seq(Int) /\ Len(s) = 1 /\ s[1] = a /\ t \in Seq(Int) /\ Len(t) = 2 /\ t[1] = a /\ t[2] = x
    BY <1>1
  <2> HIDE DEF s, t
  <2>2. Append(s, x) = t
    BY <2>1, PipeGrows
  <2> QED BY <2>2 DEF s, t
<1>3. Append(Tail(<<a, b>>), x) = <<b, x>> /\ Head(<<a, b>>) = a
  <2> DEFINE s == <<a, b>>
             t == <<b, x>>
  <2>1. /\ s \in Seq(Int) /\ Len(s) = 2 /\ s[1] = a /\ s[2] = b /\ s # <<>>
        /\ t \in Seq(Int) /\ Len(t) = 2 /\ t[1] = b /\ t[2] = x
    BY <1>1
  <2> HIDE DEF s, t
  <2>2. /\ Tail(s) \in Seq(Int) /\ Len(Tail(s)) = Len(s) - 1
        /\ \A i \in 1..Len(Tail(s)) : Tail(s)[i] = s[i + 1]
    BY <2>1, HeadTailProperties, Zenon
  <2> DEFINE u == Tail(s)
  <2>5. Len(u) = 1 /\ u[1] = b
    <3>1. Len(u) = Len(s) - 1 /\ \A i \in 1..Len(u) : u[i] = s[i + 1]
      BY <2>2
    <3> HIDE DEF u
    <3> QED BY <2>1, <3>1
  <2>3. Append(Tail(s), x) = t
    BY <2>1, <2>2, <2>5, PipeGrows
  <2>4. Head(s) = a
    BY <2>1
  <2> QED BY <2>3, <2>4 DEF s, t
<1> QED BY <1>1, <1>2, <1>3

\* The pipe when a sector enters it.
LEMMA PipeMoves ==
  ASSUME NEW c, NEW d, Piped(c), Passed(c, d)
  PROVE  /\ Piped(d) /\ d.CurSector = c.CurSector + 1
         /\ Pops(c) <=> Behind(c) = 2
         /\ Behind(c) = 2 => Head(c.SectorPipe) = c.CurSector - 2 /\ Behind(d) = 2
         /\ Behind(c) # 2 => Behind(c) \in {0, 1} /\ Behind(d) = Behind(c) + 1 /\ d.SectorsRead <= Pipe_Count
<1> DEFINE n == c.CurSector
<1>1. n \in Int /\ c.SectorsRead \in 0..4 /\ d.CurSector = n + 1
  BY DEF Piped, Passed, PauseBack
<1>2. d.SectorsRead = IF c.SectorsRead < 4 THEN c.SectorsRead + 1 ELSE c.SectorsRead
  BY DEF Passed, PauseBack
<1>3. d.SectorsRead \in 0..4
  BY <1>1, <1>2
<1>4. d.SectorPipe = Append(IF Len(c.SectorPipe) >= 2 THEN Tail(c.SectorPipe) ELSE c.SectorPipe, n)
  BY DEF Passed, Pops, Pipe_Count
<1>5. Behind(c) = (IF c.SectorsRead < 2 THEN c.SectorsRead ELSE 2) /\ Behind(d) = (IF d.SectorsRead < 2 THEN d.SectorsRead ELSE 2)
  BY DEF Behind, Pipe_Count
<1>6. CASE Behind(c) = 0
  <2>1. c.SectorPipe = <<>>
    BY <1>6 DEF Piped
  <2>2. d.SectorPipe = <<n>>
    BY <1>1, <1>4, <2>1
  <2>3. d.SectorsRead = 1 /\ Behind(d) = 1
    BY <1>1, <1>2, <1>5, <1>6
  <2>4. d.SectorPipe = <<d.CurSector - 1>>
    BY <1>1, <2>2
  <2> QED BY <1>1, <1>3, <1>6, <2>1, <2>3, <2>4 DEF Piped, Pops, Pipe_Count, PauseBack
<1>7. CASE Behind(c) = 1
  <2>1. c.SectorPipe = <<n - 1>>
    BY <1>7 DEF Piped
  <2>2. d.SectorPipe = <<n - 1, n>>
    <3>1. n - 1 \in Int /\ n \in Int
      BY <1>1
    <3> DEFINE p == c.SectorPipe
    <3>2. Len(p) = 1 /\ Append(p, n) = <<n - 1, n>>
      BY <2>1, <3>1, ShortPipes
    <3> HIDE DEF p
    <3> QED BY <1>4, <3>2 DEF p
  <2>3. d.SectorsRead = 2 /\ Behind(d) = 2
    BY <1>1, <1>2, <1>5, <1>7
  <2>4. d.SectorPipe = <<d.CurSector - 2, d.CurSector - 1>>
    BY <1>1, <2>2
  <2> QED BY <1>1, <1>3, <1>7, <2>1, <2>3, <2>4 DEF Piped, Pops, Pipe_Count, PauseBack
<1>8. CASE Behind(c) = 2
  <2>1. c.SectorPipe = <<n - 2, n - 1>>
    BY <1>8 DEF Piped
  <2>2. d.SectorPipe = <<n - 1, n>> /\ Len(c.SectorPipe) = 2 /\ Head(c.SectorPipe) = n - 2
    <3>1. n - 2 \in Int /\ n - 1 \in Int /\ n \in Int
      BY <1>1
    <3> DEFINE p == c.SectorPipe
    <3>2. Len(p) = 2 /\ Append(Tail(p), n) = <<n - 1, n>> /\ Head(p) = n - 2
      BY <2>1, <3>1, ShortPipes
    <3> HIDE DEF p
    <3> QED BY <1>4, <3>2 DEF p
  <2>3. Behind(d) = 2
    BY <1>1, <1>2, <1>5, <1>8
  <2>4. d.SectorPipe = <<d.CurSector - 2, d.CurSector - 1>>
    BY <1>1, <2>2
  <2> QED BY <1>1, <1>3, <1>8, <2>2, <2>3, <2>4 DEF Piped, Pops, Pipe_Count, PauseBack
<1>9. Behind(c) \in {0, 1, 2}
  BY <1>1, <1>5
<1> QED BY <1>6, <1>7, <1>8, <1>9

\* A sector of a read.
LEMMA ReadStreams ==
  ASSUME StreamInv, NEW e, Seen(cd, e), cd.DriveStatus = "READING", ReadOn(e, cd'), stream' = StreamSteps
  PROVE  StreamInv' /\ Ordered
<1>1. /\ Shape(cd') /\ cd'.disc = cd.disc /\ cd'.DiscStartupDelay = cd.DiscStartupDelay
      /\ cd'.CommandLoc = cd.CommandLoc /\ cd'.DriveStatus \in {"READING", "STOPPED", "PAUSED"}
      /\ cd'.DriveStatus = "READING" => Passed(cd, cd')
  BY DEF Seen, Held, ReadOn, Passed, Pops
<1>2. Underway(cd') /\ (Present(cd) => Present(cd'))
  BY <1>1 DEF StreamInv, Underway, Present
<1>3. CASE cd'.DriveStatus # "READING"
  <2>1. stream' = {}
    BY <1>3 DEF StreamSteps
  <2> QED BY <1>2, <1>3, <2>1, EndsStream
<1>4. CASE cd'.DriveStatus = "READING"
  <2>1. stream' = IF Pops(cd) THEN {[next |-> Head(cd.SectorPipe) + 1, slack |-> 0] : g \in stream} ELSE stream
    BY <1>4 DEF StreamSteps
  <2>2. Passed(cd, cd')
    BY <1>1, <1>4
  <2>3. ASSUME NEW g \in stream
        PROVE  /\ Pops(cd) => /\ Head(cd.SectorPipe) \in (g.next - g.slack)..g.next
                              /\ Expected(cd', [next |-> Head(cd.SectorPipe) + 1, slack |-> 0])
               /\ ~Pops(cd) => Expected(cd', g)
    <3>1. /\ Piped(cd) /\ cd.CurSector - Behind(cd) \in Back(g, g.slack) /\ g \in [next : Int, slack : {0, Pipe_Count}]
          /\ cd.CurSector \in Int
      BY <2>3 DEF StreamInv, Expected, Piped
    <3>2. /\ Piped(cd') /\ cd'.CurSector = cd.CurSector + 1
          /\ Pops(cd) <=> Behind(cd) = 2
          /\ Behind(cd) = 2 => Head(cd.SectorPipe) = cd.CurSector - 2 /\ Behind(cd') = 2
          /\ Behind(cd) # 2 => Behind(cd) \in {0, 1} /\ Behind(cd') = Behind(cd) + 1 /\ cd'.SectorsRead <= Pipe_Count
      BY <2>2, <3>1, PipeMoves
    <3>3. CASE Pops(cd)
      <4> DEFINE h == [next |-> Head(cd.SectorPipe) + 1, slack |-> 0]
      <4>1. h.next = cd.CurSector - 1 /\ h.slack = 0 /\ h \in [next : Int, slack : {0, Pipe_Count}]
        BY <3>1, <3>2, <3>3
      <4>2. cd'.CurSector - Behind(cd') = cd.CurSector - 1
        BY <3>1, <3>2, <3>3
      <4> HIDE DEF h
      <4>3. cd'.CurSector - Behind(cd') \in Back(h, h.slack)
        BY <3>1, <4>1, <4>2 DEF Back
      <4>4. Expected(cd', h)
        BY <1>4, <3>2, <4>1, <4>3 DEF Expected
      <4>5. Head(cd.SectorPipe) \in (g.next - g.slack)..g.next
        BY <3>1, <3>2, <3>3 DEF Back
      <4> QED BY <3>3, <4>4, <4>5 DEF h
    <3>4. CASE ~Pops(cd)
      <4>1. cd'.CurSector - Behind(cd') = cd.CurSector - Behind(cd)
        BY <3>1, <3>2, <3>4
      <4>2. ~(cd'.SectorsRead > Pipe_Count)
        BY <3>2, <3>4 DEF Piped, Pipe_Count
      <4>3. Expected(cd', g)
        BY <1>4, <3>1, <3>2, <4>1, <4>2 DEF Expected
      <4> QED BY <3>4, <4>3
    <3> QED BY <3>3, <3>4
  <2>4. \A g \in stream' : Expected(cd', g)
    BY <2>1, <2>3
  <2>5. stream' # {} => Present(cd')
    BY <1>2, <2>1 DEF StreamInv
  <2>6. Ordered
    BY <2>2, <2>3 DEF Ordered, Passed
  <2> QED BY <1>2, <2>4, <2>5, <2>6 DEF StreamInv
<1> QED BY <1>3, <1>4

\* A logical seek arrives, tries again, or gives up where it is.
LEMMA LogicalSeekStays ==
  ASSUME NEW e, Shape(e)
  PROVE  LET g == LogicalSeekEnds(e)
         IN /\ Shape(g) /\ g.disc = e.disc /\ g.DiscStartupDelay = e.DiscStartupDelay /\ g.CommandLoc = e.CommandLoc
            /\ g.StatusAfterSeek = e.StatusAfterSeek /\ g.CurSector = e.SeekTarget /\ g.SeekTarget = e.SeekTarget
            /\ g.SectorPipe = e.SectorPipe /\ g.SectorsRead = e.SectorsRead
            /\ g.DriveStatus \in {e.StatusAfterSeek, e.DriveStatus, "STANDBY"}
<1> DEFINE s == [e EXCEPT !.CurSector = e.SeekTarget]
           target == e.SeekTarget
           r == DecodeSubQ(s, target)
           again == [r EXCEPT !.SeekRetryCounter = @ - 1, !.PSR = TRUE]
           lost == [r EXCEPT !.DriveStatus = "STANDBY"]
           There(g) == /\ Shape(g) /\ g.disc = e.disc /\ g.DiscStartupDelay = e.DiscStartupDelay
                       /\ g.CommandLoc = e.CommandLoc
                       /\ g.StatusAfterSeek = e.StatusAfterSeek /\ g.CurSector = target /\ g.SeekTarget = target
                       /\ g.SectorPipe = e.SectorPipe /\ g.SectorsRead = e.SectorsRead
<1>1. LogicalSeekEnds(e) \in {Arrived(r), again, SetAIP(lost, DISC_ERROR)}
  BY DEF LogicalSeekEnds
<1>2. There(s) /\ s.DriveStatus = e.DriveStatus
  BY FieldNames DEF Shape
<1> HIDE DEF s, target
<1>3. Held(s, r)
  BY <1>2, DecodeHeld
<1>4. There(r) /\ r.DriveStatus = e.DriveStatus
  BY <1>2, <1>3 DEF Held
<1> HIDE DEF r
<1>5. There(Arrived(r)) /\ Arrived(r).DriveStatus = e.StatusAfterSeek
  BY <1>4, FieldNames DEF Shape, Arrived
<1>6. There(again) /\ again.DriveStatus = e.DriveStatus
  BY <1>4, FieldNames DEF Shape
<1>7. There(lost) /\ lost.DriveStatus = "STANDBY"
  BY <1>4, FieldNames DEF Shape
<1> HIDE DEF again, lost
<1>8. There(SetAIP(lost, DISC_ERROR)) /\ SetAIP(lost, DISC_ERROR).DriveStatus = "STANDBY"
  <2>1. Held(lost, SetAIP(lost, DISC_ERROR))
    BY <1>7, SetHeld DEF Seen
  <2> QED BY <1>7, <2>1 DEF Held
<1>9. There(LogicalSeekEnds(e)) /\ LogicalSeekEnds(e).DriveStatus \in {e.StatusAfterSeek, e.DriveStatus, "STANDBY"}
  BY <1>1, <1>5, <1>6, <1>8
<1> QED BY <1>9 DEF target

LEMMA LogicalSeekStreams ==
  ASSUME StreamInv, NEW e, Seen(cd, e), cd.DriveStatus = "SEEKING_LOGICAL", cd' = LogicalSeekEnds(e), stream' = stream
  PROVE  StreamInv' /\ Ordered
<1>1. /\ Shape(cd') /\ cd'.disc = cd.disc /\ cd'.DiscStartupDelay = cd.DiscStartupDelay /\ cd'.CommandLoc = cd.CommandLoc
      /\ cd'.StatusAfterSeek = cd.StatusAfterSeek /\ cd'.CurSector = cd.SeekTarget /\ cd'.SeekTarget = cd.SeekTarget
      /\ cd'.SectorPipe = cd.SectorPipe /\ cd'.SectorsRead = cd.SectorsRead
      /\ cd'.DriveStatus \in {cd.StatusAfterSeek, "SEEKING_LOGICAL", "STANDBY"}
  BY LogicalSeekStays DEF Seen, Held
<1>2. Underway(cd') /\ (Present(cd) => Present(cd'))
  BY <1>1 DEF StreamInv, Underway, Present
<1>3. ASSUME NEW g \in stream PROVE Expected(cd', g)
  <2>1. /\ g \in [next : Int, slack : {0, Pipe_Count}] /\ cd.StatusAfterSeek = "READING"
        /\ cd.SeekTarget \in Back(g, g.slack)
    BY <1>3 DEF StreamInv, Expected
  <2>2. cd.SectorPipe = <<>> /\ cd.SectorsRead = 0
    BY <2>1 DEF StreamInv, Underway
  <2>3. cd.SeekTarget \in Int
    BY <2>1 DEF Back, Pipe_Count
  <2>4. Behind(cd') = 0
    BY <1>1, <2>2 DEF Behind, Pipe_Count
  <2>5. Piped(cd') /\ cd'.CurSector - Behind(cd') = cd.SeekTarget /\ ~(cd'.SectorsRead > Pipe_Count)
    BY <1>1, <2>2, <2>3, <2>4 DEF Piped, Pipe_Count, PauseBack
  <2> QED BY <1>1, <2>1, <2>2, <2>5 DEF Expected
<1> QED BY <1>1, <1>2, <1>3 DEF StreamInv, Ordered

LEMMA ResetPlace ==
  ASSUME NEW e, Shape(e) PROVE ResetEnds(e).CommandLoc = 0 /\ ResetEnds(e).DriveStatus = "PAUSED"
<1> DEFINE s == SetAIP(e, COMPLETE)
           p == [s EXCEPT !.Mode = {}, !.CurSector = 0, !.CommandLoc = 0, !.DriveStatus = "PAUSED"]
           n == NoSectors(p)
<1>1. ResetEnds(e) = ClearAIP(n)
  BY DEF ResetEnds
<1>2. Shape(s)
  BY SetHeld DEF Seen, Held
<1> HIDE DEF s
<1>3. Shape(p) /\ p.CommandLoc = 0 /\ p.DriveStatus = "PAUSED"
  BY <1>2, FieldNames DEF Shape
<1> HIDE DEF p
<1>4. Shape(n) /\ n.CommandLoc = 0 /\ n.DriveStatus = "PAUSED"
  BY <1>3, EmptiedMarked DEF Marked
<1> HIDE DEF n
<1> QED BY <1>1, <1>4, DataHeld DEF Seen, Held

LEMMA SeekPlace ==
  ASSUME NEW e, Shape(e)
  PROVE  LET g == SeekEnds(e)
         IN g.CommandLoc = e.CommandLoc /\ g.StatusAfterSeek = e.StatusAfterSeek /\ g.DriveStatus = e.StatusAfterSeek
<1> DEFINE s == [e EXCEPT !.CurSector = e.SeekTarget]
           tries == [i \in 1..16 |-> e.SeekTarget - i]
           r == Readable(s, tries)
<1>1. SeekEnds(e) = Arrived(r)
  BY DEF SeekEnds
<1>2. Shape(s) /\ s.CommandLoc = e.CommandLoc /\ s.StatusAfterSeek = e.StatusAfterSeek
  BY FieldNames DEF Shape
<1> HIDE DEF s, tries
<1>3. Held(s, r)
  BY <1>2, ReadableHeld
<1> HIDE DEF r
<1>4. LET g == Arrived(r)
      IN g.CommandLoc = r.CommandLoc /\ g.StatusAfterSeek = r.StatusAfterSeek /\ g.DriveStatus = r.StatusAfterSeek
  BY <1>3, FieldNames DEF Held, Shape, Arrived
<1> QED BY <1>1, <1>2, <1>3, <1>4 DEF Held

LEMMA DriveStreams ==
  ASSUME CDC_IInv, StreamInv, NEW due, DriveEnds(due) PROVE StreamInv' /\ Ordered
<1> DEFINE e == [cd EXCEPT !.PSR = FALSE]
<1>1. Calm(cd) /\ Shape(cd)
  BY DEF CDC_IInv, Sound, Calm
<1>2. cd' = DriveSteps(cd, due) /\ stream' = StreamSteps
  BY <1>1, CheckAIPSame DEF DriveEnds
<1>3. Seen(cd, e) /\ Calm(e)
  <2>1. /\ Seen(cd, e) /\ e.CDCReady = cd.CDCReady /\ e.failed = cd.failed /\ e.PSR = FALSE /\ e.Counter = cd.Counter
        /\ e.Phase = cd.Phase /\ e.IRQ = cd.IRQ /\ e.AIP = cd.AIP
    BY <1>1, FieldNames DEF Shape, Seen, Held
  <2> HIDE DEF e
  <2> QED BY <1>1, <2>1 DEF Calm, Seen, Held
<1>4. Shape(e) /\ e.DriveStatus = cd.DriveStatus /\ e.CommandLoc = cd.CommandLoc /\ e.StatusAfterSeek = cd.StatusAfterSeek
  BY <1>3 DEF Seen, Held
<1>5. cd.DriveStatus \in {"RESETTING", "SEEKING", "PLAYING"} => stream = {}
  BY DEF StreamInv, Expected
<1>6. cd.DriveStatus # "READING" => stream' = stream
  BY <1>2 DEF StreamSteps
<1>7. cd.CommandLoc \in Int
  BY DEF StreamInv, Underway
<1>8. CASE cd.DriveStatus = "RESETTING"
  <2>1. cd' = ResetEnds(e)
    BY <1>2, <1>8 DEF DriveSteps
  <2> HIDE DEF e
  <2>2. Underway(cd')
    BY <1>4, <2>1, ResetPlace DEF Underway
  <2> QED BY <1>5, <1>6, <1>8, <2>2, EndsStream
<1>9. CASE cd.DriveStatus = "SEEKING"
  <2>1. cd' = SeekEnds(e)
    BY <1>2, <1>9 DEF DriveSteps
  <2> HIDE DEF e
  <2>2. Underway(cd')
    BY <1>4, <1>7, <2>1, SeekPlace DEF Underway
  <2> QED BY <1>5, <1>6, <1>9, <2>2, EndsStream
<1>10. CASE cd.DriveStatus = "SEEKING_LOGICAL"
  <2>1. cd' = LogicalSeekEnds(e)
    BY <1>2, <1>10 DEF DriveSteps
  <2> HIDE DEF e
  <2> QED BY <1>3, <1>6, <1>10, <2>1, LogicalSeekStreams
<1>11. CASE cd.DriveStatus \in {"READING", "PLAYING"}
  <2>1. cd' = HandlePlayRead(e, due)
    BY <1>2, <1>11 DEF DriveSteps
  <2> HIDE DEF e
  <2>2. ReadOn(e, cd')
    BY <1>3, <1>4, <1>11, <2>1, ReadsOn DEF Reading
  <2>3. CASE cd.DriveStatus = "READING"
    BY <1>2, <1>3, <2>2, <2>3, ReadStreams
  <2>4. CASE cd.DriveStatus = "PLAYING"
    <3>1. Underway(cd')
      BY <1>4, <1>7, <2>2, <2>4 DEF ReadOn, Underway
    <3> QED BY <1>5, <1>6, <2>4, <3>1, EndsStream
  <2> QED BY <1>11, <2>3, <2>4
<1>12. CASE cd.DriveStatus \notin {"RESETTING", "SEEKING", "SEEKING_LOGICAL", "READING", "PLAYING"}
  <2>1. cd' = e
    BY <1>2, <1>12 DEF DriveSteps
  <2> HIDE DEF e
  <2> QED BY <1>3, <1>6, <1>12, <2>1, HeldStreams DEF Seen
<1> QED BY <1>8, <1>9, <1>10, <1>11, <1>12

------------------------------------------------------------------------------
(* What a command does to a read.                                           *)

ReadNames == {"ReadN", "ReadS"}
EndNames == {"Play", "SeekL", "SeekP", "Stop", "Standby", "Reset", "ReadTOC"}

\* It leaves the drive alone.
Leaves(c, name, g) == Held(c, g) /\ (g.IRQ = ACKNOWLEDGE => name \notin ReadNames)

\* It ends whatever was read.
Ends(c, name, g) ==
  /\ name \in EndNames /\ g.IRQ = ACKNOWLEDGE /\ g.CommandLoc = c.CommandLoc
  /\ g.DriveStatus # "READING" /\ (g.DriveStatus = "SEEKING_LOGICAL" => g.StatusAfterSeek # "READING")

\* It goes back over the sectors in the pipe, and more of those that left it.
GoesBack(c, name, g) ==
  /\ name = "Pause" /\ c.DriveStatus # "PAUSED" /\ g.DriveStatus = "PAUSED"
  /\ g.CommandLoc = c.CommandLoc /\ g.disc = c.disc /\ g.DiscStartupDelay = c.DiscStartupDelay
  /\ g.CurSector = c.CurSector - c.SectorsRead

\* It sets the position for the next read.
Locates(c, name, g) ==
  /\ name = "Setloc" /\ g.disc = c.disc /\ g.DiscStartupDelay = c.DiscStartupDelay
  /\ g.DriveStatus = c.DriveStatus /\ g.StatusAfterSeek = c.StatusAfterSeek
  /\ g.CurSector = c.CurSector /\ g.SeekTarget = c.SeekTarget
  /\ g.CommandLoc \in Int /\ g.SectorPipe = c.SectorPipe /\ g.SectorsRead = c.SectorsRead

\* A read that begins seeks first.
Begins(c, name, g) ==
  /\ name \in ReadNames /\ g.IRQ = ACKNOWLEDGE /\ Present(c) /\ Present(g)
  /\ ~SeeksIt(c) /\ (c.Dirty \/ c.DriveStatus # "READING")
  /\ g.DriveStatus = "SEEKING_LOGICAL" /\ g.StatusAfterSeek = "READING" /\ g.CommandLoc = c.CommandLoc
  /\ g.CurSector = Wanted(c) /\ g.SeekTarget = Wanted(c) /\ g.SectorPipe = <<>> /\ g.SectorsRead = 0

\* One that is on its way, or there, goes on.
GoesOn(c, name, g) ==
  /\ name \in ReadNames /\ g.IRQ = ACKNOWLEDGE /\ Present(c) /\ Present(g)
  /\ SeeksIt(c) \/ (~c.Dirty /\ c.DriveStatus = "READING")
  /\ g.DriveStatus = c.DriveStatus /\ g.StatusAfterSeek = c.StatusAfterSeek /\ g.CommandLoc = c.CommandLoc
  /\ g.CurSector = c.CurSector /\ g.SeekTarget = c.SeekTarget
  /\ g.SectorPipe = c.SectorPipe /\ g.SectorsRead = c.SectorsRead

Obeys(c, name, g) ==
  /\ Shape(g)
  /\ \/ Leaves(c, name, g) \/ Ends(c, name, g) \/ GoesBack(c, name, g)
     \/ Locates(c, name, g) \/ Begins(c, name, g) \/ GoesOn(c, name, g)

\* What becomes of the expectations when cd obeys.
Follows(name) == stream' = IF cd'.IRQ = ACKNOWLEDGE THEN StreamAfter(name) ELSE stream

LEMMA OtherFollows ==
  ASSUME NEW name, name \notin ReadNames
  PROVE  /\ name \in EndNames => StreamAfter(name) = {}
         /\ name \notin EndNames => StreamAfter(name) = stream
  BY DEF StreamAfter, ReadNames, EndNames

LEMMA LeavesStreams ==
  ASSUME StreamInv, NEW name, Leaves(cd, name, cd'), Follows(name) PROVE StreamInv' /\ Ordered
<1>1. CASE stream' = stream
  BY <1>1, HeldStreams DEF Leaves
<1>2. CASE stream' # stream
  <2>1. stream' = {}
    BY <1>2, OtherFollows DEF Leaves, Follows
  <2>2. Underway(cd') /\ cd'.SectorPipe = cd.SectorPipe
    BY HeldExpects DEF Leaves, Held, StreamInv
  <2> QED BY <2>1, <2>2, EndsStream
<1> QED BY <1>1, <1>2

LEMMA EndsStreams ==
  ASSUME StreamInv, NEW name, Ends(cd, name, cd'), Follows(name) PROVE StreamInv' /\ Ordered
<1>1. stream' = {}
  BY OtherFollows DEF Ends, Follows, EndNames, ReadNames
<1>2. Underway(cd')
  BY DEF Ends, Underway, StreamInv
<1> QED BY <1>1, <1>2, EndsStream DEF Ends

LEMMA GoesBackStreams ==
  ASSUME StreamInv, NEW name, GoesBack(cd, name, cd'), Follows(name) PROVE StreamInv' /\ Ordered
<1>1. stream' = stream
  BY OtherFollows DEF GoesBack, Follows, EndNames, ReadNames
<1>2. Underway(cd') /\ (Present(cd) => Present(cd'))
  BY DEF GoesBack, Underway, StreamInv, Present
<1>3. ASSUME NEW g \in stream PROVE Expected(cd', g)
  <2>1. Expected(cd, g) /\ g.next \in Int /\ g.slack \in {0, 2} /\ g \in [next : Int, slack : {0, Pipe_Count}]
    BY <1>3 DEF StreamInv, Expected, Pipe_Count
  <2>2. cd'.CurSector \in (g.next - 2)..g.next
    <3> DEFINE n == cd.CurSector
               r == cd.SectorsRead
               x == g.next
               s == g.slack
    <3>1. cd'.CurSector = n - r /\ cd.DriveStatus \in {"SEEKING_LOGICAL", "READING", "STANDBY"} /\ x \in Int /\ s \in {0, 2}
      BY <2>1 DEF GoesBack, Expected
    <3>2. CASE cd.DriveStatus = "SEEKING_LOGICAL"
      <4>1. n \in (x - s)..x /\ r = 0
        BY <2>1, <3>2 DEF Expected, Back, StreamInv, Underway
      <4> HIDE DEF n, r, x, s
      <4> QED BY <3>1, <4>1 DEF x
    <3>3. CASE cd.DriveStatus = "STANDBY"
      <4>1. n \in (x - s)..x /\ r = 0
        BY <2>1, <3>3 DEF Expected, Back
      <4> HIDE DEF n, r, x, s
      <4> QED BY <3>1, <4>1 DEF x
    <3>4. CASE cd.DriveStatus = "READING"
      <4> DEFINE b == IF r < 2 THEN r ELSE 2
      <4>1. n \in Int /\ r \in 0..4 /\ n - b \in (x - s)..x /\ (r > 2 => s = 0)
        BY <2>1, <3>4 DEF Expected, Back, Piped, Behind, Pipe_Count, PauseBack
      <4> HIDE DEF n, r, x, s
      <4>2. n - r \in (x - 2)..x
        BY <3>1, <4>1
      <4> QED BY <3>1, <4>2 DEF x
    <3> QED BY <3>1, <3>2, <3>3, <3>4
  <2> QED BY <2>1, <2>2 DEF GoesBack, Expected, Back, Pipe_Count
<1> QED BY <1>1, <1>2, <1>3 DEF StreamInv, Ordered, GoesBack

LEMMA LocatesStreams ==
  ASSUME StreamInv, NEW name, Locates(cd, name, cd'), Follows(name) PROVE StreamInv' /\ Ordered
<1>1. stream' = stream
  BY OtherFollows DEF Locates, Follows, EndNames, ReadNames
<1>2. Underway(cd') /\ (Present(cd) => Present(cd'))
  BY DEF Locates, Underway, StreamInv, Present
<1>3. \A g : Expected(cd, g) => Expected(cd', g)
  BY DEF Locates, Expected, Piped, Behind
<1> QED BY <1>1, <1>2, <1>3 DEF StreamInv, Ordered, Locates

LEMMA ReadFollows ==
  ASSUME NEW name \in ReadNames, cd'.IRQ = ACKNOWLEDGE, Follows(name)
  PROVE  stream' = IF cd.Dirty THEN {[next |-> cd.CommandLoc, slack |-> 0]}
                   ELSE IF cd.DriveStatus = "PAUSED" THEN {[g EXCEPT !.slack = Pipe_Count] : g \in stream}
                   ELSE stream
  BY DEF Follows, StreamAfter, ReadNames

LEMMA BeginsStreams ==
  ASSUME StreamInv, NEW name, Begins(cd, name, cd'), Follows(name) PROVE StreamInv' /\ Ordered
<1>1. Present(cd') /\ Underway(cd') /\ cd.CommandLoc \in Int
  BY DEF Begins, Underway, StreamInv
<1>2. stream' = IF cd.Dirty THEN {[next |-> cd.CommandLoc, slack |-> 0]}
                ELSE IF cd.DriveStatus = "PAUSED" THEN {[g EXCEPT !.slack = Pipe_Count] : g \in stream}
                ELSE stream
  BY ReadFollows DEF Begins
<1>3. ASSUME NEW g, g \in [next : Int, slack : {0, Pipe_Count}], Wanted(cd) \in Back(g, g.slack)
      PROVE  Expected(cd', g)
  BY <1>3 DEF Begins, Expected
<1>4. CASE cd.Dirty
  <2> DEFINE h == [next |-> cd.CommandLoc, slack |-> 0]
  <2>1. h \in [next : Int, slack : {0, Pipe_Count}] /\ h.next = cd.CommandLoc /\ h.slack = 0
    BY <1>1
  <2>2. stream' = {h} /\ Wanted(cd) = cd.CommandLoc
    BY <1>2, <1>4 DEF Wanted
  <2> HIDE DEF h
  <2>3. Wanted(cd) \in Back(h, h.slack)
    BY <1>1, <2>1, <2>2 DEF Back
  <2> QED BY <1>1, <1>3, <2>1, <2>2, <2>3 DEF StreamInv, Ordered, Begins
<1>5. CASE ~cd.Dirty
  <2>1. Wanted(cd) = cd.CurSector
    BY <1>5 DEF Wanted
  <2>2. ASSUME NEW g \in stream
        PROVE  /\ g \in [next : Int, slack : {0, Pipe_Count}]
               /\ cd.DriveStatus # "PAUSED" => cd.CurSector \in Back(g, g.slack)
               /\ cd.DriveStatus = "PAUSED" => cd.CurSector \in Back(g, Pipe_Count)
    <3>1. Expected(cd, g) /\ cd.DriveStatus # "READING"
      BY <1>5, <2>2 DEF StreamInv, Begins
    <3>2. cd.DriveStatus = "SEEKING_LOGICAL" => cd.CurSector = cd.SeekTarget
      BY <3>1 DEF StreamInv, Underway, Expected
    <3> QED BY <3>1, <3>2 DEF Expected
  <2>3. CASE cd.DriveStatus = "PAUSED"
    <3>1. ASSUME NEW g \in stream PROVE Expected(cd', [g EXCEPT !.slack = Pipe_Count])
      <4> DEFINE h == [g EXCEPT !.slack = Pipe_Count]
      <4>1. h.next = g.next /\ h.slack = Pipe_Count /\ h \in [next : Int, slack : {0, Pipe_Count}]
        BY <2>2
      <4> HIDE DEF h
      <4>2. cd.CurSector \in Back(h, h.slack)
        BY <2>2, <2>3, <4>1 DEF Back
      <4>3. Expected(cd', h)
        BY <1>3, <2>1, <4>1, <4>2
      <4> QED BY <4>3 DEF h
    <3>2. stream' = {[g EXCEPT !.slack = Pipe_Count] : g \in stream}
      BY <1>2, <1>5, <2>3
    <3> QED BY <1>1, <2>3, <3>1, <3>2 DEF StreamInv, Ordered
  <2>4. CASE cd.DriveStatus # "PAUSED"
    <3>1. stream' = stream
      BY <1>2, <1>5, <2>4
    <3>2. \A g \in stream : Expected(cd', g)
      BY <1>3, <2>1, <2>2, <2>4
    <3> QED BY <1>1, <1>5, <3>1, <3>2 DEF StreamInv, Ordered, Begins
  <2> QED BY <2>3, <2>4
<1> QED BY <1>4, <1>5

LEMMA GoesOnStreams ==
  ASSUME StreamInv, NEW name, GoesOn(cd, name, cd'), Follows(name) PROVE StreamInv' /\ Ordered
<1>1. Present(cd') /\ Underway(cd') /\ cd.CommandLoc \in Int /\ cd'.SectorPipe = cd.SectorPipe
  BY DEF GoesOn, Underway, StreamInv
<1>2. stream' = IF cd.Dirty THEN {[next |-> cd.CommandLoc, slack |-> 0]}
                ELSE IF cd.DriveStatus = "PAUSED" THEN {[g EXCEPT !.slack = Pipe_Count] : g \in stream}
                ELSE stream
  BY ReadFollows DEF GoesOn
<1>3. cd.DriveStatus # "PAUSED"
  BY DEF GoesOn, SeeksIt
<1>4. CASE cd.Dirty
  <2> DEFINE h == [next |-> cd.CommandLoc, slack |-> 0]
  <2>1. h \in [next : Int, slack : {0, Pipe_Count}] /\ h.next = cd.CommandLoc /\ h.slack = 0
    BY <1>1
  <2>2. stream' = {h} /\ SeeksIt(cd)
    BY <1>2, <1>4 DEF GoesOn
  <2> HIDE DEF h
  <2>3. cd'.SeekTarget \in Back(h, h.slack)
    BY <1>1, <2>1, <2>2 DEF Back, SeeksIt, GoesOn
  <2>4. Expected(cd', h)
    BY <2>1, <2>2, <2>3 DEF Expected, SeeksIt, GoesOn
  <2> QED BY <1>1, <2>2, <2>4 DEF StreamInv, Ordered
<1>5. CASE ~cd.Dirty
  <2>1. stream' = stream
    BY <1>2, <1>3, <1>5
  <2>2. \A g : Expected(cd, g) => Expected(cd', g)
    BY DEF GoesOn, Expected, Piped, Behind
  <2> QED BY <1>1, <2>1, <2>2 DEF StreamInv, Ordered
<1> QED BY <1>4, <1>5

LEMMA ObeysStreams ==
  ASSUME StreamInv, NEW name, Obeys(cd, name, cd'), Follows(name) PROVE StreamInv' /\ Ordered
  BY LeavesStreams, EndsStreams, GoesBackStreams, LocatesStreams, BeginsStreams, GoesOnStreams DEF Obeys

LEMMA ObeysFrom ==
  ASSUME NEW b, NEW c, Held(b, c), NEW name, NEW g, Obeys(c, name, g) PROVE Obeys(b, name, g)
<1>1. Leaves(c, name, g) => Leaves(b, name, g)
  BY HeldTransitive DEF Leaves
<1>2. Ends(c, name, g) => Ends(b, name, g)
  BY DEF Held, Ends
<1>3. GoesBack(c, name, g) => GoesBack(b, name, g)
  BY DEF Held, GoesBack
<1>4. Locates(c, name, g) => Locates(b, name, g)
  BY DEF Held, Locates
<1>5. Begins(c, name, g) => Begins(b, name, g)
  BY DEF Held, Begins, Present, SeeksIt, Wanted
<1>6. GoesOn(c, name, g) => GoesOn(b, name, g)
  BY DEF Held, GoesOn, Present, SeeksIt
<1> QED BY <1>1, <1>2, <1>3, <1>4, <1>5, <1>6 DEF Obeys

\* ... and what is done to the result beside the drive.
LEMMA ObeysTo ==
  ASSUME NEW c, NEW g, NEW h, Held(g, h), h.IRQ = g.IRQ, NEW name, Obeys(c, name, g) PROVE Obeys(c, name, h)
<1>1. Leaves(c, name, g) => Leaves(c, name, h)
  BY HeldTransitive DEF Leaves
<1>2. Ends(c, name, g) => Ends(c, name, h)
  BY DEF Held, Ends
<1>3. GoesBack(c, name, g) => GoesBack(c, name, h)
  BY DEF Held, GoesBack
<1>4. Locates(c, name, g) => Locates(c, name, h)
  BY DEF Held, Locates
<1>5. Begins(c, name, g) => Begins(c, name, h)
  BY DEF Held, Begins, Present
<1>6. GoesOn(c, name, g) => GoesOn(c, name, h)
  BY DEF Held, GoesOn, Present
<1>7. Shape(h)
  BY DEF Held
<1> QED BY <1>1, <1>2, <1>3, <1>4, <1>5, <1>6, <1>7 DEF Obeys

LEMMA LaterHeld ==
  ASSUME NEW c, Shape(c) PROVE Held(c, Later(c)) /\ Later(c).IRQ = c.IRQ
  BY DataHeld DEF Seen, Marked

\* c acknowledged, and without its sectors.
Emptied(c, g) ==
  /\ Shape(g) /\ g.disc = c.disc /\ g.DiscStartupDelay = c.DiscStartupDelay
  /\ g.CommandLoc = c.CommandLoc /\ g.IRQ = ACKNOWLEDGE
  /\ g.CurSector = c.CurSector /\ g.SectorPipe = <<>> /\ g.SectorsRead = 0

LEMMA AckEmptied ==
  ASSUME NEW c, Shape(c) PROVE Emptied(c, NoSectors(ClearAIP(Ack(c))))
<1> DEFINE a == Ack(c)
           k == ClearAIP(a)
<1>1. Held(c, a) /\ a.IRQ = ACKNOWLEDGE
  BY AckHeld DEF Seen
<1> HIDE DEF a
<1>2. Held(a, k) /\ k.IRQ = ACKNOWLEDGE
  BY <1>1, DataHeld DEF Seen, Held, Marked
<1> HIDE DEF k
<1>3. Held(c, k)
  BY <1>1, <1>2, HeldTransitive
<1>4. Emptied(c, NoSectors(k))
  BY <1>2, <1>3, EmptiedMarked DEF Held, Marked, Emptied
<1> QED BY <1>4 DEF k, a

LEMMA AcksObey ==
  ASSUME NEW c, Shape(c), NEW name
  PROVE  /\ name \notin ReadNames => Obeys(c, name, Ack(c)) /\ Obeys(c, name, Later(Ack(c)))
         /\ Obeys(c, name, Error(c))
<1>1. Held(c, Ack(c)) /\ Held(c, Error(c)) /\ Error(c).IRQ # ACKNOWLEDGE
  BY AckHeld DEF Seen, ACKNOWLEDGE, DISC_ERROR
<1>2. Held(c, Later(Ack(c)))
  BY <1>1, LaterHeld, HeldTransitive DEF Held
<1> QED BY <1>1, <1>2 DEF Obeys, Leaves, Held

LEMMA HaltsObey ==
  ASSUME NEW c, Shape(c)
  PROVE  /\ Obeys(c, "Stop", Command_Stop(c)) /\ Obeys(c, "Standby", Command_Standby(c))
         /\ Obeys(c, "Pause", Command_Pause(c))
<1> DEFINE n == NoSectors(ClearAIP(Ack(c)))
           stop == [n EXCEPT !.DriveStatus = "STOPPED", !.HeaderBufValid = FALSE]
           stand == [n EXCEPT !.DriveStatus = "STANDBY"]
           pause == [n EXCEPT !.DriveStatus = "PAUSED", !.CurSector = @ - c.SectorsRead]
<1>1. /\ Command_Stop(c) \in {Later(Ack(c)), Later(stop)}
      /\ Command_Standby(c) \in {Error(c), Later(stand)}
      /\ Command_Pause(c) = IF c.DriveStatus \in {"PAUSED", "STOPPED"} THEN Later(Ack(c)) ELSE Later(pause)
  BY DEF Command_Stop, Command_Standby, Command_Pause
<1>2. Emptied(c, n)
  BY AckEmptied
<1> HIDE DEF n
<1>3. {"Stop", "Standby", "Pause"} \cap ReadNames = {} /\ {"Stop", "Standby"} \subseteq EndNames
  BY DEF ReadNames, EndNames
<1>4. Obeys(c, "Stop", Later(stop))
  <2>1. Shape(stop) /\ stop.DriveStatus = "STOPPED" /\ stop.CommandLoc = c.CommandLoc /\ stop.IRQ = ACKNOWLEDGE
    BY <1>2, FieldNames DEF Emptied, Shape
  <2> HIDE DEF stop
  <2>2. Obeys(c, "Stop", stop)
    BY <1>3, <2>1 DEF Obeys, Ends
  <2> QED BY <2>1, <2>2, LaterHeld, ObeysTo
<1>5. Obeys(c, "Standby", Later(stand))
  <2>1. Shape(stand) /\ stand.DriveStatus = "STANDBY" /\ stand.CommandLoc = c.CommandLoc /\ stand.IRQ = ACKNOWLEDGE
    BY <1>2, FieldNames DEF Emptied, Shape
  <2> HIDE DEF stand
  <2>2. Obeys(c, "Standby", stand)
    BY <1>3, <2>1 DEF Obeys, Ends
  <2> QED BY <2>1, <2>2, LaterHeld, ObeysTo
<1>6. c.DriveStatus \notin {"PAUSED", "STOPPED"} => Obeys(c, "Pause", Later(pause))
  <2>1. /\ Shape(pause) /\ pause.DriveStatus = "PAUSED" /\ pause.CommandLoc = c.CommandLoc
        /\ pause.disc = c.disc /\ pause.DiscStartupDelay = c.DiscStartupDelay
        /\ pause.CurSector = c.CurSector - c.SectorsRead
    BY <1>2, FieldNames DEF Emptied, Shape
  <2> HIDE DEF pause
  <2>2. c.DriveStatus \notin {"PAUSED", "STOPPED"} => Obeys(c, "Pause", pause)
    BY <2>1 DEF Obeys, GoesBack
  <2> QED BY <2>1, <2>2, LaterHeld, ObeysTo
<1> HIDE DEF stop, stand, pause
<1> QED BY <1>1, <1>3, <1>4, <1>5, <1>6, AcksObey

LEMMA PlayObeys ==
  ASSUME NEW c, Shape(c), NEW args PROVE Obeys(c, "Play", Command_Play(c, args))
<1> DEFINE k == Ack(ClearAIP(c))
           a == [k EXCEPT !.Forward = FALSE, !.Backward = FALSE]
           byTrack == args # <<>> /\ args[1] # 0
           n == NoSectors(a)
           t == Clamped(args[1])
           mt == [n EXCEPT !.PlayTrackMatch = t]
           mn == [n EXCEPT !.PlayTrackMatch = NoMatch]
           st == Seek(mt, Start[t], "SEEKING", "PLAYING")
           sn == Seek(mn, Wanted(c), "SEEKING", "PLAYING")
           b == IF byTrack THEN st ELSE IF c.Dirty \/ c.DriveStatus # "PLAYING" THEN sn ELSE a
           Fits(g) == /\ Shape(g) /\ g.IRQ = ACKNOWLEDGE /\ g.CommandLoc = c.CommandLoc
                      /\ g.DriveStatus \in {"SEEKING", "PLAYING"}
<1>1. Command_Play(c, args) = [b EXCEPT !.Dirty = FALSE]
  BY DEF Command_Play
<1>2. Held(c, k) /\ k.IRQ = ACKNOWLEDGE
  <2> DEFINE d == ClearAIP(c)
  <2>1. Held(c, d)
    BY DataHeld DEF Seen
  <2> HIDE DEF d
  <2>2. Held(d, Ack(d)) /\ Ack(d).IRQ = ACKNOWLEDGE
    BY <2>1, AckHeld DEF Seen, Held
  <2>3. Held(c, Ack(d))
    BY <2>1, <2>2, HeldTransitive
  <2> QED BY <2>2, <2>3 DEF d
<1> HIDE DEF k
<1>3. Shape(a) /\ a.IRQ = ACKNOWLEDGE /\ a.CommandLoc = c.CommandLoc /\ a.DriveStatus = c.DriveStatus
  BY <1>2, FieldNames DEF Held, Shape
<1> HIDE DEF a
<1>4. Shape(n) /\ n.IRQ = ACKNOWLEDGE /\ n.CommandLoc = c.CommandLoc
  BY <1>3, EmptiedMarked DEF Marked
<1> HIDE DEF n, t
<1>5. /\ Shape(mt) /\ mt.IRQ = ACKNOWLEDGE /\ mt.CommandLoc = c.CommandLoc
      /\ Shape(mn) /\ mn.IRQ = ACKNOWLEDGE /\ mn.CommandLoc = c.CommandLoc
  BY <1>4, FieldNames DEF Shape
<1> HIDE DEF mt, mn
<1>6. Fits(st) /\ Fits(sn)
  BY <1>5, SeekGoes DEF Marked
<1> HIDE DEF st, sn, byTrack
<1>7. Fits(b)
  BY <1>3, <1>6
<1> HIDE DEF b
<1>8. Fits([b EXCEPT !.Dirty = FALSE])
  BY <1>7, FieldNames DEF Shape
<1>9. "Play" \in EndNames
  BY DEF EndNames
<1> QED BY <1>1, <1>8, <1>9 DEF Obeys, Ends

LEMMA ReadObeys ==
  ASSUME NEW c, Shape(c), Present(c), NEW name \in ReadNames PROVE Obeys(c, name, ReadBase(c))
<1> DEFINE a == Ack(c)
           n == NoSectors(ClearAIP(a))
           s == Seek(n, Wanted(c), "SEEKING_LOGICAL", "READING")
           seeks == ~SeeksIt(c) /\ (c.Dirty \/ c.DriveStatus # "READING")
           b == IF seeks THEN s ELSE a
           g == [b EXCEPT !.Dirty = FALSE]
<1>1. ReadBase(c) = IF IsPSXDisc(c) THEN g ELSE Error(c)
  BY DEF ReadBase
<1>2. Held(c, a) /\ a.IRQ = ACKNOWLEDGE
  BY AckHeld DEF Seen
<1>3. Emptied(c, n)
  BY AckEmptied
<1> HIDE DEF a, n
<1>4. /\ Marked(n, s) /\ s.DriveStatus = "SEEKING_LOGICAL" /\ s.StatusAfterSeek = "READING"
      /\ s.CurSector = Wanted(c) /\ s.SeekTarget = Wanted(c) /\ s.SectorPipe = <<>> /\ s.SectorsRead = 0
  BY <1>3, SeekGoes DEF Emptied
<1> HIDE DEF s
<1>5. CASE seeks
  <2>1. b = s
    BY <1>5
  <2> HIDE DEF b
  <2>2. /\ Shape(g) /\ g.disc = s.disc /\ g.DiscStartupDelay = s.DiscStartupDelay
        /\ g.CommandLoc = s.CommandLoc /\ g.IRQ = s.IRQ
        /\ g.DriveStatus = "SEEKING_LOGICAL" /\ g.StatusAfterSeek = "READING"
        /\ g.CurSector = Wanted(c) /\ g.SeekTarget = Wanted(c) /\ g.SectorPipe = <<>> /\ g.SectorsRead = 0
    BY <1>4, <2>1, FieldNames DEF Marked, Shape
  <2> HIDE DEF g
  <2>3. Begins(c, name, g)
    BY <1>3, <1>4, <1>5, <2>2 DEF Begins, Emptied, Marked, Present
  <2> QED BY <1>1, <2>2, <2>3, AcksObey DEF Obeys
<1>6. CASE ~seeks
  <2>1. b = a
    BY <1>6
  <2> HIDE DEF b
  <2>2. /\ Shape(g) /\ g.disc = a.disc /\ g.DiscStartupDelay = a.DiscStartupDelay
        /\ g.CommandLoc = a.CommandLoc /\ g.IRQ = a.IRQ
        /\ g.DriveStatus = a.DriveStatus /\ g.StatusAfterSeek = a.StatusAfterSeek
        /\ g.CurSector = a.CurSector /\ g.SeekTarget = a.SeekTarget
        /\ g.SectorPipe = a.SectorPipe /\ g.SectorsRead = a.SectorsRead
    BY <1>2, <2>1, FieldNames DEF Held, Shape
  <2> HIDE DEF g
  <2>3. c.DriveStatus # "READING" \/ ~c.Dirty \/ SeeksIt(c)
    BY <1>6
  <2>4. GoesOn(c, name, g)
    BY <1>2, <1>6, <2>2, <2>3 DEF GoesOn, Held, Present
  <2> QED BY <1>1, <2>2, <2>4, AcksObey DEF Obeys
<1> QED BY <1>5, <1>6

LEMMA ResetObeys == ASSUME NEW c, Shape(c) PROVE Obeys(c, "Reset", Command_Reset(c))
<1> DEFINE a == Ack(c)
           g == [a EXCEPT !.HeaderBufValid = FALSE, !.DriveStatus = "RESETTING", !.PSR = TRUE]
<1>1. Command_Reset(c) \in {a, g}
  BY DEF Command_Reset
<1>2. Held(c, a) /\ a.IRQ = ACKNOWLEDGE /\ Obeys(c, "Reset", a)
  BY AckHeld, AcksObey DEF Seen, ReadNames
<1> HIDE DEF a
<1>3. Shape(g) /\ g.DriveStatus = "RESETTING" /\ g.IRQ = ACKNOWLEDGE /\ g.CommandLoc = c.CommandLoc
  BY <1>2, FieldNames DEF Held, Shape
<1> HIDE DEF g
<1>4. Obeys(c, "Reset", g)
  BY <1>3 DEF Obeys, Ends, EndNames
<1> QED BY <1>1, <1>2, <1>4

LEMMA SeekObeys ==
  ASSUME NEW c, Shape(c), NEW name \in {"SeekL", "SeekP"}, NEW how \in {"SEEKING", "SEEKING_LOGICAL"}
  PROVE  Obeys(c, name, Command_Seek(c, how))
<1> DEFINE a == Ack(c)
           target == c.CommandLoc
           k == Seek(a, target, how, "STANDBY")
           z == ClearAIP(k)
<1>1. Command_Seek(c, how) = Later(z)
  BY DEF Command_Seek
<1>2. Held(c, a) /\ a.IRQ = ACKNOWLEDGE
  BY AckHeld DEF Seen
<1> HIDE DEF a, target
<1>3. /\ Shape(k) /\ k.IRQ = ACKNOWLEDGE /\ k.CommandLoc = c.CommandLoc
      /\ k.DriveStatus = how /\ k.StatusAfterSeek = "STANDBY"
  BY <1>2, SeekGoes DEF Held, Marked
<1> HIDE DEF k
<1>4. Held(k, z) /\ z.IRQ = k.IRQ
  BY <1>3, DataHeld DEF Seen, Marked
<1> HIDE DEF z
<1>5. Obeys(c, name, z)
  BY <1>3, <1>4 DEF Obeys, Ends, EndNames, Held
<1> QED BY <1>1, <1>4, <1>5, LaterHeld, ObeysTo DEF Held

LEMMA ReadTOCObeys == ASSUME NEW c, Shape(c) PROVE Obeys(c, "ReadTOC", Command_ReadTOC(c))
<1> DEFINE d == [c EXCEPT !.HeaderBufValid = FALSE]
           a == Ack(d)
           p == [a EXCEPT !.DriveStatus = "PAUSED"]
           z == ClearAIP(p)
<1>1. Command_ReadTOC(c) \in {Later(z), Later(Error(a))}
  BY DEF Command_ReadTOC
<1>2. Held(c, d)
  BY FieldNames DEF Held, Shape
<1> HIDE DEF d
<1>3. Held(d, a) /\ a.IRQ = ACKNOWLEDGE
  BY <1>2, AckHeld DEF Held, Seen
<1> HIDE DEF a
<1>4. Held(c, a)
  BY <1>2, <1>3, HeldTransitive
<1>5. Obeys(c, "ReadTOC", Later(Error(a)))
  <2>1. Held(a, Error(a))
    BY <1>4, AckHeld DEF Held, Seen
  <2>2. Held(c, Error(a))
    BY <1>4, <2>1, HeldTransitive
  <2>3. Held(c, Later(Error(a)))
    BY <2>2, LaterHeld, HeldTransitive DEF Held
  <2> QED BY <2>3 DEF Obeys, Leaves, ReadNames, Held
<1>6. Shape(p) /\ p.DriveStatus = "PAUSED" /\ p.CommandLoc = c.CommandLoc /\ p.IRQ = ACKNOWLEDGE
  BY <1>3, <1>4, FieldNames DEF Held, Shape
<1> HIDE DEF p
<1>7. Held(p, z) /\ z.IRQ = p.IRQ
  BY <1>6, DataHeld DEF Seen, Marked
<1> HIDE DEF z
<1>8. Obeys(c, "ReadTOC", z)
  BY <1>6, <1>7 DEF Obeys, Ends, EndNames, Held
<1>9. Obeys(c, "ReadTOC", Later(z))
  BY <1>7, <1>8, LaterHeld, ObeysTo DEF Held
<1> QED BY <1>1, <1>5, <1>9

LEMMA SetlocObeys ==
  ASSUME NEW c, Shape(c), c.CommandLoc \in Int, NEW v PROVE Obeys(c, "Setloc", Command_Setloc(c, v))
<1> DEFINE loc == LocOf[v]
           d == [c EXCEPT !.CommandLoc = loc, !.Dirty = TRUE]
<1>1. Command_Setloc(c, v) = IF v \in DOMAIN LocOf THEN Ack(d) ELSE Error(c)
  BY DEF Command_Setloc
<1>2. v \in DOMAIN LocOf => loc \in Int
  BY CDCAssumption
<1> HIDE DEF loc
<1>3. /\ Shape(d) /\ d.disc = c.disc /\ d.DiscStartupDelay = c.DiscStartupDelay
      /\ d.DriveStatus = c.DriveStatus /\ d.StatusAfterSeek = c.StatusAfterSeek
      /\ d.CurSector = c.CurSector /\ d.SeekTarget = c.SeekTarget
      /\ d.CommandLoc = loc /\ d.SectorPipe = c.SectorPipe /\ d.SectorsRead = c.SectorsRead
  BY FieldNames DEF Shape
<1> HIDE DEF d
<1>4. Held(d, Ack(d))
  BY <1>3, AckHeld DEF Seen
<1>5. v \in DOMAIN LocOf => Obeys(c, "Setloc", Ack(d))
  BY <1>2, <1>3, <1>4 DEF Held, Obeys, Locates
<1> QED BY <1>1, <1>5, AcksObey

LEMMA PerformObeys ==
  ASSUME NEW c, Shape(c), c.CommandLoc \in Int, NEW name, name \in NeedDisc => Present(c), NEW args
  PROVE  Obeys(c, name, Perform(c, name, args))
<1> DEFINE p == Perform(c, name, args)
<1>1. /\ name \notin ReadNames => Obeys(c, name, Ack(c)) /\ Obeys(c, name, Later(Ack(c)))
      /\ Obeys(c, name, Error(c))
  BY AcksObey
<1>2. ASSUME name \notin ReadNames, NEW g, Held(c, g) PROVE Obeys(c, name, g)
  BY <1>2 DEF Obeys, Leaves, Held
<1>3. CASE name = "Setloc"
  BY <1>3, SetlocObeys DEF Perform
<1>4. CASE name = "Play"
  BY <1>4, PlayObeys DEF Perform
<1>5. CASE name \in {"Forward", "Backward"}
  <2> DEFINE a == Ack(c)
             f == [a EXCEPT !.Backward = FALSE, !.Forward = TRUE]
             b == [a EXCEPT !.Backward = TRUE, !.Forward = FALSE]
  <2>1. p \in {f, b}
    BY <1>5 DEF Perform
  <2>2. Held(c, a)
    BY AckHeld DEF Seen
  <2> HIDE DEF a, p
  <2>3. Held(a, f) /\ Held(a, b)
    BY <2>2, FieldNames DEF Shape, Held
  <2> HIDE DEF f, b
  <2>4. Held(c, f) /\ Held(c, b)
    BY <2>2, <2>3, HeldTransitive
  <2>5. Held(c, p)
    BY <2>1, <2>4
  <2> QED BY <1>2, <1>5, <2>5 DEF ReadNames, p
<1>6. CASE name \in ReadNames
  BY <1>6, ReadObeys DEF Perform, ReadNames, NeedDisc
<1>7. CASE name \in {"Standby", "Stop", "Pause"}
  BY <1>7, HaltsObey DEF Perform
<1>8. CASE name = "Reset"
  BY <1>8, ResetObeys DEF Perform
<1>9. CASE name = "Setmode"
  <2> DEFINE m == [c EXCEPT !.Mode = ModeOf[args[1]]]
  <2>1. p = Ack(m)
    BY <1>9 DEF Perform
  <2>2. Held(c, m)
    BY FieldNames DEF Shape, Held
  <2> HIDE DEF m, p
  <2>3. Held(m, Ack(m))
    BY <2>2, AckHeld DEF Held, Seen
  <2>4. Held(c, p)
    BY <2>1, <2>2, <2>3, HeldTransitive
  <2> QED BY <1>2, <1>9, <2>4 DEF ReadNames, p
<1>10. CASE name \in {"GetlocL", "GetTD", "Test", "Init"}
  <2>1. p \in {c, Ack(c), Error(c)}
    BY <1>10 DEF Perform, Command_GetTD, Command_Test
  <2>2. Held(c, c)
    BY DEF Held
  <2> QED BY <1>1, <1>2, <1>10, <2>1, <2>2 DEF ReadNames
<1>11. CASE name \in {"SeekL", "SeekP"}
  BY <1>11, SeekObeys DEF Perform
<1>12. CASE name = "ReadTOC"
  BY <1>12, ReadTOCObeys DEF Perform
<1>13. CASE name \in {"ID", "ReadT"}
  BY <1>1, <1>13 DEF Perform, ReadNames
<1>14. CASE name \notin {"Setloc", "Play", "Forward", "Backward", "ReadN", "ReadS", "Standby", "Stop", "Pause",
                         "Reset", "Setmode", "GetlocL", "GetTD", "SeekL", "SeekP", "Test", "ID", "ReadT", "Init", "ReadTOC"}
  BY <1>1, <1>14 DEF Perform, ReadNames
<1> QED BY <1>3, <1>4, <1>5, <1>6, <1>7, <1>8, <1>9, <1>10, <1>11, <1>12, <1>13, <1>14 DEF ReadNames

LEMMA ExecuteObeys ==
  ASSUME NEW c, Shape(c), c.CommandLoc \in Int PROVE Obeys(c, c.Command, Execute(c))
<1> DEFINE name == c.Command
           args == c.Received
           b == [c EXCEPT !.Received = <<>>]
           lacks == name \in NeedDisc /\ ~Present(c)
           p == IF lacks THEN Error(b) ELSE Perform(b, name, args)
           g == [p EXCEPT !.Phase = 2]
<1>1. Execute(c) \in {Error(b), g}
  BY DEF Execute
<1>2. Held(c, b)
  BY FieldNames DEF Shape, Held
<1> HIDE DEF b, args, name
<1>3. Shape(b) /\ b.CommandLoc \in Int /\ (Present(b) <=> Present(c))
  BY <1>2 DEF Held, Present
<1>4. Obeys(b, name, Error(b))
  BY <1>3, AcksObey
<1>5. Obeys(b, name, p)
  <2>1. CASE lacks
    BY <1>4, <2>1
  <2>2. CASE ~lacks
    <3>1. name \in NeedDisc => Present(b)
      BY <1>3, <2>2
    <3>2. Obeys(b, name, Perform(b, name, args))
      BY <1>3, <3>1, PerformObeys
    <3> QED BY <2>2, <3>2
  <2> QED BY <2>1, <2>2
<1> HIDE DEF p
<1>6. Held(p, g) /\ g.IRQ = p.IRQ
  <2>1. Shape(p)
    BY <1>5 DEF Obeys
  <2> QED BY <2>1, FieldNames DEF Shape, Held
<1> HIDE DEF g
<1>7. Obeys(b, name, g)
  BY <1>5, <1>6, ObeysTo
<1>8. Obeys(c, name, g) /\ Obeys(c, name, Error(b))
  BY <1>2, <1>4, <1>7, ObeysFrom
<1> QED BY <1>1, <1>8 DEF name

LEMMA FinishHeld ==
  ASSUME NEW c, Shape(c) PROVE Held(c, Finish(c))
<1> DEFINE still == [c EXCEPT !.PSR = FALSE]
           bad == [c EXCEPT !.failed = TRUE]
           n == c.Command
<1>1. Held(c, still) /\ Held(c, bad)
  BY FieldNames DEF Shape, Held
<1>2. \/ \E g \in {still, c}, v \in {COMPLETE, DISC_ERROR} : Finish(c) = WriteIRQ(g, v)
      \/ Finish(c) \in {Later(c), bad}
  <2>1. CASE n \in {"Stop", "Standby", "Pause"}
    BY <2>1 DEF Finish
  <2>2. CASE n \in {"SeekL", "SeekP"}
    BY <2>2 DEF Finish
  <2>3. CASE n = "ID"
    BY <2>3 DEF Finish
  <2>4. CASE n \in {"ReadT", "ReadTOC"}
    BY <2>4 DEF Finish
  <2>5. CASE n \notin {"Stop", "Standby", "Pause", "SeekL", "SeekP", "ID", "ReadT", "ReadTOC"}
    BY <2>5 DEF Finish
  <2> QED BY <2>1, <2>2, <2>3, <2>4, <2>5
<1> HIDE DEF still, bad
<1>3. ASSUME NEW g \in {still, c}, NEW v PROVE Held(c, WriteIRQ(g, v))
  <2>1. Held(c, g)
    BY <1>1, <1>3 DEF Held
  <2>2. Held(g, WriteIRQ(g, v))
    BY <2>1, WriteHeld DEF Held, Seen
  <2> QED BY <2>1, <2>2, HeldTransitive
<1>4. Held(c, Later(c))
  BY LaterHeld
<1> QED BY <1>1, <1>2, <1>3, <1>4

LEMMA ReceiveHeld ==
  ASSUME NEW c, Shape(c) PROVE Held(c, Receive(c))
<1> DEFINE rec == IF c.Phase = 0 /\ Len(c.Received) < 32 THEN Append(c.Received, c.Latch) ELSE c.Received
           b == [c EXCEPT !.Received = rec]
           e == [b EXCEPT !.Phase = 1]
           h == Head(c.Args)
           n == [b EXCEPT !.Latch = h, !.Args = Tail(@), !.Phase = 0]
<1>1. Receive(c) \in {Later(e), Later(n)}
  BY DEF Receive
<1>2. Held(c, b)
  BY FieldNames DEF Shape, Held
<1> HIDE DEF b, h
<1>3. Held(b, e) /\ Held(b, n)
  BY <1>2, FieldNames DEF Shape, Held
<1> HIDE DEF e, n
<1>4. Held(c, e) /\ Held(c, n)
  BY <1>2, <1>3, HeldTransitive
<1>5. Held(c, Later(e)) /\ Held(c, Later(n))
  BY <1>4, LaterHeld, HeldTransitive DEF Held
<1> QED BY <1>1, <1>5

LEMMA CommandStreams ==
  ASSUME CDC_IInv, StreamInv, CommandEnds PROVE StreamInv' /\ Ordered
<1> DEFINE due == [cd EXCEPT !.Counter = FALSE]
           acknowledges == cd'.IRQ # 0 /\ ~cd.CDCReady /\ cd.Phase = 1 /\ cd'.IRQ = ACKNOWLEDGE
<1>1. Calm(cd) /\ Shape(cd) /\ cd.Phase \in -1..2
  BY DEF CDC_IInv, Sound, Calm
<1>2. cd' = CommandSteps(cd) /\ stream' = IF acknowledges THEN StreamAfter(cd.Command) ELSE stream
  BY <1>1, CheckAIPSame DEF CommandEnds
<1>3. Held(cd, due) /\ due.Command = cd.Command
  BY <1>1, FieldNames DEF Held, Shape
<1>4. cd' = IF cd.CDCReady THEN cd
            ELSE CASE cd.Phase >= 2 -> Finish(due) [] cd.Phase = 1 -> Execute(due) [] OTHER -> Receive(due)
  BY <1>2 DEF CommandSteps
<1> HIDE DEF due
<1>5. CASE cd.CDCReady
  <2>1. cd' = cd /\ stream' = stream
    BY <1>2, <1>4, <1>5
  <2>2. Held(cd, cd')
    BY <1>1, <2>1 DEF Held
  <2> QED BY <2>1, <2>2, HeldStreams
<1>6. CASE ~cd.CDCReady /\ cd.Phase # 1
  <2>1. cd' \in {Finish(due), Receive(due)} /\ stream' = stream
    <3>1. stream' = stream
      BY <1>2, <1>6
    <3>2. CASE cd.Phase = 2
      BY <1>4, <1>6, <3>1, <3>2
    <3>3. CASE cd.Phase \in {-1, 0}
      BY <1>4, <1>6, <3>1, <3>3
    <3> QED BY <1>1, <1>6, <3>2, <3>3
  <2>2. Held(due, cd')
    BY <1>3, <2>1, FinishHeld, ReceiveHeld DEF Held
  <2>3. Held(cd, cd')
    BY <1>3, <2>2, HeldTransitive
  <2> QED BY <2>1, <2>3, HeldStreams
<1>7. CASE ~cd.CDCReady /\ cd.Phase = 1
  <2>1. cd' = Execute(due)
    BY <1>4, <1>7
  <2>2. due.CommandLoc \in Int
    BY <1>3 DEF Held, StreamInv, Underway
  <2>3. Obeys(due, cd.Command, cd')
    BY <1>3, <2>1, <2>2, ExecuteObeys DEF Held
  <2>4. Obeys(cd, cd.Command, cd')
    BY <1>3, <2>3, ObeysFrom
  <2>5. Follows(cd.Command)
    BY <1>2, <1>7 DEF Follows, ACKNOWLEDGE
  <2> QED BY <2>4, <2>5, ObeysStreams
<1> QED BY <1>5, <1>6, <1>7

------------------------------------------------------------------------------
\* The steps that leave the drive alone.
LEMMA QuietStreams ==
  ASSUME CDC_IInv, StreamInv,
         (\E name \in Names : WriteCommand(name)) \/ (\E v \in Arguments : WriteArgument(v))
           \/ Acknowledge \/ ClearArguments \/ ReadyEnds
  PROVE  StreamInv' /\ Ordered
<1>1. Shape(cd)
  BY DEF CDC_IInv, Sound, Calm
<1>2. ASSUME Held(cd, cd'), stream' = stream PROVE StreamInv' /\ Ordered
  BY <1>2, HeldStreams
<1>3. ASSUME NEW name, WriteCommand(name) PROVE StreamInv' /\ Ordered
  <2>1. cd' = [cd EXCEPT !.Command = name, !.Phase = -1, !.Counter = TRUE, !.Received = <<>>] /\ stream' = stream
    BY <1>3 DEF WriteCommand, Started
  <2>2. Held(cd, cd')
    BY <1>1, <2>1, FieldNames DEF Held, Shape
  <2> QED BY <1>2, <2>1, <2>2
<1>4. CASE (\E v \in Arguments : WriteArgument(v)) \/ ClearArguments
  <2>1. /\ \/ \E v \in Arguments : cd' = [cd EXCEPT !.Args = Append(@, v)]
           \/ cd' = [cd EXCEPT !.Args = <<>>]
        /\ stream' = stream
    BY <1>4 DEF WriteArgument, ClearArguments
  <2>2. Held(cd, cd')
    BY <1>1, <2>1, FieldNames DEF Held, Shape
  <2> QED BY <1>2, <2>1, <2>2
<1>5. CASE Acknowledge
  <2>1. cd' = [cd EXCEPT !.IRQ = 0] /\ stream' = stream
    BY <1>5 DEF Acknowledge
  <2>2. Held(cd, cd')
    BY <1>1, <2>1, FieldNames DEF Held, Shape
  <2> QED BY <1>2, <2>1, <2>2
<1>6. CASE ReadyEnds
  <2> DEFINE r == [cd EXCEPT !.CDCReady = FALSE]
             irq == r.AIP
             w == WriteIRQ(r, irq)
  <2>1. cd' \in {r, ClearAIP(w)} /\ stream' = stream
    BY <1>6 DEF ReadyEnds, CheckAIP
  <2>2. Held(cd, r)
    BY <1>1, FieldNames DEF Held, Shape
  <2> HIDE DEF r, irq
  <2>3. Held(r, w)
    BY <2>2, WriteHeld DEF Held, Seen
  <2> HIDE DEF w
  <2>4. Held(w, ClearAIP(w))
    BY <2>3, DataHeld DEF Held, Seen
  <2>5. Held(cd, cd')
    BY <2>1, <2>2, <2>3, <2>4, HeldTransitive
  <2> QED BY <1>2, <2>1, <2>5
<1> QED BY <1>3, <1>4, <1>5, <1>6

\* The steps that put the drive where nothing can be expected.
LEMMA ResetLands ==
  ASSUME NEW c, Shape(c), NEW g, g = SoftReset(c) \/ g = [SoftReset(c) EXCEPT !.DiscStartupDelay = FALSE]
  PROVE  g.DriveStatus = "STOPPED" /\ g.CommandLoc = 0
<1> DEFINE i == [c EXCEPT !.Args = <<>>, !.CDCReady = FALSE, !.IRQ = 0, !.SubQ = NoQ, !.SubQChecksumOK = FALSE,
                          !.Command = "none", !.Phase = 0, !.Counter = FALSE, !.Mode = {}, !.HeaderBufValid = FALSE]
           j == [i EXCEPT !.DriveStatus = "STOPPED", !.StatusAfterSeek = "STOPPED", !.SeekRetryCounter = 0,
                          !.Forward = FALSE, !.Backward = FALSE, !.PlayTrackMatch = 0, !.PSR = FALSE,
                          !.CurSector = 0, !.SeekTarget = 0, !.CommandLoc = 0, !.Dirty = TRUE]
           k == ClearAIP(j)
           s == SoftReset(c)
           Lands(x) == Shape(x) /\ x.DriveStatus = "STOPPED" /\ x.CommandLoc = 0
<1>1. s = NoSectors(k)
  BY DEF SoftReset
<1>2. Shape(i)
  BY FieldNames, ZenonT(40) DEF Shape
<1> HIDE DEF i
<1>3. Lands(j)
  BY <1>2, FieldNames, ZenonT(40) DEF Shape
<1> HIDE DEF j
<1>4. Lands(k)
  BY <1>3, DataHeld DEF Seen, Held
<1> HIDE DEF k
<1>5. Lands(s)
  BY <1>1, <1>4, EmptiedMarked DEF Marked
<1> HIDE DEF s
<1>6. g = s \/ g = [s EXCEPT !.DiscStartupDelay = FALSE]
  BY DEF s
<1>7. Lands(g)
  BY <1>5, <1>6, FieldNames DEF Shape
<1> QED BY <1>7

LEMMA StopLands ==
  ASSUME NEW c, Shape(c) PROVE DMForceStop(c).DriveStatus = "STOPPED" /\ DMForceStop(c).CommandLoc = c.CommandLoc
<1> DEFINE stops == c.DriveStatus \notin {"PAUSED", "STOPPED"} \/ c.Phase >= 2
           h == [c EXCEPT !.PSR = FALSE, !.HeaderBufValid = FALSE, !.DriveStatus = "STOPPED",
                          !.Command = IF stops THEN "none" ELSE @, !.Phase = IF stops THEN 0 ELSE @,
                          !.Counter = @ /\ ~stops]
           k == ClearAIP(h)
<1>1. DMForceStop(c) = NoSectors(k)
  BY DEF DMForceStop
<1>2. Shape(h) /\ h.DriveStatus = "STOPPED" /\ h.CommandLoc = c.CommandLoc
  BY FieldNames DEF Shape
<1> HIDE DEF h
<1>3. Shape(k) /\ k.DriveStatus = "STOPPED" /\ k.CommandLoc = c.CommandLoc
  BY <1>2, DataHeld DEF Seen, Held
<1> HIDE DEF k
<1> QED BY <1>1, <1>3, EmptiedMarked DEF Marked

LEMMA LandsStreams ==
  ASSUME stream' = {}, cd'.DriveStatus \in {"STOPPED", "PAUSED"}, cd'.CommandLoc \in Int
  PROVE  StreamInv' /\ Ordered
<1>1. Underway(cd')
  BY DEF Underway
<1> QED BY <1>1, EndsStream

LEMMA FrontendStreams ==
  ASSUME CDC_IInv, StreamInv, ResetController \/ StartupEnds \/ Frontend PROVE StreamInv' /\ Ordered
<1>1. Shape(cd) /\ Calm(cd) /\ cd.CommandLoc \in Int
  BY DEF CDC_IInv, Sound, Calm, StreamInv, Underway
<1>2. CASE ResetController \/ Power
  <2>1. cd'.DriveStatus = "STOPPED" /\ cd'.CommandLoc = 0 /\ stream' = {}
    <3>1. cd' = SoftReset(cd) \/ cd' = [SoftReset(cd) EXCEPT !.DiscStartupDelay = FALSE]
      BY <1>2 DEF ResetController, Power
    <3> QED BY <1>1, <1>2, <3>1, ResetLands DEF ResetController, Power
  <2> QED BY <2>1, LandsStreams
<1>3. CASE StartupEnds
  <2> DEFINE g == [cd EXCEPT !.DiscStartupDelay = FALSE, !.DriveStatus = "PAUSED"]
  <2>1. cd' = CheckAIP(g) /\ stream' = stream
    BY <1>3 DEF StartupEnds
  <2>2. g.AIP = cd.AIP /\ g.CDCReady = cd.CDCReady /\ g.DriveStatus = "PAUSED" /\ g.CommandLoc = cd.CommandLoc
    BY <1>1, FieldNames DEF Shape
  <2> HIDE DEF g
  <2>3. cd' = g
    BY <1>1, <2>1, <2>2 DEF CheckAIP, Calm
  <2>4. stream' = {}
    BY <1>3, <2>1 DEF StartupEnds, StreamInv, Present
  <2> QED BY <1>1, <2>2, <2>3, <2>4, LandsStreams
<1>4. ASSUME NEW disc, cd' = DMForceStop([cd EXCEPT !.disc = disc]), stream' = {} PROVE StreamInv' /\ Ordered
  <2> DEFINE c == [cd EXCEPT !.disc = disc]
  <2>1. Shape(c) /\ c.CommandLoc = cd.CommandLoc
    BY <1>1, FieldNames DEF Shape
  <2>2. cd' = DMForceStop(c)
    BY <1>4
  <2> HIDE DEF c
  <2> QED BY <1>1, <1>4, <2>1, <2>2, StopLands, LandsStreams
<1>5. CASE EjectDisc
  <2>1. cd' = DMForceStop([cd EXCEPT !.disc = {}]) /\ stream' = {}
    BY <1>5 DEF EjectDisc, SetDisc
  <2> QED BY <1>4, <2>1
<1>6. ASSUME NEW d \in CDs, Insert(d) PROVE StreamInv' /\ Ordered
  <2>1. {d} # {}
    OBVIOUS
  <2>2. cd' = [cd EXCEPT !.disc = {d}, !.HeaderBufValid = FALSE, !.DiscStartupDelay = TRUE] /\ stream' = stream
    BY <1>6, <2>1 DEF Insert, SetDisc
  <2>3. /\ cd'.CommandLoc = cd.CommandLoc /\ cd'.DriveStatus = cd.DriveStatus /\ cd'.StatusAfterSeek = cd.StatusAfterSeek
        /\ cd'.SectorPipe = cd.SectorPipe /\ cd'.SectorsRead = cd.SectorsRead /\ cd'.CurSector = cd.CurSector
        /\ cd'.SeekTarget = cd.SeekTarget
    BY <1>1, <2>2, FieldNames DEF Shape
  <2>4. Underway(cd')
    BY <2>3 DEF StreamInv, Underway
  <2>5. stream' = {}
    BY <1>6, <2>2 DEF Insert, StreamInv, Present
  <2> QED BY <2>3, <2>4, <2>5, EndsStream
<1>7. ASSUME NEW disc, LoadState(disc) PROVE StreamInv' /\ Ordered
  <2> DEFINE c == [cd EXCEPT !.disc = disc]
  <2>1. /\ disc \in {{}, cd.disc} /\ cd' = (IF disc = {} THEN DMForceStop(c) ELSE c)
        /\ stream' = IF disc = {} THEN {} ELSE stream
    BY <1>7 DEF LoadState
  <2>2. CASE disc = {}
    BY <1>4, <2>1, <2>2
  <2>3. CASE disc # {}
    <3>1. cd' = c /\ disc = cd.disc /\ stream' = stream
      BY <2>1, <2>3
    <3> HIDE DEF c
    <3>2. Held(cd, cd')
      BY <1>1, <3>1, FieldNames DEF Held, Shape, c
    <3> QED BY <3>1, <3>2, HeldStreams
  <2> QED BY <2>2, <2>3
<1> QED BY <1>2, <1>3, <1>5, <1>6, <1>7 DEF Frontend

LEMMA InitStreams == ASSUME CDC_Init PROVE StreamInv
<1>1. PICK disc \in {{}} \cup {{d} : d \in CDs} :
        cd = [SoftReset(SetDisc(SetDisc(Constructed, {}), disc)) EXCEPT !.DiscStartupDelay = FALSE]
  BY DEF CDC_Init
<1> DEFINE k == Constructed
           a == [k EXCEPT !.disc = {}]
           b == DMForceStop(a)
           s == SetDisc(b, disc)
<1>2. Shape(k)
  BY DEF Shape, Fields, Constructed
<1>3. SetDisc(k, {}) = b
  BY DEF SetDisc
<1> HIDE DEF k
<1>4. Shape(a)
  BY <1>2, FieldNames DEF Shape
<1> HIDE DEF a
<1>5. Shape(b)
  BY <1>4, ForceStopKept DEF Kept
<1> HIDE DEF b
<1>6. Shape(s)
  <2>1. CASE disc = {}
    <3> DEFINE e == [b EXCEPT !.disc = {}]
    <3>1. Shape(e)
      BY <1>5, FieldNames DEF Shape
    <3>2. s = DMForceStop(e)
      BY <2>1 DEF SetDisc
    <3> HIDE DEF e
    <3> QED BY <3>1, <3>2, ForceStopKept DEF Kept
  <2>2. CASE disc # {}
    BY <1>5, <2>2, FieldNames DEF Shape, SetDisc
  <2> QED BY <2>1, <2>2
<1>7. cd = [SoftReset(s) EXCEPT !.DiscStartupDelay = FALSE]
  BY <1>1, <1>3 DEF k
<1> HIDE DEF s
<1>8. cd.DriveStatus = "STOPPED" /\ cd.CommandLoc = 0
  BY <1>6, <1>7, ResetLands
<1>9. stream = {}
  BY DEF CDC_Init
<1> QED BY <1>8, <1>9 DEF StreamInv, Underway

LEMMA NextStreams ==
  ASSUME CDC_IInv \/ Dead, StreamInv, [CDC_Next]_cdcVars PROVE StreamInv' /\ (UNCHANGED cdcVars \/ Ordered)
<1>1. CASE UNCHANGED cdcVars
  BY <1>1 DEF cdcVars, StreamInv, Expected, Underway, Piped, Behind, Present
<1>2. CASE ~cd.failed /\ (Game \/ CDC_Update \/ Frontend)
  <2>1. CDC_IInv
    BY <1>2 DEF Dead, Fails
  <2>2. CASE Game
    BY <2>1, <2>2, QuietStreams, FrontendStreams DEF Game
  <2>3. CASE CDC_Update
    BY <2>1, <2>3, QuietStreams, FrontendStreams, DriveStreams, CommandStreams DEF CDC_Update
  <2>4. CASE Frontend
    BY <2>1, <2>4, FrontendStreams
  <2> QED BY <1>2, <2>2, <2>3, <2>4
<1> QED BY <1>1, <1>2 DEF CDC_Next, Aborted

\* What a read that was acknowledged delivers is the sectors in order and with none left out, each
\* with its notification, from the position that was set or else from where the last read was
\* paused, at most the sectors of the pipe before (cdc.cpp:1879): through further reads on the way,
\* pauses, seeks that are tried again or fail, errors, ejections and loads.
THEOREM SectorsDoComeInOrder == CDC_Spec => SectorsInOrder
<1>1. CDC_Init => StreamInv
  BY InitStreams
<1>2. (CDC_IInv \/ Dead) /\ StreamInv /\ [CDC_Next]_cdcVars => StreamInv'
  BY NextStreams
<1>3. (CDC_IInv \/ Dead) /\ StreamInv /\ [CDC_Next]_cdcVars =>
        [\A g \in stream : (cd.PSR /\ ~cd'.failed /\ cd.DriveStatus = "READING" /\ cd'.DriveStatus = "READING"
                             /\ cd'.SectorPipe # cd.SectorPipe /\ Pops(cd)) =>
           /\ Head(cd.SectorPipe) \in (g.next - g.slack)..g.next
           /\ cd'.SubQ.data /\ ~("strsnd" \in cd.Mode /\ Head(cd.SectorPipe) \in XA) =>
                cd'.HeaderBufValid /\ DATA_READY \in {cd'.AIP, cd'.IRQ}]_cdcVars
  BY NextStreams DEF Ordered
<1> QED BY <1>1, <1>2, <1>3, Invariant, PTL DEF CDC_Spec, SectorsInOrder

------------------------------------------------------------------------------
(* The CD interface and its threads.                                          *)
InRead     == emu_pc \in {"sblock", "scan", "sbwait"}
IsEject(m) == m.message = "EJECT"
IsDie(m)   == m.message = "DIEDIEDIE"
IsRead(m)  == m.message = "READ_SECTOR"

Typed ==
  /\ TypeOK
  /\ rt_pc \in {"lock", "store", "unlock"} => ra_count > 0

Control ==
  /\ SBMutex = "emu" <=> emu_pc \in {"scan", "sbunlock"}
  /\ SBMutex = "rt"  <=> rt_pc \in {"store", "unlock"}
  /\ emu_pc = "ctor" => ReadThreadQueue = <<>>
  /\ rt_pc = "start" => emu_pc = "ctor" /\ EmuThreadQueue = <<>>
  /\ rt_pc \in {"eject", "insert"} =>
       /\ emu_pc = "msgwait" /\ EmuThreadQueue = <<>> /\ ReadThreadQueue = <<>>
       /\ emu_arg = IF rt_pc = "eject" THEN 1 ELSE 0
  /\ EmuThreadQueue # <<>> =>
       Len(EmuThreadQueue) = 1 /\ emu_pc \in {"ctor", "msgwait"} /\ ReadThreadQueue = <<>>
  /\ \A i \in 1 .. Len(ReadThreadQueue) :
       /\ IsEject(ReadThreadQueue[i]) =>
            /\ emu_pc = "msgwait" /\ i = Len(ReadThreadQueue)
            /\ ReadThreadQueue[i].arg = emu_arg
       /\ IsDie(ReadThreadQueue[i]) => emu_pc \in {"join", "gone"} /\ i = Len(ReadThreadQueue)
  /\ emu_pc = "msgwait" => emu_arg \in {0, 1}

\* Slots are filled in the order they are aged: the newest sector has age 0.
AgeAt(i, p) == IF i < p THEN p - 1 - i ELSE p - 1 - i + SBSize
Age(i) == AgeAt(i, SBWritePos)
\* The sector the next RT_Store will publish.
Front == IF rt_pc = "unlock" THEN ra_lba + 1 ELSE ra_lba

Window ==
  /\ last_read_lba = NoLBA => ra_count = 0
  /\ last_read_lba # NoLBA =>
       /\ ra_lba + ra_count <= last_read_lba + max_ra + 1
       /\ \A i \in Slots : Front - 1 - Age(i) >= last_read_lba =>
            SectorBuffers[i].valid /\ SectorBuffers[i].lba = Front - 1 - Age(i)
       /\ ra_lba <= last_read_lba =>
            \/ rt_pc \in {"check", "lock", "store", "unlock"}
               /\ ra_lba = last_read_lba /\ ra_count > 0
            \/ ra_lba = disc_toc.end /\ rt_pc \in {"fetch", "eject", "insert", "check", "done"}
               /\ (rt_pc # "check" => ra_count = 0)
  /\ rt_pc \in {"lock", "store"} => tmpbuf.valid /\ tmpbuf.lba = ra_lba
  /\ InRead =>
       /\ emu_arg < disc_toc.end
       /\ ReadThreadQueue = <<>> => last_read_lba = emu_arg
       /\ ReadThreadQueue # <<>> =>
            ReadThreadQueue[Len(ReadThreadQueue)] = READ_SECTOR(emu_arg)

Tray ==
  /\ \A i \in Slots : SectorBuffers[i].valid => SectorBuffers[i].disc = cda_disc
  /\ rt_pc \in {"lock", "store"} => tmpbuf.disc = cda_disc
  /\ emu_pc = "sbunlock" => buf.disc = cda_disc /\ buf.lba = emu_arg
  /\ rt_pc = "start" => last_read_lba = NoLBA
  /\ CD_IsPBP /\ DiscEjected =>
       /\ last_read_lba = NoLBA
       /\ \A i \in Slots : ~SectorBuffers[i].valid
       /\ \A i \in 1 .. Len(ReadThreadQueue) : ~IsRead(ReadThreadQueue[i])
       /\ emu_pc = "msgwait" /\ EmuThreadQueue # <<>> => Head(EmuThreadQueue) = "DONE" /\ emu_arg = 1
       /\ ~tray_open => emu_pc = "msgwait" /\ EmuThreadQueue # <<>>
       /\ ~InRead

IInv == Typed /\ Control /\ Window /\ Tray

------------------------------------------------------------------------------
(***************************************************************************)
(* Slots: SBWritePos moves on by one and wraps, and the age of a slot is   *)
(* an index too.                                                           *)
(***************************************************************************)
LEMMA NextSlotWraps ==
  ASSUME NEW i \in Slots
  PROVE  NextSlot(i) = IF i + 1 = SBSize THEN 0 ELSE i + 1
BY ReadAheadAssumption DEF NextSlot, Slots

LEMMA SlotsAreThere == 0 \in Slots /\ \A i \in Slots : NextSlot(i) \in Slots
BY NextSlotWraps, ReadAheadAssumption DEF Slots

\* The number of sectors to read after a sequential request fits the window.
LEMMA SequentialCountFits ==
  ASSUME NEW how \in Int, ra_count \in Nat
  PROVE  /\ SequentialCount(how) \in Nat
         /\ SequentialCount(how) > 0
         /\ how <= max_ra => SequentialCount(how) <= 1 + max_ra - how
         /\ how > max_ra => SequentialCount(how) = ra_count + 1
BY ReadAheadAssumption DEF SequentialCount, MinOf

\* A non-empty set of slots has a last one: the one the scan copies last.
LEMMA LastIsASlot ==
  ASSUME NEW lba, Holding(lba) # {}
  PROVE  LastOf(Holding(lba)) \in Holding(lba)
<1> DEFINE H == Holding(lba)
           T == {SBSize - 1 - i : i \in H}
           R == OpToRel(<, Nat)
<1>1. H \subseteq Slots /\ H # {}
    BY DEF Holding
<1>2. T \subseteq Nat /\ T # {}
    BY <1>1, ReadAheadAssumption DEF Slots
<1>3. PICK x \in T : \A y \in T : ~ (<<y, x>> \in R)
    BY <1>2, NatLessThanWellFounded, WFMin
<1>4. \A y \in T : x <= y
  <2> SUFFICES ASSUME NEW y \in T PROVE x <= y
      OBVIOUS
  <2>1. x \in Nat /\ y \in Nat
      BY <1>2
  <2>2. ~(y < x)
      BY <1>3, <2>1 DEF OpToRel
  <2> QED BY <2>1, <2>2
<1>5. PICK i \in H : x = SBSize - 1 - i
    OBVIOUS
<1>6. \A j \in H : j <= i
  <2> SUFFICES ASSUME NEW j \in H PROVE j <= i
      OBVIOUS
  <2>1. SBSize - 1 - j \in T
      OBVIOUS
  <2>2. x <= SBSize - 1 - j
      BY <1>4, <2>1
  <2> QED
      BY <1>1, <1>5, <2>2, ReadAheadAssumption DEF Slots
<1> QED
    BY <1>6 DEF LastOf

LEMMA SectorsHaveTheirType ==
  /\ EmptySector \in Sector
  /\ \A d \in Discs, lba \in Nat : SectorsRead(d, lba) \subseteq Sector
<1>1. EmptySector \in Sector
    BY DiscsAssumption DEF EmptySector, Sector, Discs
<1>2. ASSUME NEW d \in Discs, NEW lba \in Nat, NEW s \in SectorsRead(d, lba)
      PROVE  s \in Sector
    BY <1>2, DiscsAssumption DEF Sector, SectorsRead
<1> QED BY <1>1, <1>2

LEMMA TocsHaveTheirType ==
  /\ EmptyToc \in Tocs
  /\ \A d \in Discs : GoodToc(d) \in Tocs /\ BadTocs(d) \subseteq Tocs
<1>1. EmptyToc \in Tocs
    BY DEF EmptyToc, Tocs
<1>2. ASSUME NEW d \in Discs PROVE LeadOut[d] \in Nat /\ GoodToc(d) \in Tocs
    BY <1>2, DiscsAssumption DEF GoodToc, Tocs
<1>3. ASSUME NEW d \in Discs, NEW t \in BadTocs(d) PROVE t \in Tocs
  <2>1. PICK e \in {0, LeadOut[d]} : t = [end |-> e, good |-> FALSE]
      BY <1>3 DEF BadTocs
  <2>2. e \in Nat
      BY <1>2, <1>3
  <2> QED BY <2>1, <2>2 DEF Tocs
<1> QED BY <1>1, <1>2, <1>3

LEMMA MessagesHaveTheirType ==
  /\ \A lba \in LBAs : READ_SECTOR(lba) \in Messages
  /\ \A e \in {0, 1} : EJECT(e) \in Messages
  /\ DIEDIEDIE \in Messages
BY DEF READ_SECTOR, EJECT, DIEDIEDIE, Messages

LEMMA TypedInit == Init => Typed
<1> SUFFICES ASSUME Init PROVE Typed
    OBVIOUS
<1>1. 0 \in Discs
    BY DiscsAssumption DEF Discs
<1>2. /\ ReadThreadQueue \in Seq(Messages) /\ EmuThreadQueue \in Seq(Replies)
      /\ last_read_lba \in LBAs \cup {NoLBA}
    BY DEF Init
<1>3. /\ buf \in Sector /\ tmpbuf \in Sector /\ SectorBuffers \in [Slots -> Sector]
      /\ disc_toc \in Tocs /\ cda_disc \in Discs /\ SBWritePos \in Slots
    BY <1>1, SlotsAreThere, SectorsHaveTheirType, TocsHaveTheirType DEF Init
<1>4. CD_SelectedDisc \in -1 .. DiscCount - 1
    BY DiscsAssumption DEF Init
<1> QED
    BY <1>2, <1>3, <1>4, BoundsAssumption DEF Init, Typed, TypeOK, LBAs

LEMMA TypedStep == Typed /\ [Next]_vars => Typed'
<1> SUFFICES ASSUME Typed, [Next]_vars PROVE Typed'
    OBVIOUS
<1> USE DEF Typed, TypeOK
<1>1. CASE RT_Start
  <2>1. disc_toc' \in Tocs
      BY <1>1, TocsHaveTheirType DEF RT_Start, TocGood, TocBad
  <2>2. EmuThreadQueue' \in Seq(Replies)
    <3>1. Reply("DONE") \/ Reply("FATAL_ERROR")
        BY <1>1 DEF RT_Start
    <3> QED BY <3>1, SMTT(30) DEF Reply, Replies
  <2>3. /\ ra_lba' \in Nat /\ ra_count' \in Nat /\ last_read_lba' \in LBAs \cup {NoLBA}
        /\ SectorBuffers' \in [Slots -> Sector] /\ SBWritePos' \in Slots
    <3>1. ForgetSectors \/ UNCHANGED <<raVars, sbVars>>
        BY <1>1 DEF RT_Start, TocGood, TocBad
    <3> QED
        BY <3>1, SlotsAreThere, SectorsHaveTheirType DEF ForgetSectors, raVars, sbVars
  <2> QED
      BY <1>1, <2>1, <2>2, <2>3 DEF RT_Start, emuVars
<1>2. CASE RT_Fetch
  <2>1. CASE rt_pc' = "check" /\ UNCHANGED <<ReadThreadQueue, raVars, Running>>
      BY <1>2, <2>1 DEF RT_Fetch, emuVars, raVars, sbVars, discVars
  <2>2. CASE ReadThreadQueue # <<>> /\ ReadThreadQueue' = Tail(ReadThreadQueue)
    <3> DEFINE msg == Head(ReadThreadQueue)
    <3>1. msg \in Messages /\ ReadThreadQueue' \in Seq(Messages)
        BY <2>2
    <3>2. CASE msg.message = "READ_SECTOR"
      <4>1. msg.arg \in LBAs
          BY <3>1, <3>2, BoundsAssumption DEF Messages, DIEDIEDIE, LBAs
      <4>2. RequestSector(msg.arg) /\ rt_pc' = "check" /\ UNCHANGED Running
          BY <1>2, <2>2, <3>2 DEF RT_Fetch
      <4>3. SequentialCount(ra_lba - msg.arg) \in Nat
        <5>1. ra_lba - msg.arg \in Int
            BY <4>1, BoundsAssumption DEF LBAs
        <5> HIDE DEF msg
        <5> QED BY <5>1, SequentialCountFits
      <4>4. ra_lba' \in Nat /\ ra_count' \in Nat /\ last_read_lba' \in LBAs
          BY <4>1, <4>2, <4>3, ReadAheadAssumption, SMTT(30) DEF RequestSector, LBAs
      <4> QED
          BY <1>2, <3>1, <4>2, <4>4 DEF RT_Fetch, emuVars, sbVars, discVars
    <3>3. CASE msg.message # "READ_SECTOR"
        BY <1>2, <2>2, <3>1, <3>3, ZenonT(40) DEF RT_Fetch, emuVars, raVars, sbVars, discVars
    <3> QED BY <3>2, <3>3
  <2> QED BY <1>2, <2>1, <2>2 DEF RT_Fetch
<1>3. CASE \E eject_status \in BOOLEAN : RT_EjectDisc(eject_status)
  <2>1. PICK e \in BOOLEAN : RT_EjectDisc(e)
      BY <1>3
  <2>2. cda_disc' \in Discs
      BY <2>1 DEF RT_EjectDisc, DiscAfterEject
  <2>3. disc_toc' \in Tocs
      BY <2>1, <2>2, TocsHaveTheirType DEF RT_EjectDisc, TocGood, TocBad
  <2>4. EmuThreadQueue' \in Seq(Replies)
    <3>1. Reply("DONE") \/ Reply("FATAL_ERROR")
        BY <2>1 DEF RT_EjectDisc
    <3> QED BY <3>1 DEF Reply, Replies
  <2>5. /\ ra_lba' \in Nat /\ ra_count' \in Nat /\ last_read_lba' \in LBAs \cup {NoLBA}
        /\ SectorBuffers' \in [Slots -> Sector] /\ SBWritePos' \in Slots
    <3>1. ForgetSectors \/ UNCHANGED <<raVars, sbVars>>
        BY <2>1 DEF RT_EjectDisc, TocGood, TocBad
    <3> QED
        BY <3>1, SlotsAreThere, SectorsHaveTheirType DEF ForgetSectors, raVars, sbVars
  <2> QED
      BY <2>1, <2>2, <2>3, <2>4, <2>5 DEF RT_EjectDisc, emuVars
<1>4. CASE RT_ReadAhead
    BY <1>4, SectorsHaveTheirType DEF RT_ReadAhead, NextIteration, emuVars, sbVars, discVars, queues
<1>5. CASE RT_Lock
    BY <1>5 DEF RT_Lock, emuVars, raVars, sbVars, discVars, queues
<1>6. CASE RT_Store
    BY <1>6, SlotsAreThere DEF RT_Store, SignalBuffers, raVars, discVars, queues
<1>7. CASE RT_Unlock
    BY <1>7, SectorsHaveTheirType DEF RT_Unlock, NextIteration, emuVars, sbVars, discVars, queues
<1>8. CASE EmuContinues \/ SpuriousWakeup
  <2>1. CASE Constructor
      BY <2>1 DEF Constructor, TakeReply, raVars, sbVars, discVars, rtVars
  <2>2. CASE LockBuffers
      BY <2>2 DEF LockBuffers, raVars, sbVars, discVars, rtVars, queues
  <2>3. CASE ScanBuffers
    <3>1. Holding(emu_arg) # {} => LastOf(Holding(emu_arg)) \in Slots
        BY LastIsASlot DEF Holding
    <3> QED
        BY <2>3, <3>1 DEF ScanBuffers, raVars, sbVars, discVars, rtVars, queues
  <2>4. CASE ReturnSector
      BY <2>4, SectorsHaveTheirType DEF ReturnSector, raVars, sbVars, discVars, rtVars, queues
  <2>5. CASE EjectReturns
    <3>1. tray_open' \in BOOLEAN
        BY <2>5, Zenon DEF EjectReturns
    <3>2. EmuThreadQueue' \in Seq(Replies)
        BY <2>5 DEF EjectReturns, TakeReply
    <3> QED
        BY <2>5, <3>1, <3>2 DEF EjectReturns, raVars, sbVars, discVars, rtVars
  <2>6. CASE JoinThread
      BY <2>6 DEF JoinThread, raVars, sbVars, discVars, rtVars, queues
  <2>7. CASE SpuriousWakeup
      BY <2>7 DEF SpuriousWakeup, raVars, sbVars, discVars, rtVars, queues
  <2> QED BY <1>8, <2>1, <2>2, <2>3, <2>4, <2>5, <2>6, <2>7 DEF EmuContinues
<1>9. CASE EmuCalls
  <2>1. CASE SelectDisc
      BY <2>1 DEF SelectDisc, raVars, sbVars, discVars, rtVars, queues
  <2>2. ASSUME NEW lba \in LBAs, HintReadSector(lba) \/ ReadRawSector(lba) PROVE Typed'
    <3>1. ReadThreadQueue' \in Seq(Messages)
      <4>1. ReadThreadQueue' = Append(ReadThreadQueue, READ_SECTOR(lba))
          BY <2>2 DEF HintReadSector, ReadRawSector, Post
      <4> QED BY <4>1, MessagesHaveTheirType
    <3> QED
        BY <2>2, <3>1
        DEF HintReadSector, ReadRawSector, emuVars, raVars, sbVars, discVars, rtVars
  <2>3. ASSUME NEW e \in {0, 1}, Eject(e) PROVE Typed'
      BY <2>3, MessagesHaveTheirType DEF Eject, Post, raVars, sbVars, discVars, rtVars
  <2>4. CASE Destroy
      BY <2>4, MessagesHaveTheirType DEF Destroy, Post, raVars, sbVars, discVars, rtVars
  <2> QED BY <1>9, <2>1, <2>2, <2>3, <2>4 DEF EmuCalls
<1>10. CASE UNCHANGED vars
    BY <1>10 DEF vars, emuVars, raVars, sbVars, discVars, rtVars, queues
<1> QED
    BY <1>1, <1>2, <1>3, <1>4, <1>5, <1>6, <1>7, <1>8, <1>9, <1>10 DEF Next, ReadThread, Gone

(***************************************************************************)
(* Every variable keeps its type, whatever the discs and bounds are.       *)
(***************************************************************************)
THEOREM TypeCorrect == Spec => []TypeOK
<1>1. Typed => TypeOK
    BY DEF Typed
<1> QED
    BY <1>1, TypedInit, TypedStep, PTL DEF Spec
------------------------------------------------------------------------------
(***************************************************************************)
(* Control: who may be where.                                              *)
(***************************************************************************)
LEMMA ControlInit == Init => Control
BY DEF Init, Control

\* What is behind the head of the queue, and what was there before the last post.
LEMMA TailOfQueue ==
  ASSUME NEW S, NEW q \in Seq(S), q # <<>>
  PROVE  /\ Tail(q) \in Seq(S) /\ Len(Tail(q)) = Len(q) - 1
         /\ \A i \in 1 .. Len(Tail(q)) : i + 1 \in 1 .. Len(q) /\ Tail(q)[i] = q[i + 1]
         /\ Head(q) = q[1] /\ 1 \in 1 .. Len(q)
         /\ Len(q) = 1 => Tail(q) = <<>>
         /\ Tail(q) = <<>> => Len(q) = 1
         /\ Len(q) \in Nat \ {0}
<1>1. /\ Tail(q) \in Seq(S) /\ Len(Tail(q)) = Len(q) - 1
      /\ \A i \in 1 .. Len(Tail(q)) : i + 1 \in 1 .. Len(q) /\ Tail(q)[i] = q[i + 1]
      /\ Head(q) = q[1] /\ 1 \in 1 .. Len(q)
      /\ Len(q) = 1 => Tail(q) = <<>>
    OBVIOUS
<1>2. Len(q) \in Nat \ {0}
    OBVIOUS
<1>3. Tail(q) = <<>> => Len(Tail(q)) = 0
  <2>1. Len(<<>>) = 0
      OBVIOUS
  <2> QED BY <2>1, Zenon
<1> QED BY <1>1, <1>2, <1>3

LEMMA AppendedQueue ==
  ASSUME NEW S, NEW q \in Seq(S), NEW m \in S
  PROVE  /\ Append(q, m) # <<>> /\ Len(Append(q, m)) = Len(q) + 1
         /\ \A i \in 1 .. Len(q) : Append(q, m)[i] = q[i]
         /\ Append(q, m)[Len(q) + 1] = m
         /\ \A i \in 1 .. Len(Append(q, m)) : i \in 1 .. Len(q) \/ i = Len(q) + 1
OBVIOUS

LEMMA ControlStep == Typed /\ Control /\ [Next]_vars => Control'
<1> SUFFICES ASSUME Typed, Control, [Next]_vars PROVE Control'
    OBVIOUS
<1>t. /\ ReadThreadQueue \in Seq(Messages) /\ EmuThreadQueue \in Seq(Replies)
    BY DEF Typed, TypeOK
<1> USE DEF Control
<1>1. CASE RT_Start
  <2>1. EmuThreadQueue' # <<>> /\ Len(EmuThreadQueue') = 1
    <3>1. Reply("DONE") \/ Reply("FATAL_ERROR")
        BY <1>1 DEF RT_Start
    <3> QED BY <1>1, <3>1, <1>t DEF Reply, RT_Start
  <2> QED
      BY <1>1, <2>1 DEF RT_Start, emuVars
<1>2. CASE RT_Fetch
  <2>1. CASE ReadThreadQueue' = ReadThreadQueue
    <3>1. ReadThreadQueue = <<>> /\ rt_pc' = "check"
        BY <1>2, <2>1, <1>t, TailOfQueue DEF RT_Fetch
    <3> QED
        BY <1>2, <3>1, <2>1 DEF RT_Fetch, emuVars
  <2>2. CASE ReadThreadQueue # <<>> /\ ReadThreadQueue' = Tail(ReadThreadQueue)
    <3>1. \A i \in 1 .. Len(ReadThreadQueue') :
             /\ i + 1 \in 1 .. Len(ReadThreadQueue) /\ ReadThreadQueue'[i] = ReadThreadQueue[i + 1]
             /\ Len(ReadThreadQueue') = Len(ReadThreadQueue) - 1
        BY <2>2, <1>t, TailOfQueue
    <3>2. Head(ReadThreadQueue) = ReadThreadQueue[1] /\ 1 \in 1 .. Len(ReadThreadQueue)
        BY <2>2, <1>t, TailOfQueue
    <3>3. Len(ReadThreadQueue) = 1 => ReadThreadQueue' = <<>>
        BY <2>2, <1>t, TailOfQueue
    <3>4. EmuThreadQueue = <<>> /\ emu_pc # "ctor"
        BY <2>2
    <3>5. /\ rt_pc' \in {"check", "eject", "insert"}
          /\ rt_pc' \in {"eject", "insert"} =>
               /\ IsEject(Head(ReadThreadQueue))
               /\ rt_pc' = IF Head(ReadThreadQueue).arg = 1 THEN "eject" ELSE "insert"
        BY <1>2, <2>2 DEF RT_Fetch, IsEject
    <3>6. UNCHANGED <<emuVars, EmuThreadQueue, SBMutex>> /\ rt_pc = "fetch"
        BY <1>2 DEF RT_Fetch
    <3>7. rt_pc' \in {"eject", "insert"} =>
            /\ emu_pc = "msgwait" /\ ReadThreadQueue' = <<>>
            /\ emu_arg = IF rt_pc' = "eject" THEN 1 ELSE 0
        BY <3>2, <3>3, <3>5
    <3>8. (\A i \in 1 .. Len(ReadThreadQueue) :
       /\ IsEject(ReadThreadQueue[i]) =>
            /\ emu_pc = "msgwait" /\ i = Len(ReadThreadQueue)
            /\ ReadThreadQueue[i].arg = emu_arg
       /\ IsDie(ReadThreadQueue[i]) => emu_pc \in {"join", "gone"} /\ i = Len(ReadThreadQueue))'
        BY <3>1, <3>6, <1>t DEF emuVars, IsEject, IsDie
    <3> QED
        BY <3>4, <3>5, <3>6, <3>7, <3>8 DEF emuVars
  <2> QED BY <1>2, <2>1, <2>2 DEF RT_Fetch
<1>3. CASE \E eject_status \in BOOLEAN : RT_EjectDisc(eject_status)
  <2>1. PICK e \in BOOLEAN : RT_EjectDisc(e)
      BY <1>3
  <2>2. EmuThreadQueue' # <<>> /\ Len(EmuThreadQueue') = 1
    <3>1. Reply("DONE") \/ Reply("FATAL_ERROR")
        BY <2>1 DEF RT_EjectDisc
    <3>2. EmuThreadQueue = <<>>
        BY <2>1 DEF RT_EjectDisc
    <3>3. \A msg : Append(<<>>, msg) # <<>> /\ Len(Append(<<>>, msg)) = 1
        OBVIOUS
    <3> QED BY <3>1, <3>2, <3>3 DEF Reply
  <2> QED
      BY <2>1, <2>2 DEF RT_EjectDisc, emuVars
<1>4. CASE RT_ReadAhead
    BY <1>4 DEF RT_ReadAhead, NextIteration, emuVars, queues
<1>5. CASE RT_Lock
    BY <1>5 DEF RT_Lock, emuVars, queues
<1>6. CASE RT_Store
    BY <1>6 DEF RT_Store, SignalBuffers, queues
<1>7. CASE RT_Unlock
    BY <1>7 DEF RT_Unlock, NextIteration, emuVars, queues
<1>8. CASE EmuContinues \/ SpuriousWakeup
  <2>1. CASE Constructor
    <3>1. EmuThreadQueue' = <<>> /\ ReadThreadQueue = <<>> /\ Len(ReadThreadQueue) = 0
        BY <2>1, <1>t, TailOfQueue DEF Constructor, TakeReply
    <3> QED
        BY <2>1, <3>1 DEF Constructor, rtVars
  <2>2. CASE LockBuffers
      BY <2>2 DEF LockBuffers, rtVars, queues
  <2>3. CASE ScanBuffers
      BY <2>3 DEF ScanBuffers, rtVars, queues
  <2>4. CASE ReturnSector
      BY <2>4 DEF ReturnSector, rtVars, queues
  <2>5. CASE EjectReturns
    <3>1. EmuThreadQueue' = <<>> /\ ReadThreadQueue = <<>> /\ Len(ReadThreadQueue) = 0
        BY <2>5, <1>t, TailOfQueue DEF EjectReturns, TakeReply
    <3> QED
        BY <2>5, <3>1 DEF EjectReturns, rtVars
  <2>6. CASE JoinThread
      BY <2>6 DEF JoinThread, rtVars, queues
  <2>7. CASE SpuriousWakeup
      BY <2>7 DEF SpuriousWakeup, rtVars, queues
  <2> QED BY <1>8, <2>1, <2>2, <2>3, <2>4, <2>5, <2>6, <2>7 DEF EmuContinues
<1>9. CASE EmuCalls
  <2>1. CASE SelectDisc
      BY <2>1 DEF SelectDisc, rtVars, queues
  <2>2. ASSUME NEW m \in Messages, emu_pc = "idle", Post(m),
               emu_pc' \in {"idle", "sblock", "msgwait", "join"},
               UNCHANGED <<rtVars, EmuThreadQueue, SBMutex>>,
               IsEject(m) => emu_pc' = "msgwait" /\ emu_arg' = m.arg,
               IsDie(m) => emu_pc' = "join",
               emu_pc' = "msgwait" => emu_arg' \in {0, 1}
        PROVE  Control'
    <3>1. EmuThreadQueue' = <<>> /\ rt_pc' \notin {"start", "eject", "insert"}
        BY <2>2 DEF rtVars
    <3>2. \A i \in 1 .. Len(ReadThreadQueue) :
             ~IsEject(ReadThreadQueue[i]) /\ ~IsDie(ReadThreadQueue[i])
        BY <2>2
    <3>3. /\ Len(ReadThreadQueue') = Len(ReadThreadQueue) + 1
          /\ ReadThreadQueue'[Len(ReadThreadQueue) + 1] = m
          /\ \A i \in 1 .. Len(ReadThreadQueue') :
               \/ i \in 1 .. Len(ReadThreadQueue) /\ ReadThreadQueue'[i] = ReadThreadQueue[i]
               \/ i = Len(ReadThreadQueue) + 1
        BY <2>2, <1>t, AppendedQueue DEF Post
    <3>4. (\A i \in 1 .. Len(ReadThreadQueue) :
       /\ IsEject(ReadThreadQueue[i]) =>
            /\ emu_pc = "msgwait" /\ i = Len(ReadThreadQueue)
            /\ ReadThreadQueue[i].arg = emu_arg
       /\ IsDie(ReadThreadQueue[i]) => emu_pc \in {"join", "gone"} /\ i = Len(ReadThreadQueue))'
        BY <2>2, <3>2, <3>3 DEF IsEject, IsDie
    <3> QED
        BY <2>2, <3>1, <3>4 DEF rtVars
  <2>3. ASSUME NEW lba \in LBAs, HintReadSector(lba) \/ ReadRawSector(lba) PROVE Control'
    <3>1. READ_SECTOR(lba) \in Messages /\ ~IsEject(READ_SECTOR(lba)) /\ ~IsDie(READ_SECTOR(lba))
        BY MessagesHaveTheirType DEF READ_SECTOR, IsEject, IsDie
    <3>2. /\ emu_pc = "idle" /\ Post(READ_SECTOR(lba)) /\ emu_pc' \in {"idle", "sblock"}
          /\ UNCHANGED <<rtVars, EmuThreadQueue, SBMutex>>
        BY <2>3 DEF HintReadSector, ReadRawSector, emuVars
    <3> QED BY <2>2, <3>1, <3>2
  <2>4. ASSUME NEW e \in {0, 1}, Eject(e) PROVE Control'
    <3>1. EJECT(e) \in Messages /\ ~IsDie(EJECT(e)) /\ EJECT(e).arg = e
        BY MessagesHaveTheirType DEF EJECT, IsDie
    <3>2. /\ emu_pc = "idle" /\ Post(EJECT(e)) /\ emu_pc' = "msgwait" /\ emu_arg' = e
          /\ UNCHANGED <<rtVars, EmuThreadQueue, SBMutex>>
        BY <2>4 DEF Eject
    <3> QED BY <2>2, <3>1, <3>2
  <2>5. CASE Destroy
    <3>1. DIEDIEDIE \in Messages /\ ~IsEject(DIEDIEDIE)
        BY MessagesHaveTheirType DEF DIEDIEDIE, IsEject
    <3>2. /\ emu_pc = "idle" /\ Post(DIEDIEDIE) /\ emu_pc' = "join"
          /\ UNCHANGED <<rtVars, EmuThreadQueue, SBMutex>>
        BY <2>5 DEF Destroy
    <3> QED BY <2>2, <3>1, <3>2
  <2> QED BY <1>9, <2>1, <2>3, <2>4, <2>5 DEF EmuCalls
<1>10. CASE UNCHANGED vars
    BY <1>10 DEF vars, emuVars, rtVars, queues
<1> QED
    BY <1>1, <1>2, <1>3, <1>4, <1>5, <1>6, <1>7, <1>8, <1>9, <1>10 DEF Next, ReadThread, Gone

(***************************************************************************)
(* RT_EjectDisc never runs beside a client that could look at what it      *)
(* rewrites, and no reply is left over.                                    *)
(***************************************************************************)
THEOREM TrayChangesAreExclusive == Spec => [](TrayChangeIsExclusive /\ OneReplyPerCall)
<1>1. Typed /\ Control => TrayChangeIsExclusive /\ OneReplyPerCall
  <2> SUFFICES ASSUME Typed, Control PROVE TrayChangeIsExclusive /\ OneReplyPerCall
      OBVIOUS
  <2>1. EmuThreadQueue \in Seq(Replies) /\ (EmuThreadQueue = <<>> => Len(EmuThreadQueue) = 0)
      BY DEF Typed, TypeOK
  <2>2. Len(EmuThreadQueue) <= 1
    <3>1. Len(EmuThreadQueue) = 0 \/ Len(EmuThreadQueue) = 1
        BY <2>1, Zenon DEF Control
    <3>2. Len(EmuThreadQueue) \in Nat
        BY <2>1
    <3>3. \A n \in Nat : n = 0 \/ n = 1 => n <= 1
        OBVIOUS
    <3> QED BY <3>1, <3>2, <3>3, Zenon
  <2>3. TrayChangeIsExclusive
      BY DEF Control, TrayChangeIsExclusive
  <2> QED BY <2>2, <2>3 DEF Control, OneReplyPerCall
<1> QED
    BY <1>1, TypedInit, ControlInit, TypedStep, ControlStep, PTL DEF Spec
------------------------------------------------------------------------------
(***************************************************************************)
(* Window: the sectors from the last request to the front are in the ring. *)
(***************************************************************************)
LEMMA AgesStep ==
  ASSUME NEW p \in Slots, NEW i \in Slots
  PROVE  /\ AgeAt(i, p) \in 0 .. SBSize - 1
         /\ AgeAt(p, NextSlot(p)) = 0
         /\ i # p => AgeAt(i, NextSlot(p)) = AgeAt(i, p) + 1
BY NextSlotWraps, ReadAheadAssumption DEF AgeAt, Slots

LEMMA EveryAgeIsInTheRing ==
  ASSUME NEW p \in Slots, NEW n \in 0 .. SBSize - 1
  PROVE  \E i \in Slots : AgeAt(i, p) = n
<1>1. CASE n <= p - 1
  <2>1. p - 1 - n \in Slots /\ AgeAt(p - 1 - n, p) = n
      BY <1>1, ReadAheadAssumption DEF AgeAt, Slots
  <2> QED BY <2>1
<1>2. CASE ~(n <= p - 1)
  <2>1. p - 1 - n + SBSize \in Slots /\ AgeAt(p - 1 - n + SBSize, p) = n
      BY <1>2, ReadAheadAssumption DEF AgeAt, Slots
  <2> QED BY <2>1
<1> QED BY <1>1, <1>2

LEMMA BadTocsArePBP == \A d \in Discs : BadTocs(d) # {} => CD_IsPBP
BY DiscsAssumption DEF BadTocs

LEMMA WindowInit == Init => Window
BY DEF Init, Window, InRead

LEMMA WindowStep == Typed /\ Control /\ Window /\ Tray /\ [Next]_vars => Window'
<1> SUFFICES ASSUME Typed, Control, Window, Tray, [Next]_vars PROVE Window'
    OBVIOUS
<1>t. /\ ReadThreadQueue \in Seq(Messages) /\ SBWritePos \in Slots
      /\ ra_lba \in Nat /\ ra_count \in Nat /\ last_read_lba \in LBAs \cup {NoLBA}
      /\ last_read_lba \in Int /\ NoLBA \in Int /\ NoLBA \notin LBAs
      /\ DiscEjected \in BOOLEAN /\ cda_disc \in Discs
      /\ SectorBuffers \in [Slots -> Sector]
      /\ max_ra \in Nat
    BY BoundsAssumption, ReadAheadAssumption DEF Typed, TypeOK, LBAs, NoLBA
<1> USE DEF Window
<1>0. ASSUME UNCHANGED <<raVars, sbVars, disc_toc, rt_pc, tmpbuf>>,
             InRead' => InRead /\ UNCHANGED <<emu_arg, ReadThreadQueue>>
      PROVE  Window'
    BY <1>0 DEF Front, Age, AgeAt, raVars, sbVars, READ_SECTOR
<1>1. CASE RT_Start
  <2>1. last_read_lba' = NoLBA /\ ra_count' = 0
    <3>1. last_read_lba = NoLBA /\ ra_count = 0
        BY <1>1 DEF RT_Start, Tray
    <3> QED BY <1>1, <3>1 DEF RT_Start, TocGood, TocBad, ForgetSectors, raVars
  <2>2. ~InRead' /\ rt_pc' \in {"fetch", "done"}
      BY <1>1 DEF RT_Start, InRead, Control, emuVars
  <2> QED BY <2>1, <2>2
<1>2. CASE RT_Fetch
  <2>0. UNCHANGED <<sbVars, disc_toc, emuVars>> /\ rt_pc = "fetch"
        /\ rt_pc' \in {"check", "eject", "insert"}
      BY <1>2 DEF RT_Fetch, discVars
  <2>1. CASE UNCHANGED <<ReadThreadQueue, raVars>>
      BY <2>0, <2>1 DEF Front, Age, AgeAt, raVars, sbVars, emuVars, InRead, READ_SECTOR
  <2>2. CASE ReadThreadQueue # <<>> /\ ReadThreadQueue' = Tail(ReadThreadQueue)
    <3> DEFINE q == ReadThreadQueue
               msg == Head(q)
    <3>1. /\ msg = q[1] /\ Len(q') = Len(q) - 1 /\ Len(q) \in Nat \ {0}
          /\ \A i \in 1 .. Len(q') : q'[i] = q[i + 1]
          /\ Len(q) = 1 => q' = <<>>
          /\ q' = <<>> => Len(q) = 1
          /\ q' \in Seq(Messages) /\ msg \in Messages
      <4>1. q \in Seq(Messages) /\ q # <<>> /\ q' = Tail(q)
          BY <2>2, <1>t
      <4> HIDE DEF q
      <4> QED BY <4>1, TailOfQueue
    <3>2. CASE msg.message # "READ_SECTOR"
      <4>1. UNCHANGED raVars
          BY <1>2, <2>2, <3>2 DEF RT_Fetch
      <4>2. ~InRead
        <5>1. IsEject(msg) \/ IsDie(msg)
            BY <3>1, <3>2 DEF IsEject, IsDie, Messages, DIEDIEDIE
        <5>2. IsEject(q[1]) \/ IsDie(q[1])
            BY <5>1, <3>1
        <5> QED BY <3>1, <5>2 DEF Control, InRead
      <4>3. ~InRead'
          BY <2>0, <4>2 DEF InRead, emuVars
      <4> QED BY <2>0, <4>1, <4>3 DEF Front, Age, AgeAt, raVars, sbVars
    <3>3. CASE msg.message = "READ_SECTOR"
      <4> DEFINE new == msg.arg
      <4>1. new \in LBAs /\ new \in Nat /\ new # NoLBA /\ msg = READ_SECTOR(new)
          BY <3>1, <3>3, BoundsAssumption DEF Messages, DIEDIEDIE, LBAs, NoLBA, READ_SECTOR
      <4>2. RequestSector(new) /\ rt_pc' = "check"
          BY <1>2, <2>2, <3>3 DEF RT_Fetch
      <4>3. last_read_lba' = new
          BY <4>2 DEF RequestSector
      <4>4. InRead' => /\ emu_arg' < disc_toc'.end
                       /\ q' = <<>> => new = emu_arg'
                       /\ q' # <<>> => q'[Len(q')] = READ_SECTOR(emu_arg')
        <5>1. SUFFICES ASSUME InRead
                       PROVE  /\ emu_arg < disc_toc.end
                              /\ q' = <<>> => new = emu_arg
                              /\ q' # <<>> => q'[Len(q')] = READ_SECTOR(emu_arg)
            BY <2>0 DEF InRead, emuVars
        <5>2. q[Len(q)] = READ_SECTOR(emu_arg) /\ emu_arg < disc_toc.end
            BY <5>1, <2>2
        <5>3. q' = <<>> => new = emu_arg
          <6>1. q' = <<>> => msg = READ_SECTOR(emu_arg)
              BY <5>2, <3>1
          <6>2. msg.arg = new /\ READ_SECTOR(emu_arg).arg = emu_arg
              BY DEF READ_SECTOR
          <6> QED BY <6>1, <6>2
        <5>4. q' # <<>> => Len(q') \in 1 .. Len(q') /\ Len(q') + 1 = Len(q)
            BY <3>1
        <5> QED BY <5>2, <5>3, <5>4, <3>1
      <4>5. CASE last_read_lba # NoLBA /\ new = last_read_lba + 1
        <5>1. ra_lba' = ra_lba /\ ra_count' = SequentialCount(ra_lba - new)
            BY <4>1, <4>2, <4>5, <1>t DEF RequestSector
        <5>2. /\ ra_count' \in Nat /\ ra_count' > 0
              /\ ra_lba - new <= max_ra => ra_count' <= 1 + max_ra - (ra_lba - new)
          <6>1. ra_lba - new \in Int
              BY <4>1, <1>t
          <6> HIDE DEF new
          <6> QED BY <5>1, <6>1, <1>t, SequentialCountFits
        <5>3. ra_lba + ra_count' <= new + max_ra + 1
          <6>1. ra_lba + ra_count <= last_read_lba + max_ra + 1
              BY <4>5
          <6>2. new = last_read_lba + 1 /\ new \in Int /\ last_read_lba \in Int /\ max_ra \in Int
                /\ ra_lba \in Int /\ ra_count \in Nat /\ ra_count' \in Int
              BY <4>1, <4>5, <5>2, <1>t
          <6> HIDE DEF Window
          <6>3. ra_lba - new <= max_ra
              BY <6>1, <6>2
          <6> QED BY <5>2, <6>2, <6>3
        <5>4. \A i \in Slots : Front' - 1 - Age(i)' >= new =>
                (SectorBuffers[i].valid /\ SectorBuffers[i].lba = Front - 1 - Age(i))'
          <6> SUFFICES ASSUME NEW i \in Slots, Front' - 1 - Age(i)' >= new
                       PROVE  (SectorBuffers[i].valid /\ SectorBuffers[i].lba = Front - 1 - Age(i))'
              OBVIOUS
          <6>1. Front' = Front /\ Age(i)' = Age(i) /\ SectorBuffers' = SectorBuffers /\ Front = ra_lba
              BY <2>0, <4>2, <5>1 DEF Front, Age, AgeAt, sbVars
          <6>2. Age(i) \in Int
              BY <1>t, AgesStep, ReadAheadAssumption DEF Age
          <6>3. Front - 1 - Age(i) >= last_read_lba
              BY <6>1, <6>2, <4>1, <4>5, <1>t
          <6> QED BY <6>1, <6>3, <4>5
        <5>5. ra_lba <= new => (ra_lba = new /\ ra_count' > 0) \/ ra_lba = disc_toc.end
            BY <5>2, <4>1, <4>5, <2>0, <1>t
        <5> HIDE DEF new, q
        <5> QED
            BY <2>0, <4>1, <4>2, <4>3, <4>4, <5>1, <5>3, <5>4, <5>5 DEF q
      <4>6. CASE new # last_read_lba /\ ~(last_read_lba # NoLBA /\ new = last_read_lba + 1)
        <5>1. ra_lba' = new /\ ra_count' = initial_ra
            BY <4>1, <4>2, <4>6, <1>t DEF RequestSector
        <5>2. \A i \in Slots : ~(Front' - 1 - Age(i)' >= new)
          <6> SUFFICES ASSUME NEW i \in Slots PROVE ~(Front' - 1 - Age(i)' >= new)
              OBVIOUS
          <6>1. Front' = new /\ Age(i)' = Age(i)
              BY <2>0, <4>2, <5>1 DEF Front, Age, AgeAt, sbVars
          <6>2. Age(i) \in 0 .. SBSize - 1
              BY <1>t, AgesStep DEF Age
          <6> QED BY <6>1, <6>2, <4>1, ReadAheadAssumption
        <5> HIDE DEF new, q
        <5> QED
            BY <2>0, <4>1, <4>2, <4>3, <4>4, <5>1, <5>2, ReadAheadAssumption DEF q
      <4>7. CASE new = last_read_lba
        <5>1. UNCHANGED raVars
            BY <4>1, <4>2, <4>3, <4>7, <1>t DEF RequestSector, raVars
        <5>2. Front' = Front /\ \A i \in Slots : Age(i)' = Age(i)
            BY <2>0, <4>2, <5>1 DEF Front, Age, AgeAt, sbVars, raVars
        <5> HIDE DEF new, q
        <5> QED
            BY <2>0, <4>1, <4>2, <4>4, <4>7, <5>1, <5>2 DEF q, raVars, sbVars
      <4> QED BY <4>5, <4>6, <4>7
    <3> QED BY <3>2, <3>3
  <2> QED BY <1>2, <2>1, <2>2 DEF RT_Fetch
<1>3. CASE \E eject_status \in BOOLEAN : RT_EjectDisc(eject_status)
  <2>1. PICK e \in BOOLEAN : RT_EjectDisc(e)
      BY <1>3
  <2>2. ~InRead' /\ rt_pc' = "check" /\ rt_pc \in {"eject", "insert"}
      BY <2>1 DEF RT_EjectDisc, InRead, Control, emuVars
  <2>3. ForgetSectors \/ UNCHANGED <<raVars, sbVars>>
      BY <2>1 DEF RT_EjectDisc, TocGood, TocBad
  <2>4. CASE ForgetSectors
      BY <2>2, <2>4 DEF ForgetSectors
  <2>5. CASE UNCHANGED <<raVars, sbVars>>
    <3>1. disc_toc' = disc_toc \/ last_read_lba = NoLBA
      <4>1. cda_disc' \in Discs
          BY <2>1, <1>t DEF RT_EjectDisc, DiscAfterEject
      <4>2. CASE TocBad(cda_disc') /\ DiscEjected
          BY <4>1, <4>2, BadTocsArePBP DEF TocBad, Tray
      <4>3. CASE TocGood(cda_disc')
          BY <4>3, <2>5 DEF TocGood, ForgetSectors, raVars
      <4> QED BY <2>1, <2>5, <4>2, <4>3 DEF RT_EjectDisc, ForgetSectors, raVars
    <3> QED
        BY <2>2, <2>5, <3>1 DEF Front, Age, AgeAt, raVars, sbVars
  <2> QED BY <2>3, <2>4, <2>5
<1>4. CASE RT_ReadAhead
  <2>1. /\ UNCHANGED <<sbVars, disc_toc, emuVars, ReadThreadQueue, ra_lba, last_read_lba>>
        /\ rt_pc = "check" /\ rt_pc' \in {"fetch", "done", "lock"}
      BY <1>4 DEF RT_ReadAhead, NextIteration, discVars, queues
  <2>2. Front' = Front /\ \A i \in Slots : Age(i)' = Age(i)
      BY <2>1 DEF Front, Age, AgeAt, sbVars
  <2>3. (InRead => /\ emu_arg < disc_toc.end
                   /\ ReadThreadQueue = <<>> => last_read_lba = emu_arg
                   /\ ReadThreadQueue # <<>> =>
                        ReadThreadQueue[Len(ReadThreadQueue)] = READ_SECTOR(emu_arg))'
      BY <2>1 DEF InRead, emuVars, READ_SECTOR
  <2>4. CASE rt_pc' = "lock"
    <3>1. ra_count' = ra_count /\ ra_count > 0 /\ ra_lba # disc_toc.end
          /\ tmpbuf'.valid /\ tmpbuf'.lba = ra_lba
        BY <1>4, <2>4 DEF RT_ReadAhead, NextIteration, SectorsRead
    <3> QED BY <2>1, <2>2, <2>3, <2>4, <3>1 DEF sbVars
  <2>5. CASE rt_pc' # "lock"
    <3>1. ra_count' = 0 /\ (ra_count = 0 \/ ra_lba = disc_toc.end)
        BY <1>4, <2>5 DEF RT_ReadAhead, NextIteration
    <3>2. last_read_lba # NoLBA => ra_lba + 0 <= last_read_lba + max_ra + 1
        BY <1>t
    <3> QED BY <2>1, <2>2, <2>3, <2>5, <3>1, <3>2 DEF sbVars
  <2> QED BY <2>4, <2>5
<1>5. CASE RT_Lock
  <2>1. /\ UNCHANGED <<sbVars, disc_toc, emuVars, ReadThreadQueue, raVars, tmpbuf>>
        /\ rt_pc = "lock" /\ rt_pc' = "store"
      BY <1>5 DEF RT_Lock, discVars, queues
  <2>2. Front' = Front /\ \A i \in Slots : Age(i)' = Age(i)
      BY <2>1 DEF Front, Age, AgeAt, sbVars, raVars
  <2> QED BY <2>1, <2>2 DEF InRead, emuVars, sbVars, raVars, READ_SECTOR
<1>6. CASE RT_Store
  <2>1. /\ UNCHANGED <<disc_toc, ReadThreadQueue, raVars, tmpbuf, emu_arg>>
        /\ InRead' => InRead
        /\ rt_pc = "store" /\ rt_pc' = "unlock"
      BY <1>6 DEF RT_Store, SignalBuffers, discVars, queues, InRead
  <2>2. ASSUME NEW i \in Slots, last_read_lba # NoLBA, Front' - 1 - Age(i)' >= last_read_lba
        PROVE  (SectorBuffers[i].valid /\ SectorBuffers[i].lba = Front - 1 - Age(i))'
    <3>1. Front = ra_lba /\ Front' = ra_lba + 1
        BY <2>1 DEF Front, raVars
    <3>2. SectorBuffers' = [SectorBuffers EXCEPT ![SBWritePos] = tmpbuf]
          /\ SBWritePos' = NextSlot(SBWritePos)
        BY <1>6 DEF RT_Store
    <3>3. CASE i = SBWritePos
      <4>1. Age(i)' = 0
          BY <3>2, <3>3, <1>t, AgesStep DEF Age
      <4>2. SectorBuffers'[i] = tmpbuf
          BY <3>2, <3>3, <1>t
      <4>3. tmpbuf.valid /\ tmpbuf.lba = ra_lba
          BY <2>1
      <4> QED BY <3>1, <4>1, <4>2, <4>3, <1>t
    <3>4. CASE i # SBWritePos
      <4>1. Age(i)' = Age(i) + 1 /\ Age(i) \in Int
          BY <3>2, <3>4, <1>t, AgesStep, ReadAheadAssumption DEF Age
      <4>2. SectorBuffers'[i] = SectorBuffers[i]
          BY <3>2, <3>4, <1>t
      <4>3. Front' - 1 - Age(i)' = Front - 1 - Age(i)
          BY <3>1, <4>1, <1>t
      <4>4. Front - 1 - Age(i) >= last_read_lba
          BY <2>2, <4>3
      <4> QED BY <2>2, <4>2, <4>3, <4>4
    <3> QED BY <3>3, <3>4
  <2> QED BY <2>1, <2>2 DEF raVars, READ_SECTOR
<1>7. CASE RT_Unlock
  <2>1. /\ UNCHANGED <<sbVars, disc_toc, emuVars, ReadThreadQueue, last_read_lba>>
        /\ rt_pc = "unlock" /\ rt_pc' \in {"fetch", "done"}
        /\ ra_lba' = ra_lba + 1 /\ ra_count' = ra_count - 1
      BY <1>7 DEF RT_Unlock, NextIteration, discVars, queues
  <2>2. Front' = Front /\ \A i \in Slots : Age(i)' = Age(i)
      BY <2>1 DEF Front, Age, AgeAt, sbVars
  <2>3. last_read_lba # NoLBA /\ ra_count > 0
      BY <2>1 DEF Typed
  <2>4. ra_lba' + ra_count' <= last_read_lba + max_ra + 1 /\ ~(ra_lba' <= last_read_lba)
      BY <2>1, <2>3, <1>t
  <2> QED BY <2>1, <2>2, <2>3, <2>4 DEF InRead, emuVars, sbVars, READ_SECTOR
<1>8. CASE EmuContinues \/ SpuriousWakeup
  <2>1. UNCHANGED <<raVars, sbVars, disc_toc, rt_pc, tmpbuf, ReadThreadQueue>>
      BY <1>8 DEF EmuContinues, SpuriousWakeup, Constructor, LockBuffers, ScanBuffers, ReturnSector,
                  EjectReturns, JoinThread, discVars, rtVars, queues
  <2>2. InRead' => InRead /\ UNCHANGED emu_arg
      BY <1>8 DEF EmuContinues, SpuriousWakeup, Constructor, LockBuffers, ScanBuffers, ReturnSector,
                  EjectReturns, JoinThread, InRead
  <2> QED BY <2>1, <2>2, <1>0
<1>9. CASE EmuCalls
  <2>0. UNCHANGED <<raVars, sbVars, disc_toc, rt_pc, tmpbuf>>
      BY <1>9 DEF EmuCalls, SelectDisc, HintReadSector, ReadRawSector, Eject, Destroy, discVars, rtVars
  <2>1. CASE ~InRead'
      BY <1>0, <2>0, <2>1
  <2>2. CASE InRead'
    <3>1. PICK lba \in LBAs : ReadRawSector(lba)
        BY <1>9, <2>2 DEF EmuCalls, SelectDisc, HintReadSector, Eject, Destroy, InRead, emuVars
    <3>2. /\ emu_arg' = lba /\ lba < disc_toc.end
          /\ ReadThreadQueue' = Append(ReadThreadQueue, READ_SECTOR(lba))
        BY <3>1 DEF ReadRawSector, Post
    <3>3. ReadThreadQueue' # <<>> /\ ReadThreadQueue'[Len(ReadThreadQueue')] = READ_SECTOR(lba)
        BY <3>2, <1>t, MessagesHaveTheirType, AppendedQueue
    <3>4. Front' = Front /\ \A i \in Slots : Age(i)' = Age(i)
        BY <2>0 DEF Front, Age, AgeAt, sbVars, raVars
    <3> QED BY <2>0, <3>2, <3>3, <3>4 DEF raVars, sbVars, READ_SECTOR
  <2> QED BY <2>1, <2>2
<1>10. CASE UNCHANGED vars
    BY <1>0, <1>10 DEF vars, emuVars, discVars, rtVars, queues, InRead
<1> QED
    BY <1>1, <1>2, <1>3, <1>4, <1>5, <1>6, <1>7, <1>8, <1>9, <1>10 DEF Next, ReadThread, Gone

------------------------------------------------------------------------------
(***************************************************************************)
(* Tray: what is buffered was read from the disc in the drive.             *)
(***************************************************************************)
LEMMA TrayInit == Init => Tray
BY DEF Init, Tray, EmptySector

LEMMA TrayStep == Typed /\ Control /\ Window /\ Tray /\ [Next]_vars => Tray'
<1> SUFFICES ASSUME Typed, Control, Window, Tray, [Next]_vars PROVE Tray'
    OBVIOUS
<1>t. /\ ReadThreadQueue \in Seq(Messages) /\ EmuThreadQueue \in Seq(Replies)
      /\ SBWritePos \in Slots /\ SectorBuffers \in [Slots -> Sector]
      /\ DiscEjected \in BOOLEAN /\ cda_disc \in Discs /\ tray_open \in BOOLEAN
    BY DEF Typed, TypeOK
<1> USE DEF Tray
<1>1. CASE RT_Start
  <2>1. ForgetSectors \/ UNCHANGED <<raVars, sbVars>>
      BY <1>1 DEF RT_Start, TocGood, TocBad
  <2>2. ~DiscEjected' /\ cda_disc' = cda_disc /\ rt_pc' \in {"fetch", "done"} /\ emu_pc' = "ctor"
      BY <1>1 DEF RT_Start, Control, emuVars
  <2>3. \A i \in Slots : SectorBuffers'[i].valid => SectorBuffers'[i].disc = cda_disc
      BY <2>1 DEF ForgetSectors, EmptySector, sbVars
  <2> QED BY <2>2, <2>3
<1>2. CASE RT_Fetch
  <2>1. /\ UNCHANGED <<emuVars, SectorBuffers, discVars, EmuThreadQueue>>
        /\ rt_pc = "fetch" /\ rt_pc' \in {"check", "eject", "insert"}
      BY <1>2 DEF RT_Fetch, sbVars
  <2>2. ASSUME CD_IsPBP, DiscEjected
        PROVE  /\ last_read_lba' = NoLBA
               /\ \A i \in 1 .. Len(ReadThreadQueue') : ~IsRead(ReadThreadQueue'[i])
    <3>1. CASE UNCHANGED <<ReadThreadQueue, raVars>>
        BY <2>2, <3>1 DEF raVars
    <3>2. CASE ReadThreadQueue # <<>> /\ ReadThreadQueue' = Tail(ReadThreadQueue)
      <4>1. ~IsRead(Head(ReadThreadQueue))
          BY <2>2, <3>2, <1>t, TailOfQueue
      <4>2. last_read_lba' = last_read_lba
          BY <1>2, <3>2, <4>1 DEF RT_Fetch, IsRead, raVars
      <4> QED BY <2>2, <3>2, <4>2, <1>t, TailOfQueue
    <3> QED BY <1>2, <3>1, <3>2 DEF RT_Fetch
  <2> QED BY <2>1, <2>2 DEF emuVars, discVars, InRead
<1>3. CASE \E eject_status \in BOOLEAN : RT_EjectDisc(eject_status)
  <2>1. PICK e \in BOOLEAN : RT_EjectDisc(e)
      BY <1>3
  <2>2. /\ DiscEjected' = e /\ rt_pc' = "check" /\ rt_pc = (IF e THEN "eject" ELSE "insert")
        /\ emu_pc' = "msgwait" /\ UNCHANGED <<emuVars, ReadThreadQueue>>
        /\ EmuThreadQueue = <<>> /\ emu_arg = (IF e THEN 1 ELSE 0) /\ emu_arg' = emu_arg
        /\ ReadThreadQueue = <<>>
      BY <2>1 DEF RT_EjectDisc, Control, emuVars
  <2>3. ForgetSectors \/ UNCHANGED <<raVars, sbVars>>
      BY <2>1 DEF RT_EjectDisc, TocGood, TocBad
  <2>4. \A i \in Slots : SectorBuffers'[i].valid => SectorBuffers'[i].disc = cda_disc'
    <3>1. CASE ForgetSectors
        BY <3>1 DEF ForgetSectors, EmptySector
    <3>2. CASE UNCHANGED <<raVars, sbVars>> /\ cda_disc' = cda_disc
        BY <3>2 DEF sbVars
    <3>3. CASE UNCHANGED <<raVars, sbVars>> /\ cda_disc' # cda_disc
      <4>1. CD_IsPBP /\ DiscEjected
          BY <2>1, <3>3 DEF RT_EjectDisc, DiscAfterEject
      <4> QED BY <3>3, <4>1 DEF sbVars
    <3> QED BY <2>3, <3>1, <3>2, <3>3
  <2>5. ASSUME CD_IsPBP, e
        PROVE  /\ last_read_lba' = NoLBA /\ \A i \in Slots : ~SectorBuffers'[i].valid
               /\ EmuThreadQueue' # <<>> /\ Head(EmuThreadQueue') = "DONE" /\ emu_arg' = 1
    <3>1. Reply("DONE")
        BY <2>1, <2>5 DEF RT_EjectDisc
    <3>2. EmuThreadQueue' # <<>> /\ Head(EmuThreadQueue') = "DONE"
        BY <2>2, <3>1 DEF Reply
    <3>3. CASE DiscEjected
        BY <2>1, <2>2, <2>5, <3>2, <3>3 DEF RT_EjectDisc, raVars, sbVars
    <3>4. CASE ~DiscEjected
      <4>1. ForgetSectors
          BY <2>1, <2>5, <3>4 DEF RT_EjectDisc
      <4> QED BY <2>2, <2>5, <3>2, <4>1 DEF ForgetSectors, EmptySector
    <3> QED BY <3>3, <3>4
  <2>6. ~InRead' /\ \A i \in 1 .. Len(ReadThreadQueue') : ~IsRead(ReadThreadQueue'[i])
    <3>1. Len(ReadThreadQueue') = 0
        BY <2>2
    <3> QED BY <2>2, <3>1 DEF InRead
  <2> QED BY <2>2, <2>4, <2>5, <2>6
<1>4. CASE RT_ReadAhead
  <2>1. /\ UNCHANGED <<sbVars, discVars, emuVars, ReadThreadQueue, EmuThreadQueue, last_read_lba>>
        /\ rt_pc = "check" /\ rt_pc' \in {"fetch", "done", "lock"}
      BY <1>4 DEF RT_ReadAhead, NextIteration, queues
  <2>2. rt_pc' = "lock" => tmpbuf'.disc = cda_disc
      BY <1>4 DEF RT_ReadAhead, NextIteration, SectorsRead
  <2> QED BY <2>1, <2>2 DEF sbVars, discVars, emuVars, InRead
<1>5. CASE RT_Lock
    BY <1>5 DEF RT_Lock, sbVars, discVars, emuVars, queues, raVars, InRead
<1>6. CASE RT_Store
  <2>1. /\ UNCHANGED <<discVars, ReadThreadQueue, EmuThreadQueue, raVars, tmpbuf, emu_arg, buf, tray_open>>
        /\ InRead' => InRead
        /\ emu_pc' = "sbunlock" => emu_pc = "sbunlock"
        /\ emu_pc' = "msgwait" <=> emu_pc = "msgwait"
        /\ rt_pc = "store" /\ rt_pc' = "unlock"
      BY <1>6 DEF RT_Store, SignalBuffers, queues, InRead
  <2>2. ~(CD_IsPBP /\ DiscEjected)
      BY <2>1 DEF Typed, Window
  <2>3. \A i \in Slots : SectorBuffers'[i].valid => SectorBuffers'[i].disc = cda_disc
      BY <1>6, <2>1, <1>t DEF RT_Store
  <2> QED BY <2>1, <2>2, <2>3 DEF discVars, raVars
<1>7. CASE RT_Unlock
    BY <1>7 DEF RT_Unlock, NextIteration, sbVars, discVars, emuVars, queues, InRead
<1>8. CASE EmuContinues \/ SpuriousWakeup
  <2>0. UNCHANGED <<raVars, sbVars, discVars, rtVars, ReadThreadQueue>>
      BY <1>8 DEF EmuContinues, SpuriousWakeup, Constructor, LockBuffers, ScanBuffers, ReturnSector,
                  EjectReturns, JoinThread, queues
  <2>1. CASE EjectReturns
    <3>1. emu_pc = "msgwait" /\ EmuThreadQueue # <<>> /\ emu_pc' = "idle"
        BY <2>1 DEF EjectReturns
    <3>2. CD_IsPBP /\ DiscEjected => tray_open' = TRUE
        BY <2>1, <3>1, Zenon DEF EjectReturns
    <3> QED BY <2>0, <3>1, <3>2 DEF raVars, sbVars, discVars, rtVars, InRead
  <2>2. CASE ScanBuffers
    <3>1. emu_pc = "scan" /\ emu_pc' \in {"sbunlock", "sbwait"}
          /\ UNCHANGED <<emu_arg, tray_open, EmuThreadQueue>>
        BY <2>2 DEF ScanBuffers, queues
    <3>2. emu_pc' = "sbunlock" => buf'.disc = cda_disc /\ buf'.lba = emu_arg
      <4>1. SUFFICES ASSUME emu_pc' = "sbunlock" PROVE buf'.disc = cda_disc /\ buf'.lba = emu_arg
          OBVIOUS
      <4>2. Holding(emu_arg) # {} /\ buf' = SectorBuffers[LastOf(Holding(emu_arg))]
          BY <2>2, <4>1 DEF ScanBuffers
      <4>3. LastOf(Holding(emu_arg)) \in Holding(emu_arg)
          BY <4>2, LastIsASlot
      <4> HIDE DEF Tray
      <4>4. PICK i \in Slots : i = LastOf(Holding(emu_arg)) /\ SectorBuffers[i].valid
                                 /\ SectorBuffers[i].lba = emu_arg
          BY <4>3 DEF Holding
      <4> QED BY <4>2, <4>4 DEF Tray
    <3> QED BY <2>0, <3>1, <3>2 DEF raVars, sbVars, discVars, rtVars, InRead
  <2>3. CASE Constructor
    <3>1. emu_pc = "ctor" /\ emu_pc' \in {"idle", "join"} /\ UNCHANGED tray_open /\ ReadThreadQueue = <<>>
        BY <2>3 DEF Constructor, Control
    <3> QED BY <2>0, <3>1 DEF raVars, sbVars, discVars, rtVars, InRead
  <2>4. CASE LockBuffers \/ ReturnSector \/ JoinThread \/ SpuriousWakeup
    <3>1. /\ UNCHANGED <<tray_open, EmuThreadQueue>>
          /\ InRead' => InRead /\ UNCHANGED emu_arg
          /\ emu_pc' # "sbunlock" /\ emu_pc' # "msgwait" /\ emu_pc # "msgwait"
        BY <2>4 DEF LockBuffers, ReturnSector, JoinThread, SpuriousWakeup, InRead, queues
    <3> QED BY <2>0, <3>1 DEF raVars, sbVars, discVars, rtVars
  <2> QED BY <1>8, <2>1, <2>2, <2>3, <2>4 DEF EmuContinues
<1>9. CASE EmuCalls
  <2>0. /\ UNCHANGED <<raVars, sbVars, discVars, rtVars, tray_open, EmuThreadQueue>>
        /\ emu_pc = "idle" /\ emu_pc' # "sbunlock"
      BY <1>9 DEF EmuCalls, SelectDisc, HintReadSector, ReadRawSector, Eject, Destroy, queues, emuVars
  <2>1. EmuThreadQueue = <<>>
      BY <2>0 DEF Control
  <2>2. ASSUME CD_IsPBP, DiscEjected
        PROVE  /\ ~InRead'
               /\ \A i \in 1 .. Len(ReadThreadQueue') : ~IsRead(ReadThreadQueue'[i])
    <3>1. tray_open
        BY <2>0, <2>2
    <3>2. \/ UNCHANGED ReadThreadQueue
          \/ \E m \in Messages : ~IsRead(m) /\ ReadThreadQueue' = Append(ReadThreadQueue, m)
      <4>1. CASE SelectDisc
          BY <4>1 DEF SelectDisc, queues
      <4>2. ASSUME NEW e \in {0, 1}, Eject(e)
            PROVE \E m \in Messages : ~IsRead(m) /\ ReadThreadQueue' = Append(ReadThreadQueue, m)
          BY <4>2, MessagesHaveTheirType DEF Eject, Post, EJECT, IsRead
      <4>3. CASE Destroy
          BY <4>3, MessagesHaveTheirType DEF Destroy, Post, DIEDIEDIE, IsRead
      <4>4. ASSUME NEW lba \in LBAs, HintReadSector(lba) \/ ReadRawSector(lba) PROVE FALSE
          BY <2>2, <3>1, <4>4 DEF HintReadSector, ReadRawSector, MayRead
      <4> QED BY <1>9, <4>1, <4>2, <4>3, <4>4 DEF EmuCalls
    <3>3. ~InRead'
        BY <1>9, <2>2, <3>1 DEF EmuCalls, SelectDisc, HintReadSector, ReadRawSector, Eject, Destroy,
                                MayRead, InRead
    <3>4. \A i \in 1 .. Len(ReadThreadQueue') : ~IsRead(ReadThreadQueue'[i])
      <4>1. CASE UNCHANGED ReadThreadQueue
          BY <2>2, <4>1
      <4>2. ASSUME NEW m \in Messages, ~IsRead(m), ReadThreadQueue' = Append(ReadThreadQueue, m)
            PROVE \A i \in 1 .. Len(ReadThreadQueue') : ~IsRead(ReadThreadQueue'[i])
          BY <2>2, <4>2, <1>t, AppendedQueue
      <4> QED BY <3>2, <4>1, <4>2
    <3> QED BY <3>3, <3>4
  <2> QED BY <2>0, <2>1, <2>2 DEF raVars, sbVars, discVars, rtVars
<1>10. CASE UNCHANGED vars
    BY <1>10 DEF vars, emuVars, raVars, sbVars, discVars, rtVars, queues, InRead
<1> QED
    BY <1>1, <1>2, <1>3, <1>4, <1>5, <1>6, <1>7, <1>8, <1>9, <1>10 DEF Next, ReadThread, Gone

------------------------------------------------------------------------------
LEMMA IInvAlways == Spec => []IInv
<1>1. Init => IInv
    BY TypedInit, ControlInit, WindowInit, TrayInit DEF IInv
<1>2. IInv /\ [Next]_vars => IInv'
    BY TypedStep, ControlStep, WindowStep, TrayStep DEF IInv
<1> QED
    BY <1>1, <1>2, PTL DEF Spec

(***************************************************************************)
(* A sector handed to the client comes from the disc in the drive, however *)
(* many discs a PBP file holds and whatever swaps and failed insertions    *)
(* came before the read.                                                   *)
(***************************************************************************)
THEOREM SectorsAreNotStale == Spec => []NoStaleSector
<1>1. IInv => NoStaleSector
    BY DEF IInv, Tray, NoStaleSector
<1> QED
    BY <1>1, IInvAlways, PTL

(***************************************************************************)
(* The read-ahead never runs more than max_ra + 1 sectors past the last    *)
(* request, for any read-ahead parameters.                                 *)
(***************************************************************************)
THEOREM ReadAheadIsBounded == Spec => []ReadAheadBounded
<1>1. IInv => ReadAheadBounded
    BY DEF IInv, Window, ReadAheadBounded
<1> QED
    BY <1>1, IInvAlways, PTL

(***************************************************************************)
(* A client that looks or waits for a sector has its request queued, its   *)
(* sector in the ring, or the read thread on the way to publishing it, as  *)
(* long as the ring is larger than the read-ahead.                         *)
(***************************************************************************)
THEOREM RequestsAreNotLost == Spec => []RequestNotLost
<1>1. IInv => RequestNotLost
  <2> SUFFICES ASSUME IInv, InRead
               PROVE  \/ \E i \in DOMAIN ReadThreadQueue : ReadThreadQueue[i] = READ_SECTOR(emu_arg)
                      \/ Holding(emu_arg) # {}
                      \/ rt_pc \in {"check", "lock", "store"} /\ ra_lba = emu_arg /\ ra_count > 0
      BY DEF RequestNotLost, InRead
  <2>t. /\ ReadThreadQueue \in Seq(Messages) /\ SBWritePos \in Slots
        /\ ra_lba \in Nat /\ ra_count \in Nat /\ last_read_lba \in LBAs \cup {NoLBA}
        /\ emu_arg \in LBAs \cup {0, 1}
      BY DEF IInv, Typed, TypeOK
  <2>1. CASE ReadThreadQueue # <<>>
    <3>1. ReadThreadQueue[Len(ReadThreadQueue)] = READ_SECTOR(emu_arg)
        BY <2>1 DEF IInv, Window
    <3>2. Len(ReadThreadQueue) \in DOMAIN ReadThreadQueue
        BY <2>1, <2>t
    <3> QED BY <3>1, <3>2
  <2>2. CASE ReadThreadQueue = <<>>
    <3>1. last_read_lba = emu_arg /\ emu_arg < disc_toc.end /\ emu_arg \in Nat /\ emu_arg # NoLBA
        BY <2>2, <2>t, BoundsAssumption DEF IInv, Window, LBAs, NoLBA
    <3>2. CASE Front <= emu_arg
      <4>1. ra_lba <= last_read_lba /\ rt_pc # "unlock"
          BY <3>1, <3>2, <2>t DEF Front, IInv, Window
      <4> QED BY <3>1, <4>1, <2>t DEF IInv, Window
    <3>3. CASE ~(Front <= emu_arg)
      <4> DEFINE n == Front - 1 - emu_arg
      <4>1. n \in 0 .. SBSize - 1
        <5>1. Front <= emu_arg + max_ra + 1 /\ Front \in Nat
            BY <3>1, <2>t, ReadAheadAssumption DEF Front, IInv, Typed, Window
        <5> QED BY <5>1, <3>1, <3>3, ReadAheadAssumption
      <4>2. PICK i \in Slots : AgeAt(i, SBWritePos) = n
        <5> HIDE DEF n
        <5> QED BY <4>1, <2>t, EveryAgeIsInTheRing
      <4>3. Front - 1 - Age(i) = emu_arg
          BY <4>2, <3>1, <2>t DEF Age, Front
      <4>4. SectorBuffers[i].valid /\ SectorBuffers[i].lba = emu_arg
          BY <3>1, <4>3 DEF IInv, Window
      <4> QED BY <4>4 DEF Holding
    <3> QED BY <3>2, <3>3
  <2> QED BY <2>1, <2>2
<1> QED
    BY <1>1, IInvAlways, PTL

(***************************************************************************)
(* No step moves the ring while the emulation thread holds SBMutex, though *)
(* RT_EjectDisc clears it without the mutex.                               *)
(***************************************************************************)
THEOREM RingIsHeldStill == Spec => RingHeldStill
<1>1. Typed /\ Control /\ [Next]_vars => [SBMutex = "emu" => UNCHANGED sbVars]_vars
  <2> SUFFICES ASSUME Control, Next, SBMutex = "emu" PROVE UNCHANGED sbVars
      OBVIOUS
  <2>1. emu_pc \in {"scan", "sbunlock"} /\ rt_pc \notin {"start", "eject", "insert", "store"}
      BY DEF Control
  <2>2. CASE ReadThread
      BY <2>1, <2>2 DEF ReadThread, RT_Start, RT_Fetch, RT_EjectDisc, RT_ReadAhead, RT_Lock,
                        RT_Store, RT_Unlock
  <2>3. CASE ~ReadThread
      BY <2>3 DEF Next, EmuContinues, EmuCalls, SpuriousWakeup, Gone, Constructor, SelectDisc,
                  HintReadSector, ReadRawSector, LockBuffers, ScanBuffers, ReturnSector, Eject,
                  EjectReturns, Destroy, JoinThread, vars
  <2> QED BY <2>2, <2>3
<1> QED
    BY <1>1, TypedInit, ControlInit, TypedStep, ControlStep, PTL DEF Spec, RingHeldStill

------------------------------------------------------------------------------
(***************************************************************************)
(* The threads implement the single-threaded interface.                    *)
(***************************************************************************)
\* What the step proof needs beside IInv: a sector carries an error only if reads can fail.
Errors == {FALSE, ReadCanFail}
ErrorsInv ==
  /\ tmpbuf.error \in Errors /\ \A i \in Slots : SectorBuffers[i].error \in Errors
  /\ rt_pc = "start" => ~DiscEjected

LEMMA ErrorsAlways == Spec => []ErrorsInv
<1>1. Init => ErrorsInv
  <2> SUFFICES ASSUME Init PROVE ErrorsInv
      OBVIOUS
  <2>1. EmptySector.error \in Errors
      BY DEF EmptySector, Errors
  <2>2. \A i \in Slots : SectorBuffers[i].error \in Errors
      BY <2>1 DEF Init
  <2>3. tmpbuf.error \in Errors /\ ~DiscEjected
      BY <2>1, Zenon DEF Init
  <2> QED BY <2>2, <2>3, Zenon DEF ErrorsInv
<1>2. Typed /\ ErrorsInv /\ [Next]_vars => ErrorsInv'
  <2> SUFFICES ASSUME Typed, ErrorsInv, [Next]_vars PROVE ErrorsInv'
      OBVIOUS
  <2>t. SBWritePos \in Slots /\ SectorBuffers \in [Slots -> Sector] /\ EmptySector.error \in Errors
      BY DEF Typed, TypeOK, EmptySector, Errors
  <2>1. CASE RT_Start \/ \E e \in BOOLEAN : RT_EjectDisc(e)
    <3>1. ForgetSectors \/ UNCHANGED sbVars
        BY <2>1 DEF RT_Start, RT_EjectDisc, TocGood, TocBad
    <3>2. UNCHANGED tmpbuf /\ rt_pc' # "start"
        BY <2>1 DEF RT_Start, RT_EjectDisc
    <3> QED BY <3>1, <3>2, <2>t DEF ErrorsInv, ForgetSectors, sbVars
  <2>2. CASE RT_ReadAhead
    <3>1. tmpbuf'.error \in Errors
        BY <2>2 DEF RT_ReadAhead, ErrorsInv, SectorsRead, Errors
    <3> QED BY <2>2, <3>1 DEF RT_ReadAhead, NextIteration, ErrorsInv, sbVars
  <2>3. CASE RT_Store
      BY <2>3, <2>t DEF RT_Store, ErrorsInv
  <2>4. CASE RT_Unlock
      BY <2>4, <2>t DEF RT_Unlock, NextIteration, ErrorsInv, sbVars
  <2>5. CASE RT_Fetch \/ RT_Lock
      BY <2>5 DEF RT_Fetch, RT_Lock, ErrorsInv, sbVars
  <2>6. CASE EmuContinues \/ EmuCalls \/ SpuriousWakeup \/ UNCHANGED vars
    <3>1. UNCHANGED <<sbVars, tmpbuf, rt_pc, DiscEjected>>
        BY <2>6 DEF EmuContinues, EmuCalls, SpuriousWakeup, Constructor, SelectDisc,
                  HintReadSector, ReadRawSector, LockBuffers, ScanBuffers, ReturnSector, Eject,
                  EjectReturns, Destroy, JoinThread, vars, rtVars, discVars
    <3> QED BY <3>1 DEF ErrorsInv, sbVars
  <2> QED BY <2>1, <2>2, <2>3, <2>4, <2>5, <2>6 DEF Next, ReadThread, Gone
<1> QED
    BY <1>1, <1>2, TypedInit, TypedStep, PTL DEF Spec

LEMMA STInit == Init => ST!Init
<1> SUFFICES ASSUME Init PROVE ST!Init
    OBVIOUS
<1>1. emu_pc = "ctor" /\ EmuThreadQueue = <<>>
    BY Zenon DEF Init
<1>2. STpc = "ctor"
    BY <1>1 DEF STpc
<1>3. buf = ST!EmptySector /\ disc_toc = ST!EmptyToc
    BY DEF Init, EmptySector, ST!EmptySector, EmptyToc, ST!EmptyToc
<1>4. (EmuThreadQueue = <<>> \/ Head(EmuThreadQueue) = "DONE") = TRUE
    BY <1>1
<1>5. emu_arg = 0 /\ tray_open = FALSE /\ CD_SelectedDisc = 0 /\ DiscEjected = FALSE /\ cda_disc = 0
    BY Zenon DEF Init
<1> QED BY <1>2, <1>3, <1>4, <1>5, Zenon DEF ST!Init

LEMMA STStep == IInv /\ ErrorsInv /\ [Next]_vars => [ST!Next]_ST!vars
<1> SUFFICES ASSUME IInv, ErrorsInv, [Next]_vars PROVE ST!Next \/ UNCHANGED ST!vars
    OBVIOUS
<1>t. /\ ReadThreadQueue \in Seq(Messages) /\ EmuThreadQueue \in Seq(Replies)
      /\ DiscEjected \in BOOLEAN /\ SectorBuffers \in [Slots -> Sector]
    BY DEF IInv, Typed, TypeOK
<1>0. ASSUME UNCHANGED <<emu_pc, emu_arg, buf, tray_open, CD_SelectedDisc, discVars, EmuThreadQueue>>
      PROVE  UNCHANGED ST!vars
    BY <1>0 DEF ST!vars, ST!clientVars, ST!discVars, STpc, discVars
<1>1. CASE RT_Start
  <2>1. /\ emu_pc = "ctor" /\ EmuThreadQueue = <<>> /\ ~DiscEjected
        /\ UNCHANGED <<emuVars, cda_disc>> /\ DiscEjected' = DiscEjected
      BY <1>1, <1>t DEF RT_Start, IInv, Control, ErrorsInv
  <2>2. \/ disc_toc' = GoodToc(cda_disc) /\ EmuThreadQueue' = <<"DONE">>
        \/ disc_toc' \in BadTocs(cda_disc) /\ EmuThreadQueue' = <<"FATAL_ERROR">>
      BY <1>1, <2>1 DEF RT_Start, TocGood, TocBad, Reply
  <2>3. STpc = "ctor" /\ STpc' = "constructed"
      BY <2>1, <2>2 DEF STpc, emuVars
  <2>4. ST!Construct
      BY <2>1, <2>2, <2>3 DEF ST!Construct, ST!ReadToc, ST!clientVars, ST!GoodToc, ST!BadTocs, GoodToc, BadTocs, emuVars
  <2> QED BY <2>4 DEF ST!Next, ST!CallContinues
<1>2. CASE RT_Fetch \/ RT_ReadAhead \/ RT_Lock \/ RT_Unlock
    BY <1>0, <1>2 DEF RT_Fetch, RT_ReadAhead, RT_Lock, RT_Unlock, emuVars, queues
<1>3. CASE RT_Store
  <2>1. UNCHANGED <<emu_arg, buf, tray_open, CD_SelectedDisc, discVars, EmuThreadQueue>>
      BY <1>3 DEF RT_Store, queues
  <2>2. UNCHANGED STpc
      BY <1>3, <2>1 DEF RT_Store, SignalBuffers, STpc
  <2> QED BY <2>1, <2>2 DEF ST!vars, ST!clientVars, ST!discVars, discVars
<1>4. CASE \E e \in BOOLEAN : RT_EjectDisc(e)
  <2>1. PICK e \in BOOLEAN : RT_EjectDisc(e)
      BY <1>4
  <2>2. /\ emu_pc = "msgwait" /\ EmuThreadQueue = <<>> /\ e = (emu_arg = 1)
        /\ UNCHANGED emuVars
      BY <2>1, <1>t DEF RT_EjectDisc, IInv, Control
  <2>3. Reply("DONE") => EmuThreadQueue' = <<"DONE">>
      BY <2>2 DEF Reply
  <2>4. Reply("FATAL_ERROR") => EmuThreadQueue' = <<"FATAL_ERROR">>
      BY <2>2 DEF Reply
  <2>5. EmuThreadQueue' # <<>>
      BY <2>1, <2>3, <2>4 DEF RT_EjectDisc
  <2>6. STpc = "eject" /\ STpc' = "ejected"
      BY <2>2, <2>5 DEF STpc, emuVars
  <2>a. UNCHANGED <<emu_arg, buf, ST!clientVars>> /\ DiscEjected' = e
      BY <2>1, <2>2 DEF RT_EjectDisc, emuVars, ST!clientVars
  <2>b. cda_disc' = IF DiscEjected # (emu_arg = 1)
                     THEN ST!DiscAfterEject(emu_arg = 1, CD_SelectedDisc, cda_disc) ELSE cda_disc
      BY <2>1, <2>2, Zenon DEF RT_EjectDisc, DiscAfterEject, ST!DiscAfterEject, Discs, ST!Discs
  <2>c. \/ (DiscEjected = e \/ e) /\ EmuThreadQueue' = <<"DONE">> /\ UNCHANGED disc_toc
        \/ DiscEjected /\ ~e /\ EmuThreadQueue' = <<"DONE">> /\ disc_toc' = GoodToc(cda_disc')
        \/ DiscEjected /\ ~e /\ EmuThreadQueue' = <<"FATAL_ERROR">> /\ disc_toc' \in BadTocs(cda_disc')
      BY <2>1, <2>3, <2>4, Zenon DEF RT_EjectDisc, TocGood, TocBad
  <2> DEFINE result == EmuThreadQueue = <<>> \/ Head(EmuThreadQueue) = "DONE"
  <2>d. EmuThreadQueue' = <<"DONE">> => result' = TRUE
      OBVIOUS
  <2>e. EmuThreadQueue' = <<"FATAL_ERROR">> => result' = FALSE
    <3> SUFFICES ASSUME EmuThreadQueue' = <<"FATAL_ERROR">> PROVE ~result'
        OBVIOUS
    <3>1. Head(EmuThreadQueue') = "FATAL_ERROR" /\ EmuThreadQueue' # <<>>
        BY <2>5
    <3> QED BY <3>1
  <2>f. GoodToc(cda_disc') = ST!GoodToc(cda_disc') /\ BadTocs(cda_disc') = ST!BadTocs(cda_disc')
      BY DEF GoodToc, BadTocs, ST!GoodToc, ST!BadTocs
  <2>g. \/ (DiscEjected = (emu_arg = 1) \/ emu_arg = 1) /\ result' = TRUE /\ UNCHANGED disc_toc
        \/ DiscEjected /\ ~(emu_arg = 1)
             /\ (\/ disc_toc' = ST!GoodToc(cda_disc') /\ result' = TRUE
                 \/ disc_toc' \in ST!BadTocs(cda_disc') /\ result' = FALSE)
      BY <2>c, <2>d, <2>e, <2>f, <2>2, Zenon
  <2>7. ST!Eject
      BY <2>2, <2>6, <2>a, <2>b, <2>g, Zenon DEF ST!Eject, ST!ReadToc
  <2> QED BY <2>7 DEF ST!Next, ST!CallContinues
<1>5. CASE Constructor
  <2>1. EmuThreadQueue' = <<>> /\ EmuThreadQueue # <<>> /\ emu_pc = "ctor"
      BY <1>5, <1>t, TailOfQueue DEF Constructor, TakeReply, IInv, Control
  <2>2. STpc = "constructed" /\ STpc' = IF Head(EmuThreadQueue) = "DONE" THEN "idle" ELSE "closing"
      BY <1>5, <2>1 DEF Constructor, STpc
  <2>3. ST!Constructed
      BY <1>5, <2>1, <2>2 DEF Constructor, ST!Constructed, ST!clientVars, ST!discVars, discVars
  <2> QED BY <2>3 DEF ST!Next, ST!CallContinues
<1>6. CASE ScanBuffers
  <2>1. emu_pc = "scan" /\ UNCHANGED <<emu_arg, tray_open, CD_SelectedDisc, discVars, EmuThreadQueue>>
      BY <1>6 DEF ScanBuffers, queues
  <2>2. CASE Holding(emu_arg) = {}
    <3>1. UNCHANGED buf /\ UNCHANGED STpc
        BY <1>6, <2>1, <2>2 DEF ScanBuffers, STpc
    <3> QED BY <2>1, <3>1 DEF ST!vars, ST!clientVars, ST!discVars, discVars
  <2>3. CASE Holding(emu_arg) # {}
    <3>1. buf' = SectorBuffers[LastOf(Holding(emu_arg))] /\ emu_pc' = "sbunlock"
        BY <1>6, <2>3 DEF ScanBuffers
    <3>2. LastOf(Holding(emu_arg)) \in Holding(emu_arg)
        BY <2>3, LastIsASlot
    <3>3. PICK i \in Slots : buf' = SectorBuffers[i] /\ SectorBuffers[i].valid
                               /\ SectorBuffers[i].lba = emu_arg
        BY <3>1, <3>2 DEF Holding
    <3>4. SectorBuffers[i] \in Sector /\ SectorBuffers[i].disc = cda_disc
          /\ SectorBuffers[i].error \in Errors
        BY <3>3, <1>t DEF IInv, Tray, ErrorsInv
    <3>5. buf' = [valid |-> TRUE, error |-> buf'.error, lba |-> emu_arg, disc |-> cda_disc]
        BY <3>3, <3>4 DEF Sector
    <3>6. buf' \in ST!SectorsRead(cda_disc, emu_arg)
        BY <3>3, <3>4, <3>5 DEF ST!SectorsRead, Errors
    <3>7. STpc = "read" /\ STpc' = "have sector"
        BY <2>1, <3>1 DEF STpc
    <3>8. ST!ReadRawSector
        BY <2>1, <3>6, <3>7 DEF ST!ReadRawSector, ST!clientVars, ST!discVars, discVars
    <3> QED BY <3>8 DEF ST!Next, ST!CallContinues
  <2> QED BY <2>2, <2>3
<1>7. CASE LockBuffers \/ SpuriousWakeup
  <2>1. UNCHANGED <<emu_arg, buf, tray_open, CD_SelectedDisc, discVars, EmuThreadQueue>>
      BY <1>7 DEF LockBuffers, SpuriousWakeup, queues
  <2>2. UNCHANGED STpc
      BY <1>7, <2>1 DEF LockBuffers, SpuriousWakeup, STpc
  <2> QED BY <2>1, <2>2 DEF ST!vars, ST!clientVars, ST!discVars, discVars
<1>8. CASE ReturnSector
  <2>1. STpc = "have sector" /\ STpc' = "idle"
      BY <1>8 DEF ReturnSector, STpc
  <2>2. ST!ReturnSector
      BY <1>8, <2>1 DEF ReturnSector, ST!ReturnSector, ST!clientVars, ST!discVars, discVars, queues,
                        EmptySector, ST!EmptySector
  <2> QED BY <2>2 DEF ST!Next, ST!CallContinues
<1>9. CASE EjectReturns
  <2>1. EmuThreadQueue' = <<>> /\ EmuThreadQueue # <<>> /\ emu_pc = "msgwait" /\ emu_pc' = "idle"
      BY <1>9, <1>t, TailOfQueue DEF EjectReturns, TakeReply, IInv, Control
  <2>2. STpc = "ejected" /\ STpc' = "idle"
      BY <2>1 DEF STpc
  <2>3. ST!EjectReturns
      BY <1>9, <2>1, <2>2, Zenon DEF EjectReturns, ST!EjectReturns, ST!TrayAfter, ST!discVars, discVars
  <2> QED BY <2>3 DEF ST!Next, ST!CallContinues
<1>10. CASE JoinThread
  <2>1. STpc = "closing" /\ STpc' = "gone"
      BY <1>10 DEF JoinThread, STpc
  <2>2. ST!Closed
      BY <1>10, <2>1 DEF JoinThread, ST!Closed, ST!clientVars, ST!discVars, discVars, queues
  <2> QED BY <2>2 DEF ST!Next, ST!CallContinues
<1>11. CASE EmuCalls
  <2>1. CASE SelectDisc
    <3>1. STpc = "idle" /\ STpc' = "idle"
        BY <2>1 DEF SelectDisc, STpc
    <3>2. ST!SelectDisc
        BY <2>1, <3>1 DEF SelectDisc, ST!SelectDisc, ST!discVars, discVars, queues
    <3> QED BY <3>2 DEF ST!Next, ST!NewCall
  <2>2. ASSUME NEW lba \in LBAs, HintReadSector(lba) PROVE UNCHANGED ST!vars
      BY <1>0, <2>2 DEF HintReadSector, emuVars
  <2>3. ASSUME NEW lba \in LBAs, ReadRawSector(lba) PROVE ST!Next
    <3>1. STpc = "idle" /\ STpc' = "read"
        BY <2>3 DEF ReadRawSector, STpc
    <3>2. ST!CallRead(lba)
        BY <2>3, <3>1 DEF ReadRawSector, ST!CallRead, ST!clientVars, ST!discVars, discVars
    <3> QED BY <3>2 DEF ST!Next, ST!NewCall, ST!LBAs, LBAs
  <2>4. ASSUME NEW e \in {0, 1}, Eject(e) PROVE ST!Next
    <3>1. EmuThreadQueue = <<>> /\ EmuThreadQueue' = EmuThreadQueue
        BY <2>4 DEF Eject, IInv, Control
    <3>2. STpc = "idle" /\ STpc' = "eject"
        BY <2>4, <3>1 DEF Eject, STpc
    <3>3. ST!CallEject(e)
        BY <2>4, <3>1, <3>2 DEF Eject, ST!CallEject, ST!clientVars, ST!discVars, discVars
    <3> QED BY <3>3 DEF ST!Next, ST!NewCall
  <2>5. CASE Destroy
    <3>1. STpc = "idle" /\ STpc' = "closing"
        BY <2>5 DEF Destroy, STpc
    <3>2. ST!Destroy
        BY <2>5, <3>1 DEF Destroy, ST!Destroy, ST!clientVars, ST!discVars, discVars
    <3> QED BY <3>2 DEF ST!Next, ST!NewCall
  <2> QED BY <1>11, <2>1, <2>2, <2>3, <2>4, <2>5 DEF EmuCalls
<1>12. CASE UNCHANGED vars
    BY <1>0, <1>12 DEF vars, emuVars, queues
<1> QED
    BY <1>1, <1>2, <1>3, <1>4, <1>5, <1>6, <1>7, <1>8, <1>9, <1>10, <1>11, <1>12
    DEF Next, ReadThread, EmuContinues, Gone

(***************************************************************************)
(* Every call to the threaded interface takes effect once, on the disc     *)
(* then in the drive, as the same call to the single-threaded one could:   *)
(* the safety part of ImplementsST.                                        *)
(***************************************************************************)
THEOREM ThreadsImplementST == Spec => ST!Init /\ [][ST!Next]_ST!vars
<1> QED
    BY STInit, STStep, IInvAlways, ErrorsAlways, PTL DEF Spec

------------------------------------------------------------------------------
(***************************************************************************)
(* The queues.  CDIF_MT posts and takes a message in one step; that the    *)
(* mutex and the condition variable below it make a queue is proved here,  *)
(* for any messages and any bound.                                         *)
(***************************************************************************)
\* A reader on its way to the head of the queue without having looked is a poll; one that
\* looked as a blocking read has seen a message, which only it can take.
Looked == /\ rd_pc = "take" /\ blocking => ze_queue # <<>>
          /\ rd_pc \in {"while", "asleep", "woken"} => blocking

QueueInv == Queue_TypeOK /\ NoLostWakeup /\ Looked

LEMMA QueueInit == Queue_Init => QueueInv
<1> SUFFICES ASSUME Queue_Init PROVE QueueInv
  OBVIOUS
<1>1. Queue_TypeOK
  <2>1. ze_queue \in Seq(Posted) /\ blocking \in BOOLEAN
    BY EmptySeq DEF Queue_Init
  <2>2. {message, written} \subseteq Posted \cup {NoMessage}
    BY DEF Queue_Init
  <2> QED
    BY <2>1, <2>2 DEF Queue_Init, Queue_TypeOK, ReaderHolds, WriterHolds
<1>2. NoLostWakeup /\ Looked
  BY DEF Queue_Init, NoLostWakeup, Looked
<1> QED
  BY <1>1, <1>2 DEF QueueInv

\* One step per action; a queue changes in Take and Push only.
LEMMA QueueNext == QueueInv /\ [Queue_Next]_queueVars => QueueInv'
<1> SUFFICES ASSUME QueueInv, [Queue_Next]_queueVars PROVE QueueInv'
  OBVIOUS
<1> USE QueueAssumption DEF QueueInv, Queue_TypeOK, NoLostWakeup, Looked,
           ReaderHolds, WriterHolds
<1>1. CASE UNCHANGED queueVars
  BY <1>1 DEF queueVars
<1>2. ASSUME NEW may_block \in BOOLEAN, Queue_Read(may_block) PROVE QueueInv'
  BY <1>2 DEF Queue_Read
<1>3. CASE ReadLock
  BY <1>3 DEF ReadLock
<1>4. CASE Wait
  BY <1>4 DEF Wait, Sleep
<1>5. CASE WakesUnasked
  BY <1>5 DEF WakesUnasked
<1>6. CASE Relock
  BY <1>6 DEF Relock, Relocked
<1>7. CASE Take
  <2>1. ze_queue # <<>> => Head(ze_queue) \in Posted /\ Tail(ze_queue) \in Seq(Posted)
    OBVIOUS
  <2> QED
    BY <1>7, <2>1 DEF Take
<1>8. CASE ReadUnlock
  BY <1>8 DEF ReadUnlock
<1>9. ASSUME NEW msg \in Posted, Queue_Write(msg) PROVE QueueInv'
  BY <1>9 DEF Queue_Write
<1>10. CASE WriteLock
  BY <1>10 DEF WriteLock
<1>11. CASE Push
  <2>1. Append(ze_queue, written) \in Seq(Posted) /\ Append(ze_queue, written) # <<>>
    BY <1>11 DEF Push
  <2> QED
    BY <1>11, <2>1 DEF Push
<1>12. CASE Signal
  BY <1>12 DEF Signal, Wakes
<1>13. CASE WriteUnlock
  BY <1>13 DEF WriteUnlock
<1> QED
  BY <1>1, <1>2, <1>3, <1>4, <1>5, <1>6, <1>7, <1>8, <1>9, <1>10, <1>11, <1>12, <1>13
     DEF Queue_Next, Reader, Writer

LEMMA QueueInvariant == Queue_Spec => []QueueInv
BY QueueInit, QueueNext, PTL DEF Queue_Spec

(***************************************************************************)
(* Both threads keep to the mutex: each holds it exactly between its lock  *)
(* and its unlock, for any messages.                                       *)
(***************************************************************************)
THEOREM QueueTypeCorrect == Queue_Spec => []Queue_TypeOK
<1>1. QueueInv => Queue_TypeOK
  BY DEF QueueInv
<1> QED
  BY QueueInvariant, <1>1, PTL

(***************************************************************************)
(* CDIF_Queue::Write never leaves the reader asleep beside a message.      *)
(***************************************************************************)
THEOREM WakeupsAreNotLost == Queue_Spec => []NoLostWakeup
<1>1. QueueInv => NoLostWakeup
  BY DEF QueueInv
<1> QED
  BY QueueInvariant, <1>1, PTL

(***************************************************************************)
(* Every step of the two functions is a step of the FIFO queue or leaves   *)
(* it alone; in particular a blocking read never returns without a         *)
(* message.                                                                *)
(***************************************************************************)
THEOREM QueueImplementsFIFO ==
  Queue_Spec => FIFO!Init /\ [][FIFO!Next]_FIFO!vars
<1>1. Queue_Init => FIFO!Init
  BY DEF Queue_Init, FIFO!Init
<1>2. QueueInv /\ [Queue_Next]_queueVars => [FIFO!Next]_FIFO!vars
  <2> SUFFICES ASSUME QueueInv, [Queue_Next]_queueVars PROVE FIFO!Next \/ UNCHANGED FIFO!vars
    OBVIOUS
  <2> USE QueueAssumption DEF QueueInv, Queue_TypeOK, Looked, FIFO!vars
  <2>1. CASE UNCHANGED queueVars
    BY <2>1 DEF queueVars
  <2>2. ASSUME NEW may_block \in BOOLEAN, Queue_Read(may_block) PROVE FIFO!Ask(may_block)
    BY <2>2 DEF Queue_Read, FIFO!Ask
  <2>3. CASE ReadLock
    BY <2>3 DEF ReadLock
  <2>4. CASE Wait
    BY <2>4 DEF Wait, Sleep
  <2>5. CASE WakesUnasked
    BY <2>5 DEF WakesUnasked
  <2>6. CASE Relock
    BY <2>6 DEF Relock, Relocked
  <2>7. CASE Take
    BY <2>7 DEF Take, FIFO!Next, FIFO!Answer, FIFO!Take, FIFO!Refuse
  <2>8. CASE ReadUnlock
    BY <2>8 DEF ReadUnlock
  <2>9. ASSUME NEW msg \in Posted, Queue_Write(msg) PROVE UNCHANGED FIFO!vars
    BY <2>9 DEF Queue_Write
  <2>10. CASE WriteLock
    BY <2>10 DEF WriteLock
  <2>11. CASE Push
    BY <2>11 DEF Push, FIFO!Next, FIFO!Post
  <2>12. CASE Signal
    BY <2>12 DEF Signal, Wakes
  <2>13. CASE WriteUnlock
    BY <2>13 DEF WriteUnlock
  <2> QED
    BY <2>1, <2>2, <2>3, <2>4, <2>5, <2>6, <2>7, <2>8, <2>9, <2>10, <2>11, <2>12, <2>13
       DEF Queue_Next, Reader, Writer, FIFO!Next
<1> QED
  BY QueueInvariant, <1>1, <1>2, PTL DEF Queue_Spec
==============================================================================
