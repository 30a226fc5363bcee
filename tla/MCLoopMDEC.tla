------------------------------ MODULE MCLoopMDEC ------------------------------
(***************************************************************************)
(* EventLoop and MDEC share no state and are checked in one run: part says *)
(* which one moves, the other rests in an initial state.  The fairness of  *)
(* MDEC is asked for while it is the one that moves.                       *)
(***************************************************************************)
EXTENDS EventLoop, MDEC

(* Components schedule one or two units ahead, so that events tie, overtake *)
(* each other and fall on the frame's end.                                  *)
MCDelays == {1, 2}

(* FIFOs of four words, blocks of two rows and of three coefficients; a row *)
(* has the widths of the code in the two colour depths, halved.  The colour *)
(* pictures are a macroblock and a bit.                                     *)
Picture(depth, count) == [op |-> 1, depth |-> depth, count |-> count, both |-> FALSE]
Table(op, both) == [op |-> op, depth |-> 0, count |-> 1, both |-> both]

MCWidth == [d \in 0..3 |-> CASE d = 0 -> 1 [] d = 1 -> 1 [] d = 2 -> 3 [] d = 3 -> 2]
MCCommands == {Picture(1, 2), Picture(2, 6), Picture(3, 7), Table(2, FALSE), Table(3, FALSE)}
MCData == {[lo |-> 0, hi |-> 2], [lo |-> END, hi |-> 0]}

------------------------------------------------------------------------------

VARIABLE part  \* "events" or "mdec"

MCInit ==
  /\ Loop_Init /\ MDEC_Init /\ part \in {"events", "mdec"}
  /\ part = "events" \/ sys = CHOOSE s \in Powered(FALSE) : TRUE

MCNext ==
  /\ UNCHANGED part
  /\ \/ part = "events" /\ Loop_Next /\ UNCHANGED mdecVars
     \/ part = "mdec"   /\ MDEC_Next /\ UNCHANGED loopVars

MCFairness ==
  LET InMDEC(A) == part = "mdec" /\ A
  IN /\ WF_mdecVars(InMDEC(Resume))
     /\ WF_mdecVars(InMDEC(\E clocks \in Clocks : MDEC_Update(clocks)))
     /\ WF_mdecVars(InMDEC(Supplies)) /\ WF_mdecVars(InMDEC(Takes))

MCSpec == MCInit /\ [][MCNext]_<<loopVars, mdecVars, part>> /\ MCFairness

\* What rests is always the same.
MCView == IF part = "events" THEN loopVars ELSE mdecVars
===============================================================================
