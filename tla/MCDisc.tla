-------------------------------- MODULE MCDisc --------------------------------
(***************************************************************************)
(* CDC and DiscControl share no state and are checked in one run: part     *)
(* says which one moves, the other rests in an initial state.  The runs    *)
(* that expect a violation take one of them alone.                         *)
(***************************************************************************)
EXTENDS MCCDC, MCDiscControl

VARIABLE part  \* "cdc" or "control"

MCInit ==
  /\ CDC_Init /\ DiscInit /\ part \in {"cdc", "control"}
  /\ part = "cdc" \/ cd.disc = {}

MCNext ==
  /\ UNCHANGED part
  /\ \/ part = "cdc"     /\ CDC_Next /\ UNCHANGED discVars
     \/ part = "control" /\ DiscNext /\ UNCHANGED cdcVars

MCSpec == MCInit /\ [][MCNext]_<<cdcVars, discVars, part>>

\* What rests is always the same.
MCView == IF part = "cdc" THEN LiveView ELSE DiscView
===============================================================================
