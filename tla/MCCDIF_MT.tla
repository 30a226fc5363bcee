------------------------------ MODULE MCCDIF_MT ------------------------------
(***************************************************************************)
(* Model values for CDIF_MT: a PBP file of two discs, the first longer     *)
(* than the ring, the second shorter than what the client asks for.  The   *)
(* ring is as small as the read-ahead allows.                              *)
(***************************************************************************)
EXTENDS CDIF_MT

MCLeadOut == [d \in {0, 1} |-> IF d = 0 THEN 3 ELSE 1]
==============================================================================
