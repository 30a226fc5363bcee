---------------------------- MODULE MCDiscControl ----------------------------
(***************************************************************************)
(* DiscControl is checked with the plain values of its configurations and  *)
(* a list of images: every negative selection means "no disc", and nobody  *)
(* asks the interfaces whether they are ejected.                           *)
(***************************************************************************)
EXTENDS DiscControl

Choice(selected) == IF selected < 0 THEN -1 ELSE selected
DiscView ==
  <<eject_state, CD_TrayOpen, Choice(CD_SelectedDisc), cdifs, opened, scex_ids, Cur_CDIF,
    {[s EXCEPT !.selected = Choice(@)] : s \in saved_state}, chosen, fault>>
==============================================================================
