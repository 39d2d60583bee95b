-------------------------------- MODULE Part --------------------------------
(***************************************************************************)
(* The part of kubeturbo that a behaviour of the composed model moves.     *)
(***************************************************************************)

VARIABLE part
=============================================================================
