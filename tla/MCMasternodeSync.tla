-------------------------- MODULE MCMasternodeSync --------------------------
(* Two peers, one of them too old for all but sporks, one hash per stage,  *)
(* a tick longer than every delay, so that each comparison has both        *)
(* outcomes.                                                               *)
EXTENDS MasternodeSync

CONSTANTS p1, p2, h1
=============================================================================
