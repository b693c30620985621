----------------------------- MODULE MCIcyDemux -----------------------------
(***************************************************************************)
(* Short ICY streams for TLC.                                              *)
(***************************************************************************)
EXTENDS IcyDemux

\* No metadata, metadata after every byte, metadata less often than reads end.
MCMetaints == {0, 1, 3}
=============================================================================
