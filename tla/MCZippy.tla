------------------------------- MODULE MCZippy --------------------------------
(* An instance of ZippyTb with addresses of each kind, see MCZippy.cfg.     *)
EXTENDS ZippyTb

MCInOrder == <<0, 14, 15, 40, 44>>

===============================================================================
