----------------------------- MODULE MCUDPClient -----------------------------
(* Small instances of UDPClient for TLC.  Two-valued bytes leave four IDs:   *)
(* 0 and 3 read the same with their bytes swapped, 1 and 2 do not, and 3 is  *)
(* the "no ID" value, so that the counter wraps within a run.                *)
EXTENDS UDPClient

=============================================================================
