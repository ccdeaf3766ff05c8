---------------------------- MODULE MCAppProcess ----------------------------
(* Three calls and room for two, two crashes to the limit, two restarts.    *)
EXTENDS AppProcess
=============================================================================
