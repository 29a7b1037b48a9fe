----------------------------- MODULE MCLogFile -----------------------------
(* An instance of LogFile.  The second and the third hour are less than a  *)
(* day apart but of two days, so that the third finds the directory not    *)
(* searched again; the last is older than any file is kept.                *)
EXTENDS LogFile

MCTimes == {24, 70, 93, 121}
=============================================================================
