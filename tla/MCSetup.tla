------------------------------- MODULE MCSetup -------------------------------
(* All values of up to four characters; slots that straddle pages. *)
EXTENDS Setup, SequencesExt

ShortValues == BoundedSeq(Chars, 4)
=============================================================================
