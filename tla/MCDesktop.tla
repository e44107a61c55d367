------------------------------- MODULE MCDesktop -------------------------------
(* Two apps: one with two windows, one with a single window. *)
EXTENDS Desktop, TLC

CONSTANTS notes, mail, c1, c2, s1, s2, s3

MCAppOf == (c1 :> notes) @@ (c2 :> mail)
MCOwner == (s1 :> c1) @@ (s2 :> c1) @@ (s3 :> c2)

\* The two windows of notes
TwoOfNotes == Permutations({s1, s2})
================================================================================
