------------------------------- MODULE MCImiraCast -------------------------------
(* Instances of ImiraCast for TLC. *)
EXTENDS ImiraCast, FiniteSets

\* One complication at a time, to bound a run: a scan, a report, a debug log, the
\* radio off, a supplicant that does not answer, a session that was killed, an
\* orphaned group.
Complications ==
  {<<1, scanFlag>>, <<2, reportReq>>, <<3, debugFlag \/ wpaMode = "debug">>, <<4, ~radio>>,
   <<5, supp = "mute">>, <<6, dirty>>, <<7, group = "left">>}
OneComplication == Cardinality({c \in Complications : c[2]}) <= 1
================================================================================
