------------------------------ MODULE MCIngest ------------------------------
(***************************************************************************)
(* Small instances of Ingest for TLC: which deliveries there are.          *)
(***************************************************************************)
EXTENDS Ingest

\* Three views of one subject, two of them from the same second, the first of
\* them partial.
OneSubject == <<"pr", "pr", "pr">>
OneClock   == <<1, 1, 2>>
OneSets    == <<{"title"}, {"title", "state"}, {"title", "state"}>>

\* Two events write different columns of one row, each ordered by itself; the
\* third invalidates it.
TwoSubjects == <<"push", "push", "meta">>
TwoClock    == <<1, 2, 1>>
TwoSets     == <<{"title"}, {"title"}, {"state"}>>
DropSets    == <<{"title", "state"}, {}, {"state"}>>
=============================================================================
