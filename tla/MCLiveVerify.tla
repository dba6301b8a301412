----------------------------- MODULE MCLiveVerify -----------------------------
(***************************************************************************)
(* Two workstations, one followed to its judgement, in three kinds of      *)
(* verification: a release on two nodes and on one, with the gate of an    *)
(* installation, and the check after a rollback.                           *)
(***************************************************************************)
EXTENDS LiveVerify

ThreeModes ==
    {[dual |-> TRUE, native |-> TRUE, gated |-> TRUE],
     [dual |-> FALSE, native |-> TRUE, gated |-> TRUE],
     [dual |-> TRUE, native |-> FALSE, gated |-> FALSE]}
\* A clean report, reports with one thing against the release, and one with what does
\* not speak against it.
FewReports ==
    {Clean, [Clean EXCEPT !.hard = {"service"}], [Clean EXCEPT !.aged = {"release"}],
     [Clean EXCEPT !.limited = {"client"}],
     [Clean EXCEPT !.limited = {"external"}, !.unread = {"history"}]}
=============================================================================
