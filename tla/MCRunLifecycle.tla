--------------------------- MODULE MCRunLifecycle ---------------------------
(* Model-checking instances of RunLifecycle.                               *)
EXTENDS RunLifecycle, TLC

Allow(replies, followUps, acts, deaths, losses) ==
    [replies |-> replies, queued |-> followUps, acts |-> acts, deaths |-> deaths,
     losses |-> losses]

\* Two launches and a death; a drained follow-up and a death; one launch with
\* a stop or verdict, a death and a command that is lost or late.
Mixed == {Allow(2, 0, 0, 1, 0), Allow(1, 1, 0, 1, 0), Allow(1, 0, 1, 1, 1)}
=============================================================================
