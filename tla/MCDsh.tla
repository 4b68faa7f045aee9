------------------------------- MODULE MCDsh -------------------------------
(***************************************************************************)
(* Finite instances of the execution engine: the sets of invocations the   *)
(* runs choose from.                                                       *)
(***************************************************************************)
EXTENDS Dsh

Invocation(copying, kill, status, batch, waits) ==
  [copying |-> copying, kill |-> kill, status |-> status, batch |-> batch,
   waits |-> waits]

\* pdsh as it is invoked most often, with an rcmd module that speaks to a daemon.
Plain == {Invocation(FALSE, FALSE, FALSE, FALSE, FALSE)}

\* The same with a child process per connection.
Waits == {Invocation(FALSE, FALSE, FALSE, FALSE, TRUE)}

\* pdsh -S and pdcp -S, which share everything but the worker's middle part.
StatusBoth == {Invocation(c, FALSE, TRUE, FALSE, FALSE) : c \in BOOLEAN}

\* Jobs that end early: by -k over child processes (or by ^C, at once with -b), and
\* by ^C and ^Z without any option.
Aborting == {Invocation(FALSE, TRUE, FALSE, TRUE, TRUE)} \cup Plain
=============================================================================
