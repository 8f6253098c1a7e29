---------------------------- MODULE MCEventQueue ----------------------------
(***************************************************************************)
(* Small instances of EventQueue: a blocking question and a heartbeat that *)
(* supersedes waiting records of its key.                                  *)
(***************************************************************************)
EXTENDS EventQueue, TLC

Question  == [blocking |-> TRUE, asker |-> "a", key |-> "k", admits |-> FALSE]
Heartbeat == [blocking |-> FALSE, asker |-> "b", key |-> "k", admits |-> TRUE]

MCBodies == {Question, Heartbeat}
JustQuestions == {Question}

Old(body) == Line("none", [id |-> 0, abandoned |-> FALSE, body |-> body])
Unreadable == Line("unreadable", [id |-> 0, abandoned |-> FALSE, body |-> Question])

R(id, body) == [id |-> id, abandoned |-> FALSE, body |-> body]

\* A heartbeat an older writer queued, a line nobody can read, and a question
\* behind it; a log whose first question is pending and abandoned by its asker,
\* while a second one waits.
MCOldLogs ==
  {<<Old(Heartbeat), Unreadable, Line("queued", R(1, Question))>>,
   <<Line("queued", R(0, Question)), Line("queued", R(1, Question)),
     Line("claimed", R(0, Question)),
     Line("abandoned", [R(0, Question) EXCEPT !.abandoned = TRUE])>>}

\* Two questions, the first one pending.
PendingLogs ==
  {<<Line("queued", R(0, Question)), Line("queued", R(1, Question)),
     Line("claimed", R(0, Question))>>}

Symmetry == Permutations(Procs)
=============================================================================
