----------------------------- MODULE ResidentSocket -----------------------------
(***************************************************************************)
(* How the resident processes started on one path come by it: `claim`      *)
(* looks at the path, takes over a socket nobody answers on, binds and     *)
(* records the pid, and `watch` then takes the identity of what stands at  *)
(* the path and stops the process when something else does.  Each call of  *)
(* the filesystem or of the socket is a step, and nothing locks the path.  *)
(* A socket is named by the process that bound it: its inode is not used   *)
(* again while that process lives, and that one is used again which only   *)
(* others still watch is left out.  The pid file is written in one step:   *)
(* who reads it half written reads a pid that is not its own.              *)
(***************************************************************************)
EXTENDS Integers

CONSTANTS
  Residents,    \* the processes started on the path
  NoResident,   \* none at all
  Gone,         \* one that was killed before any of them was started
  MaxSetbacks   \* how often the path is unlinked, a process killed, or a call refused

ASSUME ResidentAssumption ==
  NoResident # Gone /\ {NoResident, Gone} \cap Residents = {} /\ MaxSetbacks \in Nat

VARIABLES
  standing,     \* whose socket stands at the path
  recorded,     \* the pid in the pid file beside it
  startup,      \* how far each process is
  guards,       \* the socket each process watches
  setbacks      \* the unlinks, kills and refused calls so far

socketVars == <<standing, recorded, startup, guards, setbacks>>

Standing == {"listening", "recorded", "up", "forgetting"}
Ended == {"off", "refused", "failed", "stopped", "killed"}

\* Whether a connection to the path is accepted.
Responds(r) == r \in Residents /\ startup[r] \in Standing

SocketTypeOK ==
  /\ {standing, recorded} \subseteq Residents \cup {NoResident, Gone}
  /\ startup \in [Residents -> Standing \cup Ended \cup {"try", "stale", "bind", "bound"}]
  /\ guards \in [Residents -> Residents \cup {NoResident, Gone}]
  /\ setbacks \in 0..MaxSetbacks

\* Whatever an earlier resident left: its socket, its pid, both or neither.
SocketInit ==
  /\ standing \in {NoResident, Gone} /\ recorded \in {NoResident, Gone} /\ setbacks = 0
  /\ startup = [r \in Residents |-> "off"] /\ guards = [r \in Residents |-> NoResident]

Proceeds(r, from, to) == startup[r] = from /\ startup' = [startup EXCEPT ![r] = to]
Setback == setbacks < MaxSetbacks /\ setbacks' = setbacks + 1

\* What is at the path: nothing, or a socket to try.
Inspect(r) ==
  /\ Proceeds(r, "off", IF standing = NoResident THEN "bind" ELSE "try")
  /\ UNCHANGED <<standing, recorded, guards, setbacks>>

\* A socket somebody answers on is held; the rest is a resident's that is gone.
TryIt_HeldIfThere(r) ==
  /\ Proceeds(r, "try", IF standing # NoResident THEN "refused" ELSE "stale")
  /\ UNCHANGED <<standing, recorded, guards, setbacks>>

TryIt(r) ==
  /\ Proceeds(r, "try", IF Responds(standing) THEN "refused" ELSE "stale")
  /\ UNCHANGED <<standing, recorded, guards, setbacks>>

RemoveStale(r) ==
  /\ Proceeds(r, "stale", IF standing = NoResident THEN "failed" ELSE "bind")
  /\ standing' = NoResident
  /\ UNCHANGED <<recorded, guards, setbacks>>

\* bind(2) makes the socket, or finds one in use; listen(2) comes after it.
BindIt(r) ==
  /\ Proceeds(r, "bind", IF standing = NoResident THEN "bound" ELSE "refused")
  /\ standing' = IF standing = NoResident THEN r ELSE standing
  /\ UNCHANGED <<recorded, guards, setbacks>>

ListenAt(r) ==
  /\ Proceeds(r, "bound", "listening")
  /\ UNCHANGED <<standing, recorded, guards, setbacks>>

RecordPid(r) ==
  /\ Proceeds(r, "listening", "recorded")
  /\ recorded' = r
  /\ UNCHANGED <<standing, guards, setbacks>>

\* The pid cannot be written, to a file that was emptied or not: the process gives up,
\* its socket still at the path.
RecordFails(r) ==
  /\ Proceeds(r, "listening", "failed") /\ Setback
  /\ recorded' \in {recorded, NoResident}
  /\ UNCHANGED <<standing, guards>>

\* Looking at the path, removing, binding, listening or looking again is refused: the
\* process gives up, and leaves what is there.
ClaimFails(r) ==
  /\ startup[r] \in {"off", "stale", "bind", "bound", "recorded"} /\ Setback
  /\ startup' = [startup EXCEPT ![r] = "failed"]
  /\ UNCHANGED <<standing, recorded, guards>>

\* A connection that fails for whatever reason is nobody's answer.
TryFails(r) ==
  /\ Proceeds(r, "try", "stale") /\ Setback
  /\ UNCHANGED <<standing, recorded, guards>>

\* The identity of what stands at the path by now.
Watch(r) ==
  /\ Proceeds(r, "recorded", IF standing = NoResident THEN "failed" ELSE "up")
  /\ guards' = [guards EXCEPT ![r] = standing]
  /\ UNCHANGED <<standing, recorded, setbacks>>

Ours(r) == recorded = r

\* Another thing at the path: the pid file is read, and removed if it is ours.
Notice(r) ==
  /\ standing # guards[r]
  /\ Proceeds(r, "up", IF Ours(r) THEN "forgetting" ELSE "stopped")
  /\ UNCHANGED <<standing, recorded, guards, setbacks>>

\* A path that cannot be looked at is another thing too, and a pid file that cannot be read
\* is not ours, whosever it is.
NoticeFails(r) ==
  /\ \/ Proceeds(r, "up", IF Ours(r) THEN "forgetting" ELSE "stopped")
     \/ standing # guards[r] /\ Proceeds(r, "up", "stopped")
  /\ Setback
  /\ UNCHANGED <<standing, recorded, guards>>

\* By now it may be another's.
ForgetPid(r) ==
  /\ Proceeds(r, "forgetting", "stopped")
  /\ recorded' = NoResident
  /\ UNCHANGED <<standing, guards, setbacks>>

\* One that cannot be removed stays, and the process stops all the same.
ForgetFails(r) ==
  /\ Proceeds(r, "forgetting", "stopped") /\ Setback
  /\ UNCHANGED <<standing, recorded, guards>>

\* Removing the socket is how a resident is stopped: by hand or by a client.
Unlink ==
  /\ standing # NoResident /\ standing' = NoResident /\ Setback
  /\ UNCHANGED <<recorded, startup, guards>>

Kill(r) ==
  /\ startup[r] \notin Ended /\ startup' = [startup EXCEPT ![r] = "killed"] /\ Setback
  /\ UNCHANGED <<standing, recorded, guards>>

ProcessStep(r) ==
  \/ TryIt(r) \/ RemoveStale(r) \/ BindIt(r) \/ ListenAt(r) \/ RecordPid(r)
  \/ Watch(r) \/ Notice(r) \/ ForgetPid(r)
RefusedStep(r) ==
  ClaimFails(r) \/ TryFails(r) \/ RecordFails(r) \/ NoticeFails(r) \/ ForgetFails(r)

SocketNext ==
  \/ Unlink
  \/ \E r \in Residents : Inspect(r) \/ ProcessStep(r) \/ RefusedStep(r) \/ Kill(r)

SocketSpec == SocketInit /\ [][SocketNext]_socketVars

\* A started process goes on: its next call returns, and its watch wakes.
SocketFairSpec == SocketSpec /\ \A r \in Residents : WF_socketVars(ProcessStep(r) \/ RefusedStep(r))

-----------------------------------------------------------------------------
\* Whom a connection to the path reaches, and who stops when it is taken away.
Serves(r) == startup[r] = "up" /\ standing = r /\ guards[r] = r

Claiming == {"try", "stale", "bind", "bound", "listening", "recorded"}

\* However many processes start on a path at once, and though each may be refused, give
\* up, or have its socket removed by another that found nobody listening yet, the race
\* leaves one of them serving: there is one as soon as nobody is starting any more, unless
\* the path was unlinked, a process killed or a call refused meanwhile (`claim`, `watch`,
\* cli/resident.rs:96-181).
RaceLeavesOne ==
  setbacks = 0 /\ (\E r \in Residents : startup[r] # "off")
               /\ (\A r \in Residents : startup[r] \notin Claiming)
  => \E r \in Residents : Serves(r)

\* "refused with exit 1, naming that resident's pid, which each resident records in
\* `PATH.pid`" (docs/cli.md:434): the file names whoever serves.  TLC refutes it of two that
\* start at once: the one whose socket the other took for a stale one and removed may be the
\* last to record its pid.  And one that stops reads its own pid there before another records
\* its, and removes it after.
ServingIsRecorded ==
  \A r \in Residents : Serves(r) => recorded = r

\* "Stop the process, exiting 0, once the socket this resident bound is removed
\* or replaced" (the comment on `watch`): a resident that is up while another's
\* socket stands at the path stops, unless it is killed or the path is its own
\* again.  TLC refutes it of two that start at once: one that binds between another's bind
\* and its watch is what the other then watches.
StopsOnceReplaced ==
  \A r \in Residents :
    (startup[r] = "up" /\ standing # r) ~> (startup[r] # "up")
=============================================================================
