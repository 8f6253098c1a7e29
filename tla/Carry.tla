--------------------------------- MODULE Carry ---------------------------------
(***************************************************************************)
(* Messages carried for a receiver that is not running: senders append to  *)
(* a store, a file created by linking a staged one with its header into    *)
(* place, and the receiver's next session adopts what it holds.  Each      *)
(* holds the file's lock from its parse of the store to what it does to    *)
(* it.  Carry::read takes the lock shared and changes nothing: it is the   *)
(* parse of the others, and left out.                                      *)
(***************************************************************************)
EXTENDS Integers, Sequences, SequencesExt

CONSTANTS
  Carriers,     \* the senders, each in a process of its own
  MaxCarried,   \* how many messages each carries
  MaxSessions,  \* how many sessions of the receiver there are
  MaxMishaps    \* how many operations fail and how many processes die

ASSUME CarryAssumption ==
  /\ {MaxCarried, MaxSessions, MaxMishaps} \subseteq Nat
  /\ {"free", "receiver"} \cap Carriers = {}

VARIABLES
  storeIs,      \* "absent", "whole", or "torn": it ends in a torn record
  entries,      \* the records of the store
  storeLock,    \* who has the file's lock
  carrier,      \* of each sender: where it is
  carried,      \* how many messages it has begun to carry
  assured,      \* the messages whose sender was told they are carried
  appended,     \* every record that was appended, in order
  session,      \* the receiver: "none", "open", "adopting", "closed"
  parsed,       \* what it read under the lock
  drained,      \* the messages cut from the store, in order
  lost,         \* those of them no inbox took
  sessions, mishaps

carryVars == <<storeIs, entries, storeLock, carrier, carried, assured, appended, session,
               parsed, drained, lost, sessions, mishaps>>
storing == <<storeIs, entries, appended>>
draining == <<drained, lost>>
receiving == <<session, parsed, draining, sessions>>

CarryInit ==
  /\ storeIs = "absent" /\ entries = <<>> /\ storeLock = "free"
  /\ carrier = [s \in Carriers |-> "idle"] /\ carried = [s \in Carriers |-> 0]
  /\ assured = {} /\ appended = <<>>
  /\ session = "none" /\ parsed = <<>> /\ drained = <<>> /\ lost = {}
  /\ sessions = MaxSessions /\ mishaps = MaxMishaps

MessageOf(s) == <<s, carried[s]>>
CarrierTo(s, where) == carrier' = [carrier EXCEPT ![s] = where]

\* A message is encoded, and the store is there already or it is not.
BeginsCarrying(s) ==
  /\ carrier[s] = "idle" /\ carried[s] < MaxCarried
  /\ carried' = [carried EXCEPT ![s] = @ + 1]
  /\ CarrierTo(s, IF storeIs = "absent" THEN "staged" ELSE "created")
  /\ UNCHANGED <<storing, storeLock, assured, receiving, mishaps>>

\* What the store holds once a staged one was linked into its place: what it
\* held, when somebody else's was there first.
Linked_Replacing == <<>>
Linked == IF storeIs = "absent" THEN <<>> ELSE entries

LinksStore(s) ==
  /\ carrier[s] = "staged"
  /\ entries' = Linked
  /\ storeIs' = IF storeIs = "absent" THEN "whole" ELSE storeIs
  /\ CarrierTo(s, "created")
  /\ UNCHANGED <<storeLock, carried, assured, appended, receiving, mishaps>>

StoreFree == storeLock = "free"

\* The store is opened, locked and parsed; a torn one is refused.
LocksStore(s) ==
  /\ carrier[s] = "created" /\ StoreFree
  /\ IF storeIs = "torn" THEN CarrierTo(s, "idle") /\ UNCHANGED storeLock
     ELSE CarrierTo(s, "appending") /\ storeLock' = s
  /\ UNCHANGED <<storing, carried, assured, receiving, mishaps>>

\* The record is written and synced, the lock let go, and the sender told.
Appends(s) ==
  /\ carrier[s] = "appending"
  /\ entries' = Append(entries, MessageOf(s))
  /\ appended' = Append(appended, MessageOf(s))
  /\ assured' = assured \cup {MessageOf(s)}
  /\ storeLock' = "free" /\ CarrierTo(s, "idle")
  /\ UNCHANGED <<storeIs, carried, receiving, mishaps>>

\* The write fails or its process dies, before it, half way, or after it when
\* the sync fails: the sender is not told, whatever is in the store.
AppendFails(s) ==
  /\ carrier[s] = "appending" /\ mishaps > 0 /\ mishaps' = mishaps - 1
  /\ \/ UNCHANGED storing
     \/ storeIs' = "torn" /\ UNCHANGED <<entries, appended>>
     \/ /\ entries' = Append(entries, MessageOf(s))
        /\ appended' = Append(appended, MessageOf(s)) /\ UNCHANGED storeIs
  /\ storeLock' = "free"
  /\ \E end \in {"idle", "dead"} : CarrierTo(s, end)
  /\ UNCHANGED <<carried, assured, receiving>>

\* A session of the receiver begins, with an inbox that is open.
SessionBegins ==
  /\ session = "none" /\ sessions > 0 /\ sessions' = sessions - 1
  /\ session' = "open"
  /\ UNCHANGED <<storing, storeLock, carrier, carried, assured, parsed, draining, mishaps>>

\* adopt_carried, up to its parse: an absent store is an empty one, and a torn
\* one, or one of nothing, is let go as it is.
BeginsAdopting ==
  /\ session = "open" /\ storeIs = "whole" /\ entries # <<>> /\ StoreFree
  /\ storeLock' = "receiver" /\ parsed' = entries
  /\ session' = "adopting"
  /\ UNCHANGED <<storing, carrier, carried, assured, draining, sessions, mishaps>>

\* The inbox closes, before or while a store is adopted; then the session ends.
InboxCloses ==
  /\ session \in {"open", "adopting"}
  /\ session' = IF session = "open" THEN "none" ELSE "closed"
  /\ UNCHANGED <<storing, storeLock, carrier, carried, assured, parsed, draining, sessions,
                 mishaps>>

\* offer_all: under the inbox's lock, a closed inbox refuses and the store is left
\* as it is; an open one cuts the store to its header and takes the messages.
Adopts ==
  /\ session \in {"adopting", "closed"}
  /\ entries' = IF session = "closed" THEN entries ELSE <<>>
  /\ drained' = IF session = "closed" THEN drained ELSE drained \o parsed
  /\ parsed' = <<>> /\ storeLock' = "free"
  /\ session' = IF session = "closed" THEN "none" ELSE "open"
  /\ UNCHANGED <<storeIs, carrier, carried, assured, appended, lost, sessions, mishaps>>

\* Cutting the store fails, or the receiver's process dies before it.
AdoptFails ==
  /\ session = "adopting" /\ mishaps > 0 /\ mishaps' = mishaps - 1
  /\ parsed' = <<>> /\ storeLock' = "free"
  /\ session' \in {"open", "none"}
  /\ UNCHANGED <<storing, carrier, carried, assured, draining, sessions>>

\* The store is cut and syncing that fails: the inbox takes nothing.  (A process that
\* dies in between loses what an inbox that dies with it would.)
CutIsNotSynced ==
  /\ session = "adopting" /\ mishaps > 0 /\ mishaps' = mishaps - 1
  /\ entries' = <<>> /\ drained' = drained \o parsed /\ lost' = lost \cup Range(parsed)
  /\ parsed' = <<>> /\ storeLock' = "free"
  /\ session' = "open"
  /\ UNCHANGED <<storeIs, carrier, carried, assured, appended, sessions>>

CarryNext ==
  \/ \E s \in Carriers : \/ BeginsCarrying(s) \/ LinksStore(s) \/ LocksStore(s)
                         \/ Appends(s) \/ AppendFails(s)
  \/ SessionBegins \/ BeginsAdopting \/ InboxCloses \/ Adopts \/ AdoptFails \/ CutIsNotSynced

CarrySpec == CarryInit /\ [][CarryNext]_carryVars

-----------------------------------------------------------------------------
\* Whatever fails or dies between a sender's append and a session's cut, each record is in
\* the store or was cut from it, once, in the order they were carried, those whose sender was
\* told among them; and as long as nothing fails, what was cut is in an inbox (`send`,
\* `adopt_carried`, carry.rs:103-192).
CarriedInOrder ==
  /\ drained \o entries = appended
  /\ assured \subseteq Range(appended)
  /\ IsInjective(appended)
  /\ mishaps = MaxMishaps => lost = {}

\* "two processes carrying at once, or carrying while a receiver drains, leave every message
\* in the store or in the inbox and never in both" (carry.rs:14-16): each that is no longer
\* in the store is in an inbox.  TLC refutes it: where syncing the cut fails the messages
\* are refused to the inbox, and they are not in the store any more.
InOneOfTheTwo ==
  assured \subseteq Range(entries) \cup (Range(drained) \ lost)
=============================================================================
