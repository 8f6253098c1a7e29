------------------------------- MODULE LinkCache -------------------------------
(***************************************************************************)
(* A schema link resolved through the on-disk cache: the processes that    *)
(* resolve one pinned URL at the same time, and the origin that serves it. *)
(* An entry is two files, the body and the metadata with the validator to  *)
(* ask the origin by, each replaced by a rename and neither under a lock.  *)
(* The metadata of a directory are read in one step here, and the bodies   *)
(* in another.                                                             *)
(*                                                                         *)
(* A document is numbered as the origin published it, and its number is    *)
(* its validator; 0 is no document.                                        *)
(***************************************************************************)
EXTENDS Integers, Sequences, FiniteSets, FiniteSetsExt

CONSTANTS
  Resolvers,    \* the processes
  Declares,     \* the version each document declares, a sequence of numbers
  Tagged,       \* the documents served with a validator
  Pin,          \* the pin of the link
  MaxVerbs,     \* how many verbs the processes run
  MaxTroubles   \* how often a process dies, or the origin is not well

Documents == 1..Len(Declares)
Versions == {Declares[d] : d \in Documents}

ASSUME LinkAssumption ==
  /\ Declares \in Seq(Seq(Nat)) /\ Declares # <<>>
  /\ \A v \in Versions \cup {Pin} : Len(v) \in 1..3
  /\ Tagged \subseteq Documents /\ {MaxVerbs, MaxTroubles} \subseteq Nat

VARIABLES
  served,       \* the document the origin serves
  health,       \* whether it does, or is down, or answers what is no bundle
  body,         \* the body file of each version
  meta,         \* its metadata file: the document it was written of, and its age
  verb,         \* what each process runs
  phase,        \* how far it is
  metas,        \* the metadata it read
  entry,        \* the entry it goes by: of which document, and its validator
  got,          \* the document it was served
  staged,       \* whether its staged file is there
  outcome,      \* how its verb ended, and with what document
  alone,        \* whether the verbs run one at a time
  verbs,        \* the verbs run so far
  troubles

cacheFiles == <<body, meta>>
linkVars == <<served, health, cacheFiles, verb, phase, metas, entry, got, staged, outcome,
              alone, verbs, troubles>>

\* ------------------------------------------------------------------ versions
Part(v, i) == IF i <= Len(v) THEN v[i] ELSE 0
Admits(pin, v) == \A i \in 1..Len(pin) : Part(pin, i) = Part(v, i)
Newer(v, w) ==
  \/ \E i \in 1..3 : Part(v, i) > Part(w, i) /\ \A j \in 1..i - 1 : Part(v, j) = Part(w, j)
  \/ Len(v) > Len(w) /\ \A i \in 1..3 : Part(v, i) = Part(w, i)

\* -------------------------------------------------------------------- entries
NoMeta == [of |-> 0, fresh |-> FALSE]
NoEntry == [document |-> 0, of |-> 0, fresh |-> FALSE]
\* An entry is read when its body declares the version its metadata does.
Reads(m, v) == m[v].of # 0 /\ body[v] # 0 /\ Declares[body[v]] = v
Readable(v) == Reads(meta, v)

LinkInit ==
  /\ served = 1 /\ health = "well"
  /\ body = [v \in Versions |-> 0] /\ meta = [v \in Versions |-> NoMeta]
  /\ verb = [r \in Resolvers |-> "none"] /\ phase = [r \in Resolvers |-> "idle"]
  /\ metas = [r \in Resolvers |-> [v \in Versions |-> NoMeta]]
  /\ entry = [r \in Resolvers |-> NoEntry] /\ got = [r \in Resolvers |-> 0]
  /\ staged = [r \in Resolvers |-> FALSE]
  /\ outcome = [r \in Resolvers |-> [how |-> "none", document |-> 0]]
  /\ alone \in BOOLEAN /\ verbs = 0 /\ troubles = 0

Then(r, to) == phase' = [phase EXCEPT ![r] = to]
VerbEnds(r, how, document) ==
  /\ Then(r, "idle") /\ staged' = [staged EXCEPT ![r] = FALSE]
  /\ outcome' = [outcome EXCEPT ![r] = [how |-> how, document |-> document]]
KeepsOutcome == UNCHANGED <<staged, outcome>>
World == <<served, health, alone, troubles>>

\* A verb: a queue verb, `schemas fetch`, `serve`, either of the first two with a
\* forced fetch, or `schemas clear`.
BeginVerb(r) ==
  /\ phase[r] = "idle" /\ verbs < MaxVerbs
  /\ alone => \A s \in Resolvers : phase[s] = "idle"
  /\ \E does \in {"window", "revalidate", "cachedFirst", "refresh", "clear"} :
       /\ verb' = [verb EXCEPT ![r] = does]
       /\ Then(r, CASE does = "refresh" -> "fetch" [] does = "clear" -> "clear" [] OTHER -> "metas")
  /\ verbs' = verbs + 1
  /\ metas' = [metas EXCEPT ![r] = [v \in Versions |-> NoMeta]]
  /\ entry' = [entry EXCEPT ![r] = NoEntry] /\ got' = [got EXCEPT ![r] = 0]
  /\ outcome' = [outcome EXCEPT ![r] = [how |-> "none", document |-> 0]]
  /\ UNCHANGED <<World, cacheFiles, staged>>

ReadMetas(r) ==
  /\ phase[r] = "metas"
  /\ metas' = [metas EXCEPT ![r] = meta] /\ Then(r, "bodies") /\ KeepsOutcome
  /\ UNCHANGED <<World, cacheFiles, verb, entry, got, verbs>>

\* The newest readable entry the pin admits; with none, the bundle is fetched.
Satisfying(r) == {v \in Versions : Reads(metas[r], v) /\ Admits(Pin, v)}
ReadBodies(r) ==
  /\ phase[r] = "bodies"
  /\ IF Satisfying(r) = {}
     THEN Then(r, "fetch") /\ KeepsOutcome /\ UNCHANGED entry
     ELSE \E v \in Satisfying(r) :
            /\ ~\E w \in Satisfying(r) : Newer(w, v)
            /\ entry' = [entry EXCEPT ![r] =
                 [document |-> body[v], of |-> metas[r][v].of, fresh |-> metas[r][v].fresh]]
            /\ IF verb[r] = "cachedFirst" \/ (verb[r] = "window" /\ metas[r][v].fresh)
               THEN VerbEnds(r, "cached", body[v])
               ELSE Then(r, "ask") /\ KeepsOutcome
  /\ UNCHANGED <<World, cacheFiles, verb, metas, got, verbs>>

\* What is served has to be a bundle the pin admits.
Held == Admits(Pin, Declares[served])
Takes(r) ==
  IF Held THEN /\ Then(r, IF verb[r] = "refresh" THEN "drop" ELSE "stageBody")
               /\ got' = [got EXCEPT ![r] = served] /\ KeepsOutcome
          ELSE VerbEnds(r, "refused", 0) /\ UNCHANGED got

Fetch(r) ==
  /\ phase[r] = "fetch"
  /\ IF health = "well" THEN Takes(r) ELSE VerbEnds(r, "refused", 0) /\ UNCHANGED got
  /\ UNCHANGED <<World, cacheFiles, verb, metas, entry, verbs>>

\* The origin is asked by the validator: the same document is confirmed, another is
\* taken, and an entry whose revalidation failed is used as it is.
SameDocument(r) == served = entry[r].of /\ served \in Tagged
Revalidate(r) ==
  /\ phase[r] = "ask"
  /\ IF health # "well" THEN VerbEnds(r, "reused", entry[r].document) /\ UNCHANGED got
     ELSE IF SameDocument(r)
     THEN Then(r, "stageMeta") /\ got' = [got EXCEPT ![r] = 0] /\ KeepsOutcome
     ELSE Takes(r)
  /\ UNCHANGED <<World, cacheFiles, verb, metas, entry, verbs>>

\* A forced fetch reads the entries there are, and drops each that can be read, its
\* body and then its metadata.
ReadDropped(r) ==
  /\ phase[r] = "drop"
  /\ metas' = [metas EXCEPT ![r] = [v \in Versions |-> IF Readable(v) THEN meta[v] ELSE NoMeta]]
  /\ Then(r, "remove") /\ KeepsOutcome
  /\ UNCHANGED <<World, cacheFiles, verb, entry, got, verbs>>

ToDrop(r) == {v \in Versions : metas[r][v].of # 0}
NextDropped(r) == CHOOSE v \in ToDrop(r) : TRUE
DropBody(r) ==
  /\ phase[r] = "remove"
  /\ IF ToDrop(r) = {} THEN Then(r, "stageBody") /\ UNCHANGED body
     ELSE Then(r, "forget") /\ body' = [body EXCEPT ![NextDropped(r)] = 0]
  /\ KeepsOutcome /\ UNCHANGED <<World, meta, verb, metas, entry, got, verbs>>
DropMeta(r) ==
  /\ phase[r] = "forget"
  /\ meta' = [meta EXCEPT ![NextDropped(r)] = NoMeta]
  /\ metas' = [metas EXCEPT ![r][NextDropped(r)] = NoMeta]
  /\ Then(r, "remove") /\ KeepsOutcome
  /\ UNCHANGED <<World, body, verb, entry, got, verbs>>

Stage_InPlace(r) ==
  /\ phase[r] \in {"stageBody", "stageMeta"}
  /\ body' = [v \in Versions |-> IF got[r] # 0 /\ Declares[got[r]] = v THEN 0 ELSE body[v]]
  /\ staged' = [staged EXCEPT ![r] = TRUE]
  /\ Then(r, IF phase[r] = "stageBody" THEN "body" ELSE "meta")
  /\ UNCHANGED <<World, meta, verb, metas, entry, got, outcome, verbs>>

\* A file is written beside its place, and renamed over it once whole; what was
\* staged may be gone by then.
Stage(r) ==
  /\ phase[r] \in {"stageBody", "stageMeta"}
  /\ staged' = [staged EXCEPT ![r] = TRUE]
  /\ Then(r, IF phase[r] = "stageBody" THEN "body" ELSE "meta")
  /\ UNCHANGED <<World, cacheFiles, verb, metas, entry, got, outcome, verbs>>

RenameBody_IfMissing(r) ==
  /\ phase[r] = "body" /\ staged[r]
  /\ body' = [body EXCEPT ![Declares[got[r]]] = IF @ = 0 THEN got[r] ELSE @]
  /\ Then(r, "stageMeta") /\ staged' = [staged EXCEPT ![r] = FALSE]
  /\ UNCHANGED <<World, meta, verb, metas, entry, got, outcome, verbs>>

RenameBody(r) ==
  /\ phase[r] = "body"
  /\ IF staged[r]
     THEN /\ body' = [body EXCEPT ![Declares[got[r]]] = got[r]]
          /\ Then(r, "stageMeta") /\ staged' = [staged EXCEPT ![r] = FALSE] /\ UNCHANGED outcome
     ELSE VerbEnds(r, "refused", 0) /\ UNCHANGED body
  /\ UNCHANGED <<World, meta, verb, metas, entry, got, verbs>>

\* The metadata of what was stored, or of the entry that was confirmed.
RenameMeta(r) ==
  /\ phase[r] = "meta"
  /\ LET of == IF got[r] # 0 THEN got[r] ELSE entry[r].of
     IN  IF staged[r]
         THEN /\ meta' = [meta EXCEPT ![Declares[of]] = [of |-> of, fresh |-> TRUE]]
              /\ IF got[r] # 0 THEN VerbEnds(r, "fetched", got[r])
                               ELSE VerbEnds(r, "confirmed", entry[r].document)
         ELSE VerbEnds(r, "refused", 0) /\ UNCHANGED meta
  /\ UNCHANGED <<World, body, verb, metas, entry, got, verbs>>

\* `schemas clear` removes the files one by one, those being staged as well.
ClearOne(r) ==
  /\ phase[r] = "clear"
  /\ \/ \E v \in Versions : body[v] # 0 /\ body' = [body EXCEPT ![v] = 0]
                            /\ UNCHANGED <<meta, staged>>
     \/ \E v \in Versions : meta[v].of # 0 /\ meta' = [meta EXCEPT ![v] = NoMeta]
                            /\ UNCHANGED <<body, staged>>
     \/ \E s \in Resolvers : staged[s] /\ staged' = [staged EXCEPT ![s] = FALSE]
                             /\ UNCHANGED cacheFiles
  /\ UNCHANGED <<World, verb, phase, metas, entry, got, outcome, verbs>>
CleanEnd(r) ==
  /\ phase[r] = "clear"
  /\ VerbEnds(r, "cleared", 0)
  /\ UNCHANGED <<World, cacheFiles, verb, metas, entry, got, verbs>>

\* ------------------------------------------------------------- the world outside
Publish ==
  /\ served < Len(Declares) /\ served' = served + 1
  /\ UNCHANGED <<health, cacheFiles, verb, phase, metas, entry, got, staged, outcome, alone,
                 verbs, troubles>>
OriginFails ==
  /\ troubles < MaxTroubles /\ troubles' = troubles + 1
  /\ health' \in {"down", "no bundle"} \ {health}
  /\ UNCHANGED <<served, cacheFiles, verb, phase, metas, entry, got, staged, outcome, alone, verbs>>
OriginRecovers ==
  /\ health # "well" /\ health' = "well"
  /\ UNCHANGED <<served, cacheFiles, verb, phase, metas, entry, got, staged, outcome, alone,
                 verbs, troubles>>
\* The freshness window passes.
Ages ==
  /\ \E v \in Versions : meta[v].fresh /\ meta' = [meta EXCEPT ![v].fresh = FALSE]
  /\ UNCHANGED <<World, body, verb, phase, metas, entry, got, staged, outcome, verbs>>
ResolverDies(r) ==
  /\ phase[r] # "idle" /\ troubles < MaxTroubles /\ troubles' = troubles + 1
  /\ VerbEnds(r, "none", 0)
  /\ UNCHANGED <<served, health, alone, cacheFiles, verb, metas, entry, got, verbs>>

LinkNext ==
  \/ Publish \/ OriginFails \/ OriginRecovers \/ Ages
  \/ \E r \in Resolvers :
       \/ BeginVerb(r) \/ ReadMetas(r) \/ ReadBodies(r) \/ Fetch(r) \/ Revalidate(r)
       \/ ReadDropped(r) \/ DropBody(r) \/ DropMeta(r) \/ Stage(r) \/ RenameBody(r) \/ RenameMeta(r)
       \/ ClearOne(r) \/ CleanEnd(r) \/ ResolverDies(r)

LinkSpec == LinkInit /\ [][LinkNext]_linkVars

-----------------------------------------------------------------------------
Removes == \E r \in Resolvers : phase[r] \in {"remove", "forget", "clear"}

\* An entry that can be read stays one, whoever stores over it or dies while it
\* does, unless a forced fetch or `schemas clear` removes it.
EntriesStay ==
  [][\A v \in Versions : Readable(v) => Readable(v)' \/ Removes]_linkVars

\* A bundle handed out as confirmed by the origin is the one the origin was asked
\* about, as long as no two processes store at the same time: the metadata an
\* entry is asked by were written of its body, or the origin serves neither.
ConfirmedIsServed ==
  alone => \A r \in Resolvers :
    outcome[r].how = "confirmed" => outcome[r].document = entry[r].of
=============================================================================
