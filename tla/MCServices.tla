------------------------------ MODULE MCServices ------------------------------
(***************************************************************************)
(* Small instances of the components that share no state, checked side by  *)
(* side: a behaviour is one of one component, the others resting in an     *)
(* initial state of theirs.                                                *)
(***************************************************************************)
EXTENDS MemoryTransport, Stream, Carry, ResidentSocket, ResidentConnection, Glob,
        LinkCache, Serve, Offer, TLC

VARIABLE part   \* the component that runs

Parts == {"memory", "stream", "carry", "socket", "connection", "glob", "links", "serve",
          "offer"}

-----------------------------------------------------------------------------
\* A thread whose sections open one over a second queue inside, one that waits, and one
\* at work in that queue.
CONSTANTS h1, h2, h3, s1, s2
SecondInside == {<<s1, s2>>}
TheCalls == h1 :> {<<"exclusive", s1>>, <<"append", s1>>, <<"exclusive", s2>>}
         @@ h2 :> {<<"append", s1>>, <<"wait", s1>>}
         @@ h3 :> {<<"commit", s2>>, <<"replace", s2>>, <<"exclusive", s2>>}
TheOps == h1 :> 3 @@ h2 :> 2 @@ h3 :> 2

\* Two documents of the version pinned.
OneVersion == <<<<8>>, <<8>>>>
Eight == <<8>>

\* Records offered to `in` are routed to it and to `copy`; one of its validators does not
\* judge them.
TheRoutes == "in" :> <<"in", "copy">> @@ "copy" :> <<"copy">>
TheValidators == "in" :> <<"cached", "unasked">> @@ "copy" :> <<"shared">>
TheJudged == {"cached", "shared"} \X {"c"}

\* One command is a validator of each queue and keeps its passes in one directory: it passes
\* what is offered to `in` about nothing under one bar, what is about a question under neither,
\* and what goes to `copy` under the other.
TheCommands == "cached" :> "review" @@ "shared" :> "review" @@ "unasked" :> "check"
ThePassing == {<<"review", "c", <<"in", "none">>, 2>>}
         \cup {<<"review", "c", <<"copy", about>>, 1>> : about \in {"none", "q"}}

-----------------------------------------------------------------------------
\* A component that does not run rests in one initial state.
AtRest(component, resting) == part # component => resting

ServicesInit ==
  /\ part \in Parts
  /\ MemoryInit /\ CarryInit /\ ConnectionInit
  /\ SocketInit /\ AtRest("socket", standing = NoResident /\ recorded = NoResident)
  /\ StreamInit /\ AtRest("stream", sink = CHOOSE s \in Sinks : TRUE)
  /\ GlobInit /\ AtRest("glob", pattern = <<>> /\ text = <<>>)
  /\ LinkInit /\ AtRest("links", alone)
  /\ ServeInit /\ AtRest("serve", ~bounded)
  /\ OfferInit /\ AtRest("offer", bar = CHOOSE b \in Bars : TRUE)

ServicesNext ==
  /\ UNCHANGED part
  /\ \/ part = "memory" /\ MemoryNext
     \/ part = "stream" /\ StreamNext
     \/ part = "carry" /\ CarryNext
     \/ part = "socket" /\ SocketNext
     \/ part = "connection" /\ ConnectionNext
     \/ part = "glob" /\ GlobNext
     \/ part = "links" /\ LinkNext
     \/ part = "serve" /\ ServeNext
     \/ part = "offer" /\ OfferNext
  /\ IF part = "memory" THEN TRUE ELSE UNCHANGED memoryVars
  /\ IF part = "stream" THEN TRUE ELSE UNCHANGED streamVars
  /\ IF part = "carry" THEN TRUE ELSE UNCHANGED carryVars
  /\ IF part = "socket" THEN TRUE ELSE UNCHANGED socketVars
  /\ IF part = "connection" THEN TRUE ELSE UNCHANGED connectionVars
  /\ IF part = "glob" THEN TRUE ELSE UNCHANGED globVars
  /\ IF part = "links" THEN TRUE ELSE UNCHANGED linkVars
  /\ IF part = "serve" THEN TRUE ELSE UNCHANGED serveVars
  /\ IF part = "offer" THEN TRUE ELSE UNCHANGED offerVars

ServicesSpec == ServicesInit /\ [][ServicesNext]_<<part, memoryVars, streamVars,
  carryVars, socketVars, connectionVars, globVars, linkVars, serveVars, offerVars>>
=============================================================================
