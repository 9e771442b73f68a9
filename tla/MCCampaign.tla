----------------------------- MODULE MCCampaign -----------------------------
(* Values for Campaign: two tests, the incident as reported and with an       *)
(* element removed, two probes, and two servers: one exposes and then prunes,  *)
(* one is done early or answers out of form.                                  *)
EXTENDS Campaign, TLC

CONSTANTS t1, t2, report, whole, reduced, deletion, control

MCTests == <<t1, t2>>
MCVariants == <<[report |-> report, model |-> whole], [report |-> report, model |-> reduced]>>
MCProbes == <<deletion, control>>

Expose == [tool |-> "look", edit |-> "expose"]
Prune == [tool |-> "look", edit |-> "prune"]
Done == [tool |-> "done", edit |-> "none"]

Links(cites) == [links |-> TRUE, cites |-> cites]
LinksNone == [links |-> FALSE, cites |-> {}]

\* The later code shows none of the words that are to be deleted.
MCAsks(reply, shown) ==
  reply.cites \ (IF \E i \in DOMAIN shown : shown[i] # Junk /\ "code" \in DOMAIN shown[i] /\ shown[i].code = 2
                 THEN {deletion} ELSE {})

Server(steps, first, second) == [steps |-> steps, finals |-> (t1 :> first @@ t2 :> second)]
Both == {deletion, control}

MCServers ==
  {Server(<<Expose, Prune>>, Links(Both), LinksNone), Server(<<Done, Junk>>, Links({control}), Junk)}

MCReply(server, job, text) ==
  IF text.left > 0 THEN server.steps[Budget(job) - text.left + 1]
  ELSE IF job.probe = "incident" THEN LinksNone ELSE server.finals[job.test]
=============================================================================
