----------------------------- MODULE MCDelivery -----------------------------
(* The way of a submission from the aggregators to the chain for TLC: the  *)
(* collector and the hub of the data availability layer, the reporter and  *)
(* its nonces.  They share no state, so a behaviour exercises one of them. *)
EXTENDS NonceOrder, DalCollector, TLC

CONSTANTS p1, p2, everyMinute, deviation, o1, o2, o3, Client, Symbol

VARIABLES
    part,
    handler, open, Clients, registration, cleaning, kept, casting, casts, subscribed,
    reporterPool, latest, wsData, latestDataMap, latestSubmittedDataMap, jobs,
    chainNonce, txPool, reverted, onchain, failures

\* Two batches, or two jobs of one batch; the first pair's second price deviates from
\* its first.
R == INSTANCE Reporter WITH
        noncePool <- reporterPool, Pair <- {p1, p2},
        Regular <- {everyMinute}, Deviation <- deviation, Pairs <- everyMinute :> {p1, p2},
        MAX_REPORT_BATCH_SIZE <- 1, ErrorsCapacity <- 2,
        Price <- (p1 :> <<100, 106>>) @@ (p2 :> <<100>>), One <- 100, Threshold <- 50,
        MaxFailures <- 1, MaxGoroutines <- 2, MaxMined <- 2, MaxNonce <- 7

\* Signatures in the order of the list and not, one of them twice, one of them of
\* an oracle that is added later.
SomeProofs == {<<o2, o1, o2>>, <<o1, o3>>}
TwoOracles == <<o1, o2>>

H == INSTANCE Hub WITH MaxCasts <- 1

MaxGiven == 8

-----------------------------------------------------------------------------

hubPart == <<handler, open, Clients, registration, cleaning, kept, casting, casts, subscribed>>
reporterPart == <<reporterPool, latest, wsData, latestDataMap, latestSubmittedDataMap, jobs,
                  chainNonce, txPool, reverted, onchain, failures>>

\* The first pair has data when the reporter starts; the second then or never.
DeliveryInit ==
    /\ part \in {"collector", "hub", "reporter", "nonces"}
    /\ NonceInit /\ R!Init /\ CollectorInit /\ H!HubInit
    /\ latest[p1] = 1
    /\ part # "reporter" => latest[p2] = 0
    /\ part # "nonces" => start = 0

DeliveryNext ==
    /\ UNCHANGED part
    /\ \/ /\ part = "collector" /\ CollectorNext
          /\ UNCHANGED <<hubPart, reporterPart, nonceVars>>
       \/ /\ part = "hub" /\ H!HubNext
          /\ UNCHANGED <<collectorVars, reporterPart, nonceVars>>
       \/ /\ part = "reporter" /\ R!Next /\ latest'[p2] = latest[p2]
          /\ UNCHANGED <<collectorVars, hubPart, nonceVars>>
       \/ /\ part = "nonces" /\ NonceNext /\ Len(given') <= MaxGiven
          /\ UNCHANGED <<collectorVars, hubPart, reporterPart>>

\* The fairness of the hub and of the reporter, for the part that runs.
DeliveryFairness ==
    /\ SF_hubPart(part = "hub" /\ H!RegistrationProceeds)
    /\ SF_hubPart(part = "hub" /\ H!CleanupProceeds)
    /\ WF_hubPart(part = "hub" /\ H!CastEnds)
    /\ WF_reporterPart(part = "reporter" /\ R!regularReporterJob(everyMinute))
    /\ WF_reporterPart(part = "reporter" /\ R!Advances(everyMinute))
    /\ WF_reporterPart(part = "reporter" /\ R!Advances(deviation))
    /\ WF_reporterPart(part = "reporter" /\ R!Mine)

DeliverySpec ==
    /\ DeliveryInit
    /\ [][DeliveryNext]_<<part, collectorVars, hubPart, reporterPart, nonceVars>>
    /\ DeliveryFairness

\* Hub: a connected client is in the hub with everything it subscribed to; clients that
\* are gone are forgotten, unless cleanup is stuck.
ClientsAreTracked == []H!SubscriptionsKept /\ H!GoneAreForgotten

\* Reporter: a job always ends, and reports get through again after nonces were lost,
\* reused or reset.
ReporterRecovers == R!JobsEnd /\ R!FeedsCatchUp

=============================================================================
