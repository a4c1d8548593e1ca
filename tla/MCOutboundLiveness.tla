------------------------- MODULE MCOutboundLiveness -------------------------
(***************************************************************************)
(* One message with a provider, or two without one (EVOLUTION_BASE_URL is  *)
(* empty): `part' is chosen once.                                          *)
(***************************************************************************)
EXTENDS MCOutboundPipeline

CONSTANT m1

VARIABLE part

Provided == INSTANCE OutboundPipeline WITH
              ProviderConfigured <- TRUE, Msgs <- {m1}, MaxAttempts <- 2,
              MaxStalls <- 1, MaxAccepts <- 2, MaxFaults <- 2

LivenessInit == part \in {"provider", "mock"} /\ Init

\* Provided!Next: with a provider its workers skip nothing.
ProvidedNext ==
  \/ \E h \in Handlers : Provided!Request(h) \/ Provided!HandlerStep(h) \/ Provided!HandlerCrash(h)
  \/ \E w \in Workers : Provided!ProviderStep(w) \/ Provided!MonitorStep(w) \/ Provided!WorkerCrash(w)
  \/ Provided!GrowStale(m1) \/ Provided!DeleteMessage(m1)

LivenessNext ==
  /\ \/ part = "mock" /\ Next
     \/ part = "provider" /\ ProvidedNext
  /\ Announced /\ Anonymous
  /\ UNCHANGED part

ProvidedFairness ==
  /\ \A h \in Handlers : WF_vars(part = "provider" /\ Provided!HandlerStep(h))
  /\ \A w \in Workers : /\ WF_vars(part = "provider" /\ Provided!WorkerStep(w))
                        /\ WF_vars(part = "provider" /\ Provided!MonitorStep(w))
  /\ WF_vars(part = "provider" /\ Provided!GrowStale(m1))

MockFairness ==
  /\ \A h \in Handlers : WF_vars(part = "mock" /\ HandlerStep(h))
  /\ \A w \in Workers : WF_vars(part = "mock" /\ WorkerStep(w)) /\ WF_vars(part = "mock" /\ MonitorStep(w))
  /\ \A m \in Msgs : WF_vars(part = "mock" /\ GrowStale(m))

LivenessSpec ==
  LivenessInit /\ [][LivenessNext]_<<vars, part>> /\ ProvidedFairness /\ MockFairness
=============================================================================
