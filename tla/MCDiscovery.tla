----------------------------- MODULE MCDiscovery -----------------------------
(***************************************************************************)
(* The parts of discovery that run side by side, for TLC.  Apart from the  *)
(* calls their modules state they share no state, so one behaviour moves   *)
(* one part only, the one `part` names, and the state space is the sum of  *)
(* the parts' and not their product.                                       *)
(***************************************************************************)
EXTENDS DiscoveryPipeline, Collectors, Part

CONSTANT Checkers                                              \* of ClusterValidation

VARIABLES listed, reachable, cached, work, done, checker, outcome

Validation == INSTANCE ClusterValidation

validationVars == <<listed, reachable, cached, work, done, checker, outcome>>
allVars == <<part, vars, samplingVars, sinkVars, kubeletVars, validationVars>>

MCInit ==
  /\ part \in {"pipeline", "sampling", "sink", "kubelet", "validation"}
  /\ Init /\ Sampling!Init /\ Sink!Init /\ Kubelet!Init
  /\ IF part = "validation" THEN Validation!Init
     ELSE /\ listed = {} /\ reachable = {} /\ cached = {} /\ work = {}
          /\ done = 0 /\ outcome = "error" /\ checker = [c \in Checkers |-> "gone"]

PipelineNext ==
  /\ part = "pipeline" /\ Next
  /\ UNCHANGED <<part, samplingVars, sinkVars, kubeletVars, validationVars>>

SamplingNext ==
  /\ part = "sampling" /\ Sampling!Next
  /\ UNCHANGED <<part, vars, sinkVars, kubeletVars, validationVars>>

SinkNext ==
  /\ part = "sink" /\ Sink!Next
  /\ UNCHANGED <<part, vars, samplingVars, kubeletVars, validationVars>>

KubeletNext ==
  /\ part = "kubelet" /\ Kubelet!Next
  /\ UNCHANGED <<part, vars, samplingVars, sinkVars, validationVars>>

ValidationNext ==
  /\ part = "validation" /\ Validation!Next
  /\ UNCHANGED <<part, vars, samplingVars, sinkVars, kubeletVars>>

MCNext == PipelineNext \/ SamplingNext \/ SinkNext \/ KubeletNext \/ ValidationNext

MCSpec ==
  /\ MCInit /\ [][MCNext]_allVars
  /\ Fairness /\ Sampling!Fairness /\ Validation!Fairness

-----------------------------------------------------------------------------
(* The parts' properties, stated where their modules explain them.         *)

\* FinishSampling returns and the children of sampling rounds go away.
SamplingStops == Sampling!SamplingStops

\* A validation returns and leaves no checker behind.
ValidationEnds == part = "validation" => Validation!ValidationEnds
=============================================================================
