SPECIFICATION Spec
CONSTANTS
  Processes = {worker, cli}
  Exporters = {cli}
  Publishers = {worker}
  Artifacts = {a1, a2}
  Manifests = {m1}
  None = None
  MaxEdits = 2
  MaxFaults = 1
  MaxCrashes = 1
INVARIANT TypeOK
INVARIANT AdoptedBranchMatches
INVARIANT OnePullPerArtifact
PROPERTY DecisionIsFinal
