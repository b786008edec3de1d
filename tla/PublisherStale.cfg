SPECIFICATION Spec
CONSTANTS
  Processes = {worker, cli}
  Exporters = {cli}
  Publishers = {worker}
  Artifacts = {a1, a2}
  Manifests = {m1}
  None = None
  MaxEdits = 1
  MaxFaults = 0
  MaxCrashes = 0
INVARIANT BranchHoldsItsArtifact
