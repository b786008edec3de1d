SPECIFICATION Spec
CONSTANTS
  Processes = {worker}
  Exporters = {worker}
  Publishers = {worker}
  Artifacts = {a1, a2}
  Manifests = {m1, m2}
  None = None
  MaxEdits = 1
  MaxFaults = 0
  MaxCrashes = 1
INVARIANT SameHashIsDuplicate
