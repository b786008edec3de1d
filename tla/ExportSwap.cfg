SPECIFICATION ExportSpec
CONSTANTS
  Processes = {worker, cli}
  Exporters = {worker, cli}
  Artifacts = {a1, a2}
  Manifests = {m1}
  None = None
  MaxEdits = 2
  MaxFaults = 2
  MaxCrashes = 1
INVARIANT ExportTypeOK
 
 
