\* The daemon and the health check over one file, one edit by the operator.
SPECIFICATION Spec
CONSTANTS
  Procs = {"daemon", "healthcheck"}
  OperatorFiles <- Files
  Envs <- Environments
  MaxEdits = 1
INVARIANTS SettingsKept EndpointFits NotifiersSurvive UntouchedUnlessBare
