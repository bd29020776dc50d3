\* One daemon, restarted, and no edits.
SPECIFICATION Spec
CONSTANTS
  Procs = {"daemon"}
  OperatorFiles <- Files
  Envs <- Environments
  MaxEdits = 0
INVARIANT SavedBack
