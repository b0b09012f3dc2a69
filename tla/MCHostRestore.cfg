SPECIFICATION Spec
CONSTANTS
  Sources <- MCSources
  Writes <- MCWrites
  Rewritten = {"daemon"}
  Owned = "owned"
  Services <- MCServices
  Inputs <- MCInputs
  FirstFiles <- MCFirstFiles
  FirstServices <- MCFirstServices
  Edits <- MCEdits
  Unparsable = {"garbage"}
  MaxCommands = 2
  MaxEdits = 2
INVARIANT RestoredIsCaptured
INVARIANT HostNeverTorn
INVARIANT RegistrationIsUndoable
INVARIANT ServicesRunRestored
