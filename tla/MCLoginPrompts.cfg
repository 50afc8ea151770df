CONSTANTS
  Session <- MCSession
  Conn <- MCConn
  SessionOf <- MCSessionOf
  Shell <- MCShell
  KeyAuth <- MCKeyAuth
  Saved <- MCSaved
  Name = {"root"}
  Password = {"p"}
  Request <- MCRequest
  MaxRounds = 2
  MaxStarts <- MCMaxStarts
  Cancel = Cancel
  Undecided = Undecided
  NoDialog = NoDialog
SPECIFICATION FairSpec
INVARIANTS QueuesAreSound CredentialsAreOwn PasswordOfferedTwice
PROPERTIES KeepLines LoginSettles
CHECK_DEADLOCK FALSE
