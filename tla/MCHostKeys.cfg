SPECIFICATION FairSpec
CONSTANTS
  shell1 = shell1
  sftp1 = sftp1
  shell2 = shell2
  h1 = h1
  h2 = h2
  k1 = k1
  k2 = k2
  Connections <- Three
  Abortable <- SftpOnly
  Hosts <- TwoHosts
  Keys <- TwoKeys
  HostOf <- HostOfThree
  KeysOf <- KeysOfHosts
  NoKey = NoKey
INVARIANT PromptsAreSound
INVARIANT WaitersAreOwedOne
PROPERTY RefusedOnlyByUser
PROPERTY StoredOnlyAccepted
PROPERTY KeepsLine
PROPERTY WaiterIsAnswered
