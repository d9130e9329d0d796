SPECIFICATION Spec
CONSTANTS
  NumPackets = 3
  Behind <- MCBehind
  Roles <- MCRoles
  Ttls <- MCTtls
  Profiles <- MCProfiles
  RewriteWords = 6
  MaxChanges = 1
INVARIANT TypeOK
INVARIANT TraceTellsPath
INVARIANT OwnRecordsOnly
INVARIANT PayloadKept
CHECK_DEADLOCK FALSE
