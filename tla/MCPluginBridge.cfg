\* Two connections of the plugin, a stranger, two commands (no symmetry: the
\* run checks temporal properties).
CONSTANTS
  Plugins = {p1, p2}
  Strangers = {x}
  Commands = {c1, c2}
  NoSocket = NoSocket
SPECIFICATION FairSpec
INVARIANT TypeOK
INVARIANT CallBookkeeping
INVARIANT AnsweredWasExecuted
INVARIANT OnlyAuthenticatedCarriers
PROPERTY PresenceLostOnlyByOwnClose
PROPERTY ImplementsRemoteCall
CHECK_DEADLOCK FALSE
