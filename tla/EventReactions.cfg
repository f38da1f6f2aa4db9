CONSTANTS
  Npcs = {a}
  Calls = {c1, c2}
  Messages <- MCMessages
  NoMessage = NoMessage
  NoWork = NoWork
SPECIFICATION Spec
INVARIANTS ChainUnbroken OneReactionPerRevision
PROPERTIES ReactionsGoForward EndedFallsSilent
