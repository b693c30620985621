CONSTANTS
  DomainsOf <- MCDomainsOf
  Original <- AtB
  Urls <- MCUrls
  Responses <- OKs
  TalksFirst = TRUE
  Closings = {"silent", "fin", "cut", "reset", "hangup"}
  Timeout = 1
  RequestLen = 2
  CMD_QUIT <- ShortQuit
  Scripts <- Typing
  StdinEnds = {"eof"}
  PollErrors = {"EINTR", "error"}
  MAX_USER_INPUT = 3
  SocketSize = 1
SPECIFICATION Spec
INVARIANTS
  QuitIsObeyed
PROPERTIES
  DeadConnectionIsLeft
