CONSTANTS
  DomainsOf <- MCDomainsOf
  Original <- AtA
  Urls <- MCUrls
  Responses <- OKs
  TalksFirst = TRUE
  Closings = {"hangup"}
  Timeout = 1
  RequestLen = 1
  CMD_QUIT <- Quit
  Scripts <- NoTyping
  StdinEnds = {}
  PollErrors = {}
  MAX_USER_INPUT = 4
  SocketSize = 2
SPECIFICATION Spec
PROPERTIES
  TimeoutReconnects
