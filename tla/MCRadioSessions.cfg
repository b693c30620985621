CONSTANTS
  DomainsOf <- MCDomainsOf
  Original <- AtA
  Urls <- MCUrls
  Responses <- Sessions
  TalksFirst = FALSE
  Closings = {"silent", "fin", "cut"}
  Timeout = 1
  RequestLen = 2
  CMD_QUIT <- Quit
  Scripts <- NoTyping
  StdinEnds = {}
  PollErrors = {}
  MAX_USER_INPUT = 4
  SocketSize = 3
SPECIFICATION Spec
INVARIANTS
  SocketMatchesState
  OnlyStreamsArePlayed
  RequestArrives
  CookiesAreUnique
PROPERTIES
  ReadBeforeLeaving
  ImplementsSession
