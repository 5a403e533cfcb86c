SPECIFICATION Spec
CONSTANTS
  MaxDev = 2
  Word <- MCWord
  Lines <- MCLines
  Messages <- MCMessages
  Begins <- MCBegins
  Respelled <- MCRespelled
  VersionWords <- MCVersionWords
  Number <- MCNumber
  CommandList <- MCCommandList
  OwnCommands <- MCOwnCommands
  Outlets <- MCOutlets
  Upper <- MCUpper
  Template <- MCTemplate
  FullLen = 3
  ArgLen = 6
  TokLen = 7
  Empty = ""
  Junk = "?"
  Free = Free
INVARIANT TypeOK
PROPERTIES AddedIsReached VersionIsNoArgument QueuedOrTold MessageMerged StatusShowsOwn
VIEW TableAndClient
