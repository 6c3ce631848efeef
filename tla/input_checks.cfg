CONSTANTS
  ReportCap = 3
  Words <- MCWords
  Codes <- MCCodes
  MaxWords = 4
  Chars <- MCChars
  MaxTemplate = 20
  MaxOutput = 16
  MaxVariables = 2
  MaxNameLen = 2
  MaxTags = 3
  Pieces <- MCPieces
  MaxPieces = 5
  VarValues <- MCVarValues
  MaxRecipients = 3
  MaxSubject = 7
  ContentPieces <- MCContentPieces
  Mailboxes = {"x", "y"}
  ToLists <- MCToLists
  HeaderSets <- MCHeaderSets
  MaxEdits = 4
  MaxRedirects = 3
  URLs <- MCURLs
  Addrs <- MCAddrs
SPECIFICATION Spec
INVARIANTS
  SuppressionFollowsTheText
  TemplatesAreFaithful
  
  SettingsAreFit
  NothingInsideIsDialled
CHECK_DEADLOCK FALSE
