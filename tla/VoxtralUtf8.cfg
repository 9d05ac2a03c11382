SPECIFICATION FamiliesSpec
CONSTANTS
  Byte = {0, 1, 2, 3, 4, 5}
  Cont = {3}
  Lead = {2}
  Space = 0
  Pieces <- MCPieces
  Special <- MCSpecial
  AgreementNs = {0, 1, 2}
  Families = {"voxtral"}
  PrefixFamilies = {}
  Agreements <- MCAgreements
  MaxTokens <- MCMaxTokens
  MaxFeeds = 3
INVARIANT CommittedIsUtf8
