SPECIFICATION FamiliesSpec
CONSTANTS
  Byte = {0, 1, 2, 3, 4, 5}
  Cont = {3}
  Lead = {2}
  Space = 0
  Pieces <- MCPieces
  Special <- MCSpecial
  AgreementNs = {0, 1, 2}
  Families = {"parakeet", "moonshine", "voxtral"}
  PrefixFamilies = {"parakeet", "moonshine"}
  Agreements <- MCAgreements
  MaxTokens <- MCMaxTokens
  MaxFeeds = 3
INVARIANTS FamiliesTypeOK OnFinalizeHides SeamCoherent FinalizedCovers FinalIsWhole
PROPERTIES Spec CaptionSpec CommittedIsSpoken ReportTells CommitNeedsAgreement TokenCountNeedsAgreement AppendersReadable
