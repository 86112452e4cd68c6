SPECIFICATION Spec
CONSTANTS
  None = None
  Raised = Raised
  Refused = Refused
  Garbled = Garbled
  Nothing = Nothing
  Fault = Fault
  Malformed = Malformed
  NoModel = NoModel
  Unpriced = Unpriced
  Threshold = 0
  Numbers = {1}
  Languages = {"ar", "en"}
  Script <- MCScript
  Specs <- MCSpecs
  Catalogue <- MCCatalogue
  Messages <- MCMessages
  Retrievals <- MCRetrievals
  Completions <- MCCompletions
  Answers <- MCAnswers
  Extracting <- MCExtracting
  Composing <- MCComposing
  Auditing <- MCAuditing
  Embedding <- MCEmbedding
  Registers <- MCRegisters
  Replies <- MCReplies
  Rates <- MCRates
  Inside <- MCInside
  MaxTurns = 3
INVARIANTS
    LedgerIsComplete
    OnlyGroundedFigures
    QuestionsAreKept
    NoMatchIsSent
