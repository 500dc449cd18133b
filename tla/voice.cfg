SPECIFICATION VoiceFairSpec
CONSTANTS
  EchoGuard = 1
  Horizon = 5
  MaxTexts = 2
  HistoryTurns = 1
  IdleReset = 5
  SilenceChunks = 1
  MaxSpeech = 2
  MaxBacklog = 2
  ExitThreshold = 2
  DialogueEnabled = TRUE
INVARIANTS VoiceTypeOK VisitorNotEcho
PROPERTIES OwnVoiceDiscarded PromptOfThisVisitor MicLossEndsProcess
