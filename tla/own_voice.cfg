SPECIFICATION VoiceSpec
CONSTANTS
  EchoGuard = 1
  Horizon = 6
  MaxTexts = 2
  HistoryTurns = 1
  IdleReset = 2
  SilenceChunks = 1
  MaxSpeech = 2
  MaxBacklog = 5
  ExitThreshold = 2
  DialogueEnabled = TRUE
PROPERTY OwnVoiceNeverActedOn
