SPECIFICATION FairSpec
CONSTANTS
  Epochs = 2
  Width = 2
  EpochLen = 30
  Wait = 8
  Late = 16
  Word = 65536
  Genesis = 20
  Setups <- MCSetups
CHECK_DEADLOCK FALSE
INVARIANTS
  OneBlockPerRound StaysInStep PanicOnlyBySkew
PROPERTIES
  ReaderResumes
