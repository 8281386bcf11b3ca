\* Lines of up to four characters and a history of five bytes.
CONSTANTS
  Letters <- OneLetter
  LineLen = 5
  RingLen = 5
  TokenNmb = 2
  PromptLen = 1
  Keywords <- FourKeywords
  NumOfCmd = 3
  Subwords <- ASubwords
SPECIFICATION Spec
INVARIANTS
  HistoryIsChain
  ScreenShowsLine
PROPERTIES
  KeepsEditorPromise
