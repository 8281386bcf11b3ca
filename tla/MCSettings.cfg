\* What survives conversions, cut saves and resets, and what does not.
SPECIFICATION Spec
CONSTANTS
  FactoryText = FactoryText
  NoText = NoText
  Junk = Junk
  Mine = Mine
  Left <- MCLeft
  Choices <- MCChoices
  Typed = {3, 300}
  EditNumbers = {"role"}
CONSTRAINTS OneOpen SavedNoMore
INVARIANTS SettingsSurvive NeverForgets OnlyEditsUnsaved
