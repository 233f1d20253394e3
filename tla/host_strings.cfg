SPECIFICATION Spec
CONSTANTS
  LastPool = 3
  LastBlock = 24
  Texts <- AllTexts
  Empty = ""
  Bins = {0, 1}
  Bin <- BinOf
  Labels = {"@f:", "@g:", "@main:"}
  NameIn <- Names
  MainName = "@main"
  Instructions = {"ADD"}
  Wrong = {"??"}
  Notice = "note"
  Sources <- ShortSources
  TestSources <- TestPrograms
INVARIANTS
  PoolsSound
  PoolsHandedOver
