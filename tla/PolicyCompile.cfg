SPECIFICATION Spec
CONSTANTS
  Plain = {"a"}
  LowerOf <- MCLowerOf
  Foreign = {"FOREIGN"}
  MaxLabel = 2
  Texts <- MCTexts
  Rank <- MCRank
  RawProfiles <- MCRawProfiles
  RawHosts <- MCRawHosts
  RawNames <- MCRawNames
  Versions = {0, 1, 2}
  FirstFiles <- MCFirstFiles
  CsrNames <- MCCsrNames
  MaxEdits = 2
  NoPolicy = NoPolicy
INVARIANTS AuthorizesAsWritten ReferencesResolve CanonicalMeaning
PROPERTIES HashFollowsEffect HashIdentifiesPolicy
CHECK_DEADLOCK FALSE
