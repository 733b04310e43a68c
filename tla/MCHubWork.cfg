SPECIFICATION Spec
CONSTANTS
  NumItems = 1
  Workers = {w1}
  Nobody = Nobody
  Budget = 1
  MaxFaults = 2
  MaxCopies = 1
INVARIANT TypeOK TornNeedsFault
PROPERTIES AssignedNeverRetired TornIsRepaired LandedIsRetired
