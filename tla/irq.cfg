SPECIFICATION FairSpec
CONSTANT Lines = {0, 1, 3, 11, 12, 14}
INVARIANTS TypeOK ServiceAccounted ClaimedMissOnlyInWindow
PROPERTIES EOIRetiresOwn MissedMasksLower DeafForGood Responsive
