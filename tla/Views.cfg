\* One view at a time, three changes or faults.
SPECIFICATION Spec
CONSTANT MaxHappenings = 3
PROPERTY ChangesReachTheScreen
