SPECIFICATION UtilitiesSpec
CONSTANT NoArgument = NoArgument
VIEW View
CHECK_DEADLOCK FALSE
INVARIANTS JsonTextSound OffsetPtrsSound
PROPERTIES JsonValuesSound  TimeSound GetoptSound FilesExclusive
