SPECIFICATION DetectSpec
CONSTANT Supports <- MCSupports
INVARIANTS NothingStale HelpSound AllSetMeansLaunched
CHECK_DEADLOCK FALSE
