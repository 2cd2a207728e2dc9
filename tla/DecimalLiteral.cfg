SPECIFICATION ScannerSpec
CONSTANT MaxLength = 6
INVARIANT FollowsGrammar
