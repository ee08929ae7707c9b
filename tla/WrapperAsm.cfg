SPECIFICATION AsmSpec
CONSTANT Stacked <- TwoArguments
INVARIANTS EntryTransparent ArgumentsPassed 
