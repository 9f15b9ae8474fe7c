SPECIFICATION Spec
INVARIANTS UndoIsRefold OutputsAreRefold StoredAsOfDurable ColumnsOfAcceptedBlocks
