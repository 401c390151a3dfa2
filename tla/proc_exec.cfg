SPECIFICATION Spec
CONSTANT MaxParams = 2
INVARIANTS TypeOK ParamsReleased OutputKeptAndReleased FilesWhole StdinWhole
CHECK_DEADLOCK FALSE
