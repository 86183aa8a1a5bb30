SPECIFICATION Spec
CONSTANTS
    Pid = {0}
    MAX_FD_PER_PROCESS = 5
    FS_BLOCK_LENGTH = 2
    ADDRESSES = 32
    Dentries <- Directory
    Inodes <- InodeTable
    DataBlocks <- Blocks
    Request <- RequestValues
    FILE_NAME_SIZE = 4
    Names <- NameTable
    Dot <- DotName
    Misspelled <- WrongNames
INVARIANTS
    DescriptorsAccountedFor
    SequentialReads
    ZeroMeansEnd
    SysErrPasses
