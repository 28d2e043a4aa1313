\* The engines may rest; LMDB can also block for good (README, section 5).
SPECIFICATION MCSpec
CHECK_DEADLOCK FALSE
SYMMETRY MCSymmetry
CONSTANTS
    Parts = {"engines", "iterators", "merge", "codec"}
    Kinds = {"rocksdb", "leveldb", "wiredtiger", "perconaft", "lmdb"}
    t1 = t1  t2 = t2
    Threads = {t1, t2}
    n1 = n1  n2 = n2
    Namespaces = {n1, n2}
    k1 = k1
    DataKeys = {k1}
    NoOne = NoOne
    MaxWrites = 2
    MaxDepth = 2
    MaxIters = 2
    IterKinds = {"rocksdb", "leveldb", "lmdb", "perconaft", "wiredtiger", "forestdb"}
    OwnKeys = {4, 6, 8}
    OtherKeys = {2, 12}
    Keys = {1}
    Nil = Nil
    MergeBases <- MCMergeBases
    Operands <- MCOperands
    MaxOperands = 3
    W = 4  P = 2  Byte = 3
    Datas <- MCDatas
    Texts <- MCTexts
    KeyNames <- MCKeyNames
    TypesUsed = {1, 3, 4, 5, 10, 11}
    Scores <- MCScores
INVARIANTS
    
    
    CodecRight
