\* Two threads and four operations of any kind on three keys with common prefixes.
CONSTANTS
    TRIE_ALPHABET_SIZE = 2
    key_size = 3
    CallKeys <- SharedPrefixes
    Threads = {t1, t2}
    MaxCalls = 4
    NULL = NULL
    ERROR = ERROR
SPECIFICATION FairSpec
INVARIANTS TypeOK PathsIntact TraversesInOrder
PROPERTIES ImplementsMap OperationsReturn
CHECK_DEADLOCK FALSE
