SPECIFICATION FairSpec
CONSTANTS
    hello = hello
    answer = answer
    liked = liked
    unliked = unliked
    heart = heart
    Me = Me
    Peer = Peer
    Unread = Unread
    Unsent = Unsent
    Texts <- MCTexts
    Own <- MCOwn
    Adds <- MCAdds
    Removals <- MCRemovals
    Emojis <- MCEmojis
    Of <- MCOf
    EmojiOf <- MCEmojiOf
    Named <- MCNamed
    At <- MCAt
    Before <- MCBefore
    MaxViews = 1
    MaxActs = 1
    MaxAtOnce = 1
    MaxQueued = 1
    MaxBlocks = 1
    MaxFaults = 1
INVARIANTS
    TypeOK
    PeerCountedOnce
    WipedStays
PROPERTIES
    RemovalSticks
    PassLeavesTruth
    NothingLost
    ClickCounts
    WipeEnds
CHECK_DEADLOCK FALSE
