--------------------------- MODULE MCDirectThread ---------------------------
(* One message of the peer's and one of the user's; the peer reacts to one and *)
(* takes it back.                                                              *)
EXTENDS DirectThread

CONSTANTS hello, answer, liked, unliked, heart

MCTexts == {hello}
MCOwn == {answer}
MCAdds == {liked}
MCRemovals == {unliked}
MCEmojis == {heart}
MCOf == [r \in {liked, unliked} |-> hello]
MCEmojiOf == [r \in {liked} |-> heart]
MCNamed == [r \in {unliked} |-> {heart}]
MCAt == [r \in {hello, liked, unliked} |->
            CASE r = hello -> 1 [] r = liked -> 2 [] r = unliked -> 3]
Mine == Row(0, hello, Me, heart, Unsent, FALSE)
Theirs == Row(liked, hello, Peer, heart, liked, FALSE)
MCBefore == {[chat |-> {}, rows |-> {}], [chat |-> {hello}, rows |-> {Mine, Theirs}]}
=============================================================================
