---------------------------- MODULE MCSseEmitter ----------------------------
EXTENDS SseEmitter, TLC

\* Capitals are special tokens: O <think>, C </think>, T and E <tool_call> and its
\* end, K a stray delimiter, M a control marker, X the end of
\* the answer.  The others are pieces of text.
MCTokenText ==
    "p" :> <<"p">> @@ "w" :> <<"w">> @@ "n" :> <<"n">> @@ "q" :> <<"q">> @@ "f" :> <<"f">>
      @@ "O" :> <<"o1", "o2">> @@ "C" :> <<"c1", "c2", "w">> @@ "M" :> <<>> @@ "X" :> <<>> @@ "_" :> <<>>
      @@ "o1" :> <<"o1">> @@ "o2p" :> <<"o2", "p">> @@ "c1" :> <<"c1">> @@ "c2p" :> <<"c2", "p">>
      @@ "t" :> <<"t1", "t2">> @@ "t1" :> <<"p", "t1">> @@ "t2j" :> <<"t2", "j">>
      @@ "jf" :> <<"j", "f">> @@ "nk1" :> <<"n", "k1">>
      @@ "k2v" :> <<"k2", "v">> @@ "kv" :> <<"k1", "k2", "v">> @@ "j" :> <<"j">> @@ "b" :> <<"b">>
      @@ "i1" :> <<"i1">> @@ "i2" :> <<"i2">>
      @@ "ps1" :> <<"p", "s1">> @@ "s2" :> <<"s2">> @@ "s3p" :> <<"s3", "p">>
      @@ "s" :> <<"s1", "s2", "s3">>
      @@ "u1" :> <<"p", "u1">> @@ "u2" :> <<"u2">> @@ "u" :> <<"u1", "u2">>
      @@ "nk" :> <<"n", "k1", "k2">> @@ "jv" :> <<"j", "v">> @@ "su" :> <<"s1", "s2", "s3", "u1">>
      @@ "T" :> <<"T">> @@ "E" :> <<"E">> @@ "K" :> <<"K">>

Vocabulary(tokens_, tools, stop) == [tokens |-> tokens_, tools |-> tools, stop |-> stop]

MCVocabularies ==
    {Vocabulary({"p", "O", "C", "c1", "c2p"}, FALSE, FALSE),
     Vocabulary({"p", "o1", "o2p", "C", "_"}, FALSE, FALSE),
     Vocabulary({"C", "t1", "t2j", "jf", "f", "q"}, TRUE, FALSE),
     Vocabulary({"t", "f", "i1", "i2", "j", "p"}, TRUE, FALSE),
     Vocabulary({"n", "nk1", "k2v", "kv", "w"}, TRUE, FALSE),
     Vocabulary({"O", "n", "nk1", "k2v"}, TRUE, FALSE),
     Vocabulary({"t", "nk", "jv", "f"}, TRUE, FALSE),
     Vocabulary({"b", "j", "w", "O", "t"}, TRUE, FALSE),
     Vocabulary({"O", "C", "ps1", "s2", "s3p", "t"}, TRUE, TRUE),
     Vocabulary({"u1", "u2", "u", "C", "s", "su"}, FALSE, TRUE),
     Vocabulary({"p", "T", "E", "K", "M", "X"}, FALSE, FALSE)}
=============================================================================
