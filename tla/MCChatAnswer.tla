---------------------------- MODULE MCChatAnswer ----------------------------
(* The inputs of ChatAnswer: short streams cut in every way, answers made of *)
(* markers of every kind, and chunk texts with two words, stops and blanks.  *)
EXTENDS ChatAnswer

Streams ==
  BoundedSeq({"w", Lead, Continuation, Newline}, 5)
    \cup {s \o <<Newline, DoneText, Newline, "w", Newline>> :
            s \in BoundedSeq({"w", Lead, Continuation}, 2)}
    \cup {s \o <<Newline>> :
            s \in BoundedSeq({"w", "1", "2", "3", "A", "B", "C", "a"}, 3)}

Texts == UNION {[1..n -> {"x", "y", " ", ".", "\n"}] : n \in {6}}

MCScenario == (Streams \X {<<"x">>}) \cup ({<<>>} \X Texts)
MCCases == {[stream |-> s[1], text |-> s[2]] : s \in MCScenario}
MCChunkIds == <<"A", "B">>
MCQuestion == <<"x", " ", "y">>
=============================================================================
