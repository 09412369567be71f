----------------------------- MODULE MCTransport -----------------------------
(* Answers for Transport: well formed, truncated, oversized and malformed. *)
EXTENDS Transport

Line(kind, size, piece) == [kind |-> kind, size |-> size, piece |-> piece]
Answer(lines) ==
    [i \in DOMAIN lines |-> [kind |-> lines[i].kind, piece |-> lines[i].piece,
                            ends |-> FoldSeq(LAMBDA line, n : line.size + n, 0, SubSeq(lines, 1, i))]]
Data(piece) == Line("data", 2, piece)
Blank == Line("blank", 1, None)
CrLf == Line("blank", 2, None)
Comment == Line("comment", 1, None)

Good == <<Data("c1"), Blank, Blank, Data("c"), Data("3"), Blank, Data("[DONE]"), CrLf>>
Oversized == <<Data("c2"), Comment, Comment, Comment, Comment, Blank, Data("[DONE]"), Blank>>
Trailing == <<Data("c2"), Blank, Data("[DONE]"), Blank, Line("data", 5, "c1"), Data("c1"), Blank>>
Broken == <<Data("c1"), Blank, Data("x"), Blank>>
Foreign == <<Data("c1"), CrLf, Line("other", 1, None), Blank>>
Long == <<Blank, Line("data", 7, "c1"), Blank>>
TooLongByAByte == <<Comment>> \o Good
MCWires == {Answer(lines) : lines \in
            {Good, TooLongByAByte, Oversized, Trailing, Broken, Foreign, Long,
             <<Line("completion", 3, "answer")>>, <<Line("completion", 5, "answer")>>}}

Url(scheme, loopback, port) == [scheme |-> scheme, extras |-> FALSE, port |-> port, path |-> "v1", loopback |-> loopback]
Binding(model, url, key) == [model |-> model, url |-> url, key |-> key]
MCBindings == {<<Binding("a", Url("https", FALSE, 443), "KEY")>>,
               <<Binding("a", Url("http", FALSE, 80), None)>>,
               <<Binding("a", Url("http", TRUE, 0), None)>>, <<>>,
               <<Binding("a", Url("https", FALSE, 443), None), Binding("a", Url("https", FALSE, 443), None)>>,
               <<Binding("a", Url("https", FALSE, 443), "OTHER")>>}
=============================================================================
