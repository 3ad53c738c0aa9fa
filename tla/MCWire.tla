------------------------------- MODULE MCWire -------------------------------
(* Instances of Wire for TLC: two turns, the first with every reply of up to  *)
(* two blocks and a few of three, the second with calls and text only.        *)
EXTENDS Wire

Block(kind, tool, size, signed) == [kind |-> kind, tool |-> tool, size |-> size, signed |-> signed]

MCBlocks ==
    {Block("text", "", 2, FALSE), Block("thought", "", 1, FALSE), Block("thought", "", 1, TRUE),
     Block("thought", "", 0, TRUE), Block("redacted", "", 0, TRUE),
     Block("call", "a", 2, FALSE), Block("call", "b", 0, FALSE)}

MCSigned == Block("thought", "", 1, TRUE)
MCCallA  == Block("call", "a", 2, FALSE)
MCCallB  == Block("call", "b", 0, FALSE)
MCText   == Block("text", "", 1, FALSE)

MCReplies ==
    << [1..1 -> MCBlocks] \cup [1..2 -> MCBlocks]
         \cup {<<MCSigned, MCCallA, MCCallA>>, <<MCSigned, MCCallA, MCSigned>>,
               <<MCCallA, MCSigned, MCCallB>>, <<MCText, MCCallB, MCCallA>>},
       {<<MCCallA>>, <<MCCallB>>, <<MCCallB, MCCallA>>, <<MCText>>} >>

MCPlain == [effort |-> "", format |-> "", choice |-> "", stops |-> FALSE, max |-> 0, default |-> 0]

MCOptions ==
    << [effort : {"", "none", "minimal", "medium", "max", "custom"},
        format : {"", "json", "json_schema", "other"}, choice : {"", "auto", "tool"},
        stops : BOOLEAN, max : {0, 1024, 1025, 20000}, default : {0, 2000}],
       {MCPlain} >>
=============================================================================
