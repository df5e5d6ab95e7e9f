-------------------------------- MODULE MCWire --------------------------------
(***************************************************************************)
(* Wire for TLC: one or two requests of every type, with empty strings and *)
(* strings whose lengths differ, and lists of no, one and three rows.      *)
(***************************************************************************)
EXTENDS Wire

MCCall(t, v) == [version |-> version, type |-> t, values |-> v]

MCCalls == {MCCall(101, <<<<1, 2>>, <<3>>>>), MCCall(101, <<<<>>, <<>>>>),
            MCCall(102, <<<<>>, <<1>>>>),     MCCall(103, <<>>),
            MCCall(104, <<<<>>>>),            MCCall(104, <<<<42>>>>),
            MCCall(105, <<<<1>>, <<>>>>),     MCCall(105, <<<<1>>, <<2, 3>>>>),
            MCCall(106, <<<<1, 2>>>>),        MCCall(107, <<>>),
            MCCall(108, <<>>)}
MCLists == {<<>>, <<<<1, 2>>>>, <<<<1>>, <<>>, <<2, 3>>>>}
MCText(s, c) == [sender_ |-> s, content_ |-> c]
MCChats == {<<>>, <<MCText(0, <<1>>)>>, <<MCText(0, <<1>>), MCText(1, <<2, 3>>), MCText(0, <<>>)>>}
=============================================================================
