------------------------------ MODULE MCShell ------------------------------
(* Instance of Shell: every line of up to MaxTokens tokens, and longer ones *)
(* that nest pipes, lists, blocks and background commands.                  *)
EXTENDS Shell

CONSTANT MaxTokens

Short == UNION {[1 .. n -> Words \cup Symbols] : n \in 0 .. MaxTokens}

Long == {
    <<"a", "|", "a", "|", "a">>,
    <<"(", "a", "|", "a", ")", "|", "a">>,
    <<"(", "a", ";", "a", ")", "|", "a">>,
    <<"a", "|", "(", "a", ";", "a", ")">>,
    <<"a", "|", "a", "&", ";", "a">>,
    <<"(", "a", "|", "a", ")", ">", "b", "<", "b">>,
    <<"a", "<", "b", "|", "a", ">", "b">>,
    <<"a", "<", "b", ">", "a", "<", "a">>,
    <<"a", ";", "a", "|", "a">>,
    <<"a", "b", "|", "a", "&">>,
    <<"(", "a", ")", "a">>,
    <<"(", "a", "|", "a", ";">>,
    <<"a", "&", "&", ";", "a", "&">>}

MCFirst == Short \cup Long
MCLater == {<<"a">>}
=============================================================================
