----------------------------- MODULE MCConsole ------------------------------
(***************************************************************************)
(* Console for TLC: three rows for the tasks and two for the shell, four   *)
(* columns, of which the prompt takes one.  The text of the tasks and the  *)
(* longer messages go on in the next row, and every line scrolls.          *)
(***************************************************************************)
EXTENDS Console

MCChar == {"SP", "-", "pid", "error", "nosuch", ">", "a", "o", "1", "3",
           "clear", "exec", "kill", "ps", "cat", "x"}
MCPrefix == <<">">>
MCTexts == {<<"a", "a", "a", "a", "LF", "a">>, <<"LF">>}
MCReplies == {<<"o", "LF">>, <<"o">>}
MCLines == {<<"clear", "SP", "1">>, <<"exec", "SP", "1">>, <<"kill", "SP", "3">>, <<"ps">>,
            <<"cat">>, <<"x">>}
=============================================================================
