----------------------------- MODULE MCRequest -----------------------------
(* Request for TLC: a client that sends every kind of text, and a client of *)
(* a CGI program beside it.                                                 *)
EXTENDS Request

U(dots, cgi, file) == [dots |-> dots, cgi |-> cgi, file |-> file]

MCUri == [page |-> U(FALSE, FALSE, "plain"), up |-> U(TRUE, TRUE, "missing"),
          none |-> U(FALSE, FALSE, "missing"), dir |-> U(FALSE, FALSE, "irregular"),
          empty |-> U(FALSE, FALSE, "empty"), prog |-> U(FALSE, TRUE, "program"),
          noprog |-> U(FALSE, TRUE, "plain")]

MCTexts == << {<<u, "nl", "nl">> : u \in DOMAIN MCUri \cup {"post"}}
              \cup {<<>>, <<"page">>, <<"page", "nl">>, <<"prog", "nl", "h", "nl", "nl">>,
                    <<"page", "nl", "h", "h", "nl", "nl">>},
              {<<"prog", "nl", "nl">>} >>
=============================================================================
