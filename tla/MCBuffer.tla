------------------------------ MODULE MCBuffer -------------------------------
\* A buffer alone, and two requests of every kind, cut in up to three parts.
EXTENDS HttpServer

MCScripts ==
  {<<>>, <<"bad", "get">>} \cup {<<k, l>> : k \in {"get", "login"},
                                          l \in {"get", "login", "bad"}}

MCEdits == {<<"index", Missing>>, <<"index", File(FALSE, 1)>>,
            <<"index", File(TRUE, 0)>>, <<"404", Missing>>}
==============================================================================
