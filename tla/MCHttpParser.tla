---------------------------- MODULE MCHttpParser ----------------------------
(* Instances of HttpParser for TLC.                                        *)
EXTENDS HttpParser

Msg(kind, parts) == [kind |-> kind, parts |-> parts]
X == <<"data", 1>>
Y == <<"data", 2>>

\* Contents that look like line ends; messages of every kind before and behind
\* chunked ones; lengths and lines of chunks that are refused.
SomeStreams ==
  { << Msg("length", <<CRLF \o CRLF>>), Msg("chunked", <<<<X, Y>>, CRLF>>),
       Msg("length", <<<<X>>>>) >>,
    << Msg("chunked", <<>>), Msg("length", <<>>), Msg("chunked", <<<<X>>>>),
       Msg("chunked", <<<<Y>>>>) >>,
    << Msg("length", <<>>), Msg("max", <<CRLF, <<X>>>>), Msg("length", <<<<X, Y>>>>) >>,
    << Msg("chunked", <<<<X>>>>), Msg("max", <<>>), Msg("length", <<<<X>>>>) >>,
    << Msg("unread", <<<<X>>, CRLF, <<CR>>>>), Msg("chunked", <<<<X>>, <<X, X, Y>>>>),
       Msg("length", <<>>) >>,
    << Msg("length", <<<<X>>>>), Msg("huge", <<>>), Msg("length", <<>>) >> }

UnreadableSizes == {3}
=============================================================================
