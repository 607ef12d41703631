------------------------------ MODULE MCBootstrap ------------------------------
(* Values for Bootstrap.cfg: two well-known relays, a user's wss:// relay    *)
(* with a query, a ws:// one, one without a host and a string that is no URL.*)
EXTENDS Bootstrap

Url(scheme, rest) == [scheme |-> scheme, rest |-> rest]

nos    == Url("wss", <<"nos">>)
snort  == Url("wss", <<"snort">>)
mine   == Url("wss", <<"mine", "?", "q">>)
plain  == Url("ws", <<"mine", ":", "8080">>)
nohost == Url("wss", <<"/", "q">>)
text   == Url("other", <<"mine">>)

AllUrls  == {nos, snort, mine, plain, nohost, text}
Firsts   == {mine, plain, nohost}
Seeds    == <<nos>>
Fallback == <<nos, snort>>

List(tags, content) == [r_tags |-> tags, content |-> content]

Lists == {List(<<mine, mine, nohost>>, << >>), List(<<plain, text>>, << >>),
          List(<<text>>, <<snort, plain, mine>>)}

=============================================================================
