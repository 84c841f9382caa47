---------------------------- MODULE MCHttpActive ----------------------------
EXTENDS HttpActive

Accept == [name |-> <<"ac", "cept">>, value |-> <<"any">>]
HostIs(host) == [name |-> Host, value |-> host]

Bad  == <<"www.", "bad.com">>
Good == <<"good.com">>

\* A request of each form, with what it asks for.
PostBad == [method |-> "POST", url |-> <<"/", "a">>,
            fields |-> <<Accept, HostIs(Bad)>>,
            host |-> Bad, domain |-> <<"bad.com">>, path |-> <<"/", "a">>]
GetGood == [method |-> "GET", url |-> <<"/">>,
            fields |-> <<HostIs(Append(Good, ":80")), Accept>>,
            host |-> Good, domain |-> Good, path |-> <<"/">>]
ProxyBad == [method |-> "GET", url |-> <<"http", "://", "bad.com", "/", "a">>,
             fields |-> <<>>,
             host |-> <<"bad.com">>, domain |-> <<"bad.com">>, path |-> <<"/", "a">>]
AskAll == [method |-> "OPTIONS", url |-> <<"*">>, fields |-> <<HostIs(Good)>>,
           host |-> Good, domain |-> Good, path |-> <<"/">>]

MCStreams == {<<PostBad, GetGood>>, <<ProxyBad, GetGood>>, <<GetGood, AskAll>>}

Empty == [x \in {} |-> "1"]
Entry(key, value) == [x \in {key} |-> value]
\* A listed page, a listed host with one page excepted, a listed domain behind
\* an unreadable entry.
MCDbs == {[hostname |-> Entry(Bad \o <<"/", "a">>, "1"), domain |-> Empty],
          [hostname |-> [x \in {Bad, Bad \o <<"/", "a">>, Good} |->
                            IF Len(x) = 4 THEN "0" ELSE "1"], domain |-> Empty],
          [hostname |-> Entry(<<"bad.com", "/", "a">>, "?"),
           domain |-> Entry(<<"bad.com">>, "1")]}
=============================================================================
