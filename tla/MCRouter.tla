------------------------------ MODULE MCRouter ------------------------------
(* Instances of Router for TLC: a native backend, a sidecar with a prefix,  *)
(* and a proxy that lists names the other two own.                          *)
EXTENDS Router

CONSTANTS r1, r2, r3, none, failed

Three        == 1 .. 3
ThreeRequests == {r1, r2, r3}
TwoRequests  == {r1, r2}
OnlyTwo      == {2}

BackendPrefixes == <<<<>>, <<"ha">>, <<>>>>

Diff  == <<"diff">>
On    == <<"on">>
HaOn  == <<"ha", "on">>

NativeAnswers == {<<Tool(Diff, TRUE)>>}
ProxyAnswers  == {failed, <<Tool(HaOn, FALSE), Tool(Diff, FALSE)>>}

\* The sidecar lists local names; or one that bears the prefix already.
Local  == <<NativeAnswers,
            {failed, <<Tool(<<"off">>, TRUE), Tool(On, FALSE)>>},
            ProxyAnswers>>
Mixed  == <<NativeAnswers, {failed, <<Tool(HaOn, FALSE)>>}, ProxyAnswers>>

Ask(kind, name) == [kind |-> kind, name |-> name]
List   == Ask("list", <<>>)
Status == Ask("status", <<>>)
Call(name) == Ask("call", name)

ListOrCall == {List, Call(Diff), Call(HaOn)}
StatusOrCall == {Status, Call(HaOn)}
=============================================================================
