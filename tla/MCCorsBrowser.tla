---------------------------- MODULE MCCorsBrowser ----------------------------
(* Model checking of CorsBrowser: origins and configurations that differ in *)
(* one thing each.                                                          *)
EXTENDS CorsBrowser

Api == Origin("https", <<"api", "example", "com">>, "")
App == Origin("https", <<"app", "example", "com">>, "")
Apex == Origin("https", <<"example", "com">>, "")
Deep == Origin("https", <<"a", "app", "example", "com">>, "")
OtherPort == Origin("https", <<"app", "example", "com">>, "8080")
OtherScheme == Origin("http", <<"api", "example", "com">>, "")
Foreign == Origin("https", <<"example", "org">>, "")

PageOrigins == {Api, App, Apex, Deep, OtherPort, OtherScheme, Foreign, NullOrigin}

ListOf(e) == [origin |-> {e}]
Exact == ListOf(Entry(FALSE, App))
Wildcard == ListOf(Entry(TRUE, Apex))
Open == [origin |-> Any]
With(f, v, config) == MergedConfig(config, [g \in {f} |-> v])

Servers ==
  {Disabled, Exact, Wildcard, Open, With("credentials", TRUE, Wildcard),
   With("allowHeaders", {"*"}, Exact), With("allowHeaders", {"*", "Authorization"}, Open),
   With("allowHeaders", {"*", "Authorization"}, With("credentials", TRUE, Exact)),
   ListOf(Entry(FALSE, NullOrigin)), ListOf(Entry(TRUE, Origin("https", <<"com">>, ""))),
   ListOf(Entry(FALSE, Origin("https", <<"app", "example", "com">>, "443")))}
Endpoints ==
  {Disabled, Inherited, Absent, Open, With("credentials", FALSE, Open),
   [f \in {"trustSameOrigin"} |-> FALSE], [f \in {"maxAge"} |-> 0]}
SentHeaders == {{}, {"Authorization"}, {"X-Custom"}}
=============================================================================
