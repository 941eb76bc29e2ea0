------------------------------- MODULE MCAuth -------------------------------
(* Users, logins and sessions: small sets of requests that meet at one user. *)
EXTENDS Auth, TLC

Request(op, n) ==
    [op |-> op, user |-> n, as |-> None, role |-> "operator", enabled |-> TRUE, password |-> "new", no |-> 0]

By(as, r) == [r EXCEPT !.as = as]

(* The i-th login of n with a password. *)
LoginAs(n, password, i) == [Request("login", n) EXCEPT !.password = password, !.no = i]

Use(n, i) == By(n, [Request("use", n) EXCEPT !.no = i])

Update(n, role, enabled) == [Request("update", n) EXCEPT !.role = role, !.enabled = enabled]

Enable(n, enabled) == [Request("enable", n) EXCEPT !.enabled = enabled]

Two == [ada |-> "administrator", bob |-> "administrator"]

One == [ada |-> "administrator", bob |-> "operator"]

Nobody == [n \in {} |-> None]

Scenario(users, signedIn, wanted) == [users |-> users, signedIn |-> signedIn, wanted |-> wanted]

MCScenarios ==
    { \* two administrators take one another's rights, one of them their own
      Scenario(Two, <<"ada", "bob">>,
               {By("ada", Update("bob", "operator", TRUE)), By("bob", Update("ada", "administrator", FALSE)),
                By("bob", Update("bob", "operator", TRUE))}),
      \* an update meets commands on the host and another update
      Scenario(One, <<"ada", "ada">>,
               {By("ada", Update("bob", "administrator", FALSE)), Enable("bob", FALSE),
                [Request("assign", "bob") EXCEPT !.role = "administrator"]}),
      Scenario(One, <<"ada">>,
               {By("ada", Update("bob", "operator", TRUE)), LoginAs("bob", "old", 1),
                [Request("assign", "bob") EXCEPT !.role = "administrator"]}),
      Scenario(One, <<"ada", "ada">>,
               {By("ada", Update("bob", "operator", FALSE)), By("ada", Update("bob", "administrator", TRUE)),
                LoginAs("bob", "old", 1)}),
      \* first administrators
      Scenario(Nobody, <<>>,
               {Request("bootstrap", "ada"), Request("bootstrap", "bob"),
                [Request("create_local", "bob") EXCEPT !.role = "administrator"]}),
      Scenario([bob |-> "operator"], <<>>,
               {Request("bootstrap", "ada"), Enable("bob", FALSE),
                [Request("assign", "bob") EXCEPT !.role = "administrator"]}),
      \* logins meet a reset, a lock and one another
      Scenario(One, <<"ada", "bob">>,
               {LoginAs("bob", "old", 1), By("ada", Request("reset", "bob")), Use("bob", 1)}),
      Scenario(One, <<"bob">>,
               {LoginAs("bob", "old", 1), Request("reset_local", "bob"), Enable("bob", FALSE)}),
      Scenario(One, <<>>,
               {LoginAs("bob", "new", 1), LoginAs("bob", "new", 2), LoginAs("bob", "new", 3),
                LoginAs("bob", "new", 4), LoginAs("bob", "new", 5), LoginAs("bob", "old", 6)}),
      \* sessions in use
      Scenario(One, <<"bob">>, {Use("bob", 1), Use("bob", 2), By("bob", Request("logout", "bob"))}),
      Scenario(One, <<"ada", "bob">>,
               {By("bob", Update("bob", "administrator", TRUE)), By("ada", Request("create", "bob")),
                LoginAs("zoe", "old", 1)}) }

Interchangeable == Permutations(Handlers)
=============================================================================
