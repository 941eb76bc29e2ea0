-------------------------- MODULE MCAdministration --------------------------
(* Administrative changes: small sets of requests that meet at one row. *)
EXTENDS Administration, TLC

MCKind ==
    [rule |-> "rule", window |-> "window", silence |-> "silence", place |-> "destination",
     site |-> "monitor", pve |-> "cluster", lab |-> "cluster", other |-> "integration"]

MCByName == <<"pve", "lab">>

(* A request of actor on row target (None to create one), under key. *)
Request(actor, op, target, kind, key, body) ==
    [actor |-> actor, op |-> op, target |-> target, kind |-> kind, key |-> key,
     body |-> body, token |-> None]

On(actor, op, target, key, body) == Request(actor, op, target, MCKind[target], key, body)

WithToken(r, token) == [r EXCEPT !.token = token]

(* Two administrators replace a row, one of them twice under the same key. *)
Rivals(target) ==
    {On("ada", "replace", target, "k", "a"), On("ada", "replace", target, "k", "b"),
     On("bob", "replace", target, "k", "b")}

(* A window or silence is replaced and revoked. *)
Ending(target) ==
    {On("ada", "replace", target, "k", "a"), On("bob", "revoke", target, "k", None),
     On("bob", "replace", target, "k", "b")}

Creating ==
    {Request("ada", "create", None, "rule", "k", "a"), Request("ada", "create", None, "rule", "k", "b"),
     Request("bob", "create", None, "monitor", "k", "a")}

Create(kind) == Request("ada", "create", None, kind, "k", "a")

Testing ==
    {On("ada", "replace", "place", "k", "a"), On("ada", "test", "place", "k", None),
     On("bob", "test", "place", "k", None)}

Checking ==
    {On("ada", "replace", "site", "k", "off"), On("ada", "check", "site", "k", None),
     On("bob", "check", "site", "k", None)}

(* One update of a cluster with a new token, one that keeps the stored one. *)
Rotating ==
    {WithToken(On("ada", "replace", "pve", "", "a"), "new"), On("bob", "replace", "pve", "", "b")}

Moving == {On("ada", "reorder", "pve", "", "down"), On("bob", "reorder", "lab", "", "up")}

(* The second cluster is moved while it is updated. *)
MovingOne == {On("ada", "reorder", "lab", "", "up"), On("bob", "replace", "lab", "", "a")}

AllScenarios ==
    {Rivals("rule"), Rivals("site"), Rivals("place"), Ending("window"), Ending("silence"), Creating, Testing,
     Checking, Rotating, Moving, MovingOne,
     {Create("window"), Create("silence")}, {Create("destination"), Create("integration")},
     {On("ada", "replace", "other", "", "a"), On("bob", "replace", "other", "", "b")}}

Interchangeable == Permutations(Handlers)

MCFresh == {"new1", "new2", "new3"}
=============================================================================
