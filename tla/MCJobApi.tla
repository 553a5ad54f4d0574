------------------------------- MODULE MCJobApi -------------------------------
(* Instances of JobApi for TLC. *)
EXTENDS JobApi, TLC

CONSTANTS r1, r2, r3, admin, alice, bob

Body(form, dest) == [webformId |-> form, destination_system |-> dest, name |-> "a"]
New(sub, body)     == [sub |-> sub, op |-> "create", job |-> NoJob, body |-> body]
Put(sub, j, body)  == [sub |-> sub, op |-> "put", job |-> j, body |-> body]
Patch(sub, j, col, v) == [sub |-> sub, op |-> "patch", job |-> j, body |-> col :> v]
Delete(sub, j)     == [sub |-> sub, op |-> "delete", job |-> j, body |-> <<>>]

\* Two jobs that every edit may bring to the same key, and a misrouted one.
Basic ==
  {New(alice, Body("f1", "d1")), New(alice, Body("f2", "d1")), New(alice, Body("f1", "d2")),
   New(alice, Body("f1", "nowhere")), New(admin, Body("f1", "d1") @@ "owner" :> alice)}
  \cup UNION {{Put(alice, j, Body("f1", "d2")), Put(admin, j, Body("f1", "d1") @@ "owner" :> bob),
               Patch(alice, j, "webformId", "f1"), Patch(alice, j, "destination_system", "d1"),
               Patch(alice, j, "destination_system", "nowhere"), Patch(alice, j, "name", "b"),
               Patch(bob, j, "name", "c"), Delete(alice, j)} : j \in JobIds}

\* A PATCH with an explicit null.
Nulls == {New(alice, Body("f1", "d1")), Patch(alice, 1, "name", Null), Patch(alice, 1, "name", "b")}

\* A replacement beside an edit.
Replacements ==
  {New(alice, Body("f1", "d1")), Put(alice, 1, Body("f1", "d1")), Patch(alice, 1, "name", "b")}
===============================================================================
