--------------------------- MODULE MCHookPipeline ---------------------------
(***************************************************************************)
(* Instances of HookPipeline: a checkout, a worktree of it, a checkout of  *)
(* another tenant, and three machines: with roots, without, and with a     *)
(* root inside a checkout.                                                 *)
(***************************************************************************)
EXTENDS HookPipeline, TLC

CONSTANTS app, tree, acme, inApp, inAcme

MCCheckouts == {app, tree, acme}
MCFolders == {inApp, inAcme}

All == [git |-> TRUE, files |-> TRUE]
NoFiles == [git |-> TRUE, files |-> FALSE]
NoGit == [git |-> FALSE, files |-> TRUE]

Standing(policy, remote) ==
    [there |-> TRUE, head |-> 1, tree |-> 1, dirty |-> 0, branch |-> "on", remote |-> remote, policy |-> policy]

Dirs(tenants) ==
    [at |-> (inApp :> app) @@ (inAcme :> acme),
     tenant |-> tenants,
     near |-> {<<inApp, app>>, <<inApp, tree>>, <<inAcme, acme>>},
     main |-> (app :> app) @@ (tree :> app) @@ (acme :> acme),
     above |-> (app :> None) @@ (tree :> app) @@ (acme :> None)]

Rooted == [p \in Places |-> IF p \in {acme, inAcme} THEN acme ELSE app]
Rootless == [p \in Places |-> IF p \in {acme, inAcme} THEN acme ELSE None]
Nested == [p \in Places |-> IF p = inApp THEN app ELSE None]

OneRemote == "github.com/acme/app"
Disk(mainPolicy, treePolicy) ==
    (app :> Standing(mainPolicy, OneRemote))
        @@ (tree :> Standing(treePolicy, OneRemote))
        @@ (acme :> Standing(All, None))

(* world counts what of the bound MaxMishaps is already spent.             *)
Machine(tenants, mainPolicy, treePolicy, spent) ==
    [dirs |-> Dirs(tenants), disk |-> Disk(mainPolicy, treePolicy), cwd |-> inApp, world |-> spent]

MCLayouts ==
    {Machine(Rooted, All, NoFiles, 0), Machine(Rootless, NoFiles, NoGit, 1)}

NestedLayout == {Machine(Nested, All, All, 0)}

Shell(c) == [shell |-> c, file |-> None, open |-> None, access |-> None]
File(c, access) == [shell |-> None, file |-> c, open |-> None, access |-> access]

MCCalls == {Shell(tree), File(tree, "edit")}

=============================================================================
