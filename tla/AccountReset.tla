------------------------------ MODULE AccountReset ------------------------------
(***************************************************************************)
(* What `sync --reset` may remove (src/src/sync.rs): operators on paths,   *)
(* which are sequences of names, and on the process's environment:         *)
(*   home    the home directory, as the environment names it               *)
(*   cwd     the working directory                                         *)
(*   git     the directories with a .git                                   *)
(*   root    the mail root as it is configured                             *)
(*   links   symbolic links to directories, with what they lead to         *)
(***************************************************************************)
EXTENDS Naturals, Sequences

CONSTANT PathNames

Paths == Seq(PathNames)

Environments == [home : Paths, cwd : Paths, git : SUBSET Paths, root : Paths,
                 links : SUBSET [from : Paths, to : Paths]]

StartsWith(path, dir) ==
  /\ Len(dir) <= Len(path)
  /\ \A i \in 1..Len(dir) : path[i] = dir[i]

IsParent(dir, path) == Len(path) = Len(dir) + 1 /\ StartsWith(path, dir)

(* canonicalize, and resolve_canonical where the path does not exist: the   *)
(* link on the path is followed.                                            *)
Canonical(env, path) ==
  IF \E link \in env.links : StartsWith(path, link.from)
  THEN LET link == CHOOSE link \in env.links : StartsWith(path, link.from)
       IN  link.to \o SubSeq(path, Len(link.from) + 1, Len(path))
  ELSE path

\* A mail root that does not exist is taken as it is.
ManagedRoot(env, tree) ==
  IF Canonical(env, env.root) \in tree THEN Canonical(env, env.root) ELSE env.root

\* The nearest enclosing repository of the working directory, if there is one.
RepoRoots(env) ==
  {repo \in env.git : /\ StartsWith(env.cwd, repo)
                      /\ \A other \in env.git :
                           StartsWith(env.cwd, other) => StartsWith(repo, other)}

Dangerous(env) == {env.home, env.cwd} \union RepoRoots(env)

\* A custom directory is in none of them, and is the parent of none.
RejectsTarget(env, target) ==
  \E dir \in Dangerous(env) : StartsWith(target, dir) \/ IsParent(target, dir)

\* Mutant: the mail root may be above the home directory.
MayBeAboveHome(env, root) ==
  /\ root # <<>>
  /\ \A dir \in {env.cwd} \union RepoRoots(env) :
       ~StartsWith(dir, root) /\ ~StartsWith(root, dir)

\* The mail root may be in the home directory, not in cwd or a repository.
RootIsSafe(env, root) ==
  /\ root # <<>>
  /\ \A dir \in Dangerous(env) : ~StartsWith(dir, root)
  /\ \A dir \in {env.cwd} \union RepoRoots(env) : ~StartsWith(root, dir)

(* validate_reset, for the directory of an account that is its own (custom) *)
(* or that is managed under the mail root.                                  *)
MayReset(env, tree, target, custom, confirmed) ==
  LET root == ManagedRoot(env, tree) IN
  /\ target # <<>>
  /\ ~StartsWith(root, target)
  /\ IF custom THEN confirmed /\ ~RejectsTarget(env, target)
     ELSE RootIsSafe(env, root) /\ StartsWith(target, root)
=============================================================================
